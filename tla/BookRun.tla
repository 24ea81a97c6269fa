------------------------------- MODULE BookRun -------------------------------
(***************************************************************************)
(* One run of a whole book: BookRunService (services/book_runs.py), the    *)
(* API that asks, and BookWorkflowApplicationService (application/         *)
(* books.py), the handler of the RUN_BOOK job that executes it.            *)
(*                                                                         *)
(* The run and its top-level job are two rows that change in different     *)
(* transactions.  The handler runs the chapter workflows itself, one after *)
(* the other, snapshots the accepted versions, has the critic judge the    *)
(* snapshot and, once, revises the chapters the critic names.  Each action *)
(* is one transaction or one check of the control callback, so that a      *)
(* request, a crash or a fault may fall between any two.                   *)
(*                                                                         *)
(* A chapter workflow (module ChapterWorkflow) is a row here with an       *)
(* outcome: it promotes a version, needs review, fails or stops at a       *)
(* request.  The version that workflow w promotes is w + 1; version 1 was  *)
(* accepted before the run.  Calls, tokens and cost are one resource.      *)
(***************************************************************************)
EXTENDS Integers, Sequences, FiniteSets, FiniteSetsExt

CONSTANTS
    N,             \* planned chapters
    Prior,         \* chapters that may be accepted before the run
    Interval,      \* book_global_check_interval
    Estimate,      \* what the budget gate expects a chapter to use
    Uses,          \* what one chapter workflow may use
    Limits,        \* limits the run may be created or resumed with
    MaxRounds,     \* max_global_revision_rounds
    MaxTasks,      \* book_max_revision_chapters_per_round
    JobMaxAttempts,    \* max_attempts of the new job
    RegistryAttempts,  \* JobDefinition.max_attempts of RUN_BOOK
    Requests,      \* what a user may ask, see Ask
    MaxAsks,       \* bound on requests
    MaxCrashes,    \* bound on crashes of the worker process
    MaxFaults,     \* bound on database errors inside the handler
    MaxDisturbances  \* bound on the three together

ASSUME BookRunAssumption ==
    /\ N \in Nat \ {0}
    /\ Prior \subseteq 1..N
    /\ {Interval, Estimate, JobMaxAttempts, RegistryAttempts} \subseteq Nat \ {0}
    /\ Uses \subseteq Nat /\ Uses # {}
    /\ Limits \subseteq Nat /\ Limits # {}
    /\ {MaxRounds, MaxTasks, MaxAsks, MaxCrashes, MaxFaults, MaxDisturbances} \subseteq Nat
    /\ Requests \subseteq {"pause", "resume", "cancel", "job_pause", "job_resume",
                           "job_cancel", "job_retry"}

VARIABLES
    run,        \* the book_runs row
    job,        \* its top-level jobs row
    accepted,   \* accepted_version_id of every chapter, 0 when null
    workflows,  \* the workflow_runs rows of the project, oldest first
    snapshots,  \* the book_snapshots rows of the run with their evaluation
    asked,      \* critic requests whose idempotency key has succeeded
    thread,     \* the worker thread inside the RUN_BOOK handler
    user,       \* a request between two of its transactions
    asks, crashes, faults

rows == <<run, job, accepted, workflows, snapshots>>
bounds == <<asks, crashes, faults>>
Disturbable == asks + crashes + faults < MaxDisturbances
vars == <<rows, asked, thread, user, bounds>>

Chapters == 1..N

-----------------------------------------------------------------------------
(***************************************************************************)
(* The lifecycle of a run.                                                 *)
(***************************************************************************)

Terminal == {"completed", "completed_needs_review", "cancelled", "failed"}
Statuses == Terminal \cup
    {"pending", "planning_validation", "generating", "paused", "global_review",
     "global_revision", "budget_blocked", "cancel_requested"}

Allowed ==
    [s \in Statuses |->
       CASE s = "pending" -> {"planning_validation", "paused", "cancelled", "failed"}
         [] s = "planning_validation" ->
              {"generating", "paused", "cancel_requested", "failed"}
         [] s = "generating" ->
              {"global_review", "paused", "cancel_requested",
               "completed_needs_review", "budget_blocked", "failed"}
         [] s = "paused" ->
              {"planning_validation", "generating", "global_review", "cancelled"}
         [] s = "global_review" ->
              {"global_revision", "completed", "completed_needs_review", "paused",
               "cancel_requested", "budget_blocked", "failed"}
         [] s = "global_revision" ->
              {"global_review", "completed_needs_review", "paused",
               "cancel_requested", "budget_blocked", "failed"}
         [] s = "budget_blocked" -> {"generating", "global_review", "cancelled"}
         [] s = "cancel_requested" -> {"cancelled"}
         [] s \in Terminal -> {}]

\* transition_book_run raises InvalidStateError where CanGo is false.
CanGo(target) == target = run.status \/ target \in Allowed[run.status]

Settled == Terminal \cup {"paused", "budget_blocked"}

Marks == {"planned", "running", "accepted", "needs_review"}
Completed == Cardinality({c \in Chapters : run.map[c] \in {"accepted", "needs_review"}})

\* The status a run resumes in, from the API and from the handler.
ResumeTarget == IF Completed = N THEN "global_review" ELSE "generating"

JobStatuses == {"queued", "retry", "running", "pause_requested", "paused",
                "cancel_requested", "cancelled", "succeeded", "failed",
                "dead_lettered"}

Live == {"running", "paused"}
WorkflowStatuses ==
    Live \cup {"completed", "completed_needs_review", "failed", "cancelled"}

\* Mutant: the status of the linked workflow is not looked at.
LinkedBlindly(w, status) ==
    IF w # 0 THEN [workflows EXCEPT ![w].status = status.to] ELSE workflows

LinkedTo(w, status) ==
    IF w # 0 /\ workflows[w].status \in status.from
    THEN [workflows EXCEPT ![w].status = status.to]
    ELSE workflows

Used == FoldSet(LAMBDA w, sum : sum + workflows[w].used, 0, DOMAIN workflows)

\* What _update_usage adds up: the workflows with a child job, and this one.
Counted(w) ==
    FoldSet(LAMBDA v, sum : sum + workflows[v].used, 0,
            {v \in DOMAIN workflows : workflows[v].recorded} \cup {w})

-----------------------------------------------------------------------------

IdleThread == [pc |-> "idle", chapter |-> 0, wf |-> 0, tasks |-> <<>>,
               fresh |-> FALSE,
               snapshot |-> 0, again |-> FALSE, key |-> <<0, 0>>,
               verdict |-> "none", error |-> "none"]

Init ==
    /\ \E limit \in Limits, prior \in SUBSET Prior :
          /\ run = [status |-> "pending", current |-> 0, wf |-> 0,
                    map |-> [c \in Chapters |-> "planned"], calls |-> 0,
                    limit |-> limit, round |-> 0, snapshot |-> 0, best |-> 0]
          /\ accepted = [c \in Chapters |-> IF c \in prior THEN 1 ELSE 0]
    /\ job = [status |-> "queued", started |-> FALSE, wf |-> 0, attempt |-> 0,
              max |-> JobMaxAttempts]
    /\ workflows = <<>>
    /\ snapshots = <<>>
    /\ asked = {}
    /\ thread = IdleThread
    /\ user = "idle"
    /\ asks = 0 /\ crashes = 0 /\ faults = 0

At(pc) == thread.pc = pc
Goto(pc) == thread' = [thread EXCEPT !.pc = pc]
Leave == thread' = IdleThread

\* Mutant: the handler lets the exception pass without mark_failed.
RaiseUnmarked == thread' = [thread EXCEPT !.pc = "job_fail", !.error = "fatal"]
\* An exception that is not a request: mark_failed comes next.
Raise == thread' = [thread EXCEPT !.pc = "failing", !.error = "fatal"]

\* transition_book_run in a transaction of its own, or the exception.
Advance(target, pc) ==
    IF CanGo(target)
    THEN run' = [run EXCEPT !.status = target] /\ Goto(pc)
    ELSE UNCHANGED run /\ Raise

-----------------------------------------------------------------------------
(***************************************************************************)
(* The job around the handler: see module JobQueue for the whole protocol. *)
(***************************************************************************)

Claim ==
    /\ At("idle")
    /\ job.status \in {"queued", "retry"}
    /\ job' = [job EXCEPT !.status = "running", !.started = TRUE,
                          !.attempt = @ + 1]
    /\ Goto("enter")
    /\ UNCHANGED <<run, accepted, workflows, snapshots, asked, user, bounds>>

\* The control callback: JobExecutionContext.check_control.
Control(continue, pause, cancel) ==
    /\ Goto(CASE job.status = "cancel_requested" -> cancel
              [] job.status = "pause_requested" -> pause
              [] OTHER -> continue)
    /\ UNCHANGED <<rows, asked, user, bounds>>

\* The first check precedes the try block: the run is not marked.
Enter == At("enter") /\ Control("initialize", "job_pause", "job_cancel")

MarkPaused(next, refused) ==
    \/ /\ run.status \in Terminal \cup {"budget_blocked"}
       /\ UNCHANGED run /\ next
    \/ /\ run.status \notin Terminal \cup {"budget_blocked"}
       /\ IF CanGo("paused")
          THEN run' = [run EXCEPT !.status = "paused"] /\ next
          ELSE UNCHANGED run /\ refused

Pausing ==
    /\ At("pausing")
    /\ MarkPaused(Goto("job_pause"), Goto("job_fail"))
    /\ UNCHANGED <<job, accepted, workflows, snapshots, asked, user, bounds>>

Cancelling ==
    /\ At("cancelling")
    /\ \/ run.status \in Terminal /\ UNCHANGED run /\ Goto("job_cancel")
       \/ /\ run.status \notin Terminal
          /\ IF CanGo("cancel_requested")
             THEN run' = [run EXCEPT !.status = "cancelled"] /\ Goto("job_cancel")
             ELSE UNCHANGED run /\ Goto("job_fail")
    /\ UNCHANGED <<job, accepted, workflows, snapshots, asked, user, bounds>>

AfterError == IF thread.error = "retryable" THEN "job_retry" ELSE "job_fail"

Failing ==
    /\ At("failing")
    /\ \/ run.status \in Terminal /\ UNCHANGED run /\ Goto(AfterError)
       \/ /\ run.status \notin Terminal
          /\ IF CanGo("failed")
             THEN run' = [run EXCEPT !.status = "failed"] /\ Goto(AfterError)
             ELSE UNCHANGED run /\ Goto("job_fail")
    /\ UNCHANGED <<job, accepted, workflows, snapshots, asked, user, bounds>>

SetJob(status) == job' = [job EXCEPT !.status = status]

\* The attempts of the job are used up.
Exhausted == job.attempt >= job.max

\* The outcome transactions of JobExecutor; an illegal one raises in the
\* thread and leaves the job as it is: a retry that is left to a job with a
\* request on it.
JobOutcome ==
    /\ \/ At("job_pause") /\ (IF job.status \in {"running", "pause_requested"}
                              THEN SetJob("paused") ELSE UNCHANGED job)
       \/ At("job_cancel") /\ SetJob("cancelled")
       \/ At("job_fail") /\ SetJob("failed")
       \/ At("job_retry") /\ Exhausted /\ SetJob("dead_lettered")
       \/ At("job_retry") /\ ~Exhausted
          /\ (IF job.status = "running" THEN SetJob("retry") ELSE UNCHANGED job)
       \/ At("job_succeed")
          /\ SetJob(CASE job.status = "cancel_requested" -> "cancelled"
                      [] job.status = "pause_requested" -> "paused"
                      [] OTHER -> "succeeded")
    /\ Leave
    /\ UNCHANGED <<run, accepted, workflows, snapshots, asked, user, bounds>>

Crash ==
    /\ Disturbable /\ crashes < MaxCrashes /\ crashes' = crashes + 1
    /\ ~At("idle") /\ Leave
    /\ UNCHANGED <<rows, asked, user, asks, faults>>

\* recover_expired selects leased and running jobs only.
Recover ==
    /\ At("idle") /\ job.status = "running"
    /\ workflows' = LinkedTo(job.wf, [from |-> {"running"}, to |-> "paused"])
    /\ SetJob(IF Exhausted THEN "dead_lettered" ELSE "retry")
    /\ UNCHANGED <<run, accepted, snapshots, asked, thread, user, bounds>>

\* A transaction of the handler meets an OperationalError.  Inside a chapter
\* workflow it fails the workflow: see Work.  Before the try block, and where
\* the handler marks the run, the error leaves the handler at once.
Unguarded == {"enter", "pausing", "cancelling", "failing"}

DatabaseFault ==
    /\ Disturbable /\ faults < MaxFaults /\ faults' = faults + 1
    /\ thread.pc \notin {"idle", "work", "job_pause", "job_cancel", "job_fail",
                         "job_retry", "job_succeed"}
    /\ thread' = [thread EXCEPT !.pc = IF thread.pc \in Unguarded
                                       THEN "job_retry" ELSE "failing",
                                !.error = "retryable"]
    /\ UNCHANGED <<rows, asked, user, asks, crashes>>

-----------------------------------------------------------------------------
(***************************************************************************)
(* Generating the chapters.                                                *)
(***************************************************************************)

Initialize ==
    /\ At("initialize")
    /\ LET target == CASE run.status \in {"pending", "planning_validation"} -> "generating"
                       [] run.status \in {"paused", "budget_blocked"} -> ResumeTarget
                       [] run.status \in {"generating", "global_review"} -> run.status
                       [] OTHER -> "refused"
       IN  IF target = "refused"
           THEN UNCHANGED run /\ Raise
           ELSE run' = [run EXCEPT !.status = target] /\ Goto("schedule")
    /\ UNCHANGED <<job, accepted, workflows, snapshots, asked, user, bounds>>

\* Mutant: a chapter in review is scheduled again.
StopsNever(map) == FALSE
\* Without continue_after_needs_review one chapter in review stops the book.
Stops(map) == \E c \in Chapters : map[c] = "needs_review"

\* _sync_already_accepted, the state read after it and the scheduler.
Schedule ==
    /\ At("schedule")
    /\ LET map == [c \in Chapters |-> IF accepted[c] # 0 THEN "accepted" ELSE run.map[c]]
           resuming == run.wf # 0 /\ run.current # 0 /\ map[run.current] = "running"
           unfinished == {c \in Chapters : map[c] # "accepted"}
           Go(c, pc) == thread' = [thread EXCEPT !.pc = pc, !.chapter = c]
       IN  /\ run' = [run EXCEPT !.map = map]
           /\ CASE resuming -> Go(run.current, "control")
                [] ~resuming /\ run.status = "cancel_requested" -> Goto("cancelling")
                [] ~resuming /\ run.status # "cancel_requested" ->
                     CASE \E c \in unfinished : map[c] = "running" -> Raise
                       [] unfinished = {} -> Goto("review_control")
                       [] Stops(map) -> Goto("finish_review")
                       [] OTHER -> Go(Min(unfinished), "gate")
    /\ UNCHANGED <<job, accepted, workflows, snapshots, asked, user, bounds>>

Fits == run.calls + Estimate <= run.limit

BudgetGate ==
    /\ At("gate")
    /\ \/ Fits /\ UNCHANGED run /\ Goto("control")
       \/ ~Fits /\ Advance("budget_blocked", "pausing")
    /\ UNCHANGED <<job, accepted, workflows, snapshots, asked, user, bounds>>

ChapterControl == At("control") /\ Control("mark", "pausing", "cancelling")

MarkRunning ==
    /\ At("mark")
    /\ run' = [run EXCEPT !.map[thread.chapter] = "running", !.current = thread.chapter]
    /\ Goto("start")
    /\ UNCHANGED <<job, accepted, workflows, snapshots, asked, user, bounds>>

\* The new run is linked to the book run and its job in its own transaction.
NewWorkflow(c, operation, rest) ==
    IF \E w \in DOMAIN workflows : workflows[w].chapter = c /\ workflows[w].status \in Live
    THEN Raise /\ UNCHANGED <<run, job, workflows>>
    ELSE LET w == Len(workflows) + 1 IN
         /\ workflows' = Append(workflows,
                                [chapter |-> c, operation |-> operation,
                                 status |-> "running", used |-> 0, recorded |-> FALSE])
         /\ run' = [run EXCEPT !.wf = w]
         /\ job' = [job EXCEPT !.wf = w]
         /\ thread' = [thread EXCEPT !.pc = "work", !.wf = w, !.fresh = TRUE,
                                     !.chapter = c, !.tasks = rest]

CurrentWorkflow == IF run.current = thread.chapter THEN run.wf ELSE 0

StartChapter ==
    /\ At("start")
    /\ LET w == CurrentWorkflow IN
       IF w = 0 THEN NewWorkflow(thread.chapter, "generate", <<>>)
       ELSE /\ CASE workflows[w].status = "paused" ->
                      /\ workflows' = [workflows EXCEPT ![w].status = "running"]
                      /\ thread' = [thread EXCEPT !.pc = "work", !.wf = w, !.fresh = FALSE]
                 [] workflows[w].status \in {"completed", "completed_needs_review"} ->
                      /\ UNCHANGED workflows
                      /\ thread' = [thread EXCEPT !.pc = "record", !.wf = w]
                 [] OTHER -> UNCHANGED workflows /\ Raise
            /\ UNCHANGED <<run, job>>
    /\ UNCHANGED <<accepted, snapshots, asked, user, bounds>>

\* The chapter workflow runs until it ends or stops at a request.  Only the
\* workflows of the first pass are given the control callback.
WorkEnds(w) ==
    LET operation == workflows[w].operation
        observed == operation = "generate"
    IN  {"completed", "completed_needs_review", "failed"}
        \cup {s \in {"running"} : thread.fresh}
        \cup {s \in {"paused"} : observed /\ job.status = "pause_requested"}
        \cup {s \in {"cancelled"} : observed /\ job.status = "cancel_requested"}

\* A targeted revision may end with the version it started from.
Promotable(w) ==
    {w + 1} \cup
    {v \in {accepted[workflows[w].chapter]} : workflows[w].operation = "targeted_revision"}

Work ==
    /\ At("work")
    /\ \E end \in WorkEnds(thread.wf), use \in Uses :
          LET w == thread.wf
              c == workflows[w].chapter
              revision == workflows[w].operation = "targeted_revision"
          IN  /\ workflows' = [workflows EXCEPT ![w].status = end, ![w].used = @ + use]
              /\ IF end = "completed"
                 THEN \E v \in Promotable(w) : accepted' = [accepted EXCEPT ![c] = v]
                 ELSE UNCHANGED accepted
              /\ CASE end \in {"failed", "running"} -> Raise
                   [] end = "paused" -> Goto("pausing")
                   [] end \in {"completed_needs_review", "cancelled"} ->
                        IF revision THEN Raise ELSE Goto("record")
                   [] end = "completed" -> Goto("record")
    /\ UNCHANGED <<run, job, snapshots, asked, user, bounds>>

Recorded(w) == IF workflows[w].status = "completed" THEN "accepted" ELSE "needs_review"

\* Mutant: the run keeps its reference to the finished workflow.
RecordKeepsLink ==
    /\ At("record")
    /\ run' = [run EXCEPT !.map[thread.chapter] = Recorded(thread.wf)]
    /\ job' = [job EXCEPT !.wf = 0]
    /\ workflows' = [workflows EXCEPT ![thread.wf].recorded = TRUE]
    /\ Goto("usage")
    /\ UNCHANGED <<accepted, snapshots, asked, user, bounds>>

RecordCompletion ==
    /\ At("record")
    /\ run' = [run EXCEPT !.wf = 0, !.map[thread.chapter] = Recorded(thread.wf)]
    /\ job' = [job EXCEPT !.wf = 0]
    /\ workflows' = [workflows EXCEPT ![thread.wf].recorded = TRUE]
    /\ Goto("usage")
    /\ UNCHANGED <<accepted, snapshots, asked, user, bounds>>

UpdateUsage ==
    /\ At("usage")
    /\ run' = [run EXCEPT !.calls = Counted(thread.wf)]
    /\ LET w == workflows[thread.wf] IN
       CASE w.operation = "targeted_revision" -> Goto("revise")
         [] w.operation = "generate" /\ w.status = "completed" ->
              Goto(IF thread.chapter % Interval = 0 THEN "check_control" ELSE "schedule")
         [] w.status = "completed_needs_review" -> Goto("finish_review")
         [] w.status = "cancelled" -> Raise
    /\ UNCHANGED <<job, accepted, workflows, snapshots, asked, user, bounds>>

CheckControl == At("check_control") /\ Control("check", "pausing", "cancelling")

PeriodicCheck ==
    /\ At("check")
    /\ \/ UNCHANGED run /\ Goto("schedule")
       \/ Advance("paused", "pausing")      \* a critical conflict
    /\ UNCHANGED <<job, accepted, workflows, snapshots, asked, user, bounds>>

-----------------------------------------------------------------------------
(***************************************************************************)
(* The global review.                                                      *)
(***************************************************************************)

ReviewControl == At("review_control") /\ Control("review", "pausing", "cancelling")

SetGlobalReview ==
    /\ At("review")
    /\ run' = [run EXCEPT !.status = IF @ = "generating" THEN "global_review" ELSE @]
    /\ Goto("snapshot")
    /\ UNCHANGED <<job, accepted, workflows, snapshots, asked, user, bounds>>

\* Mutant: the hash covers the chapter numbers only.
SameChapters == DOMAIN snapshots
\* One snapshot per content hash: the same versions give the same row.
SameContent == {s \in DOMAIN snapshots : snapshots[s].map = accepted}

BuildSnapshot ==
    /\ At("snapshot")
    /\ LET next == IF thread.again THEN "analyze" ELSE "analysis_control"
           missing == \E c \in Chapters : accepted[c] = 0
           Freeze(s) == thread' = [thread EXCEPT !.pc = next, !.snapshot = s]
       IN  CASE missing -> Raise /\ UNCHANGED <<run, snapshots>>
             [] ~missing /\ SameContent # {} ->
                  Freeze(Min(SameContent)) /\ UNCHANGED <<run, snapshots>>
             [] OTHER ->
                  LET s == Len(snapshots) + 1 IN
                  /\ snapshots' = Append(snapshots, [map |-> accepted,
                                           status |-> "candidate", evaluation |-> "none"])
                  /\ run' = [run EXCEPT !.snapshot = s,
                                        !.best = IF @ = 0 THEN s ELSE @]
                  /\ Freeze(s)
    /\ UNCHANGED <<job, accepted, workflows, asked, user, bounds>>

AnalysisControl ==
    At("analysis_control") /\ Control("analyze", "pausing", "cancelling")

Verdicts == {"passed", "targeted_revision", "human_review"}

\* The request renders the chapters and their scores, which change when a
\* workflow evaluates.  The gateway of this execution answers a request it
\* has answered from its cache; one answered elsewhere is refused.
Request == <<thread.snapshot, Len(workflows)>>

Analyze ==
    /\ At("analyze")
    /\ \/ thread.key = Request /\ Goto("persist") /\ UNCHANGED asked
       \/ /\ thread.key # Request
          /\ \/ Raise /\ UNCHANGED asked
             \/ /\ Request \notin asked
                /\ asked' = asked \cup {Request}
                /\ \E v \in Verdicts :
                      thread' = [thread EXCEPT !.pc = "persist", !.key = Request,
                                               !.verdict = v]
    /\ UNCHANGED <<rows, user, bounds>>

\* An evaluation stored for the snapshot is kept; the fresh one decides.
PersistAnalysis ==
    /\ At("persist")
    /\ LET s == thread.snapshot IN
       snapshots' = IF snapshots[s].evaluation # "none" THEN snapshots
                    ELSE [snapshots EXCEPT ![s].evaluation = thread.verdict,
                                           ![s].status = "reviewed"]
    /\ Goto(CASE thread.verdict = "passed" -> "accept"
              [] thread.verdict # "passed" /\ thread.again -> "retain"
              [] OTHER -> "handle")
    /\ UNCHANGED <<run, job, accepted, workflows, asked, user, bounds>>

Superseding(s) ==
    [t \in DOMAIN snapshots |->
       IF t = s THEN [snapshots[t] EXCEPT !.status = "accepted"]
       ELSE IF snapshots[t].status = "accepted"
       THEN [snapshots[t] EXCEPT !.status = "superseded"] ELSE snapshots[t]]

AcceptSnapshot ==
    /\ At("accept")
    /\ snapshots' = Superseding(thread.snapshot)
    /\ Goto("complete")
    /\ UNCHANGED <<run, job, accepted, workflows, asked, user, bounds>>

FinishCompleted ==
    /\ At("complete")
    /\ IF CanGo("completed")
       THEN /\ run' = [run EXCEPT !.status = "completed", !.snapshot = thread.snapshot,
                                  !.best = thread.snapshot]
            /\ Goto("job_succeed")
       ELSE UNCHANGED run /\ Raise
    /\ UNCHANGED <<job, accepted, workflows, snapshots, asked, user, bounds>>

RoundsLeft == run.round < MaxRounds

HandleRevisionOrReview ==
    /\ At("handle")
    /\ IF snapshots[thread.snapshot].evaluation = "targeted_revision" /\ RoundsLeft
       THEN IF CanGo("global_revision")
            THEN /\ run' = [run EXCEPT !.status = "global_revision", !.round = @ + 1]
                 /\ Goto("plan")
            ELSE UNCHANGED run /\ Raise
       ELSE Advance("completed_needs_review", "retain")
    /\ UNCHANGED <<job, accepted, workflows, snapshots, asked, user, bounds>>

RetainSnapshot ==
    /\ At("retain")
    /\ snapshots' = [snapshots EXCEPT ![thread.snapshot].status = "needs_review"]
    /\ Goto(IF thread.again THEN "finish_review" ELSE "job_succeed")
    /\ UNCHANGED <<run, job, accepted, workflows, asked, user, bounds>>

\* BookRevisionPlanner: the chapters the critic names, worst first, no more
\* than are left in the budget.  Overdrawn tokens give a negative end of the
\* slice, which drops only the last chapters named.
Plans ==
    LET left == run.limit - run.calls
        most == IF left < 0 THEN N - 1 ELSE Min({MaxTasks, left, N})
    IN  {p \in UNION {[1..n -> Chapters] : n \in 0..most} :
           \A i, k \in DOMAIN p : p[i] = p[k] => i = k}

BuildRevisionPlan ==
    /\ At("plan")
    /\ \E p \in Plans : thread' = [thread EXCEPT !.pc = "revise", !.tasks = p]
    /\ UNCHANGED <<rows, asked, user, bounds>>

ReviseNext ==
    /\ At("revise") /\ thread.tasks # <<>>
    /\ NewWorkflow(Head(thread.tasks), "targeted_revision", Tail(thread.tasks))
    /\ UNCHANGED <<accepted, snapshots, asked, user, bounds>>

ReviewAgain ==
    /\ At("revise") /\ thread.tasks = <<>>
    /\ IF CanGo("global_review")
       THEN /\ run' = [run EXCEPT !.status = "global_review"]
            /\ thread' = [thread EXCEPT !.pc = "snapshot", !.again = TRUE]
       ELSE UNCHANGED run /\ Raise
    /\ UNCHANGED <<job, accepted, workflows, snapshots, asked, user, bounds>>

FinishNeedsReview ==
    /\ At("finish_review")
    /\ \/ /\ run.status \in {"completed", "completed_needs_review"}
          /\ UNCHANGED run /\ Goto("job_succeed")
       \/ /\ run.status \notin {"completed", "completed_needs_review"}
          /\ Advance("completed_needs_review", "job_succeed")
    /\ UNCHANGED <<job, accepted, workflows, snapshots, asked, user, bounds>>

-----------------------------------------------------------------------------
(***************************************************************************)
(* The user: BookRunService changes the run and the job one after the      *)
(* other; the requests on jobs reach the job alone.                        *)
(***************************************************************************)

Ask(request) ==
    /\ user = "idle" /\ request \in Requests
    /\ Disturbable /\ asks < MaxAsks /\ asks' = asks + 1
    /\ UNCHANGED <<crashes, faults>>

Pausable == {"planning_validation", "generating", "global_review", "global_revision"}

RequestPause ==
    /\ Ask("pause") /\ run.status \in Pausable
    /\ user' = "pausing_job"
    /\ UNCHANGED <<rows, asked, thread>>

\* JobService.request_pause; it refuses a job in any other status.
PauseJob ==
    IF job.status = "queued" /\ ~job.started THEN SetJob("paused")
    ELSE IF job.status \in {"queued", "running"} THEN SetJob("pause_requested")
    ELSE UNCHANGED job

PauseTheJob ==
    /\ user = "pausing_job"
    /\ PauseJob
    /\ user' = IF job'.status = "paused" THEN "pausing_run" ELSE "idle"
    /\ UNCHANGED <<run, accepted, workflows, snapshots, asked, thread, bounds>>

PauseTheRun ==
    /\ user = "pausing_run" /\ user' = "idle"
    /\ MarkPaused(TRUE, TRUE)
    /\ UNCHANGED <<job, accepted, workflows, snapshots, asked, thread, bounds>>

\* A new limit must cover the calls made; without one the old limit stays.  A
\* run is paused or blocked only after _initialize has set current_node, so
\* that resume never finds it "pending".
RequestResume ==
    /\ Ask("resume") /\ run.status \in {"paused", "budget_blocked"}
    /\ \E limit \in {run.limit} \cup {l \in Limits : l >= run.calls} :
          run' = [run EXCEPT !.status = ResumeTarget, !.limit = limit]
    /\ user' = "resuming_job"
    /\ UNCHANGED <<job, accepted, workflows, snapshots, asked, thread>>

ResumeJob == IF job.status = "paused" THEN SetJob("queued") ELSE UNCHANGED job

ResumeTheJob ==
    /\ user = "resuming_job" /\ user' = "idle"
    /\ ResumeJob
    /\ UNCHANGED <<run, accepted, workflows, snapshots, asked, thread, bounds>>

RequestCancel ==
    /\ Ask("cancel") /\ run.status \notin Terminal
    /\ LET target == IF run.status \in {"paused", "budget_blocked"}
                     THEN "cancelled" ELSE "cancel_requested"
       IN  CanGo(target) /\ run' = [run EXCEPT !.status = target]
    /\ user' = "cancelling_job"
    /\ UNCHANGED <<job, accepted, workflows, snapshots, asked, thread>>

\* JobService.request_cancel, with the workflow linked to the job.
CancelJob ==
    IF job.status \in {"cancelled", "succeeded", "failed", "dead_lettered",
                       "cancel_requested"}
    THEN UNCHANGED <<job, workflows>>
    ELSE IF ~job.started \/ job.status = "paused"
    THEN /\ SetJob("cancelled")
         /\ workflows' = LinkedTo(job.wf, [from |-> Live, to |-> "cancelled"])
    ELSE SetJob("cancel_requested") /\ UNCHANGED workflows

CancelTheJob ==
    /\ user = "cancelling_job"
    /\ CancelJob
    /\ user' = IF job.status # "cancelled" /\ job'.status = "cancelled"
               THEN "cancelling_run" ELSE "idle"
    /\ UNCHANGED <<run, accepted, snapshots, asked, thread, bounds>>

CancelTheRun ==
    /\ user = "cancelling_run" /\ user' = "idle"
    /\ run' = [run EXCEPT !.status = IF @ = "cancel_requested" THEN "cancelled" ELSE @]
    /\ UNCHANGED <<job, accepted, workflows, snapshots, asked, thread, bounds>>

\* The same requests on the job itself; the run is not told.
JobRequest ==
    /\ \/ Ask("job_pause") /\ PauseJob /\ UNCHANGED workflows
       \/ Ask("job_resume") /\ ResumeJob /\ UNCHANGED workflows
       \/ Ask("job_cancel") /\ CancelJob
       \/ Ask("job_retry") /\ UNCHANGED workflows
          /\ job.status = "dead_lettered"
          /\ job' = [job EXCEPT !.status = "queued",
                                !.max = job.attempt + RegistryAttempts]
    /\ UNCHANGED <<run, accepted, snapshots, asked, thread, user>>

-----------------------------------------------------------------------------

Handler ==
    \/ Enter \/ Initialize \/ Schedule \/ BudgetGate \/ ChapterControl
    \/ MarkRunning \/ StartChapter \/ Work \/ RecordCompletion \/ UpdateUsage
    \/ CheckControl \/ PeriodicCheck \/ ReviewControl \/ SetGlobalReview
    \/ BuildSnapshot \/ AnalysisControl \/ Analyze \/ PersistAnalysis
    \/ AcceptSnapshot \/ FinishCompleted \/ HandleRevisionOrReview
    \/ RetainSnapshot \/ BuildRevisionPlan \/ ReviseNext \/ ReviewAgain
    \/ FinishNeedsReview \/ Pausing \/ Cancelling \/ Failing \/ JobOutcome

Api == PauseTheJob \/ PauseTheRun \/ ResumeTheJob \/ CancelTheJob \/ CancelTheRun

User == RequestPause \/ RequestResume \/ RequestCancel \/ JobRequest

Next == Claim \/ Handler \/ Recover \/ Api \/ User \/ Crash \/ DatabaseFault

Spec == Init /\ [][Next]_vars

\* The worker claims what it is sent and its thread goes on; the dispatcher
\* process recovers leases; a request that has begun is answered.
Fairness == WF_vars(Claim \/ Handler) /\ WF_vars(Recover) /\ WF_vars(Api)

FairSpec == Spec /\ Fairness

-----------------------------------------------------------------------------
(***************************************************************************)
(* Properties.                                                             *)
(***************************************************************************)

\* The rows keep their types and every reference names a row.
TypeOK ==
    /\ run \in [status : Statuses, current : 0..N, wf : 0..Len(workflows),
                map : [Chapters -> Marks], calls : Nat, limit : Limits,
                round : 0..MaxRounds, snapshot : 0..Len(snapshots),
                best : 0..Len(snapshots)]
    /\ job.status \in JobStatuses /\ job.wf \in 0..Len(workflows)
    /\ accepted \in [Chapters -> 0..(Len(workflows) + 1)]
    /\ \A w \in DOMAIN workflows :
          workflows[w].status \in WorkflowStatuses /\ workflows[w].chapter \in Chapters
    /\ \A s \in DOMAIN snapshots :
          /\ snapshots[s].status \in {"candidate", "reviewed", "accepted",
                                      "needs_review", "superseded"}
          /\ snapshots[s].evaluation \in Verdicts \cup {"none"}

\* A chapter the run reports as accepted has an accepted version: the map is
\* written by the handler, by the synchronisation with the chapters and from
\* the result of a workflow the run found by reference.
AcceptedHasVersion ==
    \A c \in Chapters : run.map[c] = "accepted" => accepted[c] # 0

\* Until a process dies, or a second database error strikes, no workflow has
\* ended without the run being told or marked as failed.
NothingLost == crashes = 0 /\ faults <= 1

\* As long as nothing is lost the report is true whatever users ask for and
\* whatever fails.  An error between the end of a workflow and its record
\* (_record_chapter_completion) marks the run as failed; a second one in
\* mark_failed has the same effect as a crash.
ReportIsTrue == NothingLost => AcceptedHasVersion

\* A chapter is generated once in a run: a pause, a resume, a retry or a crash
\* continues the workflow there is.
GeneratedOnce ==
    \A v, w \in DOMAIN workflows :
       /\ workflows[v].chapter = workflows[w].chapter
       /\ workflows[v].operation = "generate" /\ workflows[w].operation = "generate"
       => v = w

\* A completed run stands on a snapshot that is accepted, holds the versions
\* that are accepted now and passed its evaluation in the analysis that
\* accepted it.
CompletedIsWhole ==
    run.status = "completed" =>
       /\ run.snapshot # 0
       /\ snapshots[run.snapshot].status = "accepted"
       /\ snapshots[run.snapshot].map = accepted
       /\ \A c \in Chapters : accepted[c] # 0 /\ run.map[c] = "accepted"

\* A chapter is begun only after every earlier chapter has an accepted
\* version, and only when all the calls made for chapters so far leave room
\* for it.  A crash, or an error in mark_failed, loses both the mark and the
\* count of a chapter.
BegunInOrder ==
    [][Len(workflows') > Len(workflows) /\ NothingLost =>
         LET begun == workflows'[Len(workflows')] IN
         begun.operation = "generate" =>
            /\ \A c \in 1..(begun.chapter - 1) : accepted[c] # 0
            /\ Used + Estimate <= run.limit]_vars

\* Without requests a run that is being executed ends, pauses or is blocked,
\* or its job is dead-lettered: a worker that dies and an error outside the
\* try block of _run_book use up attempts, and nothing tells the run of the
\* last one (recover_expired, _retry_or_dead_letter).
RunSettles ==
    [](asks = 0) =>
        (job.status = "running" ~>
            run.status \in Settled \/ job.status = "dead_lettered")

\* The same whatever becomes of the job.  The code does not keep this: a job
\* that is dead-lettered leaves its run as it was, generating say, until an
\* operator retries the job or cancels the run.
RunAlwaysSettles ==
    [](asks = 0) => (job.status = "running" ~> run.status \in Settled)

\* A run that was asked to cancel is cancelled in the end.  The code does not
\* keep this: see BookCancel.cfg.
CancelSettles == run.status = "cancel_requested" ~> run.status \in Terminal

\* The workflows of one chapter, as ChapterLifecycle sees them.
RunsOf(c) == {w \in DOMAIN workflows : workflows[w].chapter = c}
Chapter(c) == INSTANCE ChapterLifecycle WITH
    phase <- [w \in RunsOf(c) |-> workflows[w].status],
    accepted <- accepted[c],
    canon <- {accepted[c]} \ {0}

\* The phase of JobLifecycle that a job status belongs to.
PhaseOf ==
    [s \in JobStatuses |->
       CASE s \in {"queued", "retry"} -> "waiting"
         [] s = "pause_requested"     -> "pausing"
         [] s = "cancel_requested"    -> "cancelling"
         [] s = "dead_lettered"       -> "dead"
         [] OTHER                     -> s]
Job == INSTANCE JobLifecycle WITH
    Jobs <- {1}, phase <- [j \in {1} |-> PhaseOf[job.status]],
    runs <- [j \in {1} |-> job.attempt]

\* The parts that are single rows here keep what their own modules promise in
\* every step: a chapter's workflows live as ChapterLifecycle says, one at a
\* time, and the top-level job takes the steps of JobLifecycle only, although
\* the run, the job and the workflows change in different transactions
\* (_execute_chapter, _link_workflow, JobExecutor).
PartsKeepTheirLifecycles ==
    /\ \A c \in Chapters : Chapter(c)!Init
    /\ [][/\ \A c \in Chapters : [Chapter(c)!Next]_(Chapter(c)!chapterVars)
          /\ [Job!Next]_(Job!lifecycleVars)]_vars
==============================================================================

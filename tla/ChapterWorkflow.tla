--------------------------- MODULE ChapterWorkflow ---------------------------
(***************************************************************************)
(* The durable chapter workflow: ChapterWorkflowService                    *)
(* (services/workflow.py), a LangGraph graph with a checkpoint after every *)
(* node, and the version service behind its nodes                          *)
(* (services/versioning.py, services/evaluation_service.py,                *)
(* evaluation/scoring.py, revision/acceptance.py).                         *)
(*                                                                         *)
(* One chapter and one workflow run.  An execution is a thread inside run  *)
(* or resume.  A node is entered (the control callback and _node_started), *)
(* acts (its transactions, around a provider call where it makes one) and  *)
(* is done (the checkpoint of its result).  A crash may fall between any   *)
(* two of these.                                                           *)
(*                                                                         *)
(* Version 1 is the draft, version n + 1 is what revision n produced: the  *)
(* idempotency keys generate_draft:0 and revise_draft:n name exactly these *)
(* rows.  The facts of a version are created in one transaction and only   *)
(* change together, so a version has one fact status.                      *)
(***************************************************************************)
EXTENDS Integers, FiniteSets

CONSTANTS
    Executions,      \* threads that may run the workflow
    NoOne,           \* not an execution
    MaxRevisions,    \* max_revision_attempts of the run
    Operations,      \* operations a run may be started with
    Prior,           \* {TRUE}: version 1 exists and is accepted before the run
    Outcomes,        \* what the evaluators may find in a text
    Failures,        \* how a provider call may fail
    Requests,        \* what a user may ask: pause, cancel (of the job),
                     \* pause_after (at the start), abort (cancel of the run)
    MaxAsks,         \* bound on the requests of a user
    MaxCrashes,      \* bound on crashes of a worker process
    MaxStalls,       \* bound on leases lost by an execution that lives on
    MaxOutside,      \* bound on evaluations outside the workflow
    MaxDisturbances  \* bound on all of these together

Outcome == [critical : 0..2, high : BOOLEAN, other : BOOLEAN, level : 0..2]

ASSUME WorkflowAssumption ==
    /\ NoOne \notin Executions
    /\ MaxRevisions \in Nat
    /\ Operations \subseteq {"generate", "targeted_revision"} /\ Operations # {}
    /\ Prior \subseteq BOOLEAN /\ Prior # {}
    /\ Outcomes \subseteq Outcome /\ Outcomes # {}
    /\ Failures \subseteq {"error", "budget"}
    /\ Requests \subseteq {"pause", "cancel", "pause_after", "abort"}
    /\ {MaxAsks, MaxCrashes, MaxStalls, MaxOutside, MaxDisturbances} \subseteq Nat

VARIABLES
    run,         \* the workflow_runs row
    chapter,     \* the chapters row
    version,     \* chapter_versions and facts: the status of both
    keyed,       \* the evaluation of each version made by this run
    latest,      \* the latest evaluation of each version
    comparison,  \* the comparison decision of each revision
    claimed,     \* provider requests whose idempotency key is active or succeeded
    checkpoint,  \* the newest checkpoint and the one before it
    thread,      \* what each execution is doing
    owner,       \* the execution that holds the job's lease
    request,     \* a request pending on the job
    outside,     \* the version an evaluation outside the workflow works on
    asks, crashes, stalls, evaluations    \* how often the bounded steps happened

rows == <<run, chapter, version, keyed, latest, comparison>>
bounds == <<asks, crashes, stalls, evaluations>>
Disturbable == asks + crashes + stalls + evaluations < MaxDisturbances
vars == <<rows, claimed, checkpoint, thread, owner, request, outside, bounds>>

\* A revision more than the limit: see DecideAfterEvaluation.
Versions == 1..(MaxRevisions + 2)
Ids == {0} \cup Versions        \* 0 is a null reference

-----------------------------------------------------------------------------
(***************************************************************************)
(* Types.                                                                  *)
(***************************************************************************)

Terminal == {"completed", "completed_needs_review", "failed", "cancelled"}
RunStatuses == {"none", "running", "paused"} \cup Terminal

Evaluatable == {"generated", "evaluated_passed", "evaluated_needs_revision",
                "evaluation_failed", "accepted", "workflow_running", "drafting",
                "revising"}
ChapterStatuses ==
    Evaluatable \cup {"planned", "evaluating", "needs_human_review",
                     "workflow_failed"}

VersionStatuses == {"none", "draft", "revision", "evaluated", "accepted",
                    "rejected", "superseded", "needs_review"}
FactStatuses == {"none", "candidate", "accepted", "rejected", "superseded"}

Decisions == {"none", "accept_new", "keep_old_retry", "keep_old_stop", "human_review"}

ProviderNodes == {"generate_draft", "extract_facts", "evaluate_draft",
                  "revise_draft", "extract_revision_facts", "evaluate_revision"}
EvaluationNodes == {"evaluate_draft", "evaluate_revision"}
ExtractionNodes == {"extract_facts", "extract_revision_facts"}
PausableNodes ==
    ProviderNodes \cup
    {"initialize_workflow", "load_context", "decide_after_evaluation",
     "build_revision_brief", "compare_versions", "decide_after_comparison",
     "reject_revision"}
Nodes == PausableNodes \cup {"accept_version", "mark_needs_human_review", "end"}

Positions == [node : Nodes, current : Ids, best : Ids, attempt : Nat]

Pcs == {"idle", "enter", "act", "call", "save", "done",
        "pausing", "cancelling", "failing", "blocking", "reviewing"}
Threads == [pc : Pcs, at : Positions, first : BOOLEAN]

Actions == {"none", "accept", "revise", "human_review", "reject"}
Evaluations == [critical : 0..2, reasons : 0..4, score : 0..2,
                passed : BOOLEAN, action : Actions]

NoEvaluation == [critical |-> 0, reasons |-> 0, score |-> 0,
                 passed |-> FALSE, action |-> "none"]

StartPosition == [node |-> "initialize_workflow", current |-> 0, best |-> 0,
                  attempt |-> 0]
IdleThread == [pc |-> "idle", at |-> StartPosition, first |-> FALSE]

Init ==
    /\ \E prior \in Prior, operation \in Operations :
          /\ run = [status |-> "none", operation |-> operation, prior |-> prior,
                    current |-> 0, best |-> 0, accepted |-> 0, attempt |-> 0]
          /\ chapter = IF prior
                       THEN [status |-> "accepted", current |-> 1, accepted |-> 1]
                       ELSE [status |-> "planned", current |-> 0, accepted |-> 0]
          /\ version = [v \in Versions |->
                          IF prior /\ v = 1
                          THEN [status |-> "accepted", facts |-> "accepted"]
                          ELSE [status |-> "none", facts |-> "none"]]
    /\ keyed = [v \in Versions |-> NoEvaluation]
    /\ latest = [v \in Versions |-> NoEvaluation]
    /\ comparison = [v \in Versions |-> "none"]
    /\ claimed = {}
    /\ checkpoint = [now |-> StartPosition, before |-> StartPosition]
    /\ thread = [e \in Executions |-> IdleThread]
    /\ owner = NoOne
    /\ request = "none"
    /\ outside = 0
    /\ asks = 0 /\ crashes = 0 /\ stalls = 0 /\ evaluations = 0

-----------------------------------------------------------------------------
(***************************************************************************)
(* Evaluation and comparison of texts.  The level of a text is its         *)
(* weighted score: 0 is below 3, 2 is at the pass threshold.               *)
(***************************************************************************)

Count(condition) == IF condition THEN 1 ELSE 0

\* EvaluationScorer.combine with the default configuration: a critical
\* conflict caps the score below the pass threshold.
Scored(o) ==
    LET score == IF o.critical > 0 /\ o.level = 2 THEN 1 ELSE o.level
        reasons == Count(o.critical > 0) + Count(o.high) + Count(o.other)
                     + Count(score < 2)
    IN  [critical |-> o.critical, reasons |-> reasons, score |-> score,
         passed |-> reasons = 0,
         action |-> IF reasons = 0 THEN "accept"
                    ELSE IF o.critical > 1 \/ score = 0 THEN "reject"
                    ELSE IF o.critical > 0 \/ o.high THEN "human_review"
                    ELSE "revise"]

\* The chapter's status after a complete evaluation.
StatusOf(evaluation) ==
    IF evaluation.passed THEN "evaluated_passed" ELSE "evaluated_needs_revision"

\* What _persist_partial stores when the critic failed.
Partial(o) == [critical |-> o.critical, reasons |-> 1, score |-> 0,
               passed |-> FALSE, action |-> "human_review"]

\* _evaluation_rank: the order in which _better_version_id compares.
Better(new, old) ==
    \/ new.critical < old.critical
    \/ /\ new.critical = old.critical
       /\ \/ new.reasons < old.reasons
          \/ new.reasons = old.reasons /\ new.score > old.score

\* Mutant: the newest version is the best.
NewestIsBest(best, v) == v

\* _better_version_id.
BestOf(best, v) == IF Better(latest[v], latest[best]) THEN v ELSE best

\* The limit on revisions, at all three places where it is tested.
AtLimit(attempt) == attempt >= MaxRevisions

\* AcceptanceEvaluator.compare; unresolved: a requested revision task is still
\* open in the new text.
Decision(old, new, attempt, unresolved) ==
    LET retry == IF AtLimit(attempt) THEN "human_review" ELSE "keep_old_retry"
    IN  IF new.critical > old.critical
        THEN IF AtLimit(attempt) THEN "human_review" ELSE "keep_old_stop"
        ELSE IF new.passed /\ ~unresolved THEN "accept_new" ELSE retry

-----------------------------------------------------------------------------
(***************************************************************************)
(* Moves of an execution.                                                  *)
(***************************************************************************)

At(e, pc) == thread[e].pc = pc
AtNode(e, pc, nodes) == thread[e].pc = pc /\ thread[e].at.node \in nodes

SetPc(e, pc) == thread' = [thread EXCEPT ![e].pc = pc]

\* The node is complete: the graph continues at the position given.
Complete(e, position) ==
    thread' = [thread EXCEPT ![e].pc = "done", ![e].at = position]

\* The execution returns or raises to the job handler: a job it still owns
\* leaves RUNNING, and a request pending on it is spent.
End(e) ==
    /\ thread' = [thread EXCEPT ![e] = IdleThread]
    /\ IF owner = e THEN owner' = NoOne /\ request' = "none"
       ELSE UNCHANGED <<owner, request>>

\* Mutant: resume lets InvalidStateError through, as run does.
InvalidEscapes(e) == End(e)

\* InvalidStateError: run lets it through, resume marks the run failed.
Invalid(e) ==
    IF thread[e].first THEN End(e)
    ELSE SetPc(e, "failing") /\ UNCHANGED <<owner, request>>

\* The edges of the graph that do not depend on a decision.
Edge(node) ==
    CASE node = "initialize_workflow"    -> "load_context"
      [] node = "load_context"           -> "generate_draft"
      [] node = "generate_draft"         -> "extract_facts"
      [] node = "extract_facts"          -> "evaluate_draft"
      [] node = "evaluate_draft"         -> "decide_after_evaluation"
      [] node = "build_revision_brief"   -> "revise_draft"
      [] node = "revise_draft"           -> "extract_revision_facts"
      [] node = "extract_revision_facts" -> "evaluate_revision"
      [] node = "evaluate_revision"      -> "compare_versions"
      [] node = "compare_versions"       -> "decide_after_comparison"
      [] node = "reject_revision"        -> "build_revision_brief"
      [] OTHER                           -> "end"

Onward(e) == [thread[e].at EXCEPT !.node = Edge(@)]

Current(e) == thread[e].at.current

\* The version a provider node writes, and the key of its provider request.
Target(e) ==
    CASE thread[e].at.node = "generate_draft" -> 1
      [] thread[e].at.node = "revise_draft"   -> thread[e].at.attempt + 2
      [] OTHER                                -> Current(e)
Key(e) == <<thread[e].at.node, Target(e)>>

\* Versions created by this run carry its workflow_run_id.
Own(v) == v # 1 \/ ~run.prior

-----------------------------------------------------------------------------
(***************************************************************************)
(* Entering the graph and its nodes.                                       *)
(***************************************************************************)

\* ChapterWorkflowService.run.
Run(e) ==
    /\ run.status = "none"
    /\ \A d \in Executions : At(d, "idle")
    /\ thread' = [thread EXCEPT ![e] =
                    [pc |-> "enter", at |-> StartPosition, first |-> TRUE]]
    /\ owner' = e
    /\ UNCHANGED <<rows, claimed, checkpoint, request, outside, bounds>>

\* _initialize_workflow creates the run; replayed, it returns the state of the
\* row.  It has no control callback.
Initialize(e) ==
    /\ AtNode(e, "enter", {"initialize_workflow"})
    /\ \/ /\ run.status = "none"
          /\ run' = [run EXCEPT !.status = "running", !.current = chapter.current,
                                !.best = chapter.current,
                                !.accepted = chapter.accepted]
          /\ chapter' = [chapter EXCEPT !.status = "workflow_running"]
       \/ /\ run.status # "none"
          /\ UNCHANGED <<run, chapter>>
    /\ Complete(e, [node |-> "load_context", current |-> run'.current,
                    best |-> run'.best, attempt |-> run'.attempt])
    /\ UNCHANGED <<version, keyed, latest, comparison, claimed, checkpoint,
                   owner, request, outside, bounds>>

\* _node_started of every other node: the control callback raises the request
\* of the job; a cancelled run cannot enter another node.
Enter(e) ==
    /\ At(e, "enter")
    /\ thread[e].at.node \notin {"initialize_workflow", "end"}
    /\ \/ request = "pause" /\ SetPc(e, "pausing") /\ UNCHANGED <<owner, request>>
       \/ request = "cancel" /\ SetPc(e, "cancelling") /\ UNCHANGED <<owner, request>>
       \/ request = "none" /\ run.status = "cancelled" /\ Invalid(e)
       \/ request = "none" /\ run.status # "cancelled"
          /\ SetPc(e, "act") /\ UNCHANGED <<owner, request>>
    /\ UNCHANGED <<rows, claimed, checkpoint, outside, bounds>>

\* The node's checkpoint, then the next node, the end of the graph, or the stop
\* behind the pause_after node.  The execution waits for the checkpoint before
\* this one only.
Advance(e) ==
    LET at == thread[e].at
    IN  /\ At(e, "done")
        /\ checkpoint' = [now |-> at, before |-> checkpoint.now]
        /\ \/ /\ at.node = "end"
              /\ End(e)
              /\ UNCHANGED asks
           \/ /\ at.node # "end"
              /\ SetPc(e, "enter")
              /\ UNCHANGED <<owner, request, asks>>
           \/ /\ "pause_after" \in Requests /\ thread[e].first
              /\ at.node # "end"
              /\ asks < MaxAsks /\ Disturbable /\ asks' = asks + 1
              /\ SetPc(e, "pausing")
              /\ UNCHANGED <<owner, request>>
        /\ UNCHANGED <<rows, claimed, outside, crashes, stalls, evaluations>>

\* load_context and build_revision_brief write nothing; a revision starts from
\* the best version.
Read(e) ==
    /\ AtNode(e, "act", {"load_context", "build_revision_brief"})
    /\ Complete(e, IF thread[e].at.node = "load_context" THEN Onward(e)
                   ELSE [Onward(e) EXCEPT !.current = thread[e].at.best])
    /\ UNCHANGED <<rows, claimed, checkpoint, owner, request, outside, bounds>>

-----------------------------------------------------------------------------
(***************************************************************************)
(* The nodes that call a provider: look for the artifact, claim the        *)
(* request's key and call, save.                                           *)
(***************************************************************************)

\* ensure_initial_version finds the run's draft or takes the current version;
\* revise finds the revision of this attempt; extract_candidate_facts and
\* evaluate find what they stored.
Exists(e) ==
    LET node == thread[e].at.node
    IN  CASE node = "generate_draft" ->
               chapter.current # 0 \/ (~run.prior /\ version[1].status # "none")
          [] node = "revise_draft" -> version[Target(e)].status # "none"
          [] node \in ExtractionNodes -> version[Current(e)].facts # "none"
          [] node \in EvaluationNodes -> keyed[Current(e)] # NoEvaluation

\* The position after the node, its artifact being in place.
After(e) ==
    LET at == thread[e].at
        node == at.node
        draft == IF ~run.prior /\ version[1].status # "none" THEN 1
                 ELSE chapter.current
    IN  CASE node = "generate_draft" ->
               [Onward(e) EXCEPT !.current = IF Exists(e) THEN draft ELSE 1,
                                 !.best = IF @ # 0 THEN @
                                          ELSE IF Exists(e) THEN draft ELSE 1]
          [] node = "revise_draft" ->
               [Onward(e) EXCEPT !.current = Target(e), !.attempt = @ + 1]
          [] OTHER -> Onward(e)

\* What _evaluate_node writes to the run in either case.
RunEvaluated(e) ==
    run' = IF thread[e].at.node \in EvaluationNodes
           THEN [run EXCEPT !.current = Current(e),
                            !.best = IF @ = 0 THEN Current(e) ELSE @]
           ELSE run

Reuse(e) ==
    /\ AtNode(e, "act", ProviderNodes)
    /\ Exists(e)
    /\ RunEvaluated(e)
    /\ Complete(e, After(e))
    /\ UNCHANGED <<chapter, version, keyed, latest, comparison, claimed,
                   checkpoint, owner, request, outside, bounds>>

\* EvaluationService._load_context refuses a chapter that is being evaluated,
\* under review or failed.
MayStart(e) ==
    thread[e].at.node \in EvaluationNodes => chapter.status \in Evaluatable

\* The request is claimed; an evaluation marks the chapter first.
Claim(e) ==
    /\ AtNode(e, "act", ProviderNodes)
    /\ ~Exists(e)
    /\ \/ /\ ~MayStart(e)
          /\ Invalid(e)
          /\ UNCHANGED <<chapter, claimed>>
       \/ /\ MayStart(e)
          /\ chapter' = IF thread[e].at.node \in EvaluationNodes
                        THEN [chapter EXCEPT !.status = "evaluating"] ELSE chapter
          /\ IF Key(e) \in claimed
             THEN SetPc(e, "failing") /\ UNCHANGED claimed
             ELSE SetPc(e, "call") /\ claimed' = claimed \cup {Key(e)}
          /\ UNCHANGED <<owner, request>>
    /\ UNCHANGED <<run, version, keyed, latest, comparison, checkpoint, outside,
                   bounds>>

\* The provider answers: the key has succeeded, its response is in memory.
Answer(e) ==
    /\ At(e, "call")
    /\ SetPc(e, "save")
    /\ UNCHANGED <<rows, claimed, checkpoint, owner, request, outside, bounds>>

\* The provider fails: the key may be claimed again.  A failed critic leaves a
\* partial evaluation.
CallFails(e) ==
    /\ At(e, "call")
    /\ "error" \in Failures
    /\ claimed' = claimed \ {Key(e)}
    /\ \/ /\ thread[e].at.node \in EvaluationNodes
          /\ chapter.status = "evaluating"
          /\ \E o \in Outcomes :
                /\ keyed' = [keyed EXCEPT ![Current(e)] = Partial(o)]
                /\ latest' = [latest EXCEPT ![Current(e)] = Partial(o)]
          /\ version' = [version EXCEPT ![Current(e)].status = "evaluated"]
          /\ chapter' = [chapter EXCEPT !.status = "evaluation_failed"]
          /\ SetPc(e, "failing") /\ UNCHANGED <<owner, request>>
       \/ /\ thread[e].at.node \in EvaluationNodes
          /\ chapter.status # "evaluating"
          /\ Invalid(e)
          /\ UNCHANGED <<keyed, latest, version, chapter>>
       \/ /\ thread[e].at.node \notin EvaluationNodes
          /\ SetPc(e, "failing")
          /\ UNCHANGED <<owner, request, keyed, latest, version, chapter>>
    /\ UNCHANGED <<run, comparison, checkpoint, outside, bounds>>

\* The budget blocks the call.
CallBlocked(e) ==
    /\ At(e, "call")
    /\ "budget" \in Failures
    /\ claimed' = claimed \ {Key(e)}
    /\ SetPc(e, "blocking")
    /\ UNCHANGED <<rows, checkpoint, owner, request, outside, bounds>>

\* The writing transaction of ensure_initial_version: the version, unless the
\* key has been written meanwhile.
SaveDraft(e) ==
    /\ AtNode(e, "save", {"generate_draft"})
    /\ \/ /\ version[1].status = "none"
          /\ version' = [version EXCEPT ![1].status = "draft"]
          /\ chapter' = [chapter EXCEPT !.current = 1, !.status = "drafting"]
          /\ run' = [run EXCEPT !.current = 1, !.best = IF @ = 0 THEN 1 ELSE @]
       \/ /\ version[1].status # "none"
          /\ UNCHANGED <<version, chapter, run>>
    /\ Complete(e, After(e))
    /\ UNCHANGED <<keyed, latest, comparison, claimed, checkpoint, owner,
                   request, outside, bounds>>

\* The writing transaction of revise.
SaveRevision(e) ==
    LET v == Target(e)
    IN  /\ AtNode(e, "save", {"revise_draft"})
        /\ \/ /\ version[v].status = "none"
              /\ version' = [version EXCEPT ![v].status = "revision"]
              /\ chapter' = [chapter EXCEPT !.current = v, !.status = "revising"]
              /\ run' = [run EXCEPT !.current = v, !.attempt = thread[e].at.attempt + 1]
           \/ /\ version[v].status # "none"
              /\ UNCHANGED <<version, chapter, run>>
        /\ Complete(e, After(e))
        /\ UNCHANGED <<keyed, latest, comparison, claimed, checkpoint, owner,
                       request, outside, bounds>>

\* The writing transaction of extract_candidate_facts.
SaveFacts(e) ==
    /\ AtNode(e, "save", ExtractionNodes)
    /\ version' = [version EXCEPT ![Current(e)].facts =
                      IF @ = "none" THEN "candidate" ELSE @]
    /\ Complete(e, Onward(e))
    /\ UNCHANGED <<run, chapter, keyed, latest, comparison, claimed, checkpoint,
                   owner, request, outside, bounds>>

\* _persist_complete, and the run's pointers.
SaveEvaluation(e) ==
    LET v == Current(e)
    IN  /\ AtNode(e, "save", EvaluationNodes)
        /\ \/ /\ chapter.status = "evaluating"
              /\ \E o \in Outcomes :
                    /\ keyed' = [keyed EXCEPT ![v] = Scored(o)]
                    /\ latest' = [latest EXCEPT ![v] = Scored(o)]
                    /\ chapter' = [chapter EXCEPT !.status = StatusOf(Scored(o))]
              /\ version' = [version EXCEPT ![v].status = "evaluated"]
              /\ RunEvaluated(e)
              /\ Complete(e, Onward(e))
              /\ UNCHANGED <<owner, request>>
           \/ /\ chapter.status # "evaluating"
              /\ Invalid(e)
              /\ UNCHANGED <<keyed, latest, chapter, version, run>>
        /\ UNCHANGED <<comparison, claimed, checkpoint, outside, bounds>>


-----------------------------------------------------------------------------
(***************************************************************************)
(* The nodes that decide, compare and close.                               *)
(***************************************************************************)

\* _decide_after_evaluation, on the evaluation this run stored for the version.
RouteAfterEvaluation(at) ==
    LET evaluation == keyed[at.current]
    IN  IF run.operation = "targeted_revision" /\ at.attempt = 0
        THEN "build_revision_brief"
        ELSE IF evaluation.passed THEN "accept_version"
        ELSE IF evaluation.action = "reject" THEN "mark_needs_human_review"
        ELSE IF evaluation.action = "human_review" /\ evaluation.critical = 0
        THEN "mark_needs_human_review"
        ELSE IF ~AtLimit(at.attempt) THEN "build_revision_brief"
        ELSE "mark_needs_human_review"

RouteAfterComparison(at) ==
    IF comparison[at.current] = "accept_new" THEN "accept_version"
    ELSE IF comparison[at.current] = "keep_old_retry" /\ ~AtLimit(at.attempt)
    THEN "reject_revision"
    ELSE "mark_needs_human_review"

Decide(e) ==
    LET at == thread[e].at
    IN  /\ \/ /\ AtNode(e, "act", {"decide_after_evaluation"})
              /\ Complete(e, [at EXCEPT !.node = RouteAfterEvaluation(at)])
           \/ /\ AtNode(e, "act", {"decide_after_comparison"})
              /\ Complete(e, [at EXCEPT !.node = RouteAfterComparison(at)])
        /\ UNCHANGED <<rows, claimed, checkpoint, owner, request, outside, bounds>>

\* compare_versions, replayed from the stored comparison.  The run's best
\* version moves by rank, whatever the decision.
Compare(e) ==
    LET at == thread[e].at
    IN  /\ AtNode(e, "act", {"compare_versions"})
        /\ \/ /\ comparison[at.current] # "none"
              /\ UNCHANGED <<run, comparison>>
           \/ /\ comparison[at.current] = "none"
              /\ \E unresolved \in BOOLEAN :
                    comparison' = [comparison EXCEPT ![at.current] =
                        Decision(latest[at.best], latest[at.current], at.attempt,
                                 unresolved)]
              /\ run' = [run EXCEPT !.best = BestOf(@, at.current)]
        /\ Complete(e, [Onward(e) EXCEPT !.best = run'.best])
        /\ UNCHANGED <<chapter, version, keyed, latest, claimed, checkpoint,
                       owner, request, outside, bounds>>

\* _reject_revision: only a revision that did not become the best is rejected.
Reject(e) ==
    LET v == Current(e)
    IN  /\ AtNode(e, "act", {"reject_revision"})
        /\ \/ /\ v = thread[e].at.best
              /\ UNCHANGED <<run, chapter, version>>
           \/ /\ v # thread[e].at.best
              /\ version' = [version EXCEPT
                    ![v] = [status |-> "rejected",
                            facts |-> IF @.facts = "candidate" THEN "rejected"
                                      ELSE @.facts]]
              /\ run' = [run EXCEPT !.current = run.best]
              /\ chapter' = [chapter EXCEPT !.current = run.best,
                                            !.status = "workflow_running"]
        /\ Complete(e, [Onward(e) EXCEPT !.current =
                          IF v = thread[e].at.best THEN v ELSE run.best])
        /\ UNCHANGED <<keyed, latest, comparison, claimed, checkpoint, owner,
                       request, outside, bounds>>

\* Mutant: the texts are rejected, their facts stay candidates.
DiscardedTextOnly(row) ==
    [row EXCEPT !.status = IF @ \in {"none", "accepted", "superseded", "rejected"}
                           THEN @ ELSE "rejected"]

\* A candidate of this run that a closing transaction leaves behind.
Discarded(row) ==
    [status |-> IF row.status \in {"none", "accepted", "superseded", "rejected"}
                THEN row.status ELSE "rejected",
     facts  |-> IF row.facts = "candidate" THEN "rejected" ELSE row.facts]

\* Mutant: the facts of the previous accepted version stay accepted.
SupersededTextOnly(row) == [row EXCEPT !.status = "superseded"]

\* The version that was accepted before.
Superseded(row) ==
    [status |-> "superseded",
     facts  |-> IF row.facts = "accepted" THEN "superseded" ELSE row.facts]

\* Mutant: accept_version trusts the decision taken earlier.
AlwaysAcceptable(v) == TRUE

\* What accept_version requires.
Acceptable(v) == latest[v].passed

\* accept_version: one transaction over the version, its facts, the versions it
\* supersedes or rejects, the chapter and the run.  The run's status is
\* assigned, not passed through transition_workflow.
Accept(e) ==
    LET v == Current(e)
        replayed == run.status = "completed" /\ run.accepted = v
    IN  /\ AtNode(e, "act", {"accept_version"})
        /\ \/ /\ replayed
              /\ Complete(e, Onward(e))
              /\ UNCHANGED <<run, chapter, version, owner, request>>
           \/ /\ ~replayed /\ ~Acceptable(v)
              /\ Invalid(e)
              /\ UNCHANGED <<run, chapter, version>>
           \/ /\ ~replayed /\ Acceptable(v)
              /\ version' = [u \in Versions |->
                    IF u = v
                    THEN [status |-> "accepted",
                          facts |-> IF version[v].facts = "none" THEN "none"
                                    ELSE "accepted"]
                    ELSE IF u = chapter.accepted THEN Superseded(version[u])
                    ELSE IF Own(u) THEN Discarded(version[u])
                    ELSE version[u]]
              /\ chapter' = [status |-> "accepted", current |-> v, accepted |-> v]
              /\ run' = [run EXCEPT !.status = "completed", !.current = v,
                                    !.best = v, !.accepted = v]
              /\ Complete(e, [Onward(e) EXCEPT !.best = v])
              /\ UNCHANGED <<owner, request>>
        /\ UNCHANGED <<keyed, latest, comparison, claimed, checkpoint, outside,
                       bounds>>

\* mark_needs_review: the best version is shown, no candidate is promoted.
ShowBest ==
    LET v == run.best
    IN  /\ version' = [u \in Versions |->
              IF u = v THEN [Discarded(version[u]) EXCEPT !.status = "needs_review"]
              ELSE IF Own(u) THEN Discarded(version[u])
              ELSE version[u]]
        /\ chapter' = [chapter EXCEPT !.status = "needs_human_review", !.current = v]
        /\ run' = [run EXCEPT !.status = "completed_needs_review", !.current = v]

NeedsReview(e) ==
    /\ AtNode(e, "act", {"mark_needs_human_review"})
    /\ ShowBest
    /\ Complete(e, [Onward(e) EXCEPT !.current = run.best, !.best = run.best])
    /\ UNCHANGED <<keyed, latest, comparison, claimed, checkpoint, owner,
                   request, outside, bounds>>

-----------------------------------------------------------------------------
(***************************************************************************)
(* What run and resume do with an exception of the graph.                  *)
(***************************************************************************)

\* A chapter whose run ended without a result.
Fallback == IF chapter.accepted # 0 THEN "accepted" ELSE "workflow_failed"

\* _mark_paused.
Pause(e) ==
    /\ At(e, "pausing")
    /\ run' = [run EXCEPT !.status = IF @ \in Terminal THEN @ ELSE "paused"]
    /\ End(e)
    /\ UNCHANGED <<chapter, version, keyed, latest, comparison, claimed,
                   checkpoint, outside, bounds>>

\* cancel, for a request of the job: transition_workflow refuses a run that
\* ended otherwise.
CancelAtNode(e) ==
    /\ At(e, "cancelling")
    /\ \/ /\ run.status \notin Terminal \ {"cancelled"}
          /\ run' = [run EXCEPT !.status = "cancelled"]
          /\ chapter' = [chapter EXCEPT !.status = Fallback]
       \/ /\ run.status \in Terminal \ {"cancelled"}
          /\ UNCHANGED <<run, chapter>>
    /\ End(e)
    /\ UNCHANGED <<version, keyed, latest, comparison, claimed, checkpoint,
                   outside, bounds>>

\* Mutant: a run that has ended is marked failed too.
FailsAnyway(e) ==
    /\ At(e, "failing")
    /\ run' = [run EXCEPT !.status = "failed"]
    /\ chapter' = [chapter EXCEPT !.status = Fallback]
    /\ End(e)
    /\ UNCHANGED <<version, keyed, latest, comparison, claimed, checkpoint,
                   outside, bounds>>

\* _mark_failed_by_thread.
Fail(e) ==
    /\ At(e, "failing")
    /\ IF run.status \in Terminal THEN UNCHANGED <<run, chapter>>
       ELSE /\ run' = [run EXCEPT !.status = "failed"]
            /\ chapter' = [chapter EXCEPT !.status = Fallback]
    /\ End(e)
    /\ UNCHANGED <<version, keyed, latest, comparison, claimed, checkpoint,
                   outside, bounds>>

\* _mark_budget_blocked_by_thread reads the run in one transaction ...
Block(e) ==
    /\ At(e, "blocking")
    /\ SetPc(e, IF run.status \in Terminal \/ run.best = 0 THEN "failing"
                ELSE "reviewing")
    /\ UNCHANGED <<rows, claimed, checkpoint, owner, request, outside, bounds>>

\* ... and shows the best version in another.
Review(e) ==
    /\ At(e, "reviewing")
    /\ ShowBest
    /\ End(e)
    /\ UNCHANGED <<keyed, latest, comparison, claimed, checkpoint, outside, bounds>>

\* ChapterWorkflowService.resume, by a delivered job: of the user, or the retry
\* that recover_expired scheduled.
Resume(e) ==
    /\ run.status = "paused" /\ owner = NoOne /\ At(e, "idle")
    /\ run' = [run EXCEPT !.status = "running"]
    /\ owner' = e
    /\ checkpoint' = [checkpoint EXCEPT !.before = checkpoint.now]
    /\ thread' = [thread EXCEPT ![e] =
                    [pc |-> "enter", at |-> checkpoint.now, first |-> FALSE]]
    /\ UNCHANGED <<chapter, version, keyed, latest, comparison, claimed, request,
                   outside, bounds>>

-----------------------------------------------------------------------------
(***************************************************************************)
(* The environment.                                                        *)
(***************************************************************************)

\* A pause or cancel request of the job.
Ask(wish) ==
    /\ wish \in Requests \cap {"pause", "cancel"}
    /\ owner # NoOne /\ request = "none"
    /\ asks < MaxAsks /\ Disturbable /\ asks' = asks + 1
    /\ request' = wish
    /\ UNCHANGED <<rows, claimed, checkpoint, thread, owner, outside, crashes,
                   stalls, evaluations>>

\* ChapterWorkflowService.cancel, called by a user of the API or the CLI.
Abort ==
    /\ "abort" \in Requests
    /\ run.status \in {"running", "paused"}
    /\ asks < MaxAsks /\ Disturbable /\ asks' = asks + 1
    /\ run' = [run EXCEPT !.status = "cancelled"]
    /\ chapter' = [chapter EXCEPT !.status = Fallback]
    /\ UNCHANGED <<version, keyed, latest, comparison, claimed, checkpoint, thread,
                   owner, request, outside, crashes, stalls, evaluations>>

\* The process of an execution dies.  Its newest checkpoint may not have been
\* written yet.
Crash(e) ==
    /\ ~At(e, "idle")
    /\ crashes < MaxCrashes /\ Disturbable /\ crashes' = crashes + 1
    /\ thread' = [thread EXCEPT ![e] = IdleThread]
    /\ checkpoint' \in {checkpoint,
                        [now |-> checkpoint.before, before |-> checkpoint.before]}
    /\ UNCHANGED <<rows, claimed, owner, request, outside, asks, stalls, evaluations>>

\* JobWorker.recover_expired: the lease of a dead worker, or of one that could
\* not renew it, is taken back and the run is paused for the retry.
Recover ==
    /\ run.status = "running" /\ owner # NoOne /\ request = "none"
    /\ \/ At(owner, "idle") /\ UNCHANGED stalls
       \/ ~At(owner, "idle") /\ stalls < MaxStalls /\ Disturbable /\ stalls' = stalls + 1
    /\ run' = [run EXCEPT !.status = "paused"]
    /\ owner' = NoOne
    /\ UNCHANGED <<chapter, version, keyed, latest, comparison, claimed, checkpoint,
                   thread, request, outside, asks, crashes, evaluations>>

\* EvaluationService.evaluate called for the chapter outside a workflow.
OutsideBegin ==
    /\ outside = 0 /\ chapter.current # 0 /\ chapter.status \in Evaluatable
    /\ evaluations < MaxOutside /\ Disturbable /\ evaluations' = evaluations + 1
    /\ outside' = chapter.current
    /\ chapter' = [chapter EXCEPT !.status = "evaluating"]
    /\ UNCHANGED <<run, version, keyed, latest, comparison, claimed, checkpoint,
                   thread, owner, request, asks, crashes, stalls>>

OutsideEnd ==
    /\ outside # 0
    /\ outside' = 0
    /\ \/ /\ chapter.status = "evaluating"
          /\ \/ \E o \in Outcomes :
                   /\ latest' = [latest EXCEPT ![outside] = Scored(o)]
                   /\ chapter' = [chapter EXCEPT !.status = StatusOf(Scored(o))]
             \/ /\ "error" \in Failures
                /\ \E o \in Outcomes : latest' = [latest EXCEPT ![outside] = Partial(o)]
                /\ chapter' = [chapter EXCEPT !.status = "evaluation_failed"]
          /\ version' = [version EXCEPT ![outside].status = "evaluated"]
       \/ /\ chapter.status # "evaluating"
          /\ UNCHANGED <<latest, chapter, version>>
    /\ UNCHANGED <<run, keyed, comparison, claimed, checkpoint, thread, owner,
                   request, bounds>>

-----------------------------------------------------------------------------
Node(e) ==
    \/ Initialize(e) \/ Enter(e) \/ Advance(e)
    \/ Read(e) \/ Reuse(e) \/ Claim(e) \/ Answer(e) \/ CallFails(e) \/ CallBlocked(e)
    \/ SaveDraft(e) \/ SaveRevision(e) \/ SaveFacts(e) \/ SaveEvaluation(e)
    \/ Decide(e) \/ Compare(e) \/ Reject(e) \/ Accept(e) \/ NeedsReview(e)

Handler(e) ==
    Pause(e) \/ CancelAtNode(e) \/ Fail(e) \/ Block(e) \/ Review(e)

Next ==
    \/ \E e \in Executions :
          Run(e) \/ Resume(e) \/ Node(e) \/ Handler(e) \/ Crash(e)
    \/ \E wish \in Requests : Ask(wish)
    \/ Abort \/ Recover \/ OutsideBegin \/ OutsideEnd

Spec == Init /\ [][Next]_vars

\* An execution goes on while its process lives, the dispatcher loop recovers
\* expired leases, and the retry job is delivered.
Fairness ==
    /\ \A e \in Executions : WF_vars(Node(e) \/ Handler(e))
    /\ WF_vars(Recover)
    /\ WF_vars(\E e \in Executions : Resume(e))

FairSpec == Spec /\ Fairness

-----------------------------------------------------------------------------
(***************************************************************************)
(* Properties.                                                             *)
(***************************************************************************)

\* Every variable holds a value of its type.
TypeOK ==
    /\ run \in [status : RunStatuses, operation : Operations, prior : Prior,
                current : Ids, best : Ids, accepted : Ids, attempt : Nat]
    /\ chapter \in [status : ChapterStatuses, current : Ids, accepted : Ids]
    /\ version \in [Versions -> [status : VersionStatuses, facts : FactStatuses]]
    /\ keyed \in [Versions -> Evaluations] /\ latest \in [Versions -> Evaluations]
    /\ comparison \in [Versions -> Decisions]
    /\ claimed \subseteq ProviderNodes \X Versions
    /\ checkpoint \in [now : Positions, before : Positions]
    /\ thread \in [Executions -> Threads]
    /\ owner \in Executions \cup {NoOne}
    /\ request \in {"none", "pause", "cancel"}
    /\ outside \in Ids
    /\ asks \in 0..MaxAsks /\ crashes \in 0..MaxCrashes
    /\ stalls \in 0..MaxStalls /\ evaluations \in 0..MaxOutside

\* The canon of the story is what one text says: the accepted facts are exactly
\* those of the chapter's accepted version, through supersession, crashes,
\* retries and executions that lost their lease.
CanonicalFacts ==
    \A v \in Versions :
        /\ version[v].facts = "accepted" => chapter.accepted = v
        /\ chapter.accepted = v => version[v].facts = "accepted"

\* accept_version never promotes a text whose latest evaluation does not pass,
\* also when that evaluation came between the decision and the promotion.
AcceptsOnlyPassing ==
    [][chapter'.accepted # chapter.accepted => latest[chapter'.accepted].passed]_vars

\* A run that ends for human review shows a text no other text of the run is
\* better than, in the order critical conflicts, blocking reasons, score.
NeedsReviewShowsBest ==
    run.status = "completed_needs_review" /\ evaluations = 0 =>
        \A v \in Versions :
            keyed[v] # NoEvaluation => ~Better(latest[v], latest[run.best])

\* A run that closed by accept_version or mark_needs_review leaves no candidate
\* fact and no undecided version behind.
ClosedRunsLeaveNothingOpen ==
    run.status \in {"completed", "completed_needs_review"} =>
        \A v \in Versions : Own(v) =>
            /\ version[v].facts # "candidate"
            /\ version[v].status \notin {"draft", "revision"}

\* However often it is paused, resumed or crashes, a run makes at most
\* max_revision_attempts revisions, and one if the revision is its operation.
RevisionsBounded ==
    run.attempt <= IF MaxRevisions = 0 /\ run.operation = "targeted_revision"
                   THEN 1 ELSE MaxRevisions

\* A run that nobody pauses or cancels comes to an end although a process dies
\* or loses its lease.
RunFinishes ==
    run.status = "running" ~>
        run.status \in Terminal \/ asks > 0 \/ evaluations > 0

\* The end of a run is final: transitions.py lets no terminal status change.
TerminalIsFinal ==
    [][run.status \in Terminal => run'.status = run.status]_vars

\* Without provider failures a crash does not fail a run: it resumes after the
\* last checkpointed node.
CrashesAreRecovered == run.status # "failed"

Chapter == INSTANCE ChapterLifecycle WITH
    phase <- [w \in {1 : x \in {run.status} \ {"none"}} |-> run.status],
    accepted <- chapter.accepted,
    canon <- {v \in Versions : version[v].facts = "accepted"}

\* The nodes of the graph, their replays and the handlers of run and resume are
\* the chapter lifecycle: the accepted version and the facts that are told
\* change in one step, in which the run completes, and a run that is live, is
\* cancelled or has failed leaves both alone (accept_version, mark_needs_review,
\* transition_workflow).
ImplementsChapter == Chapter!Spec
==============================================================================

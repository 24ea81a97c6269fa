------------------------------ MODULE Drafting ------------------------------
(***************************************************************************)
(* Planning a project, drafting its chapters and judging them outside the  *)
(* chapter workflow: PlanningService (services/planning.py),               *)
(* ChapterGenerationService (services/generation.py) with ContextBuilder   *)
(* (services/context_builder.py), EvaluationService                        *)
(* (services/evaluation_service.py), and the application services that     *)
(* call them for the API, the jobs and the command line.                   *)
(*                                                                         *)
(* Each service is a thread that runs short transactions and asks an agent *)
(* between them, holding no lock: every action is one transaction, with    *)
(* the answer of the agent that precedes it.  The transaction of an        *)
(* extraction is two actions, what it reads and what it commits: it writes *)
(* rows that it has not locked (READ COMMITTED, no version column), and    *)
(* only the attributes to which it gives another value than it has read.   *)
(*                                                                         *)
(* A plan has a chapter for every number and one foreshadowing per         *)
(* chapter, set up there; the cast is one character.  The facts extracted  *)
(* from a text are one, and a text is its number in drafts.  Chapters and  *)
(* versions are found by number, as the services find them, or by their    *)
(* row, which is the number and the plan that made it.                     *)
(***************************************************************************)
EXTENDS Naturals, Sequences, FiniteSets, SequencesExt

CONSTANTS
    Chapters,     \* chapter numbers of a plan
    Planners, Generators, Evaluators,
    Updates,      \* foreshadowing updates found in every text: [hook, action]
    Acting,       \* texts in which the character's state changes
    Retrieval,    \* ContextBuilder has a retriever
    RecentLimit,  \* ContextBuildRequest.recent_chapter_limit
    Room,         \* max_context_chars, less the mandatory part
    SizeOf,       \* size of an item of every category of the context
    MaxPlans, MaxDrafts, MaxEvaluations,  \* bounds on requests
    MaxFaults,    \* bound on failing agents, providers, transactions and processes
    MaxCrashes    \* bound on the dying processes among them

ASSUME DraftingAssumption ==
    /\ Chapters \subseteq Nat \ {0} /\ IsFiniteSet(Chapters)
    /\ MaxPlans \in Nat /\ MaxDrafts \in Nat /\ MaxEvaluations \in Nat
    /\ RecentLimit \in Nat /\ Room \in Nat /\ MaxFaults \in Nat /\ MaxCrashes \in Nat
    /\ DOMAIN Updates = 1..MaxDrafts /\ Acting \subseteq 1..MaxDrafts

VARIABLES
    project,      \* Project.status
    chapter,      \* the row of every chapter number
    version,      \* the ChapterVersion rows of every chapter, by version number
    fact,         \* the Fact rows
    hook,         \* Foreshadowing.status, by setup_chapter
    character,    \* the text that Character.current_state comes from
    evaluation,   \* number of Evaluation rows of every chapter
    planner, generator, evaluator,
    drafts,       \* history: the chapter of every text ever saved
    overtaken,    \* history: chapters whose last verdict came too late
    crossed,      \* history: chapters whose last extraction committed after
                  \* another that it had not read
    plans, begun, faults, crashes

rows == <<project, chapter, version, fact, hook, character, evaluation>>
threads == <<planner, generator, evaluator>>
history == <<drafts, overtaken, crossed>>
counts == <<plans, begun, faults, crashes>>
vars == <<rows, threads, history, counts>>

None == 0
NoChapter == [plan |-> None, status |-> "none", text |-> None, version |-> 0,
              current |-> None, accepted |-> None, score |-> None]
Planned(p) == [NoChapter EXCEPT !.plan = p, !.status = "planned", !.version = 1]
Exists(n) == chapter[n].plan # None
Running == {"generating", "extracting_facts"}
Judged == {"evaluated_passed", "evaluated_needs_revision"}
Evaluatable == {"generated", "evaluation_failed"} \cup Judged

IdlePlanner == [pc |-> "idle", replace |-> FALSE, plan |-> None]
\* What the transaction of an extraction has read.
Unread == [plan |-> None, number |-> None, facts |-> {}, status |-> "none",
           accepted |-> None, mark |-> "draft", hook |-> [h \in Chapters |-> "none"],
           project |-> "none", whole |-> FALSE]
IdleGenerator == [pc |-> "idle", n |-> None, knows |-> {}, text |-> None,
                  version |-> None, home |-> None, failure |-> "none",
                  seen |-> Unread, late |-> FALSE]
IdleEvaluator == [pc |-> "idle", n |-> None, plan |-> None, version |-> None,
                  previous |-> "none", late |-> FALSE]

Init ==
    /\ project = "created" /\ character = None
    /\ chapter = [n \in Chapters |-> NoChapter]
    /\ version = [n \in Chapters |-> <<>>] /\ fact = {}
    /\ hook = [n \in Chapters |-> "none"]
    /\ evaluation = [n \in Chapters |-> <<>>]
    /\ planner = [p \in Planners |-> IdlePlanner]
    /\ generator = [g \in Generators |-> IdleGenerator]
    /\ evaluator = [e \in Evaluators |-> IdleEvaluator]
    /\ drafts = <<>> /\ overtaken = {} /\ crossed = {}
    /\ plans = 0 /\ begun = 0 /\ faults = 0 /\ crashes = 0

-----------------------------------------------------------------------------
(***************************************************************************)
(* Planning.                                                               *)
(***************************************************************************)

HasPlan == \E n \in Chapters : Exists(n)
HasContent == \E n \in Chapters : chapter[n].text # None

\* A plan is asked for: a plan that exists must be given up explicitly, and
\* one with text is kept.
PrepareRequest(p, replace) ==
    /\ planner[p].pc = "idle" /\ plans < MaxPlans
    /\ ~HasContent /\ (HasPlan => replace) /\ project # "completed"
    /\ project' = "planning"
    /\ plans' = plans + 1
    /\ planner' = [planner EXCEPT ![p] = [pc |-> "plan", replace |-> replace,
                                          plan |-> plans + 1]]
    /\ UNCHANGED <<chapter, version, fact, hook, character, evaluation, generator,
                   evaluator, history, begun, faults, crashes>>

\* The planner has answered.  Without replace_existing, the rows of a plan
\* that arrived meanwhile break the unique keys; with it the old chapters go,
\* and their versions, facts and evaluations with them.
PersistPlan(p) ==
    /\ planner[p].pc = "plan"
    /\ IF HasPlan /\ ~planner[p].replace
       THEN planner' = [planner EXCEPT ![p].pc = "fail"] /\ UNCHANGED <<rows, crossed>>
       ELSE /\ chapter' = [n \in Chapters |-> Planned(planner[p].plan)]
            /\ version' = [n \in Chapters |-> <<>>] /\ fact' = {}
            /\ evaluation' = [n \in Chapters |-> <<>>]
            /\ hook' = [n \in Chapters |-> "planned"] /\ character' = None
            /\ project' = "planned" /\ crossed' = {}
            /\ planner' = [planner EXCEPT ![p] = IdlePlanner]
    /\ UNCHANGED <<generator, evaluator, drafts, overtaken, counts>>

\* _mark_failed.
MarkPlanFailed(p) ==
    /\ planner[p].pc = "fail"
    /\ project' = "failed"
    /\ planner' = [planner EXCEPT ![p] = IdlePlanner]
    /\ UNCHANGED <<chapter, version, fact, hook, character, evaluation, generator,
                   evaluator, history, counts>>

-----------------------------------------------------------------------------
(***************************************************************************)
(* The context of a chapter: items, each with the text that it comes from. *)
(***************************************************************************)

Item(category, text) == [category |-> category, from |-> text]
Items(category, texts) == [i \in DOMAIN texts |-> Item(category, texts[i])]

\* list_known_before: accepted facts of earlier chapters.
KnownBefore(n) == {f.text : f \in {g \in fact : g.status = "accepted" /\ g.n < n}}
\* list_active_before.
ActiveHooks(n) == {h \in Chapters : h < n /\ hook[h] = "open"}
\* The latest chapters before this one that have a summary, whatever their
\* status is.
Recent(n) ==
    LET earlier == {c \in Chapters : c < n /\ chapter[c].text # None}
        latest == {c \in earlier : Cardinality({d \in earlier : d > c}) < RecentLimit}
    IN  {chapter[c].text : c \in latest}
\* Hits of the retriever: accepted text of earlier chapters.  Without a
\* retriever, or with none of its routes, there are none; hits that repeat a
\* fact are left out.
MemoryHits(n) ==
    IF ~Retrieval THEN {}
    ELSE {version[c][chapter[c].accepted].text :
             c \in {d \in Chapters : d < n /\ chapter[d].accepted # None}} \ KnownBefore(n)

\* Categories in the order in which they are given room.
Candidates(n) ==
    Items("characters", <<character>>)
        \o Items("facts", SetToSeq(KnownBefore(n)))
        \o Items("foreshadowing", [h \in 1..Cardinality(ActiveHooks(n)) |-> None])
        \o Items("recent", SetToSeq(Recent(n)))
        \o Items("memory", SetToSeq(MemoryHits(n)))

\* _apply_budget: an item is left out when it does not fit into what the
\* items before it have left; later and smaller ones may still fit.
WithinBudget(items) ==
    LET Take(kept, item) ==
            IF kept.used + SizeOf[item.category] <= Room
            THEN [used |-> kept.used + SizeOf[item.category],
                  texts |-> kept.texts \cup {item.from}]
            ELSE kept
    IN  FoldLeft(Take, [used |-> 0, texts |-> {}], items).texts \ {None}

-----------------------------------------------------------------------------
(***************************************************************************)
(* Generating a chapter.                                                   *)
(***************************************************************************)

Goto(g, pc) == generator' = [generator EXCEPT ![g].pc = pc]
\* An exception that generate does not catch.
Abandon(g) == generator' = [generator EXCEPT ![g] = IdleGenerator]

\* _validate_start: a chapter with text is drafted again only when asked to.
ValidateStart(g, n, regenerate) ==
    /\ generator[g].pc = "idle" /\ begun < MaxDrafts
    /\ Exists(n)
    /\ \/ project \in {"planned", "generating", "failed"}
       \/ regenerate /\ project = "completed"
    /\ chapter[n].text # None => regenerate
    /\ chapter[n].status \notin Running
    /\ begun' = begun + 1
    /\ generator' = [generator EXCEPT ![g].pc = "context", ![g].n = n]
    /\ UNCHANGED <<rows, planner, evaluator, history, plans, faults, crashes>>

\* Every plan has a chapter for each number, so the lookups that follow find
\* one, perhaps that of a newer plan.
BuildContext(g) ==
    /\ generator[g].pc = "context"
    /\ generator' = [generator EXCEPT ![g].pc = "run",
                        ![g].knows = WithinBudget(Candidates(generator[g].n))]
    /\ UNCHANGED <<rows, planner, evaluator, history, counts>>

SetRunning(g) ==
    /\ generator[g].pc = "run"
    /\ project' = "generating"
    /\ chapter' = [chapter EXCEPT ![generator[g].n].status = "generating"]
    /\ Goto(g, "write")
    /\ UNCHANGED <<version, fact, hook, character, evaluation, planner, evaluator,
                   history, counts>>

StatusOfDraft(n) == "extracting_facts"

\* An evaluation that has read the chapter and not yet marked it is late.
Overtake(n) ==
    evaluator' = [e \in Evaluators |->
        IF evaluator[e].pc = "mark" /\ evaluator[e].n = n
        THEN [evaluator[e] EXCEPT !.late = TRUE] ELSE evaluator[e]]

\* The writer has answered: its text becomes the chapter's and a new version.
PersistDraft(g) ==
    LET n == generator[g].n
        text == Len(drafts) + 1
        number == IF chapter[n].text # None THEN chapter[n].version + 1
                                            ELSE chapter[n].version
    IN
    /\ generator[g].pc = "write"
    /\ chapter' = [chapter EXCEPT ![n].version = number, ![n].text = text,
                      ![n].status = StatusOfDraft(n), ![n].current = number]
    /\ version' = [version EXCEPT ![n] = Append(@, [text |-> text, status |-> "draft"])]
    /\ drafts' = Append(drafts, n)
    /\ generator' = [generator EXCEPT ![g] = [IdleGenerator EXCEPT
                        !.pc = "extract", !.n = n, !.text = text,
                        !.version = number, !.home = chapter[n].plan]]
    /\ Overtake(n)
    /\ UNCHANGED <<project, fact, hook, character, evaluation, planner, overtaken,
                   crossed, counts>>

\* Mutant: only facts of older versions are superseded.
OlderFacts(n, number) ==
    {f \in fact : f.n = n /\ f.status = "accepted" /\ f.version < number}
PreviousFacts(n, number) ==
    {f \in fact : f.n = n /\ f.status = "accepted" /\ f.version # number}

\* Mutants: the snapshot is the chapter's current version; the project is
\* complete when every chapter has text.
CurrentSnapshot(g) == chapter[generator[g].n].version
Snapshot(g) == generator[g].version
CompleteWithText(now) == \A n \in Chapters : now[n].text # None
AllGenerated(now) == \A n \in Chapters : now[n].status = "generated"

\* The extractor has answered: the transaction reads the rows.
ReadCanon(g) ==
    LET n == generator[g].n
        number == Snapshot(g)
    IN
    /\ generator[g].pc = "extract"
    /\ IF number \in DOMAIN version[n]
       THEN generator' = [generator EXCEPT ![g] = [@ EXCEPT !.pc = "commit", !.seen =
                [plan |-> chapter[n].plan, number |-> number,
                 facts |-> PreviousFacts(n, number), status |-> chapter[n].status,
                 accepted |-> chapter[n].accepted, mark |-> version[n][number].status,
                 hook |-> hook, project |-> project,
                 whole |-> AllGenerated([chapter EXCEPT ![n].status = "generated"])]]]
       ELSE Abandon(g)
    /\ UNCHANGED <<rows, planner, evaluator, history, counts>>

\* A row gets the value of an attribute if it is another than was read.
Written(seen, current, value) == IF seen = value THEN current ELSE value

\* _apply_foreshadowing_updates; then the chapter's own hooks that the rows
\* still call planned open, whatever the updates have made of them.
HooksAfter(n, text, read) ==
    LET Updated(h) == {u.action : u \in {v \in Updates[text] : v.hook = h}}
        After(h) == IF h = n /\ read[h] = "planned" THEN "open"
                    ELSE IF "resolve" \in Updated(h) THEN "resolved"
                    ELSE IF Updated(h) \cap {"setup", "advance"} # {} THEN "open"
                    ELSE read[h]
    IN  [h \in Chapters |-> Written(read[h], hook[h], After(h))]

SupersedeFacts(read) ==
    {IF f \in read THEN [f EXCEPT !.status = "superseded"] ELSE f : f \in fact}

\* An extraction that has read the chapter and not yet committed is late.
Cross(g, n) ==
    generator' = [h \in Generators |->
        IF h = g THEN IdleGenerator
        ELSE IF generator[h].pc = "commit" /\ generator[h].n = n
        THEN [generator[h] EXCEPT !.late = TRUE] ELSE generator[h]]

\* The transaction commits: the facts become canonical, the version accepted.
\* Rows that a new plan has deleted make it fail (StaleDataError).
PersistExtraction(g) ==
    LET n == generator[g].n
        seen == generator[g].seen
        text == generator[g].text
    IN
    /\ generator[g].pc = "commit"
    /\ IF chapter[n].plan = seen.plan
       THEN /\ fact' = SupersedeFacts(seen.facts) \cup
                         {[n |-> n, version |-> seen.number, text |-> text,
                           status |-> "accepted",
                           stray |-> generator[g].home # chapter[n].plan]}
            /\ character' = IF text \in Acting THEN text ELSE character
            /\ hook' = HooksAfter(n, text, seen.hook)
            /\ chapter' = [chapter EXCEPT
                  ![n].status = Written(seen.status, @, "generated"),
                  ![n].accepted = Written(seen.accepted, @, seen.number)]
            /\ version' = [version EXCEPT ![n][seen.number].status =
                  Written(seen.mark, @, "accepted")]
            /\ project' = Written(seen.project, project,
                                  IF seen.whole THEN "completed" ELSE "generating")
            /\ crossed' = IF generator[g].late THEN crossed \cup {n} ELSE crossed \ {n}
            /\ Cross(g, n)
       ELSE /\ generator' = [generator EXCEPT ![g] = [@ EXCEPT
                  !.pc = "fail", !.failure = "fact_extraction_failed"]]
            /\ UNCHANGED <<project, chapter, version, fact, hook, character, crossed>>
    /\ UNCHANGED <<evaluation, planner, evaluator, drafts, overtaken, counts>>

\* _mark_failure.
MarkFailure(g) ==
    /\ generator[g].pc = "fail"
    /\ project' = "failed"
    /\ chapter' = [chapter EXCEPT ![generator[g].n].status = generator[g].failure]
    /\ Abandon(g)
    /\ UNCHANGED <<version, fact, hook, character, evaluation, planner, evaluator,
                   history, counts>>

-----------------------------------------------------------------------------
(***************************************************************************)
(* Evaluating a chapter.                                                   *)
(***************************************************************************)

Stop(e) == evaluator' = [evaluator EXCEPT ![e] = IdleEvaluator]

\* The application service picks the current version; without
\* force_new_version an evaluation that exists is returned.
ChooseVersion(e, n, force) ==
    /\ evaluator[e].pc = "idle" /\ Len(evaluation[n]) < MaxEvaluations
    /\ Exists(n) /\ chapter[n].current # None
    /\ ~force => chapter[n].current \notin {evaluation[n][i] : i \in DOMAIN evaluation[n]}
    /\ evaluator' = [evaluator EXCEPT ![e] = [IdleEvaluator EXCEPT
                        !.pc = "load", !.n = n, !.plan = chapter[n].plan,
                        !.version = chapter[n].current]]
    /\ UNCHANGED <<rows, planner, generator, history, counts>>

\* _resolve_version: the requested version, or that of the chapter's number
\* when it is gone.
Resolved(e, n) ==
    IF chapter[n].plan = evaluator[e].plan THEN evaluator[e].version
                                           ELSE chapter[n].version
LoadContext(e) ==
    LET n == evaluator[e].n IN
    /\ evaluator[e].pc = "load"
    /\ IF chapter[n].status \in Evaluatable /\ Resolved(e, n) \in DOMAIN version[n]
       THEN evaluator' = [evaluator EXCEPT ![e].pc = "mark",
                             ![e].plan = chapter[n].plan, ![e].version = Resolved(e, n),
                             ![e].previous = chapter[n].status,
                             ![e].late = Resolved(e, n) # chapter[n].current]
       ELSE Stop(e)
    /\ UNCHANGED <<rows, planner, generator, history, counts>>

\* The chapter row that evaluation e has read is still there.
Read(e) == chapter[evaluator[e].n].plan = evaluator[e].plan

\* _mark_evaluating; other evaluations of the chapter may now finish on the
\* mark of this one.
MarkEvaluating(e) ==
    LET n == evaluator[e].n IN
    /\ evaluator[e].pc = "mark"
    /\ IF Read(e) /\ chapter[n].status = evaluator[e].previous
       THEN /\ chapter' = [chapter EXCEPT ![n].status = "evaluating"]
            /\ evaluator' = [d \in Evaluators |->
                  IF d = e THEN [evaluator[e] EXCEPT !.pc = "critique"]
                  ELSE IF evaluator[d].n = n THEN [evaluator[d] EXCEPT !.late = TRUE]
                  ELSE evaluator[d]]
       ELSE Stop(e) /\ UNCHANGED chapter
    /\ UNCHANGED <<project, version, fact, hook, character, evaluation, planner,
                   generator, history, counts>>

\* Mutant: the verdict is saved whatever has become of the chapter.
VerdictAnyway(e) == Read(e)
MaySave(e) == Read(e) /\ chapter[evaluator[e].n].status = "evaluating"

\* A row of Evaluation, and what it says of the version and the chapter.
SaveEvaluation(e, status, score) ==
    LET n == evaluator[e].n IN
    /\ evaluation' = [evaluation EXCEPT ![n] = Append(@, evaluator[e].version)]
    /\ version' = [version EXCEPT ![n][evaluator[e].version].status = "evaluated"]
    /\ chapter' = [chapter EXCEPT ![n].status = status, ![n].score = score]

\* _persist_complete: the critic has answered.
PersistComplete(e, passed) ==
    LET n == evaluator[e].n IN
    /\ evaluator[e].pc = "critique"
    /\ IF MaySave(e)
       THEN /\ SaveEvaluation(e, IF passed THEN "evaluated_passed"
                                           ELSE "evaluated_needs_revision",
                              evaluator[e].version)
            /\ overtaken' = IF evaluator[e].late THEN overtaken \cup {n}
                                                 ELSE overtaken \ {n}
       ELSE UNCHANGED <<evaluation, version, chapter, overtaken>>
    /\ Stop(e)
    /\ UNCHANGED <<project, fact, hook, character, planner, generator, drafts,
                   crossed, counts>>

\* _persist_partial: the critic has failed, the local results are kept.
PersistPartial(e) ==
    /\ evaluator[e].pc = "partial"
    /\ IF MaySave(e)
       THEN SaveEvaluation(e, "evaluation_failed", chapter[evaluator[e].n].score)
       ELSE UNCHANGED <<evaluation, version, chapter>>
    /\ Stop(e)
    /\ UNCHANGED <<project, fact, hook, character, planner, generator, history, counts>>

\* _mark_failed.
MarkEvaluationFailed(e) ==
    LET n == evaluator[e].n IN
    /\ evaluator[e].pc = "fail"
    /\ chapter' = IF MaySave(e) THEN [chapter EXCEPT ![n].status = "evaluation_failed"]
                                ELSE chapter
    /\ Stop(e)
    /\ UNCHANGED <<project, version, fact, hook, character, evaluation, planner,
                   generator, history, counts>>

-----------------------------------------------------------------------------
(***************************************************************************)
(* Faults.                                                                 *)
(***************************************************************************)

Fault == faults + crashes < MaxFaults /\ faults' = faults + 1
         /\ UNCHANGED <<rows, history, plans, begun, crashes>>

\* The agent reports an AgentExecutionError, or the transaction after its
\* answer fails: both end in the service's mark of failure.
PlanningFails(p) ==
    /\ planner[p].pc = "plan"
    /\ planner' = [planner EXCEPT ![p].pc = "fail"]
    /\ Fault /\ UNCHANGED <<generator, evaluator>>
GenerationFails(g) ==
    /\ generator[g].pc \in {"write", "extract", "commit"}
    /\ generator' = [generator EXCEPT ![g].pc = "fail", ![g].failure =
                        IF generator[g].pc = "write" THEN "failed"
                                                     ELSE "fact_extraction_failed"]
    /\ Fault /\ UNCHANGED <<planner, evaluator>>
\* A critic that fails leaves the local results to save; a local evaluation
\* or a transaction that fails leaves nothing.
EvaluationFails(e) ==
    /\ evaluator[e].pc \in {"critique", "partial"}
    /\ \E pc \in {"partial", "fail"} :
          pc # evaluator[e].pc /\ evaluator' = [evaluator EXCEPT ![e].pc = pc]
    /\ Fault /\ UNCHANGED <<planner, generator>>

\* The gateway refuses the call (budget, rate limit, open circuit, privacy,
\* key in use): a ProviderGovernanceError is none of the errors that the
\* services catch, and the statuses stay as they are.
Refused ==
    /\ \/ \E p \in Planners : planner[p].pc = "plan"
             /\ planner' = [planner EXCEPT ![p] = IdlePlanner]
             /\ UNCHANGED <<generator, evaluator>>
       \/ \E g \in Generators : generator[g].pc \in {"write", "extract"}
             /\ Abandon(g) /\ UNCHANGED <<planner, evaluator>>
       \/ \E e \in Evaluators : evaluator[e].pc = "critique"
             /\ Stop(e) /\ UNCHANGED <<planner, generator>>
    /\ Fault

\* The process of a service dies.
Crash ==
    /\ crashes < MaxCrashes /\ faults + crashes < MaxFaults /\ crashes' = crashes + 1
    /\ \/ \E p \in Planners : planner[p].pc # "idle"
             /\ planner' = [planner EXCEPT ![p] = IdlePlanner]
             /\ UNCHANGED <<generator, evaluator>>
       \/ \E g \in Generators : generator[g].pc # "idle"
             /\ Abandon(g) /\ UNCHANGED <<planner, evaluator>>
       \/ \E e \in Evaluators : evaluator[e].pc # "idle"
             /\ Stop(e) /\ UNCHANGED <<planner, generator>>
    /\ UNCHANGED <<rows, history, plans, begun, faults>>

Planning(p) ==
    \/ \E replace \in BOOLEAN : PrepareRequest(p, replace)
    \/ PersistPlan(p) \/ MarkPlanFailed(p) \/ PlanningFails(p)
Generate(g) ==
    \/ \E n \in Chapters, regenerate \in BOOLEAN : ValidateStart(g, n, regenerate)
    \/ BuildContext(g) \/ SetRunning(g) \/ PersistDraft(g) \/ ReadCanon(g)
    \/ PersistExtraction(g) \/ MarkFailure(g) \/ GenerationFails(g)
Evaluate(e) ==
    \/ \E n \in Chapters, force \in BOOLEAN : ChooseVersion(e, n, force)
    \/ LoadContext(e) \/ MarkEvaluating(e)
    \/ \E passed \in BOOLEAN : PersistComplete(e, passed)
    \/ PersistPartial(e) \/ MarkEvaluationFailed(e) \/ EvaluationFails(e)

Next ==
    \/ \E p \in Planners : Planning(p)
    \/ \E g \in Generators : Generate(g)
    \/ \E e \in Evaluators : Evaluate(e)
    \/ Refused \/ Crash

Spec == Init /\ [][Next]_vars

-----------------------------------------------------------------------------
(***************************************************************************)
(* Properties.                                                             *)
(***************************************************************************)

\* Every row and thread has its type; the version numbers of a chapter are
\* 1, 2, ... (the unique key of chapter_versions), and its pointers point at
\* versions it has.
TypeOK ==
    /\ \A n \in Chapters :
          /\ chapter[n].current \in {None} \cup DOMAIN version[n]
          /\ chapter[n].accepted \in {None} \cup DOMAIN version[n]
          /\ chapter[n].score \in {None} \cup DOMAIN version[n]
          /\ chapter[n].current = Len(version[n])
          /\ hook[n] \in {"none", "planned", "open", "resolved"}
    /\ \A f \in fact : f.version \in DOMAIN version[f.n]
    /\ planner \in [Planners -> [pc : {"idle", "plan", "fail"}, replace : BOOLEAN,
                                 plan : 0..MaxPlans]]

\* However many generations of a chapter overlap, and in whatever order their
\* extractions end, the facts that later chapters are told are those of the
\* version that is accepted, and all of those (_persist_extraction), from the
\* first extraction on that has read all that committed before it.  Two
\* whose transactions overlap miss the facts of each other: until another
\* extraction of the chapter, facts of both versions are accepted.  A version
\* into which a stray extraction was saved may have lost its own.
Canonical(f) ==
    /\ f.status = "accepted" => f.version = chapter[f.n].accepted
    /\ f.status = "accepted" \/ f.version # chapter[f.n].accepted
          \/ \E s \in fact : s.stray /\ s.n = f.n /\ s.version = f.version
CanonIsOneVersion == \A f \in fact : f.n \in crossed \/ Canonical(f)

\* The same, overlapping transactions or not: the run finds it violated with
\* two generators (see README).
NoMixedCanon == \A f \in fact : Canonical(f)

\* The facts of a version were extracted from its text, unless the chapter
\* was planned anew between the draft and the extraction: the extraction
\* finds its version by number, and may then find that of another draft.
FactsMatchText ==
    \A f \in fact : f.stray \/ version[f.n][f.version].text = f.text

\* A project that is completed has an accepted version of every chapter.
CompletedHasCanon ==
    project = "completed" => \A n \in Chapters : chapter[n].accepted # None

\* A verdict on a chapter is one on its current text; the marks and checks of
\* EvaluationService let through only evaluations that read the chapter
\* before a draft and marked it after, or that ended on another's mark.
VerdictOnCurrentText ==
    \A n \in Chapters : chapter[n].status \in Judged =>
        n \in overtaken \/ chapter[n].score = chapter[n].current

\* "Build a typed context from persisted data without exposing future
\* knowledge" (services/context_builder.py:47).
NoFutureKnowledge ==
    \A g \in Generators : \A t \in generator[g].knows : drafts[t] <= generator[g].n

\* "Run context, writer, extraction, and persistence with explicit failure
\* states" (services/generation.py:60).
RunningIsAlive ==
    \A n \in Chapters : chapter[n].status \in Running =>
        \E g \in Generators : generator[g].n = n /\ generator[g].pc # "idle"

=============================================================================

--------------------------- MODULE DraftingProofs ---------------------------
(***************************************************************************)
(* Theorems about Drafting, for any number of planners, generators and     *)
(* evaluators, chapters, requests and faults.                              *)
(***************************************************************************)
EXTENDS Drafting, FiniteSetTheorems, SequenceTheorems, TLAPS

-----------------------------------------------------------------------------
(***************************************************************************)
(* Types.  What a generator knows is left open: no property proved here is *)
(* about the context of the writer.                                        *)
(***************************************************************************)

ChapterStatuses ==
    {"none", "planned", "generated", "evaluating", "evaluation_failed", "failed",
     "fact_extraction_failed"} \cup Running \cup Judged

ChapterRows ==
    [plan : Nat, status : ChapterStatuses, text : Nat, version : Nat, current : Nat,
     accepted : Nat, score : Nat]
VersionRows == [text : Nat, status : {"draft", "accepted", "evaluated"}]
FactRows ==
    [n : Chapters, version : Nat, text : Nat, status : {"accepted", "superseded"},
     stray : BOOLEAN]
PlannerThreads == [pc : {"idle", "plan", "fail"}, replace : BOOLEAN, plan : 0..MaxPlans]
EvaluatorThreads ==
    [pc : {"idle", "load", "mark", "critique", "partial", "fail"},
     n : Chapters \cup {None}, plan : Nat, version : Nat, previous : ChapterStatuses,
     late : BOOLEAN]
GeneratorThread(u) ==
    /\ u = [pc |-> u.pc, n |-> u.n, knows |-> u.knows, text |-> u.text,
            version |-> u.version, home |-> u.home, failure |-> u.failure,
            seen |-> u.seen, late |-> u.late]
    /\ u.pc \in {"idle", "context", "run", "write", "extract", "commit", "fail"}
    /\ u.n \in Chapters \cup {None}
    /\ u.text \in Nat /\ u.version \in Nat /\ u.home \in Nat
    /\ u.failure \in {"none", "failed", "fact_extraction_failed"}

RowType ==
    /\ chapter \in [Chapters -> ChapterRows]
    /\ version \in [Chapters -> Seq(VersionRows)]
    /\ fact \subseteq FactRows
    /\ hook \in [Chapters -> {"none", "planned", "open", "resolved"}]
    /\ planner \in [Planners -> PlannerThreads]
    /\ generator = [g \in Generators |-> generator[g]]
    /\ \A g \in Generators : GeneratorThread(generator[g])
    /\ evaluator \in [Evaluators -> EvaluatorThreads]
    /\ drafts \in Seq(Chapters) /\ plans \in 0..MaxPlans

-----------------------------------------------------------------------------
(***************************************************************************)
(* The invariant.                                                          *)
(***************************************************************************)

\* The versions of a chapter are numbered 1, 2, ... and its row counts them.
Numbered(n) ==
    /\ chapter[n].current = Len(version[n])
    /\ chapter[n].text = None <=> Len(version[n]) = 0
    /\ chapter[n].version = IF Len(version[n]) = 0 /\ Exists(n) THEN 1 ELSE Len(version[n])
    /\ ~Exists(n) => Len(version[n]) = 0
    /\ chapter[n].accepted <= Len(version[n]) /\ chapter[n].score <= Len(version[n])
    /\ chapter[n].plan <= plans
    /\ chapter[n].status = "generated" => chapter[n].accepted # None

FactsNumbered == \A f \in fact : f.version \in 1..Len(version[f.n])

\* A plan that is about to be saved has a number nothing else has.
NewPlan(p) ==
    planner[p].pc = "plan" =>
        /\ planner[p].plan \in 1..plans
        /\ \A q \in Planners \ {p} :
              planner[q].pc = "plan" => planner[q].plan # planner[p].plan
        /\ \A n \in Chapters : chapter[n].plan # planner[p].plan
        /\ \A g \in Generators : /\ generator[g].home # planner[p].plan
                                 /\ generator[g].seen.plan # planner[p].plan
        /\ \A e \in Evaluators : evaluator[e].plan # planner[p].plan

\* A generator at work has a chapter.  One that extracts facts from a draft
\* of the plan in force finds its own text, and is the only one to do so.
Extracting == {"extract", "commit"}
Drafted(g) ==
    LET u == generator[g] IN
    /\ u.home \in 0..plans
    /\ u.pc # "idle" => u.n \in Chapters /\ Exists(u.n)
    /\ u.pc \in Extracting =>
          /\ u.version # 0
          /\ u.home = chapter[u.n].plan =>
                /\ u.version <= Len(version[u.n])
                /\ version[u.n][u.version].text = u.text
                /\ \A f \in fact : f.n = u.n /\ f.version = u.version => f.stray
                /\ \A h \in Generators \ {g} :
                      generator[h].pc \in Extracting /\ generator[h].n = u.n
                      /\ generator[h].home = u.home => generator[h].version # u.version

\* What a transaction has read is still so, unless a new plan has replaced
\* the rows or, in what concerns the canon, another has committed meanwhile.
Abreast(u) ==
    LET seen == u.seen IN
    /\ seen.number = u.version
    /\ \A f \in seen.facts : f.n = u.n /\ f.version # seen.number
    /\ seen.plan = chapter[u.n].plan =>
          /\ seen.number \in 1..Len(version[u.n])
          /\ seen.whole => \A m \in Chapters \ {u.n} : chapter[m].accepted # None
          /\ seen.accepted # None => chapter[u.n].accepted # None
          /\ ~u.late =>
                /\ seen.accepted = chapter[u.n].accepted
                /\ \A f \in fact :
                      f.n = u.n /\ f.status = "accepted" /\ f.version # seen.number
                      => f \in seen.facts
Reading(g) ==
    /\ generator[g].seen.plan \in 0..plans
    /\ generator[g].pc = "commit" => Abreast(generator[g])

\* An evaluation that has read the chapter row has a version of it; it is the
\* current one unless a draft came in between.
Evaluated(e) ==
    LET u == evaluator[e] IN
    /\ u.plan \in 0..plans
    /\ u.pc # "idle" => u.n \in Chapters
    /\ u.pc \in {"mark", "critique", "partial", "fail"} /\ Read(e) =>
          /\ u.version \in 1..Len(version[u.n])
          /\ u.pc \in {"mark", "critique"} /\ ~u.late
             /\ (u.pc = "critique" => chapter[u.n].status = "evaluating")
                => u.version = chapter[u.n].current

DraftingInv ==
    /\ RowType
    /\ \A n \in Chapters : Numbered(n)
    /\ FactsNumbered
    /\ \A p \in Planners : NewPlan(p)
    /\ \A g \in Generators : Drafted(g) /\ Reading(g)
    /\ \A e \in Evaluators : Evaluated(e)
    /\ CanonIsOneVersion /\ FactsMatchText /\ CompletedHasCanon /\ VerdictOnCurrentText

-----------------------------------------------------------------------------
(***************************************************************************)
(* The steps, by what they do to the rows.  Most of them are quiet: they   *)
(* save no text, no fact and no verdict, and at most a status.             *)
(***************************************************************************)

Remark ==
    /\ UNCHANGED <<version, fact, hook, drafts, overtaken, crossed>>
    /\ chapter' \in [Chapters -> ChapterRows]
    /\ \A n \in Chapters :
          /\ chapter'[n].plan = chapter[n].plan /\ chapter'[n].text = chapter[n].text
          /\ chapter'[n].version = chapter[n].version
          /\ chapter'[n].current = chapter[n].current
          /\ chapter'[n].accepted = chapter[n].accepted
          /\ chapter'[n].score = chapter[n].score
          /\ \/ chapter'[n].status = chapter[n].status
             \/ chapter'[n].status \notin Judged \cup {"generated", "evaluating"}
    /\ project' = "completed" => project = "completed"

\* A planner goes on or takes the next number.
TamePlanners ==
    /\ planner' \in [Planners -> PlannerThreads]
    /\ plans' \in plans..MaxPlans
    /\ \A p \in Planners : planner'[p].pc = "plan" =>
          \/ planner[p].pc = "plan" /\ planner'[p].plan = planner[p].plan
          \/ /\ planner'[p].plan = plans + 1 /\ plans' = plans + 1
             /\ \A q \in Planners \ {p} : planner'[q] = planner[q]

\* A generator goes on, gives up or begins with a chapter that exists.
TameGenerator(u, v) ==
    /\ GeneratorThread(v)
    /\ v.home \in {None, u.home}
    /\ v.pc # "idle" => v.n \in Chapters /\ Exists(v.n)
    /\ \/ v.seen.plan \in {None, u.seen.plan}
       \/ v.n \in Chapters /\ v.seen.plan = chapter[v.n].plan
    /\ v.pc \in Extracting =>
          /\ u.pc \in Extracting /\ v.n = u.n /\ v.text = u.text
          /\ v.version = u.version /\ v.home = u.home
    /\ v.pc = "commit" => Abreast(v)
TameGenerators ==
    /\ generator' = [g \in Generators |-> generator'[g]]
    /\ \A g \in Generators : TameGenerator(generator[g], generator'[g])

\* An evaluator goes on, gives up, begins or reads the chapter row.
TameEvaluator(u, v) ==
    /\ v.plan \in {None, u.plan} \/ (v.n \in Chapters /\ v.plan = chapter[v.n].plan)
    /\ v.pc # "idle" => v.n \in Chapters
    /\ \/ v.pc \in {"idle", "load"}
       \/ /\ u.pc \notin {"idle", "load"}
          /\ v.n = u.n /\ v.plan = u.plan /\ v.version = u.version /\ v.late = u.late
          /\ v.pc \in {"mark", "critique"} => v.pc = u.pc
       \/ /\ v.pc = "mark" /\ v.plan = chapter[v.n].plan
          /\ v.version \in 1..Len(version[v.n])
          /\ v.late = (v.version # chapter[v.n].current)
TameEvaluators ==
    /\ evaluator' \in [Evaluators -> EvaluatorThreads]
    /\ \A e \in Evaluators : TameEvaluator(evaluator[e], evaluator'[e])

Quiet == Remark /\ TamePlanners /\ TameGenerators /\ TameEvaluators

\* What an action leaves alone is tame.
LEMMA NothingRemarked ==
    ASSUME RowType, UNCHANGED <<version, fact, hook, drafts, overtaken, crossed, chapter>>,
           project' = "completed" => project = "completed"
    PROVE  Remark
BY DEF RowType, Remark
LEMMA PlannersRest ==
    ASSUME RowType, UNCHANGED <<planner, plans>>, DraftingAssumption
    PROVE  TamePlanners
<1>1. plans \in Nat /\ MaxPlans \in Nat /\ plans \in plans..MaxPlans
    BY DEF RowType, DraftingAssumption
<1>2. QED BY <1>1 DEF RowType, TamePlanners
LEMMA GeneratorsRest ==
    ASSUME RowType, \A g \in Generators : Drafted(g) /\ Reading(g), generator' = generator
    PROVE  TameGenerators
BY DEF RowType, TameGenerators, TameGenerator, Drafted, Reading
LEMMA EvaluatorsRest ==
    ASSUME RowType, \A e \in Evaluators : Evaluated(e), evaluator' = evaluator
    PROVE  TameEvaluators
BY DEF RowType, TameEvaluators, TameEvaluator, Evaluated

\* One chapter row gets a status.
LEMMA StatusRemarked ==
    ASSUME RowType, NEW n \in Chapters,
           NEW s \in ChapterStatuses \ (Judged \cup {"generated", "evaluating"}),
           chapter' = [chapter EXCEPT ![n].status = s],
           UNCHANGED <<version, fact, hook, drafts, overtaken, crossed>>,
           project' = "completed" => project = "completed"
    PROVE  Remark
<1>1. chapter \in [Chapters -> ChapterRows]
    BY DEF RowType
<1>2. \A m \in Chapters : chapter[m] \in ChapterRows
    BY <1>1
<1>3. \A m \in Chapters : chapter'[m] = IF m = n THEN [chapter[n] EXCEPT !.status = s]
                                               ELSE chapter[m]
    BY <1>1
<1>4. [chapter[n] EXCEPT !.status = s] \in ChapterRows
    BY <1>2 DEF ChapterRows
<1>5. chapter' \in [Chapters -> ChapterRows]
    BY <1>1, <1>4
<1>6. \A m \in Chapters :
          /\ chapter'[m].plan = chapter[m].plan /\ chapter'[m].text = chapter[m].text
          /\ chapter'[m].version = chapter[m].version
          /\ chapter'[m].current = chapter[m].current
          /\ chapter'[m].accepted = chapter[m].accepted
          /\ chapter'[m].score = chapter[m].score
          /\ chapter'[m].status = IF m = n THEN s ELSE chapter[m].status
    BY <1>2, <1>3 DEF ChapterRows
<1>7. QED BY <1>5, <1>6 DEF Remark

\* A thread with another place and another field.
LEMMA ThreadFields ==
    ASSUME NEW u, GeneratorThread(u), NEW pc, NEW x
    PROVE  /\ [u EXCEPT !.pc = pc, !.knows = x] =
                [pc |-> pc, n |-> u.n, knows |-> x, text |-> u.text,
                 version |-> u.version, home |-> u.home, failure |-> u.failure,
                 seen |-> u.seen, late |-> u.late]
           /\ [u EXCEPT !.pc = pc, !.failure = x] =
                [pc |-> pc, n |-> u.n, knows |-> u.knows, text |-> u.text,
                 version |-> u.version, home |-> u.home, failure |-> x,
                 seen |-> u.seen, late |-> u.late]
           /\ [u EXCEPT !.pc = pc, !.seen = x] =
                [pc |-> pc, n |-> u.n, knows |-> u.knows, text |-> u.text,
                 version |-> u.version, home |-> u.home, failure |-> u.failure,
                 seen |-> x, late |-> u.late]
<1> DEFINE v == [u EXCEPT !.pc = pc]
<1>1. u = [pc |-> u.pc, n |-> u.n, knows |-> u.knows, text |-> u.text,
           version |-> u.version, home |-> u.home, failure |-> u.failure,
           seen |-> u.seen, late |-> u.late]
    BY DEF GeneratorThread
<1>2. v = [pc |-> pc, n |-> u.n, knows |-> u.knows, text |-> u.text,
           version |-> u.version, home |-> u.home, failure |-> u.failure,
           seen |-> u.seen, late |-> u.late]
    BY <1>1
<1>3. /\ [u EXCEPT !.pc = pc, !.knows = x] = [v EXCEPT !.knows = x]
      /\ [u EXCEPT !.pc = pc, !.failure = x] = [v EXCEPT !.failure = x]
      /\ [u EXCEPT !.pc = pc, !.seen = x] = [v EXCEPT !.seen = x]
    BY Zenon
<1> HIDE DEF v
<1>5. [v EXCEPT !.knows = x] =
                [pc |-> pc, n |-> u.n, knows |-> x, text |-> u.text,
                 version |-> u.version, home |-> u.home, failure |-> u.failure,
                 seen |-> u.seen, late |-> u.late]
    BY <1>2
<1>6. [v EXCEPT !.failure = x] =
                [pc |-> pc, n |-> u.n, knows |-> u.knows, text |-> u.text,
                 version |-> u.version, home |-> u.home, failure |-> x,
                 seen |-> u.seen, late |-> u.late]
    BY <1>2
<1>7. [v EXCEPT !.seen = x] =
                [pc |-> pc, n |-> u.n, knows |-> u.knows, text |-> u.text,
                 version |-> u.version, home |-> u.home, failure |-> u.failure,
                 seen |-> x, late |-> u.late]
    BY <1>2
<1>8. QED BY <1>3, <1>5, <1>6, <1>7

\* A thread that begins, and one that is late.
LEMMA ThreadBegins ==
    ASSUME NEW u, GeneratorThread(u), NEW n
    PROVE  /\ [u EXCEPT !.pc = "context", !.n = n] =
                [pc |-> "context", n |-> n, knows |-> u.knows, text |-> u.text,
                 version |-> u.version, home |-> u.home, failure |-> u.failure,
                 seen |-> u.seen, late |-> u.late]
           /\ [u EXCEPT !.late = n] =
                [pc |-> u.pc, n |-> u.n, knows |-> u.knows, text |-> u.text,
                 version |-> u.version, home |-> u.home, failure |-> u.failure,
                 seen |-> u.seen, late |-> n]
<1> DEFINE v == [u EXCEPT !.pc = "context"]
<1>1. u = [pc |-> u.pc, n |-> u.n, knows |-> u.knows, text |-> u.text,
           version |-> u.version, home |-> u.home, failure |-> u.failure,
           seen |-> u.seen, late |-> u.late]
    BY DEF GeneratorThread
<1>2. v = [pc |-> "context", n |-> u.n, knows |-> u.knows, text |-> u.text,
           version |-> u.version, home |-> u.home, failure |-> u.failure,
           seen |-> u.seen, late |-> u.late]
    BY <1>1
<1>3. [u EXCEPT !.pc = "context", !.n = n] = [v EXCEPT !.n = n]
    BY Zenon
<1> HIDE DEF v
<1>4. [v EXCEPT !.n = n] =
                [pc |-> "context", n |-> n, knows |-> u.knows, text |-> u.text,
                 version |-> u.version, home |-> u.home, failure |-> u.failure,
                 seen |-> u.seen, late |-> u.late]
    BY <1>2
<1>5. [u EXCEPT !.late = n] =
                [pc |-> u.pc, n |-> u.n, knows |-> u.knows, text |-> u.text,
                 version |-> u.version, home |-> u.home, failure |-> u.failure,
                 seen |-> u.seen, late |-> n]
    BY <1>1
<1>6. QED BY <1>3, <1>4, <1>5

\* One generator goes on.
LEMMA GeneratorMoves ==
    ASSUME RowType, \A h \in Generators : Drafted(h) /\ Reading(h), NEW g \in Generators,
           NEW u, TameGenerator(generator[g], u),
           generator' = [generator EXCEPT ![g] = u]
    PROVE  TameGenerators
<1>1. \A h \in Generators : generator'[h] = IF h = g THEN u ELSE generator[h]
    BY DEF RowType
<1>2. generator' = [h \in Generators |-> generator'[h]]
    BY DEF RowType
<1>3. \A h \in Generators : TameGenerator(generator[h], generator[h])
    BY DEF RowType, Drafted, Reading, TameGenerator
<1>4. \A h \in Generators : TameGenerator(generator[h], generator'[h])
    BY <1>1, <1>3
<1>5. QED BY <1>2, <1>4 DEF TameGenerators

\* It goes to another place in its run.
LEMMA GeneratorGoes ==
    ASSUME RowType, \A h \in Generators : Drafted(h) /\ Reading(h), NEW g \in Generators,
           generator[g].pc # "idle",
           NEW pc \in {"context", "run", "write", "fail"}, Goto(g, pc)
    PROVE  TameGenerators
<1> DEFINE u == [generator[g] EXCEPT !.pc = pc]
<1>1. generator' = [generator EXCEPT ![g] = u]
    BY Zenon DEF Goto
<1>2. GeneratorThread(generator[g])
    BY DEF RowType
<1>3. /\ GeneratorThread(u)
      /\ u.home = generator[g].home /\ u.n = generator[g].n /\ u.pc = pc
      /\ u.seen = generator[g].seen
    BY <1>2 DEF GeneratorThread
<1>4. generator[g].n \in Chapters /\ Exists(generator[g].n)
    BY DEF Drafted
<1> HIDE DEF u
<1>5. TameGenerator(generator[g], u)
    BY <1>3, <1>4 DEF TameGenerator, Extracting
<1>6. QED BY <1>1, <1>5, GeneratorMoves

LEMMA GeneratorAbandons ==
    ASSUME RowType, \A h \in Generators : Drafted(h) /\ Reading(h), NEW g \in Generators, Abandon(g)
    PROVE  TameGenerators
<1>1. TameGenerator(generator[g], IdleGenerator)
    BY DEF TameGenerator, GeneratorThread, IdleGenerator, Unread, Extracting, None
<1>2. QED BY <1>1, GeneratorMoves DEF Abandon

\* One evaluator goes on.
LEMMA EvaluatorMoves ==
    ASSUME RowType, \A d \in Evaluators : Evaluated(d), NEW e \in Evaluators,
           NEW u \in EvaluatorThreads, TameEvaluator(evaluator[e], u),
           evaluator' = [evaluator EXCEPT ![e] = u]
    PROVE  TameEvaluators
<1>1. evaluator' \in [Evaluators -> EvaluatorThreads]
    BY DEF RowType
<1>2. \A d \in Evaluators : evaluator'[d] = IF d = e THEN u ELSE evaluator[d]
    BY DEF RowType
<1>3. \A d \in Evaluators : TameEvaluator(evaluator[d], evaluator[d])
    BY DEF RowType, TameEvaluator, Evaluated
<1>4. QED BY <1>1, <1>2, <1>3 DEF TameEvaluators

LEMMA EvaluatorStops ==
    ASSUME RowType, \A d \in Evaluators : Evaluated(d), NEW e \in Evaluators, Stop(e)
    PROVE  TameEvaluators
<1>1. IdleEvaluator \in EvaluatorThreads
    BY DEF IdleEvaluator, EvaluatorThreads, ChapterStatuses, None
<1>2. TameEvaluator(evaluator[e], IdleEvaluator)
    BY DEF IdleEvaluator, TameEvaluator
<1>3. QED BY <1>1, <1>2, EvaluatorMoves DEF Stop

-----------------------------------------------------------------------------
(***************************************************************************)
(* The quiet actions.                                                      *)
(***************************************************************************)

\* One planner goes on, and takes no number.
LEMMA PlannerMoves ==
    ASSUME DraftingAssumption, RowType, NEW p \in Planners, NEW u \in PlannerThreads,
           u.pc # "plan", planner' = [planner EXCEPT ![p] = u], plans' = plans
    PROVE  TamePlanners
<1>1. plans \in Nat /\ MaxPlans \in Nat /\ plans \in plans..MaxPlans
    BY DEF RowType, DraftingAssumption
<1>2. QED BY <1>1 DEF RowType, TamePlanners

LEMMA RequestIsQuiet ==
    ASSUME DraftingAssumption, DraftingInv, NEW p \in Planners, NEW replace \in BOOLEAN,
           PrepareRequest(p, replace)
    PROVE  Quiet
<1> DEFINE u == [pc |-> "plan", replace |-> replace, plan |-> plans + 1]
<1>1. Remark
    BY NothingRemarked DEF DraftingInv, PrepareRequest, history
<1>2. /\ plans \in Nat /\ MaxPlans \in Nat /\ plans' = plans + 1 /\ plans < MaxPlans
      /\ planner' = [planner EXCEPT ![p] = u]
    BY DEF DraftingInv, RowType, DraftingAssumption, PrepareRequest
<1>3. u \in PlannerThreads
    BY <1>2 DEF PlannerThreads
<1>4. plans' \in plans..MaxPlans
    BY <1>2
<1>5. u.plan = plans + 1
    OBVIOUS
<1> HIDE DEF u
<1>6. planner' \in [Planners -> PlannerThreads]
    BY <1>2, <1>3 DEF DraftingInv, RowType
<1>7. \A q \in Planners : planner'[q] = IF q = p THEN u ELSE planner[q]
    BY <1>2 DEF DraftingInv, RowType
<1>8. TamePlanners
    BY <1>2, <1>4, <1>5, <1>6, <1>7 DEF TamePlanners
<1>9. TameGenerators /\ TameEvaluators
    BY GeneratorsRest, EvaluatorsRest DEF DraftingInv, PrepareRequest
<1>10. QED BY <1>1, <1>8, <1>9 DEF Quiet

LEMMA PlannerFails ==
    ASSUME DraftingAssumption, RowType, NEW p \in Planners,
           planner' = [planner EXCEPT ![p].pc = "fail"], plans' = plans
    PROVE  TamePlanners
<1> DEFINE u == [planner[p] EXCEPT !.pc = "fail"]
<1>1. planner' = [planner EXCEPT ![p] = u]
    BY Zenon
<1>2. planner[p] \in PlannerThreads
    BY DEF RowType
<1>3. u \in PlannerThreads /\ u.pc # "plan"
    BY <1>2 DEF PlannerThreads
<1> HIDE DEF u
<1>4. QED BY <1>1, <1>3, PlannerMoves

LEMMA PlannerIsIdle ==
    ASSUME DraftingAssumption, RowType, NEW p \in Planners,
           planner' = [planner EXCEPT ![p] = IdlePlanner], plans' = plans
    PROVE  TamePlanners
<1>1. IdlePlanner \in PlannerThreads /\ IdlePlanner.pc # "plan"
    BY DEF IdlePlanner, PlannerThreads, None
<1>2. QED BY <1>1, PlannerMoves

\* A plan that may not replace the one that arrived meanwhile; the marks of
\* failure.
LEMMA PlannersAreQuiet ==
    ASSUME DraftingAssumption, DraftingInv, NEW p \in Planners,
           \/ PersistPlan(p) /\ HasPlan /\ ~planner[p].replace
           \/ MarkPlanFailed(p) \/ PlanningFails(p)
    PROVE  Quiet
<1>1. TamePlanners
  <2>1. CASE PersistPlan(p) /\ HasPlan /\ ~planner[p].replace
    BY <2>1, PlannerFails DEF PersistPlan, counts, DraftingInv
  <2>2. CASE MarkPlanFailed(p)
    BY <2>2, PlannerIsIdle DEF MarkPlanFailed, counts, DraftingInv
  <2>3. CASE PlanningFails(p)
    BY <2>3, PlannerFails DEF PlanningFails, Fault, DraftingInv
  <2>4. QED BY <2>1, <2>2, <2>3
<1>2. /\ UNCHANGED <<generator, evaluator, version, fact, hook, drafts, overtaken, crossed, chapter>>
      /\ project' = "completed" => project = "completed"
    BY DEF PersistPlan, MarkPlanFailed, PlanningFails, Fault, rows, history
<1>3. Remark /\ TameGenerators /\ TameEvaluators
    BY <1>2, NothingRemarked, GeneratorsRest, EvaluatorsRest DEF DraftingInv
<1>4. QED BY <1>1, <1>3 DEF Quiet

LEMMA StartIsQuiet ==
    ASSUME DraftingAssumption, DraftingInv, NEW g \in Generators, NEW n \in Chapters,
           NEW regenerate \in BOOLEAN, ValidateStart(g, n, regenerate)
    PROVE  Quiet
<1> DEFINE u == [generator[g] EXCEPT !.pc = "context", !.n = n]
<1>1. generator' = [generator EXCEPT ![g] = u]
    BY Zenon DEF ValidateStart
<1>2. GeneratorThread(generator[g])
    BY DEF DraftingInv, RowType
<1>2a. u = [pc |-> "context", n |-> n, knows |-> generator[g].knows,
           text |-> generator[g].text, version |-> generator[g].version,
           home |-> generator[g].home, failure |-> generator[g].failure,
           seen |-> generator[g].seen, late |-> generator[g].late]
    BY <1>2, ThreadBegins, Zenon
<1> HIDE DEF u
<1>3. /\ GeneratorThread(u) /\ u.home = generator[g].home /\ u.n = n
      /\ u.pc = "context" /\ u.seen = generator[g].seen
    BY <1>2, <1>2a DEF GeneratorThread
<1> HIDE DEF u
<1>4. TameGenerator(generator[g], u)
    BY <1>3 DEF TameGenerator, ValidateStart, Extracting
<1>5. TameGenerators
    BY <1>1, <1>4, GeneratorMoves DEF DraftingInv
<1>6. /\ UNCHANGED <<planner, plans, evaluator, version, fact, hook, drafts, overtaken, crossed,
                     chapter, project>>
    BY DEF ValidateStart, rows, history
<1>7. Remark /\ TamePlanners /\ TameEvaluators
    BY <1>6, NothingRemarked, PlannersRest, EvaluatorsRest DEF DraftingInv
<1>8. QED BY <1>5, <1>7 DEF Quiet

LEMMA ContextIsQuiet ==
    ASSUME DraftingAssumption, DraftingInv, NEW g \in Generators, BuildContext(g)
    PROVE  Quiet
<1> DEFINE u == [generator[g] EXCEPT !.pc = "run",
                    !.knows = WithinBudget(Candidates(generator[g].n))]
<1>1. generator' = [generator EXCEPT ![g] = u] /\ generator[g].pc = "context"
    BY Zenon DEF BuildContext
<1>2. GeneratorThread(generator[g])
    BY DEF DraftingInv, RowType
<1>2a. u = [pc |-> "run", n |-> generator[g].n,
           knows |-> WithinBudget(Candidates(generator[g].n)),
           text |-> generator[g].text, version |-> generator[g].version,
           home |-> generator[g].home, failure |-> generator[g].failure,
           seen |-> generator[g].seen, late |-> generator[g].late]
    BY <1>2, ThreadFields, Zenon
<1> HIDE DEF u
<1>3. /\ GeneratorThread(u) /\ u.home = generator[g].home /\ u.n = generator[g].n
      /\ u.pc = "run" /\ u.seen = generator[g].seen
    BY <1>2, <1>2a DEF GeneratorThread
<1>4. generator[g].n \in Chapters /\ Exists(generator[g].n)
    BY <1>1 DEF Drafted, DraftingInv
<1> HIDE DEF u
<1>5. TameGenerator(generator[g], u)
    BY <1>3, <1>4 DEF TameGenerator, Extracting
<1>6. TameGenerators
    BY <1>1, <1>5, GeneratorMoves DEF DraftingInv
<1>7. /\ UNCHANGED <<planner, plans, evaluator, version, fact, hook, drafts, overtaken, crossed,
                     chapter, project>>
    BY DEF BuildContext, rows, history, counts
<1>8. Remark /\ TamePlanners /\ TameEvaluators
    BY <1>7, NothingRemarked, PlannersRest, EvaluatorsRest DEF DraftingInv
<1>9. QED BY <1>6, <1>8 DEF Quiet

LEMMA RunningIsQuiet ==
    ASSUME DraftingAssumption, DraftingInv, NEW g \in Generators, SetRunning(g)
    PROVE  Quiet
<1>1. generator[g].n \in Chapters
    BY DEF Drafted, DraftingInv, SetRunning
<1>2. Remark
    BY <1>1, StatusRemarked, "generating" \in ChapterStatuses
       DEF DraftingInv, SetRunning, history, ChapterStatuses, Running, Judged
<1>3. TameGenerators
    BY GeneratorGoes DEF DraftingInv, SetRunning
<1>4. TamePlanners /\ TameEvaluators
    BY PlannersRest, EvaluatorsRest DEF DraftingInv, SetRunning, counts
<1>5. QED BY <1>2, <1>3, <1>4 DEF Quiet

LEMMA FailureIsQuiet ==
    ASSUME DraftingAssumption, DraftingInv, NEW g \in Generators, MarkFailure(g)
    PROVE  Quiet
<1>1. generator[g].n \in Chapters
    BY DEF Drafted, DraftingInv, MarkFailure
<1>2. generator[g].failure \in ChapterStatuses \ (Judged \cup {"generated", "evaluating"})
    BY DEF DraftingInv, RowType, GeneratorThread, ChapterStatuses, Judged
<1>3. Remark
    BY <1>1, <1>2, StatusRemarked DEF DraftingInv, MarkFailure, history
<1>4. TameGenerators
    BY GeneratorAbandons DEF DraftingInv, MarkFailure
<1>5. TamePlanners /\ TameEvaluators
    BY PlannersRest, EvaluatorsRest DEF DraftingInv, MarkFailure, counts
<1>6. QED BY <1>3, <1>4, <1>5 DEF Quiet

\* An extraction that does not find its rows any more, and calls that fail.
LEMMA GeneratorsAreQuiet ==
    ASSUME DraftingAssumption, DraftingInv, NEW g \in Generators,
           \/ ReadCanon(g) /\ Snapshot(g) \notin DOMAIN version[generator[g].n]
           \/ PersistExtraction(g) /\ chapter[generator[g].n].plan # generator[g].seen.plan
           \/ GenerationFails(g)
    PROVE  Quiet
<1>1. TameGenerators
  <2>1. CASE ReadCanon(g) /\ Snapshot(g) \notin DOMAIN version[generator[g].n]
    <3>1. Abandon(g)
      BY <2>1, Zenon DEF ReadCanon
    <3>2. QED BY <3>1, GeneratorAbandons DEF DraftingInv
  <2>2. ASSUME NEW mark \in {"failed", "fact_extraction_failed"},
               generator[g].pc \in {"write", "extract", "commit"},
               generator' = [generator EXCEPT ![g] =
                                [generator[g] EXCEPT !.pc = "fail", !.failure = mark]]
        PROVE  TameGenerators
    <3> DEFINE u == [generator[g] EXCEPT !.pc = "fail", !.failure = mark]
    <3>1. generator' = [generator EXCEPT ![g] = u]
      BY <2>2
    <3>2. GeneratorThread(generator[g])
      BY DEF DraftingInv, RowType
    <3>2a. u = [pc |-> "fail", n |-> generator[g].n, knows |-> generator[g].knows,
               text |-> generator[g].text, version |-> generator[g].version,
               home |-> generator[g].home, failure |-> mark,
               seen |-> generator[g].seen, late |-> generator[g].late]
      BY <3>2, ThreadFields, Zenon
    <3> HIDE DEF u
    <3>3. /\ GeneratorThread(u) /\ u.home = generator[g].home /\ u.n = generator[g].n
          /\ u.pc = "fail" /\ u.seen = generator[g].seen
      BY <3>2, <3>2a DEF GeneratorThread
    <3>4. generator[g].n \in Chapters /\ Exists(generator[g].n)
      BY <2>2 DEF Drafted, DraftingInv
    <3>5. TameGenerator(generator[g], u)
      BY <3>3, <3>4 DEF TameGenerator, Extracting
    <3>6. QED BY <3>1, <3>5, GeneratorMoves DEF DraftingInv
  <2>3. CASE /\ PersistExtraction(g)
             /\ chapter[generator[g].n].plan # generator[g].seen.plan
    <3>1. /\ generator[g].pc = "commit"
          /\ generator' = [generator EXCEPT ![g] =
                [generator[g] EXCEPT !.pc = "fail", !.failure = "fact_extraction_failed"]]
      BY <2>3, Zenon DEF PersistExtraction
    <3>2. QED BY <3>1, <2>2
  <2>4. CASE GenerationFails(g)
    <3> DEFINE mark == IF generator[g].pc = "write" THEN "failed"
                                                    ELSE "fact_extraction_failed"
    <3>1. /\ generator' = [generator EXCEPT ![g] =
                [generator[g] EXCEPT !.pc = "fail", !.failure = mark]]
          /\ generator[g].pc \in {"write", "extract", "commit"}
      BY <2>4, Zenon DEF GenerationFails
    <3>2. mark \in {"failed", "fact_extraction_failed"}
      OBVIOUS
    <3> HIDE DEF mark
    <3>3. QED BY <3>1, <3>2, <2>2
  <2>5. QED BY <2>1, <2>3, <2>4
<1>2. UNCHANGED <<planner, plans, evaluator, version, fact, hook, drafts, overtaken, crossed,
                  chapter, project>>
  <2>1. CASE ReadCanon(g)
    BY <2>1, Zenon DEF ReadCanon, rows, history, counts
  <2>2. CASE /\ PersistExtraction(g)
             /\ chapter[generator[g].n].plan # generator[g].seen.plan
    BY <2>2, Zenon DEF PersistExtraction, counts
  <2>3. CASE GenerationFails(g)
    BY <2>3 DEF GenerationFails, Fault, rows, history
  <2>4. QED BY <2>1, <2>2, <2>3
<1>3. Remark /\ TamePlanners /\ TameEvaluators
    BY <1>2, NothingRemarked, PlannersRest, EvaluatorsRest DEF DraftingInv
<1>4. QED BY <1>1, <1>3 DEF Quiet

\* The transaction of an extraction reads the rows as they are.
LEMMA ReadIsQuiet ==
    ASSUME DraftingAssumption, DraftingInv, NEW g \in Generators, ReadCanon(g),
           Snapshot(g) \in DOMAIN version[generator[g].n]
    PROVE  Quiet
<1> DEFINE n == generator[g].n
           number == generator[g].version
           after == [chapter EXCEPT ![n].status = "generated"]
           r == [plan |-> chapter[n].plan, number |-> number,
                 facts |-> PreviousFacts(n, number), status |-> chapter[n].status,
                 accepted |-> chapter[n].accepted, mark |-> version[n][number].status,
                 hook |-> hook, project |-> project, whole |-> AllGenerated(after)]
           u == [generator[g] EXCEPT !.pc = "commit", !.seen = r]
<1>1. /\ generator[g].pc = "extract" /\ generator' = [generator EXCEPT ![g] = u]
      /\ UNCHANGED <<planner, plans, evaluator, version, fact, hook, drafts, overtaken, crossed,
                     chapter, project>>
    BY Zenon DEF ReadCanon, Snapshot, rows, history, counts
<1>2. GeneratorThread(generator[g]) /\ n \in Chapters /\ Exists(n)
    BY <1>1 DEF DraftingInv, RowType, Drafted
<1>3. number \in 1..Len(version[n])
  <2>1. version[n] \in Seq(VersionRows)
    BY <1>2 DEF DraftingInv, RowType
  <2>2. QED BY <2>1 DEF Snapshot
<1>4. u = [pc |-> "commit", n |-> n, knows |-> generator[g].knows,
           text |-> generator[g].text, version |-> number,
           home |-> generator[g].home, failure |-> generator[g].failure,
           seen |-> r, late |-> generator[g].late]
    BY <1>2, ThreadFields, Zenon
<1>5. /\ r.plan = chapter[n].plan /\ r.number = number /\ r.facts = PreviousFacts(n, number)
      /\ r.accepted = chapter[n].accepted /\ r.whole = AllGenerated(after)
    BY Zenon
<1>6. AllGenerated(after) => \A m \in Chapters \ {n} : chapter[m].accepted # None
  <2>1. SUFFICES ASSUME AllGenerated(after), NEW m \in Chapters \ {n}
                 PROVE  chapter[m].accepted # None
    OBVIOUS
  <2>2. after[m] = chapter[m]
    BY DEF DraftingInv, RowType
  <2>3. chapter[m].status = "generated"
    BY <2>1, <2>2 DEF AllGenerated
  <2>4. QED BY <2>3 DEF DraftingInv, Numbered
<1> HIDE DEF u, r, after
<1>7. /\ GeneratorThread(u) /\ u.pc = "commit" /\ u.n = n /\ u.text = generator[g].text
      /\ u.version = number /\ u.home = generator[g].home /\ u.seen = r
    BY <1>2, <1>4 DEF GeneratorThread
<1>8. Abreast(u)
    BY <1>3, <1>5, <1>6, <1>7 DEF Abreast, PreviousFacts
<1>9. TameGenerator(generator[g], u)
    BY <1>1, <1>2, <1>5, <1>7, <1>8 DEF TameGenerator, Extracting
<1>10. TameGenerators
    BY <1>1, <1>9, GeneratorMoves DEF DraftingInv
<1>11. Remark /\ TamePlanners /\ TameEvaluators
    BY <1>1, NothingRemarked, PlannersRest, EvaluatorsRest DEF DraftingInv
<1>12. QED BY <1>10, <1>11 DEF Quiet

LEMMA ChoiceIsQuiet ==
    ASSUME DraftingAssumption, DraftingInv, NEW e \in Evaluators, NEW n \in Chapters,
           NEW force \in BOOLEAN, ChooseVersion(e, n, force)
    PROVE  Quiet
<1> DEFINE u == [IdleEvaluator EXCEPT !.pc = "load", !.n = n, !.plan = chapter[n].plan,
                                      !.version = chapter[n].current]
<1>1. evaluator' = [evaluator EXCEPT ![e] = u]
    BY Zenon DEF ChooseVersion
<1>2. chapter[n] \in ChapterRows
    BY DEF DraftingInv, RowType
<1>3. u \in EvaluatorThreads /\ u.pc = "load" /\ u.n = n /\ u.plan = chapter[n].plan
  <2> DEFINE v1 == [IdleEvaluator EXCEPT !.pc = "load"]
             v2 == [v1 EXCEPT !.n = n]
             v3 == [v2 EXCEPT !.plan = chapter[n].plan]
             v4 == [v3 EXCEPT !.version = chapter[n].current]
  <2>1. u = v4
    BY Zenon
  <2>2. IdleEvaluator \in EvaluatorThreads
    BY DEF IdleEvaluator, EvaluatorThreads, ChapterStatuses, None
  <2>3. chapter[n].plan \in Nat /\ chapter[n].current \in Nat
    BY <1>2 DEF ChapterRows
  <2>4. v1 \in EvaluatorThreads /\ v1.pc = "load"
    BY <2>2 DEF EvaluatorThreads
  <2> HIDE DEF v1, u
  <2>5. v2 \in EvaluatorThreads /\ v2.pc = "load" /\ v2.n = n
    BY <2>4 DEF EvaluatorThreads
  <2> HIDE DEF v2
  <2>6. v3 \in EvaluatorThreads /\ v3.pc = "load" /\ v3.n = n /\ v3.plan = chapter[n].plan
    BY <2>3, <2>5 DEF EvaluatorThreads
  <2> HIDE DEF v3
  <2>7. v4 \in EvaluatorThreads /\ v4.pc = "load" /\ v4.n = n /\ v4.plan = chapter[n].plan
    BY <2>3, <2>6 DEF EvaluatorThreads
  <2>8. QED BY <2>1, <2>7
<1> HIDE DEF u
<1>5. TameEvaluator(evaluator[e], u)
    BY <1>3 DEF TameEvaluator
<1>6. TameEvaluators
    BY <1>1, <1>3, <1>5, EvaluatorMoves DEF DraftingInv
<1>7. UNCHANGED <<planner, plans, generator, version, fact, hook, drafts, overtaken, crossed,
                  chapter, project>>
    BY DEF ChooseVersion, rows, history, counts
<1>8. Remark /\ TamePlanners /\ TameGenerators
    BY <1>7, NothingRemarked, PlannersRest, GeneratorsRest DEF DraftingInv
<1>9. QED BY <1>6, <1>8 DEF Quiet

LEMMA LoadIsQuiet ==
    ASSUME DraftingAssumption, DraftingInv, NEW e \in Evaluators, LoadContext(e)
    PROVE  Quiet
<1> DEFINE n == evaluator[e].n
           late == Resolved(e, n) # chapter[n].current
           u == [evaluator[e] EXCEPT !.pc = "mark", !.plan = chapter[n].plan,
                    !.version = Resolved(e, n), !.previous = chapter[n].status,
                    !.late = late]
<1>1. evaluator[e] \in EvaluatorThreads
    BY DEF DraftingInv, RowType
<1>2. n \in Chapters
    BY DEF DraftingInv, Evaluated, LoadContext
<1>3. chapter[n] \in ChapterRows /\ version[n] \in Seq(VersionRows)
    BY <1>2 DEF DraftingInv, RowType
<1>4. TameEvaluators
  <2>1. CASE Stop(e)
    BY <2>1, EvaluatorStops DEF DraftingInv
  <2>2. ASSUME ~Stop(e)
        PROVE  TameEvaluators
    <3>1. /\ chapter[n].status \in Evaluatable /\ Resolved(e, n) \in DOMAIN version[n]
          /\ evaluator' = [evaluator EXCEPT ![e] = u]
      BY <2>2, Zenon DEF LoadContext
    <3>3. late \in BOOLEAN /\ Resolved(e, n) \in 1..Len(version[n])
      <4>1. DOMAIN version[n] = 1..Len(version[n])
        BY <1>3
      <4>2. Resolved(e, n) \in 1..Len(version[n])
        BY <3>1, <4>1, Zenon
      <4>3. QED BY <4>2
    <3>4. Resolved(e, n) \in Nat
      BY <3>3, <1>3
    <3>5. /\ u \in EvaluatorThreads /\ u.pc = "mark" /\ u.n = n
          /\ u.plan = chapter[n].plan /\ u.version = Resolved(e, n) /\ u.late = late
      <4> DEFINE v1 == [evaluator[e] EXCEPT !.pc = "mark"]
                 v2 == [v1 EXCEPT !.plan = chapter[n].plan]
                 v3 == [v2 EXCEPT !.version = Resolved(e, n)]
                 v4 == [v3 EXCEPT !.previous = chapter[n].status]
                 v5 == [v4 EXCEPT !.late = late]
      <4>1. u = v5
        BY Zenon
      <4>2. chapter[n].plan \in Nat /\ chapter[n].status \in ChapterStatuses
        BY <1>3 DEF ChapterRows
      <4> HIDE DEF u, late
      <4>3. v1 \in EvaluatorThreads /\ v1.pc = "mark" /\ v1.n = n
        BY <1>1 DEF EvaluatorThreads
      <4> HIDE DEF v1, n
      <4>4. /\ v2 \in EvaluatorThreads /\ v2.pc = "mark" /\ v2.n = n
            /\ v2.plan = chapter[n].plan
        BY <4>2, <4>3 DEF EvaluatorThreads
      <4> HIDE DEF v2
      <4>5. /\ v3 \in EvaluatorThreads /\ v3.pc = "mark" /\ v3.n = n
            /\ v3.plan = chapter[n].plan /\ v3.version = Resolved(e, n)
        BY <4>4, <3>4 DEF EvaluatorThreads
      <4> HIDE DEF v3
      <4>6. /\ v4 \in EvaluatorThreads /\ v4.pc = "mark" /\ v4.n = n
            /\ v4.plan = chapter[n].plan /\ v4.version = Resolved(e, n)
        BY <4>2, <4>5 DEF EvaluatorThreads
      <4> HIDE DEF v4
      <4>7. /\ v5 \in EvaluatorThreads /\ v5.pc = "mark" /\ v5.n = n
            /\ v5.plan = chapter[n].plan /\ v5.version = Resolved(e, n) /\ v5.late = late
        BY <3>3, <4>6 DEF EvaluatorThreads
      <4>8. QED BY <4>1, <4>7
    <3> HIDE DEF u
    <3>6. TameEvaluator(evaluator[e], u)
      BY <3>3, <3>5, <1>2 DEF TameEvaluator
    <3>7. QED BY <3>1, <3>5, <3>6, EvaluatorMoves DEF DraftingInv
  <2>3. QED BY <2>1, <2>2
<1>5. UNCHANGED <<planner, plans, generator, version, fact, hook, drafts, overtaken, crossed,
                  chapter, project>>
    BY Zenon DEF LoadContext, rows, history, counts
<1>6. Remark /\ TamePlanners /\ TameGenerators
    BY <1>5, NothingRemarked, PlannersRest, GeneratorsRest DEF DraftingInv
<1>7. QED BY <1>4, <1>6 DEF Quiet

\* An evaluation that comes too late to mark the chapter or to save.
LEMMA LateEvaluationIsQuiet ==
    ASSUME DraftingAssumption, DraftingInv, NEW e \in Evaluators,
           \/ MarkEvaluating(e) /\ ~(Read(e) /\ chapter[evaluator[e].n].status =
                                                evaluator[e].previous)
           \/ \E passed \in BOOLEAN : PersistComplete(e, passed) /\ ~MaySave(e)
           \/ PersistPartial(e) /\ ~MaySave(e)
    PROVE  Quiet
<1>1. /\ Stop(e)
      /\ UNCHANGED <<planner, plans, generator, version, fact, hook, drafts, overtaken, crossed,
                     chapter, project>>
  <2>1. CASE MarkEvaluating(e) /\ ~(Read(e) /\ chapter[evaluator[e].n].status =
                                                evaluator[e].previous)
    BY <2>1, Zenon DEF MarkEvaluating, history, counts
  <2>2. ASSUME NEW passed \in BOOLEAN, PersistComplete(e, passed), ~MaySave(e)
        PROVE  /\ Stop(e)
               /\ UNCHANGED <<planner, plans, generator, version, fact, hook, drafts,
                              overtaken, crossed, chapter, project>>
    BY <2>2, Zenon DEF PersistComplete, counts
  <2>3. CASE PersistPartial(e) /\ ~MaySave(e)
    BY <2>3, Zenon DEF PersistPartial, history, counts
  <2>4. QED BY <2>1, <2>2, <2>3
<1>2. TameEvaluators
    BY <1>1, EvaluatorStops DEF DraftingInv
<1>3. Remark /\ TamePlanners /\ TameGenerators
    BY <1>1, NothingRemarked, PlannersRest, GeneratorsRest DEF DraftingInv
<1>4. QED BY <1>2, <1>3 DEF Quiet

LEMMA EvaluationFailureIsQuiet ==
    ASSUME DraftingAssumption, DraftingInv, NEW e \in Evaluators, MarkEvaluationFailed(e)
    PROVE  Quiet
<1>1. /\ evaluator[e].n \in Chapters
      /\ "evaluation_failed" \in ChapterStatuses \ (Judged \cup {"generated", "evaluating"})
    BY DEF DraftingInv, Evaluated, MarkEvaluationFailed, ChapterStatuses, Judged
<1>2. UNCHANGED <<version, fact, hook, drafts, overtaken, crossed, project, planner, plans,
                  generator>>
    BY DEF MarkEvaluationFailed, history, counts
<1>3. Remark
  <2>1. CASE MaySave(e)
    BY <2>1, <1>1, <1>2, StatusRemarked DEF MarkEvaluationFailed, DraftingInv
  <2>2. CASE ~MaySave(e)
    <3>1. chapter' = chapter
      BY <2>2 DEF MarkEvaluationFailed
    <3>2. QED BY <3>1, <1>2, NothingRemarked DEF DraftingInv
  <2>3. QED BY <2>1, <2>2
<1>4. TameEvaluators
    BY EvaluatorStops DEF MarkEvaluationFailed, DraftingInv
<1>5. TamePlanners /\ TameGenerators
    BY <1>2, PlannersRest, GeneratorsRest DEF DraftingInv
<1>6. QED BY <1>3, <1>4, <1>5 DEF Quiet

LEMMA CriticFailureIsQuiet ==
    ASSUME DraftingAssumption, DraftingInv, NEW e \in Evaluators, EvaluationFails(e)
    PROVE  Quiet
<1>1. /\ evaluator[e] \in EvaluatorThreads
      /\ evaluator[e].pc \in {"critique", "partial"} /\ evaluator[e].n \in Chapters
    BY DEF DraftingInv, RowType, Evaluated, EvaluationFails
<1>2. PICK pc \in {"partial", "fail"} : evaluator' = [evaluator EXCEPT ![e].pc = pc]
    BY DEF EvaluationFails
<1> DEFINE u == [evaluator[e] EXCEPT !.pc = pc]
<1>3. evaluator' = [evaluator EXCEPT ![e] = u]
    BY <1>2, Zenon
<1>4. /\ u \in EvaluatorThreads /\ u.pc = pc /\ u.n = evaluator[e].n
      /\ u.plan = evaluator[e].plan /\ u.version = evaluator[e].version
      /\ u.late = evaluator[e].late
    BY <1>1 DEF EvaluatorThreads
<1> HIDE DEF u
<1>5. TameEvaluator(evaluator[e], u)
    BY <1>1, <1>4 DEF TameEvaluator
<1>6. TameEvaluators
    BY <1>3, <1>4, <1>5, EvaluatorMoves DEF DraftingInv
<1>7. UNCHANGED <<planner, plans, generator, version, fact, hook, drafts, overtaken, crossed,
                  chapter, project>>
    BY DEF EvaluationFails, Fault, rows, history
<1>8. Remark /\ TamePlanners /\ TameGenerators
    BY <1>7, NothingRemarked, PlannersRest, GeneratorsRest DEF DraftingInv
<1>9. QED BY <1>6, <1>8 DEF Quiet

LEMMA FaultsAreQuiet ==
    ASSUME DraftingAssumption, DraftingInv, Refused \/ Crash
    PROVE  Quiet
<1>1. UNCHANGED <<plans, version, fact, hook, drafts, overtaken, crossed, chapter, project>>
    BY DEF Refused, Crash, Fault, rows, history
<1>2. \/ \E p \in Planners : /\ planner' = [planner EXCEPT ![p] = IdlePlanner]
                             /\ UNCHANGED <<generator, evaluator>>
      \/ \E g \in Generators : Abandon(g) /\ UNCHANGED <<planner, evaluator>>
      \/ \E e \in Evaluators : Stop(e) /\ UNCHANGED <<planner, generator>>
    BY Zenon DEF Refused, Crash
<1>3. TamePlanners /\ TameGenerators /\ TameEvaluators
  <2>1. ASSUME NEW p \in Planners, planner' = [planner EXCEPT ![p] = IdlePlanner],
               UNCHANGED <<generator, evaluator>>
        PROVE  TamePlanners /\ TameGenerators /\ TameEvaluators
    BY <1>1, <2>1, PlannerIsIdle, GeneratorsRest, EvaluatorsRest DEF DraftingInv
  <2>2. ASSUME NEW g \in Generators, Abandon(g), UNCHANGED <<planner, evaluator>>
        PROVE  TamePlanners /\ TameGenerators /\ TameEvaluators
    BY <1>1, <2>2, PlannersRest, GeneratorAbandons, EvaluatorsRest DEF DraftingInv
  <2>3. ASSUME NEW e \in Evaluators, Stop(e), UNCHANGED <<planner, generator>>
        PROVE  TamePlanners /\ TameGenerators /\ TameEvaluators
    BY <1>1, <2>3, PlannersRest, GeneratorsRest, EvaluatorStops DEF DraftingInv
  <2>4. QED BY <1>2, <2>1, <2>2, <2>3
<1>4. Remark
    BY <1>1, NothingRemarked DEF DraftingInv
<1>5. QED BY <1>3, <1>4 DEF Quiet
-----------------------------------------------------------------------------
(***************************************************************************)
(* A quiet step keeps the invariant; so do the parts that are common to    *)
(* every step that saves neither a plan nor a draft.                       *)
(***************************************************************************)

\* What every step but a plan and a draft has in common.
Steady ==
    /\ \A n \in Chapters :
          /\ chapter'[n].plan = chapter[n].plan
          /\ Len(version'[n]) = Len(version[n])
          /\ \A i \in 1..Len(version[n]) : version'[n][i].text = version[n][i].text
    /\ TamePlanners /\ TameGenerators

LEMMA QuietIsSteady ==
    ASSUME Quiet
    PROVE  Steady
BY DEF Quiet, Remark, Steady

LEMMA SteadyKeepsPlans ==
    ASSUME DraftingAssumption, DraftingInv, Steady, NEW p \in Planners,
           \A e \in Evaluators : \/ evaluator'[e].plan \in {None, evaluator[e].plan}
                                \/ /\ evaluator'[e].n \in Chapters
                                   /\ evaluator'[e].plan = chapter[evaluator'[e].n].plan
    PROVE  NewPlan(p)'
<1>1. /\ plans \in Nat /\ plans' \in Nat /\ plans <= plans'
      /\ \A q \in Planners : planner[q] \in PlannerThreads /\ planner'[q] \in PlannerThreads
      /\ \A n \in Chapters : chapter[n] \in ChapterRows
    BY DEF DraftingInv, RowType, Steady, TamePlanners, DraftingAssumption
<1>2. \A n \in Chapters : chapter'[n].plan = chapter[n].plan /\ chapter[n].plan \in 0..plans
    BY <1>1 DEF DraftingInv, Numbered, Steady, ChapterRows
<1>3. \A g \in Generators :
          /\ generator'[g].home \in {None, generator[g].home}
          /\ generator[g].home \in 0..plans /\ generator[g].seen.plan \in 0..plans
          /\ \/ generator'[g].seen.plan \in {None, generator[g].seen.plan}
             \/ /\ generator'[g].n \in Chapters
                /\ generator'[g].seen.plan = chapter[generator'[g].n].plan
    BY DEF DraftingInv, Drafted, Reading, Steady, TameGenerators, TameGenerator
<1>4. \A e \in Evaluators : /\ evaluator[e].plan \in 0..plans
                            /\ \/ evaluator'[e].plan \in {None, evaluator[e].plan}
                               \/ /\ evaluator'[e].n \in Chapters
                                  /\ evaluator'[e].plan = chapter[evaluator'[e].n].plan
    BY DEF DraftingInv, Evaluated
<1>5. SUFFICES ASSUME planner'[p].pc = "plan" PROVE NewPlan(p)'
    BY DEF NewPlan
<1>6. CASE planner[p].pc = "plan" /\ planner'[p].plan = planner[p].plan
  <2>1. NewPlan(p) /\ planner[p].plan \in 1..plans
    BY <1>6 DEF DraftingInv, NewPlan
  <2>2. planner'[p].plan \in 1..plans'
    BY <2>1, <1>1, <1>6
  <2>3. ASSUME NEW q \in Planners \ {p}, planner'[q].pc = "plan"
        PROVE  planner'[q].plan # planner'[p].plan
    <3>1. CASE planner[q].pc = "plan" /\ planner'[q].plan = planner[q].plan
      BY <3>1, <2>1, <1>6 DEF NewPlan
    <3>2. CASE planner'[q].plan = plans + 1
      BY <3>2, <2>1, <1>1, <1>6
    <3>3. QED BY <2>3, <3>1, <3>2 DEF Steady, TamePlanners
  <2>4. planner[p].plan # None
    BY <2>1 DEF None
  <2>5. \A n \in Chapters : chapter'[n].plan # planner'[p].plan
    BY <1>2, <1>6, <2>1 DEF NewPlan
  <2>6. \A g \in Generators : /\ generator'[g].home # planner'[p].plan
                              /\ generator'[g].seen.plan # planner'[p].plan
    BY <1>3, <1>6, <2>1, <2>4 DEF NewPlan
  <2>7. \A e \in Evaluators : evaluator'[e].plan # planner'[p].plan
    BY <1>4, <1>6, <2>1, <2>4 DEF NewPlan
  <2>8. QED BY <2>2, <2>3, <2>5, <2>6, <2>7 DEF NewPlan
<1>7. CASE /\ planner'[p].plan = plans + 1 /\ plans' = plans + 1
           /\ \A q \in Planners \ {p} : planner'[q] = planner[q]
  <2>1. planner'[p].plan \in 1..plans'
    BY <1>1, <1>7
  <2>2. \A q \in Planners \ {p} : planner'[q].pc = "plan" => planner'[q].plan \in 1..plans
    BY <1>7 DEF DraftingInv, NewPlan
  <2>3. \A k \in 0..plans : k # plans + 1
    BY <1>1
  <2>4. None \in 0..plans
    BY <1>1 DEF None
  <2>5. \A q \in Planners \ {p} : planner'[q].pc = "plan" => planner'[q].plan # planner'[p].plan
    BY <1>1, <1>7, <2>2
  <2>6. \A n \in Chapters : chapter'[n].plan # planner'[p].plan
    BY <1>2, <1>7, <2>3
  <2>7. \A g \in Generators : /\ generator'[g].home # planner'[p].plan
                              /\ generator'[g].seen.plan # planner'[p].plan
    BY <1>2, <1>3, <1>7, <2>3, <2>4
  <2>8. \A e \in Evaluators : evaluator'[e].plan # planner'[p].plan
    BY <1>2, <1>4, <1>7, <2>3, <2>4
  <2>9. QED BY <2>1, <2>5, <2>6, <2>7, <2>8 DEF NewPlan
<1>8. QED BY <1>5, <1>6, <1>7 DEF Steady, TamePlanners

LEMMA SteadyKeepsDrafts ==
    ASSUME DraftingAssumption, DraftingInv, Steady, NEW g \in Generators,
           generator[g].pc \in Extracting
           /\ generator[g].home = chapter[generator[g].n].plan =>
              \A f \in fact' : f.n = generator[g].n /\ f.version = generator[g].version => f.stray
    PROVE  Drafted(g)'
<1>1. /\ plans \in Nat /\ plans' \in Nat /\ plans <= plans'
    BY DEF DraftingInv, RowType, Steady, TamePlanners, DraftingAssumption
<1>2. \A n \in Chapters : chapter'[n].plan = chapter[n].plan
    BY DEF Steady
<1>3. \A h \in Generators : TameGenerator(generator[h], generator'[h])
    BY DEF Steady, TameGenerators
<1>4. generator[g].home \in 0..plans
    BY DEF DraftingInv, Drafted
<1>5. generator'[g].home \in 0..plans'
    BY <1>1, <1>3, <1>4 DEF TameGenerator, None
<1>6. generator'[g].pc # "idle" => /\ generator'[g].n \in Chapters
                                   /\ chapter'[generator'[g].n].plan # None
    BY <1>2, <1>3 DEF TameGenerator, Exists
<1>7. \A h \in Generators : generator'[h].pc \in Extracting =>
          /\ generator[h].pc \in Extracting /\ generator'[h].n = generator[h].n
          /\ generator'[h].text = generator[h].text
          /\ generator'[h].version = generator[h].version
          /\ generator'[h].home = generator[h].home
    BY <1>3 DEF TameGenerator
<1>9. CASE generator'[g].pc \notin Extracting
  BY <1>5, <1>6, <1>9 DEF Drafted, Exists
<1>10. CASE generator'[g].pc \in Extracting
  <2> DEFINE n == generator[g].n
             k == generator[g].version
             home == generator[g].home
  <2>1. /\ Drafted(g) /\ generator[g].pc \in Extracting /\ n \in Chapters
        /\ generator'[g].n = n /\ generator'[g].text = generator[g].text
        /\ generator'[g].version = k /\ generator'[g].home = home
    BY <1>6, <1>7, <1>10 DEF DraftingInv, Extracting
  <2>2. chapter'[n].plan = chapter[n].plan /\ k # 0
    BY <1>2, <2>1 DEF Drafted
  <2>3. CASE home # chapter[n].plan
    BY <1>5, <1>6, <1>10, <2>1, <2>2, <2>3 DEF Drafted, Exists
  <2>4. CASE home = chapter[n].plan
    <3>1. /\ k \in Nat /\ k <= Len(version[n]) /\ version[n][k].text = generator[g].text
          /\ Len(version[n]) \in Nat
      BY <2>1, <2>4 DEF Drafted, DraftingInv, RowType, GeneratorThread
    <3>2. k \in 1..Len(version[n])
      BY <2>2, <3>1
    <3>3. Len(version'[n]) = Len(version[n]) /\ version'[n][k].text = generator[g].text
      BY <2>1, <3>1, <3>2 DEF Steady
    <3>4. \A h \in Generators \ {g} :
              generator'[h].pc \in Extracting /\ generator'[h].n = n
              /\ generator'[h].home = home => generator'[h].version # k
      BY <1>7, <2>1, <2>4 DEF Drafted
    <3>5. \A f \in fact' : f.n = n /\ f.version = k => f.stray
      BY <2>1, <2>4
    <3>6. QED BY <1>5, <1>6, <1>10, <2>1, <2>2, <3>1, <3>3, <3>4, <3>5 DEF Drafted, Exists
  <2>5. QED BY <2>3, <2>4
<1>11. QED BY <1>9, <1>10

LEMMA SteadyKeepsReads ==
    ASSUME DraftingAssumption, DraftingInv, Steady, NEW g \in Generators,
           \A m \in Chapters : chapter[m].accepted # None => chapter'[m].accepted # None,
           generator'[g].pc = "commit" /\ ~generator'[g].late =>
              /\ chapter'[generator'[g].n].accepted = chapter[generator'[g].n].accepted
              /\ \A f \in fact' : f.n = generator'[g].n => f \in fact
    PROVE  Reading(g)'
<1>0. PICK v : v = generator'[g]
    OBVIOUS
<1>1. /\ plans \in Nat /\ plans' \in Nat /\ plans <= plans'
      /\ \A m \in Chapters : chapter[m].plan \in 0..plans
    BY DEF DraftingInv, RowType, Numbered, ChapterRows, Steady, TamePlanners, DraftingAssumption
<1>2. TameGenerator(generator[g], v) /\ Reading(g)
    BY <1>0 DEF Steady, TameGenerators, DraftingInv
<1>3. v.seen.plan \in 0..plans'
  <2>1. \/ v.seen.plan = None \/ v.seen.plan = generator[g].seen.plan
        \/ v.n \in Chapters /\ v.seen.plan = chapter[v.n].plan
    BY <1>2, Zenon DEF TameGenerator
  <2>2. generator[g].seen.plan \in 0..plans
    BY <1>2 DEF Reading
  <2>2a. None \in 0..plans
    BY <1>1 DEF None
  <2>3. v.seen.plan \in 0..plans
    BY <1>1, <2>1, <2>2, <2>2a, Zenon
  <2>4. QED BY <1>1, <2>3
<1>4. ASSUME v.pc = "commit"
      PROVE  Abreast(generator[g])'
  <2>1. Abreast(v) /\ v.n \in Chapters
    BY <1>2, <1>4 DEF TameGenerator
  <2>2. /\ chapter'[v.n].plan = chapter[v.n].plan /\ Len(version'[v.n]) = Len(version[v.n])
    BY <2>1 DEF Steady
  <2>3. /\ v.seen.number = v.version
        /\ \A f \in v.seen.facts : f.n = v.n /\ f.version # v.seen.number
    BY <2>1 DEF Abreast
  <2>4. ASSUME v.seen.plan = chapter'[v.n].plan
        PROVE  /\ v.seen.number \in 1..Len(version'[v.n])
               /\ v.seen.whole => \A m \in Chapters \ {v.n} : chapter'[m].accepted # None
               /\ v.seen.accepted # None => chapter'[v.n].accepted # None
               /\ ~v.late =>
                     /\ v.seen.accepted = chapter'[v.n].accepted
                     /\ \A f \in fact' :
                           f.n = v.n /\ f.status = "accepted" /\ f.version # v.seen.number
                           => f \in v.seen.facts
    <3>1. v.seen.plan = chapter[v.n].plan
      BY <2>2, <2>4
    <3>2. /\ v.seen.number \in 1..Len(version[v.n])
          /\ v.seen.whole => \A m \in Chapters \ {v.n} : chapter[m].accepted # None
          /\ v.seen.accepted # None => chapter[v.n].accepted # None
          /\ ~v.late =>
                /\ v.seen.accepted = chapter[v.n].accepted
                /\ \A f \in fact :
                      f.n = v.n /\ f.status = "accepted" /\ f.version # v.seen.number
                      => f \in v.seen.facts
      BY <2>1, <3>1 DEF Abreast
    <3>3. v.pc = "commit" /\ ~v.late => /\ chapter'[v.n].accepted = chapter[v.n].accepted
                                       /\ \A f \in fact' : f.n = v.n => f \in fact
      BY <1>0
    <3>4. QED BY <1>4, <2>1, <2>2, <3>2, <3>3
  <2>6. QED BY <1>0, <2>3, <2>4 DEF Abreast
<1>5. QED BY <1>0, <1>3, <1>4 DEF Reading

LEMMA SteadyKeepsEvaluations ==
    ASSUME DraftingAssumption, DraftingInv, Steady, TameEvaluators, NEW e \in Evaluators,
           \A n \in Chapters :
              /\ chapter'[n].current = chapter[n].current
              /\ chapter'[n].status = "evaluating" => chapter[n].status = "evaluating"
    PROVE  Evaluated(e)'
<1>1. /\ plans \in Nat /\ plans' \in Nat /\ plans <= plans'
      /\ \A n \in Chapters : chapter[n] \in ChapterRows
    BY DEF DraftingInv, RowType, Steady, TamePlanners, DraftingAssumption
<1>2. /\ \A n \in Chapters : /\ chapter'[n].plan = chapter[n].plan
                             /\ chapter'[n].current = chapter[n].current
                             /\ chapter'[n].status = "evaluating" =>
                                   chapter[n].status = "evaluating"
                             /\ Len(version'[n]) = Len(version[n])
  <2>1. \A n \in Chapters : /\ chapter'[n].plan = chapter[n].plan
                            /\ Len(version'[n]) = Len(version[n])
    BY Zenon DEF Steady
  <2>2. QED BY <2>1
<1>2a. \A n \in Chapters : chapter[n].plan \in 0..plans
    BY <1>1 DEF DraftingInv, Numbered, ChapterRows
<1>3. TameEvaluator(evaluator[e], evaluator'[e]) /\ Evaluated(e)
    BY DEF Steady, TameEvaluators, DraftingInv
<1>4. evaluator'[e].plan \in 0..plans'
  <2>1. evaluator[e].plan \in 0..plans /\ None \in 0..plans
    BY <1>1, <1>3 DEF Evaluated, None
  <2>2. evaluator'[e].plan \in 0..plans
    BY <1>2a, <1>3, <2>1 DEF TameEvaluator
  <2>3. QED BY <1>1, <2>2
<1>5. evaluator'[e].pc # "idle" => evaluator'[e].n \in Chapters
    BY <1>3 DEF TameEvaluator
<1>6. SUFFICES ASSUME evaluator'[e].pc \in {"mark", "critique", "partial", "fail"},
                      chapter'[evaluator'[e].n].plan = evaluator'[e].plan
               PROVE  /\ evaluator'[e].version \in 1..Len(version[evaluator'[e].n])
                      /\ evaluator'[e].pc \in {"mark", "critique"} /\ ~evaluator'[e].late
                         /\ (evaluator'[e].pc = "critique" =>
                                chapter'[evaluator'[e].n].status = "evaluating")
                         => evaluator'[e].version = chapter'[evaluator'[e].n].current
    BY <1>2, <1>4, <1>5 DEF Evaluated, Read
<1>7. evaluator'[e].n \in Chapters
    BY <1>5, <1>6
<1>8. CASE /\ evaluator[e].pc \notin {"idle", "load"}
           /\ evaluator'[e].n = evaluator[e].n /\ evaluator'[e].plan = evaluator[e].plan
           /\ evaluator'[e].version = evaluator[e].version
           /\ evaluator'[e].late = evaluator[e].late
           /\ evaluator'[e].pc \in {"mark", "critique"} => evaluator'[e].pc = evaluator[e].pc
  <2>1. evaluator[e].pc \in {"mark", "critique", "partial", "fail"} /\ Read(e)
    BY <1>2, <1>6, <1>7, <1>8 DEF Read, DraftingInv, RowType, EvaluatorThreads
  <2>2. QED BY <1>2, <1>3, <1>7, <1>8, <2>1 DEF Evaluated
<1>9. CASE /\ evaluator'[e].pc = "mark"
           /\ evaluator'[e].version \in 1..Len(version[evaluator'[e].n])
           /\ evaluator'[e].late =
                 (evaluator'[e].version # chapter[evaluator'[e].n].current)
  BY <1>2, <1>7, <1>9
<1>10. QED BY <1>3, <1>6, <1>8, <1>9 DEF TameEvaluator

LEMMA QuietStep ==
    ASSUME DraftingAssumption, DraftingInv, Quiet
    PROVE  DraftingInv'
<1>1. RowType'
  <2>1. plans' \in 0..MaxPlans
    BY DEF DraftingInv, RowType, Quiet, TamePlanners, DraftingAssumption
  <2>2. QED BY <2>1 DEF DraftingInv, RowType, Quiet, Remark, TamePlanners, TameGenerators,
                        TameGenerator, TameEvaluators
<1>2. ASSUME NEW n \in Chapters
      PROVE  Numbered(n)'
  <2>1. chapter[n] \in ChapterRows /\ plans \in Nat /\ plans' \in Nat /\ plans <= plans'
    BY DEF DraftingInv, RowType, Quiet, TamePlanners, DraftingAssumption
  <2>2. chapter'[n].plan <= plans'
    BY <2>1 DEF ChapterRows, Quiet, Remark, DraftingInv, Numbered
  <2>3. chapter'[n].status = "generated" => chapter[n].status = "generated"
    BY DEF Quiet, Remark
  <2>4. QED BY <2>2, <2>3 DEF Numbered, DraftingInv, Quiet, Remark, Exists
<1>3. FactsNumbered'
    BY DEF DraftingInv, FactsNumbered, Quiet, Remark
<1>4. CanonIsOneVersion' /\ FactsMatchText'
  <2>1. \A f \in fact : f.n \in Chapters
    BY DEF DraftingInv, RowType, FactRows
  <2>2. fact' = fact /\ version' = version /\ crossed' = crossed
        /\ \A n \in Chapters : chapter'[n].accepted = chapter[n].accepted
    BY DEF Quiet, Remark
  <2>3. QED BY <2>1, <2>2 DEF DraftingInv, CanonIsOneVersion, Canonical, FactsMatchText
<1>5. CompletedHasCanon' /\ VerdictOnCurrentText'
    BY DEF DraftingInv, CompletedHasCanon, VerdictOnCurrentText, Quiet, Remark
<1>6. Steady /\ TameEvaluators
    BY QuietIsSteady DEF Quiet
<1>7. \A e \in Evaluators : Evaluated(e)'
  <2>1. \A n \in Chapters : /\ chapter'[n].current = chapter[n].current
                            /\ chapter'[n].status = "evaluating" =>
                                  chapter[n].status = "evaluating"
    BY DEF Quiet, Remark
  <2>2. QED BY <1>6, <2>1, SteadyKeepsEvaluations
<1>8. \A g \in Generators : Drafted(g)' /\ Reading(g)'
  <2>1. ASSUME NEW g \in Generators
        PROVE  Drafted(g)' /\ Reading(g)'
    <3>1. generator[g].pc \in Extracting /\ generator[g].home = chapter[generator[g].n].plan =>
              \A f \in fact' : f.n = generator[g].n /\ f.version = generator[g].version
                                => f.stray
      BY DEF Quiet, Remark, DraftingInv, Drafted
    <3>2. Drafted(g)'
      BY <1>6, <3>1, SteadyKeepsDrafts
    <3>3. /\ fact' = fact
          /\ \A m \in Chapters : chapter'[m].accepted = chapter[m].accepted
      BY DEF Quiet, Remark
    <3>4. generator'[g].pc = "commit" => generator'[g].n \in Chapters
      BY DEF Quiet, TameGenerators, TameGenerator
    <3>5. Reading(g)'
      BY <1>6, <3>3, <3>4, SteadyKeepsReads
    <3>6. QED BY <3>2, <3>5
  <2>2. QED BY <2>1
<1>9. \A p \in Planners : NewPlan(p)'
    BY <1>6, SteadyKeepsPlans DEF TameEvaluators, TameEvaluator
<1>10. QED BY <1>1, <1>2, <1>3, <1>4, <1>5, <1>7, <1>8, <1>9 DEF DraftingInv
-----------------------------------------------------------------------------
(***************************************************************************)
(* A new plan: nothing that was under way knows its number.                *)
(***************************************************************************)

LEMMA PlanStep ==
    ASSUME DraftingAssumption, DraftingInv, NEW p \in Planners, PersistPlan(p),
           ~(HasPlan /\ ~planner[p].replace)
    PROVE  DraftingInv'
<1> DEFINE new == Planned(planner[p].plan)
<1>1. /\ chapter' = [n \in Chapters |-> new] /\ version' = [n \in Chapters |-> <<>>]
      /\ fact' = {} /\ hook' = [n \in Chapters |-> "planned"] /\ project' = "planned"
      /\ planner' = [planner EXCEPT ![p] = IdlePlanner] /\ planner[p].pc = "plan"
      /\ UNCHANGED <<generator, evaluator, drafts, overtaken, plans>>
    BY Zenon DEF PersistPlan, counts
<1>2. NewPlan(p) /\ planner[p] \in PlannerThreads /\ plans \in Nat
    BY DEF DraftingInv, RowType
<1>3. /\ planner[p].plan \in 1..plans
      /\ \A q \in Planners \ {p} : planner[q].pc = "plan" => planner[q].plan # planner[p].plan
      /\ \A g \in Generators : /\ generator[g].home # planner[p].plan
                              /\ generator[g].seen.plan # planner[p].plan
      /\ \A e \in Evaluators : evaluator[e].plan # planner[p].plan
    BY <1>1, <1>2 DEF NewPlan
<1>4. /\ new \in ChapterRows
      /\ new.plan = planner[p].plan /\ new.status = "planned" /\ new.text = None
      /\ new.version = 1 /\ new.current = None /\ new.accepted = None /\ new.score = None
  <2> DEFINE v0 == NoChapter
             v1 == [v0 EXCEPT !.plan = planner[p].plan]
             v2 == [v1 EXCEPT !.status = "planned"]
             v3 == [v2 EXCEPT !.version = 1]
             Blank(v) == v.text = None /\ v.current = None /\ v.accepted = None /\ v.score = None
  <2>1. new = v3
    BY Zenon DEF Planned
  <2>2. v0 \in ChapterRows /\ Blank(v0)
    BY DEF NoChapter, ChapterRows, ChapterStatuses, None
  <2>3. planner[p].plan \in Nat
    BY <1>2 DEF PlannerThreads
  <2> HIDE DEF v0, new
  <2>4. v1 \in ChapterRows /\ Blank(v1) /\ v1.plan = planner[p].plan
    BY <2>2, <2>3 DEF ChapterRows
  <2> HIDE DEF v1
  <2>5. v2 \in ChapterRows /\ Blank(v2) /\ v2.plan = planner[p].plan /\ v2.status = "planned"
    BY <2>4 DEF ChapterRows, ChapterStatuses
  <2> HIDE DEF v2
  <2>6. /\ v3 \in ChapterRows /\ Blank(v3) /\ v3.plan = planner[p].plan
        /\ v3.status = "planned" /\ v3.version = 1
    BY <2>5 DEF ChapterRows
  <2>7. QED BY <2>1, <2>6
<1> HIDE DEF new
<1>5. IdlePlanner \in PlannerThreads /\ IdlePlanner.pc # "plan"
    BY DEF IdlePlanner, PlannerThreads, None
<1>6. \A n \in Chapters : chapter'[n] = new /\ version'[n] = <<>>
    BY <1>1
<1>7. RowType'
  <2>1. <<>> \in Seq(VersionRows)
    OBVIOUS
  <2>2. chapter' \in [Chapters -> ChapterRows] /\ version' \in [Chapters -> Seq(VersionRows)]
    BY <1>1, <1>4, <2>1
  <2>3. fact' \subseteq FactRows /\ hook' \in [Chapters -> {"none", "planned", "open", "resolved"}]
    BY <1>1
  <2>4. planner' \in [Planners -> PlannerThreads]
    BY <1>1, <1>5 DEF DraftingInv, RowType
  <2>5. QED BY <1>1, <2>2, <2>3, <2>4 DEF DraftingInv, RowType
<1>8. ASSUME NEW n \in Chapters PROVE Numbered(n)'
  <2>1. new.plan # None /\ new.plan <= plans'
    BY <1>1, <1>2, <1>3, <1>4 DEF None
  <2>2. Len(version'[n]) = 0 /\ chapter'[n] = new
    BY <1>6
  <2>3. QED BY <1>4, <2>1, <2>2 DEF Numbered, Exists, None
<1>9. FactsNumbered' /\ CanonIsOneVersion' /\ FactsMatchText'
    BY <1>1 DEF FactsNumbered, CanonIsOneVersion, FactsMatchText
<1>10. CompletedHasCanon' /\ VerdictOnCurrentText'
    BY <1>1, <1>4, <1>6 DEF CompletedHasCanon, VerdictOnCurrentText, Judged
<1>11. ASSUME NEW q \in Planners PROVE NewPlan(q)'
  <2>1. CASE q = p
    BY <1>1, <1>5, <2>1 DEF NewPlan, DraftingInv, RowType
  <2>2. CASE q # p
    <3>1. /\ planner'[q] = planner[q] /\ NewPlan(q)
          /\ \A r \in Planners : planner'[r].pc = "plan" => planner'[r] = planner[r]
      BY <1>1, <1>5, <2>2 DEF DraftingInv, RowType
    <3>2. planner[q].pc = "plan" =>
              \A n \in Chapters : chapter'[n].plan # planner[q].plan
      BY <1>3, <1>4, <1>6, <2>2
    <3>3. QED BY <1>1, <3>1, <3>2 DEF NewPlan
  <2>3. QED BY <2>1, <2>2
<1>12. ASSUME NEW g \in Generators PROVE Drafted(g)' /\ Reading(g)'
  <2>1. generator[g].pc # "idle" => generator[g].n \in Chapters
    BY DEF DraftingInv, Drafted
  <2>2. /\ Drafted(g) /\ new.plan # None
        /\ generator[g].pc # "idle" => chapter'[generator[g].n] = new
    BY <1>2, <1>3, <1>4, <1>6, <2>1 DEF DraftingInv, None
  <2>3. Drafted(g)'
    BY <1>1, <1>3, <1>4, <2>1, <2>2 DEF Drafted, Exists, Extracting
  <2>4. /\ Reading(g) /\ generator[g].seen.plan # new.plan
        /\ generator[g].pc = "commit" => chapter'[generator[g].n] = new
    BY <1>3, <1>4, <2>1, <2>2 DEF DraftingInv
  <2>5. Reading(g)'
    BY <1>1, <2>4 DEF Reading, Abreast
  <2>6. QED BY <2>3, <2>5
<1>13. ASSUME NEW e \in Evaluators PROVE Evaluated(e)'
  <2>1. Evaluated(e) /\ (evaluator[e].pc # "idle" => chapter'[evaluator[e].n] = new)
    BY <1>6 DEF DraftingInv, Evaluated
  <2>2. QED BY <1>1, <1>3, <1>4, <2>1 DEF Evaluated, Read
<1>14. QED BY <1>7, <1>8, <1>9, <1>10, <1>11, <1>12, <1>13 DEF DraftingInv

-----------------------------------------------------------------------------
(***************************************************************************)
(* A draft: the next version of its chapter, of which there are no facts.  *)
(***************************************************************************)

\* What a draft does, field by field.
Draft(g, n, text, number) ==
    /\ n = generator[g].n /\ n \in Chapters /\ Exists(n)
    /\ text \in Nat \ {0} /\ number = Len(version[n]) + 1
    /\ chapter' \in [Chapters -> ChapterRows]
    /\ \A m \in Chapters \ {n} : chapter'[m] = chapter[m] /\ version'[m] = version[m]
    /\ chapter'[n].plan = chapter[n].plan /\ chapter'[n].accepted = chapter[n].accepted
    /\ chapter'[n].score = chapter[n].score /\ chapter'[n].status = "extracting_facts"
    /\ chapter'[n].text = text /\ chapter'[n].version = number /\ chapter'[n].current = number
    /\ version' \in [Chapters -> Seq(VersionRows)]
    /\ Len(version'[n]) = number /\ version'[n][number].text = text
    /\ \A i \in 1..Len(version[n]) : version'[n][i] = version[n][i]
    /\ generator' = [h \in Generators |-> generator'[h]]
    /\ GeneratorThread(generator'[g])
    /\ generator'[g].pc = "extract" /\ generator'[g].n = n
    /\ generator'[g].text = text /\ generator'[g].version = number
    /\ generator'[g].home = chapter[n].plan /\ generator'[g].seen.plan = None
    /\ \A h \in Generators \ {g} : generator'[h] = generator[h]

LEMMA DraftFields ==
    ASSUME DraftingAssumption, DraftingInv, NEW g \in Generators, PersistDraft(g)
    PROVE  \E n, text, number : Draft(g, n, text, number)
<1> DEFINE n == generator[g].n
           text == Len(drafts) + 1
           number == IF chapter[n].text # None THEN chapter[n].version + 1
                                               ELSE chapter[n].version
           row == [text |-> text, status |-> "draft"]
           w == [chapter[n] EXCEPT !.version = number, !.text = text,
                                   !.status = StatusOfDraft(n), !.current = number]
           u == [IdleGenerator EXCEPT !.pc = "extract", !.n = n, !.text = text,
                                      !.version = number, !.home = chapter[n].plan]
<1>1. /\ generator[g].pc = "write" /\ chapter' = [chapter EXCEPT ![n] = w]
      /\ version' = [version EXCEPT ![n] = Append(version[n], row)]
      /\ generator' = [generator EXCEPT ![g] = u]
    BY Zenon DEF PersistDraft
<1>2. n \in Chapters /\ Exists(n)
    BY <1>1 DEF DraftingInv, Drafted
<1>3. chapter[n] \in ChapterRows /\ version[n] \in Seq(VersionRows) /\ Numbered(n)
    BY <1>2 DEF DraftingInv, RowType
<1>4. Len(drafts) \in Nat /\ Len(version[n]) \in Nat
    BY <1>3 DEF DraftingInv, RowType
<1>5. number = Len(version[n]) + 1 /\ number \in Nat
    BY <1>2, <1>3, <1>4 DEF Numbered, None
<1>6. text \in Nat \ {0}
    BY <1>4
<1>7. row \in VersionRows /\ row.text = text
    BY <1>6 DEF VersionRows
<1>8. /\ w \in ChapterRows /\ w.plan = chapter[n].plan /\ w.accepted = chapter[n].accepted
      /\ w.score = chapter[n].score /\ w.status = "extracting_facts"
      /\ w.text = text /\ w.version = number /\ w.current = number
  <2> DEFINE v1 == [chapter[n] EXCEPT !.version = number]
             v2 == [v1 EXCEPT !.text = text]
             v3 == [v2 EXCEPT !.status = "extracting_facts"]
             v4 == [v3 EXCEPT !.current = number]
             Kept(v) == /\ v \in ChapterRows /\ v.plan = chapter[n].plan
                        /\ v.accepted = chapter[n].accepted /\ v.score = chapter[n].score
  <2>1. w = v4
    BY Zenon DEF StatusOfDraft
  <2> HIDE DEF number, text, w, n
  <2>2. Kept(v1) /\ v1.version = number
    BY <1>3, <1>5 DEF ChapterRows
  <2> HIDE DEF v1
  <2>3. Kept(v2) /\ v2.version = number /\ v2.text = text
    BY <1>6, <2>2 DEF ChapterRows
  <2> HIDE DEF v2
  <2>4. Kept(v3) /\ v3.version = number /\ v3.text = text /\ v3.status = "extracting_facts"
    BY <2>3 DEF ChapterRows, ChapterStatuses, Running
  <2> HIDE DEF v3
  <2>5. /\ Kept(v4) /\ v4.version = number /\ v4.text = text
        /\ v4.status = "extracting_facts" /\ v4.current = number
    BY <1>5, <2>4 DEF ChapterRows
  <2>6. QED BY <2>1, <2>5
<1>9. /\ GeneratorThread(u) /\ u.pc = "extract" /\ u.n = n /\ u.text = text
      /\ u.version = number /\ u.home = chapter[n].plan /\ u.seen.plan = None
  <2> DEFINE v0 == IdleGenerator
             v1 == [v0 EXCEPT !.pc = "extract"]
             v2 == [v1 EXCEPT !.n = n]
             v3 == [v2 EXCEPT !.text = text]
             v4 == [v3 EXCEPT !.version = number]
             v5 == [v4 EXCEPT !.home = chapter[n].plan]
  <2>1. u = v5
    BY Zenon
  <2>2. chapter[n].plan \in Nat
    BY <1>3 DEF ChapterRows
  <2>3. GeneratorThread(v0) /\ v0.seen.plan = None
    BY DEF IdleGenerator, Unread, GeneratorThread, None
  <2> HIDE DEF number, text, n, u, v0
  <2>4. GeneratorThread(v1) /\ v1.pc = "extract" /\ v1.seen.plan = None
    BY <2>3 DEF GeneratorThread
  <2> HIDE DEF v1
  <2>5. GeneratorThread(v2) /\ v2.pc = "extract" /\ v2.n = n /\ v2.seen.plan = None
    BY <1>2, <2>4 DEF GeneratorThread
  <2> HIDE DEF v2
  <2>6. /\ GeneratorThread(v3) /\ v3.pc = "extract" /\ v3.n = n /\ v3.text = text
        /\ v3.seen.plan = None
    BY <1>6, <2>5 DEF GeneratorThread
  <2> HIDE DEF v3
  <2>7. /\ GeneratorThread(v4) /\ v4.pc = "extract" /\ v4.n = n /\ v4.text = text
        /\ v4.version = number /\ v4.seen.plan = None
    BY <1>5, <2>6 DEF GeneratorThread
  <2> HIDE DEF v4
  <2>8. /\ GeneratorThread(v5) /\ v5.pc = "extract" /\ v5.n = n /\ v5.text = text
        /\ v5.version = number /\ v5.home = chapter[n].plan /\ v5.seen.plan = None
    BY <2>2, <2>7 DEF GeneratorThread
  <2>9. QED BY <2>1, <2>8
<1> HIDE DEF number, text, w, u, row, n
<1>10. /\ chapter' \in [Chapters -> ChapterRows] /\ chapter'[n] = w
       /\ \A m \in Chapters \ {n} : chapter'[m] = chapter[m]
    BY <1>1, <1>2, <1>8 DEF DraftingInv, RowType
<1>11. /\ Append(version[n], row) \in Seq(VersionRows)
       /\ Len(Append(version[n], row)) = Len(version[n]) + 1
       /\ Append(version[n], row)[Len(version[n]) + 1] = row
       /\ \A i \in 1..Len(version[n]) : Append(version[n], row)[i] = version[n][i]
    BY <1>3, <1>7
<1>12. /\ version' \in [Chapters -> Seq(VersionRows)]
       /\ version'[n] = Append(version[n], row)
       /\ \A m \in Chapters \ {n} : version'[m] = version[m]
    BY <1>1, <1>2, <1>11 DEF DraftingInv, RowType
<1>13. /\ generator' = [h \in Generators |-> generator'[h]] /\ generator'[g] = u
       /\ \A h \in Generators \ {g} : generator'[h] = generator[h]
    BY <1>1 DEF DraftingInv, RowType
<1>14. /\ Len(version'[n]) = number /\ version'[n][number].text = text
       /\ \A i \in 1..Len(version[n]) : version'[n][i] = version[n][i]
    BY <1>5, <1>7, <1>11, <1>12
<1>15. Draft(g, n, text, number)
    BY <1>2, <1>5, <1>6, <1>8, <1>9, <1>10, <1>12, <1>13, <1>14 DEF Draft, n
<1>16. QED BY <1>15
LEMMA DraftStep ==
    ASSUME DraftingAssumption, DraftingInv, NEW g \in Generators, PersistDraft(g)
    PROVE  DraftingInv'
<1>1. PICK n, text, number : Draft(g, n, text, number)
    BY DraftFields
<1>2. /\ UNCHANGED <<project, fact, hook, planner, overtaken, crossed, plans>>
      /\ Overtake(n) /\ drafts' = Append(drafts, n)
    BY <1>1, Zenon DEF PersistDraft, counts, Draft
<1>3. /\ n \in Chapters /\ Exists(n) /\ chapter[n] \in ChapterRows
      /\ version[n] \in Seq(VersionRows) /\ Numbered(n)
      /\ Len(version[n]) \in Nat /\ number = Len(version[n]) + 1 /\ text # None
    BY <1>1 DEF Draft, DraftingInv, RowType, None
<1>4. evaluator' \in [Evaluators -> EvaluatorThreads]
      /\ \A e \in Evaluators :
            /\ evaluator'[e].pc = evaluator[e].pc /\ evaluator'[e].n = evaluator[e].n
            /\ evaluator'[e].plan = evaluator[e].plan
            /\ evaluator'[e].version = evaluator[e].version
            /\ evaluator'[e].late = (evaluator[e].late \/ (evaluator[e].pc = "mark" /\ evaluator[e].n = n))
  <2> DEFINE Later(e) == [evaluator[e] EXCEPT !.late = TRUE]
             Missed(e) == evaluator[e].pc = "mark" /\ evaluator[e].n = n
  <2>1. evaluator' = [e \in Evaluators |-> IF Missed(e) THEN Later(e) ELSE evaluator[e]]
    BY <1>2, Zenon DEF Overtake
  <2>2. ASSUME NEW e \in Evaluators
        PROVE  /\ evaluator[e] \in EvaluatorThreads /\ evaluator[e].late \in BOOLEAN
               /\ Later(e) \in EvaluatorThreads
               /\ Later(e).pc = evaluator[e].pc /\ Later(e).n = evaluator[e].n
               /\ Later(e).late = TRUE
               /\ Later(e).plan = evaluator[e].plan /\ Later(e).version = evaluator[e].version
    <3>1. evaluator[e] \in EvaluatorThreads
      BY DEF DraftingInv, RowType
    <3>2. QED BY <3>1 DEF EvaluatorThreads
  <2> HIDE DEF Later
  <2>3. evaluator' \in [Evaluators -> EvaluatorThreads]
    BY <2>1, <2>2
  <2>4. ASSUME NEW e \in Evaluators
        PROVE  /\ evaluator'[e].pc = evaluator[e].pc /\ evaluator'[e].n = evaluator[e].n
               /\ evaluator'[e].plan = evaluator[e].plan
               /\ evaluator'[e].version = evaluator[e].version
               /\ evaluator'[e].late = (evaluator[e].late \/ (evaluator[e].pc = "mark" /\ evaluator[e].n = n))
    <3>1. CASE Missed(e)
      BY <2>1, <2>2, <3>1
    <3>2. CASE ~Missed(e)
      BY <2>1, <2>2, <3>2
    <3>3. QED BY <3>1, <3>2
  <2>5. QED BY <2>3, <2>4
<1>4b. \A m \in Chapters : Len(version[m]) \in Nat /\ Len(version'[m]) \in Nat
    BY <1>1 DEF DraftingInv, RowType, Draft
<1>5. RowType'
  <2>1. drafts' \in Seq(Chapters)
    BY <1>2, <1>3 DEF DraftingInv, RowType
  <2>2. \A h \in Generators : GeneratorThread(generator'[h])
    BY <1>1 DEF Draft, DraftingInv, RowType
  <2>3. QED BY <1>1, <1>2, <1>4, <2>1, <2>2 DEF Draft, DraftingInv, RowType
<1>6. ASSUME NEW m \in Chapters PROVE Numbered(m)'
  <2>1. CASE m # n
    <3>1. chapter'[m] = chapter[m] /\ version'[m] = version[m] /\ Numbered(m) /\ plans' = plans
      BY <1>1, <1>2, <2>1 DEF Draft, DraftingInv
    <3>2. QED BY <3>1 DEF Numbered, Exists
  <2>2. CASE m = n
    <3>1. /\ chapter[n].accepted \in Nat /\ chapter[n].score \in Nat
          /\ chapter[n].accepted <= number /\ chapter[n].score <= number /\ number # 0
      BY SMTT(30), <1>3 DEF Numbered, ChapterRows
    <3>2. QED BY <1>1, <1>2, <1>3, <2>2, <3>1 DEF Numbered, Draft, Exists
  <2>3. QED BY <2>1, <2>2
<1>7. \A m \in Chapters : chapter'[m].plan = chapter[m].plan
    BY <1>1 DEF Draft
<1>7a. \A m \in Chapters : chapter'[m].accepted = chapter[m].accepted
    BY <1>1 DEF Draft
<1>7b. \A m \in Chapters : chapter[m].plan \in 0..plans
    BY DEF DraftingInv, RowType, Numbered, ChapterRows
<1>7c. \A m \in Chapters : \A i \in 1..Len(version[m]) : /\ i \in 1..Len(version'[m])
                                                         /\ version'[m][i] = version[m][i]
  <2>1. ASSUME NEW m \in Chapters, NEW i \in 1..Len(version[m])
        PROVE  i \in 1..Len(version'[m]) /\ version'[m][i] = version[m][i]
    <3>1. CASE m = n
      <4>1. /\ Len(version'[n]) = Len(version[n]) + 1
            /\ \A k \in 1..Len(version[n]) : version'[n][k] = version[n][k]
        BY <1>1 DEF Draft
      <4>2. Len(version[n]) \in Nat
        BY <1>3
      <4>3. i \in 1..Len(version[n])
        BY <2>1, <3>1
      <4>4. i \in 1..Len(version'[n]) /\ version'[n][i] = version[n][i]
        BY <4>1, <4>2, <4>3
      <4>5. QED
        BY <3>1, <4>4
    <3>2. CASE m # n
      <4>1. version'[m] = version[m]
        BY <1>1, <3>2 DEF Draft
      <4>2. QED BY <4>1, <2>1
    <3>3. QED BY <3>1, <3>2
  <2>2. QED BY <2>1
<1>8. \A f \in fact : f.n \in Chapters /\ f.version \in 1..Len(version[f.n])
    BY DEF DraftingInv, FactsNumbered, RowType, FactRows
<1>9. FactsNumbered' /\ CanonIsOneVersion' /\ FactsMatchText'
  <2>1. FactsNumbered'
    BY <1>2, <1>7c, <1>8 DEF FactsNumbered
  <2>2. CanonIsOneVersion'
    BY <1>2, <1>7a, <1>8 DEF CanonIsOneVersion, Canonical, DraftingInv
  <2>3. FactsMatchText'
    BY <1>2, <1>7c, <1>8 DEF FactsMatchText, DraftingInv
  <2>4. QED BY <2>1, <2>2, <2>3
<1>10. CompletedHasCanon' /\ VerdictOnCurrentText'
  <2>1. CompletedHasCanon'
    BY <1>2, <1>7a DEF CompletedHasCanon, DraftingInv
  <2>2. VerdictOnCurrentText'
    BY <1>1, <1>2 DEF VerdictOnCurrentText, DraftingInv, Draft, Judged
  <2>3. QED BY <2>1, <2>2
<1>11. ASSUME NEW p \in Planners PROVE NewPlan(p)'
  <2>1. /\ NewPlan(p) /\ \A m \in Chapters : chapter'[m].plan = chapter[m].plan
        /\ \A e \in Evaluators : evaluator'[e].plan = evaluator[e].plan
        /\ \A h \in Generators : \/ generator'[h].home = generator[h].home
                                \/ generator'[h].home = chapter[n].plan
        /\ \A h \in Generators : \/ generator'[h].seen.plan = generator[h].seen.plan
                                \/ generator'[h].seen.plan = None
        /\ planner' = planner /\ plans' = plans /\ n \in Chapters
    BY <1>1, <1>2, <1>3, <1>4, <1>7 DEF DraftingInv, Draft
  <2>2. planner[p].pc = "plan" => planner[p].plan # None
    BY <2>1 DEF NewPlan, None
  <2>3. QED BY <2>1, <2>2 DEF NewPlan
<1>12. ASSUME NEW h \in Generators PROVE Drafted(h)'
  <2>1. CASE h = g
    <3>1. /\ generator'[g].pc = "extract" /\ generator'[g].n = n /\ generator'[g].text = text
          /\ generator'[g].version = number /\ generator'[g].home = chapter[n].plan
          /\ Len(version'[n]) = number /\ version'[n][number].text = text
      BY <1>1 DEF Draft
    <3>2. chapter[n].plan \in 0..plans' /\ chapter'[n].plan # None /\ number # 0
      <4>1. plans' = plans
        BY <1>2
      <4>2. chapter[n].plan \in 0..plans'
        BY <1>3, <1>7b, <4>1
      <4>3. chapter'[n].plan # None
        BY <1>3, <1>7, Zenon DEF Exists
      <4>4. number # 0
        BY <1>3
      <4>5. QED BY <4>2, <4>3, <4>4
    <3>3. \A f \in fact : ~(f.n = n /\ f.version = number)
      BY <1>3, <1>8
    <3>4. ASSUME NEW k \in Generators \ {g}, generator'[k].pc \in Extracting,
                 generator'[k].n = n, generator'[k].home = chapter[n].plan
          PROVE  generator'[k].version # number
      <4>1. generator'[k] = generator[k] /\ Drafted(k) /\ generator[k].version \in Nat
        BY <1>1 DEF Draft, DraftingInv, RowType, GeneratorThread
      <4>2. generator[k].version <= Len(version[n])
        BY <3>4, <4>1 DEF Drafted
      <4>3. QED BY <1>3, <4>1, <4>2
    <3>5. number <= Len(version'[n])
      BY <1>3, <3>1
    <3>6. QED BY <1>2, <1>3, <2>1, <3>1, <3>2, <3>3, <3>4, <3>5 DEF Drafted, Exists, Extracting
  <2>2. CASE h # g
    <3>1. generator'[h] = generator[h] /\ Drafted(h) /\ generator[h].version \in Nat
      BY <1>1, <2>2 DEF Draft, DraftingInv, RowType, GeneratorThread
    <3>1a. generator[h].pc # "idle" =>
              /\ generator[h].n \in Chapters /\ chapter'[generator[h].n].plan # None
              /\ chapter'[generator[h].n].plan = chapter[generator[h].n].plan
      BY <1>7, <3>1 DEF Drafted, Exists
    <3>2. CASE generator[h].pc \notin Extracting
      BY <1>2, <3>1, <3>1a, <3>2 DEF Drafted, Exists
    <3>3. CASE generator[h].pc \in Extracting /\ generator[h].home # chapter[generator[h].n].plan
      BY <1>2, <3>1, <3>1a, <3>3 DEF Drafted, Exists, Extracting
    <3>4. CASE generator[h].pc \in Extracting /\ generator[h].home = chapter[generator[h].n].plan
      <4>1. /\ generator[h].n \in Chapters /\ Exists(generator[h].n)
            /\ generator[h].version # 0
            /\ generator[h].version <= Len(version[generator[h].n])
            /\ version[generator[h].n][generator[h].version].text = generator[h].text
            /\ generator[h].home \in 0..plans
        BY <3>1, <3>4 DEF Drafted, Extracting
      <4>2. generator[h].version \in 1..Len(version[generator[h].n])
        BY <3>1, <4>1, <1>4b
      <4>3. /\ generator[h].version <= Len(version'[generator[h].n])
            /\ version'[generator[h].n][generator[h].version].text = generator[h].text
            /\ chapter'[generator[h].n].plan = chapter[generator[h].n].plan
        <5>1. generator[h].version \in 1..Len(version'[generator[h].n])
          BY <1>7c, <4>1, <4>2
        <5>2. version'[generator[h].n][generator[h].version] =
                  version[generator[h].n][generator[h].version]
          BY <1>7c, <4>1, <4>2
        <5>3. chapter'[generator[h].n].plan = chapter[generator[h].n].plan
          BY <1>7, <4>1
        <5>4. generator[h].version <= Len(version'[generator[h].n])
          BY <1>4b, <4>1, <5>1
        <5>5. QED BY <4>1, <5>2, <5>3, <5>4
      <4>4. ASSUME NEW k \in Generators \ {h}, generator'[k].pc \in Extracting,
                   generator'[k].n = generator[h].n, generator'[k].home = generator[h].home
            PROVE  generator'[k].version # generator[h].version
        <5>1. CASE k # g
          <6>1. generator'[k] = generator[k]
            BY <1>1, <5>1 DEF Draft
          <6>2. QED BY <3>1, <3>4, <4>4, <6>1 DEF Drafted
        <5>2. CASE k = g
          <6>1. generator'[k].version = number /\ generator[h].n = n
            BY <1>1, <4>4, <5>2 DEF Draft
          <6>2. QED BY <1>3, <3>1, <4>1, <6>1
        <5>3. QED BY <5>1, <5>2
      <4>5. \A f \in fact : f.n = generator[h].n /\ f.version = generator[h].version => f.stray
        BY <3>1, <3>4 DEF Drafted
      <4>6. QED BY <1>2, <3>1, <3>4, <4>1, <4>3, <4>4, <4>5 DEF Drafted, Exists
    <3>5. QED BY <3>2, <3>3, <3>4
  <2>3. QED BY <2>1, <2>2
<1>12a. ASSUME NEW h \in Generators PROVE Reading(h)'
  <2>1. CASE h = g
    <3>1. generator'[g].pc = "extract" /\ generator'[g].seen.plan = None
      BY <1>1 DEF Draft
    <3>2. None \in 0..plans'
      BY <1>2 DEF DraftingInv, RowType, None
    <3>3. QED BY <2>1, <3>1, <3>2 DEF Reading
  <2>2. CASE h # g
    <3>1. generator'[h] = generator[h] /\ Reading(h) /\ plans' = plans /\ fact' = fact
      BY <1>1, <1>2, <2>2 DEF Draft, DraftingInv
    <3>2. generator[h].pc = "commit" => generator[h].n \in Chapters
      BY DEF DraftingInv, Drafted
    <3>3. ASSUME generator[h].pc = "commit"
          PROVE  Abreast(generator[h])'
      <4>1. PICK u : u = generator[h]
        OBVIOUS
      <4>2. Abreast(u) /\ u.n \in Chapters
        BY <3>1, <3>2, <3>3, <4>1 DEF Reading
      <4>3. /\ u.seen.number = u.version
            /\ \A f \in u.seen.facts : f.n = u.n /\ f.version # u.seen.number
        BY <4>2 DEF Abreast
      <4>4. /\ chapter'[u.n].plan = chapter[u.n].plan
            /\ \A m \in Chapters : chapter'[m].accepted = chapter[m].accepted
            /\ \A i \in 1..Len(version[u.n]) : i \in 1..Len(version'[u.n])
        BY <1>7, <1>7a, <1>7c, <4>2
      <4>5. ASSUME u.seen.plan = chapter'[u.n].plan
            PROVE  /\ u.seen.number \in 1..Len(version'[u.n])
                   /\ u.seen.whole => \A m \in Chapters \ {u.n} : chapter'[m].accepted # None
                   /\ u.seen.accepted # None => chapter'[u.n].accepted # None
                   /\ ~u.late =>
                         /\ u.seen.accepted = chapter'[u.n].accepted
                         /\ \A f \in fact :
                               f.n = u.n /\ f.status = "accepted" /\ f.version # u.seen.number
                               => f \in u.seen.facts
        BY <4>2, <4>4, <4>5 DEF Abreast
      <4>6. u = generator'[h]
        BY <3>1, <4>1
      <4>7. QED BY <3>1, <4>3, <4>5, <4>6 DEF Abreast
    <3>4. QED BY <3>1, <3>3 DEF Reading
  <2>3. QED BY <2>1, <2>2
<1>13. ASSUME NEW e \in Evaluators PROVE Evaluated(e)'
  <2>1. evaluator[e].pc \in {"mark", "critique", "partial", "fail"}
            => evaluator[e].n \in Chapters
    BY DEF DraftingInv, Evaluated
  <2>2. Evaluated(e) /\ plans' = plans
    BY <1>2 DEF DraftingInv
  <2>3. SUFFICES ASSUME evaluator[e].pc \in {"mark", "critique", "partial", "fail"},
                        chapter'[evaluator[e].n].plan = evaluator[e].plan
                 PROVE  /\ evaluator[e].version \in 1..Len(version'[evaluator[e].n])
                        /\ evaluator[e].pc \in {"mark", "critique"} /\ ~evaluator'[e].late
                           /\ (evaluator[e].pc = "critique" =>
                                  chapter'[evaluator[e].n].status = "evaluating")
                           => evaluator[e].version = chapter'[evaluator[e].n].current
    BY <1>4, <2>2 DEF Evaluated, Read
  <2>4. evaluator[e].n \in Chapters /\ Read(e)
    BY <1>7, <2>1, <2>2, <2>3 DEF Read
  <2>4a. evaluator[e].version \in 1..Len(version[evaluator[e].n])
    BY <2>2, <2>3, <2>4 DEF Evaluated
  <2>5. evaluator[e].version \in 1..Len(version'[evaluator[e].n])
    BY <1>7c, <2>4, <2>4a
  <2>6. CASE evaluator[e].n = n
    BY <1>1, <1>4, <2>5, <2>6 DEF Draft
  <2>7. CASE evaluator[e].n # n
    BY <1>1, <1>4, <2>2, <2>3, <2>4, <2>5, <2>7 DEF Draft, Evaluated
  <2>8. QED BY <2>6, <2>7
<1>14. QED BY <1>5, <1>6, <1>9, <1>10, <1>11, <1>12, <1>12a, <1>13 DEF DraftingInv
-----------------------------------------------------------------------------
(***************************************************************************)
(* Steps that set the status of a version, and with it fields of its       *)
(* chapter.                                                                *)
(***************************************************************************)

\* A version with another status has its text.
LEMMA VersionRelabelled ==
    ASSUME RowType, NEW n \in Chapters, NEW k \in 1..Len(version[n]),
           NEW s, s \in {"draft", "accepted", "evaluated", version[n][k].status},
           version' = [version EXCEPT ![n][k].status = s]
    PROVE  /\ version' \in [Chapters -> Seq(VersionRows)]
           /\ \A m \in Chapters :
                 /\ Len(version'[m]) = Len(version[m])
                 /\ \A i \in 1..Len(version[m]) : version'[m][i].text = version[m][i].text
<1> DEFINE row == [version[n][k] EXCEPT !.status = s]
           list == [version[n] EXCEPT ![k] = row]
<1>1. version' = [version EXCEPT ![n] = list]
    BY Zenon
<1>2. version[n] \in Seq(VersionRows)
    BY DEF RowType
<1>3. version[n][k] \in VersionRows
    BY <1>2
<1>4. row \in VersionRows /\ row.text = version[n][k].text
    BY <1>3 DEF VersionRows
<1> HIDE DEF row
<1>5. list \in Seq(VersionRows) /\ Len(list) = Len(version[n])
    BY <1>2, <1>4
<1>6. \A i \in 1..Len(version[n]) : list[i] = IF i = k THEN row ELSE version[n][i]
    BY <1>2, <1>4
<1>7. \A i \in 1..Len(version[n]) : list[i].text = version[n][i].text
    BY <1>4, <1>6
<1> HIDE DEF list
<1>8. \A m \in Chapters : version'[m] = IF m = n THEN list ELSE version[m]
    BY <1>1 DEF RowType
<1>9. version' \in [Chapters -> Seq(VersionRows)]
    BY <1>1, <1>5 DEF RowType
<1>10. QED BY <1>5, <1>7, <1>8, <1>9

\* A chapter row with another status, accepted version and score.
ChapterRelabelled(n, status, accepted, score) ==
    /\ chapter' \in [Chapters -> ChapterRows]
    /\ \A m \in Chapters \ {n} : chapter'[m] = chapter[m]
    /\ \A m \in Chapters :
          /\ chapter'[m].plan = chapter[m].plan /\ chapter'[m].text = chapter[m].text
          /\ chapter'[m].version = chapter[m].version
          /\ chapter'[m].current = chapter[m].current
    /\ chapter'[n].status = status /\ chapter'[n].accepted = accepted
    /\ chapter'[n].score = score

LEMMA AcceptedRow ==
    ASSUME RowType, NEW n \in Chapters, NEW number \in Nat, NEW status \in ChapterStatuses,
           chapter' = [chapter EXCEPT ![n].status = status, ![n].accepted = number]
    PROVE  ChapterRelabelled(n, status, number, chapter[n].score)
<1> DEFINE v1 == [chapter[n] EXCEPT !.status = status]
           v2 == [v1 EXCEPT !.accepted = number]
           Kept(v) == /\ v \in ChapterRows /\ v.plan = chapter[n].plan
                      /\ v.text = chapter[n].text /\ v.version = chapter[n].version
                      /\ v.current = chapter[n].current /\ v.score = chapter[n].score
<1>1. chapter' = [chapter EXCEPT ![n] = v2]
    BY Zenon
<1>2. chapter[n] \in ChapterRows
    BY DEF RowType
<1>3. Kept(v1) /\ v1.status = status
    BY <1>2 DEF ChapterRows
<1> HIDE DEF v1
<1>4. Kept(v2) /\ v2.status = status /\ v2.accepted = number
    BY <1>3 DEF ChapterRows
<1> HIDE DEF v2
<1>5. \A m \in Chapters : chapter'[m] = IF m = n THEN v2 ELSE chapter[m]
    BY <1>1 DEF RowType
<1>6. chapter' \in [Chapters -> ChapterRows]
    BY <1>1, <1>4 DEF RowType
<1>7. QED BY <1>4, <1>5, <1>6 DEF ChapterRelabelled

LEMMA JudgedRow ==
    ASSUME RowType, NEW n \in Chapters, NEW status \in ChapterStatuses, NEW score \in Nat,
           chapter' = [chapter EXCEPT ![n].status = status, ![n].score = score]
    PROVE  ChapterRelabelled(n, status, chapter[n].accepted, score)
<1> DEFINE v1 == [chapter[n] EXCEPT !.status = status]
           v2 == [v1 EXCEPT !.score = score]
           Kept(v) == /\ v \in ChapterRows /\ v.plan = chapter[n].plan
                      /\ v.text = chapter[n].text /\ v.version = chapter[n].version
                      /\ v.current = chapter[n].current /\ v.accepted = chapter[n].accepted
<1>1. chapter' = [chapter EXCEPT ![n] = v2]
    BY Zenon
<1>2. chapter[n] \in ChapterRows
    BY DEF RowType
<1>3. Kept(v1) /\ v1.status = status
    BY <1>2 DEF ChapterRows
<1> HIDE DEF v1
<1>4. Kept(v2) /\ v2.status = status /\ v2.score = score
    BY <1>3 DEF ChapterRows
<1> HIDE DEF v2
<1>5. \A m \in Chapters : chapter'[m] = IF m = n THEN v2 ELSE chapter[m]
    BY <1>1 DEF RowType
<1>6. chapter' \in [Chapters -> ChapterRows]
    BY <1>1, <1>4 DEF RowType
<1>7. QED BY <1>4, <1>5, <1>6 DEF ChapterRelabelled

\* The facts after an extraction: the old ones, those it has read of other
\* versions of the chapter superseded.
LEMMA AgedFacts ==
    ASSUME RowType, NEW n \in Chapters, NEW number \in Nat, NEW read,
           \A f \in read : f.n = n /\ f.version # number
    PROVE  /\ SupersedeFacts(read) \subseteq FactRows
           /\ \A f \in SupersedeFacts(read) : \E o \in fact :
                 /\ f.n = o.n /\ f.version = o.version /\ f.text = o.text /\ f.stray = o.stray
                 /\ \/ f = o /\ o \notin read
                    \/ f.n = n /\ f.version # number /\ f.status = "superseded"
           /\ \A o \in fact : \E f \in SupersedeFacts(read) :
                 f.n = o.n /\ f.version = o.version /\ f.stray = o.stray
<1> DEFINE Late(o) == [o EXCEPT !.status = "superseded"]
           After(o) == IF o \in read THEN Late(o) ELSE o
<1>1. SupersedeFacts(read) = {After(o) : o \in fact}
    BY Zenon DEF SupersedeFacts
<1>2. ASSUME NEW o \in fact
      PROVE  /\ After(o) \in FactRows
             /\ After(o).n = o.n /\ After(o).version = o.version
             /\ After(o).text = o.text /\ After(o).stray = o.stray
             /\ \/ After(o) = o /\ o \notin read
                \/ After(o).n = n /\ After(o).version # number
                   /\ After(o).status = "superseded"
  <2>1. o \in FactRows
    BY DEF RowType
  <2>2. /\ Late(o) \in FactRows /\ Late(o).n = o.n /\ Late(o).version = o.version
        /\ Late(o).text = o.text /\ Late(o).stray = o.stray /\ Late(o).status = "superseded"
    BY <2>1 DEF FactRows
  <2> HIDE DEF Late
  <2>3. CASE o \in read
    BY <2>2, <2>3
  <2>4. CASE o \notin read
    BY <2>1, <2>4
  <2>5. QED BY <2>3, <2>4
<1> HIDE DEF After
<1>3. SupersedeFacts(read) \subseteq FactRows
    BY <1>1, <1>2
<1>4. ASSUME NEW f \in SupersedeFacts(read)
      PROVE  \E o \in fact :
                 /\ f.n = o.n /\ f.version = o.version /\ f.text = o.text /\ f.stray = o.stray
                 /\ \/ f = o /\ o \notin read
                    \/ f.n = n /\ f.version # number /\ f.status = "superseded"
  <2>1. PICK o \in fact : f = After(o)
    BY <1>1
  <2>2. QED BY <1>2, <2>1
<1>5. ASSUME NEW o \in fact
      PROVE  \E f \in SupersedeFacts(read) :
                 f.n = o.n /\ f.version = o.version /\ f.stray = o.stray
  <2>1. After(o) \in SupersedeFacts(read)
    BY <1>1
  <2>2. QED BY <1>2, <2>1
<1>6. QED BY <1>3, <1>4, <1>5

LEMMA HooksTyped ==
    ASSUME RowType, NEW n \in Chapters, NEW text, NEW read
    PROVE  HooksAfter(n, text, read) \in [Chapters -> {"none", "planned", "open", "resolved"}]
<1> DEFINE Updated(h) == {u.action : u \in {v \in Updates[text] : v.hook = h}}
           After(h) == IF h = n /\ read[h] = "planned" THEN "open"
                       ELSE IF "resolve" \in Updated(h) THEN "resolved"
                       ELSE IF Updated(h) \cap {"setup", "advance"} # {} THEN "open"
                       ELSE read[h]
           Hook(h) == IF read[h] = After(h) THEN hook[h] ELSE After(h)
<1>1. HooksAfter(n, text, read) = [h \in Chapters |-> Hook(h)]
    BY Zenon DEF HooksAfter, Written
<1> HIDE DEF Updated
<1>2. \A h \in Chapters : After(h) \in {"open", "resolved"} \/ After(h) = read[h]
    OBVIOUS
<1> HIDE DEF After
<1>3. \A h \in Chapters : Hook(h) \in {"none", "planned", "open", "resolved"}
    BY <1>2 DEF RowType
<1> HIDE DEF Hook
<1>4. QED BY <1>1, <1>3

\* The others after an extraction: those that have read the chapter are late.
LEMMA Crossing ==
    ASSUME DraftingAssumption, DraftingInv, NEW g \in Generators, NEW n, Cross(g, n)
    PROVE  /\ TameGenerators
           /\ generator'[g] = IdleGenerator
           /\ \A h \in Generators \ {g} :
                 /\ generator'[h].pc = generator[h].pc /\ generator'[h].n = generator[h].n
                 /\ generator'[h].version = generator[h].version
                 /\ generator'[h].home = generator[h].home
                 /\ generator'[h].pc = "commit" /\ generator'[h].n = n => generator'[h].late
<1> DEFINE Later(h) == [generator[h] EXCEPT !.late = TRUE]
           Missed(h) == generator[h].pc = "commit" /\ generator[h].n = n
<1>1. generator' = [h \in Generators |-> IF h = g THEN IdleGenerator
                                         ELSE IF Missed(h) THEN Later(h) ELSE generator[h]]
    BY Zenon DEF Cross
<1>2. generator' = [h \in Generators |-> generator'[h]]
  <2> DEFINE F == [h \in Generators |-> IF h = g THEN IdleGenerator
                                        ELSE IF Missed(h) THEN Later(h) ELSE generator[h]]
  <2>1. F = [h \in Generators |-> F[h]]
    BY Zenon
  <2> HIDE DEF F
  <2>2. generator' = F
    BY <1>1 DEF F
  <2>3. QED BY <2>1, <2>2
<1>3. \A h \in Generators : generator'[h] = IF h = g THEN IdleGenerator
                                            ELSE IF Missed(h) THEN Later(h) ELSE generator[h]
    BY <1>1
<1>4. ASSUME NEW h \in Generators
      PROVE  /\ GeneratorThread(generator[h])
             /\ Later(h) = [pc |-> generator[h].pc, n |-> generator[h].n,
                     knows |-> generator[h].knows, text |-> generator[h].text,
                     version |-> generator[h].version, home |-> generator[h].home,
                     failure |-> generator[h].failure,
                     seen |-> generator[h].seen, late |-> TRUE]
  <2>1. GeneratorThread(generator[h])
    BY DEF DraftingInv, RowType
  <2>2. QED BY <2>1, ThreadBegins, Zenon
<1> HIDE DEF Later
<1>5. ASSUME NEW h \in Generators
      PROVE  /\ GeneratorThread(Later(h)) /\ Later(h).pc = generator[h].pc
             /\ Later(h).n = generator[h].n /\ Later(h).text = generator[h].text
             /\ Later(h).version = generator[h].version /\ Later(h).home = generator[h].home
             /\ Later(h).seen = generator[h].seen /\ Later(h).late
  <2>1. PICK u, v : u = generator[h] /\ v = Later(h)
    OBVIOUS
  <2>2. GeneratorThread(u)
    BY <1>4, <2>1
  <2>3. v = [pc |-> u.pc, n |-> u.n, knows |-> u.knows, text |-> u.text,
             version |-> u.version, home |-> u.home, failure |-> u.failure,
             seen |-> u.seen, late |-> TRUE]
    BY <1>4, <2>1
  <2>4. /\ v.pc = u.pc /\ v.n = u.n /\ v.knows = u.knows /\ v.text = u.text
        /\ v.version = u.version /\ v.home = u.home /\ v.failure = u.failure
        /\ v.seen = u.seen
    BY <2>3
  <2>5. v.late = TRUE
    BY <2>3, Zenon
  <2>6. v = [pc |-> v.pc, n |-> v.n, knows |-> v.knows, text |-> v.text,
             version |-> v.version, home |-> v.home, failure |-> v.failure,
             seen |-> v.seen, late |-> v.late]
    BY <2>3, <2>4, <2>5
  <2>7. GeneratorThread(v)
    BY <2>2, <2>4, <2>6 DEF GeneratorThread
  <2>8. QED BY <2>1, <2>4, <2>5, <2>7
<1>6. \A h \in Generators : Drafted(h) /\ Reading(h) /\ GeneratorThread(generator[h])
    BY <1>4 DEF DraftingInv
<1>7. ASSUME NEW h \in Generators
      PROVE  TameGenerator(generator[h], generator'[h])
  <2>1. CASE h = g
    <3>1. TameGenerator(generator[h], IdleGenerator)
      BY DEF TameGenerator, GeneratorThread, IdleGenerator, Unread, Extracting, None
    <3>2. QED BY <1>3, <2>1, <3>1
  <2>2. CASE h # g /\ Missed(h)
    <3>1. Abreast(generator[h]) => Abreast(Later(h))
      BY <1>5 DEF Abreast
    <3>2. TameGenerator(generator[h], Later(h))
      BY <1>5, <1>6, <3>1 DEF TameGenerator, Drafted, Reading
    <3>3. QED BY <1>3, <2>2, <3>2
  <2>3. CASE h # g /\ ~Missed(h)
    <3>1. TameGenerator(generator[h], generator[h])
      BY <1>6 DEF TameGenerator, Drafted, Reading
    <3>2. QED BY <1>3, <2>3, <3>1
  <2>4. QED BY <2>1, <2>2, <2>3
<1>8. QED BY <1>2, <1>3, <1>5, <1>7 DEF TameGenerators

LEMMA ExtractionStep ==
    ASSUME DraftingAssumption, DraftingInv, NEW g \in Generators, PersistExtraction(g),
           chapter[generator[g].n].plan = generator[g].seen.plan
    PROVE  DraftingInv'
<1> DEFINE n == generator[g].n
           seen == generator[g].seen
           number == seen.number
           status == IF seen.status = "generated" THEN chapter[n].status ELSE "generated"
           accepted == IF seen.accepted = number THEN chapter[n].accepted ELSE number
           mark == IF seen.mark = "accepted" THEN version[n][number].status ELSE "accepted"
           new == [n |-> n, version |-> number, text |-> generator[g].text,
                   status |-> "accepted", stray |-> generator[g].home # chapter[n].plan]
<1>1. /\ generator[g].pc = "commit"
      /\ fact' = SupersedeFacts(seen.facts) \cup {new}
      /\ hook' = HooksAfter(n, generator[g].text, seen.hook)
      /\ chapter' = [chapter EXCEPT ![n].status = status, ![n].accepted = accepted]
      /\ version' = [version EXCEPT ![n][number].status = mark]
      /\ project' = Written(seen.project, project,
                            IF seen.whole THEN "completed" ELSE "generating")
      /\ crossed' = IF generator[g].late THEN crossed \cup {n} ELSE crossed \ {n}
      /\ Cross(g, n)
      /\ UNCHANGED <<planner, evaluator, plans, drafts, overtaken>>
    BY Zenon DEF PersistExtraction, Written, counts
<1>2. /\ n \in Chapters /\ Drafted(g) /\ GeneratorThread(generator[g])
      /\ Abreast(generator[g]) /\ RowType /\ Numbered(n)
    BY <1>1 DEF DraftingInv, Drafted, Reading, RowType
<1>3. /\ version[n] \in Seq(VersionRows) /\ chapter[n] \in ChapterRows
      /\ number \in 1..Len(version[n]) /\ number \in Nat /\ number # 0
      /\ number = generator[g].version
      /\ \A f \in seen.facts : f.n = n /\ f.version # number
      /\ seen.whole => \A m \in Chapters \ {n} : chapter[m].accepted # None
      /\ seen.accepted # None => chapter[n].accepted # None
  <2>1. version[n] \in Seq(VersionRows) /\ chapter[n] \in ChapterRows
    BY <1>2 DEF RowType
  <2>2. Len(version[n]) \in Nat
    BY <2>1
  <2>3. QED BY <1>2, <2>1, <2>2 DEF Abreast
<1>3a. ~generator[g].late =>
          /\ accepted = number
          /\ \A f \in fact : f.n = n /\ f.status = "accepted" /\ f.version # number
                                => f \in seen.facts
    BY <1>2 DEF Abreast
<1>1a. UNCHANGED <<planner, evaluator, plans, drafts, overtaken>>
    BY <1>1
<1>3b. /\ accepted \in Nat /\ accepted # None /\ accepted <= Len(version[n])
  <2>1. chapter[n].accepted \in Nat /\ chapter[n].accepted <= Len(version[n])
    BY <1>2, <1>3 DEF Numbered, ChapterRows
  <2>2. Len(version[n]) \in Nat
    BY <1>3
  <2>3. CASE seen.accepted = number
    BY <1>3, <2>1, <2>3 DEF None
  <2>4. CASE seen.accepted # number
    BY <1>3, <2>2, <2>4 DEF None
  <2>5. QED BY <2>3, <2>4
<1>3c. status \in ChapterStatuses /\ (status = chapter[n].status \/ status = "generated")
    BY <1>3 DEF ChapterRows, ChapterStatuses
<1>3d. mark \in {"draft", "accepted", "evaluated", version[n][number].status}
    OBVIOUS
<1> HIDE DEF status, accepted, mark
<1>4. ChapterRelabelled(n, status, accepted, chapter[n].score)
  <2>1. chapter' = [chapter EXCEPT ![n].status = status, ![n].accepted = accepted]
    BY <1>1
  <2> HIDE DEF n, number
  <2>2. QED BY <1>2, <1>3b, <1>3c, <2>1, AcceptedRow
<1>5. /\ version' \in [Chapters -> Seq(VersionRows)]
      /\ \A m \in Chapters :
            /\ Len(version'[m]) = Len(version[m])
            /\ \A i \in 1..Len(version[m]) : version'[m][i].text = version[m][i].text
  <2>1. version' = [version EXCEPT ![n][number].status = mark]
    BY <1>1
  <2> HIDE DEF n, number
  <2>2. QED BY <1>2, <1>3, <1>3d, <2>1, VersionRelabelled
<1>6. /\ new \in FactRows /\ new.n = n /\ new.version = number /\ new.status = "accepted"
      /\ new.text = generator[g].text /\ new.stray = (generator[g].home # chapter[n].plan)
    BY <1>2, <1>3 DEF FactRows, GeneratorThread
<1> HIDE DEF new
<1>7. /\ TameGenerators /\ TamePlanners /\ TameEvaluators
      /\ generator'[g] = IdleGenerator
      /\ \A h \in Generators \ {g} :
            /\ generator'[h].pc = generator[h].pc /\ generator'[h].n = generator[h].n
            /\ generator'[h].version = generator[h].version
            /\ generator'[h].home = generator[h].home
            /\ generator'[h].pc = "commit" /\ generator'[h].n = n => generator'[h].late
  <2>1. Cross(g, n)
    BY <1>1
  <2>2. TamePlanners /\ TameEvaluators
    BY <1>1, <1>2, PlannersRest, EvaluatorsRest DEF DraftingInv
  <2> HIDE DEF n
  <2>3. QED BY <2>1, <2>2, Crossing
<1>8. Steady
    BY <1>4, <1>5, <1>7 DEF Steady, ChapterRelabelled
<1> DEFINE Aged == SupersedeFacts(seen.facts)
<1>9. /\ Aged \subseteq FactRows
      /\ \A f \in Aged : \E o \in fact :
                 /\ f.n = o.n /\ f.version = o.version /\ f.text = o.text /\ f.stray = o.stray
                 /\ \/ f = o /\ o \notin seen.facts
                    \/ f.n = n /\ f.version # number /\ f.status = "superseded"
      /\ \A o \in fact : \E f \in Aged :
                 f.n = o.n /\ f.version = o.version /\ f.stray = o.stray
  <2>1. RowType /\ n \in Chapters /\ number \in Nat
        /\ \A f \in seen.facts : f.n = n /\ f.version # number
    BY <1>2, <1>3
  <2> DEFINE read == seen.facts
  <2>2. \A f \in read : f.n = n /\ f.version # number
    BY <2>1
  <2> HIDE DEF n, number, seen, read
  <2>3. /\ SupersedeFacts(read) \subseteq FactRows
        /\ \A f \in SupersedeFacts(read) : \E o \in fact :
                 /\ f.n = o.n /\ f.version = o.version /\ f.text = o.text /\ f.stray = o.stray
                 /\ \/ f = o /\ o \notin read
                    \/ f.n = n /\ f.version # number /\ f.status = "superseded"
        /\ \A o \in fact : \E f \in SupersedeFacts(read) :
                 f.n = o.n /\ f.version = o.version /\ f.stray = o.stray
    BY <2>1, <2>2, AgedFacts, SMTT(60)
  <2>4. Aged = SupersedeFacts(read)
    BY Zenon DEF read
  <2>5. seen.facts = read
    BY Zenon DEF read
  <2>6. QED BY <2>3, <2>4, <2>5, Zenon
<1>9a. fact' = Aged \cup {new}
    BY <1>1
<1> HIDE DEF Aged
<1>10. RowType'
  <2>1. fact' \subseteq FactRows
    BY <1>6, <1>9, <1>9a
  <2>2. hook' \in [Chapters -> {"none", "planned", "open", "resolved"}]
    <3>1. hook' = HooksAfter(n, generator[g].text, seen.hook)
      BY <1>1
    <3> HIDE DEF n, seen
    <3>2. QED BY <1>2, <3>1, HooksTyped
  <2>3. \A h \in Generators : GeneratorThread(generator'[h])
    BY <1>7 DEF TameGenerators, TameGenerator
  <2>4. generator' = [h \in Generators |-> generator'[h]]
    BY <1>7 DEF TameGenerators
  <2>5. QED BY <1>1a, <1>2, <1>4, <1>5, <2>1, <2>2, <2>3, <2>4 DEF RowType, ChapterRelabelled
<1>11. \A m \in Chapters : Numbered(m)' /\ (chapter[m].accepted # None => chapter'[m].accepted # None)
  <2>1. ASSUME NEW m \in Chapters
        PROVE  Numbered(m)' /\ (chapter[m].accepted # None => chapter'[m].accepted # None)
    <3>1. /\ Numbered(m) /\ plans' = plans /\ Len(version'[m]) = Len(version[m])
          /\ chapter'[m].plan = chapter[m].plan /\ chapter'[m].text = chapter[m].text
          /\ chapter'[m].version = chapter[m].version
          /\ chapter'[m].current = chapter[m].current
      BY <1>1a, <1>4, <1>5 DEF DraftingInv, ChapterRelabelled
    <3>2. CASE m = n
      <4>1. chapter'[n].accepted = accepted /\ chapter'[n].score = chapter[n].score
        BY <1>4 DEF ChapterRelabelled
      <4>2. QED BY <1>3b, <3>1, <3>2, <4>1 DEF Numbered, Exists
    <3>3. CASE m # n
      <4>1. chapter'[m] = chapter[m]
        BY <1>4, <3>3 DEF ChapterRelabelled
      <4>2. QED BY <3>1, <4>1 DEF Numbered, Exists
    <3>4. QED BY <3>2, <3>3
  <2>2. QED BY <2>1
<1>12. \A f \in fact : f.n \in Chapters /\ f.version \in 1..Len(version[f.n])
    BY DEF DraftingInv, FactsNumbered, RowType, FactRows
<1>13. generator[g].home = chapter[n].plan =>
          /\ version[n][number].text = generator[g].text
          /\ \A f \in fact : f.n = n /\ f.version = number => f.stray
          /\ \A h \in Generators \ {g} :
                generator[h].pc \in Extracting /\ generator[h].n = n
                /\ generator[h].home = generator[g].home => generator[h].version # number
    BY <1>1, <1>2, <1>3 DEF Drafted, Extracting
<1>14. /\ chapter'[n].accepted = accepted
       /\ \A m \in Chapters \ {n} : chapter'[m] = chapter[m]
    BY <1>4 DEF ChapterRelabelled
<1>15. FactsNumbered'
  <2>1. ASSUME NEW f \in fact' PROVE f.version \in 1..Len(version'[f.n])
    <3>1. CASE f = new
      BY <1>2, <1>3, <1>5, <1>6, <3>1
    <3>2. CASE f \in Aged
      BY <1>5, <1>9, <1>12, <3>2
    <3>3. QED BY <1>9a, <3>1, <3>2
  <2>2. QED BY <2>1 DEF FactsNumbered
<1>16. FactsMatchText'
  <2>1. ASSUME NEW f \in fact', ~f.stray PROVE version'[f.n][f.version].text = f.text
    <3>1. CASE f = new
      <4>1. version'[n][number].text = version[n][number].text
        BY <1>2, <1>3, <1>5
      <4>2. QED BY <1>6, <1>13, <2>1, <3>1, <4>1
    <3>2. CASE f \in Aged
      <4>1. PICK o \in fact : /\ f.n = o.n /\ f.version = o.version /\ f.text = o.text
                             /\ f.stray = o.stray
        BY <1>9, <3>2
      <4>2. version[o.n][o.version].text = o.text
        BY <2>1, <4>1 DEF DraftingInv, FactsMatchText
      <4>3. QED BY <1>5, <1>12, <4>1, <4>2
    <3>3. QED BY <1>9a, <3>1, <3>2
  <2>2. QED BY <2>1 DEF FactsMatchText
<1>17. CanonIsOneVersion'
  <2>1. ASSUME NEW f \in fact', f.n \notin crossed'
        PROVE  /\ f.status = "accepted" => f.version = chapter'[f.n].accepted
               /\ \/ f.status = "accepted" \/ f.version # chapter'[f.n].accepted
                  \/ \E s \in fact' : s.stray /\ s.n = f.n /\ s.version = f.version
    <3>0. /\ f.n # n => f.n \notin crossed
          /\ f.n = n => /\ chapter'[n].accepted = number
                        /\ \A o \in fact : o.n = n /\ o.status = "accepted"
                              /\ o.version # number => o \in seen.facts
      <4>1. crossed' = IF generator[g].late THEN crossed \cup {n} ELSE crossed \ {n}
        BY <1>1
      <4>2. f.n # n => f.n \notin crossed
        BY <2>1, <4>1
      <4>3. f.n = n => ~generator[g].late
        BY <2>1, <4>1
      <4>4. QED BY <1>3a, <1>14, <4>2, <4>3
    <3>1. CASE f = new
      BY <1>6, <3>0, <3>1
    <3>2. CASE f \in Aged
      <4>1. PICK o \in fact :
                 /\ f.n = o.n /\ f.version = o.version /\ f.text = o.text /\ f.stray = o.stray
                 /\ \/ f = o /\ o \notin seen.facts
                    \/ f.n = n /\ f.version # number /\ f.status = "superseded"
        BY <1>9, <3>2
      <4>2. CASE f.n = n /\ f.version = number
        <5>1. \E s \in fact' : s.stray /\ s.n = n /\ s.version = number
          <6>1. CASE generator[g].home = chapter[n].plan
            BY <1>13, <2>1, <4>1, <4>2, <6>1
          <6>2. CASE generator[g].home # chapter[n].plan
            BY <1>6, <1>9a, <6>2
          <6>3. QED BY <6>1, <6>2
        <5>2. QED BY <3>0, <4>2, <5>1
      <4>3. CASE f.n = n /\ f.version # number
        BY <3>0, <4>1, <4>3
      <4>4. CASE f.n # n
        <5>1. f = o /\ f.n \in Chapters /\ chapter'[f.n] = chapter[f.n]
          BY <1>12, <1>14, <4>1, <4>4
        <5>2. /\ f.status = "accepted" => f.version = chapter[f.n].accepted
              /\ \/ f.status = "accepted" \/ f.version # chapter[f.n].accepted
                 \/ \E s \in fact : s.stray /\ s.n = f.n /\ s.version = f.version
          BY <3>0, <4>4, <5>1 DEF DraftingInv, CanonIsOneVersion, Canonical
        <5>3. ASSUME NEW s \in fact, s.stray, s.n = f.n, s.version = f.version
              PROVE  \E t \in fact' : t.stray /\ t.n = f.n /\ t.version = f.version
          <6>1. PICK t \in Aged : t.n = s.n /\ t.version = s.version /\ t.stray = s.stray
            BY <1>9
          <6>2. QED BY <1>9a, <5>3, <6>1
        <5>4. QED BY <5>1, <5>2, <5>3
      <4>5. QED BY <4>2, <4>3, <4>4
    <3>3. QED BY <1>9a, <3>1, <3>2
  <2>2. QED BY <2>1 DEF CanonIsOneVersion, Canonical
<1>18. CompletedHasCanon'
  <2>1. SUFFICES ASSUME project' = "completed", NEW m \in Chapters
                 PROVE  chapter'[m].accepted # None
    BY DEF CompletedHasCanon
  <2>2. project = "completed" \/ seen.whole
    BY <1>1, <2>1 DEF Written
  <2>3. CASE m = n
    BY <1>3b, <1>14, <2>3
  <2>4. CASE m # n
    <3>1. chapter[m].accepted # None
      <4>1. CASE project = "completed"
        BY <4>1 DEF DraftingInv, CompletedHasCanon
      <4>2. CASE seen.whole
        BY <1>3, <2>4, <4>2
      <4>3. QED BY <2>2, <4>1, <4>2, Zenon
    <3>2. chapter'[m] = chapter[m]
      BY <1>14, <2>4
    <3>3. QED BY <3>1, <3>2
  <2>5. QED BY <2>3, <2>4
<1>19. VerdictOnCurrentText'
  <2>1. ASSUME NEW m \in Chapters, chapter'[m].status \in Judged
        PROVE  chapter[m].status \in Judged /\ chapter'[m].score = chapter[m].score
               /\ chapter'[m].current = chapter[m].current
    BY <1>3c, <1>4, <2>1 DEF ChapterRelabelled, Judged
  <2>2. QED BY <1>1, <2>1 DEF VerdictOnCurrentText, DraftingInv
<1>20. \A p \in Planners : NewPlan(p)'
    BY <1>7, <1>8, SteadyKeepsPlans DEF TameEvaluators, TameEvaluator
<1>21. \A e \in Evaluators : Evaluated(e)'
  <2>1. \A m \in Chapters :
            /\ chapter'[m].current = chapter[m].current
            /\ chapter'[m].status = "evaluating" => chapter[m].status = "evaluating"
    BY <1>3c, <1>4 DEF ChapterRelabelled
  <2>2. QED BY <1>7, <1>8, <2>1, SteadyKeepsEvaluations
<1>22. \A h \in Generators : Drafted(h)' /\ Reading(h)'
  <2>1. ASSUME NEW h \in Generators PROVE Drafted(h)' /\ Reading(h)'
    <3>1. CASE h = g
      <4>1. generator'[g] = IdleGenerator /\ 0 \in 0..plans'
        BY <1>7, <1>10 DEF RowType
      <4>2. QED BY <3>1, <4>1 DEF Drafted, Reading, IdleGenerator, Unread, Extracting, None
    <3>2. CASE h # g
      <4>1. ASSUME generator[h].pc \in Extracting,
                   generator[h].home = chapter[generator[h].n].plan,
                   NEW f \in fact', f.n = generator[h].n,
                   f.version = generator[h].version
            PROVE  f.stray
        <5>2. CASE f = new
          BY <1>6, <1>13, <3>2, <4>1, <5>2
        <5>3. CASE f \in Aged
          <6>1. PICK o \in fact : f.n = o.n /\ f.version = o.version /\ f.stray = o.stray
            BY <1>9, <5>3
          <6>2. QED BY <4>1, <6>1 DEF DraftingInv, Drafted
        <5>4. QED BY <1>9a, <5>2, <5>3
      <4>2. Drafted(h)'
        BY <1>8, <4>1, SteadyKeepsDrafts
      <4>3. ASSUME generator'[h].pc = "commit", ~generator'[h].late
            PROVE  /\ chapter'[generator'[h].n].accepted = chapter[generator'[h].n].accepted
                   /\ \A f \in fact' : f.n = generator'[h].n => f \in fact
        <5>1. generator'[h].n # n /\ generator'[h].n \in Chapters
          BY <1>7, <3>2, <4>3 DEF TameGenerators, TameGenerator
        <5>2. chapter'[generator'[h].n] = chapter[generator'[h].n]
          BY <1>14, <5>1
        <5>3. ASSUME NEW f \in fact', f.n = generator'[h].n PROVE f \in fact
          BY <1>6, <1>9, <1>9a, <5>1, <5>3
        <5>4. QED BY <5>2, <5>3
      <4>4. Reading(h)'
        BY <1>8, <1>11, <4>3, SteadyKeepsReads
      <4>5. QED BY <4>2, <4>4
    <3>3. QED BY <3>1, <3>2
  <2>2. QED BY <2>1
<1>23. QED BY <1>10, <1>11, <1>15, <1>16, <1>17, <1>18, <1>19, <1>20, <1>21, <1>22
       DEF DraftingInv
-----------------------------------------------------------------------------
(***************************************************************************)
(* Verdicts.                                                               *)
(***************************************************************************)

LEMMA SaveStep ==
    ASSUME DraftingAssumption, DraftingInv, NEW e \in Evaluators,
           evaluator[e].pc \in {"critique", "partial"}, MaySave(e), Stop(e),
           NEW status \in Judged \cup {"evaluation_failed"}, NEW score \in Nat,
           SaveEvaluation(e, status, score),
           score <= Len(version[evaluator[e].n]),
           UNCHANGED <<project, fact, hook, planner, generator, drafts, plans, crossed>>,
           \A m \in Chapters \ {evaluator[e].n} : m \in overtaken => m \in overtaken',
           status \in Judged => /\ evaluator[e].pc = "critique"
                                /\ score = evaluator[e].version
                                /\ (~evaluator[e].late \/ evaluator[e].n \in overtaken')
    PROVE  DraftingInv'
<1> DEFINE n == evaluator[e].n
           k == evaluator[e].version
<1>1. /\ version' = [version EXCEPT ![n][k].status = "evaluated"]
      /\ chapter' = [chapter EXCEPT ![n].status = status, ![n].score = score]
    BY Zenon DEF SaveEvaluation
<1>2. n \in Chapters /\ Evaluated(e) /\ Read(e) /\ chapter[n].status = "evaluating"
    BY DEF DraftingInv, Evaluated, MaySave
<1>3. k \in 1..Len(version[n])
    BY <1>2 DEF Evaluated
<1>4. /\ RowType /\ status \in ChapterStatuses
      /\ status \notin {"generated", "evaluating"}
    BY DEF DraftingInv, ChapterStatuses, Judged
<1>5. ChapterRelabelled(n, status, chapter[n].accepted, score)
  <2> HIDE DEF n
  <2>1. QED BY <1>1, <1>2, <1>4, JudgedRow
<1>6. /\ version' \in [Chapters -> Seq(VersionRows)]
      /\ \A m \in Chapters :
            /\ Len(version'[m]) = Len(version[m])
            /\ \A i \in 1..Len(version[m]) : version'[m][i].text = version[m][i].text
  <2> HIDE DEF n, k
  <2>1. QED BY <1>1, <1>2, <1>3, <1>4, VersionRelabelled
<1>7. TameGenerators /\ TamePlanners /\ TameEvaluators
    BY <1>4, EvaluatorStops, PlannersRest, GeneratorsRest DEF DraftingInv
<1>8. Steady
    BY <1>5, <1>6, <1>7 DEF Steady, ChapterRelabelled
<1>9. RowType'
    BY <1>4, <1>5, <1>6, <1>7 DEF RowType, ChapterRelabelled, TameEvaluators
<1>10. \A m \in Chapters : Numbered(m)'
  <2>1. ASSUME NEW m \in Chapters PROVE Numbered(m)'
    <3>1. /\ Numbered(m) /\ plans' = plans /\ Len(version'[m]) = Len(version[m])
          /\ chapter'[m].plan = chapter[m].plan /\ chapter'[m].text = chapter[m].text
          /\ chapter'[m].version = chapter[m].version
          /\ chapter'[m].current = chapter[m].current
      BY <1>5, <1>6 DEF DraftingInv, ChapterRelabelled
    <3>2. CASE m = n
      <4>1. /\ chapter'[n].status = status /\ chapter'[n].accepted = chapter[n].accepted
            /\ chapter'[n].score = score
        BY <1>5 DEF ChapterRelabelled
      <4>2. QED BY <1>4, <3>1, <3>2, <4>1 DEF Numbered, Exists
    <3>3. CASE m # n
      <4>1. chapter'[m] = chapter[m]
        BY <1>5, <3>3 DEF ChapterRelabelled
      <4>2. QED BY <3>1, <4>1 DEF Numbered, Exists
    <3>4. QED BY <3>2, <3>3
  <2>2. QED BY <2>1
<1>11. /\ \A f \in fact : f.n \in Chapters /\ f.version \in 1..Len(version[f.n])
       /\ \A m \in Chapters : chapter'[m].accepted = chapter[m].accepted
    BY <1>5 DEF DraftingInv, FactsNumbered, RowType, FactRows, ChapterRelabelled
<1>12. FactsNumbered'
    BY <1>6, <1>11 DEF FactsNumbered
<1>13. FactsMatchText'
    BY <1>6, <1>11 DEF FactsMatchText, DraftingInv
<1>14. CanonIsOneVersion'
    BY <1>11 DEF CanonIsOneVersion, Canonical, DraftingInv
<1>15. CompletedHasCanon'
    BY <1>11 DEF CompletedHasCanon, DraftingInv
<1>16. VerdictOnCurrentText'
  <2>1. ASSUME NEW m \in Chapters, chapter'[m].status \in Judged
        PROVE  m \in overtaken' \/ chapter'[m].score = chapter'[m].current
    <3>1. CASE m # n
      <4>1. chapter'[m] = chapter[m]
        BY <1>5, <3>1 DEF ChapterRelabelled
      <4>2. QED BY <2>1, <3>1, <4>1 DEF DraftingInv, VerdictOnCurrentText
    <3>2. CASE m = n
      <4>1. /\ chapter'[n].status = status /\ chapter'[n].score = score
            /\ chapter'[n].current = chapter[n].current
        BY <1>2, <1>5 DEF ChapterRelabelled
      <4>2. CASE evaluator[e].late
        BY <2>1, <3>2, <4>1, <4>2
      <4>3. CASE ~evaluator[e].late
        <5>1. evaluator[e].pc = "critique" /\ score = k
          <6>1. status \in Judged
            BY <2>1, <3>2, <4>1
          <6>2. QED BY <6>1
        <5>2. k = chapter[n].current
          BY <1>2, <4>3, <5>1 DEF Evaluated
        <5>3. QED BY <3>2, <4>1, <5>1, <5>2
      <4>4. QED BY <4>2, <4>3
    <3>3. QED BY <3>1, <3>2
  <2>2. QED BY <2>1 DEF VerdictOnCurrentText
<1>17. \A p \in Planners : NewPlan(p)'
    BY <1>7, <1>8, SteadyKeepsPlans DEF TameEvaluators, TameEvaluator
<1>18. \A d \in Evaluators : Evaluated(d)'
  <2>1. \A m \in Chapters :
            /\ chapter'[m].current = chapter[m].current
            /\ chapter'[m].status = "evaluating" => chapter[m].status = "evaluating"
    BY <1>4, <1>5 DEF ChapterRelabelled
  <2>2. QED BY <1>7, <1>8, <2>1, SteadyKeepsEvaluations
<1>19. \A h \in Generators : Drafted(h)' /\ Reading(h)'
  <2>1. ASSUME NEW h \in Generators PROVE Drafted(h)' /\ Reading(h)'
    <3>1. generator[h].pc \in Extracting /\ generator[h].home = chapter[generator[h].n].plan =>
              \A f \in fact' : f.n = generator[h].n /\ f.version = generator[h].version
                                => f.stray
      BY DEF DraftingInv, Drafted
    <3>2. Drafted(h)'
      BY <1>8, <3>1, SteadyKeepsDrafts
    <3>3. /\ fact' = fact /\ generator' = generator
          /\ \A m \in Chapters : chapter'[m].accepted = chapter[m].accepted
          /\ generator[h].pc = "commit" => generator[h].n \in Chapters
      BY <1>11 DEF DraftingInv, Drafted
    <3>4. Reading(h)'
      BY <1>8, <3>3, SteadyKeepsReads
    <3>5. QED BY <3>2, <3>4
  <2>2. QED BY <2>1
<1>20. QED BY <1>9, <1>10, <1>12, <1>13, <1>14, <1>15, <1>16, <1>17, <1>18, <1>19
       DEF DraftingInv

LEMMA CompleteStep ==
    ASSUME DraftingAssumption, DraftingInv, NEW e \in Evaluators, NEW passed \in BOOLEAN,
           PersistComplete(e, passed), MaySave(e)
    PROVE  DraftingInv'
<1> DEFINE n == evaluator[e].n
           status == IF passed THEN "evaluated_passed" ELSE "evaluated_needs_revision"
<1>1. /\ evaluator[e].pc = "critique" /\ Stop(e)
      /\ SaveEvaluation(e, status, evaluator[e].version)
      /\ overtaken' = IF evaluator[e].late THEN overtaken \cup {n} ELSE overtaken \ {n}
      /\ UNCHANGED <<project, fact, hook, planner, generator, drafts, plans, crossed>>
    BY Zenon DEF PersistComplete, counts
<1>2. status \in Judged \cup {"evaluation_failed"}
    BY DEF Judged
<1>3. n \in Chapters /\ evaluator[e].version \in 1..Len(version[n])
    BY <1>1 DEF DraftingInv, Evaluated, MaySave
<1>4. evaluator[e].version \in Nat /\ Len(version[n]) \in Nat
    BY <1>3 DEF DraftingInv, RowType, EvaluatorThreads
<1>5. evaluator[e].version <= Len(version[n])
    BY <1>3, <1>4
<1> HIDE DEF status
<1>6. QED BY <1>1, <1>2, <1>4, <1>5, SaveStep

LEMMA PartialStep ==
    ASSUME DraftingAssumption, DraftingInv, NEW e \in Evaluators, PersistPartial(e),
           MaySave(e)
    PROVE  DraftingInv'
<1>1. /\ evaluator[e].pc = "partial" /\ Stop(e)
      /\ SaveEvaluation(e, "evaluation_failed", chapter[evaluator[e].n].score)
      /\ UNCHANGED <<project, fact, hook, planner, generator, drafts, plans, overtaken, crossed>>
    BY Zenon DEF PersistPartial, counts, history
<1>2. evaluator[e].n \in Chapters
    BY <1>1 DEF DraftingInv, Evaluated
<1>3. /\ chapter[evaluator[e].n].score \in Nat
      /\ chapter[evaluator[e].n].score <= Len(version[evaluator[e].n])
    BY <1>2 DEF DraftingInv, RowType, Numbered, ChapterRows
<1>4. "evaluation_failed" \notin Judged
    BY DEF Judged
<1>5. QED BY <1>1, <1>3, <1>4, SaveStep

\* The mark of an evaluation makes the others of its chapter late.
LEMMA MarkStep ==
    ASSUME DraftingAssumption, DraftingInv, NEW e \in Evaluators, MarkEvaluating(e),
           Read(e), chapter[evaluator[e].n].status = evaluator[e].previous
    PROVE  DraftingInv'
<1> DEFINE n == evaluator[e].n
           Later(d) == [evaluator[d] EXCEPT !.late = TRUE]
           mine == [evaluator[e] EXCEPT !.pc = "critique"]
           row == [chapter[n] EXCEPT !.status = "evaluating"]
<1>1. /\ evaluator[e].pc = "mark"
      /\ chapter' = [chapter EXCEPT ![n] = row]
      /\ evaluator' = [d \in Evaluators |->
                IF d = e THEN mine ELSE IF evaluator[d].n = n THEN Later(d) ELSE evaluator[d]]
      /\ UNCHANGED <<project, version, fact, hook, planner, generator, drafts, overtaken,
                     crossed, plans>>
    BY Zenon DEF MarkEvaluating, history, counts
<1>2. n \in Chapters /\ Evaluated(e)
    BY <1>1 DEF DraftingInv, Evaluated
<1>3. \A d \in Evaluators :
          /\ evaluator[d] \in EvaluatorThreads
          /\ Later(d) \in EvaluatorThreads /\ Later(d).pc = evaluator[d].pc
          /\ Later(d).n = evaluator[d].n /\ Later(d).plan = evaluator[d].plan
          /\ Later(d).version = evaluator[d].version /\ Later(d).late = TRUE
  <2>1. ASSUME NEW d \in Evaluators
        PROVE  /\ evaluator[d] \in EvaluatorThreads
               /\ Later(d) \in EvaluatorThreads /\ Later(d).pc = evaluator[d].pc
               /\ Later(d).n = evaluator[d].n /\ Later(d).plan = evaluator[d].plan
               /\ Later(d).version = evaluator[d].version /\ Later(d).late = TRUE
    <3>1. evaluator[d] \in EvaluatorThreads
      BY DEF DraftingInv, RowType
    <3>2. QED BY <3>1 DEF EvaluatorThreads
  <2> HIDE DEF Later
  <2>2. QED BY <2>1
<1>4. /\ mine \in EvaluatorThreads /\ mine.pc = "critique" /\ mine.n = n
      /\ mine.plan = evaluator[e].plan /\ mine.version = evaluator[e].version
      /\ mine.late = evaluator[e].late
  <2>1. evaluator[e] \in EvaluatorThreads
    BY <1>3
  <2>2. QED BY <2>1 DEF EvaluatorThreads
<1>5. /\ row \in ChapterRows /\ row.status = "evaluating" /\ row.plan = chapter[n].plan
      /\ row.text = chapter[n].text /\ row.version = chapter[n].version
      /\ row.current = chapter[n].current /\ row.accepted = chapter[n].accepted
      /\ row.score = chapter[n].score
  <2>1. chapter[n] \in ChapterRows
    BY <1>2 DEF DraftingInv, RowType
  <2>2. QED BY <2>1 DEF ChapterRows, ChapterStatuses
<1> HIDE DEF Later, mine, row
<1>6. /\ chapter' \in [Chapters -> ChapterRows]
      /\ \A m \in Chapters : /\ chapter'[m].plan = chapter[m].plan
                             /\ chapter'[m].text = chapter[m].text
                             /\ chapter'[m].version = chapter[m].version
                             /\ chapter'[m].current = chapter[m].current
                             /\ chapter'[m].accepted = chapter[m].accepted
                             /\ chapter'[m].score = chapter[m].score
      /\ chapter'[n].status = "evaluating"
      /\ \A m \in Chapters \ {n} : chapter'[m] = chapter[m]
  <2>1. chapter' \in [Chapters -> ChapterRows]
    BY <1>1, <1>5 DEF DraftingInv, RowType
  <2>2. \A m \in Chapters : chapter'[m] = IF m = n THEN row ELSE chapter[m]
    BY <1>1 DEF DraftingInv, RowType
  <2>3. QED BY <1>2, <1>5, <2>1, <2>2
<1>7. /\ evaluator' \in [Evaluators -> EvaluatorThreads]
      /\ \A d \in Evaluators : /\ evaluator'[d].n = evaluator[d].n
                               /\ evaluator'[d].plan = evaluator[d].plan
                               /\ evaluator'[d].version = evaluator[d].version
                               /\ d # e => evaluator'[d].pc = evaluator[d].pc
                               /\ d # e => evaluator'[d].late =
                                     (evaluator[d].late \/ evaluator[d].n = n)
      /\ evaluator'[e].pc = "critique" /\ evaluator'[e].late = evaluator[e].late
  <2>1. evaluator' \in [Evaluators -> EvaluatorThreads]
    BY <1>1, <1>3, <1>4
  <2>2. evaluator'[e] = mine
    BY <1>1
  <2>3. ASSUME NEW d \in Evaluators, d # e
        PROVE  /\ evaluator'[d].n = evaluator[d].n /\ evaluator'[d].plan = evaluator[d].plan
               /\ evaluator'[d].version = evaluator[d].version
               /\ evaluator'[d].pc = evaluator[d].pc
               /\ evaluator'[d].late = (evaluator[d].late \/ evaluator[d].n = n)
    <3>1. evaluator[d].late \in BOOLEAN
      BY <1>3 DEF EvaluatorThreads
    <3>2. CASE evaluator[d].n = n
      <4>1. evaluator'[d] = Later(d)
        BY <1>1, <2>3, <3>2
      <4>2. QED BY <1>3, <3>2, <4>1
    <3>3. CASE evaluator[d].n # n
      <4>1. evaluator'[d] = evaluator[d]
        BY <1>1, <2>3, <3>3
      <4>2. QED BY <3>1, <3>3, <4>1
    <3>4. QED BY <3>2, <3>3
  <2>4. QED BY <1>4, <2>1, <2>2, <2>3
<1>8. TamePlanners /\ TameGenerators
    BY <1>1, PlannersRest, GeneratorsRest DEF DraftingInv
<1>9. Steady
    BY <1>1, <1>6, <1>8 DEF Steady
<1>10. RowType'
    BY <1>1, <1>6, <1>7 DEF DraftingInv, RowType
<1>11. \A m \in Chapters : Numbered(m)'
  <2>1. ASSUME NEW m \in Chapters PROVE Numbered(m)'
    <3>1. CASE m = n
      BY <1>1, <1>2, <1>6, <3>1 DEF DraftingInv, Numbered, Exists
    <3>2. CASE m # n
      BY <1>1, <1>6, <3>2 DEF DraftingInv, Numbered, Exists
    <3>3. QED BY <3>1, <3>2
  <2>2. QED BY <2>1
<1>12. \A f \in fact : f.n \in Chapters
    BY DEF DraftingInv, RowType, FactRows
<1>13. FactsNumbered' /\ FactsMatchText'
    BY <1>1 DEF DraftingInv, FactsNumbered, FactsMatchText
<1>14. CanonIsOneVersion'
  <2>1. fact' = fact /\ \A f \in fact : chapter'[f.n].accepted = chapter[f.n].accepted
    BY <1>1, <1>6, <1>12
  <2>2. QED BY <1>1, <2>1 DEF DraftingInv, CanonIsOneVersion, Canonical
<1>15. CompletedHasCanon'
    BY <1>1, <1>6 DEF DraftingInv, CompletedHasCanon
<1>16. VerdictOnCurrentText'
    BY <1>1, <1>6 DEF DraftingInv, VerdictOnCurrentText, Judged
<1>17. \A p \in Planners : NewPlan(p)'
    BY <1>7, <1>9, SteadyKeepsPlans
<1>18. \A h \in Generators : Drafted(h)' /\ Reading(h)'
  <2>1. ASSUME NEW h \in Generators PROVE Drafted(h)' /\ Reading(h)'
    <3>1. generator[h].pc \in Extracting /\ generator[h].home = chapter[generator[h].n].plan =>
              \A f \in fact' : f.n = generator[h].n /\ f.version = generator[h].version
                                => f.stray
      BY <1>1 DEF DraftingInv, Drafted
    <3>2. Drafted(h)'
      BY <1>9, <3>1, SteadyKeepsDrafts
    <3>3. /\ fact' = fact /\ generator' = generator
          /\ \A m \in Chapters : chapter'[m].accepted = chapter[m].accepted
          /\ generator[h].pc = "commit" => generator[h].n \in Chapters
      BY <1>1, <1>6 DEF DraftingInv, Drafted
    <3>4. Reading(h)'
      BY <1>9, <3>3, SteadyKeepsReads
    <3>5. QED BY <3>2, <3>4
  <2>2. QED BY <2>1
<1>19. \A d \in Evaluators : Evaluated(d)'
  <2>1. ASSUME NEW d \in Evaluators PROVE Evaluated(d)'
    <3>1. Evaluated(d) /\ plans' = plans /\ version' = version
      BY <1>1 DEF DraftingInv
    <3>2. evaluator[d].pc # "idle" => /\ evaluator[d].n \in Chapters
                                      /\ chapter'[evaluator[d].n].plan =
                                            chapter[evaluator[d].n].plan
                                      /\ chapter'[evaluator[d].n].current =
                                            chapter[evaluator[d].n].current
      BY <1>6, <3>1 DEF Evaluated
    <3>3. CASE d = e
      BY <1>1, <1>2, <1>6, <1>7, <3>1, <3>2, <3>3 DEF Evaluated, Read
    <3>4. CASE d # e
      <4>1. /\ evaluator'[d].n = evaluator[d].n /\ evaluator'[d].plan = evaluator[d].plan
            /\ evaluator'[d].version = evaluator[d].version
            /\ evaluator'[d].pc = evaluator[d].pc
            /\ evaluator'[d].late = (evaluator[d].late \/ evaluator[d].n = n)
        BY <1>7, <3>4
      <4>2. evaluator[d].pc # "idle" /\ evaluator[d].n # n =>
                chapter'[evaluator[d].n] = chapter[evaluator[d].n]
        BY <1>6, <3>2
      <4>3. CASE evaluator[d].n = n
        BY <3>1, <3>2, <4>1, <4>3 DEF Evaluated, Read
      <4>4. CASE evaluator[d].n # n
        BY <3>1, <3>2, <4>1, <4>2, <4>4 DEF Evaluated, Read
      <4>5. QED BY <4>3, <4>4
    <3>5. QED BY <3>3, <3>4
  <2>2. QED BY <2>1
<1>20. QED BY <1>10, <1>11, <1>13, <1>14, <1>15, <1>16, <1>17, <1>18, <1>19
       DEF DraftingInv
-----------------------------------------------------------------------------
(***************************************************************************)
(* The invariant of the specification.                                     *)
(***************************************************************************)

LEMMA DraftingInit ==
    ASSUME DraftingAssumption, Init
    PROVE  DraftingInv
<1>1. /\ NoChapter \in ChapterRows /\ NoChapter.plan = None /\ NoChapter.status = "none"
      /\ NoChapter.text = None /\ NoChapter.version = 0 /\ NoChapter.current = None
      /\ NoChapter.accepted = None /\ NoChapter.score = None
    BY DEF NoChapter, ChapterRows, ChapterStatuses, None
<1>2. /\ IdlePlanner \in PlannerThreads /\ IdlePlanner.pc = "idle"
      /\ IdleEvaluator \in EvaluatorThreads /\ IdleEvaluator.pc = "idle"
      /\ IdleEvaluator.plan = 0
      /\ GeneratorThread(IdleGenerator) /\ IdleGenerator.pc = "idle" /\ IdleGenerator.home = 0
      /\ IdleGenerator.seen.plan = 0
    BY DEF DraftingAssumption, IdlePlanner, PlannerThreads, IdleEvaluator, EvaluatorThreads,
           IdleGenerator, Unread, GeneratorThread, ChapterStatuses, None
<1>3. /\ \A n \in Chapters : chapter[n] = NoChapter /\ version[n] = <<>>
      /\ \A p \in Planners : planner[p] = IdlePlanner
      /\ \A g \in Generators : generator[g] = IdleGenerator
      /\ \A e \in Evaluators : evaluator[e] = IdleEvaluator
      /\ fact = {} /\ plans = 0 /\ project = "created"
    BY DEF Init
<1>4. RowType
  <2>1. chapter \in [Chapters -> ChapterRows] /\ version \in [Chapters -> Seq(VersionRows)]
    BY <1>1 DEF Init
  <2>2. hook \in [Chapters -> {"none", "planned", "open", "resolved"}]
    BY DEF Init
  <2>3. planner \in [Planners -> PlannerThreads] /\ evaluator \in [Evaluators -> EvaluatorThreads]
    BY <1>2 DEF Init
  <2>4. generator = [g \in Generators |-> generator[g]]
    BY DEF Init
  <2>5. drafts \in Seq(Chapters) /\ plans \in 0..MaxPlans
    BY DEF Init, DraftingAssumption
  <2>6. QED BY <1>2, <1>3, <2>1, <2>2, <2>3, <2>4, <2>5 DEF RowType
<1>5. \A n \in Chapters : Numbered(n)
    BY <1>1, <1>3 DEF Numbered, Exists, None
<1>6. FactsNumbered /\ CanonIsOneVersion /\ FactsMatchText /\ CompletedHasCanon
    BY <1>3 DEF FactsNumbered, CanonIsOneVersion, FactsMatchText, CompletedHasCanon
<1>7. VerdictOnCurrentText
    BY <1>1, <1>3 DEF VerdictOnCurrentText, Judged
<1>8. \A p \in Planners : NewPlan(p)
    BY <1>2, <1>3 DEF NewPlan
<1>9. \A g \in Generators : Drafted(g) /\ Reading(g)
    BY <1>2, <1>3 DEF Drafted, Reading, Extracting
<1>10. \A e \in Evaluators : Evaluated(e)
    BY <1>2, <1>3 DEF Evaluated
<1>11. QED BY <1>4, <1>5, <1>6, <1>7, <1>8, <1>9, <1>10 DEF DraftingInv

LEMMA DraftingStep ==
    ASSUME DraftingAssumption, DraftingInv, [Next]_vars
    PROVE  DraftingInv'
<1>1. ASSUME NEW p \in Planners, Planning(p)
      PROVE  DraftingInv'
  <2>1. CASE \E replace \in BOOLEAN : PrepareRequest(p, replace)
    BY <2>1, RequestIsQuiet, QuietStep
  <2>2. CASE PersistPlan(p) /\ ~(HasPlan /\ ~planner[p].replace)
    BY <2>2, PlanStep
  <2>3. CASE \/ PersistPlan(p) /\ HasPlan /\ ~planner[p].replace
             \/ MarkPlanFailed(p) \/ PlanningFails(p)
    BY <2>3, PlannersAreQuiet, QuietStep
  <2>4. QED BY <1>1, <2>1, <2>2, <2>3 DEF Planning
<1>2. ASSUME NEW g \in Generators, Generate(g)
      PROVE  DraftingInv'
  <2>1. CASE \E n \in Chapters, regenerate \in BOOLEAN : ValidateStart(g, n, regenerate)
    BY <2>1, StartIsQuiet, QuietStep
  <2>2. CASE BuildContext(g)
    BY <2>2, ContextIsQuiet, QuietStep
  <2>3. CASE SetRunning(g)
    BY <2>3, RunningIsQuiet, QuietStep
  <2>4. CASE PersistDraft(g)
    BY <2>4, DraftStep
  <2>5. CASE PersistExtraction(g) /\ chapter[generator[g].n].plan = generator[g].seen.plan
    BY <2>5, ExtractionStep
  <2>6. CASE \/ ReadCanon(g) /\ Snapshot(g) \notin DOMAIN version[generator[g].n]
             \/ PersistExtraction(g) /\ chapter[generator[g].n].plan # generator[g].seen.plan
             \/ GenerationFails(g)
    BY <2>6, GeneratorsAreQuiet, QuietStep
  <2>6a. CASE ReadCanon(g) /\ Snapshot(g) \in DOMAIN version[generator[g].n]
    BY <2>6a, ReadIsQuiet, QuietStep
  <2>7. CASE MarkFailure(g)
    BY <2>7, FailureIsQuiet, QuietStep
  <2>8. QED BY <1>2, <2>1, <2>2, <2>3, <2>4, <2>5, <2>6, <2>6a, <2>7
       DEF Generate
<1>3. ASSUME NEW e \in Evaluators, Evaluate(e)
      PROVE  DraftingInv'
  <2>1. CASE \E n \in Chapters, force \in BOOLEAN : ChooseVersion(e, n, force)
    BY <2>1, ChoiceIsQuiet, QuietStep
  <2>2. CASE LoadContext(e)
    BY <2>2, LoadIsQuiet, QuietStep
  <2>3. CASE /\ MarkEvaluating(e) /\ Read(e)
             /\ chapter[evaluator[e].n].status = evaluator[e].previous
    BY <2>3, MarkStep
  <2>4. CASE \E passed \in BOOLEAN : PersistComplete(e, passed) /\ MaySave(e)
    BY <2>4, CompleteStep
  <2>5. CASE PersistPartial(e) /\ MaySave(e)
    BY <2>5, PartialStep
  <2>6. CASE \/ MarkEvaluating(e) /\ ~(Read(e) /\ chapter[evaluator[e].n].status =
                                                  evaluator[e].previous)
             \/ \E passed \in BOOLEAN : PersistComplete(e, passed) /\ ~MaySave(e)
             \/ PersistPartial(e) /\ ~MaySave(e)
    BY <2>6, LateEvaluationIsQuiet, QuietStep
  <2>7. CASE MarkEvaluationFailed(e)
    BY <2>7, EvaluationFailureIsQuiet, QuietStep
  <2>8. CASE EvaluationFails(e)
    BY <2>8, CriticFailureIsQuiet, QuietStep
  <2>9. QED BY <1>3, <2>1, <2>2, <2>3, <2>4, <2>5, <2>6, <2>7, <2>8 DEF Evaluate
<1>4. CASE Refused \/ Crash
  BY <1>4, FaultsAreQuiet, QuietStep
<1>5. CASE UNCHANGED vars
  <2>1. UNCHANGED <<project, chapter, version, fact, hook, planner, generator, evaluator,
                    drafts, overtaken, crossed, plans>>
    BY <1>5 DEF vars, rows, threads, history, counts
  <2>2. Quiet
    BY <2>1, NothingRemarked, PlannersRest, GeneratorsRest, EvaluatorsRest
       DEF DraftingInv, Quiet
  <2>3. QED BY <2>2, QuietStep
<1>6. QED BY <1>1, <1>2, <1>3, <1>4, <1>5 DEF Next

\* Whatever planners, generators and evaluators run at once, and wherever
\* they fail or die, the rows keep to the invariant: services/planning.py,
\* services/generation.py and services/evaluation_service.py.
LEMMA DraftingInvariant == Spec => []DraftingInv
<1>1. Init => DraftingInv
    BY DraftingAssumption, DraftingInit
<1>2. DraftingInv /\ [Next]_vars => DraftingInv'
    BY DraftingAssumption, DraftingStep
<1>3. QED BY <1>1, <1>2, PTL DEF Spec

-----------------------------------------------------------------------------
(***************************************************************************)
(* The theorems.                                                           *)
(***************************************************************************)

\* Versions are numbered 1, 2, ... and every pointer of a chapter is to one
\* it has: the numbers that _persist_draft (services/generation.py) derives
\* from the chapter row leave no gap and collide with none, however drafts
\* interleave with plans that delete the chapters.
THEOREM TypeCorrect == Spec => []TypeOK
<1>1. DraftingInv => TypeOK
  <2>1. SUFFICES ASSUME DraftingInv PROVE TypeOK
    OBVIOUS
  <2>2. planner \in [Planners -> [pc : {"idle", "plan", "fail"}, replace : BOOLEAN,
                                  plan : 0..MaxPlans]]
    BY <2>1 DEF DraftingInv, RowType, PlannerThreads
  <2>3. ASSUME NEW n \in Chapters
        PROVE  /\ chapter[n].current \in {None} \cup DOMAIN version[n]
               /\ chapter[n].accepted \in {None} \cup DOMAIN version[n]
               /\ chapter[n].score \in {None} \cup DOMAIN version[n]
               /\ chapter[n].current = Len(version[n])
               /\ hook[n] \in {"none", "planned", "open", "resolved"}
    <3>1. /\ version[n] \in Seq(VersionRows) /\ chapter[n] \in ChapterRows /\ Numbered(n)
          /\ hook[n] \in {"none", "planned", "open", "resolved"}
      BY <2>1 DEF DraftingInv, RowType
    <3>2. DOMAIN version[n] = 1..Len(version[n]) /\ Len(version[n]) \in Nat
      BY <3>1
    <3>3. QED BY <3>1, <3>2 DEF Numbered, ChapterRows, None
  <2>4. ASSUME NEW f \in fact PROVE f.version \in DOMAIN version[f.n]
    <3>1. f.n \in Chapters /\ f.version \in 1..Len(version[f.n])
      BY <2>1 DEF DraftingInv, RowType, FactRows, FactsNumbered
    <3>2. version[f.n] \in Seq(VersionRows)
      BY <2>1, <3>1 DEF DraftingInv, RowType
    <3>3. QED BY <3>1, <3>2
  <2>5. QED BY <2>2, <2>3, <2>4 DEF TypeOK
<1>2. QED BY <1>1, DraftingInvariant, PTL

\* The facts that later chapters are told are those of the accepted version
\* and all of those, for any number of overlapping generations of a chapter
\* (_persist_extraction supersedes the facts of every other version), unless
\* the last extraction committed after one that its transaction had not read.
THEOREM CanonOfOneVersion == Spec => []CanonIsOneVersion
<1>1. DraftingInv => CanonIsOneVersion
    BY DEF DraftingInv
<1>2. QED BY <1>1, DraftingInvariant, PTL

\* A fact was extracted from the text of the version it is stored with,
\* unless a new plan came between: _persist_extraction finds the version by
\* its number.
THEOREM FactsAreOfTheirText == Spec => []FactsMatchText
<1>1. DraftingInv => FactsMatchText
    BY DEF DraftingInv
<1>2. QED BY <1>1, DraftingInvariant, PTL

\* A completed project has an accepted version of every chapter
\* (_persist_extraction completes it when every chapter is generated).
THEOREM CompletionHasCanon == Spec => []CompletedHasCanon
<1>1. DraftingInv => CompletedHasCanon
    BY DEF DraftingInv
<1>2. QED BY <1>1, DraftingInvariant, PTL

\* A verdict that no draft and no other mark overtook is one on the current
\* text (_mark_evaluating and _persist_complete check the chapter's status).
THEOREM VerdictsAreCurrent == Spec => []VerdictOnCurrentText
<1>1. DraftingInv => VerdictOnCurrentText
    BY DEF DraftingInv
<1>2. QED BY <1>1, DraftingInvariant, PTL

=============================================================================

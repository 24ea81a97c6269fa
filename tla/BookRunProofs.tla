---------------------------- MODULE BookRunProofs ----------------------------
(***************************************************************************)
(* Theorems about BookRun, for any number of chapters, requests, crashes   *)
(* and faults.                                                             *)
(***************************************************************************)
EXTENDS BookRun, FiniteSetTheorems, SequenceTheorems, NaturalsInduction,
        WellFoundedInduction, TLAPS

-----------------------------------------------------------------------------
(***************************************************************************)
(* Types of the fields the properties read.  The count of calls is a fold  *)
(* over the workflows, whose value no prover here can compute: it and the  *)
(* fields that follow it are left open.                                    *)
(***************************************************************************)

\* Places of the thread where the handler is outside its try block or ends.
HaltPcs == {"idle", "enter", "initialize", "failing", "job_fail", "job_retry",
            "job_pause", "job_cancel", "job_succeed"}
\* Places from which the handler reads nothing but the rows.
FreePcs == HaltPcs \cup {"schedule", "pausing", "cancelling", "finish_review",
                         "check_control", "check"}
ChapterPcs == {"gate", "control", "mark", "start"}
WorkPcs == {"work", "record", "usage"}
AnalysisPcs == {"analysis_control", "analyze", "persist", "accept", "complete",
                "handle", "retain", "plan"}
ReviewPcs == {"review_control", "review", "snapshot", "revise"} \cup AnalysisPcs
Pcs == FreePcs \cup ChapterPcs \cup WorkPcs \cup ReviewPcs

RunRow(r) ==
    /\ r = [status |-> r.status, current |-> r.current, wf |-> r.wf, map |-> r.map,
            calls |-> r.calls, limit |-> r.limit, round |-> r.round,
            snapshot |-> r.snapshot, best |-> r.best]
    /\ r.status \in Statuses /\ r.current \in 0..N /\ r.map \in [Chapters -> Marks]

JobRow(j) ==
    j = [status |-> j.status, started |-> j.started, wf |-> j.wf, attempt |-> j.attempt,
         max |-> j.max]

ThreadRow(u) ==
    /\ u = [pc |-> u.pc, chapter |-> u.chapter, wf |-> u.wf, tasks |-> u.tasks,
            fresh |-> u.fresh, snapshot |-> u.snapshot, again |-> u.again,
            key |-> u.key, verdict |-> u.verdict, error |-> u.error]
    /\ u.pc \in Pcs /\ u.chapter \in 0..N /\ u.tasks \in Seq(Chapters)
    /\ u.verdict \in Verdicts \cup {"none"}

WorkflowRows ==
    [chapter : Chapters, operation : {"generate", "targeted_revision"},
     status : WorkflowStatuses, used : Nat, recorded : BOOLEAN]
SnapshotRows ==
    [map : [Chapters -> Nat],
     status : {"candidate", "reviewed", "accepted", "needs_review", "superseded"},
     evaluation : Verdicts \cup {"none"}]

RowType ==
    /\ RunRow(run) /\ run.wf \in 0..Len(workflows) /\ JobRow(job)
    /\ accepted \in [Chapters -> Nat]
    /\ workflows \in Seq(WorkflowRows) /\ snapshots \in Seq(SnapshotRows)
    /\ ThreadRow(thread) /\ crashes \in Nat /\ faults \in Nat

-----------------------------------------------------------------------------
(***************************************************************************)
(* The invariant.                                                          *)
(***************************************************************************)

Whole == \A c \in Chapters : accepted[c] # 0
MapWhole == \A c \in Chapters : run.map[c] = "accepted"
Generates(w) == workflows[w].operation = "generate"

\* What a workflow leaves behind in the rows of its chapter and of the run.
CompletedHasVersion ==
    \A w \in DOMAIN workflows :
        workflows[w].status = "completed" => accepted[workflows[w].chapter] # 0
RevisedIsWhole == \A w \in DOMAIN workflows : ~Generates(w) => Whole
BegunIsMarked ==
    \A w \in DOMAIN workflows : Generates(w) => run.map[workflows[w].chapter] # "planned"

\* On its way to start a chapter the thread holds one that has no version,
\* and continues its workflow if there is one.
Choosing ==
    thread.pc \in ChapterPcs =>
        /\ thread.chapter \in Chapters /\ accepted[thread.chapter] = 0
        /\ \/ run.wf # 0 /\ run.current = thread.chapter
           \/ \A w \in DOMAIN workflows :
                  Generates(w) => workflows[w].chapter # thread.chapter
        /\ thread.pc = "start" =>
               run.current = thread.chapter /\ run.map[thread.chapter] = "running"

\* The thread holds the workflow it runs and records.
Working ==
    thread.pc \in WorkPcs =>
        /\ thread.chapter \in Chapters /\ thread.wf \in DOMAIN workflows
        /\ ~Generates(thread.wf) => MapWhole
        /\ thread.pc \in {"work", "record"} => run.wf = thread.wf
        /\ thread.pc \in {"record", "usage"} =>
              /\ workflows[thread.wf].status \in
                     {"completed", "completed_needs_review", "cancelled"}
              /\ ~Generates(thread.wf) => workflows[thread.wf].status = "completed"

\* The book is reviewed when it is whole, and the snapshot the thread holds
\* is of the versions that are accepted.
Reviewing ==
    /\ thread.pc \in ReviewPcs \ {"retain"} => MapWhole
    /\ thread.pc \in AnalysisPcs \cup {"revise"} => Whole
    /\ thread.pc \in AnalysisPcs =>
          /\ thread.snapshot \in DOMAIN snapshots
          /\ snapshots[thread.snapshot].map = accepted
    /\ thread.pc = "complete" => snapshots[thread.snapshot].status = "accepted"

\* Nothing runs in a completed book.
CompletedRests == run.status = "completed" => thread.pc \in HaltPcs

\* As long as nothing is lost, a run that refers to the workflow of a chapter
\* is executing it, can go on with it, or will not go on at all.
Executing ==
    /\ thread.pc \in {"work", "record"} /\ thread.wf = run.wf
    /\ workflows[run.wf].chapter = thread.chapter
    /\ run.current = thread.chapter /\ run.map[thread.chapter] = "running"
    /\ thread.pc = "work" => accepted[thread.chapter] = 0
Halted ==
    \/ thread.pc = "failing" /\ faults = 1
    \/ thread.pc = "job_fail"
    \/ run.status \in Terminal
       /\ thread.pc \in {"idle", "enter", "initialize", "failing", "job_pause",
                         "job_cancel", "job_retry"}
    \/ thread.pc = "idle" /\ job.status = "failed"
Open ==
    /\ workflows[run.wf].chapter = run.current
    /\ run.current \in Chapters
    /\ run.map[run.current] = "running" /\ accepted[run.current] = 0
    /\ thread.pc \in {"pausing", "cancelling", "job_pause", "job_cancel", "job_fail",
                      "job_retry", "failing", "idle", "enter", "initialize", "schedule",
                      "control", "mark", "start"}
    /\ thread.pc \in {"control", "mark", "start"} => thread.chapter = run.current
Linked ==
    NothingLost /\ run.wf # 0 /\ Generates(run.wf) => Executing \/ Halted \/ Open

BookInv ==
    /\ RowType
    /\ CompletedHasVersion /\ RevisedIsWhole /\ BegunIsMarked
    /\ Choosing /\ Working /\ Reviewing /\ CompletedRests /\ Linked
    /\ ReportIsTrue /\ GeneratedOnce /\ CompletedIsWhole

-----------------------------------------------------------------------------
(***************************************************************************)
(* The fields of the rows after an update.                                 *)
(***************************************************************************)

Same(u, v) ==
    /\ v.chapter = u.chapter /\ v.wf = u.wf /\ v.tasks = u.tasks /\ v.snapshot = u.snapshot

Gone(u, pc) == [u EXCEPT !.pc = pc]
Raised(u, pc, e) == [u EXCEPT !.pc = pc, !.error = e]
Took(u, pc, c) == [u EXCEPT !.pc = pc, !.chapter = c]
Planned(u, pc, p) == [u EXCEPT !.pc = pc, !.tasks = p]
Frozen(u, pc, s) == [u EXCEPT !.pc = pc, !.snapshot = s]
Repeated(u, pc, a) == [u EXCEPT !.pc = pc, !.again = a]
Asked(u, pc, k) == [u EXCEPT !.pc = pc, !.key = k]
Judged(u, pc, k, d) == [u EXCEPT !.pc = pc, !.key = k, !.verdict = d]
Found(u, pc, w) == [u EXCEPT !.pc = pc, !.wf = w]
Resumed(u, pc, w, f) == [u EXCEPT !.pc = pc, !.wf = w, !.fresh = f]
Taken(u, pc, w, f, c) == [u EXCEPT !.pc = pc, !.wf = w, !.fresh = f, !.chapter = c]
Started(u, pc, w, f, c, p) ==
    [u EXCEPT !.pc = pc, !.wf = w, !.fresh = f, !.chapter = c, !.tasks = p]

LEMMA ThreadGoes ==
    ASSUME NEW u, ThreadRow(u), NEW pc \in Pcs, N \in Nat
    PROVE  LET v == Gone(u, pc) IN
           /\ ThreadRow(v) /\ v.pc = pc
           /\ Same(u, v)
<1> DEFINE v == Gone(u, pc)
<1>1. v = [pc |-> pc, chapter |-> u.chapter, wf |-> u.wf, tasks |-> u.tasks,
           fresh |-> u.fresh, snapshot |-> u.snapshot, again |-> u.again,
           key |-> u.key, verdict |-> u.verdict, error |-> u.error]
    BY DEF ThreadRow, Gone
<1> HIDE DEF v
<1>2. /\ ThreadRow(v) /\ v.pc = pc
      /\ Same(u, v)
    BY <1>1 DEF ThreadRow, Same, Chapters
<1>3. QED BY <1>2 DEF v

LEMMA ThreadRaises ==
    ASSUME NEW u, ThreadRow(u), NEW pc \in Pcs, NEW e, N \in Nat
    PROVE  LET v == Raised(u, pc, e) IN
           /\ ThreadRow(v) /\ v.pc = pc
           /\ Same(u, v)
<1> DEFINE t == Gone(u, pc)
           v == Raised(u, pc, e)
<1>1. /\ ThreadRow(t) /\ t.pc = pc
      /\ Same(u, t)
    BY ThreadGoes
<1>2. v = [t EXCEPT !.error = e]
    BY Zenon DEF Gone, Raised
<1> HIDE DEF t, v
<1>3. v = [pc |-> t.pc, chapter |-> t.chapter, wf |-> t.wf, tasks |-> t.tasks,
           fresh |-> t.fresh, snapshot |-> t.snapshot, again |-> t.again,
           key |-> t.key, verdict |-> t.verdict, error |-> e]
    BY <1>1, <1>2 DEF ThreadRow
<1>4. /\ ThreadRow(v) /\ v.pc = pc
      /\ Same(u, v)
    BY <1>1, <1>3 DEF ThreadRow, Same, Chapters
<1>5. QED BY <1>4 DEF v

LEMMA ThreadTakes ==
    ASSUME NEW u, ThreadRow(u), NEW pc \in Pcs, NEW c \in Chapters, N \in Nat
    PROVE  LET v == Took(u, pc, c) IN
           /\ ThreadRow(v) /\ v.pc = pc /\ v.chapter = c
           /\ v.wf = u.wf /\ v.tasks = u.tasks /\ v.snapshot = u.snapshot
<1> DEFINE t == Gone(u, pc)
           v == Took(u, pc, c)
<1>1. /\ ThreadRow(t) /\ t.pc = pc
      /\ Same(u, t)
    BY ThreadGoes
<1>2. v = [t EXCEPT !.chapter = c]
    BY Zenon DEF Gone, Took
<1> HIDE DEF t, v
<1>3. v = [pc |-> t.pc, chapter |-> c, wf |-> t.wf, tasks |-> t.tasks,
           fresh |-> t.fresh, snapshot |-> t.snapshot, again |-> t.again,
           key |-> t.key, verdict |-> t.verdict, error |-> t.error]
    BY <1>1, <1>2 DEF ThreadRow
<1>4. /\ ThreadRow(v) /\ v.pc = pc /\ v.chapter = c
      /\ v.wf = u.wf /\ v.tasks = u.tasks /\ v.snapshot = u.snapshot
    BY <1>1, <1>3 DEF ThreadRow, Same, Chapters
<1>5. QED BY <1>4 DEF v

LEMMA ThreadPlans ==
    ASSUME NEW u, ThreadRow(u), NEW pc \in Pcs, NEW p \in Seq(Chapters), N \in Nat
    PROVE  LET v == Planned(u, pc, p) IN
           /\ ThreadRow(v) /\ v.pc = pc /\ v.tasks = p
           /\ v.chapter = u.chapter /\ v.wf = u.wf /\ v.snapshot = u.snapshot
<1> DEFINE t == Gone(u, pc)
           v == Planned(u, pc, p)
<1>1. /\ ThreadRow(t) /\ t.pc = pc
      /\ Same(u, t)
    BY ThreadGoes
<1>2. v = [t EXCEPT !.tasks = p]
    BY Zenon DEF Gone, Planned
<1> HIDE DEF t, v
<1>3. v = [pc |-> t.pc, chapter |-> t.chapter, wf |-> t.wf, tasks |-> p,
           fresh |-> t.fresh, snapshot |-> t.snapshot, again |-> t.again,
           key |-> t.key, verdict |-> t.verdict, error |-> t.error]
    BY <1>1, <1>2 DEF ThreadRow
<1>4. /\ ThreadRow(v) /\ v.pc = pc /\ v.tasks = p
      /\ v.chapter = u.chapter /\ v.wf = u.wf /\ v.snapshot = u.snapshot
    BY <1>1, <1>3 DEF ThreadRow, Same, Chapters
<1>5. QED BY <1>4 DEF v

LEMMA ThreadFreezes ==
    ASSUME NEW u, ThreadRow(u), NEW pc \in Pcs, NEW s, N \in Nat
    PROVE  LET v == Frozen(u, pc, s) IN
           /\ ThreadRow(v) /\ v.pc = pc /\ v.snapshot = s
           /\ v.chapter = u.chapter /\ v.wf = u.wf /\ v.tasks = u.tasks
<1> DEFINE t == Gone(u, pc)
           v == Frozen(u, pc, s)
<1>1. /\ ThreadRow(t) /\ t.pc = pc
      /\ Same(u, t)
    BY ThreadGoes
<1>2. v = [t EXCEPT !.snapshot = s]
    BY Zenon DEF Gone, Frozen
<1> HIDE DEF t, v
<1>3. v = [pc |-> t.pc, chapter |-> t.chapter, wf |-> t.wf, tasks |-> t.tasks,
           fresh |-> t.fresh, snapshot |-> s, again |-> t.again,
           key |-> t.key, verdict |-> t.verdict, error |-> t.error]
    BY <1>1, <1>2 DEF ThreadRow
<1>4. /\ ThreadRow(v) /\ v.pc = pc /\ v.snapshot = s
      /\ v.chapter = u.chapter /\ v.wf = u.wf /\ v.tasks = u.tasks
    BY <1>1, <1>3 DEF ThreadRow, Same, Chapters
<1>5. QED BY <1>4 DEF v

LEMMA ThreadRepeats ==
    ASSUME NEW u, ThreadRow(u), NEW pc \in Pcs, NEW a, N \in Nat
    PROVE  LET v == Repeated(u, pc, a) IN
           /\ ThreadRow(v) /\ v.pc = pc
           /\ Same(u, v)
<1> DEFINE t == Gone(u, pc)
           v == Repeated(u, pc, a)
<1>1. /\ ThreadRow(t) /\ t.pc = pc
      /\ Same(u, t)
    BY ThreadGoes
<1>2. v = [t EXCEPT !.again = a]
    BY Zenon DEF Gone, Repeated
<1> HIDE DEF t, v
<1>3. v = [pc |-> t.pc, chapter |-> t.chapter, wf |-> t.wf, tasks |-> t.tasks,
           fresh |-> t.fresh, snapshot |-> t.snapshot, again |-> a,
           key |-> t.key, verdict |-> t.verdict, error |-> t.error]
    BY <1>1, <1>2 DEF ThreadRow
<1>4. /\ ThreadRow(v) /\ v.pc = pc
      /\ Same(u, v)
    BY <1>1, <1>3 DEF ThreadRow, Same, Chapters
<1>5. QED BY <1>4 DEF v

LEMMA ThreadAsks ==
    ASSUME NEW u, ThreadRow(u), NEW pc \in Pcs, NEW k, N \in Nat
    PROVE  LET v == Asked(u, pc, k) IN
           /\ ThreadRow(v) /\ v.pc = pc
           /\ Same(u, v)
<1> DEFINE t == Gone(u, pc)
           v == Asked(u, pc, k)
<1>1. /\ ThreadRow(t) /\ t.pc = pc
      /\ Same(u, t)
    BY ThreadGoes
<1>2. v = [t EXCEPT !.key = k]
    BY Zenon DEF Gone, Asked
<1> HIDE DEF t, v
<1>3. v = [pc |-> t.pc, chapter |-> t.chapter, wf |-> t.wf, tasks |-> t.tasks,
           fresh |-> t.fresh, snapshot |-> t.snapshot, again |-> t.again,
           key |-> k, verdict |-> t.verdict, error |-> t.error]
    BY <1>1, <1>2 DEF ThreadRow
<1>4. /\ ThreadRow(v) /\ v.pc = pc
      /\ Same(u, v)
    BY <1>1, <1>3 DEF ThreadRow, Same, Chapters
<1>5. QED BY <1>4 DEF v

LEMMA ThreadJudges ==
    ASSUME NEW u, ThreadRow(u), NEW pc \in Pcs, NEW k, NEW d \in Verdicts, N \in Nat
    PROVE  LET v == Judged(u, pc, k, d) IN
           /\ ThreadRow(v) /\ v.pc = pc
           /\ Same(u, v)
<1> DEFINE t == Asked(u, pc, k)
           v == Judged(u, pc, k, d)
<1>1. /\ ThreadRow(t) /\ t.pc = pc
      /\ Same(u, t)
    BY ThreadAsks
<1>2. v = [t EXCEPT !.verdict = d]
    BY Zenon DEF Asked, Judged
<1> HIDE DEF t, v
<1>3. v = [pc |-> t.pc, chapter |-> t.chapter, wf |-> t.wf, tasks |-> t.tasks,
           fresh |-> t.fresh, snapshot |-> t.snapshot, again |-> t.again,
           key |-> t.key, verdict |-> d, error |-> t.error]
    BY <1>1, <1>2 DEF ThreadRow
<1>4. /\ ThreadRow(v) /\ v.pc = pc
      /\ Same(u, v)
    BY <1>1, <1>3 DEF ThreadRow, Same, Chapters
<1>5. QED BY <1>4 DEF v

LEMMA ThreadFinds ==
    ASSUME NEW u, ThreadRow(u), NEW pc \in Pcs, NEW w, N \in Nat
    PROVE  LET v == Found(u, pc, w) IN
           /\ ThreadRow(v) /\ v.pc = pc /\ v.wf = w
           /\ v.chapter = u.chapter /\ v.tasks = u.tasks /\ v.snapshot = u.snapshot
<1> DEFINE t == Gone(u, pc)
           v == Found(u, pc, w)
<1>1. /\ ThreadRow(t) /\ t.pc = pc
      /\ Same(u, t)
    BY ThreadGoes
<1>2. v = [t EXCEPT !.wf = w]
    BY Zenon DEF Gone, Found
<1> HIDE DEF t, v
<1>3. v = [pc |-> t.pc, chapter |-> t.chapter, wf |-> w, tasks |-> t.tasks,
           fresh |-> t.fresh, snapshot |-> t.snapshot, again |-> t.again,
           key |-> t.key, verdict |-> t.verdict, error |-> t.error]
    BY <1>1, <1>2 DEF ThreadRow
<1>4. /\ ThreadRow(v) /\ v.pc = pc /\ v.wf = w
      /\ v.chapter = u.chapter /\ v.tasks = u.tasks /\ v.snapshot = u.snapshot
    BY <1>1, <1>3 DEF ThreadRow, Same, Chapters
<1>5. QED BY <1>4 DEF v

LEMMA ThreadResumes ==
    ASSUME NEW u, ThreadRow(u), NEW pc \in Pcs, NEW w, NEW f, N \in Nat
    PROVE  LET v == Resumed(u, pc, w, f) IN
           /\ ThreadRow(v) /\ v.pc = pc /\ v.wf = w
           /\ v.chapter = u.chapter /\ v.tasks = u.tasks /\ v.snapshot = u.snapshot
<1> DEFINE t == Found(u, pc, w)
           v == Resumed(u, pc, w, f)
<1>1. /\ ThreadRow(t) /\ t.pc = pc /\ t.wf = w
      /\ t.chapter = u.chapter /\ t.tasks = u.tasks /\ t.snapshot = u.snapshot
    BY ThreadFinds
<1>2. v = [t EXCEPT !.fresh = f]
    BY Zenon DEF Found, Resumed
<1> HIDE DEF t, v
<1>3. v = [pc |-> t.pc, chapter |-> t.chapter, wf |-> t.wf, tasks |-> t.tasks,
           fresh |-> f, snapshot |-> t.snapshot, again |-> t.again,
           key |-> t.key, verdict |-> t.verdict, error |-> t.error]
    BY <1>1, <1>2 DEF ThreadRow
<1>4. /\ ThreadRow(v) /\ v.pc = pc /\ v.wf = w
      /\ v.chapter = u.chapter /\ v.tasks = u.tasks /\ v.snapshot = u.snapshot
    BY <1>1, <1>3 DEF ThreadRow, Same, Chapters
<1>5. QED BY <1>4 DEF v

LEMMA ThreadIsTaken ==
    ASSUME NEW u, ThreadRow(u), NEW pc \in Pcs, NEW w, NEW f, NEW c \in Chapters, N \in Nat
    PROVE  LET v == Taken(u, pc, w, f, c) IN
           /\ ThreadRow(v) /\ v.pc = pc /\ v.wf = w /\ v.chapter = c
           /\ v.tasks = u.tasks /\ v.snapshot = u.snapshot
<1> DEFINE t == Resumed(u, pc, w, f)
           v == Taken(u, pc, w, f, c)
<1>1. /\ ThreadRow(t) /\ t.pc = pc /\ t.wf = w
      /\ t.chapter = u.chapter /\ t.tasks = u.tasks /\ t.snapshot = u.snapshot
    BY ThreadResumes
<1>2. v = [t EXCEPT !.chapter = c]
    BY Zenon DEF Resumed, Taken
<1> HIDE DEF t, v
<1>3. v = [pc |-> t.pc, chapter |-> c, wf |-> t.wf, tasks |-> t.tasks,
           fresh |-> t.fresh, snapshot |-> t.snapshot, again |-> t.again,
           key |-> t.key, verdict |-> t.verdict, error |-> t.error]
    BY <1>1, <1>2 DEF ThreadRow
<1>4. /\ ThreadRow(v) /\ v.pc = pc /\ v.wf = w /\ v.chapter = c
      /\ v.tasks = u.tasks /\ v.snapshot = u.snapshot
    BY <1>1, <1>3 DEF ThreadRow, Same, Chapters
<1>5. QED BY <1>4 DEF v

LEMMA ThreadStarts ==
    ASSUME NEW u, ThreadRow(u), NEW pc \in Pcs, NEW w, NEW f, NEW c \in Chapters,
           NEW p \in Seq(Chapters), N \in Nat
    PROVE  LET v == Started(u, pc, w, f, c, p) IN
           /\ ThreadRow(v) /\ v.pc = pc /\ v.wf = w /\ v.chapter = c /\ v.tasks = p
           /\ v.snapshot = u.snapshot
<1> DEFINE t == Taken(u, pc, w, f, c)
           v == Started(u, pc, w, f, c, p)
<1>1. /\ ThreadRow(t) /\ t.pc = pc /\ t.wf = w /\ t.chapter = c
      /\ t.tasks = u.tasks /\ t.snapshot = u.snapshot
    BY ThreadIsTaken
<1>2. v = [t EXCEPT !.tasks = p]
    BY Zenon DEF Taken, Started
<1> HIDE DEF t, v
<1>3. v = [pc |-> t.pc, chapter |-> t.chapter, wf |-> t.wf, tasks |-> p,
           fresh |-> t.fresh, snapshot |-> t.snapshot, again |-> t.again,
           key |-> t.key, verdict |-> t.verdict, error |-> t.error]
    BY <1>1, <1>2 DEF ThreadRow
<1>4. /\ ThreadRow(v) /\ v.pc = pc /\ v.wf = w /\ v.chapter = c /\ v.tasks = p
      /\ v.snapshot = u.snapshot
    BY <1>1, <1>3 DEF ThreadRow, Same, Chapters
<1>5. QED BY <1>4 DEF v

LEMMA ThreadIdles ==
    ASSUME N \in Nat
    PROVE  ThreadRow(IdleThread) /\ IdleThread.pc = "idle"
BY EmptySeq DEF ThreadRow, IdleThread, Pcs, FreePcs, HaltPcs

SameRun(r, v) ==
    /\ v.current = r.current /\ v.wf = r.wf /\ v.map = r.map /\ v.snapshot = r.snapshot

Turned(r, s) == [r EXCEPT !.status = s]
Mapped(r, m) == [r EXCEPT !.map = m]
Located(r, m, k) == [r EXCEPT !.map = m, !.current = k]
Bound(r, w) == [r EXCEPT !.wf = w]
Remapped(r, w, m) == [r EXCEPT !.wf = w, !.map = m]
Charged(r, n) == [r EXCEPT !.calls = n]
Pointed(r, p) == [r EXCEPT !.snapshot = p]
Snapped(r, p, b) == [r EXCEPT !.snapshot = p, !.best = b]
Closed(r, s, p) == [r EXCEPT !.status = s, !.snapshot = p]
Concluded(r, s, p, b) == [r EXCEPT !.status = s, !.snapshot = p, !.best = b]
Rounded(r, s, n) == [r EXCEPT !.status = s, !.round = n]
Resized(r, s, n) == [r EXCEPT !.status = s, !.limit = n]

LEMMA RunTurns ==
    ASSUME NEW r, RunRow(r), NEW s \in Statuses, N \in Nat
    PROVE  LET v == Turned(r, s) IN
           /\ RunRow(v) /\ v.status = s
           /\ SameRun(r, v)
<1> DEFINE v == Turned(r, s)
<1>1. v = [status |-> s, current |-> r.current, wf |-> r.wf, map |-> r.map,
           calls |-> r.calls, limit |-> r.limit, round |-> r.round,
           snapshot |-> r.snapshot, best |-> r.best]
    BY DEF RunRow, Turned
<1> HIDE DEF v
<1>2. /\ RunRow(v) /\ v.status = s
      /\ SameRun(r, v)
    BY <1>1 DEF RunRow, SameRun
<1>3. QED BY <1>2 DEF v

LEMMA RunIsMapped ==
    ASSUME NEW r, RunRow(r), NEW m \in [Chapters -> Marks], N \in Nat
    PROVE  LET v == Mapped(r, m) IN
           /\ RunRow(v) /\ v.map = m /\ v.status = r.status
           /\ v.current = r.current /\ v.wf = r.wf /\ v.snapshot = r.snapshot
<1> DEFINE v == Mapped(r, m)
<1>1. v = [status |-> r.status, current |-> r.current, wf |-> r.wf, map |-> m,
           calls |-> r.calls, limit |-> r.limit, round |-> r.round,
           snapshot |-> r.snapshot, best |-> r.best]
    BY DEF RunRow, Mapped
<1> HIDE DEF v
<1>2. /\ RunRow(v) /\ v.map = m /\ v.status = r.status
      /\ v.current = r.current /\ v.wf = r.wf /\ v.snapshot = r.snapshot
    BY <1>1 DEF RunRow, SameRun
<1>3. QED BY <1>2 DEF v

LEMMA RunIsLocated ==
    ASSUME NEW r, RunRow(r), NEW m \in [Chapters -> Marks], NEW k \in 0..N, N \in Nat
    PROVE  LET v == Located(r, m, k) IN
           /\ RunRow(v) /\ v.map = m /\ v.current = k /\ v.status = r.status
           /\ v.wf = r.wf /\ v.snapshot = r.snapshot
<1> DEFINE q == Mapped(r, m)
           v == Located(r, m, k)
<1>1. /\ RunRow(q) /\ q.map = m /\ q.status = r.status
      /\ q.current = r.current /\ q.wf = r.wf /\ q.snapshot = r.snapshot
    BY RunIsMapped
<1>2. v = [q EXCEPT !.current = k]
    BY Zenon DEF Mapped, Located
<1> HIDE DEF q, v
<1>3. v = [status |-> q.status, current |-> k, wf |-> q.wf, map |-> q.map,
           calls |-> q.calls, limit |-> q.limit, round |-> q.round,
           snapshot |-> q.snapshot, best |-> q.best]
    BY <1>1, <1>2 DEF RunRow
<1>4. /\ RunRow(v) /\ v.map = m /\ v.current = k /\ v.status = r.status
      /\ v.wf = r.wf /\ v.snapshot = r.snapshot
    BY <1>1, <1>3 DEF RunRow, SameRun
<1>5. QED BY <1>4 DEF v

LEMMA RunBinds ==
    ASSUME NEW r, RunRow(r), NEW w, N \in Nat
    PROVE  LET v == Bound(r, w) IN
           /\ RunRow(v) /\ v.wf = w /\ v.status = r.status
           /\ v.current = r.current /\ v.map = r.map /\ v.snapshot = r.snapshot
<1> DEFINE v == Bound(r, w)
<1>1. v = [status |-> r.status, current |-> r.current, wf |-> w, map |-> r.map,
           calls |-> r.calls, limit |-> r.limit, round |-> r.round,
           snapshot |-> r.snapshot, best |-> r.best]
    BY DEF RunRow, Bound
<1> HIDE DEF v
<1>2. /\ RunRow(v) /\ v.wf = w /\ v.status = r.status
      /\ v.current = r.current /\ v.map = r.map /\ v.snapshot = r.snapshot
    BY <1>1 DEF RunRow, SameRun
<1>3. QED BY <1>2 DEF v

LEMMA RunIsRecorded ==
    ASSUME NEW r, RunRow(r), NEW w, NEW m \in [Chapters -> Marks], N \in Nat
    PROVE  LET v == Remapped(r, w, m) IN
           /\ RunRow(v) /\ v.wf = w /\ v.map = m /\ v.status = r.status
           /\ v.current = r.current /\ v.snapshot = r.snapshot
<1> DEFINE q == Bound(r, w)
           v == Remapped(r, w, m)
<1>1. /\ RunRow(q) /\ q.wf = w /\ q.status = r.status
      /\ q.current = r.current /\ q.map = r.map /\ q.snapshot = r.snapshot
    BY RunBinds
<1>2. v = [q EXCEPT !.map = m]
    BY Zenon DEF Bound, Remapped
<1> HIDE DEF q, v
<1>3. v = [status |-> q.status, current |-> q.current, wf |-> q.wf, map |-> m,
           calls |-> q.calls, limit |-> q.limit, round |-> q.round,
           snapshot |-> q.snapshot, best |-> q.best]
    BY <1>1, <1>2 DEF RunRow
<1>4. /\ RunRow(v) /\ v.wf = w /\ v.map = m /\ v.status = r.status
      /\ v.current = r.current /\ v.snapshot = r.snapshot
    BY <1>1, <1>3 DEF RunRow, SameRun
<1>5. QED BY <1>4 DEF v

LEMMA RunIsCharged ==
    ASSUME NEW r, RunRow(r), NEW n, N \in Nat
    PROVE  LET v == Charged(r, n) IN
           /\ RunRow(v) /\ v.status = r.status
           /\ SameRun(r, v)
<1> DEFINE v == Charged(r, n)
<1>1. v = [status |-> r.status, current |-> r.current, wf |-> r.wf, map |-> r.map,
           calls |-> n, limit |-> r.limit, round |-> r.round,
           snapshot |-> r.snapshot, best |-> r.best]
    BY DEF RunRow, Charged
<1> HIDE DEF v
<1>2. /\ RunRow(v) /\ v.status = r.status
      /\ SameRun(r, v)
    BY <1>1 DEF RunRow, SameRun
<1>3. QED BY <1>2 DEF v

LEMMA RunPoints ==
    ASSUME NEW r, RunRow(r), NEW p, N \in Nat
    PROVE  LET v == Pointed(r, p) IN
           /\ RunRow(v) /\ v.snapshot = p /\ v.status = r.status
           /\ v.current = r.current /\ v.wf = r.wf /\ v.map = r.map
<1> DEFINE v == Pointed(r, p)
<1>1. v = [status |-> r.status, current |-> r.current, wf |-> r.wf, map |-> r.map,
           calls |-> r.calls, limit |-> r.limit, round |-> r.round,
           snapshot |-> p, best |-> r.best]
    BY DEF RunRow, Pointed
<1> HIDE DEF v
<1>2. /\ RunRow(v) /\ v.snapshot = p /\ v.status = r.status
      /\ v.current = r.current /\ v.wf = r.wf /\ v.map = r.map
    BY <1>1 DEF RunRow, SameRun
<1>3. QED BY <1>2 DEF v

LEMMA RunSnaps ==
    ASSUME NEW r, RunRow(r), NEW p, NEW b, N \in Nat
    PROVE  LET v == Snapped(r, p, b) IN
           /\ RunRow(v) /\ v.snapshot = p /\ v.status = r.status
           /\ v.current = r.current /\ v.wf = r.wf /\ v.map = r.map
<1> DEFINE q == Pointed(r, p)
           v == Snapped(r, p, b)
<1>1. /\ RunRow(q) /\ q.snapshot = p /\ q.status = r.status
      /\ q.current = r.current /\ q.wf = r.wf /\ q.map = r.map
    BY RunPoints
<1>2. v = [q EXCEPT !.best = b]
    BY Zenon DEF Pointed, Snapped
<1> HIDE DEF q, v
<1>3. v = [status |-> q.status, current |-> q.current, wf |-> q.wf, map |-> q.map,
           calls |-> q.calls, limit |-> q.limit, round |-> q.round,
           snapshot |-> q.snapshot, best |-> b]
    BY <1>1, <1>2 DEF RunRow
<1>4. /\ RunRow(v) /\ v.snapshot = p /\ v.status = r.status
      /\ v.current = r.current /\ v.wf = r.wf /\ v.map = r.map
    BY <1>1, <1>3 DEF RunRow, SameRun
<1>5. QED BY <1>4 DEF v

LEMMA RunCloses ==
    ASSUME NEW r, RunRow(r), NEW s \in Statuses, NEW p, N \in Nat
    PROVE  LET v == Closed(r, s, p) IN
           /\ RunRow(v) /\ v.status = s /\ v.snapshot = p
           /\ v.current = r.current /\ v.wf = r.wf /\ v.map = r.map
<1> DEFINE q == Turned(r, s)
           v == Closed(r, s, p)
<1>1. /\ RunRow(q) /\ q.status = s
      /\ SameRun(r, q)
    BY RunTurns
<1>2. v = [q EXCEPT !.snapshot = p]
    BY Zenon DEF Turned, Closed
<1> HIDE DEF q, v
<1>3. v = [status |-> q.status, current |-> q.current, wf |-> q.wf, map |-> q.map,
           calls |-> q.calls, limit |-> q.limit, round |-> q.round,
           snapshot |-> p, best |-> q.best]
    BY <1>1, <1>2 DEF RunRow
<1>4. /\ RunRow(v) /\ v.status = s /\ v.snapshot = p
      /\ v.current = r.current /\ v.wf = r.wf /\ v.map = r.map
    BY <1>1, <1>3 DEF RunRow, SameRun
<1>5. QED BY <1>4 DEF v

LEMMA RunConcludes ==
    ASSUME NEW r, RunRow(r), NEW s \in Statuses, NEW p, NEW b, N \in Nat
    PROVE  LET v == Concluded(r, s, p, b) IN
           /\ RunRow(v) /\ v.status = s /\ v.snapshot = p
           /\ v.current = r.current /\ v.wf = r.wf /\ v.map = r.map
<1> DEFINE q == Closed(r, s, p)
           v == Concluded(r, s, p, b)
<1>1. /\ RunRow(q) /\ q.status = s /\ q.snapshot = p
      /\ q.current = r.current /\ q.wf = r.wf /\ q.map = r.map
    BY RunCloses
<1>2. v = [q EXCEPT !.best = b]
    BY Zenon DEF Closed, Concluded
<1> HIDE DEF q, v
<1>3. v = [status |-> q.status, current |-> q.current, wf |-> q.wf, map |-> q.map,
           calls |-> q.calls, limit |-> q.limit, round |-> q.round,
           snapshot |-> q.snapshot, best |-> b]
    BY <1>1, <1>2 DEF RunRow
<1>4. /\ RunRow(v) /\ v.status = s /\ v.snapshot = p
      /\ v.current = r.current /\ v.wf = r.wf /\ v.map = r.map
    BY <1>1, <1>3 DEF RunRow, SameRun
<1>5. QED BY <1>4 DEF v

LEMMA RunTurnsAgain ==
    ASSUME NEW r, RunRow(r), NEW s \in Statuses, NEW n, N \in Nat
    PROVE  LET v == Rounded(r, s, n) IN
           /\ RunRow(v) /\ v.status = s
           /\ SameRun(r, v)
<1> DEFINE q == Turned(r, s)
           v == Rounded(r, s, n)
<1>1. /\ RunRow(q) /\ q.status = s
      /\ SameRun(r, q)
    BY RunTurns
<1>2. v = [q EXCEPT !.round = n]
    BY Zenon DEF Turned, Rounded
<1> HIDE DEF q, v
<1>3. v = [status |-> q.status, current |-> q.current, wf |-> q.wf, map |-> q.map,
           calls |-> q.calls, limit |-> q.limit, round |-> n,
           snapshot |-> q.snapshot, best |-> q.best]
    BY <1>1, <1>2 DEF RunRow
<1>4. /\ RunRow(v) /\ v.status = s
      /\ SameRun(r, v)
    BY <1>1, <1>3 DEF RunRow, SameRun
<1>5. QED BY <1>4 DEF v

LEMMA RunIsResized ==
    ASSUME NEW r, RunRow(r), NEW s \in Statuses, NEW n, N \in Nat
    PROVE  LET v == Resized(r, s, n) IN
           /\ RunRow(v) /\ v.status = s
           /\ SameRun(r, v)
<1> DEFINE q == Turned(r, s)
           v == Resized(r, s, n)
<1>1. /\ RunRow(q) /\ q.status = s
      /\ SameRun(r, q)
    BY RunTurns
<1>2. v = [q EXCEPT !.limit = n]
    BY Zenon DEF Turned, Resized
<1> HIDE DEF q, v
<1>3. v = [status |-> q.status, current |-> q.current, wf |-> q.wf, map |-> q.map,
           calls |-> q.calls, limit |-> n, round |-> q.round,
           snapshot |-> q.snapshot, best |-> q.best]
    BY <1>1, <1>2 DEF RunRow
<1>4. /\ RunRow(v) /\ v.status = s
      /\ SameRun(r, v)
    BY <1>1, <1>3 DEF RunRow, SameRun
<1>5. QED BY <1>4 DEF v

-----------------------------------------------------------------------------
(***************************************************************************)
(* The steps, by what they do to the rows.  Most of them are quiet: they   *)
(* begin and record no chapter, promote no version and complete no book.   *)
(***************************************************************************)

RunStays ==
    /\ RunRow(run') /\ SameRun(run, run')
    /\ run.status \in Terminal => run'.status = run.status
    /\ run'.status = "completed" => run.status = "completed"
JobStays ==
    /\ JobRow(job')
    /\ thread.pc = "idle" /\ job.status = "failed" => job'.status = "failed"
WorkflowsStay ==
    /\ workflows' \in Seq(WorkflowRows) /\ Len(workflows') = Len(workflows)
    /\ \A w \in DOMAIN workflows :
          /\ workflows'[w].chapter = workflows[w].chapter
          /\ workflows'[w].operation = workflows[w].operation
          /\ \/ workflows'[w].status = workflows[w].status
             \/ workflows[w].status \in Live /\ workflows'[w].status # "completed"
SnapshotsStay ==
    /\ snapshots' \in Seq(SnapshotRows) /\ Len(snapshots') = Len(snapshots)
    /\ \A s \in DOMAIN snapshots : snapshots'[s].map = snapshots[s].map
    /\ run.status = "completed" => snapshots' = snapshots
RowsStay ==
    /\ RunStays /\ JobStays /\ WorkflowsStay /\ SnapshotsStay
    /\ accepted' = accepted
    /\ crashes' = crashes \/ crashes' = crashes + 1
    /\ faults' = faults \/ faults' = faults + 1

Way(from, to) == thread.pc = from /\ thread'.pc = to

\* Places that only an error of the database leaves for mark_failed.
HeldPcs == {"idle", "work", "record", "failing", "job_fail"}

\* The thread goes where it needs nothing but the rows; a run that refers to
\* a workflow stays halted or open.
Leaves ==
    /\ thread'.pc \in FreePcs
    /\ thread'.pc \in HaltPcs \/ run.status # "completed"
    /\ \/ crashes' = crashes + 1
       \/ thread'.pc = "job_fail"
       \/ thread'.pc = "failing"
          /\ (faults' = faults + 1 \/ thread.pc \notin HeldPcs)
       \/ thread.pc \notin {"idle", "enter", "initialize", "schedule", "control", "mark",
                            "start", "work", "record", "pausing", "cancelling", "failing",
                            "job_fail", "job_retry", "job_pause", "job_cancel"}
       \/ Way("idle", "enter") /\ job.status # "failed"
       \/ Way("enter", "initialize") \/ Way("enter", "job_pause")
       \/ Way("enter", "job_cancel") \/ Way("enter", "job_retry")
       \/ Way("initialize", "schedule") /\ run.status \notin Terminal
       \/ Way("control", "pausing") \/ Way("control", "cancelling")
       \/ Way("pausing", "job_pause") \/ Way("cancelling", "job_cancel")
       \/ Way("pausing", "job_retry") \/ Way("cancelling", "job_retry")
       \/ Way("failing", "job_retry")
          /\ (run'.status \in Terminal \/ faults' = faults + 1)
       \/ Way("job_pause", "idle") \/ Way("job_cancel", "idle") \/ Way("job_retry", "idle")
       \/ Way("job_fail", "idle") /\ job'.status = "failed"

\* The thread goes on with what it holds.
GoesOn ==
    /\ thread'.chapter = thread.chapter /\ thread'.wf = thread.wf
    /\ thread'.snapshot = thread.snapshot
    /\ \/ Way("gate", "control") \/ Way("control", "mark")
       \/ Way("usage", "revise") /\ ~Generates(thread.wf)
       \/ Way("review_control", "review") \/ Way("review", "snapshot")
       \/ Way("analysis_control", "analyze") \/ Way("analyze", "persist")
       \/ Way("persist", "accept") \/ Way("persist", "handle") \/ Way("persist", "retain")
       \/ Way("accept", "complete") /\ snapshots'[thread.snapshot].status = "accepted"
       \/ Way("handle", "plan") \/ Way("handle", "retain")
       \/ Way("plan", "revise") \/ Way("revise", "snapshot")

Moves ==
    /\ ThreadRow(thread')
    /\ (UNCHANGED <<thread, snapshots>>) \/ Leaves \/ GoesOn

Quiet == RowsStay /\ Moves

LEMMA RunRests ==
    ASSUME RowType, run' = run
    PROVE  RunStays
BY DEF RowType, RunStays, SameRun
LEMMA JobRests ==
    ASSUME RowType, job' = job
    PROVE  JobStays
BY DEF RowType, JobStays
LEMMA WorkflowsRest ==
    ASSUME RowType, workflows' = workflows
    PROVE  WorkflowsStay
BY DEF RowType, WorkflowsStay
LEMMA SnapshotsRest ==
    ASSUME RowType, snapshots' = snapshots
    PROVE  SnapshotsStay
BY DEF RowType, SnapshotsStay

LEMMA WorkflowIsRow ==
    ASSUME RowType, NEW w \in DOMAIN workflows
    PROVE  /\ workflows[w] \in WorkflowRows /\ workflows[w].chapter \in Chapters
           /\ workflows[w].operation \in {"generate", "targeted_revision"}
           /\ workflows[w].status \in WorkflowStatuses
<1>1. workflows[w] \in WorkflowRows
    BY DEF RowType
<1>2. QED BY <1>1 DEF WorkflowRows

\* The workflows after one of them is restated, ends, is recorded or begins.
OneTurns(w, t) ==
    /\ workflows' \in Seq(WorkflowRows) /\ Len(workflows') = Len(workflows)
    /\ DOMAIN workflows' = DOMAIN workflows
    /\ \A v \in DOMAIN workflows :
          /\ workflows'[v].chapter = workflows[v].chapter
          /\ workflows'[v].operation = workflows[v].operation
          /\ workflows'[v].status = IF v = w THEN t ELSE workflows[v].status

LEMMA RowIsReplaced ==
    ASSUME RowType, NEW w \in DOMAIN workflows, NEW row \in WorkflowRows,
           workflows' = [workflows EXCEPT ![w] = row], row.chapter = workflows[w].chapter,
           row.operation = workflows[w].operation
    PROVE  OneTurns(w, row.status)
<1>1. workflows \in Seq(WorkflowRows)
    BY DEF RowType
<1>2. /\ workflows' \in Seq(WorkflowRows) /\ Len(workflows') = Len(workflows)
      /\ DOMAIN workflows' = DOMAIN workflows
      /\ \A v \in DOMAIN workflows : workflows'[v] = IF v = w THEN row ELSE workflows[v]
    BY <1>1
<1>3. QED BY <1>2, Zenon DEF OneTurns

LEMMA WorkflowTurns ==
    ASSUME RowType, NEW w \in DOMAIN workflows, NEW t \in WorkflowStatuses,
           workflows' = [workflows EXCEPT ![w].status = t]
    PROVE  OneTurns(w, t)
<1> DEFINE row == [workflows[w] EXCEPT !.status = t]
<1>1. workflows[w] \in WorkflowRows
    BY WorkflowIsRow
<1>2. /\ row \in WorkflowRows /\ row.chapter = workflows[w].chapter
      /\ row.operation = workflows[w].operation /\ row.status = t
    BY <1>1 DEF WorkflowRows
<1>3. workflows' = [workflows EXCEPT ![w] = row]
    OBVIOUS
<1> HIDE DEF row
<1>4. QED BY <1>2, <1>3, RowIsReplaced

LEMMA WorkflowIsRecorded ==
    ASSUME RowType, NEW w \in DOMAIN workflows,
           workflows' = [workflows EXCEPT ![w].recorded = TRUE]
    PROVE  OneTurns(w, workflows[w].status)
<1> DEFINE row == [workflows[w] EXCEPT !.recorded = TRUE]
<1>1. workflows[w] \in WorkflowRows
    BY WorkflowIsRow
<1>2. /\ row \in WorkflowRows /\ row.chapter = workflows[w].chapter
      /\ row.operation = workflows[w].operation /\ row.status = workflows[w].status
    BY <1>1 DEF WorkflowRows
<1>3. workflows' = [workflows EXCEPT ![w] = row]
    OBVIOUS
<1> HIDE DEF row
<1>4. QED BY <1>2, <1>3, RowIsReplaced

LEMMA WorkflowEnds ==
    ASSUME RowType, NEW w \in DOMAIN workflows, NEW t \in WorkflowStatuses, NEW use \in Nat,
           workflows' = [workflows EXCEPT ![w].status = t, ![w].used = @ + use]
    PROVE  OneTurns(w, t)
<1> DEFINE mid == [workflows EXCEPT ![w].status = t]
           p == [workflows[w] EXCEPT !.status = t]
           used == p.used + use
           q == [p EXCEPT !.used = used]
<1>1. workflows' = [mid EXCEPT ![w].used = @ + use]
    BY Zenon
<1>2. workflows[w] \in WorkflowRows /\ workflows \in Seq(WorkflowRows)
    BY WorkflowIsRow DEF RowType
<1>3. /\ p \in WorkflowRows /\ p.chapter = workflows[w].chapter
      /\ p.operation = workflows[w].operation /\ p.status = t /\ p.used \in Nat
    BY <1>2 DEF WorkflowRows
<1>4. mid = [workflows EXCEPT ![w] = p] /\ mid[w] = p /\ DOMAIN mid = DOMAIN workflows
    BY <1>2
<1> HIDE DEF mid, p
<1>5. workflows' = [mid EXCEPT ![w] = q]
    BY <1>1, <1>4
<1>6. used \in Nat
    BY <1>3
<1> HIDE DEF used
<1>7. /\ q \in WorkflowRows /\ q.chapter = p.chapter /\ q.operation = p.operation
      /\ q.status = p.status
    BY <1>3, <1>6 DEF WorkflowRows
<1> HIDE DEF q
<1>8. workflows' = [workflows EXCEPT ![w] = q]
    BY <1>4, <1>5, Zenon
<1>9. QED BY <1>3, <1>7, <1>8, RowIsReplaced

LEMMA WorkflowBegins ==
    ASSUME RowType, NEW row \in WorkflowRows, workflows' = Append(workflows, row)
    PROVE  LET w == Len(workflows) + 1 IN
           /\ w \in Nat /\ w # 0 /\ w \notin DOMAIN workflows
           /\ workflows' \in Seq(WorkflowRows) /\ Len(workflows') = w
           /\ DOMAIN workflows' = DOMAIN workflows \cup {w}
           /\ workflows'[w] = row
           /\ \A v \in DOMAIN workflows : workflows'[v] = workflows[v]
<1>1. workflows \in Seq(WorkflowRows)
    BY DEF RowType
<1>2. /\ Append(workflows, row) \in Seq(WorkflowRows)
      /\ Len(Append(workflows, row)) = Len(workflows) + 1
      /\ Len(workflows) + 1 \in Nat /\ Len(workflows) + 1 # 0
      /\ Len(workflows) + 1 \notin DOMAIN workflows
      /\ DOMAIN Append(workflows, row) = DOMAIN workflows \cup {Len(workflows) + 1}
      /\ Append(workflows, row)[Len(workflows) + 1] = row
      /\ \A i \in DOMAIN workflows : Append(workflows, row)[i] = workflows[i]
    BY SMTT(30), <1>1
<1>3. QED BY <1>2, Zenon

LEMMA TerminalStays ==
    ASSUME run.status \in Terminal, NEW t, CanGo(t)
    PROVE  t = run.status
BY DEF CanGo, Allowed, Terminal, Statuses

\* A transition of the run that does not complete it.
LEMMA RunTransitions ==
    ASSUME RowType, BookRunAssumption, NEW t \in Statuses \ {"completed"},
           run.status \in Terminal => t = run.status,
           run' = [run EXCEPT !.status = t]
    PROVE  RunStays /\ run'.status = t
<1>1. N \in Nat /\ RunRow(run)
    BY DEF BookRunAssumption, RowType
<1>2. run' = Turned(run, t)
    BY DEF Turned
<1>3. RunRow(run') /\ run'.status = t /\ SameRun(run, run')
    BY <1>1, <1>2, RunTurns
<1>4. QED BY <1>3 DEF RunStays

LEMMA JobTurns ==
    ASSUME RowType, NEW s, job' = [job EXCEPT !.status = s],
           thread.pc = "idle" /\ job.status = "failed" => s = "failed"
    PROVE  JobStays /\ job'.status = s
<1>1. JobRow(job)
    BY DEF RowType
<1>2. job' = [status |-> s, started |-> job.started, wf |-> job.wf, attempt |-> job.attempt,
              max |-> job.max]
    BY <1>1 DEF JobRow
<1>3. QED BY <1>2 DEF JobStays, JobRow

LEMMA PlaceChanges ==
    ASSUME RowType, BookRunAssumption, NEW pc \in Pcs, Goto(pc)
    PROVE  ThreadRow(thread') /\ thread'.pc = pc /\ Same(thread, thread')
<1>1. N \in Nat /\ ThreadRow(thread) /\ thread' = Gone(thread, pc)
    BY DEF BookRunAssumption, RowType, Goto, Gone
<1>2. QED BY <1>1, ThreadGoes

LEMMA ExceptionIsRaised ==
    ASSUME RowType, BookRunAssumption, Raise
    PROVE  ThreadRow(thread') /\ thread'.pc = "failing" /\ Same(thread, thread')
<1>1. N \in Nat /\ ThreadRow(thread) /\ thread' = Raised(thread, "failing", "fatal")
    BY Zenon DEF BookRunAssumption, RowType, Raise, Raised
<1>2. "failing" \in Pcs
    BY DEF Pcs, FreePcs, HaltPcs
<1>3. QED BY <1>1, <1>2, ThreadRaises

LEMMA RunAdvances ==
    ASSUME RowType, BookRunAssumption, NEW t \in Statuses \ {"completed"},
           NEW pc \in Pcs, Advance(t, pc)
    PROVE  /\ RunStays
           /\ ThreadRow(thread') /\ thread'.pc \in {pc, "failing"} /\ Same(thread, thread')
<1>1. CASE CanGo(t)
  <2>1. run' = [run EXCEPT !.status = t] /\ Goto(pc)
    BY <1>1 DEF Advance
  <2>2. run.status \in Terminal => t = run.status
    BY <1>1, TerminalStays
  <2>3. QED BY <2>1, <2>2, RunTransitions, PlaceChanges
<1>2. CASE ~CanGo(t)
  <2>1. run' = run /\ Raise
    BY <1>2 DEF Advance
  <2>2. QED BY <2>1, RunRests, ExceptionIsRaised
<1>3. QED BY <1>1, <1>2

LEMMA ThreadLeaves ==
    ASSUME RowType, BookRunAssumption, Leave
    PROVE  ThreadRow(thread') /\ thread'.pc = "idle"
BY ThreadIdles DEF Leave, BookRunAssumption

LEMMA QuietHandler ==
    ASSUME RowType, RunStays, Moves,
           UNCHANGED <<job, accepted, workflows, snapshots, bounds>>
    PROVE  Quiet
<1>1. /\ job' = job /\ accepted' = accepted /\ workflows' = workflows
      /\ snapshots' = snapshots /\ crashes' = crashes /\ faults' = faults
    BY DEF bounds
<1>2. QED BY <1>1, JobRests, WorkflowsRest, SnapshotsRest DEF Quiet, RowsStay

LEMMA Controlled ==
    ASSUME RowType, BookRunAssumption, NEW a \in Pcs, NEW b \in Pcs, NEW c \in Pcs,
           Control(a, b, c)
    PROVE  /\ RunStays /\ UNCHANGED <<job, accepted, workflows, snapshots, bounds>>
           /\ ThreadRow(thread') /\ thread'.pc \in {a, b, c} /\ Same(thread, thread')
<1>1. UNCHANGED <<rows, asked, user, bounds>>
    BY Zenon DEF Control
<1>2. \E pc \in {a, b, c} : Goto(pc)
    BY DEF Control
<1>3. ThreadRow(thread') /\ thread'.pc \in {a, b, c} /\ Same(thread, thread')
    BY <1>2, PlaceChanges
<1>4. QED BY <1>1, <1>3, RunRests DEF rows

LEMMA EnterIsQuiet ==
    ASSUME BookInv, BookRunAssumption, Enter
    PROVE  Quiet
<1>1. RowType /\ thread.pc = "enter" /\ Control("initialize", "job_pause", "job_cancel")
    BY DEF BookInv, Enter, At
<1>2. {"initialize", "job_pause", "job_cancel"} \subseteq HaltPcs /\ HaltPcs \subseteq Pcs
    BY DEF Pcs, FreePcs, HaltPcs
<1>3. /\ RunStays /\ UNCHANGED <<job, accepted, workflows, snapshots, bounds>>
      /\ ThreadRow(thread') /\ thread'.pc \in {"initialize", "job_pause", "job_cancel"}
    BY <1>1, <1>2, Controlled
<1>4. Leaves
    BY <1>1, <1>2, <1>3 DEF Leaves, HeldPcs, Way, FreePcs
<1>5. QED BY <1>1, <1>3, <1>4, QuietHandler DEF Moves

LEMMA ControlIsQuiet ==
    ASSUME BookInv, BookRunAssumption,
           ChapterControl \/ CheckControl \/ ReviewControl \/ AnalysisControl
    PROVE  Quiet
<1> DEFINE on == CASE thread.pc = "control" -> "mark"
                   [] thread.pc = "check_control" -> "check"
                   [] thread.pc = "review_control" -> "review"
                   [] OTHER -> "analyze"
<1>1. /\ RowType /\ Control(on, "pausing", "cancelling") /\ run.status # "completed"
      /\ \/ thread.pc = "control" /\ on = "mark"
         \/ thread.pc = "check_control" /\ on = "check"
         \/ thread.pc = "review_control" /\ on = "review"
         \/ thread.pc = "analysis_control" /\ on = "analyze"
  <2>1. RowType /\ CompletedRests
    BY DEF BookInv
  <2>2. CASE ChapterControl
    BY <2>1, <2>2 DEF ChapterControl, At, CompletedRests, HaltPcs
  <2>3. CASE CheckControl
    BY <2>1, <2>3 DEF CheckControl, At, CompletedRests, HaltPcs
  <2>4. CASE ReviewControl
    BY <2>1, <2>4 DEF ReviewControl, At, CompletedRests, HaltPcs
  <2>5. CASE AnalysisControl
    BY <2>1, <2>5 DEF AnalysisControl, At, CompletedRests, HaltPcs
  <2>6. QED BY <2>2, <2>3, <2>4, <2>5
<1> HIDE DEF on
<1>2. on \in Pcs /\ "pausing" \in Pcs /\ "cancelling" \in Pcs
    BY <1>1 DEF Pcs, FreePcs, ChapterPcs, ReviewPcs, AnalysisPcs
<1>3. /\ RunStays /\ UNCHANGED <<job, accepted, workflows, snapshots, bounds>>
      /\ ThreadRow(thread') /\ thread'.pc \in {on, "pausing", "cancelling"}
      /\ Same(thread, thread')
    BY <1>1, <1>2, Controlled
<1>4. CASE thread'.pc \in {"pausing", "cancelling", "check"}
  <2>1. Leaves
    BY <1>1, <1>3, <1>4 DEF Leaves, HeldPcs, Way, FreePcs
  <2>2. QED BY <1>1, <1>3, <2>1, QuietHandler DEF Moves
<1>5. CASE thread'.pc \in {"mark", "review", "analyze"}
  <2>1. GoesOn
    BY <1>1, <1>3, <1>5 DEF GoesOn, Way, Same
  <2>2. QED BY <1>1, <1>3, <2>1, QuietHandler DEF Moves
<1>6. QED BY <1>1, <1>3, <1>4, <1>5

LEMMA RunIsPaused ==
    ASSUME RowType, BookRunAssumption, NEW next, NEW refused, MarkPaused(next, refused)
    PROVE  RunStays /\ (next \/ refused)
<1>1. CASE UNCHANGED run /\ (next \/ refused)
    BY <1>1, RunRests
<1>2. CASE run.status \notin Terminal /\ run' = [run EXCEPT !.status = "paused"] /\ next
  <2>1. "paused" \in Statuses \ {"completed"}
    BY DEF Statuses, Terminal
  <2>2. QED BY <1>2, <2>1, RunTransitions
<1>3. QED BY <1>1, <1>2 DEF MarkPaused

LEMMA PausingIsQuiet ==
    ASSUME BookInv, BookRunAssumption, Pausing
    PROVE  Quiet
<1>1. RowType /\ thread.pc = "pausing" /\ MarkPaused(Goto("job_pause"), Goto("job_fail"))
    BY DEF BookInv, Pausing, At
<1>2. UNCHANGED <<job, accepted, workflows, snapshots, bounds>>
    BY DEF Pausing
<1>3. RunStays /\ (Goto("job_pause") \/ Goto("job_fail"))
    BY <1>1, RunIsPaused
<1>4. {"job_pause", "job_fail"} \subseteq Pcs
    BY DEF Pcs, FreePcs, HaltPcs
<1>5. ThreadRow(thread') /\ thread'.pc \in {"job_pause", "job_fail"}
    BY <1>1, <1>3, <1>4, PlaceChanges
<1>6. Leaves
    BY <1>1, <1>5 DEF Leaves, HeldPcs, Way, FreePcs, HaltPcs
<1>7. QED BY <1>1, <1>2, <1>3, <1>5, <1>6, QuietHandler DEF Moves

LEMMA CancellingIsQuiet ==
    ASSUME BookInv, BookRunAssumption, Cancelling
    PROVE  Quiet
<1>1. RowType /\ thread.pc = "cancelling"
    BY DEF BookInv, Cancelling, At
<1>2. UNCHANGED <<job, accepted, workflows, snapshots, bounds>>
    BY DEF Cancelling
<1>3. RunStays /\ (Goto("job_cancel") \/ Goto("job_fail"))
  <2>1. CASE UNCHANGED run /\ (Goto("job_cancel") \/ Goto("job_fail"))
    BY <1>1, <2>1, RunRests
  <2>2. CASE /\ run.status \notin Terminal /\ Goto("job_cancel")
             /\ run' = [run EXCEPT !.status = "cancelled"]
    <3>1. "cancelled" \in Statuses \ {"completed"}
      BY DEF Statuses, Terminal
    <3>2. QED BY <1>1, <2>2, <3>1, RunTransitions
  <2>3. QED BY <2>1, <2>2 DEF Cancelling
<1>4. {"job_cancel", "job_fail"} \subseteq Pcs
    BY DEF Pcs, FreePcs, HaltPcs
<1>5. ThreadRow(thread') /\ thread'.pc \in {"job_cancel", "job_fail"}
    BY <1>1, <1>3, <1>4, PlaceChanges
<1>6. Leaves
    BY <1>1, <1>5 DEF Leaves, HeldPcs, Way, FreePcs, HaltPcs
<1>7. QED BY <1>1, <1>2, <1>3, <1>5, <1>6, QuietHandler DEF Moves

LEMMA FailingIsQuiet ==
    ASSUME BookInv, BookRunAssumption, Failing
    PROVE  Quiet
<1>1. RowType /\ thread.pc = "failing"
    BY DEF BookInv, Failing, At
<1>2. UNCHANGED <<job, accepted, workflows, snapshots, bounds>>
    BY DEF Failing
<1>3. /\ RunStays
      /\ \/ Goto("job_fail")
         \/ Goto("job_retry") /\ run'.status \in Terminal
  <2>1. CASE UNCHANGED run /\ Goto("job_fail")
    BY <1>1, <2>1, RunRests
  <2>2. CASE UNCHANGED run /\ run.status \in Terminal /\ Goto(AfterError)
    BY <1>1, <2>2, RunRests DEF AfterError
  <2>3. CASE /\ run.status \notin Terminal /\ Goto(AfterError)
             /\ run' = [run EXCEPT !.status = "failed"]
    <3>1. "failed" \in Statuses \ {"completed"} /\ "failed" \in Terminal
      BY DEF Statuses, Terminal
    <3>2. RunStays /\ run'.status = "failed"
      BY <1>1, <2>3, <3>1, RunTransitions
    <3>3. QED BY <2>3, <3>1, <3>2 DEF AfterError
  <2>4. QED BY <2>1, <2>2, <2>3 DEF Failing
<1>4. {"job_retry", "job_fail"} \subseteq Pcs
    BY DEF Pcs, FreePcs, HaltPcs
<1>5. /\ ThreadRow(thread')
      /\ \/ thread'.pc = "job_fail"
         \/ thread'.pc = "job_retry" /\ run'.status \in Terminal
    BY <1>1, <1>3, <1>4, PlaceChanges
<1>6. Leaves
    BY <1>1, <1>5 DEF Leaves, HeldPcs, Way, FreePcs, HaltPcs
<1>7. QED BY <1>1, <1>2, <1>3, <1>5, <1>6, QuietHandler DEF Moves

LEMMA ClaimIsQuiet ==
    ASSUME BookInv, BookRunAssumption, Claim
    PROVE  Quiet
<1>1. /\ RowType /\ thread.pc = "idle" /\ JobRow(job) /\ job.status # "failed"
      /\ Goto("enter") /\ UNCHANGED <<run, accepted, workflows, snapshots, bounds>>
    BY DEF BookInv, RowType, Claim, At
<1> DEFINE j == [job EXCEPT !.status = "running"]
           k == [j EXCEPT !.started = TRUE]
<1>2. job' = [k EXCEPT !.attempt = @ + 1] /\ k = [j EXCEPT !.started = TRUE]
    BY Zenon DEF Claim
<1>3. j = [status |-> "running", started |-> job.started, wf |-> job.wf,
           attempt |-> job.attempt, max |-> job.max]
    BY <1>1 DEF JobRow
<1> HIDE DEF j, k
<1>4. JobRow(job')
  <2>1. k = [status |-> "running", started |-> TRUE, wf |-> job.wf,
             attempt |-> job.attempt, max |-> job.max]
    BY <1>2, <1>3
  <2>2. QED BY <1>2, <2>1 DEF JobRow
<1>5. ThreadRow(thread') /\ thread'.pc = "enter"
    BY <1>1, PlaceChanges DEF Pcs, FreePcs, HaltPcs
<1>6. Leaves
    BY <1>1, <1>5 DEF Leaves, HeldPcs, Way, FreePcs, HaltPcs
<1>7. QED
    BY <1>1, <1>4, <1>5, <1>6, RunRests, WorkflowsRest, SnapshotsRest
    DEF Quiet, RowsStay, JobStays, Moves, bounds

LEMMA OutcomeIsQuiet ==
    ASSUME BookInv, BookRunAssumption, JobOutcome
    PROVE  Quiet
<1>1. /\ RowType /\ Leave /\ UNCHANGED <<run, accepted, workflows, snapshots, bounds>>
      /\ thread.pc \in {"job_pause", "job_cancel", "job_fail", "job_retry", "job_succeed"}
    BY DEF BookInv, JobOutcome, At
<1>2. \/ job' = job /\ thread.pc # "job_fail"
      \/ \E s \in JobStatuses : SetJob(s) /\ (thread.pc = "job_fail" => s = "failed")
  <2>1. CASE At("job_pause")
    BY <2>1 DEF JobOutcome, At, JobStatuses
  <2>2. CASE At("job_cancel")
    BY <2>2 DEF JobOutcome, At, JobStatuses
  <2>3. CASE At("job_fail")
    BY <2>3 DEF JobOutcome, At, JobStatuses
  <2>4. CASE At("job_retry")
    BY <2>4 DEF JobOutcome, At, JobStatuses
  <2>5. CASE At("job_succeed")
    BY <2>5 DEF JobOutcome, At, JobStatuses
  <2>6. QED BY <1>1, <2>1, <2>2, <2>3, <2>4, <2>5 DEF At
<1>3. JobStays /\ (thread.pc = "job_fail" => job'.status = "failed")
  <2>1. CASE job' = job /\ thread.pc # "job_fail"
    BY <1>1, <2>1, JobRests
  <2>2. ASSUME NEW s \in JobStatuses, SetJob(s), thread.pc = "job_fail" => s = "failed"
        PROVE  JobStays /\ (thread.pc = "job_fail" => job'.status = "failed")
    BY <1>1, <2>2, JobTurns DEF SetJob
  <2>3. QED BY <1>2, <2>1, <2>2
<1>4. ThreadRow(thread') /\ thread'.pc = "idle"
    BY <1>1, ThreadLeaves
<1>5. Leaves
    BY <1>1, <1>3, <1>4 DEF Leaves, HeldPcs, Way, FreePcs, HaltPcs
<1>6. QED
    BY <1>1, <1>3, <1>4, <1>5, RunRests, WorkflowsRest, SnapshotsRest
    DEF Quiet, RowsStay, Moves, bounds

LEMMA CrashIsQuiet ==
    ASSUME BookInv, BookRunAssumption, Crash
    PROVE  Quiet
<1>1. /\ RowType /\ Leave /\ crashes' = crashes + 1 /\ faults' = faults
      /\ UNCHANGED <<run, job, accepted, workflows, snapshots>>
    BY DEF BookInv, Crash, rows
<1>2. ThreadRow(thread') /\ thread'.pc = "idle"
    BY <1>1, ThreadLeaves
<1>3. Leaves
    BY <1>1, <1>2 DEF Leaves, HeldPcs, FreePcs, HaltPcs
<1>4. QED
    BY <1>1, <1>2, <1>3, RunRests, JobRests, WorkflowsRest, SnapshotsRest
    DEF Quiet, RowsStay, Moves

\* What a workflow that is not executed becomes when its job is told.
LEMMA LinkedWorkflowStops ==
    ASSUME RowType, NEW w, NEW live \in SUBSET Live, NEW to \in {"paused", "cancelled"},
           workflows' = LinkedTo(w, [from |-> live, to |-> to])
    PROVE  WorkflowsStay
<1>1. workflows \in Seq(WorkflowRows)
    BY DEF RowType
<1>2. CASE workflows' = workflows
    BY <1>2, WorkflowsRest
<1>3. CASE /\ workflows[w].status \in live /\ w \in DOMAIN workflows
           /\ workflows' = [workflows EXCEPT ![w].status = to]
  <2>1. \A v \in DOMAIN workflows :
            workflows[v] \in WorkflowRows
    BY <1>1
  <2>2. [workflows[w] EXCEPT !.status = to] \in WorkflowRows
    BY <1>3, <2>1 DEF WorkflowRows, WorkflowStatuses, Live
  <2>3. /\ workflows' \in Seq(WorkflowRows) /\ Len(workflows') = Len(workflows)
        /\ \A v \in DOMAIN workflows :
               workflows'[v] = IF v = w THEN [workflows[w] EXCEPT !.status = to]
                                        ELSE workflows[v]
    BY <1>1, <1>3, <2>2
  <2>4. QED BY SMTT(60), <1>3, <2>1, <2>3 DEF WorkflowsStay, WorkflowRows
<1>4. CASE /\ w \notin DOMAIN workflows
           /\ workflows' = [workflows EXCEPT ![w].status = to]
  <2>1. workflows' = workflows
    BY <1>1, <1>4
  <2>2. QED BY <2>1, WorkflowsRest
<1>5. QED BY <1>2, <1>3, <1>4 DEF LinkedTo

LEMMA RecoverIsQuiet ==
    ASSUME BookInv, BookRunAssumption, Recover
    PROVE  Quiet
<1>1. /\ RowType /\ thread' = thread /\ UNCHANGED <<run, accepted, snapshots, bounds>>
      /\ workflows' = LinkedTo(job.wf, [from |-> {"running"}, to |-> "paused"])
      /\ job.status = "running"
    BY DEF BookInv, Recover
<1>2. WorkflowsStay
    BY <1>1, LinkedWorkflowStops DEF Live
<1>3. \E s \in JobStatuses : SetJob(s)
    BY DEF Recover, JobStatuses
<1>4. JobStays
    BY <1>1, <1>3, JobTurns DEF SetJob
<1>5. QED
    BY <1>1, <1>2, <1>4, RunRests, SnapshotsRest
    DEF Quiet, RowsStay, Moves, RowType, bounds

LEMMA FaultIsQuiet ==
    ASSUME BookInv, BookRunAssumption, DatabaseFault
    PROVE  Quiet
<1>1. /\ RowType /\ crashes' = crashes /\ faults' = faults + 1
      /\ UNCHANGED <<run, job, accepted, workflows, snapshots>>
      /\ thread' = [thread EXCEPT !.pc = IF thread.pc \in Unguarded
                                         THEN "job_retry" ELSE "failing",
                                  !.error = "retryable"]
    BY DEF BookInv, DatabaseFault, rows
<1> DEFINE pc == IF thread.pc \in Unguarded THEN "job_retry" ELSE "failing"
<1>2. /\ pc \in Pcs /\ pc \in {"job_retry", "failing"}
      /\ pc = "job_retry" => thread.pc \in {"enter", "pausing", "cancelling", "failing"}
    BY DEF Pcs, FreePcs, HaltPcs, Unguarded
<1>3. thread' = Raised(thread, pc, "retryable") /\ ThreadRow(thread) /\ N \in Nat
    BY <1>1, Zenon DEF Raised, RowType, BookRunAssumption
<1> HIDE DEF pc
<1>4. ThreadRow(thread') /\ thread'.pc = pc
    BY <1>2, <1>3, ThreadRaises
<1>5. Leaves
    BY <1>1, <1>2, <1>4 DEF Leaves, HeldPcs, Way, FreePcs, HaltPcs
<1>6. QED
    BY <1>1, <1>4, <1>5, RunRests, JobRests, WorkflowsRest, SnapshotsRest
    DEF Quiet, RowsStay, Moves

LEMMA InitializeIsQuiet ==
    ASSUME BookInv, BookRunAssumption, Initialize
    PROVE  Quiet
<1>1. RowType /\ thread.pc = "initialize"
    BY DEF BookInv, Initialize, At
<1>2. UNCHANGED <<job, accepted, workflows, snapshots, bounds>>
    BY DEF Initialize
<1>3. \/ run' = run /\ Raise
      \/ /\ run.status \notin Terminal /\ Goto("schedule")
         /\ \E t \in Statuses \ {"completed"} : run' = [run EXCEPT !.status = t]
  <2>1. run.status \in Statuses
    BY <1>1 DEF RowType, RunRow
  <2>2. CASE run.status \in {"pending", "planning_validation"}
    BY <2>2 DEF Initialize, Terminal, Statuses
  <2>3. CASE run.status \in {"paused", "budget_blocked"}
    BY <2>3 DEF Initialize, Terminal, Statuses, ResumeTarget
  <2>4. CASE run.status \in {"generating", "global_review"}
    BY <2>4 DEF Initialize, Terminal, Statuses
  <2>5. CASE run.status \notin {"pending", "planning_validation", "paused",
                                "budget_blocked", "generating", "global_review"}
    BY <2>5 DEF Initialize
  <2>6. QED BY <2>2, <2>3, <2>4, <2>5
<1>4. /\ RunStays /\ ThreadRow(thread')
      /\ \/ thread'.pc = "failing"
         \/ thread'.pc = "schedule" /\ run.status \notin Terminal
  <2>1. CASE run' = run /\ Raise
    BY <1>1, <2>1, RunRests, ExceptionIsRaised
  <2>2. ASSUME run.status \notin Terminal, Goto("schedule"),
               NEW t \in Statuses \ {"completed"}, run' = [run EXCEPT !.status = t]
        PROVE  RunStays /\ ThreadRow(thread') /\ thread'.pc = "schedule"
    BY <1>1, <2>2, RunTransitions, PlaceChanges DEF Pcs, FreePcs
  <2>3. QED BY <1>3, <2>1, <2>2
<1>5. Leaves
    BY <1>1, <1>4 DEF Leaves, HeldPcs, Way, FreePcs, HaltPcs, Terminal
<1>6. QED BY <1>1, <1>2, <1>4, <1>5, QuietHandler DEF Moves

LEMMA BudgetGateIsQuiet ==
    ASSUME BookInv, BookRunAssumption, BudgetGate
    PROVE  Quiet
<1>1. RowType /\ thread.pc = "gate" /\ run.status # "completed"
    BY DEF BookInv, BudgetGate, At, CompletedRests, HaltPcs
<1>2. UNCHANGED <<job, accepted, workflows, snapshots, bounds>>
    BY DEF BudgetGate
<1>3. (run' = run /\ Goto("control")) \/ Advance("budget_blocked", "pausing")
    BY DEF BudgetGate
<1>4. CASE run' = run /\ Goto("control")
  <2>1. RunStays /\ ThreadRow(thread') /\ thread'.pc = "control" /\ Same(thread, thread')
    BY <1>1, <1>4, RunRests, PlaceChanges DEF Pcs, ChapterPcs
  <2>2. GoesOn
    BY <1>1, <2>1 DEF GoesOn, Way, Same
  <2>3. QED BY <1>1, <1>2, <2>1, <2>2, QuietHandler DEF Moves
<1>5. CASE Advance("budget_blocked", "pausing")
  <2>1. RunStays /\ ThreadRow(thread') /\ thread'.pc \in {"pausing", "failing"}
    BY <1>1, <1>5, RunAdvances DEF Pcs, FreePcs, Statuses, Terminal
  <2>2. Leaves
    BY <1>1, <2>1 DEF Leaves, HeldPcs, Way, FreePcs, HaltPcs
  <2>3. QED BY <1>1, <1>2, <2>1, <2>2, QuietHandler DEF Moves
<1>6. QED BY <1>3, <1>4, <1>5

LEMMA UsageIsQuiet ==
    ASSUME BookInv, BookRunAssumption, UpdateUsage
    PROVE  Quiet
<1>1. /\ RowType /\ thread.pc = "usage" /\ run.status # "completed" /\ Working
      /\ N \in Nat /\ RunRow(run)
    BY DEF BookInv, UpdateUsage, At, CompletedRests, HaltPcs, RowType, BookRunAssumption
<1>2. UNCHANGED <<job, accepted, workflows, snapshots, bounds>>
    BY DEF UpdateUsage
<1>3. RunStays
  <2>1. run' = Charged(run, Counted(thread.wf))
    BY Zenon DEF UpdateUsage, Charged
  <2>2. RunRow(run') /\ run'.status = run.status /\ SameRun(run, run')
    BY <1>1, <2>1, RunIsCharged
  <2>3. QED BY <2>2 DEF RunStays
<1> DEFINE w == workflows[thread.wf]
<1>4. /\ w.operation \in {"generate", "targeted_revision"}
      /\ w.status \in {"completed", "completed_needs_review", "cancelled"}
      /\ w.operation # "generate" => w.status = "completed"
    BY <1>1, WorkflowIsRow DEF Working, WorkPcs, Generates
<1>5. \/ Goto("revise") /\ ~Generates(thread.wf)
      \/ Goto("check_control")
      \/ Goto("schedule")
      \/ Goto("finish_review")
      \/ Raise
  <2>1. CASE w.operation = "targeted_revision"
    BY <2>1 DEF UpdateUsage, Generates
  <2>2. CASE w.operation = "generate" /\ w.status = "completed"
    BY <2>2 DEF UpdateUsage
  <2>3. CASE w.operation = "generate" /\ w.status = "completed_needs_review"
    BY <2>3 DEF UpdateUsage
  <2>4. CASE w.operation = "generate" /\ w.status = "cancelled"
    BY <2>4 DEF UpdateUsage
  <2>5. QED BY <1>4, <2>1, <2>2, <2>3, <2>4
<1>6. CASE Goto("revise") /\ ~Generates(thread.wf)
  <2>1. ThreadRow(thread') /\ thread'.pc = "revise" /\ Same(thread, thread')
    BY <1>1, <1>6, PlaceChanges DEF Pcs, ReviewPcs
  <2>2. GoesOn
    BY <1>1, <1>6, <2>1 DEF GoesOn, Way, Same
  <2>3. QED BY <1>1, <1>2, <1>3, <2>1, <2>2, QuietHandler DEF Moves
<1>7. CASE Goto("check_control") \/ Goto("schedule") \/ Goto("finish_review") \/ Raise
  <2>1. /\ ThreadRow(thread')
        /\ thread'.pc \in {"check_control", "schedule", "finish_review", "failing"}
    BY <1>1, <1>7, PlaceChanges, ExceptionIsRaised DEF Pcs, FreePcs
  <2>2. Leaves
    BY <1>1, <2>1 DEF Leaves, HeldPcs, Way, FreePcs, HaltPcs
  <2>3. QED BY <1>1, <1>2, <1>3, <2>1, <2>2, QuietHandler DEF Moves
<1>8. QED BY <1>5, <1>6, <1>7

LEMMA PeriodicCheckIsQuiet ==
    ASSUME BookInv, BookRunAssumption, PeriodicCheck
    PROVE  Quiet
<1>1. RowType /\ thread.pc = "check" /\ run.status # "completed"
    BY DEF BookInv, PeriodicCheck, At, CompletedRests, HaltPcs
<1>2. UNCHANGED <<job, accepted, workflows, snapshots, bounds>>
    BY DEF PeriodicCheck
<1>3. (run' = run /\ Goto("schedule")) \/ Advance("paused", "pausing")
    BY DEF PeriodicCheck
<1>4. /\ RunStays /\ ThreadRow(thread')
      /\ thread'.pc \in {"schedule", "pausing", "failing"}
  <2>1. "paused" \in Statuses \ {"completed"} /\ "pausing" \in Pcs /\ "schedule" \in Pcs
    BY DEF Pcs, FreePcs, Statuses, Terminal
  <2>2. CASE run' = run /\ Goto("schedule")
    BY <1>1, <2>1, <2>2, RunRests, PlaceChanges
  <2>3. CASE Advance("paused", "pausing")
    BY <1>1, <2>1, <2>3, RunAdvances
  <2>4. QED BY <1>3, <2>2, <2>3
<1>5. Leaves
    BY <1>1, <1>4 DEF Leaves, HeldPcs, Way, FreePcs, HaltPcs
<1>6. QED BY <1>1, <1>2, <1>4, <1>5, QuietHandler DEF Moves

LEMMA SetReviewIsQuiet ==
    ASSUME BookInv, BookRunAssumption, SetGlobalReview
    PROVE  Quiet
<1>1. /\ RowType /\ thread.pc = "review" /\ run.status # "completed"
      /\ run.status \in Statuses /\ RunRow(run) /\ N \in Nat
    BY DEF BookInv, SetGlobalReview, At, CompletedRests, HaltPcs, RowType, RunRow,
           BookRunAssumption
<1>2. Goto("snapshot") /\ UNCHANGED <<job, accepted, workflows, snapshots, bounds>>
    BY DEF SetGlobalReview
<1> DEFINE t == IF run.status = "generating" THEN "global_review" ELSE run.status
<1>3. run' = [run EXCEPT !.status = t]
    BY Zenon DEF SetGlobalReview
<1>4. t \in Statuses \ {"completed"} /\ (run.status \in Terminal => t = run.status)
    BY <1>1 DEF Statuses, Terminal
<1> HIDE DEF t
<1>5. RunStays
    BY <1>1, <1>3, <1>4, RunTransitions
<1>6. ThreadRow(thread') /\ thread'.pc = "snapshot" /\ Same(thread, thread')
    BY <1>1, <1>2, PlaceChanges DEF Pcs, ReviewPcs
<1>7. GoesOn
    BY <1>1, <1>6 DEF GoesOn, Way, Same
<1>8. QED BY <1>1, <1>2, <1>5, <1>6, <1>7, QuietHandler DEF Moves

LEMMA AnalyzeIsQuiet ==
    ASSUME BookInv, BookRunAssumption, Analyze
    PROVE  Quiet
<1>1. At("analyze") /\ UNCHANGED <<rows, user, bounds>>
    BY Zenon DEF Analyze
<1>2. /\ RowType /\ thread.pc = "analyze" /\ run.status # "completed"
      /\ ThreadRow(thread) /\ N \in Nat
    BY <1>1 DEF BookInv, At, CompletedRests, HaltPcs, RowType, BookRunAssumption
<1>3. RunStays /\ UNCHANGED <<job, accepted, workflows, snapshots, bounds>>
    BY <1>1, <1>2, RunRests DEF rows
<1>4. \/ Raise
      \/ Goto("persist")
      \/ \E v \in Verdicts : thread' = Judged(thread, "persist", Request, v)
    BY Zenon DEF Analyze, Judged
<1>5. CASE Raise
  <2>1. ThreadRow(thread') /\ thread'.pc = "failing"
    BY <1>2, <1>5, ExceptionIsRaised
  <2>2. Leaves
    BY <1>1, <2>1 DEF Leaves, HeldPcs, FreePcs, HaltPcs, At
  <2>3. QED BY <1>2, <1>3, <2>1, <2>2, QuietHandler DEF Moves
<1>6. CASE Goto("persist") \/ \E v \in Verdicts : thread' = Judged(thread, "persist", Request, v)
  <2>1. "persist" \in Pcs
    BY DEF Pcs, ReviewPcs, AnalysisPcs
  <2>2. ThreadRow(thread') /\ thread'.pc = "persist" /\ Same(thread, thread')
    BY <1>2, <1>6, <2>1, PlaceChanges, ThreadJudges
  <2>3. GoesOn
    BY <1>2, <2>2 DEF GoesOn, Way, Same
  <2>4. QED BY <1>2, <1>3, <2>2, <2>3, QuietHandler DEF Moves
<1>7. QED BY <1>4, <1>5, <1>6

LEMMA SnapshotIsRow ==
    ASSUME RowType, NEW s \in DOMAIN snapshots
    PROVE  /\ snapshots[s] \in SnapshotRows /\ snapshots[s].map \in [Chapters -> Nat]
           /\ snapshots[s] = [map |-> snapshots[s].map, status |-> snapshots[s].status,
                              evaluation |-> snapshots[s].evaluation]
<1>1. snapshots[s] \in SnapshotRows
    BY DEF RowType
<1>2. QED BY <1>1 DEF SnapshotRows

\* A snapshot that is marked keeps what it froze.
LEMMA SnapshotIsMarked ==
    ASSUME RowType, run.status # "completed", NEW s \in DOMAIN snapshots,
           NEW row \in SnapshotRows, row.map = snapshots[s].map,
           snapshots' = [snapshots EXCEPT ![s] = row]
    PROVE  SnapshotsStay
<1>1. snapshots \in Seq(SnapshotRows)
    BY DEF RowType
<1>2. /\ snapshots' \in Seq(SnapshotRows) /\ Len(snapshots') = Len(snapshots)
      /\ \A t \in DOMAIN snapshots : snapshots'[t] = IF t = s THEN row ELSE snapshots[t]
    BY <1>1
<1>3. QED BY <1>2 DEF SnapshotsStay

LEMMA PersistIsQuiet ==
    ASSUME BookInv, BookRunAssumption, PersistAnalysis
    PROVE  Quiet
<1>1. /\ RowType /\ thread.pc = "persist" /\ run.status # "completed"
      /\ thread.snapshot \in DOMAIN snapshots /\ thread.verdict \in Verdicts \cup {"none"}
    BY DEF BookInv, PersistAnalysis, At, CompletedRests, HaltPcs, Reviewing, AnalysisPcs,
           RowType, ThreadRow
<1>2. UNCHANGED <<run, job, accepted, workflows, bounds>>
    BY DEF PersistAnalysis
<1>3. SnapshotsStay
  <2> DEFINE s == thread.snapshot
             v == [snapshots[s] EXCEPT !.evaluation = thread.verdict]
             row == [v EXCEPT !.status = "reviewed"]
  <2>1. CASE snapshots' = snapshots
    BY <1>1, <2>1, SnapshotsRest
  <2>2. CASE snapshots' = [snapshots EXCEPT ![s].evaluation = thread.verdict,
                                            ![s].status = "reviewed"]
    <3>1. snapshots' = [snapshots EXCEPT ![s] = row]
      <4>1. snapshots \in Seq(SnapshotRows)
        BY <1>1 DEF RowType
      <4> DEFINE mid == [snapshots EXCEPT ![s].evaluation = thread.verdict]
      <4>2. snapshots' = [mid EXCEPT ![s].status = "reviewed"]
        BY <2>2, Zenon
      <4>3. /\ mid = [snapshots EXCEPT ![s] = v] /\ mid[s] = v
            /\ mid \in [DOMAIN snapshots -> {mid[t] : t \in DOMAIN snapshots}]
        BY <1>1, <4>1
      <4> HIDE DEF mid
      <4>4. snapshots' = [mid EXCEPT ![s] = row]
        BY <4>2, <4>3
      <4> HIDE DEF v, row
      <4>5. QED BY <4>3, <4>4
    <3>2. snapshots[s] = [map |-> snapshots[s].map, status |-> snapshots[s].status,
                          evaluation |-> snapshots[s].evaluation]
          /\ snapshots[s].map \in [Chapters -> Nat]
      BY <1>1, SnapshotIsRow
    <3>3. v = [map |-> snapshots[s].map, status |-> snapshots[s].status,
               evaluation |-> thread.verdict]
      BY <3>2
    <3> HIDE DEF v
    <3>4. row = [map |-> snapshots[s].map, status |-> "reviewed",
                 evaluation |-> thread.verdict]
      BY <3>3
    <3> HIDE DEF row
    <3>5. row \in SnapshotRows /\ row.map = snapshots[s].map
      BY <1>1, <3>2, <3>4 DEF SnapshotRows
    <3>6. QED BY <1>1, <3>1, <3>5, SnapshotIsMarked
  <2>3. QED BY <2>1, <2>2 DEF PersistAnalysis
<1>4. Goto("accept") \/ Goto("retain") \/ Goto("handle")
    BY DEF PersistAnalysis
<1>5. /\ ThreadRow(thread') /\ thread'.pc \in {"accept", "retain", "handle"}
      /\ Same(thread, thread')
    BY <1>1, <1>4, PlaceChanges DEF Pcs, ReviewPcs, AnalysisPcs
<1>6. GoesOn
    BY <1>1, <1>5 DEF GoesOn, Way, Same
<1>7. QED
    BY <1>1, <1>2, <1>3, <1>5, <1>6, RunRests, JobRests, WorkflowsRest
    DEF Quiet, RowsStay, Moves, bounds

LEMMA AcceptIsQuiet ==
    ASSUME BookInv, BookRunAssumption, AcceptSnapshot
    PROVE  Quiet
<1>1. /\ RowType /\ thread.pc = "accept" /\ run.status # "completed"
      /\ thread.snapshot \in DOMAIN snapshots
    BY DEF BookInv, AcceptSnapshot, At, CompletedRests, HaltPcs, Reviewing, AnalysisPcs
<1>2. /\ UNCHANGED <<run, job, accepted, workflows, bounds>> /\ Goto("complete")
      /\ snapshots' = Superseding(thread.snapshot)
    BY DEF AcceptSnapshot
<1> DEFINE s == thread.snapshot
           row(t) == IF t = s THEN [snapshots[t] EXCEPT !.status = "accepted"]
                     ELSE IF snapshots[t].status = "accepted"
                     THEN [snapshots[t] EXCEPT !.status = "superseded"] ELSE snapshots[t]
<1>3. snapshots' = [t \in DOMAIN snapshots |-> row(t)]
    BY <1>2, Zenon DEF Superseding
<1>4. \A t \in DOMAIN snapshots :
         /\ row(t) \in SnapshotRows /\ row(t).map = snapshots[t].map
         /\ t = s => row(t).status = "accepted"
  <2> SUFFICES ASSUME NEW t \in DOMAIN snapshots
               PROVE  /\ row(t) \in SnapshotRows /\ row(t).map = snapshots[t].map
                      /\ t = s => row(t).status = "accepted"
    OBVIOUS
  <2>1. snapshots[t] \in SnapshotRows
    BY <1>1, SnapshotIsRow
  <2>2. /\ [snapshots[t] EXCEPT !.status = "accepted"] \in SnapshotRows
        /\ [snapshots[t] EXCEPT !.status = "accepted"].map = snapshots[t].map
        /\ [snapshots[t] EXCEPT !.status = "accepted"].status = "accepted"
        /\ [snapshots[t] EXCEPT !.status = "superseded"] \in SnapshotRows
        /\ [snapshots[t] EXCEPT !.status = "superseded"].map = snapshots[t].map
    BY <2>1 DEF SnapshotRows
  <2>3. QED BY <2>1, <2>2
<1> HIDE DEF row
<1>5. /\ snapshots' \in Seq(SnapshotRows) /\ Len(snapshots') = Len(snapshots)
      /\ \A t \in DOMAIN snapshots : snapshots'[t] = row(t)
  <2>1. snapshots \in Seq(SnapshotRows)
    BY <1>1 DEF RowType
  <2>2. Len(snapshots) \in Nat /\ DOMAIN snapshots = 1..Len(snapshots)
    BY <2>1
  <2>3. QED BY <1>3, <1>4, <2>2
<1>6. SnapshotsStay
    BY <1>1, <1>4, <1>5 DEF SnapshotsStay
<1>7. ThreadRow(thread') /\ thread'.pc = "complete" /\ Same(thread, thread')
    BY <1>1, <1>2, PlaceChanges DEF Pcs, ReviewPcs, AnalysisPcs
<1>8. GoesOn
    BY <1>1, <1>4, <1>5, <1>7 DEF GoesOn, Way, Same
<1>9. QED
    BY <1>1, <1>2, <1>6, <1>7, <1>8, RunRests, JobRests, WorkflowsRest
    DEF Quiet, RowsStay, Moves, bounds

LEMMA HandleIsQuiet ==
    ASSUME BookInv, BookRunAssumption, HandleRevisionOrReview
    PROVE  Quiet
<1>1. /\ RowType /\ thread.pc = "handle" /\ run.status # "completed"
      /\ RunRow(run) /\ N \in Nat
    BY DEF BookInv, HandleRevisionOrReview, At, CompletedRests, HaltPcs, RowType,
           BookRunAssumption
<1>2. UNCHANGED <<job, accepted, workflows, snapshots, bounds>>
    BY DEF HandleRevisionOrReview
<1>3. {"plan", "retain", "failing"} \subseteq Pcs
    BY DEF Pcs, ReviewPcs, AnalysisPcs, FreePcs, HaltPcs
<1>4. \/ Advance("completed_needs_review", "retain")
      \/ run' = run /\ Raise
      \/ /\ CanGo("global_revision") /\ Goto("plan")
         /\ run' = Rounded(run, "global_revision", run.round + 1)
    BY Zenon DEF HandleRevisionOrReview, Rounded
<1>5. /\ RunStays /\ ThreadRow(thread') /\ Same(thread, thread')
      /\ thread'.pc \in {"plan", "retain", "failing"}
  <2>1. CASE Advance("completed_needs_review", "retain")
    <3>1. "completed_needs_review" \in Statuses \ {"completed"}
      BY DEF Statuses, Terminal
    <3>2. QED BY <1>1, <1>3, <2>1, <3>1, RunAdvances
  <2>2. CASE run' = run /\ Raise
    BY <1>1, <2>2, RunRests, ExceptionIsRaised
  <2>3. CASE /\ CanGo("global_revision") /\ Goto("plan")
             /\ run' = Rounded(run, "global_revision", run.round + 1)
    <3>1. "global_revision" \in Statuses /\ "global_revision" \notin Terminal
      BY DEF Statuses, Terminal
    <3>2. /\ RunRow(run') /\ run'.status = "global_revision" /\ SameRun(run, run')
      BY <1>1, <2>3, <3>1, RunTurnsAgain
    <3>3. run.status \notin Terminal
      BY <2>3, <3>1, TerminalStays
    <3>4. RunStays
      BY <3>1, <3>2, <3>3 DEF RunStays, Terminal
    <3>5. QED BY <1>1, <1>3, <2>3, <3>4, PlaceChanges
  <2>4. QED BY <1>4, <2>1, <2>2, <2>3
<1>6. CASE thread'.pc = "failing"
  <2>1. Leaves
    BY <1>1, <1>6 DEF Leaves, HeldPcs, FreePcs, HaltPcs, At
  <2>2. QED BY <1>1, <1>2, <1>5, <2>1, QuietHandler DEF Moves
<1>7. CASE thread'.pc \in {"plan", "retain"}
  <2>1. GoesOn
    BY <1>1, <1>5, <1>7 DEF GoesOn, Way, Same
  <2>2. QED BY <1>1, <1>2, <1>5, <2>1, QuietHandler DEF Moves
<1>8. QED BY <1>5, <1>6, <1>7

LEMMA RetainIsQuiet ==
    ASSUME BookInv, BookRunAssumption, RetainSnapshot
    PROVE  Quiet
<1>1. /\ RowType /\ thread.pc = "retain" /\ run.status # "completed"
      /\ thread.snapshot \in DOMAIN snapshots
    BY DEF BookInv, RetainSnapshot, At, CompletedRests, HaltPcs, Reviewing, AnalysisPcs
<1>2. UNCHANGED <<run, job, accepted, workflows, bounds>>
    BY DEF RetainSnapshot
<1> DEFINE s == thread.snapshot
           row == [snapshots[s] EXCEPT !.status = "needs_review"]
<1>3. SnapshotsStay
  <2>1. snapshots[s] \in SnapshotRows /\ snapshots \in Seq(SnapshotRows)
    BY <1>1, SnapshotIsRow DEF RowType
  <2>2. row \in SnapshotRows /\ row.map = snapshots[s].map
    BY <2>1 DEF SnapshotRows
  <2>3. snapshots' = [snapshots EXCEPT ![s] = row]
    BY <1>1, <2>1 DEF RetainSnapshot
  <2> HIDE DEF row
  <2>4. QED BY <1>1, <2>2, <2>3, SnapshotIsMarked
<1>4. Goto("finish_review") \/ Goto("job_succeed")
    BY DEF RetainSnapshot
<1>5. ThreadRow(thread') /\ thread'.pc \in {"finish_review", "job_succeed"}
    BY <1>1, <1>4, PlaceChanges DEF Pcs, FreePcs, HaltPcs
<1>6. Leaves
    BY <1>1, <1>5 DEF Leaves, HeldPcs, FreePcs, HaltPcs
<1>7. QED
    BY <1>1, <1>2, <1>3, <1>5, <1>6, RunRests, JobRests, WorkflowsRest
    DEF Quiet, RowsStay, Moves, bounds

LEMMA PlansAreSequences == Plans \subseteq Seq(Chapters)
<1> SUFFICES ASSUME NEW p \in Plans
             PROVE  p \in Seq(Chapters)
    OBVIOUS
<1> DEFINE left == run.limit - run.calls
           most == IF left < 0 THEN N - 1 ELSE Min({MaxTasks, left, N})
<1>1. p \in UNION {[1..n -> Chapters] : n \in 0..most}
    BY Zenon DEF Plans
<1> HIDE DEF most
<1>2. \A n \in 0..most : n \in Nat
    OBVIOUS
<1>3. QED BY <1>1, <1>2

LEMMA PlanIsQuiet ==
    ASSUME BookInv, BookRunAssumption, BuildRevisionPlan
    PROVE  Quiet
<1>1. At("plan") /\ UNCHANGED <<rows, asked, user, bounds>>
    BY Zenon DEF BuildRevisionPlan
<1>2. RowType /\ thread.pc = "plan" /\ N \in Nat /\ ThreadRow(thread)
    BY <1>1 DEF BookInv, At, BookRunAssumption, RowType
<1>3. PICK p \in Seq(Chapters) : thread' = Planned(thread, "revise", p)
    BY PlansAreSequences, Zenon DEF BuildRevisionPlan, Planned
<1>4. /\ ThreadRow(thread') /\ thread'.pc = "revise"
      /\ thread'.chapter = thread.chapter /\ thread'.wf = thread.wf
      /\ thread'.snapshot = thread.snapshot
  <2>1. "revise" \in Pcs
    BY DEF Pcs, ReviewPcs
  <2>2. QED BY <1>2, <1>3, <2>1, ThreadPlans
<1>5. GoesOn
    BY <1>2, <1>4 DEF GoesOn, Way
<1>6. QED BY <1>1, <1>2, <1>4, <1>5, RunRests, QuietHandler DEF rows, Moves

LEMMA ReviewAgainIsQuiet ==
    ASSUME BookInv, BookRunAssumption, ReviewAgain
    PROVE  Quiet
<1>1. At("revise") /\ UNCHANGED <<job, accepted, workflows, snapshots, bounds>>
    BY Zenon DEF ReviewAgain
<1>2. /\ RowType /\ thread.pc = "revise" /\ N \in Nat /\ ThreadRow(thread)
      /\ run.status # "completed"
    BY <1>1 DEF BookInv, At, BookRunAssumption, RowType, CompletedRests, HaltPcs
<1>3. \/ run' = run /\ Raise
      \/ /\ CanGo("global_review") /\ thread' = Repeated(thread, "snapshot", TRUE)
         /\ run' = [run EXCEPT !.status = "global_review"]
    BY Zenon DEF ReviewAgain, Repeated
<1>4. CASE run' = run /\ Raise
  <2>1. RunStays /\ ThreadRow(thread') /\ thread'.pc = "failing"
    BY <1>2, <1>4, RunRests, ExceptionIsRaised
  <2>2. Leaves
    BY <1>2, <2>1 DEF Leaves, HeldPcs, FreePcs, HaltPcs
  <2>3. QED BY <1>1, <1>2, <2>1, <2>2, QuietHandler DEF Moves
<1>5. CASE /\ CanGo("global_review") /\ thread' = Repeated(thread, "snapshot", TRUE)
           /\ run' = [run EXCEPT !.status = "global_review"]
  <2>1. "global_review" \in Statuses \ {"completed"} /\ "snapshot" \in Pcs
    BY DEF Statuses, Terminal, Pcs, ReviewPcs
  <2>2. run.status \in Terminal => "global_review" = run.status
    BY <1>5, TerminalStays
  <2>3. RunStays
    BY <1>2, <1>5, <2>1, <2>2, RunTransitions
  <2>4. ThreadRow(thread') /\ thread'.pc = "snapshot" /\ Same(thread, thread')
    BY <1>2, <1>5, <2>1, ThreadRepeats
  <2>5. GoesOn
    BY <1>2, <2>4 DEF GoesOn, Way, Same
  <2>6. QED BY <1>1, <1>2, <2>3, <2>4, <2>5, QuietHandler DEF Moves
<1>6. QED BY <1>3, <1>4, <1>5

LEMMA FinishReviewIsQuiet ==
    ASSUME BookInv, BookRunAssumption, FinishNeedsReview
    PROVE  Quiet
<1>1. RowType /\ thread.pc = "finish_review" /\ run.status # "completed"
    BY DEF BookInv, FinishNeedsReview, At, CompletedRests, HaltPcs
<1>2. UNCHANGED <<job, accepted, workflows, snapshots, bounds>>
    BY DEF FinishNeedsReview
<1>3. (run' = run /\ Goto("job_succeed")) \/ Advance("completed_needs_review", "job_succeed")
    BY DEF FinishNeedsReview
<1>4. RunStays /\ ThreadRow(thread') /\ thread'.pc \in {"job_succeed", "failing"}
  <2>1. "completed_needs_review" \in Statuses \ {"completed"} /\ "job_succeed" \in Pcs
    BY DEF Pcs, FreePcs, HaltPcs, Statuses, Terminal
  <2>2. CASE run' = run /\ Goto("job_succeed")
    BY <1>1, <2>1, <2>2, RunRests, PlaceChanges
  <2>3. CASE Advance("completed_needs_review", "job_succeed")
    BY <1>1, <2>1, <2>3, RunAdvances
  <2>4. QED BY <1>3, <2>2, <2>3
<1>5. Leaves
    BY <1>1, <1>4 DEF Leaves, HeldPcs, FreePcs, HaltPcs
<1>6. QED BY <1>1, <1>2, <1>4, <1>5, QuietHandler DEF Moves

-----------------------------------------------------------------------------
(***************************************************************************)
(* The requests of users are quiet as well: they reach the rows only.      *)
(***************************************************************************)

LEMMA QuietRequest ==
    ASSUME RowType, RunStays, JobStays, WorkflowsStay,
           UNCHANGED <<accepted, snapshots, thread, crashes, faults>>
    PROVE  Quiet
BY SnapshotsRest DEF Quiet, RowsStay, Moves, RowType

LEMMA JobIsPaused ==
    ASSUME RowType, PauseJob
    PROVE  JobStays
<1>1. job' = job \/ \E s : SetJob(s) /\ job.status # "failed"
    BY DEF PauseJob
<1>2. QED BY <1>1, JobRests, JobTurns DEF SetJob

LEMMA JobIsResumed ==
    ASSUME RowType, ResumeJob
    PROVE  JobStays
<1>1. job' = job \/ \E s : SetJob(s) /\ job.status # "failed"
    BY DEF ResumeJob
<1>2. QED BY <1>1, JobRests, JobTurns DEF SetJob

LEMMA JobIsCancelled ==
    ASSUME RowType, CancelJob
    PROVE  JobStays /\ WorkflowsStay
<1>1. /\ job' = job \/ \E s : SetJob(s) /\ job.status # "failed"
      /\ \/ workflows' = workflows
         \/ workflows' = LinkedTo(job.wf, [from |-> Live, to |-> "cancelled"])
    BY DEF CancelJob
<1>2. QED BY <1>1, JobRests, JobTurns, WorkflowsRest, LinkedWorkflowStops DEF SetJob

LEMMA PauseIsQuiet ==
    ASSUME BookInv, BookRunAssumption, RequestPause \/ PauseTheJob \/ PauseTheRun
    PROVE  Quiet
<1>1. RowType
    BY DEF BookInv
<1>2. CASE RequestPause
  <2>1. UNCHANGED <<run, job, workflows, accepted, snapshots, thread, crashes, faults>>
    BY <1>2 DEF RequestPause, Ask, rows
  <2>2. QED BY <1>1, <2>1, RunRests, JobRests, WorkflowsRest, QuietRequest
<1>3. CASE PauseTheJob
  <2>1. PauseJob /\ UNCHANGED <<run, workflows, accepted, snapshots, thread, crashes, faults>>
    BY <1>3 DEF PauseTheJob, bounds
  <2>2. QED BY <1>1, <2>1, RunRests, JobIsPaused, WorkflowsRest, QuietRequest
<1>4. CASE PauseTheRun
  <2>1. UNCHANGED <<job, workflows, accepted, snapshots, thread, crashes, faults>>
    BY <1>4 DEF PauseTheRun, bounds
  <2>2. MarkPaused(TRUE, TRUE)
    BY <1>4 DEF PauseTheRun
  <2>3. QED BY <1>1, <2>1, <2>2, RunIsPaused, JobRests, WorkflowsRest, QuietRequest
<1>5. QED BY <1>2, <1>3, <1>4

LEMMA ResumeIsQuiet ==
    ASSUME BookInv, BookRunAssumption, RequestResume \/ ResumeTheJob
    PROVE  Quiet
<1>1. RowType /\ RunRow(run) /\ N \in Nat
    BY DEF BookInv, RowType, BookRunAssumption
<1>2. CASE RequestResume
  <2>1. /\ UNCHANGED <<job, workflows, accepted, snapshots, thread, crashes, faults>>
        /\ run.status \in {"paused", "budget_blocked"}
        /\ \E limit : run' = Resized(run, ResumeTarget, limit)
    BY <1>2, Zenon DEF RequestResume, Ask, Resized
  <2>2. ResumeTarget \in Statuses \ {"completed"}
    BY DEF ResumeTarget, Statuses, Terminal
  <2>3. RunRow(run') /\ run'.status = ResumeTarget /\ SameRun(run, run')
    BY <1>1, <2>1, <2>2, RunIsResized
  <2>4. RunStays
    BY <2>1, <2>2, <2>3 DEF RunStays, Terminal
  <2>5. QED BY <1>1, <2>1, <2>4, JobRests, WorkflowsRest, QuietRequest
<1>3. CASE ResumeTheJob
  <2>1. ResumeJob /\ UNCHANGED <<run, workflows, accepted, snapshots, thread, crashes, faults>>
    BY <1>3 DEF ResumeTheJob, bounds
  <2>2. QED BY <1>1, <2>1, RunRests, JobIsResumed, WorkflowsRest, QuietRequest
<1>4. QED BY <1>2, <1>3

LEMMA CancelIsQuiet ==
    ASSUME BookInv, BookRunAssumption, RequestCancel \/ CancelTheJob \/ CancelTheRun
    PROVE  Quiet
<1>1. RowType /\ run.status \in Statuses
    BY DEF BookInv, RowType, RunRow
<1>2. CASE RequestCancel
  <2>1. /\ UNCHANGED <<job, workflows, accepted, snapshots, thread, crashes, faults>>
        /\ run.status \notin Terminal
        /\ \E t \in {"cancelled", "cancel_requested"} : run' = [run EXCEPT !.status = t]
    BY <1>2 DEF RequestCancel, Ask
  <2>2. {"cancelled", "cancel_requested"} \subseteq Statuses \ {"completed"}
    BY DEF Statuses, Terminal
  <2>3. RunStays
    BY <1>1, <2>1, <2>2, RunTransitions
  <2>4. QED BY <1>1, <2>1, <2>3, JobRests, WorkflowsRest, QuietRequest
<1>3. CASE CancelTheJob
  <2>1. CancelJob /\ UNCHANGED <<run, accepted, snapshots, thread, crashes, faults>>
    BY <1>3 DEF CancelTheJob, bounds
  <2>2. QED BY <1>1, <2>1, RunRests, JobIsCancelled, QuietRequest
<1>4. CASE CancelTheRun
  <2>1. UNCHANGED <<job, workflows, accepted, snapshots, thread, crashes, faults>>
    BY <1>4 DEF CancelTheRun, bounds
  <2> DEFINE t == IF run.status = "cancel_requested" THEN "cancelled" ELSE run.status
  <2>2. run' = [run EXCEPT !.status = t]
    BY <1>4, Zenon DEF CancelTheRun
  <2>3. CASE run.status = "cancel_requested"
    <3>1. t \in Statuses \ {"completed"} /\ run.status \notin Terminal
      BY <2>3 DEF Statuses, Terminal
    <3>2. RunStays
      BY <1>1, <2>2, <3>1, RunTransitions
    <3>3. QED BY <1>1, <2>1, <3>2, JobRests, WorkflowsRest, QuietRequest
  <2>4. CASE run.status # "cancel_requested"
    <3>1. run' = run
      BY <1>1, <2>2, <2>4 DEF RowType, RunRow
    <3>2. QED BY <1>1, <2>1, <3>1, RunRests, JobRests, WorkflowsRest, QuietRequest
  <2>5. QED BY <2>3, <2>4
<1>5. QED BY <1>2, <1>3, <1>4

LEMMA JobIsRevived ==
    ASSUME RowType, job.status = "dead_lettered",
           job' = [job EXCEPT !.status = "queued",
                              !.max = job.attempt + RegistryAttempts]
    PROVE  JobStays
<1>1. JobRow(job)
    BY DEF RowType
<1>2. job' = [status |-> "queued", started |-> job.started, wf |-> job.wf,
              attempt |-> job.attempt,
              max |-> job.attempt + RegistryAttempts]
    BY <1>1 DEF JobRow
<1>3. QED BY <1>2 DEF JobStays, JobRow

LEMMA JobRequestIsQuiet ==
    ASSUME BookInv, BookRunAssumption, JobRequest
    PROVE  Quiet
<1>1. RowType
    BY DEF BookInv
<1>2. UNCHANGED <<run, accepted, snapshots, thread, crashes, faults>>
    BY DEF JobRequest, Ask
<1>3. JobStays /\ WorkflowsStay
  <2>1. CASE PauseJob /\ UNCHANGED workflows
    BY <1>1, <2>1, JobIsPaused, WorkflowsRest
  <2>2. CASE ResumeJob /\ UNCHANGED workflows
    BY <1>1, <2>2, JobIsResumed, WorkflowsRest
  <2>3. CASE CancelJob
    BY <1>1, <2>3, JobIsCancelled
  <2>4. CASE /\ UNCHANGED workflows /\ job.status = "dead_lettered"
             /\ job' = [job EXCEPT !.status = "queued", !.max = job.attempt + RegistryAttempts]
    <3>1. JobStays
      BY <1>1, <2>4, JobIsRevived
    <3>2. QED BY <1>1, <2>4, <3>1, WorkflowsRest
  <2>5. QED BY <2>1, <2>2, <2>3, <2>4, Zenon DEF JobRequest
<1>4. QED BY <1>1, <1>2, <1>3, RunRests, QuietRequest

LEMMA StutterIsQuiet ==
    ASSUME BookInv, UNCHANGED vars
    PROVE  Quiet
BY RunRests, JobRests, WorkflowsRest, QuietRequest DEF BookInv, vars, rows, bounds

-----------------------------------------------------------------------------
(***************************************************************************)
(* A quiet step keeps the invariant.                                       *)
(***************************************************************************)

LEMMA QuietRows ==
    ASSUME BookInv, Quiet
    PROVE  RowType'
<1>1. /\ run.wf \in 0..Len(workflows) /\ accepted \in [Chapters -> Nat]
      /\ crashes \in Nat /\ faults \in Nat
    BY DEF BookInv, RowType
<1>2. crashes' \in Nat /\ faults' \in Nat
    BY <1>1 DEF Quiet, RowsStay
<1>3. QED
    BY <1>1, <1>2 DEF RowType, Quiet, RowsStay, RunStays, SameRun, JobStays, WorkflowsStay,
                SnapshotsStay, Moves

\* What a quiet step leaves of the rows the invariant reads.
LEMMA QuietFrame ==
    ASSUME BookInv, Quiet
    PROVE  /\ accepted' = accepted /\ DOMAIN workflows' = DOMAIN workflows
           /\ run'.current = run.current /\ run'.wf = run.wf /\ run'.map = run.map
           /\ run'.snapshot = run.snapshot
           /\ \A w \in DOMAIN workflows :
                 /\ workflows'[w].chapter = workflows[w].chapter
                 /\ workflows'[w].operation = workflows[w].operation
                 /\ \/ workflows'[w].status = workflows[w].status
                    \/ workflows[w].status \in Live /\ workflows'[w].status # "completed"
           /\ DOMAIN snapshots' = DOMAIN snapshots
           /\ \A s \in DOMAIN snapshots : snapshots'[s].map = snapshots[s].map
<1>1. /\ workflows \in Seq(WorkflowRows) /\ workflows' \in Seq(WorkflowRows)
      /\ snapshots \in Seq(SnapshotRows) /\ snapshots' \in Seq(SnapshotRows)
      /\ Len(workflows') = Len(workflows) /\ Len(snapshots') = Len(snapshots)
    BY DEF BookInv, RowType, Quiet, RowsStay, WorkflowsStay, SnapshotsStay
<1>2. DOMAIN workflows' = DOMAIN workflows /\ DOMAIN snapshots' = DOMAIN snapshots
    BY <1>1
<1>3. QED
    BY <1>2 DEF Quiet, RowsStay, RunStays, SameRun, WorkflowsStay, SnapshotsStay

LEMMA QuietWorkflows ==
    ASSUME BookInv, Quiet
    PROVE  /\ CompletedHasVersion' /\ RevisedIsWhole' /\ BegunIsMarked'
           /\ ReportIsTrue' /\ GeneratedOnce'
<1>1. CompletedHasVersion'
    BY QuietFrame DEF BookInv, CompletedHasVersion
<1>2. RevisedIsWhole'
    BY QuietFrame DEF BookInv, RevisedIsWhole, Generates, Whole
<1>3. BegunIsMarked'
    BY QuietFrame DEF BookInv, BegunIsMarked, Generates
<1>4. GeneratedOnce'
    BY QuietFrame DEF BookInv, GeneratedOnce
<1>5. ReportIsTrue'
  <2>1. NothingLost' => NothingLost
    BY DEF BookInv, RowType, Quiet, RowsStay, NothingLost
  <2>2. QED BY <2>1, QuietFrame DEF BookInv, ReportIsTrue, NothingLost, AcceptedHasVersion
<1>6. QED BY <1>1, <1>2, <1>3, <1>4, <1>5

\* The place of the thread decides which of them it could have come from.
LEMMA QuietChoosing ==
    ASSUME BookInv, Quiet
    PROVE  Choosing'
<1> SUFFICES ASSUME thread'.pc \in ChapterPcs
             PROVE  Choosing'
    BY DEF Choosing
<1>1. /\ thread.pc \in ChapterPcs /\ thread'.chapter = thread.chapter
      /\ thread'.pc = "start" => thread.pc = "start"
  <2>1. thread' = thread \/ Leaves \/ GoesOn
    BY DEF Quiet, Moves
  <2>2. CASE thread' = thread
    BY <2>2
  <2>3. CASE Leaves
    BY <2>3 DEF Leaves, HeldPcs, FreePcs, HaltPcs, ChapterPcs
  <2>4. CASE GoesOn
    BY <2>4 DEF GoesOn, Way, ChapterPcs
  <2>5. QED BY <2>1, <2>2, <2>3, <2>4
<1>2. QED BY <1>1, QuietFrame DEF BookInv, Choosing, Generates

LEMMA QuietWorking ==
    ASSUME BookInv, Quiet
    PROVE  Working'
<1> SUFFICES ASSUME thread'.pc \in WorkPcs
             PROVE  Working'
    BY DEF Working
<1>1. thread' = thread
  <2>1. thread' = thread \/ Leaves \/ GoesOn
    BY DEF Quiet, Moves
  <2>2. CASE Leaves
    BY <2>2 DEF Leaves, HeldPcs, FreePcs, HaltPcs, WorkPcs
  <2>3. CASE GoesOn
    BY <2>3 DEF GoesOn, Way, WorkPcs
  <2>4. QED BY <2>1, <2>2, <2>3
<1>2. Working /\ thread.pc \in WorkPcs /\ thread.wf \in DOMAIN workflows
    BY <1>1 DEF BookInv, Working
<1>3. \/ workflows'[thread.wf].status = workflows[thread.wf].status
      \/ workflows[thread.wf].status \in Live
    BY <1>2, QuietFrame
<1>4. thread.pc \in {"record", "usage"} =>
          workflows'[thread.wf].status = workflows[thread.wf].status
    BY <1>2, <1>3 DEF Working, Live
<1>5. /\ workflows'[thread.wf].operation = workflows[thread.wf].operation
      /\ DOMAIN workflows' = DOMAIN workflows /\ run'.wf = run.wf /\ run'.map = run.map
    BY <1>2, QuietFrame
<1>6. QED BY <1>1, <1>2, <1>4, <1>5 DEF Working, Generates, MapWhole

LEMMA QuietReviewing ==
    ASSUME BookInv, Quiet
    PROVE  Reviewing'
<1>1. /\ accepted' = accepted /\ run'.map = run.map
      /\ DOMAIN snapshots' = DOMAIN snapshots
      /\ \A s \in DOMAIN snapshots : snapshots'[s].map = snapshots[s].map
    BY QuietFrame
<1>2. (UNCHANGED <<thread, snapshots>>) \/ Leaves \/ GoesOn
    BY DEF Quiet, Moves
<1>3. Reviewing /\ Working /\ RevisedIsWhole
    BY DEF BookInv
<1>4. CASE UNCHANGED <<thread, snapshots>>
  <2>1. thread.pc = "complete" => snapshots'[thread.snapshot].status = "accepted"
    BY <1>3, <1>4 DEF Reviewing
  <2>2. QED BY <1>1, <1>3, <1>4, <2>1 DEF Reviewing, Whole, MapWhole
<1>5. CASE Leaves
    BY <1>5 DEF Leaves, HeldPcs, FreePcs, HaltPcs, Reviewing, ReviewPcs, AnalysisPcs
<1>6. CASE GoesOn
  <2>1. thread.pc = "usage" => MapWhole /\ Whole
    BY <1>3, <1>6 DEF GoesOn, Way, Working, WorkPcs, RevisedIsWhole
  <2>2. thread'.pc \in ReviewPcs \ {"retain"} => MapWhole
    BY <1>3, <1>6, <2>1 DEF GoesOn, Way, Reviewing, ReviewPcs, AnalysisPcs
  <2>3. thread'.pc \in AnalysisPcs \cup {"revise"} => Whole
    BY <1>3, <1>6, <2>1 DEF GoesOn, Way, Reviewing, ReviewPcs, AnalysisPcs
  <2>4. thread'.pc \in AnalysisPcs =>
          /\ thread'.snapshot = thread.snapshot
          /\ thread.snapshot \in DOMAIN snapshots
          /\ snapshots[thread.snapshot].map = accepted
    BY <1>3, <1>6 DEF GoesOn, Way, Reviewing, ReviewPcs, AnalysisPcs
  <2>5. thread'.pc = "complete" => snapshots'[thread'.snapshot].status = "accepted"
    BY <1>6 DEF GoesOn, Way
  <2>6. QED BY <1>1, <2>2, <2>3, <2>4, <2>5 DEF Reviewing, Whole, MapWhole
<1>7. QED BY <1>2, <1>4, <1>5, <1>6

LEMMA QuietCompleted ==
    ASSUME BookInv, Quiet
    PROVE  CompletedRests' /\ CompletedIsWhole'
<1> SUFFICES ASSUME run'.status = "completed"
             PROVE  CompletedRests' /\ CompletedIsWhole'
    BY DEF CompletedRests, CompletedIsWhole
<1>1. run.status = "completed" /\ snapshots' = snapshots
    BY DEF Quiet, RowsStay, RunStays, SnapshotsStay
<1>2. thread.pc \in HaltPcs /\ CompletedIsWhole
    BY <1>1 DEF BookInv, CompletedRests
<1>3. thread'.pc \in HaltPcs
  <2>1. thread' = thread \/ Leaves \/ GoesOn
    BY DEF Quiet, Moves
  <2>2. CASE GoesOn
    BY <1>2, <2>2 DEF GoesOn, Way, HaltPcs
  <2>3. QED BY <1>1, <1>2, <2>1, <2>2 DEF Leaves, HeldPcs
<1>4. QED BY <1>1, <1>2, <1>3, QuietFrame DEF CompletedRests, CompletedIsWhole

LEMMA QuietLinked ==
    ASSUME BookInv, Quiet
    PROVE  Linked'
<1> SUFFICES ASSUME NothingLost', run'.wf # 0, Generates(run.wf)'
             PROVE  Executing' \/ Halted' \/ Open'
    BY DEF Linked
<1>1. /\ NothingLost /\ crashes' # crashes + 1
      /\ \/ faults' = faults
         \/ faults = 0 /\ faults' = 1
      /\ faults' = faults + 1 => faults' = 1
      /\ run.wf # 0 /\ run.wf \in DOMAIN workflows
  <2>1. /\ NothingLost /\ crashes' # crashes + 1
        /\ faults' = faults \/ (faults = 0 /\ faults' = 1)
        /\ faults' = faults + 1 => faults' = 1
    BY DEF BookInv, RowType, Quiet, RowsStay, NothingLost
  <2>2. run.wf \in 0..Len(workflows) /\ workflows \in Seq(WorkflowRows) /\ run'.wf = run.wf
    BY QuietFrame DEF BookInv, RowType
  <2>3. QED BY <2>1, <2>2
<1>2. Executing \/ Halted \/ Open
  <2>1. Generates(run.wf)
    BY <1>1, QuietFrame DEF Generates
  <2>2. QED BY <1>1, <2>1 DEF BookInv, Linked
<1>3. /\ accepted' = accepted /\ DOMAIN workflows' = DOMAIN workflows
      /\ run'.current = run.current /\ run'.wf = run.wf /\ run'.map = run.map
      /\ workflows'[run.wf].chapter = workflows[run.wf].chapter
      /\ workflows'[run.wf].operation = workflows[run.wf].operation
      /\ run.status \in Terminal => run'.status = run.status
      /\ thread.pc = "idle" /\ job.status = "failed" => job'.status = "failed"
    BY <1>1, QuietFrame DEF Quiet, RowsStay, RunStays, JobStays
<1>4. thread' = thread \/ Leaves \/ GoesOn
    BY DEF Quiet, Moves
<1>5. CASE thread' = thread
  <2>1. CASE Executing
    BY <1>3, <1>5, <2>1 DEF Executing, Generates
  <2>2. CASE Halted
    BY <1>1, <1>3, <1>5, <2>2 DEF Halted
  <2>3. CASE Open
    BY <1>3, <1>5, <2>3 DEF Open, Generates
  <2>4. QED BY <1>2, <2>1, <2>2, <2>3
<1>6. CASE Leaves
  <2>1. CASE thread'.pc = "job_fail" \/ (thread'.pc = "failing" /\ faults' = faults + 1)
    BY <1>1, <2>1 DEF Halted
  <2>2. CASE /\ thread'.pc = "failing" /\ faults' # faults + 1
             /\ thread.pc \notin HeldPcs
    <3>1. CASE Executing
      BY <2>2, <3>1 DEF Executing, HeldPcs
    <3>2. CASE Halted
      <4>1. CASE run.status \in Terminal
        BY <1>3, <2>2, <3>2, <4>1 DEF Halted, HeldPcs
      <4>2. CASE run.status \notin Terminal
        BY <2>2, <3>2, <4>2 DEF Halted, HeldPcs
      <4>3. QED BY <4>1, <4>2
    <3>3. CASE Open
      BY <1>3, <2>2, <3>3 DEF Open
    <3>4. QED BY <1>2, <3>1, <3>2, <3>3
  <2>3. CASE thread'.pc \notin {"failing", "job_fail"}
    <3>1. CASE Executing
      BY <1>1, <1>6, <2>3, <3>1 DEF Executing, Leaves, Way
    <3>2. CASE Halted
      BY <1>1, <1>3, <1>6, <2>3, <3>2 DEF Halted, Leaves, HeldPcs, Way
    <3>3. CASE Open
      <4>1. /\ thread'.pc \in {"job_pause", "job_cancel", "job_retry", "idle", "enter",
                               "initialize", "schedule", "pausing", "cancelling"}
        BY <1>1, <1>6, <2>3, <3>3 DEF Open, Leaves, Way
      <4>2. QED BY <1>3, <3>3, <4>1 DEF Open
    <3>4. QED BY <1>2, <3>1, <3>2, <3>3
  <2>4. QED BY <1>1, <1>6, <2>1, <2>2, <2>3 DEF Leaves, HeldPcs, Way
<1>7. CASE GoesOn
  <2>1. thread'.chapter = thread.chapter
    BY <1>7 DEF GoesOn
  <2>2. Open /\ thread.pc = "control" /\ thread'.pc = "mark"
    <3>1. CASE Executing
      BY <1>7, <3>1 DEF Executing, GoesOn, Way
    <3>2. CASE Halted
      BY <1>7, <3>2 DEF Halted, GoesOn, Way
    <3>3. CASE Open
      BY <1>7, <3>3 DEF Open, GoesOn, Way
    <3>4. QED BY <1>2, <3>1, <3>2, <3>3
  <2>3. QED BY <1>3, <2>1, <2>2 DEF Open, Generates
<1>8. QED BY <1>4, <1>5, <1>6, <1>7

LEMMA QuietKeepsInv ==
    ASSUME BookInv, Quiet
    PROVE  BookInv'
BY QuietRows, QuietWorkflows, QuietChoosing, QuietWorking, QuietReviewing, QuietCompleted,
   QuietLinked DEF BookInv

-----------------------------------------------------------------------------
(***************************************************************************)
(* The other steps, one by one.                                            *)
(***************************************************************************)

LEMMA InitInv ==
    ASSUME BookRunAssumption, Init
    PROVE  BookInv
<1>1. N \in Nat \ {0} /\ Prior \subseteq 1..N
    BY DEF BookRunAssumption
<1>2. PICK limit \in Limits, prior \in SUBSET Prior :
          /\ run = [status |-> "pending", current |-> 0, wf |-> 0,
                    map |-> [c \in Chapters |-> "planned"], calls |-> 0,
                    limit |-> limit, round |-> 0, snapshot |-> 0, best |-> 0]
          /\ accepted = [c \in Chapters |-> IF c \in prior THEN 1 ELSE 0]
    BY DEF Init
<1>3. /\ job = [status |-> "queued", started |-> FALSE, wf |-> 0, attempt |-> 0,
                max |-> JobMaxAttempts]
      /\ workflows = <<>> /\ snapshots = <<>> /\ thread = IdleThread
      /\ crashes = 0 /\ faults = 0
    BY DEF Init
<1>4. /\ ThreadRow(thread) /\ thread.pc = "idle"
      /\ thread.pc \notin ChapterPcs \cup WorkPcs \cup ReviewPcs
    BY <1>1, <1>3, ThreadIdles DEF ChapterPcs, WorkPcs, ReviewPcs, AnalysisPcs
<1>5. /\ RunRow(run) /\ run.wf = 0 /\ run.status = "pending"
      /\ run.map = [c \in Chapters |-> "planned"]
  <2>1. /\ "pending" \in Statuses /\ 0 \in 0..N
        /\ [c \in Chapters |-> "planned"] \in [Chapters -> Marks]
    BY <1>1 DEF Statuses, Marks
  <2>2. QED BY <1>2, <2>1 DEF RunRow
<1>6. accepted \in [Chapters -> Nat] /\ JobRow(job)
    BY <1>2, <1>3 DEF JobRow
<1>7. /\ workflows \in Seq(WorkflowRows) /\ snapshots \in Seq(SnapshotRows)
      /\ Len(workflows) = 0 /\ DOMAIN workflows = {}
    BY <1>3
<1>8. RowType
    BY <1>3, <1>4, <1>5, <1>6, <1>7 DEF RowType
<1>9. Choosing /\ Working /\ Reviewing
    BY <1>4 DEF Choosing, Working, Reviewing, ReviewPcs
<1>10. CompletedHasVersion /\ RevisedIsWhole /\ BegunIsMarked /\ GeneratedOnce
    BY <1>7 DEF CompletedHasVersion, RevisedIsWhole, BegunIsMarked, GeneratedOnce
<1>11. CompletedRests /\ Linked /\ CompletedIsWhole
    BY <1>5 DEF CompletedRests, Linked, CompletedIsWhole
<1>12. ReportIsTrue
    BY <1>5 DEF ReportIsTrue, AcceptedHasVersion
<1>13. QED BY <1>8, <1>9, <1>10, <1>11, <1>12 DEF BookInv

\* The scheduler takes a chapter that is not finished.
LEMMA FirstOfChapters ==
    ASSUME NEW S \in SUBSET Nat, S # {}
    PROVE  Min(S) \in S
<1> DEFINE R == {ss \in Nat \X Nat : ss[1] < ss[2]}
<1>1. IsWellFoundedOn(R, Nat)
    BY NatLessThanWellFounded DEF OpToRel
<1>2. ASSUME NEW x \in Nat, NEW y \in Nat PROVE <<y, x>> \in R <=> y < x
  <2>1. <<y, x>> \in Nat \X Nat /\ <<y, x>>[1] = y /\ <<y, x>>[2] = x
    OBVIOUS
  <2>2. QED BY <2>1
<1> HIDE DEF R
<1>3. PICK x \in S : \A y \in S : ~(<<y, x>> \in R)
    BY <1>1, WFMin
<1>4. x \in Nat /\ \A y \in S : y \in Nat /\ ~(y < x)
    BY <1>2, <1>3
<1>5. \A y \in S : x <= y
    BY <1>4
<1>6. QED BY <1>5, Zenon DEF Min

\* _sync_already_accepted writes a mark for every chapter with a version.
LEMMA ScheduleKeepsInv ==
    ASSUME BookInv, BookRunAssumption, Schedule
    PROVE  BookInv'
<1> DEFINE map == [c \in Chapters |-> IF accepted[c] # 0 THEN "accepted" ELSE run.map[c]]
           resuming == run.wf # 0 /\ run.current # 0 /\ map[run.current] = "running"
           unfinished == {c \in Chapters : map[c] # "accepted"}
<1>1. /\ At("schedule") /\ run' = Mapped(run, map)
      /\ UNCHANGED <<job, accepted, workflows, snapshots, bounds>>
    BY Zenon DEF Schedule, Mapped
<1>2. \/ resuming /\ thread' = Took(thread, "control", run.current)
      \/ ~resuming /\ Goto("cancelling")
      \/ ~resuming /\ Raise
      \/ ~resuming /\ unfinished = {} /\ Goto("review_control")
      \/ ~resuming /\ Goto("finish_review")
      \/ /\ ~resuming /\ unfinished # {} /\ ~Stops(map)
         /\ \A c \in unfinished : map[c] # "running"
         /\ thread' = Took(thread, "gate", Min(unfinished))
  <2>1. CASE resuming
    BY <2>1, Zenon DEF Schedule, Took
  <2>2. CASE ~resuming /\ run.status = "cancel_requested"
    BY <2>2, Zenon DEF Schedule
  <2>3. CASE ~resuming /\ run.status # "cancel_requested"
    BY <2>3, Zenon DEF Schedule, Took
  <2>4. QED BY <2>1, <2>2, <2>3
<1>3. /\ RowType /\ RunRow(run) /\ ThreadRow(thread) /\ N \in Nat
      /\ thread.pc = "schedule" /\ run.status # "completed"
      /\ run.current \in 0..N /\ run.map \in [Chapters -> Marks]
      /\ accepted \in [Chapters -> Nat]
    BY <1>1 DEF BookInv, RowType, RunRow, At, CompletedRests, HaltPcs, BookRunAssumption
<1>4. /\ map \in [Chapters -> Marks]
      /\ \A c \in Chapters : accepted[c] # 0 => map[c] = "accepted"
      /\ \A c \in Chapters : accepted[c] = 0 => map[c] = run.map[c]
    BY <1>3 DEF Marks
<1> HIDE DEF map
<1>5. /\ RunRow(run') /\ run'.map = map /\ run'.status = run.status
      /\ run'.current = run.current /\ run'.wf = run.wf /\ run'.snapshot = run.snapshot
    BY <1>1, <1>3, <1>4, RunIsMapped
<1>6. /\ job' = job /\ accepted' = accepted /\ workflows' = workflows
      /\ snapshots' = snapshots /\ crashes' = crashes /\ faults' = faults
    BY <1>1 DEF bounds
<1>7. CompletedHasVersion' /\ RevisedIsWhole' /\ GeneratedOnce'
    BY <1>6 DEF BookInv, CompletedHasVersion, RevisedIsWhole, GeneratedOnce, Whole, Generates
<1>8. BegunIsMarked'
  <2>1. \A w \in DOMAIN workflows : workflows[w].chapter \in Chapters
    BY <1>3, WorkflowIsRow
  <2>2. QED BY <1>4, <1>5, <1>6, <2>1 DEF BookInv, BegunIsMarked, Generates
<1>9. ReportIsTrue'
    BY <1>4, <1>5, <1>6 DEF BookInv, ReportIsTrue, NothingLost, AcceptedHasVersion
<1>10. CompletedIsWhole'
    BY <1>3, <1>5 DEF CompletedIsWhole
<1>11. ASSUME NothingLost, run.wf # 0, Generates(run.wf)
       PROVE  Open /\ resuming
  <2>1. Open
    BY <1>3, <1>11 DEF BookInv, Linked, Executing, Halted
  <2>2. QED BY <1>3, <1>4, <1>11, <2>1 DEF Open, Chapters
<1>12. ASSUME ThreadRow(thread'), CompletedRests', Choosing', Working', Reviewing', Linked'
       PROVE  BookInv'
  <2>1. RowType'
    BY <1>3, <1>5, <1>6, <1>12 DEF RowType
  <2>2. QED BY <1>7, <1>8, <1>9, <1>10, <1>12, <2>1 DEF BookInv
<1>13. CASE resuming /\ thread' = Took(thread, "control", run.current)
  <2>1. "control" \in Pcs /\ run.current \in Chapters
    BY <1>3, <1>13 DEF Pcs, ChapterPcs, Chapters
  <2>2. ThreadRow(thread') /\ thread'.pc = "control" /\ thread'.chapter = run.current
    BY <1>3, <1>13, <2>1, ThreadTakes
  <2>3. Choosing'
    BY <1>3, <1>4, <1>5, <1>6, <1>13, <2>1, <2>2 DEF Choosing
  <2>4. Working' /\ Reviewing' /\ CompletedRests'
    BY <1>3, <1>5, <2>2 DEF Working, Reviewing, CompletedRests, WorkPcs, ReviewPcs, AnalysisPcs
  <2>5. Linked'
    <3> SUFFICES ASSUME NothingLost', run'.wf # 0, Generates(run.wf)' PROVE Open'
      BY DEF Linked
    <3>1. Open
      BY <1>5, <1>6, <1>11 DEF NothingLost, Generates
    <3>2. QED BY <1>5, <1>6, <1>13, <2>2, <3>1 DEF Open, Generates
  <2>6. QED BY <1>12, <2>2, <2>3, <2>4, <2>5
<1>14. CASE /\ ~resuming
            /\ \/ Goto("cancelling") \/ Raise \/ Goto("finish_review")
               \/ unfinished = {} /\ Goto("review_control")
  <2>1. {"cancelling", "finish_review", "review_control"} \subseteq Pcs
    BY DEF Pcs, FreePcs, ReviewPcs
  <2>2. /\ ThreadRow(thread')
        /\ \/ thread'.pc \in {"cancelling", "failing", "finish_review"}
           \/ unfinished = {} /\ thread'.pc = "review_control"
    BY <1>3, <1>14, <2>1, PlaceChanges, ExceptionIsRaised
  <2>3. Choosing' /\ Working' /\ CompletedRests'
    BY <1>3, <1>5, <2>2 DEF Choosing, Working, CompletedRests, ChapterPcs, WorkPcs
  <2>4. Linked'
    BY <1>5, <1>6, <1>11, <1>14 DEF Linked, NothingLost, Generates
  <2>5. Reviewing'
    BY <1>5, <2>2 DEF Reviewing, ReviewPcs, AnalysisPcs, MapWhole
  <2>6. QED BY <1>12, <2>2, <2>3, <2>4, <2>5
<1>15. CASE /\ ~resuming /\ unfinished # {} /\ ~Stops(map)
            /\ \A c \in unfinished : map[c] # "running"
            /\ thread' = Took(thread, "gate", Min(unfinished))
  <2> DEFINE c == Min(unfinished)
  <2>1. c \in Chapters /\ map[c] # "accepted" /\ map[c] # "running"
    <3>1. unfinished \subseteq Nat
      BY DEF Chapters
    <3>2. c \in unfinished
      BY <1>15, <3>1, FirstOfChapters
    <3>3. QED BY <1>15, <3>2
  <2> HIDE DEF c
  <2>2. accepted[c] = 0 /\ run.map[c] = "planned"
    BY <1>4, <1>15, <2>1 DEF Stops, Marks
  <2>3. \A w \in DOMAIN workflows : Generates(w) => workflows[w].chapter # c
    BY <2>2 DEF BookInv, BegunIsMarked
  <2>4. ThreadRow(thread') /\ thread'.pc = "gate" /\ thread'.chapter = c
    <3>1. "gate" \in Pcs /\ thread' = Took(thread, "gate", c)
      BY <1>15 DEF Pcs, ChapterPcs, c
    <3>2. QED BY <1>3, <2>1, <3>1, ThreadTakes
  <2>5. Choosing'
    BY <1>5, <1>6, <2>1, <2>2, <2>3, <2>4 DEF Choosing, Generates
  <2>6. Working' /\ Reviewing' /\ CompletedRests'
    BY <1>3, <1>5, <2>4 DEF Working, Reviewing, CompletedRests, WorkPcs, ReviewPcs, AnalysisPcs
  <2>7. Linked'
    BY <1>5, <1>6, <1>11, <1>15 DEF Linked, NothingLost, Generates
  <2>8. QED BY <1>12, <2>4, <2>5, <2>6, <2>7
<1>16. QED BY <1>2, <1>13, <1>14, <1>15

LEMMA MarkKeepsInv ==
    ASSUME BookInv, BookRunAssumption, MarkRunning
    PROVE  BookInv'
<1> DEFINE c == thread.chapter
           map == [run.map EXCEPT ![c] = "running"]
<1>1. /\ At("mark") /\ Goto("start") /\ run' = Located(run, map, c)
      /\ UNCHANGED <<job, accepted, workflows, snapshots, bounds>>
    BY Zenon DEF MarkRunning, Located
<1>2. /\ RowType /\ RunRow(run) /\ N \in Nat /\ thread.pc = "mark"
      /\ run.status # "completed" /\ Choosing /\ run.map \in [Chapters -> Marks]
    BY <1>1 DEF BookInv, RowType, RunRow, At, CompletedRests, HaltPcs, BookRunAssumption
<1>3. c \in Chapters /\ c \in 0..N /\ accepted[c] = 0
    BY <1>2 DEF Choosing, ChapterPcs, Chapters
<1>4. /\ map \in [Chapters -> Marks] /\ map[c] = "running"
      /\ \A d \in Chapters : d # c => map[d] = run.map[d]
    BY <1>2, <1>3 DEF Marks
<1> HIDE DEF map
<1>5. /\ RunRow(run') /\ run'.map = map /\ run'.status = run.status
      /\ run'.current = c /\ run'.wf = run.wf /\ run'.snapshot = run.snapshot
    BY <1>1, <1>2, <1>3, <1>4, RunIsLocated
<1>6. ThreadRow(thread') /\ thread'.pc = "start" /\ Same(thread, thread')
    BY <1>1, <1>2, PlaceChanges DEF Pcs, ChapterPcs
<1>7. /\ job' = job /\ accepted' = accepted /\ workflows' = workflows
      /\ snapshots' = snapshots /\ crashes' = crashes /\ faults' = faults
    BY <1>1 DEF bounds
<1>8. RowType'
    BY <1>2, <1>5, <1>6, <1>7 DEF RowType
<1>9. CompletedHasVersion' /\ RevisedIsWhole' /\ GeneratedOnce'
    BY <1>7 DEF BookInv, CompletedHasVersion, RevisedIsWhole, GeneratedOnce, Whole, Generates
<1>10. BegunIsMarked'
  <2>1. \A w \in DOMAIN workflows : workflows[w].chapter \in Chapters
    BY <1>2, WorkflowIsRow
  <2>2. QED BY <1>4, <1>5, <1>7, <2>1 DEF BookInv, BegunIsMarked, Generates
<1>11. ReportIsTrue'
    BY <1>4, <1>5, <1>7 DEF BookInv, ReportIsTrue, NothingLost, AcceptedHasVersion
<1>12. CompletedIsWhole' /\ CompletedRests' /\ Working' /\ Reviewing'
    BY <1>2, <1>5, <1>6 DEF CompletedIsWhole, CompletedRests, Working, Reviewing, WorkPcs,
                            ReviewPcs, AnalysisPcs
<1>13. Choosing'
    BY <1>2, <1>3, <1>4, <1>5, <1>6, <1>7 DEF Choosing, ChapterPcs, Same, Generates
<1>14. Linked'
  <2> SUFFICES ASSUME NothingLost', run'.wf # 0, Generates(run.wf)' PROVE Open'
    BY DEF Linked
  <2>1. Open
    BY <1>2, <1>5, <1>7 DEF BookInv, Linked, Executing, Halted, NothingLost, Generates
  <2>2. run.current = c
    BY <1>2, <2>1 DEF Open
  <2>3. QED BY <1>3, <1>4, <1>5, <1>6, <1>7, <2>1, <2>2 DEF Open, Generates, Same
<1>15. QED
    BY <1>8, <1>9, <1>10, <1>11, <1>12, <1>13, <1>14 DEF BookInv

\* An action that only raises an exception.
LEMMA RaiseKeepsInv ==
    ASSUME BookInv, BookRunAssumption, Raise,
           thread.pc \notin HeldPcs,
           UNCHANGED <<run, job, accepted, workflows, snapshots, bounds>>
    PROVE  BookInv'
<1>1. RowType
    BY DEF BookInv
<1>2. ThreadRow(thread') /\ thread'.pc = "failing"
    BY <1>1, ExceptionIsRaised
<1>3. Leaves
    BY <1>2 DEF Leaves, HeldPcs, FreePcs, HaltPcs
<1>4. Quiet
    BY <1>1, <1>2, <1>3, RunRests, QuietHandler DEF Moves
<1>5. QED BY <1>4, QuietKeepsInv

\* A new workflow of the chapter, either the first one of a chapter the run
\* has marked or a revision of a whole book.
LEMMA NewWorkflowKeepsInv ==
    ASSUME BookInv, BookRunAssumption, NEW c \in Chapters,
           NEW op \in {"generate", "targeted_revision"}, NEW rest \in Seq(Chapters),
           NewWorkflow(c, op, rest), UNCHANGED <<accepted, snapshots, bounds>>,
           run.status # "completed", thread.pc \in {"start", "revise"},
           op = "generate" =>
               /\ accepted[c] = 0 /\ run.current = c /\ run.map[c] = "running"
               /\ \A w \in DOMAIN workflows : Generates(w) => workflows[w].chapter # c,
           op # "generate" => Whole /\ MapWhole
    PROVE  BookInv'
<1>1. CASE Raise /\ UNCHANGED <<run, job, workflows>>
    BY <1>1, RaiseKeepsInv DEF HeldPcs
<1> DEFINE w == Len(workflows) + 1
           row == [chapter |-> c, operation |-> op, status |-> "running", used |-> 0,
                   recorded |-> FALSE]
<1>2. CASE /\ workflows' = Append(workflows, row)
           /\ run' = Bound(run, w) /\ job' = [job EXCEPT !.wf = w]
           /\ thread' = Started(thread, "work", w, TRUE, c, rest)
  <2>1. /\ RowType /\ RunRow(run) /\ ThreadRow(thread) /\ JobRow(job) /\ N \in Nat
        /\ workflows \in Seq(WorkflowRows) /\ crashes \in Nat
    BY DEF BookInv, RowType, BookRunAssumption
  <2>2. row \in WorkflowRows
    BY DEF WorkflowRows, WorkflowStatuses, Live
  <2>3. /\ w \in Nat /\ w # 0 /\ w \notin DOMAIN workflows
        /\ workflows' \in Seq(WorkflowRows) /\ Len(workflows') = w
        /\ DOMAIN workflows' = DOMAIN workflows \cup {w}
        /\ workflows'[w] = row
        /\ \A v \in DOMAIN workflows : workflows'[v] = workflows[v]
    <3> HIDE DEF row
    <3>1. workflows' = Append(workflows, row)
      BY <1>2
    <3>2. QED BY <2>1, <2>2, <3>1, WorkflowBegins
  <2>4. /\ workflows'[w].chapter = c /\ workflows'[w].operation = op
        /\ workflows'[w].status = "running"
    BY <2>3
  <2> HIDE DEF w, row
  <2>5. /\ RunRow(run') /\ run'.wf = w /\ run'.status = run.status
        /\ run'.current = run.current /\ run'.map = run.map /\ run'.snapshot = run.snapshot
    BY <1>2, <2>1, RunBinds
  <2>6. ThreadRow(thread') /\ thread'.pc = "work" /\ thread'.wf = w /\ thread'.chapter = c
    <3>1. "work" \in Pcs
      BY DEF Pcs, WorkPcs
    <3> DEFINE fresh == TRUE
               pc == "work"
               v == Started(thread, pc, w, fresh, c, rest)
    <3>2. thread' = v
      BY <1>2
    <3> HIDE DEF fresh, pc
    <3>3. ThreadRow(v) /\ v.pc = pc /\ v.wf = w /\ v.chapter = c
      BY <2>1, <3>1, ThreadStarts DEF pc
    <3> HIDE DEF v
    <3>4. QED BY <3>2, <3>3 DEF pc
  <2>7. JobRow(job')
    BY <1>2, <2>1 DEF JobRow
  <2>8. accepted' = accepted /\ snapshots' = snapshots /\ crashes' = crashes /\ faults' = faults
    BY DEF bounds
  <2>9. RowType'
    BY <2>1, <2>3, <2>5, <2>6, <2>7, <2>8 DEF RowType
  <2>10. CompletedHasVersion'
    BY <2>3, <2>4, <2>8 DEF BookInv, CompletedHasVersion
  <2>11. RevisedIsWhole'
    BY <2>3, <2>4, <2>8 DEF BookInv, RevisedIsWhole, Generates, Whole
  <2>12. BegunIsMarked'
    BY <2>3, <2>4, <2>5 DEF BookInv, BegunIsMarked, Generates
  <2>13. GeneratedOnce'
    BY <2>3, <2>4 DEF BookInv, GeneratedOnce, Generates
  <2>14. ReportIsTrue'
    BY <2>5, <2>8 DEF BookInv, ReportIsTrue, NothingLost, AcceptedHasVersion
  <2>15. CompletedIsWhole' /\ CompletedRests' /\ Choosing' /\ Reviewing'
    BY <2>5, <2>6 DEF CompletedIsWhole, CompletedRests, Choosing, Reviewing, ChapterPcs,
                      ReviewPcs, AnalysisPcs
  <2>16. Working'
    BY <2>3, <2>4, <2>5, <2>6 DEF Working, Generates, MapWhole, WorkPcs
  <2>17. Linked'
    BY <2>3, <2>4, <2>5, <2>6, <2>8 DEF Linked, Executing, Generates
  <2>18. QED
    BY <2>9, <2>10, <2>11, <2>12, <2>13, <2>14, <2>15, <2>16, <2>17 DEF BookInv
<1>3. QED BY <1>1, <1>2, Zenon DEF NewWorkflow, Bound, Started

LEMMA StartKeepsInv ==
    ASSUME BookInv, BookRunAssumption, StartChapter
    PROVE  BookInv'
<1> DEFINE w == CurrentWorkflow
<1>1. At("start") /\ UNCHANGED <<accepted, snapshots, bounds>>
    BY Zenon DEF StartChapter, w
<1>2. /\ RowType /\ ThreadRow(thread) /\ RunRow(run) /\ N \in Nat /\ thread.pc = "start"
      /\ run.status # "completed" /\ Choosing /\ workflows \in Seq(WorkflowRows)
      /\ run.wf \in 0..Len(workflows)
    BY <1>1 DEF BookInv, RowType, At, CompletedRests, HaltPcs, BookRunAssumption
<1>3. /\ thread.chapter \in Chapters /\ accepted[thread.chapter] = 0
      /\ run.current = thread.chapter /\ run.map[thread.chapter] = "running"
      /\ w = run.wf
      /\ run.wf # 0 \/ \A v \in DOMAIN workflows :
                           Generates(v) => workflows[v].chapter # thread.chapter
    BY <1>2 DEF Choosing, ChapterPcs, CurrentWorkflow
<1> HIDE DEF w
<1>4. CASE w = 0
  <2>1. NewWorkflow(thread.chapter, "generate", <<>>)
    BY <1>4, Zenon DEF StartChapter, w
  <2>2. <<>> \in Seq(Chapters)
    OBVIOUS
  <2>3. QED BY <1>1, <1>2, <1>3, <1>4, <2>1, <2>2, NewWorkflowKeepsInv
<1>5. CASE w # 0
  <2>1. w \in DOMAIN workflows /\ workflows[w] \in WorkflowRows
    <3>1. w \in 1..Len(workflows)
      <4>1. Len(workflows) \in Nat
        BY <1>2
      <4>2. w \in 0..Len(workflows)
        BY <1>2, <1>3, Zenon
      <4>3. QED BY <1>5, <4>1, <4>2
    <3>2. QED BY <1>2, <3>1, WorkflowIsRow
  <2>2. Generates(w)
    BY <1>3, <2>1 DEF BookInv, RevisedIsWhole, Whole
  <2>3. /\ run' = run /\ job' = job
        /\ \/ /\ workflows[w].status = "paused"
              /\ workflows' = [workflows EXCEPT ![w].status = "running"]
              /\ thread' = Resumed(thread, "work", w, FALSE)
           \/ /\ workflows[w].status \in {"completed", "completed_needs_review"}
              /\ workflows' = workflows /\ thread' = Found(thread, "record", w)
           \/ workflows' = workflows /\ Raise
    <3>1. run' = run /\ job' = job
      BY <1>5, Zenon DEF StartChapter, w
    <3>2. CASE workflows[w].status = "paused"
      BY <1>5, <3>1, <3>2, Zenon DEF StartChapter, Resumed, w
    <3>3. CASE workflows[w].status \in {"completed", "completed_needs_review"}
      <4>1. workflows[w].status # "paused"
        BY <3>3
      <4>2. QED BY <1>5, <3>1, <3>3, <4>1, Zenon DEF StartChapter, Found, w
    <3>4. CASE workflows[w].status \notin {"paused", "completed", "completed_needs_review"}
      <4>1. /\ workflows[w].status # "paused"
            /\ ~(workflows[w].status \in {"completed", "completed_needs_review"})
        BY <3>4
      <4>2. QED BY <1>5, <3>1, <4>1, Zenon DEF StartChapter, w
    <3>5. QED BY <3>2, <3>3, <3>4
  <2>4. accepted' = accepted /\ snapshots' = snapshots /\ crashes' = crashes /\ faults' = faults
    BY <1>1 DEF bounds
  <2>5. CASE workflows' = workflows /\ Raise
    BY <1>1, <1>2, <2>3, <2>5, RaiseKeepsInv DEF HeldPcs
  <2>6. CASE /\ workflows[w].status \in {"completed", "completed_needs_review"}
             /\ workflows' = workflows /\ thread' = Found(thread, "record", w)
    <3>1. /\ ThreadRow(thread') /\ thread'.pc = "record" /\ thread'.wf = w
          /\ thread'.chapter = thread.chapter
      <4>1. "record" \in Pcs
        BY DEF Pcs, WorkPcs
      <4>2. QED BY <1>2, <2>6, <4>1, ThreadFinds
    <3>2. RowType'
      BY <1>2, <2>3, <2>4, <2>6, <3>1 DEF RowType
    <3>3. /\ CompletedHasVersion' /\ RevisedIsWhole' /\ BegunIsMarked' /\ GeneratedOnce'
          /\ ReportIsTrue'
      BY <2>3, <2>4, <2>6 DEF BookInv, CompletedHasVersion, RevisedIsWhole, BegunIsMarked,
         GeneratedOnce, ReportIsTrue, NothingLost, AcceptedHasVersion, Whole, Generates
    <3>4. CompletedIsWhole' /\ CompletedRests' /\ Choosing' /\ Reviewing'
      BY <1>2, <2>3, <3>1 DEF CompletedIsWhole, CompletedRests, Choosing, Reviewing,
                              ChapterPcs, ReviewPcs, AnalysisPcs
    <3>5. Working'
      BY <1>3, <2>1, <2>2, <2>3, <2>6, <3>1 DEF Working, Generates, WorkPcs
    <3>6. Linked'
      <4> SUFFICES ASSUME NothingLost', run'.wf # 0, Generates(run.wf)' PROVE Executing'
        BY DEF Linked
      <4>1. Open
        BY <1>2, <1>3, <2>2, <2>3, <2>4 DEF BookInv, Linked, Executing, Halted, NothingLost
      <4>2. QED
        BY <1>3, <2>3, <2>6, <3>1, <4>1 DEF Open, Executing, Generates
    <3>7. QED BY <3>2, <3>3, <3>4, <3>5, <3>6 DEF BookInv
  <2>7. CASE /\ workflows[w].status = "paused"
             /\ workflows' = [workflows EXCEPT ![w].status = "running"]
             /\ thread' = Resumed(thread, "work", w, FALSE)
    <3>1. /\ ThreadRow(thread') /\ thread'.pc = "work" /\ thread'.wf = w
          /\ thread'.chapter = thread.chapter
      <4>1. "work" \in Pcs
        BY DEF Pcs, WorkPcs
      <4> DEFINE fresh == FALSE
                 pc == "work"
                 v == Resumed(thread, pc, w, fresh)
      <4>2. thread' = v
        BY <2>7
      <4> HIDE DEF fresh, pc
      <4>3. ThreadRow(v) /\ v.pc = pc /\ v.wf = w /\ v.chapter = thread.chapter
        BY <1>2, <4>1, ThreadResumes DEF pc
      <4> HIDE DEF v
      <4>4. QED BY <4>2, <4>3 DEF pc
    <3>2. OneTurns(w, "running")
      BY <1>2, <2>1, <2>7, WorkflowTurns DEF WorkflowStatuses, Live
    <3>3. /\ workflows' \in Seq(WorkflowRows) /\ Len(workflows') = Len(workflows)
          /\ DOMAIN workflows' = DOMAIN workflows
      BY <3>2 DEF OneTurns
    <3>4. \A v \in DOMAIN workflows :
             /\ workflows'[v].chapter = workflows[v].chapter
             /\ workflows'[v].operation = workflows[v].operation
             /\ workflows'[v].status = IF v = w THEN "running" ELSE workflows[v].status
      BY <3>2 DEF OneTurns
    <3>5. RowType'
      BY <1>2, <2>3, <2>4, <3>1, <3>3 DEF RowType
    <3>6. /\ CompletedHasVersion' /\ RevisedIsWhole' /\ BegunIsMarked' /\ GeneratedOnce'
      BY <2>3, <2>4, <3>3, <3>4 DEF BookInv, CompletedHasVersion, RevisedIsWhole,
         BegunIsMarked, GeneratedOnce, Whole, Generates
    <3>7. ReportIsTrue' /\ CompletedIsWhole' /\ CompletedRests' /\ Choosing' /\ Reviewing'
      BY <1>2, <2>3, <2>4, <3>1 DEF BookInv, ReportIsTrue, NothingLost, AcceptedHasVersion,
         CompletedIsWhole, CompletedRests, Choosing, Reviewing, ChapterPcs, ReviewPcs,
         AnalysisPcs
    <3>8. Working'
      BY <1>3, <2>1, <2>2, <2>3, <3>1, <3>3, <3>4 DEF Working, Generates, WorkPcs
    <3>9. Linked'
      <4> SUFFICES ASSUME NothingLost', run'.wf # 0, Generates(run.wf)' PROVE Executing'
        BY DEF Linked
      <4>1. Open
        BY <1>2, <1>3, <2>2, <2>3, <2>4 DEF BookInv, Linked, Executing, Halted, NothingLost
      <4>2. QED
        BY <1>3, <2>1, <2>3, <2>4, <3>1, <3>4, <4>1 DEF Open, Executing, Generates
    <3>10. QED BY <3>5, <3>6, <3>7, <3>8, <3>9 DEF BookInv
  <2>8. QED BY <2>3, <2>5, <2>6, <2>7
<1>6. QED BY <1>4, <1>5

LEMMA ReviseKeepsInv ==
    ASSUME BookInv, BookRunAssumption, ReviseNext
    PROVE  BookInv'
<1>1. /\ At("revise") /\ thread.pc = "revise" /\ thread.tasks # <<>>
      /\ NewWorkflow(Head(thread.tasks), "targeted_revision", Tail(thread.tasks))
      /\ UNCHANGED <<accepted, snapshots, bounds>>
    BY Zenon DEF ReviseNext, At
<1>2. /\ thread.tasks \in Seq(Chapters) /\ run.status # "completed" /\ Whole /\ MapWhole
    BY <1>1 DEF BookInv, RowType, ThreadRow, At, CompletedRests, HaltPcs, Reviewing,
                ReviewPcs
<1>3. Head(thread.tasks) \in Chapters /\ Tail(thread.tasks) \in Seq(Chapters)
    BY <1>1, <1>2
<1>4. QED BY <1>1, <1>2, <1>3, NewWorkflowKeepsInv

\* The versions of the chapters when a workflow ends: only a completed one
\* promotes, and what it promotes is a version.
LEMMA WorkKeepsInv ==
    ASSUME BookInv, BookRunAssumption, Work
    PROVE  BookInv'
<1> DEFINE w == thread.wf
           c == workflows[w].chapter
<1>1. At("work") /\ UNCHANGED <<run, job, snapshots, bounds>>
    BY Zenon DEF Work
<1>2. PICK end \in WorkEnds(w), use \in Uses :
         /\ workflows' = [workflows EXCEPT ![w].status = end, ![w].used = @ + use]
         /\ IF end = "completed"
            THEN \E v \in Promotable(w) : accepted' = [accepted EXCEPT ![c] = v]
            ELSE UNCHANGED accepted
         /\ CASE end \in {"failed", "running"} -> Raise
              [] end = "paused" -> Goto("pausing")
              [] end \in {"completed_needs_review", "cancelled"} ->
                   IF workflows[w].operation = "targeted_revision"
                   THEN Raise ELSE Goto("record")
              [] end = "completed" -> Goto("record")
    BY Zenon DEF Work
<1>3. /\ RowType /\ ThreadRow(thread) /\ N \in Nat /\ thread.pc = "work"
      /\ run.status # "completed" /\ Working /\ workflows \in Seq(WorkflowRows)
      /\ accepted \in [Chapters -> Nat] /\ Uses \subseteq Nat
    BY <1>1 DEF BookInv, RowType, At, CompletedRests, HaltPcs, BookRunAssumption
<1>4. /\ w \in DOMAIN workflows /\ thread.chapter \in Chapters /\ run.wf = w
      /\ ~Generates(w) => MapWhole
    BY <1>3 DEF Working, WorkPcs
<1>5. /\ workflows[w] \in WorkflowRows /\ c \in Chapters /\ w \in Nat
      /\ workflows[w].operation \in {"generate", "targeted_revision"}
    BY <1>3, <1>4, WorkflowIsRow
<1>6. /\ end \in {"completed", "completed_needs_review", "failed", "running", "paused",
                  "cancelled"}
      /\ end \in {"paused", "cancelled"} => Generates(w)
    BY DEF WorkEnds, Generates
\* The rows.
<1>7. /\ workflows' \in Seq(WorkflowRows) /\ Len(workflows') = Len(workflows)
      /\ DOMAIN workflows' = DOMAIN workflows
      /\ \A v \in DOMAIN workflows :
            /\ workflows'[v].chapter = workflows[v].chapter
            /\ workflows'[v].operation = workflows[v].operation
            /\ workflows'[v].status = IF v = w THEN end ELSE workflows[v].status
  <2>1. OneTurns(w, end)
    <3>1. end \in WorkflowStatuses /\ use \in Nat
      BY <1>3, <1>6 DEF WorkflowStatuses, Live
    <3>2. workflows' = [workflows EXCEPT ![w].status = end, ![w].used = @ + use]
      BY <1>2, Zenon
    <3>3. RowType /\ w \in DOMAIN workflows
      BY <1>3, <1>4, Zenon
    <3> HIDE DEF w
    <3>4. QED BY <3>1, <3>2, <3>3, WorkflowEnds, Zenon
  <2>2. QED BY <2>1 DEF OneTurns
<1>8. /\ accepted' \in [Chapters -> Nat]
      /\ \A d \in Chapters : accepted[d] # 0 => accepted'[d] # 0
      /\ end = "completed" => accepted'[c] # 0
      /\ end # "completed" => accepted' = accepted
  <2>1. CASE end # "completed"
    BY <1>2, <1>3, <2>1
  <2>2. CASE end = "completed"
    <3>1. PICK v \in Promotable(w) : accepted' = [accepted EXCEPT ![c] = v]
      BY <1>2, <2>2
    <3>2. v \in Nat /\ v # 0
      <4>1. CASE v = w + 1
        BY <1>5, <4>1
      <4>2. CASE v = accepted[c] /\ ~Generates(w)
        BY <1>3, <1>4, <1>5, <4>2 DEF BookInv, RevisedIsWhole, Whole
      <4>3. QED BY <4>1, <4>2 DEF Promotable, Generates
    <3>3. QED BY <1>3, <1>5, <2>2, <3>1, <3>2
  <2>3. QED BY <2>1, <2>2
\* The thread.
<1>9. \/ end \in {"failed", "running", "completed_needs_review"} /\ Raise
      \/ end = "paused" /\ Goto("pausing")
      \/ end \in {"completed_needs_review", "cancelled"} /\ Generates(w) /\ Goto("record")
      \/ end = "completed" /\ Goto("record")
  <2>1. CASE end \in {"failed", "running"}
    BY <1>2, <2>1
  <2>2. CASE end = "paused"
    BY <1>2, <2>2
  <2>3. CASE end \in {"completed_needs_review", "cancelled"}
    <3>1. IF workflows[w].operation = "targeted_revision" THEN Raise ELSE Goto("record")
      BY <1>2, <2>3
    <3>2. QED BY <1>5, <1>6, <2>3, <3>1 DEF Generates
  <2>4. CASE end = "completed"
    BY <1>2, <2>4
  <2>5. QED BY <1>6, <2>1, <2>2, <2>3, <2>4
<1> HIDE DEF w, c
<1>10. /\ ThreadRow(thread') /\ Same(thread, thread')
       /\ \/ end # "completed" /\ thread'.pc = "failing"
          \/ end = "paused" /\ thread'.pc = "pausing"
          \/ end \in {"completed_needs_review", "cancelled"} /\ Generates(w)
             /\ thread'.pc = "record"
          \/ end = "completed" /\ thread'.pc = "record"
    BY <1>3, <1>9, PlaceChanges, ExceptionIsRaised DEF Pcs, FreePcs, WorkPcs
<1>11. run' = run /\ job' = job /\ snapshots' = snapshots /\ crashes' = crashes /\ faults' = faults
    BY <1>1 DEF bounds
<1>12. RowType'
    BY <1>3, <1>7, <1>8, <1>10, <1>11 DEF RowType
<1>13. CompletedHasVersion'
  <2>1. \A v \in DOMAIN workflows : workflows[v].chapter \in Chapters
    BY <1>3, WorkflowIsRow
  <2>2. QED BY <1>7, <1>8, <2>1 DEF BookInv, CompletedHasVersion, c
<1>14. RevisedIsWhole'
    BY <1>7, <1>8 DEF BookInv, RevisedIsWhole, Generates, Whole
<1>15. BegunIsMarked' /\ GeneratedOnce'
    BY <1>7, <1>11 DEF BookInv, BegunIsMarked, GeneratedOnce, Generates
<1>16. ReportIsTrue'
    BY <1>8, <1>11 DEF BookInv, ReportIsTrue, NothingLost, AcceptedHasVersion
<1>17. CompletedIsWhole' /\ CompletedRests' /\ Choosing' /\ Reviewing'
    BY <1>3, <1>10, <1>11 DEF CompletedIsWhole, CompletedRests, Choosing, Reviewing,
                              ChapterPcs, ReviewPcs, AnalysisPcs
<1>18. Working'
  <2> SUFFICES ASSUME thread'.pc = "record" PROVE Working'
    BY <1>10 DEF Working, WorkPcs
  <2>1. workflows'[w].status = end /\ workflows'[w].operation = workflows[w].operation
    BY <1>4, <1>7
  <2>2. /\ end \in {"completed", "completed_needs_review", "cancelled"}
        /\ ~Generates(w) => end = "completed"
    BY <1>10
  <2>3. thread'.wf = w /\ thread'.chapter = thread.chapter
    BY <1>10 DEF Same, w
  <2>4. QED BY <1>4, <1>7, <1>11, <2>1, <2>2, <2>3 DEF Working, Generates, MapWhole
<1>19. Linked'
  <2> SUFFICES ASSUME NothingLost', run'.wf # 0, Generates(run.wf)'
               PROVE  Executing' \/ Halted' \/ Open'
    BY DEF Linked
  <2>1. Generates(w) /\ Executing
    <3>1. Generates(w)
      BY <1>4, <1>7, <1>11 DEF Generates
    <3>2. QED BY <1>3, <1>4, <1>11, <3>1 DEF BookInv, Linked, Halted, Open, NothingLost
  <2>2. workflows'[w].chapter = c /\ workflows'[w].operation = workflows[w].operation
    BY <1>4, <1>7 DEF c
  <2>3. CASE thread'.pc = "failing" /\ end # "completed"
    BY <1>3, <1>4, <1>8, <1>11, <2>1, <2>2, <2>3 DEF Executing, Open, c
  <2>4. CASE end = "paused" /\ thread'.pc = "pausing"
    BY <1>3, <1>4, <1>8, <1>11, <2>1, <2>2, <2>4 DEF Executing, Open, c
  <2>5. CASE thread'.pc = "record"
    BY <1>3, <1>4, <1>10, <1>11, <2>1, <2>2, <2>5 DEF Executing, Generates, Same, c
  <2>6. QED BY <1>10, <2>3, <2>4, <2>5
<1>20. QED
    BY <1>12, <1>13, <1>14, <1>15, <1>16, <1>17, <1>18, <1>19 DEF BookInv
\* The result of a workflow is recorded: a chapter whose workflow completed
\* has a version, and the run lets the workflow go.
LEMMA RecordKeepsInv ==
    ASSUME BookInv, BookRunAssumption, RecordCompletion
    PROVE  BookInv'
<1> DEFINE w == thread.wf
           c == thread.chapter
           mark == Recorded(w)
           map == [run.map EXCEPT ![c] = mark]
<1>1. /\ At("record") /\ Goto("usage") /\ run' = Remapped(run, 0, map)
      /\ job' = [job EXCEPT !.wf = 0]
      /\ workflows' = [workflows EXCEPT ![w].recorded = TRUE]
      /\ UNCHANGED <<accepted, snapshots, bounds>>
    BY Zenon DEF RecordCompletion, Remapped
<1>2. /\ RowType /\ RunRow(run) /\ ThreadRow(thread) /\ N \in Nat /\ thread.pc = "record"
      /\ run.status # "completed" /\ Working /\ workflows \in Seq(WorkflowRows)
      /\ run.map \in [Chapters -> Marks] /\ JobRow(job)
    BY <1>1 DEF BookInv, RowType, RunRow, At, CompletedRests, HaltPcs, BookRunAssumption
<1>3. /\ w \in DOMAIN workflows /\ c \in Chapters /\ run.wf = w
      /\ ~Generates(w) => MapWhole /\ workflows[w].status = "completed"
      /\ workflows[w].status \in {"completed", "completed_needs_review", "cancelled"}
    BY <1>2 DEF Working, WorkPcs
<1>4. workflows[w] \in WorkflowRows
    BY <1>2, <1>3, WorkflowIsRow
<1>5. /\ mark \in {"accepted", "needs_review"}
      /\ workflows[w].status = "completed" <=> mark = "accepted"
    BY DEF Recorded
<1> HIDE DEF mark
<1>6. /\ map \in [Chapters -> Marks] /\ map[c] = mark
      /\ \A d \in Chapters : d # c => map[d] = run.map[d]
    BY <1>2, <1>3, <1>5 DEF Marks
<1> HIDE DEF map
<1>7. /\ RunRow(run') /\ run'.wf = 0 /\ run'.map = map /\ run'.status = run.status
    BY <1>1, <1>2, <1>6, RunIsRecorded
<1>8. ThreadRow(thread') /\ thread'.pc = "usage" /\ Same(thread, thread')
    BY <1>1, <1>2, PlaceChanges DEF Pcs, WorkPcs
<1>9. /\ workflows' \in Seq(WorkflowRows) /\ Len(workflows') = Len(workflows)
      /\ Len(workflows) \in Nat /\ DOMAIN workflows' = DOMAIN workflows
      /\ \A v \in DOMAIN workflows :
            /\ workflows'[v].chapter = workflows[v].chapter
            /\ workflows'[v].operation = workflows[v].operation
            /\ workflows'[v].status = workflows[v].status
  <2>1. OneTurns(w, workflows[w].status)
    BY <1>1, <1>2, <1>3, WorkflowIsRecorded
  <2>2. Len(workflows) \in Nat
    BY <1>2
  <2>3. QED BY <2>1, <2>2 DEF OneTurns
<1> HIDE DEF w, c
<1>10. /\ accepted' = accepted /\ snapshots' = snapshots
       /\ crashes' = crashes /\ faults' = faults /\ JobRow(job')
    BY <1>1, <1>2 DEF bounds, JobRow
<1>11. RowType'
    BY <1>2, <1>7, <1>8, <1>9, <1>10 DEF RowType
<1>12. CompletedHasVersion' /\ RevisedIsWhole' /\ GeneratedOnce'
    BY <1>9, <1>10 DEF BookInv, CompletedHasVersion, RevisedIsWhole, GeneratedOnce,
                       Generates, Whole
<1>13. BegunIsMarked'
  <2>1. \A v \in DOMAIN workflows : workflows[v].chapter \in Chapters
    BY <1>2, WorkflowIsRow
  <2>2. QED BY <1>5, <1>6, <1>7, <1>9, <2>1 DEF BookInv, BegunIsMarked, Generates
<1>14. ReportIsTrue'
  <2> SUFFICES ASSUME NothingLost', NEW d \in Chapters, run'.map[d] = "accepted"
               PROVE  accepted[d] # 0
    BY <1>10 DEF ReportIsTrue, NothingLost, AcceptedHasVersion
  <2>1. CASE d # c
    BY <1>6, <1>7, <1>10, <2>1 DEF BookInv, ReportIsTrue, NothingLost, AcceptedHasVersion
  <2>2. CASE d = c
    <3>1. workflows[w].status = "completed"
      BY <1>5, <1>6, <1>7, <2>2
    <3>2. w # 0
      BY <1>2, <1>3
    <3>3. CASE Generates(w)
      <4>1. Executing
        BY <1>2, <1>3, <1>10, <3>2, <3>3
        DEF BookInv, Linked, Halted, Open, NothingLost
      <4>2. QED
        BY <1>3, <2>2, <3>1, <4>1 DEF Executing, BookInv, CompletedHasVersion, c
    <3>4. CASE ~Generates(w)
      BY <1>3, <3>4 DEF BookInv, RevisedIsWhole, Whole
    <3>5. QED BY <3>3, <3>4
  <2>3. QED BY <2>1, <2>2
<1>15. CompletedIsWhole' /\ CompletedRests' /\ Choosing' /\ Reviewing' /\ Linked'
    BY <1>2, <1>7, <1>8 DEF CompletedIsWhole, CompletedRests, Choosing, Reviewing, Linked,
                            ChapterPcs, ReviewPcs, AnalysisPcs
<1>16. Working'
  <2>1. ~Generates(w) => MapWhole'
    BY <1>3, <1>5, <1>6, <1>7 DEF MapWhole
  <2>2. /\ thread'.wf = w /\ thread'.chapter = c
        /\ workflows'[w].status = workflows[w].status
        /\ workflows'[w].operation = workflows[w].operation
    BY <1>3, <1>8, <1>9 DEF Same, w, c
  <2>3. QED BY <1>3, <1>8, <1>9, <2>1, <2>2 DEF Working, Generates
<1>17. QED
    BY <1>11, <1>12, <1>13, <1>14, <1>15, <1>16 DEF BookInv

\* What the analysis of a snapshot needs when the thread comes to it.
LEMMA ReviewKeepsInv ==
    ASSUME BookInv, N \in Nat, thread.pc = "snapshot",
           thread'.pc \in {"analyze", "analysis_control"},
           ThreadRow(thread'), RunRow(run'), run'.status = run.status, run'.map = run.map,
           run'.wf = run.wf, run'.current = run.current,
           snapshots' \in Seq(SnapshotRows), Whole,
           thread'.snapshot \in DOMAIN snapshots',
           snapshots'[thread'.snapshot].map = accepted,
           UNCHANGED <<job, accepted, workflows, crashes, faults>>
    PROVE  BookInv'
<1>1. /\ RowType /\ run.status # "completed" /\ MapWhole
    BY DEF BookInv, CompletedRests, HaltPcs, Reviewing, ReviewPcs
<1>2. RowType'
    BY <1>1 DEF RowType
<1>3. /\ CompletedHasVersion' /\ RevisedIsWhole' /\ BegunIsMarked' /\ GeneratedOnce'
      /\ ReportIsTrue'
    BY DEF BookInv, CompletedHasVersion, RevisedIsWhole, BegunIsMarked, GeneratedOnce,
           ReportIsTrue, NothingLost, AcceptedHasVersion, Whole, Generates
<1>4. Choosing' /\ Working' /\ CompletedRests' /\ CompletedIsWhole'
    BY <1>1 DEF Choosing, Working, CompletedRests, CompletedIsWhole, ChapterPcs, WorkPcs
<1>5. Reviewing'
  <2>1. Whole' /\ MapWhole'
    BY <1>1 DEF Whole, MapWhole
  <2>2. QED BY <2>1 DEF Reviewing
<1>6. Linked'
  <2> SUFFICES ASSUME NothingLost', run'.wf # 0, Generates(run.wf)' PROVE FALSE
    BY DEF Linked
  <2>1. QED BY DEF BookInv, Linked, Executing, Halted, Open, NothingLost, Generates
<1>7. QED BY <1>2, <1>3, <1>4, <1>5, <1>6 DEF BookInv

\* A snapshot with the hash of the accepted versions is taken up again, and
\* otherwise one of these versions is added.
LEMMA SnapshotKeepsInv ==
    ASSUME BookInv, BookRunAssumption, BuildSnapshot
    PROVE  BookInv'
<1> DEFINE next == IF thread.again THEN "analyze" ELSE "analysis_control"
           s == Len(snapshots) + 1
           row == [map |-> accepted, status |-> "candidate", evaluation |-> "none"]
           best == IF run.best = 0 THEN s ELSE run.best
           missing == \E c \in Chapters : accepted[c] = 0
<1>1. /\ At("snapshot") /\ UNCHANGED <<job, accepted, workflows, bounds>>
    BY Zenon DEF BuildSnapshot
<1>2. /\ RowType /\ RunRow(run) /\ ThreadRow(thread) /\ N \in Nat
      /\ thread.pc = "snapshot" /\ snapshots \in Seq(SnapshotRows)
      /\ accepted \in [Chapters -> Nat] /\ crashes' = crashes /\ faults' = faults
    BY <1>1 DEF BookInv, RowType, At, BookRunAssumption, bounds
<1>3. next \in {"analyze", "analysis_control"} /\ next \in Pcs
    BY DEF Pcs, ReviewPcs, AnalysisPcs
<1>4. CASE missing
  <2>1. Raise /\ UNCHANGED <<run, snapshots>>
    BY <1>4, Zenon DEF BuildSnapshot
  <2>2. QED BY <1>1, <1>2, <2>1, RaiseKeepsInv DEF HeldPcs
<1>5. CASE ~missing /\ SameContent # {}
  <2> DEFINE t == Min(SameContent)
  <2>1. /\ thread' = Frozen(thread, next, t) /\ run' = run /\ snapshots' = snapshots
    BY <1>5, Zenon DEF BuildSnapshot, Frozen
  <2>2. t \in DOMAIN snapshots /\ snapshots[t].map = accepted
    <3>1. SameContent \subseteq Nat
      BY <1>2 DEF SameContent
    <3>2. t \in SameContent
      BY <1>5, <3>1, FirstOfChapters
    <3>3. QED BY <3>2 DEF SameContent
  <2>3. Whole
    BY <1>5 DEF Whole
  <2> HIDE DEF t, next
  <2>4. ThreadRow(thread') /\ thread'.pc = next /\ thread'.snapshot = t
    BY <1>2, <1>3, <2>1, ThreadFreezes
  <2>5. QED BY <1>1, <1>2, <1>3, <2>1, <2>2, <2>3, <2>4, ReviewKeepsInv
<1>6. CASE ~missing /\ SameContent = {}
  <2>1. /\ snapshots' = Append(snapshots, row)
        /\ run' = [run EXCEPT !.snapshot = s, !.best = IF @ = 0 THEN s ELSE @]
        /\ thread' = Frozen(thread, next, s)
    BY <1>6, Zenon DEF BuildSnapshot, Frozen
  <2>2. run' = Snapped(run, s, best)
    BY <2>1, Zenon DEF Snapped
  <2>3. row \in SnapshotRows /\ row.map = accepted
    BY <1>2 DEF SnapshotRows
  <2>4. Whole
    BY <1>6 DEF Whole
  <2> HIDE DEF row, best, next
  <2>5. /\ snapshots' \in Seq(SnapshotRows) /\ s \in DOMAIN snapshots'
        /\ snapshots'[s] = row
    BY <1>2, <2>1, <2>3
  <2> HIDE DEF s
  <2>6. ThreadRow(thread') /\ thread'.pc = next /\ thread'.snapshot = s
    BY <1>2, <1>3, <2>1, ThreadFreezes
  <2>7. /\ RunRow(run') /\ run'.status = run.status
        /\ run'.current = run.current /\ run'.wf = run.wf /\ run'.map = run.map
    BY <1>2, <2>2, RunSnaps
  <2>8. QED BY <1>1, <1>2, <1>3, <2>3, <2>4, <2>5, <2>6, <2>7, ReviewKeepsInv
<1>7. QED BY <1>4, <1>5, <1>6

\* A run completes on the snapshot the analysis has accepted.
LEMMA FinishKeepsInv ==
    ASSUME BookInv, BookRunAssumption, FinishCompleted
    PROVE  BookInv'
<1>1. /\ At("complete") /\ UNCHANGED <<job, accepted, workflows, snapshots, bounds>>
    BY Zenon DEF FinishCompleted
<1>2. CASE ~CanGo("completed")
  <2>1. Raise /\ run' = run
    BY <1>2, Zenon DEF FinishCompleted
  <2>2. QED BY <1>1, <2>1, RaiseKeepsInv DEF At, HeldPcs
<1>3. CASE CanGo("completed")
  <2> DEFINE s == thread.snapshot
  <2>1. /\ run' = Concluded(run, "completed", s, s) /\ Goto("job_succeed")
    BY <1>3, Zenon DEF FinishCompleted, Concluded
  <2>2. /\ RowType /\ RunRow(run) /\ ThreadRow(thread) /\ N \in Nat
        /\ thread.pc = "complete" /\ snapshots \in Seq(SnapshotRows) /\ Reviewing
    BY <1>1 DEF BookInv, RowType, At, BookRunAssumption
  <2>3. /\ Whole /\ MapWhole /\ s \in DOMAIN snapshots /\ s # 0
        /\ snapshots[s].map = accepted /\ snapshots[s].status = "accepted"
    <3>1. /\ Whole /\ MapWhole /\ s \in DOMAIN snapshots
          /\ snapshots[s].map = accepted /\ snapshots[s].status = "accepted"
      <4>1. /\ "complete" \in ReviewPcs \ {"retain"} /\ "complete" \in AnalysisPcs
        BY DEF ReviewPcs, AnalysisPcs
      <4>2. QED BY <2>2, <4>1 DEF Reviewing
    <3> HIDE DEF s
    <3>2. DOMAIN snapshots = 1..Len(snapshots) /\ Len(snapshots) \in Nat
      BY <2>2, LenProperties
    <3>3. s # 0
      BY <3>1, <3>2
    <3>4. QED BY <3>1, <3>3
  <2> HIDE DEF s
  <2>4. /\ RunRow(run') /\ run'.status = "completed" /\ run'.snapshot = s
        /\ run'.current = run.current /\ run'.wf = run.wf /\ run'.map = run.map
    BY <2>1, <2>2, RunConcludes DEF Statuses, Terminal
  <2>5. ThreadRow(thread') /\ thread'.pc = "job_succeed"
    BY <2>1, <2>2, PlaceChanges DEF Pcs, FreePcs, HaltPcs
  <2>6. /\ job' = job /\ accepted' = accepted /\ workflows' = workflows
        /\ snapshots' = snapshots /\ crashes' = crashes /\ faults' = faults
    BY <1>1 DEF bounds
  <2>7. RowType'
    BY <2>2, <2>4, <2>5, <2>6 DEF RowType
  <2>8. /\ CompletedHasVersion' /\ RevisedIsWhole' /\ BegunIsMarked' /\ GeneratedOnce'
        /\ ReportIsTrue'
    BY <2>4, <2>6 DEF BookInv, CompletedHasVersion, RevisedIsWhole, BegunIsMarked,
       GeneratedOnce, ReportIsTrue, NothingLost, AcceptedHasVersion, Whole, Generates
  <2>9. Choosing' /\ Working' /\ Reviewing' /\ CompletedRests'
    BY <2>5 DEF Choosing, Working, Reviewing, CompletedRests, ChapterPcs, WorkPcs,
                ReviewPcs, AnalysisPcs, HaltPcs
  <2>10. CompletedIsWhole'
    BY <2>3, <2>4, <2>6 DEF CompletedIsWhole, Whole, MapWhole
  <2>11. Linked'
    <3> SUFFICES ASSUME NothingLost', run'.wf # 0, Generates(run.wf)' PROVE FALSE
      BY DEF Linked
    <3>1. QED BY <2>2, <2>4, <2>6 DEF BookInv, Linked, Executing, Halted, Open,
                                      NothingLost, Generates
  <2>12. QED BY <2>7, <2>8, <2>9, <2>10, <2>11 DEF BookInv
<1>4. QED BY <1>2, <1>3

LEMMA NextKeepsInv ==
    ASSUME BookInv, BookRunAssumption, [Next]_vars
    PROVE  BookInv'
<1>1. CASE Handler
  <2>1. CASE Schedule
    BY <2>1, ScheduleKeepsInv
  <2>2. CASE MarkRunning
    BY <2>2, MarkKeepsInv
  <2>3. CASE StartChapter
    BY <2>3, StartKeepsInv
  <2>4. CASE Work
    BY <2>4, WorkKeepsInv
  <2>5. CASE RecordCompletion
    BY <2>5, RecordKeepsInv
  <2>6. CASE BuildSnapshot
    BY <2>6, SnapshotKeepsInv
  <2>7. CASE FinishCompleted
    BY <2>7, FinishKeepsInv
  <2>8. CASE ReviseNext
    BY <2>8, ReviseKeepsInv
  <2>9. CASE Enter
    BY <2>9, EnterIsQuiet, QuietKeepsInv
  <2>10. CASE ChapterControl \/ CheckControl \/ ReviewControl \/ AnalysisControl
    BY <2>10, ControlIsQuiet, QuietKeepsInv
  <2>11. CASE Pausing
    BY <2>11, PausingIsQuiet, QuietKeepsInv
  <2>12. CASE Cancelling
    BY <2>12, CancellingIsQuiet, QuietKeepsInv
  <2>13. CASE Failing
    BY <2>13, FailingIsQuiet, QuietKeepsInv
  <2>14. CASE JobOutcome
    BY <2>14, OutcomeIsQuiet, QuietKeepsInv
  <2>15. CASE Initialize
    BY <2>15, InitializeIsQuiet, QuietKeepsInv
  <2>16. CASE BudgetGate
    BY <2>16, BudgetGateIsQuiet, QuietKeepsInv
  <2>17. CASE UpdateUsage
    BY <2>17, UsageIsQuiet, QuietKeepsInv
  <2>18. CASE PeriodicCheck
    BY <2>18, PeriodicCheckIsQuiet, QuietKeepsInv
  <2>19. CASE SetGlobalReview
    BY <2>19, SetReviewIsQuiet, QuietKeepsInv
  <2>20. CASE Analyze
    BY <2>20, AnalyzeIsQuiet, QuietKeepsInv
  <2>21. CASE PersistAnalysis
    BY <2>21, PersistIsQuiet, QuietKeepsInv
  <2>22. CASE AcceptSnapshot
    BY <2>22, AcceptIsQuiet, QuietKeepsInv
  <2>23. CASE HandleRevisionOrReview
    BY <2>23, HandleIsQuiet, QuietKeepsInv
  <2>24. CASE RetainSnapshot
    BY <2>24, RetainIsQuiet, QuietKeepsInv
  <2>25. CASE BuildRevisionPlan
    BY <2>25, PlanIsQuiet, QuietKeepsInv
  <2>26. CASE ReviewAgain
    BY <2>26, ReviewAgainIsQuiet, QuietKeepsInv
  <2>27. CASE FinishNeedsReview
    BY <2>27, FinishReviewIsQuiet, QuietKeepsInv
  <2>28. QED
    BY <1>1, <2>1, <2>2, <2>3, <2>4, <2>5, <2>6, <2>7, <2>8, <2>9, <2>10, <2>11, <2>12,
       <2>13, <2>14, <2>15, <2>16, <2>17, <2>18, <2>19, <2>20, <2>21, <2>22, <2>23, <2>24,
       <2>25, <2>26, <2>27, Zenon DEF Handler
<1>2. CASE Claim
  BY <1>2, ClaimIsQuiet, QuietKeepsInv
<1>3. CASE Recover
  BY <1>3, RecoverIsQuiet, QuietKeepsInv
<1>4. CASE RequestPause \/ PauseTheJob \/ PauseTheRun
  BY <1>4, PauseIsQuiet, QuietKeepsInv
<1>5. CASE RequestResume \/ ResumeTheJob
  BY <1>5, ResumeIsQuiet, QuietKeepsInv
<1>6. CASE RequestCancel \/ CancelTheJob \/ CancelTheRun
  BY <1>6, CancelIsQuiet, QuietKeepsInv
<1>7. CASE JobRequest
  BY <1>7, JobRequestIsQuiet, QuietKeepsInv
<1>8. CASE Crash
  BY <1>8, CrashIsQuiet, QuietKeepsInv
<1>9. CASE DatabaseFault
  BY <1>9, FaultIsQuiet, QuietKeepsInv
<1>10. CASE UNCHANGED vars
  BY <1>10, StutterIsQuiet, QuietKeepsInv
<1>11. QED
  BY <1>1, <1>2, <1>3, <1>4, <1>5, <1>6, <1>7, <1>8, <1>9, <1>10, Zenon DEF Next, Api, User

-----------------------------------------------------------------------------
(***************************************************************************)
(* The theorems.                                                           *)
(***************************************************************************)

LEMMA BookInvHolds ==
    Spec => []BookInv
<1>1. Init => BookInv
  BY BookRunAssumption, InitInv
<1>2. BookInv /\ [Next]_vars => BookInv'
  BY BookRunAssumption, NextKeepsInv
<1>3. QED BY <1>1, <1>2, PTL DEF Spec

\* Until a worker dies or the database fails a second time, a chapter that a
\* run reports as accepted has an accepted version: _record_chapter_completion
\* writes the mark from the outcome of the workflow the run refers to, whatever
\* users ask in between and wherever the one error strikes
\* (application/books.py). A death or a second error may leave the link of the
\* run behind a request it has not yet seen (AcceptedHasVersion).
THEOREM ReportsAreTrue ==
    Spec => []ReportIsTrue
<1>1. BookInv => ReportIsTrue
  BY DEF BookInv
<1>2. QED BY <1>1, BookInvHolds, PTL

\* A chapter is generated once in a run: _execute_chapter continues the
\* workflow the run refers to after every pause, resume, retry and crash, and the
\* scheduler takes up no chapter that was begun (application/books.py).
THEOREM ChaptersAreGeneratedOnce ==
    Spec => []GeneratedOnce
<1>1. BookInv => GeneratedOnce
  BY DEF BookInv
<1>2. QED BY <1>1, BookInvHolds, PTL

\* _finish_completed closes a run on a snapshot that is accepted and holds the
\* versions accepted now, one for every chapter: nothing revises a chapter
\* between the analysis of the snapshot and the end of the run, nor after it
\* (application/books.py).
THEOREM CompletedBooksAreWhole ==
    Spec => []CompletedIsWhole
<1>1. BookInv => CompletedIsWhole
  BY DEF BookInv
<1>2. QED BY <1>1, BookInvHolds, PTL
-----------------------------------------------------------------------------
(***************************************************************************)
(* The chapters and the job keep their lifecycles.                         *)
(***************************************************************************)

\* A thread executes a job that is started and not yet out of execution, which
\* is why no request on the job reaches the workflow the thread is in.
JobHeld ==
    thread.pc # "idle" =>
        job.started = TRUE /\ job.status \in {"running", "pause_requested", "cancel_requested"}
WorkRuns == thread.pc = "work" => workflows[thread.wf].status = "running"
PartsInv == job.status \in JobStatuses /\ JobHeld /\ WorkRuns

PhasesOf(c) == [w \in RunsOf(c) |-> workflows[w].status]

LEMMA ChapterRests ==
    ASSUME NEW c, PhasesOf(c)' = PhasesOf(c), accepted'[c] = accepted[c]
    PROVE  [Chapter(c)!Next]_(Chapter(c)!chapterVars)
BY Zenon DEF Chapter!chapterVars, PhasesOf

LEMMA ChapterMoves ==
    ASSUME NEW c, NEW w \in RunsOf(c), NEW sources, NEW target,
           workflows[w].status \in sources,
           PhasesOf(c)' = [PhasesOf(c) EXCEPT ![w] = target], accepted'[c] = accepted[c]
    PROVE  w \in DOMAIN PhasesOf(c) /\ Chapter(c)!Move(w, sources, target)
<1>1. w \in DOMAIN PhasesOf(c) /\ PhasesOf(c)[w] \in sources
    BY DEF PhasesOf
<1>2. QED BY <1>1, Zenon DEF Chapter!Move, PhasesOf

LEMMA PhasesTurn ==
    ASSUME NEW w \in DOMAIN workflows, NEW t, OneTurns(w, t), NEW c
    PROVE  IF workflows[w].chapter = c
           THEN w \in RunsOf(c) /\ PhasesOf(c)' = [PhasesOf(c) EXCEPT ![w] = t]
           ELSE PhasesOf(c)' = PhasesOf(c)
<1>1. /\ DOMAIN workflows' = DOMAIN workflows
      /\ \A v \in DOMAIN workflows :
            /\ workflows'[v].chapter = workflows[v].chapter
            /\ workflows'[v].status = IF v = w THEN t ELSE workflows[v].status
    BY DEF OneTurns
<1>2. RunsOf(c)' = RunsOf(c) /\ \A v \in RunsOf(c) : v \in DOMAIN workflows
    BY <1>1 DEF RunsOf
<1>3. PhasesOf(c)' = [v \in RunsOf(c) |-> IF v = w THEN t ELSE workflows[v].status]
    BY <1>1, <1>2 DEF PhasesOf
<1>4. CASE workflows[w].chapter = c
  <2>1. w \in RunsOf(c)
    BY <1>4 DEF RunsOf
  <2>2. QED BY <1>3, <1>4, <2>1 DEF PhasesOf
<1>5. CASE workflows[w].chapter # c
  <2>1. w \notin RunsOf(c)
    BY <1>5 DEF RunsOf
  <2>2. QED BY <1>3, <1>5, <2>1 DEF PhasesOf
<1>6. QED BY <1>4, <1>5

\* A workflow turns and promotes nothing.
LEMMA TurnIsLawful ==
    ASSUME NEW w \in DOMAIN workflows, NEW t, OneTurns(w, t), UNCHANGED accepted, NEW c,
           \/ workflows[w].status = t
           \/ workflows[w].status = "running" /\ t = "paused"
           \/ workflows[w].status = "paused" /\ t = "running"
           \/ workflows[w].status \in {"running", "paused"} /\ t \in {"failed", "cancelled"}
           \/ workflows[w].status = "running" /\ t = "completed_needs_review"
    PROVE  [Chapter(c)!Next]_(Chapter(c)!chapterVars)
<1> DEFINE s == workflows[w].status
<1>1. accepted'[c] = accepted[c]
    OBVIOUS
<1>2. CASE workflows[w].chapter # c
    BY <1>1, <1>2, PhasesTurn, ChapterRests
<1>3. CASE workflows[w].chapter = c /\ s = t
  <2>1. w \in RunsOf(c) /\ PhasesOf(c)' = [PhasesOf(c) EXCEPT ![w] = t]
    BY <1>3, PhasesTurn
  <2>2. PhasesOf(c)' = PhasesOf(c)
    BY <1>3, <2>1 DEF PhasesOf
  <2>3. QED BY <1>1, <2>2, ChapterRests
<1>4. CASE workflows[w].chapter = c /\ s # t
  <2>1. w \in RunsOf(c) /\ PhasesOf(c)' = [PhasesOf(c) EXCEPT ![w] = t]
    BY <1>4, PhasesTurn
  <2>2. ASSUME NEW sources, s \in sources
        PROVE  w \in DOMAIN PhasesOf(c) /\ Chapter(c)!Move(w, sources, t)
    BY <1>1, <2>1, <2>2, ChapterMoves
  <2> HIDE DEF s
  <2>3. w \in DOMAIN PhasesOf(c)
    BY <2>2
  <2>4. CASE s = "running" /\ t = "paused"
    <3>1. Chapter(c)!Pause(w)
      BY <2>2, <2>4 DEF Chapter!Pause
    <3>2. QED BY <2>3, <3>1, Zenon DEF Chapter!Next, PhasesOf
  <2>5. CASE s = "paused" /\ t = "running"
    <3>1. Chapter(c)!Resume(w)
      BY <2>2, <2>5 DEF Chapter!Resume
    <3>2. QED BY <2>3, <3>1, Zenon DEF Chapter!Next, PhasesOf
  <2>6. CASE s \in {"running", "paused"} /\ t = "failed"
    <3>1. Chapter(c)!Fail(w)
      BY <2>2, <2>6 DEF Chapter!Fail, Chapter!Live
    <3>2. QED BY <2>3, <3>1, Zenon DEF Chapter!Next, PhasesOf
  <2>7. CASE s \in {"running", "paused"} /\ t = "cancelled"
    <3>1. Chapter(c)!Cancel(w)
      BY <2>2, <2>7 DEF Chapter!Cancel, Chapter!Live
    <3>2. QED BY <2>3, <3>1, Zenon DEF Chapter!Next, PhasesOf
  <2>8. CASE s = "running" /\ t = "completed_needs_review"
    <3>1. Chapter(c)!Review(w)
      BY <2>2, <2>8 DEF Chapter!Review, Chapter!Live
    <3>2. QED BY <2>3, <3>1, Zenon DEF Chapter!Next, PhasesOf
  <2>9. QED BY <1>4, <2>4, <2>5, <2>6, <2>7, <2>8 DEF s
<1>5. QED BY <1>2, <1>3, <1>4

\* A running workflow completes and its chapter has another accepted version.
LEMMA PromotionIsLawful ==
    ASSUME NEW w \in DOMAIN workflows, OneTurns(w, "completed"),
           accepted \in [Chapters -> Nat], NEW v \in Nat \ {0},
           accepted' = [accepted EXCEPT ![workflows[w].chapter] = v], NEW c \in Chapters
    PROVE  [Chapter(c)!Next]_(Chapter(c)!chapterVars)
<1>1. CASE workflows[w].chapter # c
  <2>1. accepted'[c] = accepted[c]
    BY <1>1
  <2>2. QED BY <1>1, <2>1, PhasesTurn, ChapterRests
<1>2. CASE workflows[w].chapter = c
  <2>1. w \in RunsOf(c) /\ PhasesOf(c)' = [PhasesOf(c) EXCEPT ![w] = "completed"]
    BY <1>2, PhasesTurn
  <2>2. w \in DOMAIN PhasesOf(c)
    BY <2>1 DEF PhasesOf
  <2>3. accepted'[c] \in Nat \ {0}
    BY <1>2
  <2>4. {accepted'[c]} \ {0} = {accepted'[c]}
    BY <2>3
  <2>5. Chapter(c)!Promote(w)
    BY <2>1, <2>3, <2>4, Zenon DEF Chapter!Promote, PhasesOf
  <2>6. QED BY <2>2, <2>5, Zenon DEF Chapter!Next, PhasesOf
<1>3. QED BY <1>1, <1>2

\* A workflow begins where none of its chapter is live.
LEMMA BeginningIsLawful ==
    ASSUME RowType, NEW row \in WorkflowRows, workflows' = Append(workflows, row),
           row.status = "running", UNCHANGED accepted,
           \A v \in DOMAIN workflows :
               ~(workflows[v].chapter = row.chapter /\ workflows[v].status \in Live),
           NEW c
    PROVE  [Chapter(c)!Next]_(Chapter(c)!chapterVars)
<1>1. PICK w : /\ w \notin DOMAIN workflows /\ DOMAIN workflows' = DOMAIN workflows \cup {w}
               /\ workflows'[w] = row
               /\ \A v \in DOMAIN workflows : workflows'[v] = workflows[v]
    BY WorkflowBegins
<1>2. accepted'[c] = accepted[c]
    OBVIOUS
<1>3. CASE row.chapter # c
  <2>1. RunsOf(c)' = RunsOf(c)
    BY <1>1, <1>3 DEF RunsOf
  <2>2. PhasesOf(c)' = PhasesOf(c)
    BY <1>1, <2>1 DEF PhasesOf, RunsOf
  <2>3. QED BY <1>2, <2>2, ChapterRests
<1>4. CASE row.chapter = c
  <2>1. RunsOf(c)' = RunsOf(c) \cup {w} /\ w \notin RunsOf(c)
    BY <1>1, <1>4 DEF RunsOf
  <2>2. PhasesOf(c)' =
            [v \in RunsOf(c) \cup {w} |-> IF v = w THEN "running" ELSE PhasesOf(c)[v]]
    BY <1>1, <2>1 DEF PhasesOf, RunsOf
  <2>3. DOMAIN PhasesOf(c) = RunsOf(c) /\ w \in DOMAIN PhasesOf(c)'
    BY <2>1, <2>2 DEF PhasesOf
  <2>4. \A v \in DOMAIN PhasesOf(c) : PhasesOf(c)[v] \notin {"running", "paused"}
    BY <1>4 DEF PhasesOf, RunsOf, Live
  <2>5. /\ w \notin DOMAIN PhasesOf(c) /\ w \in DOMAIN PhasesOf(c)'
        /\ PhasesOf(c)' = [v \in DOMAIN PhasesOf(c) \cup {w} |->
                              IF v = w THEN "running" ELSE PhasesOf(c)[v]]
    BY <2>1, <2>2, <2>3
  <2>6. Chapter(c)!Begin(w)
    <3>1. \A v \in DOMAIN PhasesOf(c) : PhasesOf(c)[v] \notin Chapter(c)!Live
      BY <2>4 DEF Chapter!Live
    <3>2. UNCHANGED <<accepted[c], {accepted[c]} \ {0}>>
      BY <1>2
    <3>3. QED BY <2>5, <3>1, <3>2, Zenon DEF Chapter!Begin, PhasesOf
  <2>7. QED BY <2>5, <2>6, Zenon DEF Chapter!Next, PhasesOf
<1>5. QED BY <1>3, <1>4

LEMMA WorkflowsRestLawfully ==
    ASSUME UNCHANGED <<workflows, accepted>>, NEW c
    PROVE  [Chapter(c)!Next]_(Chapter(c)!chapterVars)
BY ChapterRests DEF PhasesOf, RunsOf

\* A workflow that is not executed follows its job.
LEMMA LinkIsLawful ==
    ASSUME RowType, NEW w, UNCHANGED accepted, NEW c,
           \/ workflows' = LinkedTo(w, [from |-> {"running"}, to |-> "paused"])
           \/ workflows' = LinkedTo(w, [from |-> Live, to |-> "cancelled"])
    PROVE  [Chapter(c)!Next]_(Chapter(c)!chapterVars)
<1>1. CASE workflows' = workflows
    BY <1>1, WorkflowsRestLawfully
<1>2. ASSUME workflows' # workflows
      PROVE  \E t \in {"paused", "cancelled"} :
                /\ workflows' = [workflows EXCEPT ![w].status = t]
                /\ workflows[w].status \in {"running", "paused"}
                /\ t = "paused" => workflows[w].status = "running"
    BY <1>2 DEF LinkedTo, Live
<1>3. CASE workflows' # workflows
  <2>1. PICK t \in {"paused", "cancelled"} :
            /\ workflows' = [workflows EXCEPT ![w].status = t]
            /\ workflows[w].status \in {"running", "paused"}
            /\ t = "paused" => workflows[w].status = "running"
    BY <1>2, <1>3
  <2>2. w \in DOMAIN workflows
    <3>1. workflows \in Seq(WorkflowRows)
      BY DEF RowType
    <3>2. QED BY <1>3, <2>1, <3>1
  <2>3. OneTurns(w, t)
    BY <2>1, <2>2, WorkflowTurns DEF WorkflowStatuses, Live
  <2>4. QED BY <2>1, <2>2, <2>3, TurnIsLawful
<1>4. QED BY <1>1, <1>3
-----------------------------------------------------------------------------

\* The turns of a job that is not started by them.
JobTurn(s, t) ==
    \/ s = t
    \/ s = "running" /\ t \in {"retry", "succeeded"}
    \/ /\ s \in {"running", "pause_requested", "cancel_requested"}
       /\ t \in {"failed", "dead_lettered"}
    \/ s \in {"queued", "running"} /\ t = "pause_requested"
    \/ s \in {"queued", "running", "pause_requested"} /\ t = "paused"
    \/ s \in {"queued", "retry", "running", "pause_requested"} /\ t = "cancel_requested"
    \/ /\ s \in {"queued", "retry", "running", "pause_requested", "paused", "cancel_requested"}
       /\ t = "cancelled"
    \/ s \in {"paused", "dead_lettered"} /\ t = "queued"

JobRestated ==
    /\ job'.status \in JobStatuses /\ JobTurn(job.status, job'.status)
    /\ job'.started = job.started /\ job'.attempt = job.attempt
SameJob ==
    job'.status = job.status /\ job'.started = job.started /\ job'.attempt = job.attempt

LEMMA PhaseValues ==
    /\ PhaseOf["queued"] = "waiting" /\ PhaseOf["retry"] = "waiting"
    /\ PhaseOf["pause_requested"] = "pausing" /\ PhaseOf["cancel_requested"] = "cancelling"
    /\ PhaseOf["dead_lettered"] = "dead"
    /\ \A s \in {"running", "paused", "cancelled", "succeeded", "failed"} : PhaseOf[s] = s
BY DEF PhaseOf, JobStatuses

LEMMA JobMoves ==
    ASSUME NEW sources, NEW target, PhaseOf[job.status] \in sources,
           PhaseOf[job'.status] = target, job'.attempt = job.attempt
    PROVE  Job!Move(1, sources, target)
<1>1. PhaseOf' = PhaseOf
    BY DEF PhaseOf, JobStatuses
<1>2. [j \in {1} |-> PhaseOf[job.status]][1] \in sources
    OBVIOUS
<1>3. [j \in {1} |-> PhaseOf[job.status]]' =
          [[j \in {1} |-> PhaseOf[job.status]] EXCEPT ![1] = target]
    BY <1>1
<1>4. [j \in {1} |-> job.attempt]' = [j \in {1} |-> job.attempt]
    OBVIOUS
<1>5. QED BY <1>2, <1>3, <1>4, Zenon DEF Job!Move

LEMMA JobTurnIsLawful ==
    ASSUME JobRestated
    PROVE  [Job!Next]_(Job!lifecycleVars)
<1> DEFINE s == job.status
           t == job'.status
<1>1. JobTurn(s, t) /\ job'.attempt = job.attempt
    BY DEF JobRestated
<1>2. ASSUME NEW sources, PhaseOf[s] \in sources
      PROVE  Job!Move(1, sources, PhaseOf[t])
    BY <1>1, <1>2, JobMoves
<1>3. CASE s = t
  <2>1. [j \in {1} |-> PhaseOf[job.status]]' = [j \in {1} |-> PhaseOf[job.status]]
    BY <1>3 DEF PhaseOf, JobStatuses
  <2>2. [j \in {1} |-> job.attempt]' = [j \in {1} |-> job.attempt]
    BY <1>1
  <2>3. QED BY <2>1, <2>2, Zenon DEF Job!lifecycleVars
<1> HIDE DEF s, t
<1>4. 1 \in {1}
    OBVIOUS
<1>5. CASE s = "running" /\ t \in {"retry", "succeeded"}
  <2>1. Job!Requeue(1) \/ Job!Complete(1)
    BY <1>2, <1>5, PhaseValues DEF Job!Requeue, Job!Complete
  <2>2. QED BY <1>4, <2>1, Zenon DEF Job!Next
<1>6. CASE /\ s \in {"running", "pause_requested", "cancel_requested"}
           /\ t \in {"failed", "dead_lettered"}
  <2>1. Job!GiveUp(1)
    BY <1>2, <1>6, PhaseValues DEF Job!GiveUp
  <2>2. QED BY <1>4, <2>1, Zenon DEF Job!Next
<1>7. CASE \/ s \in {"queued", "running"} /\ t = "pause_requested"
           \/ s \in {"queued", "running", "pause_requested"} /\ t = "paused"
  <2>1. Job!Pause(1)
    BY <1>2, <1>7, PhaseValues DEF Job!Pause
  <2>2. QED BY <1>4, <2>1, Zenon DEF Job!Next
<1>8. CASE \/ /\ s \in {"queued", "retry", "running", "pause_requested"}
              /\ t = "cancel_requested"
           \/ /\ s \in {"queued", "retry", "running", "pause_requested", "paused",
                        "cancel_requested"}
              /\ t = "cancelled"
  <2>1. Job!Cancel(1)
    BY <1>2, <1>8, PhaseValues DEF Job!Cancel
  <2>2. QED BY <1>4, <2>1, Zenon DEF Job!Next
<1>9. CASE s \in {"paused", "dead_lettered"} /\ t = "queued"
  <2>1. Job!Resume(1) \/ Job!RetryDead(1)
    BY <1>2, <1>9, PhaseValues DEF Job!Resume, Job!RetryDead
  <2>2. QED BY <1>4, <2>1, Zenon DEF Job!Next
<1>10. QED BY <1>1, <1>3, <1>5, <1>6, <1>7, <1>8, <1>9, Zenon DEF JobTurn

LEMMA ClaimIsLawful ==
    ASSUME RowType, Claim
    PROVE  /\ [Job!Next]_(Job!lifecycleVars)
           /\ job'.status = "running" /\ job'.started = TRUE
<1>1. JobRow(job) /\ job.status \in {"queued", "retry"}
    BY DEF RowType, Claim
<1> DEFINE j == [job EXCEPT !.status = "running"]
           k == [j EXCEPT !.started = TRUE]
<1>2. job' = [k EXCEPT !.attempt = @ + 1] /\ k = [j EXCEPT !.started = TRUE]
    BY Zenon DEF Claim
<1>3. j = [status |-> "running", started |-> job.started, wf |-> job.wf,
           attempt |-> job.attempt, max |-> job.max]
    BY <1>1 DEF JobRow
<1> HIDE DEF j, k
<1>4. k = [status |-> "running", started |-> TRUE, wf |-> job.wf,
           attempt |-> job.attempt, max |-> job.max]
    BY <1>2, <1>3
<1>5. job'.status = "running" /\ job'.started = TRUE /\ job'.attempt = job.attempt + 1
    BY <1>2, <1>4
<1>6. PhaseOf[job.status] = "waiting" /\ PhaseOf' = PhaseOf /\ PhaseOf["running"] = "running"
    BY <1>1, PhaseValues DEF PhaseOf, JobStatuses
<1>7. [i \in {1} |-> PhaseOf[job.status]][1] = "waiting"
    BY <1>6
<1>8. [i \in {1} |-> PhaseOf[job.status]]' =
          [[i \in {1} |-> PhaseOf[job.status]] EXCEPT ![1] = "running"]
    BY <1>5, <1>6
<1>9. [i \in {1} |-> job.attempt]' = [[i \in {1} |-> job.attempt] EXCEPT ![1] = @ + 1]
    BY <1>5
<1>10. Job!Start(1)
    BY <1>7, <1>8, <1>9, Zenon DEF Job!Start
<1>11. 1 \in {1}
    OBVIOUS
<1>12. QED BY <1>5, <1>10, <1>11, Zenon DEF Job!Next
LEMMA JobIsSet ==
    ASSUME RowType, NEW s \in JobStatuses, SetJob(s), JobTurn(job.status, s)
    PROVE  JobRestated /\ job'.status = s
<1>1. JobRow(job)
    BY DEF RowType
<1>2. job' = [status |-> s, started |-> job.started, wf |-> job.wf, attempt |-> job.attempt,
              max |-> job.max]
    BY <1>1 DEF JobRow, SetJob
<1>3. QED BY <1>2 DEF JobRestated

LEMMA JobIsKept ==
    ASSUME SameJob, job.status \in JobStatuses
    PROVE  JobRestated
BY DEF JobRestated, SameJob, JobTurn

LEMMA JobIsLinked ==
    ASSUME RowType, NEW w, job' = [job EXCEPT !.wf = w]
    PROVE  SameJob
BY DEF RowType, JobRow, SameJob

\* The requests: none of them ends a job that a thread executes.
LEMMA PauseRestates ==
    ASSUME RowType, PartsInv, PauseJob
    PROVE  JobRestated /\ (thread.pc # "idle" => job'.status \in
               {"running", "pause_requested", "cancel_requested"})
<1>1. job.status \in JobStatuses /\ JobHeld
    BY DEF PartsInv
<1>2. CASE job' = job
    BY <1>1, <1>2, JobIsKept DEF SameJob, JobHeld
<1>3. CASE thread.pc = "idle" /\ job.status = "queued" /\ SetJob("paused")
  <2>1. JobTurn(job.status, "paused") /\ "paused" \in JobStatuses
    BY <1>3 DEF JobTurn, JobStatuses
  <2>2. QED BY <1>3, <2>1, JobIsSet
<1>4. CASE job.status \in {"queued", "running"} /\ SetJob("pause_requested")
  <2>1. JobTurn(job.status, "pause_requested") /\ "pause_requested" \in JobStatuses
    BY <1>4 DEF JobTurn, JobStatuses
  <2>2. QED BY <1>4, <2>1, JobIsSet
<1>5. QED BY <1>1, <1>2, <1>3, <1>4 DEF PauseJob, JobHeld

LEMMA QueueRestates ==
    ASSUME RowType, PartsInv, job.status = "paused", SetJob("queued")
    PROVE  JobRestated /\ thread.pc = "idle"
<1>1. JobTurn(job.status, "queued") /\ "queued" \in JobStatuses
    BY DEF JobTurn, JobStatuses
<1>2. thread.pc = "idle"
    BY DEF PartsInv, JobHeld
<1>3. QED BY <1>1, <1>2, JobIsSet

LEMMA RevivalRestates ==
    ASSUME RowType, PartsInv, job.status = "dead_lettered",
           job' = [job EXCEPT !.status = "queued",
                              !.max = job.attempt + RegistryAttempts]
    PROVE  JobRestated /\ thread.pc = "idle"
<1>1. JobTurn(job.status, "queued") /\ "queued" \in JobStatuses
    BY DEF JobTurn, JobStatuses
<1>2. job' = [status |-> "queued", started |-> job.started, wf |-> job.wf,
              attempt |-> job.attempt,
              max |-> job.attempt + RegistryAttempts]
    BY DEF RowType, JobRow
<1>3. JobRestated
    BY <1>1, <1>2 DEF JobRestated
<1>4. thread.pc = "idle"
    BY DEF PartsInv, JobHeld
<1>5. QED BY <1>3, <1>4

LEMMA ResumeRestates ==
    ASSUME RowType, PartsInv, ResumeJob
    PROVE  JobRestated /\ (thread.pc # "idle" => job'.status \in
               {"running", "pause_requested", "cancel_requested"})
<1>1. CASE job.status = "paused"
    BY <1>1, QueueRestates DEF ResumeJob
<1>2. CASE job.status # "paused"
  <2>1. job' = job
    BY <1>2 DEF ResumeJob
  <2>2. QED BY <2>1, JobIsKept DEF PartsInv, SameJob, JobHeld
<1>3. QED BY <1>1, <1>2

LEMMA CancelRestates ==
    ASSUME RowType, PartsInv, CancelJob
    PROVE  /\ JobRestated
           /\ thread.pc # "idle" =>
                  /\ job'.status \in {"running", "pause_requested", "cancel_requested"}
                  /\ workflows' = workflows
           /\ \/ workflows' = workflows
              \/ workflows' = LinkedTo(job.wf, [from |-> Live, to |-> "cancelled"])
<1>1. job.status \in JobStatuses /\ JobHeld
    BY DEF PartsInv
<1>2. CASE job' = job /\ workflows' = workflows
    BY <1>1, <1>2, JobIsKept DEF SameJob, JobHeld
<1>3. CASE /\ job.status \in {"queued", "retry", "running", "pause_requested", "paused"}
           /\ ~job.started \/ job.status = "paused"
           /\ SetJob("cancelled")
           /\ workflows' = LinkedTo(job.wf, [from |-> Live, to |-> "cancelled"])
  <2>1. JobTurn(job.status, "cancelled") /\ "cancelled" \in JobStatuses
    BY <1>3 DEF JobTurn, JobStatuses
  <2>2. thread.pc = "idle"
    BY <1>1, <1>3 DEF JobHeld
  <2>3. JobRestated
    BY <1>3, <2>1, JobIsSet
  <2>4. QED BY <1>3, <2>2, <2>3
<1>4. CASE /\ job.status \in {"queued", "retry", "running", "pause_requested"}
           /\ SetJob("cancel_requested") /\ workflows' = workflows
  <2>1. JobTurn(job.status, "cancel_requested") /\ "cancel_requested" \in JobStatuses
    BY <1>4 DEF JobTurn, JobStatuses
  <2>2. QED BY <1>4, <2>1, JobIsSet
<1>5. QED BY <1>1, <1>2, <1>3, <1>4 DEF CancelJob, JobStatuses

\* The outcomes of the executor.
LEMMA OutcomeRestates ==
    ASSUME RowType, PartsInv, JobOutcome
    PROVE  JobRestated
<1>1. job.status \in {"running", "pause_requested", "cancel_requested"}
    BY DEF PartsInv, JobHeld, JobOutcome, At
<1>2. \/ job' = job
      \/ \E s \in JobStatuses : SetJob(s) /\ JobTurn(job.status, s)
  <2>1. CASE At("job_pause")
    BY <1>1, <2>1 DEF JobOutcome, At, JobStatuses, JobTurn
  <2>2. CASE At("job_cancel")
    BY <1>1, <2>2 DEF JobOutcome, At, JobStatuses, JobTurn
  <2>3. CASE At("job_fail")
    BY <1>1, <2>3 DEF JobOutcome, At, JobStatuses, JobTurn
  <2>4. CASE At("job_retry")
    BY <1>1, <2>4 DEF JobOutcome, At, JobStatuses, JobTurn
  <2>5. CASE At("job_succeed")
    BY <1>1, <2>5 DEF JobOutcome, At, JobStatuses, JobTurn
  <2>6. QED BY <2>1, <2>2, <2>3, <2>4, <2>5 DEF JobOutcome, At
<1>3. CASE job' = job
    BY <1>3, JobIsKept DEF PartsInv, SameJob
<1>4. QED BY <1>2, <1>3, JobIsSet

LEMMA RecoverRestates ==
    ASSUME RowType, Recover
    PROVE  JobRestated
<1>1. job.status = "running" /\ \E s \in {"dead_lettered", "retry"} : SetJob(s)
    BY DEF Recover
<1>2. \A s \in {"dead_lettered", "retry"} : s \in JobStatuses /\ JobTurn(job.status, s)
    BY <1>1 DEF JobTurn, JobStatuses
<1>3. QED BY <1>1, <1>2, JobIsSet

\* The handler leaves the job to the executor, and only four of its steps reach
\* the workflows.
LEMMA HandlerKeepsRows ==
    ASSUME Handler, ~StartChapter, ~ReviseNext, ~Work, ~RecordCompletion
    PROVE  UNCHANGED <<workflows, accepted>> /\ (JobOutcome \/ UNCHANGED job)
<1>1. CASE Enter \/ ChapterControl \/ CheckControl \/ ReviewControl \/ AnalysisControl
  BY <1>1, Zenon DEF Enter, ChapterControl, CheckControl, ReviewControl,
     AnalysisControl, Control, rows
<1>2. CASE Analyze \/ BuildRevisionPlan
  BY <1>2, Zenon DEF Analyze, BuildRevisionPlan, rows
<1>3. CASE Initialize \/ Schedule
  BY <1>3, Zenon DEF Initialize, Schedule
<1>4. CASE BudgetGate \/ MarkRunning \/ UpdateUsage
  BY <1>4, Zenon DEF BudgetGate, MarkRunning, UpdateUsage
<1>5. CASE PeriodicCheck \/ SetGlobalReview
  BY <1>5, Zenon DEF PeriodicCheck, SetGlobalReview
<1>6. CASE BuildSnapshot
  BY <1>6, Zenon DEF BuildSnapshot
<1>7. CASE PersistAnalysis \/ AcceptSnapshot \/ FinishCompleted
  BY <1>7, Zenon DEF PersistAnalysis, AcceptSnapshot, FinishCompleted
<1>8. CASE HandleRevisionOrReview \/ RetainSnapshot
  BY <1>8, Zenon DEF HandleRevisionOrReview, RetainSnapshot
<1>9. CASE ReviewAgain \/ FinishNeedsReview
  BY <1>9, Zenon DEF ReviewAgain, FinishNeedsReview
<1>10. CASE Pausing \/ Cancelling \/ Failing
  BY <1>10, Zenon DEF Pausing, Cancelling, Failing
<1>11. CASE JobOutcome
  BY <1>11, Zenon DEF JobOutcome
<1>12. QED
  BY <1>1, <1>2, <1>3, <1>4, <1>5, <1>6, <1>7, <1>8, <1>9, <1>10, <1>11,
     Zenon DEF Handler

LEMMA HandlerIsActive ==
    ASSUME Handler
    PROVE  thread.pc # "idle"
<1>1. CASE Enter \/ ChapterControl \/ CheckControl \/ ReviewControl \/ AnalysisControl
  BY <1>1, Zenon DEF Enter, ChapterControl, CheckControl, ReviewControl, AnalysisControl, At
<1>2. CASE Initialize \/ Schedule \/ BudgetGate \/ MarkRunning \/ UpdateUsage \/
          PeriodicCheck \/ SetGlobalReview
  BY <1>2, Zenon DEF Initialize, Schedule, BudgetGate, MarkRunning, UpdateUsage,
     PeriodicCheck, SetGlobalReview, At
<1>3. CASE BuildSnapshot \/ PersistAnalysis \/ AcceptSnapshot \/ FinishCompleted \/
          HandleRevisionOrReview \/ RetainSnapshot \/ ReviewAgain \/
          FinishNeedsReview \/ Analyze \/ BuildRevisionPlan
  BY <1>3, Zenon DEF BuildSnapshot, PersistAnalysis, AcceptSnapshot, FinishCompleted,
     HandleRevisionOrReview, RetainSnapshot, ReviewAgain, FinishNeedsReview, Analyze,
     BuildRevisionPlan, At
<1>4. CASE Pausing \/ Cancelling \/ Failing \/ StartChapter \/ ReviseNext \/
          Work \/ RecordCompletion \/ JobOutcome
  BY <1>4 DEF Pausing, Cancelling, Failing, StartChapter, ReviseNext, Work,
     RecordCompletion, JobOutcome, At
<1>5. QED BY <1>1, <1>2, <1>3, <1>4, Zenon DEF Handler

LEMMA HandlerKeepsJob ==
    ASSUME RowType, Handler, ~JobOutcome
    PROVE  thread.pc # "idle" /\ SameJob
<1>1. thread.pc # "idle"
    BY HandlerIsActive
<1>2. job' = job \/ \E w : job' = [job EXCEPT !.wf = w]
  <2>1. CASE StartChapter \/ ReviseNext
    BY <2>1, Zenon DEF StartChapter, ReviseNext, NewWorkflow
  <2>2. CASE RecordCompletion
    BY <2>2, Zenon DEF RecordCompletion
  <2>3. CASE Work
    BY <2>3, Zenon DEF Work
  <2>4. CASE ~(StartChapter \/ ReviseNext) /\ ~RecordCompletion /\ ~Work
    BY <2>4, HandlerKeepsRows
  <2>5. QED BY <2>1, <2>2, <2>3, <2>4
<1>3. CASE job' = job
    BY <1>1, <1>3 DEF SameJob
<1>4. QED BY <1>1, <1>2, <1>3, JobIsLinked
-----------------------------------------------------------------------------

\* A thread works where it began or took up a workflow, and nowhere else.
LEMMA QuietIsNoWork ==
    ASSUME Quiet, thread.pc # "work"
    PROVE  thread'.pc # "work"
BY DEF Quiet, Moves, Leaves, GoesOn, Way, FreePcs, HaltPcs

LEMMA GoneIsNoWork ==
    ASSUME RowType, BookRunAssumption,
           Raise \/ \E pc \in Pcs \ {"work"} : Goto(pc)
    PROVE  thread'.pc # "work"
BY PlaceChanges, ExceptionIsRaised

LEMMA ScheduleIsNoWork ==
    ASSUME RowType, BookRunAssumption, Schedule
    PROVE  thread'.pc # "work"
<1> DEFINE map == [c \in Chapters |-> IF accepted[c] # 0 THEN "accepted" ELSE run.map[c]]
           resuming == run.wf # 0 /\ run.current # 0 /\ map[run.current] = "running"
           first == Min({c \in Chapters : map[c] # "accepted"})
<1>1. \/ thread' = Took(thread, "control", run.current)
      \/ Goto("cancelling") \/ Raise \/ Goto("review_control") \/ Goto("finish_review")
      \/ thread' = Took(thread, "gate", first)
  <2>1. CASE resuming
    BY <2>1, Zenon DEF Schedule, Took
  <2>2. CASE ~resuming /\ run.status = "cancel_requested"
    BY <2>2, Zenon DEF Schedule
  <2>3. CASE ~resuming /\ run.status # "cancel_requested"
    BY <2>3, Zenon DEF Schedule, Took
  <2>4. QED BY <2>1, <2>2, <2>3
<1> HIDE DEF map, resuming, first
<1>2. ASSUME NEW pc \in {"control", "gate"}, NEW c, thread' = Took(thread, pc, c)
      PROVE  thread'.pc # "work"
  <2>1. ThreadRow(thread)
    BY DEF RowType
  <2>2. QED BY <1>2, <2>1 DEF Took, ThreadRow
<1>3. {"cancelling", "review_control", "finish_review"} \subseteq Pcs \ {"work"}
    BY DEF Pcs, FreePcs, ReviewPcs
<1>4. QED BY <1>1, <1>2, <1>3, GoneIsNoWork

LEMMA SnapshotIsNoWork ==
    ASSUME RowType, BookRunAssumption, BuildSnapshot
    PROVE  thread'.pc # "work"
<1> DEFINE next == IF thread.again THEN "analyze" ELSE "analysis_control"
           missing == \E c \in Chapters : accepted[c] = 0
<1>1. Raise \/ \E s : thread' = Frozen(thread, next, s)
  <2>1. CASE missing
    BY <2>1, Zenon DEF BuildSnapshot
  <2>2. CASE ~missing /\ SameContent # {}
    BY <2>2, Zenon DEF BuildSnapshot, Frozen
  <2>3. CASE ~missing /\ ~(SameContent # {})
    BY <2>3, Zenon DEF BuildSnapshot, Frozen
  <2>4. QED BY <2>1, <2>2, <2>3
<1>2. next # "work"
    OBVIOUS
<1> HIDE DEF next
<1>3. ASSUME NEW s, thread' = Frozen(thread, next, s)
      PROVE  thread'.pc # "work"
  <2>1. ThreadRow(thread)
    BY DEF RowType
  <2>2. QED BY <1>2, <1>3, <2>1 DEF Frozen, ThreadRow
<1>4. QED BY <1>1, <1>3, GoneIsNoWork

LEMMA WorkEndsWork ==
    ASSUME RowType, BookRunAssumption, Work
    PROVE  thread'.pc # "work"
<1>1. Raise \/ Goto("pausing") \/ Goto("record")
  <2>1. PICK end \in WorkEnds(thread.wf) :
            CASE end \in {"failed", "running"} -> Raise
              [] end = "paused" -> Goto("pausing")
              [] end \in {"completed_needs_review", "cancelled"} ->
                   IF workflows[thread.wf].operation = "targeted_revision"
                   THEN Raise ELSE Goto("record")
              [] end = "completed" -> Goto("record")
    BY Zenon DEF Work
  <2>2. end \in {"completed", "completed_needs_review", "failed", "running", "paused",
                 "cancelled"}
    BY DEF WorkEnds
  <2>3. CASE end \in {"failed", "running"}
    BY <2>1, <2>3
  <2>4. CASE end = "paused"
    BY <2>1, <2>4
  <2>5. CASE end \in {"completed_needs_review", "cancelled"}
    BY <2>1, <2>5
  <2>6. CASE end = "completed"
    BY <2>1, <2>6
  <2>7. QED BY <2>2, <2>3, <2>4, <2>5, <2>6
<1>2. {"pausing", "record"} \subseteq Pcs \ {"work"}
    BY DEF Pcs, FreePcs, WorkPcs
<1>3. QED BY <1>1, <1>2, GoneIsNoWork

LEMMA HandlerIsElsewhere ==
    ASSUME Handler, ~Work
    PROVE  thread.pc # "work"
<1>1. CASE Enter \/ ChapterControl \/ CheckControl \/ ReviewControl \/
          AnalysisControl \/ Initialize
  BY <1>1, Zenon DEF Enter, ChapterControl, CheckControl, ReviewControl,
     AnalysisControl, Initialize, At
<1>2. CASE BudgetGate \/ UpdateUsage \/ PeriodicCheck \/ SetGlobalReview \/ Analyze \/
          PersistAnalysis \/ AcceptSnapshot
  BY <1>2, Zenon DEF BudgetGate, UpdateUsage, PeriodicCheck, SetGlobalReview, Analyze,
     PersistAnalysis, AcceptSnapshot, At
<1>3. CASE HandleRevisionOrReview \/ RetainSnapshot \/ BuildRevisionPlan \/
          ReviewAgain \/ FinishNeedsReview \/ ReviseNext
  BY <1>3, Zenon DEF HandleRevisionOrReview, RetainSnapshot, BuildRevisionPlan,
     ReviewAgain, FinishNeedsReview, ReviseNext, At
<1>4. CASE Pausing \/ Cancelling \/ Failing \/ JobOutcome \/ Schedule \/ MarkRunning \/
          StartChapter
  BY <1>4, Zenon DEF Pausing, Cancelling, Failing, JobOutcome, Schedule, MarkRunning,
     StartChapter, At
<1>5. CASE RecordCompletion \/ BuildSnapshot \/ FinishCompleted
  BY <1>5, Zenon DEF RecordCompletion, BuildSnapshot, FinishCompleted, At
<1>6. QED BY <1>1, <1>2, <1>3, <1>4, <1>5, Zenon DEF Handler

LEMMA HandlerIsNoWork ==
    ASSUME BookInv, BookRunAssumption, Handler, ~StartChapter, ~ReviseNext
    PROVE  thread'.pc # "work"
<1>1. RowType
    BY DEF BookInv
<1>2. CASE Schedule
    BY <1>1, <1>2, ScheduleIsNoWork
<1>3. CASE BuildSnapshot
    BY <1>1, <1>3, SnapshotIsNoWork
<1>4. CASE Work
    BY <1>1, <1>4, WorkEndsWork
<1>5. {"start", "usage", "job_succeed"} \subseteq Pcs \ {"work"}
    BY DEF Pcs, FreePcs, HaltPcs, ChapterPcs, WorkPcs
<1>6. CASE MarkRunning
  <2>1. Goto("start")
    BY <1>6, Zenon DEF MarkRunning
  <2>2. QED BY <1>1, <1>5, <2>1, GoneIsNoWork
<1>7. CASE RecordCompletion
  <2>1. Goto("usage")
    BY <1>7, Zenon DEF RecordCompletion
  <2>2. QED BY <1>1, <1>5, <2>1, GoneIsNoWork
<1>8. CASE FinishCompleted
  <2>1. Goto("job_succeed") \/ Raise
    BY <1>8, Zenon DEF FinishCompleted
  <2>2. QED BY <1>1, <1>5, <2>1, GoneIsNoWork
<1>9. ASSUME ~Schedule, ~BuildSnapshot, ~Work, ~MarkRunning, ~RecordCompletion, ~FinishCompleted
      PROVE  thread'.pc # "work"
  <2> SUFFICES Quiet
    BY <1>9, HandlerIsElsewhere, QuietIsNoWork
  <2>1. CASE Enter
    BY <2>1, EnterIsQuiet
  <2>2. CASE ChapterControl \/ CheckControl \/ ReviewControl \/ AnalysisControl
    BY <2>2, ControlIsQuiet
  <2>3. CASE Pausing
    BY <2>3, PausingIsQuiet
  <2>4. CASE Cancelling
    BY <2>4, CancellingIsQuiet
  <2>5. CASE Failing
    BY <2>5, FailingIsQuiet
  <2>6. CASE JobOutcome
    BY <2>6, OutcomeIsQuiet
  <2>7. CASE Initialize
    BY <2>7, InitializeIsQuiet
  <2>8. CASE BudgetGate
    BY <2>8, BudgetGateIsQuiet
  <2>9. CASE UpdateUsage
    BY <2>9, UsageIsQuiet
  <2>10. CASE PeriodicCheck
    BY <2>10, PeriodicCheckIsQuiet
  <2>11. CASE SetGlobalReview
    BY <2>11, SetReviewIsQuiet
  <2>12. CASE Analyze
    BY <2>12, AnalyzeIsQuiet
  <2>13. CASE PersistAnalysis
    BY <2>13, PersistIsQuiet
  <2>14. CASE AcceptSnapshot
    BY <2>14, AcceptIsQuiet
  <2>15. CASE HandleRevisionOrReview
    BY <2>15, HandleIsQuiet
  <2>16. CASE RetainSnapshot
    BY <2>16, RetainIsQuiet
  <2>17. CASE BuildRevisionPlan
    BY <2>17, PlanIsQuiet
  <2>18. CASE ReviewAgain
    BY <2>18, ReviewAgainIsQuiet
  <2>19. CASE FinishNeedsReview
    BY <2>19, FinishReviewIsQuiet
  <2>20. QED
    BY <1>9, <2>1, <2>2, <2>3, <2>4, <2>5, <2>6, <2>7, <2>8, <2>9, <2>10, <2>11,
       <2>12, <2>13, <2>14, <2>15, <2>16, <2>17, <2>18, <2>19, Zenon DEF Handler
<1>10. QED BY <1>2, <1>3, <1>4, <1>6, <1>7, <1>8, <1>9
-----------------------------------------------------------------------------
(***************************************************************************)
(* Every step is one of the chapters and one of the job.                   *)
(***************************************************************************)

ChaptersAreLawful ==
    \A c \in Chapters : [Chapter(c)!Next]_(Chapter(c)!chapterVars)
JobIsLawful == [Job!Next]_(Job!lifecycleVars)

LEMMA ChaptersRest ==
    ASSUME UNCHANGED <<workflows, accepted>>
    PROVE  ChaptersAreLawful
BY WorkflowsRestLawfully, Zenon DEF ChaptersAreLawful

LEMMA ChaptersTurn ==
    ASSUME NEW w \in DOMAIN workflows, NEW t, OneTurns(w, t), UNCHANGED accepted,
           \/ workflows[w].status = t
           \/ workflows[w].status = "running" /\ t = "paused"
           \/ workflows[w].status = "paused" /\ t = "running"
           \/ workflows[w].status \in {"running", "paused"} /\ t \in {"failed", "cancelled"}
           \/ workflows[w].status = "running" /\ t = "completed_needs_review"
    PROVE  ChaptersAreLawful
BY TurnIsLawful, Zenon DEF ChaptersAreLawful

LEMMA ChaptersFollow ==
    ASSUME RowType, NEW w, UNCHANGED accepted,
           \/ workflows' = LinkedTo(w, [from |-> {"running"}, to |-> "paused"])
           \/ workflows' = LinkedTo(w, [from |-> Live, to |-> "cancelled"])
    PROVE  ChaptersAreLawful
BY LinkIsLawful, Zenon DEF ChaptersAreLawful

LEMMA RecordIsLawful ==
    ASSUME BookInv, RecordCompletion
    PROVE  ChaptersAreLawful
<1>1. /\ RowType /\ Working /\ thread.pc = "record" /\ UNCHANGED accepted
      /\ workflows' = [workflows EXCEPT ![thread.wf].recorded = TRUE]
    BY Zenon DEF RecordCompletion, BookInv, At
<1>2. thread.wf \in DOMAIN workflows
    BY <1>1 DEF Working, WorkPcs
<1>3. OneTurns(thread.wf, workflows[thread.wf].status)
    BY <1>1, <1>2, WorkflowIsRecorded
<1>4. QED BY <1>1, <1>2, <1>3, ChaptersTurn

LEMMA WorkIsLawful ==
    ASSUME BookInv, PartsInv, BookRunAssumption, Work
    PROVE  ChaptersAreLawful
<1> DEFINE Ends(v) ==
               \E end \in WorkEnds(v), use \in Uses :
                  /\ workflows' = [workflows EXCEPT ![v].status = end, ![v].used = @ + use]
                  /\ IF end = "completed"
                     THEN \E n \in Promotable(v) :
                              accepted' = [accepted EXCEPT ![workflows[v].chapter] = n]
                     ELSE UNCHANGED accepted
<1>0. PICK w : w = thread.wf /\ Ends(w)
  <2>1. Ends(thread.wf)
    BY Zenon DEF Work
  <2> HIDE DEF Ends
  <2>2. QED BY <2>1
<1>1. PICK end \in WorkEnds(w), use \in Uses :
         /\ workflows' = [workflows EXCEPT ![w].status = end, ![w].used = @ + use]
         /\ IF end = "completed"
            THEN \E v \in Promotable(w) :
                     accepted' = [accepted EXCEPT ![workflows[w].chapter] = v]
            ELSE UNCHANGED accepted
    BY <1>0, Zenon
<1> HIDE DEF Ends
<1>2. /\ RowType /\ Working /\ thread.pc = "work" /\ RevisedIsWhole
      /\ accepted \in [Chapters -> Nat] /\ Uses \subseteq Nat
      /\ workflows[thread.wf].status = "running" /\ workflows \in Seq(WorkflowRows)
    BY DEF BookInv, RowType, Work, At, PartsInv, WorkRuns, BookRunAssumption
<1>3. /\ w \in DOMAIN workflows /\ w \in Nat /\ workflows[w].status = "running"
    BY <1>0, <1>2 DEF Working, WorkPcs
<1>4. /\ workflows[w].chapter \in Chapters
      /\ workflows[w].operation \in {"generate", "targeted_revision"}
    BY <1>2, <1>3, WorkflowIsRow
<1>5. end \in {"completed", "completed_needs_review", "failed", "running", "paused",
               "cancelled"}
    BY DEF WorkEnds
<1>6. OneTurns(w, end)
  <2>1. end \in WorkflowStatuses /\ use \in Nat
    BY <1>2, <1>5 DEF WorkflowStatuses, Live
  <2>2. workflows' = [workflows EXCEPT ![w].status = end, ![w].used = @ + use]
    BY <1>1, Zenon
  <2>3. RowType
    BY <1>2
  <2>4. QED BY <1>3, <2>1, <2>2, <2>3, WorkflowEnds, Zenon
<1>7. CASE end # "completed"
  <2>1. UNCHANGED accepted
    BY <1>1, <1>7
  <2>2. \/ workflows[w].status = end
        \/ workflows[w].status = "running" /\ end = "paused"
        \/ workflows[w].status \in {"running", "paused"} /\ end \in {"failed", "cancelled"}
        \/ workflows[w].status = "running" /\ end = "completed_needs_review"
    BY <1>3, <1>5, <1>7
  <2>3. QED BY <1>3, <1>6, <2>1, <2>2, ChaptersTurn
<1>8. CASE end = "completed"
  <2>1. PICK v \in Promotable(w) : accepted' = [accepted EXCEPT ![workflows[w].chapter] = v]
    BY <1>1, <1>8, Zenon
  <2>2. v \in Nat \ {0}
    <3>1. CASE v = w + 1
      BY <1>3, <3>1
    <3>2. CASE v = accepted[workflows[w].chapter] /\ ~Generates(w)
      BY <1>2, <1>3, <1>4, <3>2 DEF RevisedIsWhole, Whole
    <3>3. QED BY <3>1, <3>2 DEF Promotable, Generates
  <2>3. OneTurns(w, "completed") /\ accepted \in [Chapters -> Nat]
    BY <1>2, <1>6, <1>8
  <2>4. QED
    BY <1>3, <2>1, <2>2, <2>3, PromotionIsLawful, Zenon DEF ChaptersAreLawful
<1>9. QED BY <1>7, <1>8

\* A thread works in a running workflow from its first step on.
LEMMA NewIsLawful ==
    ASSUME RowType, BookRunAssumption, NEW c \in Chapters,
           NEW op \in {"generate", "targeted_revision"}, NEW rest \in Seq(Chapters),
           NewWorkflow(c, op, rest), UNCHANGED accepted
    PROVE  ChaptersAreLawful /\ WorkRuns'
<1> DEFINE w == Len(workflows) + 1
           row == [chapter |-> c, operation |-> op, status |-> "running", used |-> 0,
                   recorded |-> FALSE]
<1>1. CASE Raise /\ UNCHANGED workflows
  <2>1. thread'.pc # "work"
    BY <1>1, GoneIsNoWork
  <2>2. QED BY <1>1, <2>1, ChaptersRest DEF WorkRuns
<1>2. CASE /\ ~ \E v \in DOMAIN workflows :
                    workflows[v].chapter = c /\ workflows[v].status \in Live
           /\ workflows' = Append(workflows, row)
           /\ thread' = Started(thread, "work", w, TRUE, c, rest)
  <2>1. row \in WorkflowRows /\ row.status = "running" /\ row.chapter = c
    BY DEF WorkflowRows, WorkflowStatuses, Live
  <2> HIDE DEF row
  <2>2. ChaptersAreLawful
    BY <1>2, <2>1, BeginningIsLawful DEF ChaptersAreLawful
  <2>3. w \in DOMAIN workflows' /\ workflows'[w] = row
    BY <1>2, <2>1, WorkflowBegins
  <2> HIDE DEF w
  <2>4. thread'.wf = w
    <3>1. ThreadRow(thread)
      BY DEF RowType
    <3>2. thread' = [pc |-> "work", chapter |-> c, wf |-> w, tasks |-> rest,
                     fresh |-> TRUE, snapshot |-> thread.snapshot, again |-> thread.again,
                     key |-> thread.key, verdict |-> thread.verdict, error |-> thread.error]
      BY <1>2, <3>1 DEF Started, ThreadRow
    <3>3. QED BY <3>2
  <2>5. QED BY <2>1, <2>2, <2>3, <2>4 DEF WorkRuns
<1>3. QED BY <1>1, <1>2, Zenon DEF NewWorkflow, Started

LEMMA StartIsLawful ==
    ASSUME BookInv, BookRunAssumption, StartChapter
    PROVE  ChaptersAreLawful /\ WorkRuns'
<1> DEFINE w == CurrentWorkflow
<1>1. At("start") /\ UNCHANGED accepted
    BY Zenon DEF StartChapter, w
<1>2. /\ RowType /\ ThreadRow(thread) /\ thread.pc = "start" /\ Choosing
      /\ workflows \in Seq(WorkflowRows) /\ run.wf \in 0..Len(workflows)
    BY <1>1 DEF BookInv, RowType, At
<1>3. thread.chapter \in Chapters /\ w = run.wf
    BY <1>2 DEF Choosing, ChapterPcs, CurrentWorkflow
<1> HIDE DEF w
<1>4. CASE w = 0
  <2>1. NewWorkflow(thread.chapter, "generate", <<>>)
    BY <1>4, Zenon DEF StartChapter, w
  <2>2. <<>> \in Seq(Chapters)
    OBVIOUS
  <2>3. QED BY <1>1, <1>2, <1>3, <2>1, <2>2, NewIsLawful
<1>5. CASE w # 0 /\ workflows[w].status = "paused"
  <2>1. /\ workflows' = [workflows EXCEPT ![w].status = "running"]
        /\ thread' = Resumed(thread, "work", w, FALSE)
    BY <1>5, Zenon DEF StartChapter, Resumed, w
  <2>2. w \in DOMAIN workflows
    <3>1. Len(workflows) \in Nat /\ w \in 0..Len(workflows)
      BY <1>2, <1>3
    <3>2. w # 0
      BY <1>5
    <3>3. w \in 1..Len(workflows)
      BY <3>1, <3>2
    <3>4. QED BY <1>2, <3>3
  <2>3. OneTurns(w, "running")
    BY <1>2, <2>1, <2>2, WorkflowTurns DEF WorkflowStatuses, Live
  <2>4. ChaptersAreLawful
    BY <1>1, <1>5, <2>2, <2>3, ChaptersTurn
  <2>5. thread'.wf = w
    <3>1. thread' = [pc |-> "work", chapter |-> thread.chapter, wf |-> w,
                     tasks |-> thread.tasks, fresh |-> FALSE,
                     snapshot |-> thread.snapshot, again |-> thread.again,
                     key |-> thread.key, verdict |-> thread.verdict, error |-> thread.error]
      BY <1>2, <2>1 DEF Resumed, ThreadRow
    <3>2. QED BY <3>1
  <2>6. workflows'[w].status = "running"
    BY <2>2, <2>3 DEF OneTurns
  <2>7. QED BY <2>4, <2>5, <2>6 DEF WorkRuns
<1>6. CASE w # 0 /\ workflows[w].status # "paused"
  <2>1. UNCHANGED workflows /\ (Raise \/ thread' = Found(thread, "record", w))
    <3>1. CASE workflows[w].status \in {"completed", "completed_needs_review"}
      BY <1>6, <3>1, Zenon DEF StartChapter, Found, w
    <3>2. CASE ~(workflows[w].status \in {"completed", "completed_needs_review"})
      BY <1>6, <3>2, Zenon DEF StartChapter, w
    <3>3. QED BY <3>1, <3>2
  <2>2. thread'.pc # "work"
    <3>1. CASE Raise
      BY <1>2, <3>1, GoneIsNoWork
    <3>2. CASE thread' = Found(thread, "record", w)
      BY <1>2, <3>2 DEF Found, ThreadRow
    <3>3. QED BY <2>1, <3>1, <3>2
  <2>3. QED BY <1>1, <2>1, <2>2, ChaptersRest DEF WorkRuns
<1>7. QED BY <1>4, <1>5, <1>6

LEMMA ReviseIsLawful ==
    ASSUME BookInv, BookRunAssumption, ReviseNext
    PROVE  ChaptersAreLawful /\ WorkRuns'
<1>1. /\ thread.tasks # <<>>
      /\ NewWorkflow(Head(thread.tasks), "targeted_revision", Tail(thread.tasks))
      /\ UNCHANGED accepted
    BY Zenon DEF ReviseNext
<1>2. RowType /\ thread.tasks \in Seq(Chapters)
    BY DEF BookInv, RowType, ThreadRow
<1>3. Head(thread.tasks) \in Chapters /\ Tail(thread.tasks) \in Seq(Chapters)
    BY <1>1, <1>2
<1>4. QED BY <1>1, <1>2, <1>3, NewIsLawful

LEMMA HandlerIsLawful ==
    ASSUME BookInv, PartsInv, BookRunAssumption, Handler
    PROVE  ChaptersAreLawful /\ JobIsLawful /\ PartsInv'
<1>1. RowType /\ job.status \in JobStatuses /\ JobHeld /\ JobStatuses' = JobStatuses
    BY DEF BookInv, PartsInv, JobStatuses
<1>2. CASE JobOutcome
  <2>1. JobRestated
    BY <1>1, <1>2, OutcomeRestates
  <2>2. ChaptersAreLawful
    BY <1>2, Zenon, ChaptersRest DEF JobOutcome
  <2>3. thread'.pc = "idle"
    BY <1>1, <1>2, ThreadLeaves DEF JobOutcome
  <2>4. PartsInv'
    BY <1>1, <2>1, <2>3 DEF PartsInv, JobHeld, WorkRuns, JobRestated
  <2>5. QED BY <2>1, <2>2, <2>4, JobTurnIsLawful DEF JobIsLawful
<1>3. CASE ~JobOutcome
  <2>1. thread.pc # "idle" /\ SameJob
    BY <1>1, <1>3, HandlerKeepsJob
  <2>2. JobIsLawful
    BY <1>1, <2>1, JobIsKept, JobTurnIsLawful DEF JobIsLawful
  <2>3. (job.status \in JobStatuses /\ JobHeld)'
    BY <1>1, <2>1 DEF JobHeld, SameJob
  <2>4. ChaptersAreLawful /\ WorkRuns'
    <3>1. CASE StartChapter
      BY <3>1, StartIsLawful
    <3>2. CASE ReviseNext
      BY <3>2, ReviseIsLawful
    <3>3. CASE ~StartChapter /\ ~ReviseNext
      <4>1. WorkRuns'
        BY <3>3, HandlerIsNoWork DEF WorkRuns
      <4>2. ChaptersAreLawful
        BY <3>3, RecordIsLawful, WorkIsLawful, HandlerKeepsRows, ChaptersRest
      <4>3. QED BY <4>1, <4>2
    <3>4. QED BY <3>1, <3>2, <3>3
  <2>5. QED BY <2>2, <2>3, <2>4 DEF PartsInv
<1>4. QED BY <1>2, <1>3

\* A step outside the handler that leaves the thread in its place.
LEMMA OutsideIsLawful ==
    ASSUME PartsInv, JobRestated, ChaptersAreLawful, thread' = thread,
           thread.pc # "idle" =>
               /\ job'.status \in {"running", "pause_requested", "cancel_requested"}
               /\ workflows' = workflows
    PROVE  ChaptersAreLawful /\ JobIsLawful /\ PartsInv'
<1>1. JobIsLawful
    BY JobTurnIsLawful DEF JobIsLawful
<1>2. JobStatuses' = JobStatuses
    BY DEF JobStatuses
<1>3. PartsInv'
    BY <1>2 DEF PartsInv, JobHeld, WorkRuns, JobRestated
<1>4. QED BY <1>1, <1>3

LEMMA NextIsLawful ==
    ASSUME BookInv, PartsInv, BookRunAssumption, [Next]_vars
    PROVE  ChaptersAreLawful /\ JobIsLawful /\ PartsInv'
<1>1. RowType /\ job.status \in JobStatuses /\ JobHeld /\ JobStatuses' = JobStatuses
    BY DEF BookInv, PartsInv, JobStatuses
<1>2. CASE Handler
    BY <1>2, HandlerIsLawful
<1>3. CASE Claim
  <2>1. JobIsLawful /\ job'.status = "running" /\ job'.started = TRUE
    BY <1>1, <1>3, ClaimIsLawful DEF JobIsLawful
  <2>2. ChaptersAreLawful
    BY <1>3, ChaptersRest DEF Claim
  <2>3. thread'.pc = "enter"
    BY <1>1, <1>3, PlaceChanges DEF Claim, Pcs, FreePcs, HaltPcs
  <2>4. PartsInv'
    BY <2>1, <2>3 DEF PartsInv, JobHeld, WorkRuns, JobStatuses
  <2>5. QED BY <2>1, <2>2, <2>4
<1>4. CASE Recover
  <2>1. /\ thread' = thread /\ thread.pc = "idle" /\ UNCHANGED accepted
        /\ workflows' = LinkedTo(job.wf, [from |-> {"running"}, to |-> "paused"])
    BY <1>4 DEF Recover, At
  <2>2. ChaptersAreLawful
    BY <1>1, <2>1, ChaptersFollow
  <2>3. QED BY <1>1, <1>4, <2>1, <2>2, RecoverRestates, OutsideIsLawful
<1>5. CASE Crash
  <2>1. UNCHANGED <<job, workflows, accepted>> /\ thread'.pc = "idle"
    BY <1>1, <1>5, ThreadLeaves DEF Crash, rows
  <2>2. JobIsLawful
    BY <1>1, <2>1, JobIsKept, JobTurnIsLawful DEF JobIsLawful, SameJob
  <2>3. PartsInv'
    BY <1>1, <2>1 DEF PartsInv, JobHeld, WorkRuns
  <2>4. QED BY <2>1, <2>2, <2>3, ChaptersRest
<1>6. CASE DatabaseFault
  <2>1. UNCHANGED <<job, workflows, accepted>> /\ thread.pc # "idle"
    BY <1>6 DEF DatabaseFault, rows
  <2>2. JobIsLawful
    BY <1>1, <2>1, JobIsKept, JobTurnIsLawful DEF JobIsLawful, SameJob
  <2>3. thread'.pc # "work"
    <3>1. Quiet /\ thread.pc # "work"
      BY <1>6, FaultIsQuiet DEF DatabaseFault
    <3>2. QED BY <3>1, QuietIsNoWork
  <2>4. PartsInv'
    BY <1>1, <2>1, <2>3 DEF PartsInv, JobHeld, WorkRuns
  <2>5. QED BY <2>1, <2>2, <2>4, ChaptersRest
\* The requests.
<1>7. CASE UNCHANGED <<job, workflows, accepted, thread>>
  <2>1. JobRestated /\ ChaptersAreLawful
    BY <1>1, <1>7, JobIsKept, ChaptersRest DEF SameJob
  <2>2. QED BY <1>1, <1>7, <2>1, OutsideIsLawful DEF JobHeld
<1>8. CASE PauseJob /\ UNCHANGED <<workflows, accepted, thread>>
  <2>1. JobRestated /\ (thread.pc # "idle" => job'.status \in
            {"running", "pause_requested", "cancel_requested"})
    BY <1>1, <1>8, PauseRestates
  <2>2. QED BY <1>8, <2>1, ChaptersRest, OutsideIsLawful
<1>9. CASE ResumeJob /\ UNCHANGED <<workflows, accepted, thread>>
  <2>1. JobRestated /\ (thread.pc # "idle" => job'.status \in
            {"running", "pause_requested", "cancel_requested"})
    BY <1>1, <1>9, ResumeRestates
  <2>2. QED BY <1>9, <2>1, ChaptersRest, OutsideIsLawful
<1>10. CASE CancelJob /\ UNCHANGED <<accepted, thread>>
  <2>1. ChaptersAreLawful
    BY <1>1, <1>10, CancelRestates, ChaptersRest, ChaptersFollow
  <2>2. QED BY <1>1, <1>10, <2>1, CancelRestates, OutsideIsLawful
<1>11. CASE Api \/ User \/ UNCHANGED vars
  <2>1. CASE PauseTheRun \/ CancelTheRun \/ RequestPause \/ RequestResume \/ RequestCancel
             \/ UNCHANGED vars
    BY <1>7, <2>1, Zenon DEF PauseTheRun, CancelTheRun, RequestPause, RequestResume,
       RequestCancel, vars, rows
  <2>2. CASE PauseTheJob
    BY <1>8, <2>2 DEF PauseTheJob
  <2>3. CASE ResumeTheJob
    BY <1>9, <2>3 DEF ResumeTheJob
  <2>4. CASE CancelTheJob
    BY <1>10, <2>4 DEF CancelTheJob
  <2>5. CASE JobRequest
    <3>1. CASE /\ job.status = "dead_lettered" /\ UNCHANGED workflows
               /\ job' = [job EXCEPT !.status = "queued",
                                     !.max = job.attempt + RegistryAttempts]
      <4>1. UNCHANGED <<workflows, accepted, thread>>
        BY <2>5, <3>1, Zenon DEF JobRequest
      <4>2. JobRestated /\ thread.pc = "idle"
        BY <1>1, <3>1, RevivalRestates
      <4>3. QED BY <4>1, <4>2, ChaptersRest, OutsideIsLawful
    <3>2. CASE ((PauseJob \/ ResumeJob) /\ UNCHANGED workflows) \/ CancelJob
      <4>1. UNCHANGED <<accepted, thread>>
        BY <2>5, Zenon DEF JobRequest
      <4>2. QED BY <1>8, <1>9, <1>10, <3>2, <4>1, Zenon
    <3>3. QED BY <2>5, <3>1, <3>2, Zenon DEF JobRequest
  <2>6. QED BY <1>11, <2>1, <2>2, <2>3, <2>4, <2>5 DEF Api, User
<1>12. QED BY <1>2, <1>3, <1>4, <1>5, <1>6, <1>11, Zenon DEF Next

LEMMA InitIsLawful ==
    ASSUME Init, BookRunAssumption
    PROVE  PartsInv /\ \A c \in Chapters : Chapter(c)!Init
<1>1. /\ job = [status |-> "queued", started |-> FALSE, wf |-> 0, attempt |-> 0,
                max |-> JobMaxAttempts]
      /\ workflows = <<>> /\ thread = IdleThread
    BY DEF Init
<1>2. PartsInv
    BY <1>1 DEF PartsInv, JobHeld, WorkRuns, JobStatuses, IdleThread
<1>3. accepted \in [Chapters -> Nat]
    BY InitInv DEF BookInv, RowType
<1>4. ASSUME NEW c \in Chapters
      PROVE  Chapter(c)!Init
  <2>1. RunsOf(c) = {}
    BY <1>1 DEF RunsOf
  <2>2. [w \in RunsOf(c) |-> workflows[w].status] = [w \in {} |-> "running"]
    BY <2>1
  <2>3. accepted[c] \in Nat
    BY <1>3
  <2>4. QED BY <2>2, <2>3, Zenon DEF Chapter!Init
<1>5. QED BY <1>2, <1>4

\* One at a time the workflows of a chapter begin, run and end, only the one that
\* completes replaces the accepted version, and the job of the run is started,
\* requested and ended as JobService and JobExecutor promise: in every step of a
\* run of any size (application/books.py, services/jobs.py, jobs/worker.py).
THEOREM PartsLiveLawfully ==
    Spec => PartsKeepTheirLifecycles
<1>1. Init => BookInv /\ PartsInv /\ \A c \in Chapters : Chapter(c)!Init
  BY BookRunAssumption, InitInv, InitIsLawful
<1>2. BookInv /\ PartsInv /\ [Next]_vars => (BookInv /\ PartsInv)'
  BY BookRunAssumption, NextKeepsInv, NextIsLawful
<1>3. BookInv /\ PartsInv /\ [Next]_vars => ChaptersAreLawful /\ JobIsLawful
  BY BookRunAssumption, NextIsLawful
<1>4. ChaptersAreLawful /\ JobIsLawful =>
          /\ \A c \in Chapters : [Chapter(c)!Next]_(Chapter(c)!chapterVars)
          /\ [Job!Next]_(Job!lifecycleVars)
  BY DEF ChaptersAreLawful, JobIsLawful
<1>5. QED BY <1>1, <1>2, <1>3, <1>4, PTL DEF Spec, PartsKeepTheirLifecycles
==============================================================================

------------------------ MODULE ChapterWorkflowProofs ------------------------
(***************************************************************************)
(* Theorems about ChapterWorkflow, for any number of executions,           *)
(* revisions, requests, crashes, lost leases and outside evaluations.      *)
(***************************************************************************)
EXTENDS ChapterWorkflow, TLAPS

-----------------------------------------------------------------------------
(***************************************************************************)
(* The invariant.                                                          *)
(***************************************************************************)

\* The revisions a run of an operation may make: one more than the limit when
\* the revision is what was asked for and the limit is none.
Limit(operation) ==
    IF MaxRevisions = 0 /\ operation = "targeted_revision" THEN 1 ELSE MaxRevisions

Revising == {"build_revision_brief", "revise_draft", "reject_revision"}
Extracted == {"evaluate_draft", "decide_after_evaluation", "evaluate_revision",
              "compare_versions", "decide_after_comparison", "accept_version",
              "reject_revision"}

\* A position on the way to a revision leaves room for it, and one behind an
\* extraction is about a version with facts.
Placed(p, rows_of, limit) ==
    /\ p.attempt <= limit
    /\ p.node \in Revising => p.attempt < limit
    /\ p.node \in ExtractionNodes \cup Extracted => p.current # 0
    /\ p.node \in Extracted => rows_of[p.current].facts # "none"
Reachable(p) == Placed(p, version, Limit(run.operation))

WorkflowInv ==
    /\ TypeOK /\ RevisionsBounded /\ CanonicalFacts
    /\ \A e \in Executions : Reachable(thread[e].at)
    /\ Reachable(checkpoint.now) /\ Reachable(checkpoint.before)

\* With one execution a run that closed is left alone: its execution has
\* ended, or waits for its last checkpoint.
Closed == {"completed", "completed_needs_review"}
ClosedRests ==
    run.status \in Closed =>
        \A e \in Executions :
            At(e, "idle") \/ (At(e, "done") /\ thread[e].at.node = "end")
-----------------------------------------------------------------------------
(***************************************************************************)
(* Types, and what a step does to the rows.                                *)
(***************************************************************************)

RunRows == [status : RunStatuses, operation : Operations, prior : Prior,
            current : Ids, best : Ids, accepted : Ids, attempt : Nat]
ChapterRows == [status : ChapterStatuses, current : Ids, accepted : Ids]
VersionRows == [status : VersionStatuses, facts : FactStatuses]

RowTypes ==
    /\ run \in RunRows /\ chapter \in ChapterRows /\ version \in [Versions -> VersionRows]
    /\ keyed \in [Versions -> Evaluations] /\ latest \in [Versions -> Evaluations]
    /\ comparison \in [Versions -> Decisions]
ControlTypes ==
    /\ owner \in Executions \cup {NoOne}
    /\ request \in {"none", "pause", "cancel"} /\ outside \in Ids
BoundTypes ==
    /\ asks \in 0..MaxAsks /\ crashes \in 0..MaxCrashes
    /\ stalls \in 0..MaxStalls /\ evaluations \in 0..MaxOutside

\* Facts of a version, once extracted, stay; no text becomes canonical and none
\* ceases to be.
FactsStay ==
    \A v \in Versions :
        /\ version[v].facts # "none" => version'[v].facts # "none"
        /\ version'[v].facts = "accepted" <=> version[v].facts = "accepted"
RunStays ==
    /\ run'.operation = run.operation /\ run'.prior = run.prior
    /\ run'.attempt <= Limit(run.operation)
ThreadsMove ==
    /\ thread' \in [Executions -> Threads]
    /\ \A e \in Executions :
          \/ thread'[e].at = thread[e].at
          \/ Placed(thread'[e].at, version', Limit(run.operation))
CheckpointStays ==
    /\ checkpoint' \in [now : Positions, before : Positions]
    /\ Placed(checkpoint'.now, version, Limit(run.operation))
    /\ Placed(checkpoint'.before, version, Limit(run.operation))

\* What every step but accept_version does.
Ordinary ==
    /\ RowTypes' /\ ControlTypes' /\ BoundTypes'
    /\ claimed' \subseteq ProviderNodes \X Versions
    /\ RunStays /\ chapter'.accepted = chapter.accepted /\ FactsStay
    /\ ThreadsMove /\ CheckpointStays

LEMMA LimitIsNumber ==
    ASSUME MaxRevisions \in Nat, NEW operation
    PROVE  /\ Limit(operation) \in Nat /\ MaxRevisions <= Limit(operation)
           /\ Limit(operation) <= MaxRevisions + 1
BY DEF Limit

LEMMA InvParts ==
    ASSUME WorkflowInv, WorkflowAssumption
    PROVE  /\ RowTypes /\ ControlTypes /\ BoundTypes
           /\ claimed \subseteq ProviderNodes \X Versions
           /\ checkpoint \in [now : Positions, before : Positions]
           /\ thread \in [Executions -> Threads]
           /\ \A e \in Executions :
                 /\ thread[e] \in Threads /\ thread[e].at \in Positions
                 /\ Placed(thread[e].at, version, Limit(run.operation))
           /\ checkpoint.now \in Positions /\ checkpoint.before \in Positions
           /\ Placed(checkpoint.now, version, Limit(run.operation))
           /\ Placed(checkpoint.before, version, Limit(run.operation))
           /\ run.attempt <= Limit(run.operation) /\ CanonicalFacts
           /\ MaxRevisions \in Nat /\ NoOne \notin Executions
<1>1. TypeOK /\ RevisionsBounded /\ CanonicalFacts /\ WorkflowAssumption
    BY DEF WorkflowInv
<1>2. /\ RowTypes /\ ControlTypes /\ BoundTypes
      /\ claimed \subseteq ProviderNodes \X Versions
      /\ checkpoint \in [now : Positions, before : Positions]
      /\ thread \in [Executions -> Threads]
    BY <1>1, Zenon DEF TypeOK, RowTypes, ControlTypes, BoundTypes, RunRows, ChapterRows,
                       VersionRows
<1>3. \A e \in Executions : thread[e] \in Threads /\ thread[e].at \in Positions
  <2>1. ASSUME NEW u \in Threads PROVE u.at \in Positions
    BY DEF Threads
  <2>2. QED BY <1>2, <2>1
<1>4. checkpoint.now \in Positions /\ checkpoint.before \in Positions
    BY <1>2
<1>5. /\ \A e \in Executions : Placed(thread[e].at, version, Limit(run.operation))
      /\ Placed(checkpoint.now, version, Limit(run.operation))
      /\ Placed(checkpoint.before, version, Limit(run.operation))
    BY DEF WorkflowInv, Reachable
<1>6. run.attempt <= Limit(run.operation)
    BY <1>1 DEF RevisionsBounded, Limit
<1>7. MaxRevisions \in Nat /\ NoOne \notin Executions
    BY <1>1 DEF WorkflowAssumption
<1>8. QED BY <1>1, <1>2, <1>3, <1>4, <1>5, <1>6, <1>7

\* A position stays placed as long as facts do not vanish.
LEMMA PlaceStays ==
    ASSUME NEW rows_of, NEW next, NEW limit, NEW p \in Positions, Placed(p, rows_of, limit),
           \A v \in Versions : rows_of[v].facts # "none" => next[v].facts # "none"
    PROVE  Placed(p, next, limit)
<1>1. p.current \in Ids
    BY DEF Positions
<1>2. p.node \in Extracted => p.current \in Versions
    BY <1>1 DEF Placed, Ids
<1>3. QED BY <1>2 DEF Placed

LEMMA InvOfParts ==
    ASSUME RowTypes', ControlTypes', BoundTypes', claimed' \subseteq ProviderNodes \X Versions,
           thread' \in [Executions -> Threads],
           checkpoint' \in [now : Positions, before : Positions],
           run'.operation = run.operation, run'.attempt <= Limit(run.operation),
           \A e \in Executions : Placed(thread'[e].at, version', Limit(run.operation)),
           Placed(checkpoint'.now, version', Limit(run.operation)),
           Placed(checkpoint'.before, version', Limit(run.operation)),
           CanonicalFacts'
    PROVE  WorkflowInv'
<1>1. TypeOK'
    BY Zenon DEF TypeOK, RowTypes, ControlTypes, BoundTypes, RunRows, ChapterRows, VersionRows
<1>2. RevisionsBounded'
    BY DEF RevisionsBounded, Limit
<1>3. /\ \A e \in Executions : Reachable(thread[e].at)'
      /\ Reachable(checkpoint.now)' /\ Reachable(checkpoint.before)'
    BY Zenon DEF Reachable
<1>4. QED BY <1>1, <1>2, <1>3 DEF WorkflowInv

LEMMA OrdinaryKeepsInv ==
    ASSUME WorkflowInv, WorkflowAssumption, Ordinary
    PROVE  WorkflowInv' /\ chapter'.accepted = chapter.accepted
<1> DEFINE limit == Limit(run.operation)
<1>1. /\ RowTypes' /\ ControlTypes' /\ BoundTypes' /\ RunStays /\ FactsStay
      /\ claimed' \subseteq ProviderNodes \X Versions
      /\ chapter'.accepted = chapter.accepted /\ ThreadsMove /\ CheckpointStays
    BY DEF Ordinary
<1>2. \A v \in Versions : version[v].facts # "none" => version'[v].facts # "none"
    BY <1>1 DEF FactsStay
<1>3. ASSUME NEW p \in Positions, Placed(p, version, limit)
      PROVE  Placed(p, version', limit)
    BY <1>2, <1>3, PlaceStays
<1>4. /\ \A e \in Executions : thread[e].at \in Positions /\ Placed(thread[e].at, version, limit)
      /\ CanonicalFacts
    BY InvParts
<1>5. ASSUME NEW e \in Executions PROVE Placed(thread'[e].at, version', limit)
  <2>1. thread'[e].at = thread[e].at \/ Placed(thread'[e].at, version', limit)
    BY <1>1 DEF ThreadsMove
  <2>2. Placed(thread[e].at, version', limit)
    BY <1>3, <1>4
  <2> HIDE DEF limit
  <2>3. CASE thread'[e].at = thread[e].at
    BY <2>2, <2>3
  <2>4. QED BY <2>1, <2>3
<1>6. Placed(checkpoint'.now, version', limit) /\ Placed(checkpoint'.before, version', limit)
  <2>1. /\ checkpoint'.now \in Positions /\ checkpoint'.before \in Positions
        /\ Placed(checkpoint'.now, version, limit) /\ Placed(checkpoint'.before, version, limit)
    BY <1>1 DEF CheckpointStays
  <2>2. QED BY <1>3, <2>1
<1>7. CanonicalFacts'
    BY <1>1, <1>4 DEF CanonicalFacts, FactsStay
<1>8. WorkflowInv'
    BY <1>1, <1>5, <1>6, <1>7, InvOfParts DEF RunStays, ThreadsMove, CheckpointStays
<1>9. QED BY <1>1, <1>8
-----------------------------------------------------------------------------
(***************************************************************************)
(* Moves of an execution.                                                  *)
(***************************************************************************)

LEMMA PcMoves ==
    ASSUME WorkflowInv, WorkflowAssumption, NEW e \in Executions, NEW pc \in Pcs, SetPc(e, pc)
    PROVE  ThreadsMove
<1>1. thread \in [Executions -> Threads] /\ thread[e] \in Threads
    BY InvParts
<1> DEFINE u == [thread[e] EXCEPT !.pc = pc]
<1>2. u \in Threads /\ u.at = thread[e].at
    BY <1>1 DEF Threads
<1>3. thread' = [thread EXCEPT ![e] = u]
    BY <1>1 DEF SetPc
<1> HIDE DEF u
<1>4. QED BY <1>1, <1>2, <1>3 DEF ThreadsMove

LEMMA CompletionMoves ==
    ASSUME WorkflowInv, WorkflowAssumption, NEW e \in Executions, NEW p \in Positions,
           Placed(p, version', Limit(run.operation)),
           thread' = [thread EXCEPT ![e].pc = "done", ![e].at = p]
    PROVE  ThreadsMove
<1>1. thread \in [Executions -> Threads] /\ thread[e] \in Threads
    BY InvParts
<1> DEFINE u == [thread[e] EXCEPT !.pc = "done"]
           v == [u EXCEPT !.at = p]
           mid == [thread EXCEPT ![e].pc = "done"]
<1>2. "done" \in Pcs
    BY DEF Pcs
<1>3. u \in Threads
    BY <1>1, <1>2 DEF Threads
<1>4. mid = [thread EXCEPT ![e] = u] /\ thread' = [mid EXCEPT ![e].at = p]
    BY <1>1, Zenon
<1> HIDE DEF u, mid
<1>5. v \in Threads /\ v.at = p
    BY <1>3 DEF Threads
<1>6. thread' = [thread EXCEPT ![e] = v]
  <2>1. mid[e] = u /\ thread' = [mid EXCEPT ![e] = v]
    BY <1>1, <1>4
  <2> HIDE DEF v
  <2>2. QED BY <1>1, <1>4, <2>1
<1> HIDE DEF v
<1>7. QED BY <1>1, <1>5, <1>6 DEF ThreadsMove

LEMMA StartIsPlaced ==
    ASSUME WorkflowAssumption, NEW rows_of, NEW operation
    PROVE  StartPosition \in Positions /\ Placed(StartPosition, rows_of, Limit(operation))
<1>1. Limit(operation) \in Nat
    BY LimitIsNumber DEF WorkflowAssumption
<1>2. StartPosition \in Positions
    BY DEF StartPosition, Positions, Nodes, PausableNodes, Ids
<1>3. Placed(StartPosition, rows_of, Limit(operation))
    BY <1>1 DEF StartPosition, Placed, Revising, ExtractionNodes, Extracted
<1>4. QED BY <1>2, <1>3

\* A thread that is given a place anew.
LEMMA PlacingMoves ==
    ASSUME WorkflowInv, WorkflowAssumption, NEW e \in Executions, NEW u \in Threads,
           Placed(u.at, version', Limit(run.operation)),
           thread' = [thread EXCEPT ![e] = u]
    PROVE  ThreadsMove
<1>1. thread \in [Executions -> Threads]
    BY InvParts
<1>2. QED BY <1>1 DEF ThreadsMove

LEMMA IdlingMoves ==
    ASSUME WorkflowInv, WorkflowAssumption, NEW e \in Executions,
           thread' = [thread EXCEPT ![e] = IdleThread]
    PROVE  ThreadsMove
<1>1. IdleThread \in Threads /\ IdleThread.at = StartPosition
    BY StartIsPlaced DEF IdleThread, Threads, Pcs
<1>2. QED BY <1>1, StartIsPlaced, PlacingMoves

LEMMA EndMoves ==
    ASSUME WorkflowInv, WorkflowAssumption, NEW e \in Executions, End(e), outside' = outside
    PROVE  ThreadsMove /\ ControlTypes'
<1>1. ThreadsMove
    BY IdlingMoves DEF End
<1>2. ControlTypes
    BY InvParts
<1>3. \/ owner' = NoOne /\ request' = "none"
      \/ owner' = owner /\ request' = request
    BY Zenon DEF End
<1>4. QED BY <1>1, <1>2, <1>3 DEF ControlTypes

LEMMA InvalidMoves ==
    ASSUME WorkflowInv, WorkflowAssumption, NEW e \in Executions, Invalid(e), outside' = outside
    PROVE  ThreadsMove /\ ControlTypes'
<1>1. CASE End(e)
    BY <1>1, EndMoves
<1>2. CASE SetPc(e, "failing") /\ UNCHANGED <<owner, request>>
  <2>1. "failing" \in Pcs
    BY DEF Pcs
  <2>2. ThreadsMove
    BY <1>2, <2>1, PcMoves
  <2>3. ControlTypes
    BY InvParts
  <2>4. QED BY <1>2, <2>2, <2>3 DEF ControlTypes
<1>3. QED BY <1>1, <1>2, Zenon DEF Invalid

-----------------------------------------------------------------------------
(***************************************************************************)
(* What is left alone.                                                     *)
(***************************************************************************)

LEMMA RowsRest ==
    ASSUME WorkflowInv, WorkflowAssumption, UNCHANGED rows
    PROVE  RowTypes' /\ RunStays /\ chapter'.accepted = chapter.accepted /\ FactsStay
BY InvParts DEF rows, RowTypes, RunStays, FactsStay

LEMMA CheckpointRests ==
    ASSUME WorkflowInv, WorkflowAssumption, UNCHANGED checkpoint
    PROVE  CheckpointStays
BY InvParts DEF CheckpointStays

LEMMA ControlRests ==
    ASSUME WorkflowInv, WorkflowAssumption, UNCHANGED <<owner, request, outside>>
    PROVE  ControlTypes'
BY InvParts DEF ControlTypes

LEMMA BoundsRest ==
    ASSUME WorkflowInv, WorkflowAssumption, UNCHANGED bounds
    PROVE  BoundTypes'
BY InvParts DEF BoundTypes, bounds

LEMMA ThreadsRest ==
    ASSUME WorkflowInv, WorkflowAssumption, UNCHANGED thread
    PROVE  ThreadsMove
BY InvParts DEF ThreadsMove

-----------------------------------------------------------------------------
(***************************************************************************)
(* The rows after an update.                                               *)
(***************************************************************************)

SameRun(r, q) ==
    /\ q.operation = r.operation /\ q.prior = r.prior /\ q.attempt = r.attempt

Turned(r, s) == [r EXCEPT !.status = s]
Aimed(r, c) == [r EXCEPT !.current = c]
Ranked(r, b) == [r EXCEPT !.best = b]
Shown(r, s, c) == [r EXCEPT !.status = s, !.current = c]
Noted(r, c, b) == [r EXCEPT !.current = c, !.best = b]
Revised(r, c, n) == [r EXCEPT !.current = c, !.attempt = n]
Settled(r, s, c, b) == [r EXCEPT !.status = s, !.current = c, !.best = b]
Concluded(r, s, c, b, a) ==
    [r EXCEPT !.status = s, !.current = c, !.best = b, !.accepted = a]

LEMMA RunTurns ==
    ASSUME NEW r \in RunRows, NEW s \in RunStatuses
    PROVE  Turned(r, s) \in RunRows /\ Turned(r, s).status = s /\ SameRun(r, Turned(r, s))
BY DEF RunRows, Turned, SameRun

LEMMA RunAims ==
    ASSUME NEW r \in RunRows, NEW c \in Ids
    PROVE  Aimed(r, c) \in RunRows /\ SameRun(r, Aimed(r, c)) /\ Aimed(r, c).status = r.status
BY DEF RunRows, Aimed, SameRun

LEMMA RunRanks ==
    ASSUME NEW r \in RunRows, NEW b \in Ids
    PROVE  /\ Ranked(r, b) \in RunRows /\ SameRun(r, Ranked(r, b))
           /\ Ranked(r, b).status = r.status /\ Ranked(r, b).best = b
BY DEF RunRows, Ranked, SameRun

LEMMA RunShows ==
    ASSUME NEW r \in RunRows, NEW s \in RunStatuses, NEW c \in Ids
    PROVE  /\ Shown(r, s, c) \in RunRows /\ SameRun(r, Shown(r, s, c))
           /\ Shown(r, s, c).status = s
<1> DEFINE q == Turned(r, s)
           v == Shown(r, s, c)
<1>1. q \in RunRows /\ SameRun(r, q) /\ q.status = s
    BY RunTurns
<1>2. v = Aimed(q, c)
    BY Zenon DEF Turned, Aimed, Shown
<1> HIDE DEF q, v
<1>3. v \in RunRows /\ SameRun(q, v) /\ v.status = q.status
    BY <1>1, <1>2, RunAims
<1>4. QED BY <1>1, <1>3 DEF SameRun, v

LEMMA RunNotes ==
    ASSUME NEW r \in RunRows, NEW c \in Ids, NEW b \in Ids
    PROVE  /\ Noted(r, c, b) \in RunRows /\ SameRun(r, Noted(r, c, b))
           /\ Noted(r, c, b).status = r.status
<1> DEFINE q == Aimed(r, c)
           v == Noted(r, c, b)
<1>1. q \in RunRows /\ SameRun(r, q) /\ q.status = r.status
    BY RunAims
<1>2. v = Ranked(q, b)
    BY Zenon DEF Aimed, Ranked, Noted
<1> HIDE DEF q, v
<1>3. v \in RunRows /\ SameRun(q, v) /\ v.status = q.status
    BY <1>1, <1>2, RunRanks
<1>4. QED BY <1>1, <1>3 DEF SameRun, v

\* A run whose number of revisions is another.
Renewed(r, q, n) ==
    /\ q \in RunRows /\ q.attempt = n /\ q.operation = r.operation /\ q.prior = r.prior
    /\ q.status = r.status

LEMMA RunRevises ==
    ASSUME NEW r \in RunRows, NEW c \in Ids, NEW n \in Nat
    PROVE  Renewed(r, Revised(r, c, n), n)
<1> DEFINE q == Aimed(r, c)
           v == Revised(r, c, n)
<1>1. q \in RunRows /\ SameRun(r, q) /\ q.status = r.status
    BY RunAims
<1>2. v = [q EXCEPT !.attempt = n]
    BY Zenon DEF Aimed, Revised
<1> HIDE DEF q, v
<1>3. /\ v \in RunRows /\ v.attempt = n /\ v.operation = q.operation /\ v.prior = q.prior
      /\ v.status = q.status
    BY <1>1, <1>2 DEF RunRows
<1>4. QED BY <1>1, <1>3 DEF SameRun, Renewed, v

LEMMA RunSettles ==
    ASSUME NEW r \in RunRows, NEW s \in RunStatuses, NEW c \in Ids, NEW b \in Ids
    PROVE  /\ Settled(r, s, c, b) \in RunRows /\ SameRun(r, Settled(r, s, c, b))
           /\ Settled(r, s, c, b).status = s
<1> DEFINE q == Shown(r, s, c)
           v == Settled(r, s, c, b)
<1>1. q \in RunRows /\ SameRun(r, q) /\ q.status = s
    BY RunShows
<1>2. v = Ranked(q, b)
    BY Zenon DEF Shown, Ranked, Settled
<1> HIDE DEF q, v
<1>3. v \in RunRows /\ SameRun(q, v) /\ v.status = q.status
    BY <1>1, <1>2, RunRanks
<1>4. QED BY <1>1, <1>3 DEF SameRun, v

LEMMA RunConcludes ==
    ASSUME NEW r \in RunRows, NEW s \in RunStatuses, NEW c \in Ids, NEW b \in Ids, NEW a \in Ids
    PROVE  /\ Concluded(r, s, c, b, a) \in RunRows /\ SameRun(r, Concluded(r, s, c, b, a))
           /\ Concluded(r, s, c, b, a).status = s
<1> DEFINE q == Settled(r, s, c, b)
           v == Concluded(r, s, c, b, a)
<1>1. q \in RunRows /\ SameRun(r, q) /\ q.status = s
    BY RunSettles
<1>2. v = [q EXCEPT !.accepted = a]
    BY Zenon DEF Settled, Concluded
<1> HIDE DEF q, v
<1>3. /\ v \in RunRows /\ v.attempt = q.attempt /\ v.operation = q.operation
      /\ v.prior = q.prior /\ v.status = q.status
    BY <1>1, <1>2 DEF RunRows
<1>4. QED BY <1>1, <1>3 DEF SameRun, v
\* A chapter with another status or current version.
Marked(h, s) == [h EXCEPT !.status = s]
Written(h, c, s) == [h EXCEPT !.current = c, !.status = s]
Displayed(h, s, c) == [h EXCEPT !.status = s, !.current = c]

LEMMA ChapterIsMarked ==
    ASSUME NEW h \in ChapterRows, NEW s \in ChapterStatuses
    PROVE  Marked(h, s) \in ChapterRows /\ Marked(h, s).accepted = h.accepted
BY DEF ChapterRows, Marked

LEMMA ChapterIsWritten ==
    ASSUME NEW h \in ChapterRows, NEW c \in Ids, NEW s \in ChapterStatuses
    PROVE  /\ Written(h, c, s) \in ChapterRows /\ Written(h, c, s).accepted = h.accepted
           /\ Displayed(h, s, c) \in ChapterRows /\ Displayed(h, s, c).accepted = h.accepted
<1> DEFINE q == Marked(h, s)
           p == [h EXCEPT !.current = c]
           v == Written(h, c, s)
           w == Displayed(h, s, c)
<1>1. q \in ChapterRows /\ q.accepted = h.accepted
    BY ChapterIsMarked
<1>2. p \in ChapterRows /\ p.accepted = h.accepted
    BY DEF ChapterRows
<1>3. v = Marked(p, s)
    BY Zenon DEF Written, Marked
<1>4. w = [q EXCEPT !.current = c]
    BY Zenon DEF Displayed, Marked
<1> HIDE DEF p, q, v, w
<1>5. v \in ChapterRows /\ v.accepted = h.accepted
    BY <1>2, <1>3, ChapterIsMarked
<1>6. w \in ChapterRows /\ w.accepted = h.accepted
    BY <1>1, <1>4 DEF ChapterRows
<1>7. QED BY <1>5, <1>6 DEF v, w

\* A version with another status keeps its facts.
LEMMA VersionIsRestated ==
    ASSUME WorkflowInv, WorkflowAssumption, NEW v \in Versions, NEW s \in VersionStatuses,
           version' = [version EXCEPT ![v].status = s]
    PROVE  /\ version' \in [Versions -> VersionRows] /\ FactsStay
           /\ \A u \in Versions : version'[u].facts = version[u].facts
           /\ \A u \in Versions : u # v => version'[u] = version[u]
           /\ version'[v].status = s
<1>1. version \in [Versions -> VersionRows] /\ version[v] \in VersionRows
    BY InvParts DEF RowTypes
<1> DEFINE row == [version[v] EXCEPT !.status = s]
<1>2. row \in VersionRows /\ row.facts = version[v].facts /\ row.status = s
    BY <1>1 DEF VersionRows
<1>3. version' = [version EXCEPT ![v] = row]
    BY <1>1
<1> HIDE DEF row
<1>4. /\ version' \in [Versions -> VersionRows]
      /\ \A u \in Versions : version'[u] = IF u = v THEN row ELSE version[u]
    BY <1>1, <1>2, <1>3
<1>5. \A u \in Versions : version'[u].facts = version[u].facts
    BY <1>2, <1>4
<1>6. QED BY <1>2, <1>4, <1>5 DEF FactsStay

-----------------------------------------------------------------------------
(***************************************************************************)
(* Positions after a node.                                                 *)
(***************************************************************************)

LEMMA Edges ==
    /\ Edge("initialize_workflow") = "load_context"
    /\ Edge("load_context") = "generate_draft"
    /\ Edge("generate_draft") = "extract_facts"
    /\ Edge("extract_facts") = "evaluate_draft"
    /\ Edge("evaluate_draft") = "decide_after_evaluation"
    /\ Edge("build_revision_brief") = "revise_draft"
    /\ Edge("revise_draft") = "extract_revision_facts"
    /\ Edge("extract_revision_facts") = "evaluate_revision"
    /\ Edge("evaluate_revision") = "compare_versions"
    /\ Edge("compare_versions") = "decide_after_comparison"
    /\ Edge("reject_revision") = "build_revision_brief"
    /\ Edge("accept_version") = "end"
    /\ Edge("mark_needs_human_review") = "end"
BY DEF Edge

LEMMA EdgesAreNodes ==
    ASSUME NEW n \in Nodes
    PROVE  Edge(n) \in Nodes
BY DEF Edge, Nodes, PausableNodes, ProviderNodes

Redirected(p, n) == [p EXCEPT !.node = n]
Aiming(p, c) == [p EXCEPT !.current = c]
Ranking(p, b) == [p EXCEPT !.best = b]
Drafted(p, c, b) == [p EXCEPT !.current = c, !.best = b]
Attempted(p, c, n) == [p EXCEPT !.current = c, !.attempt = n]

LEMMA PositionIsRedirected ==
    ASSUME NEW p \in Positions, NEW n \in Nodes
    PROVE  LET q == Redirected(p, n) IN
           /\ q \in Positions /\ q.node = n /\ q.current = p.current /\ q.best = p.best
           /\ q.attempt = p.attempt
BY DEF Positions, Redirected

LEMMA PositionAims ==
    ASSUME NEW p \in Positions, NEW c \in Ids
    PROVE  LET q == Aiming(p, c) IN
           /\ q \in Positions /\ q.node = p.node /\ q.current = c /\ q.best = p.best
           /\ q.attempt = p.attempt
BY DEF Positions, Aiming

LEMMA PositionRanks ==
    ASSUME NEW p \in Positions, NEW b \in Ids
    PROVE  LET q == Ranking(p, b) IN
           /\ q \in Positions /\ q.node = p.node /\ q.current = p.current /\ q.best = b
           /\ q.attempt = p.attempt
BY DEF Positions, Ranking

LEMMA PositionIsDrafted ==
    ASSUME NEW p \in Positions, NEW c \in Ids, NEW b \in Ids
    PROVE  LET q == Drafted(p, c, b) IN
           /\ q \in Positions /\ q.node = p.node /\ q.current = c /\ q.best = b
           /\ q.attempt = p.attempt
<1> DEFINE m == Aiming(p, c)
           q == Drafted(p, c, b)
<1>1. m \in Positions /\ m.node = p.node /\ m.current = c /\ m.attempt = p.attempt
    BY PositionAims
<1>2. q = Ranking(m, b)
    BY Zenon DEF Aiming, Ranking, Drafted
<1> HIDE DEF m, q
<1>3. /\ q \in Positions /\ q.node = m.node /\ q.current = m.current /\ q.best = b
      /\ q.attempt = m.attempt
    BY <1>1, <1>2, PositionRanks
<1>4. QED BY <1>1, <1>3 DEF q

Stands(q, node, current, attempt) ==
    q \in Positions /\ q.node = node /\ q.current = current /\ q.attempt = attempt

LEMMA PositionIsAttempted ==
    ASSUME NEW p \in Positions, NEW c \in Ids, NEW n \in Nat
    PROVE  Stands(Attempted(p, c, n), p.node, c, n)
<1> DEFINE m == Aiming(p, c)
           q == Attempted(p, c, n)
<1>1. m \in Positions /\ m.node = p.node /\ m.current = c
    BY PositionAims
<1>2. q = [m EXCEPT !.attempt = n]
    BY Zenon DEF Aiming, Attempted
<1> HIDE DEF m, q
<1>3. q \in Positions /\ q.node = m.node /\ q.current = m.current /\ q.attempt = n
    BY <1>1, <1>2 DEF Positions
<1>4. QED BY <1>1, <1>3 DEF q, Stands

LEMMA OnwardPosition ==
    ASSUME WorkflowInv, WorkflowAssumption, NEW e \in Executions
    PROVE  /\ Onward(e) \in Positions /\ Onward(e).node = Edge(thread[e].at.node)
           /\ Onward(e).current = Current(e) /\ Onward(e).best = thread[e].at.best
           /\ Onward(e).attempt = thread[e].at.attempt
           /\ Current(e) \in Ids /\ thread[e].at.best \in Ids
           /\ thread[e].at.attempt \in Nat /\ thread[e].at.node \in Nodes
<1> DEFINE at == thread[e].at
<1>1. at \in Positions
    BY InvParts
<1>2. Onward(e) = Redirected(at, Edge(at.node))
    BY Zenon DEF Onward, Redirected
<1> HIDE DEF at
<1>3. at.node \in Nodes /\ at.current \in Ids /\ at.best \in Ids /\ at.attempt \in Nat
    BY <1>1 DEF Positions
<1>4. Edge(at.node) \in Nodes
    BY <1>3, EdgesAreNodes
<1>5. LET q == Redirected(at, Edge(at.node)) IN
      /\ q \in Positions /\ q.node = Edge(at.node) /\ q.current = at.current /\ q.best = at.best
      /\ q.attempt = at.attempt
    BY <1>1, <1>4, PositionIsRedirected
<1>6. QED BY <1>2, <1>3, <1>5, Zenon DEF at, Current

LEMMA PlaceOfThread ==
    ASSUME WorkflowInv, WorkflowAssumption, NEW e \in Executions
    PROVE  LET at == thread[e].at
               limit == Limit(run.operation) IN
           /\ limit \in Nat /\ limit <= MaxRevisions + 1 /\ MaxRevisions <= limit
           /\ MaxRevisions \in Nat /\ at.attempt <= limit
           /\ at.node \in Revising => at.attempt < limit
           /\ at.node \in ExtractionNodes \cup Extracted => Current(e) \in Versions
           /\ at.node \in Extracted => version[Current(e)].facts # "none"
<1>1. Placed(thread[e].at, version, Limit(run.operation)) /\ MaxRevisions \in Nat
    BY InvParts
<1>2. Current(e) \in Ids
    BY OnwardPosition
<1>3. QED BY <1>1, <1>2, LimitIsNumber DEF Placed, Current, Ids

\* After a draft, a revision, and the other nodes of a provider.
LEMMA DraftIsPlaced ==
    ASSUME WorkflowInv, WorkflowAssumption, NEW e \in Executions,
           thread[e].at.node = "generate_draft", NEW rows_of
    PROVE  /\ After(e) \in Positions /\ Placed(After(e), rows_of, Limit(run.operation))
           /\ After(e).node = "extract_facts"
           /\ chapter.current \in {0, 1} => After(e).current = 1
<1> DEFINE p == Onward(e)
           draft == IF ~run.prior /\ version[1].status # "none" THEN 1 ELSE chapter.current
           cur == IF Exists(e) THEN draft ELSE 1
           best == IF p.best # 0 THEN p.best ELSE cur
           q == Drafted(p, cur, best)
<1>1. p \in Positions /\ p.node = "extract_facts" /\ p.best \in Ids
      /\ p.attempt = thread[e].at.attempt
    BY OnwardPosition, Edges
<1>2. cur \in Ids /\ cur # 0 /\ (chapter.current \in {0, 1} => cur = 1)
  <2>1. 1 \in Versions /\ chapter.current \in Ids
    BY InvParts DEF RowTypes, ChapterRows, Versions
  <2>2. Exists(e) => chapter.current # 0 \/ (~run.prior /\ version[1].status # "none")
    BY DEF Exists, ExtractionNodes, EvaluationNodes
  <2>3. QED BY <2>1, <2>2 DEF Ids
<1>3. After(e) = q
  <2>1. After(e) = [p EXCEPT !.current = cur, !.best = IF @ # 0 THEN @ ELSE cur]
    BY DEF After
  <2>2. QED BY <2>1, Zenon DEF Drafted
<1> HIDE DEF p, cur
<1>4. best \in Ids
    BY <1>1, <1>2
<1> HIDE DEF best
<1>5. q \in Positions /\ q.node = p.node /\ q.current = cur /\ q.attempt = p.attempt
  <2>1. p \in Positions /\ cur \in Ids /\ best \in Ids
    BY <1>1, <1>2, <1>4
  <2>2. QED BY <2>1, PositionIsDrafted
<1> HIDE DEF q
<1>6. Placed(q, rows_of, Limit(run.operation))
  <2>1. p.attempt <= Limit(run.operation)
    BY <1>1, PlaceOfThread
  <2>2. q.node = "extract_facts"
    BY <1>1, <1>5
  <2>3. QED BY <1>2, <1>5, <2>1, <2>2 DEF Placed, Revising, ExtractionNodes, Extracted
<1>7. QED BY <1>1, <1>2, <1>3, <1>5, <1>6

LEMMA RevisionIsPlaced ==
    ASSUME WorkflowInv, WorkflowAssumption, NEW e \in Executions,
           thread[e].at.node = "revise_draft", NEW rows_of
    PROVE  /\ After(e) \in Positions /\ Placed(After(e), rows_of, Limit(run.operation))
           /\ Target(e) \in Versions /\ thread[e].at.attempt + 1 \in Nat
           /\ thread[e].at.attempt + 1 <= Limit(run.operation)
           /\ After(e).node = "extract_revision_facts"
<1> DEFINE p == Onward(e)
           n == thread[e].at.attempt + 1
           v == Target(e)
           q == Attempted(p, v, n)
<1>1. /\ p \in Positions /\ p.node = "extract_revision_facts"
      /\ p.attempt = thread[e].at.attempt /\ thread[e].at.attempt \in Nat
    BY OnwardPosition, Edges
<1>2. /\ MaxRevisions \in Nat /\ Limit(run.operation) \in Nat
      /\ thread[e].at.attempt < Limit(run.operation)
      /\ Limit(run.operation) <= MaxRevisions + 1
    BY PlaceOfThread DEF Revising
<1>3. v = thread[e].at.attempt + 2
    BY DEF Target
<1>4. v \in Versions /\ v \in Ids /\ v # 0 /\ n \in Nat /\ n <= Limit(run.operation)
    BY <1>1, <1>2, <1>3 DEF Versions, Ids
<1>5. After(e) = q
  <2>1. After(e) = [p EXCEPT !.current = v, !.attempt = @ + 1]
    BY DEF After
  <2>2. After(e) = Attempted(p, v, p.attempt + 1)
    BY <2>1, Zenon DEF Attempted
  <2>3. QED BY <1>1, <2>2
<1> HIDE DEF p, n, v
<1>6. q \in Positions /\ q.node = p.node /\ q.current = v /\ q.attempt = n
  <2>1. p \in Positions /\ v \in Ids /\ n \in Nat
    BY <1>1, <1>4
  <2>2. Stands(q, p.node, v, n)
    BY <2>1, PositionIsAttempted, Zenon
  <2> HIDE DEF q
  <2>3. QED BY <2>2 DEF Stands
<1> HIDE DEF q
<1>7. Placed(q, rows_of, Limit(run.operation))
  <2>1. q.node = "extract_revision_facts"
    BY <1>1, <1>6
  <2>2. QED BY <1>4, <1>6, <2>1 DEF Placed, Revising, ExtractionNodes, Extracted
<1>8. QED BY <1>1, <1>4, <1>5, <1>6, <1>7 DEF n, v

LEMMA OnwardIsPlaced ==
    ASSUME WorkflowInv, WorkflowAssumption, NEW e \in Executions,
           thread[e].at.node \in ExtractionNodes \cup EvaluationNodes, NEW rows_of,
           rows_of[Current(e)].facts # "none"
    PROVE  Placed(Onward(e), rows_of, Limit(run.operation))
<1> DEFINE p == Onward(e)
<1>1. /\ p.node = Edge(thread[e].at.node) /\ p.current = Current(e)
      /\ p.attempt = thread[e].at.attempt
    BY OnwardPosition
<1>2. p.node \in {"evaluate_draft", "evaluate_revision", "decide_after_evaluation",
                  "compare_versions"}
    BY <1>1, Edges DEF ExtractionNodes, EvaluationNodes
<1>3. Current(e) \in Versions /\ p.attempt <= Limit(run.operation)
    BY <1>1, PlaceOfThread DEF ExtractionNodes, EvaluationNodes, Extracted
<1> HIDE DEF p
<1>4. Current(e) # 0
    BY <1>3 DEF Versions
<1>5. Placed(p, rows_of, Limit(run.operation))
    BY <1>1, <1>2, <1>3, <1>4 DEF Placed, Revising
<1>6. QED BY <1>5 DEF p
-----------------------------------------------------------------------------
(***************************************************************************)
(* The steps.                                                              *)
(***************************************************************************)

LEMMA PcStep ==
    ASSUME WorkflowInv, WorkflowAssumption, NEW e \in Executions, NEW pc \in Pcs, SetPc(e, pc),
           UNCHANGED <<owner, request, outside>>
    PROVE  ThreadsMove /\ ControlTypes'
BY PcMoves, ControlRests

LEMMA CompletionStep ==
    ASSUME WorkflowInv, WorkflowAssumption, NEW e \in Executions, NEW p \in Positions,
           Placed(p, version', Limit(run.operation)), Complete(e, p),
           UNCHANGED <<owner, request, outside>>
    PROVE  ThreadsMove /\ ControlTypes'
<1>1. thread' = [thread EXCEPT ![e].pc = "done", ![e].at = p]
    BY Zenon DEF Complete
<1>2. QED BY <1>1, CompletionMoves, ControlRests

\* Steps that leave the rows alone.
LEMMA MoveIsOrdinary ==
    ASSUME WorkflowInv, WorkflowAssumption, ThreadsMove, ControlTypes',
           UNCHANGED <<rows, claimed, checkpoint, bounds>>
    PROVE  Ordinary
<1>1. RowTypes' /\ RunStays /\ chapter'.accepted = chapter.accepted /\ FactsStay
    BY RowsRest
<1>2. CheckpointStays /\ BoundTypes'
    BY CheckpointRests, BoundsRest
<1>3. claimed' \subseteq ProviderNodes \X Versions
    BY InvParts
<1>4. QED BY <1>1, <1>2, <1>3 DEF Ordinary

LEMMA StutterIsOrdinary ==
    ASSUME WorkflowInv, WorkflowAssumption, UNCHANGED vars
    PROVE  Ordinary
<1>1. UNCHANGED <<rows, claimed, checkpoint, bounds, thread, owner, request, outside>>
    BY DEF vars
<1>2. QED BY <1>1, ThreadsRest, ControlRests, MoveIsOrdinary

LEMMA RunIsOrdinary ==
    ASSUME WorkflowInv, WorkflowAssumption, NEW e \in Executions, Run(e)
    PROVE  Ordinary
<1> DEFINE u == [pc |-> "enter", at |-> StartPosition, first |-> TRUE]
<1>1. /\ thread' = [thread EXCEPT ![e] = u] /\ owner' = e
      /\ UNCHANGED <<rows, claimed, checkpoint, request, outside, bounds>>
    BY Zenon DEF Run
<1>2. u \in Threads /\ u.at = StartPosition
    BY StartIsPlaced DEF Threads, Pcs
<1> HIDE DEF u
<1>3. ThreadsMove
    BY <1>1, <1>2, StartIsPlaced, PlacingMoves
<1>4. ControlTypes'
    BY <1>1, InvParts DEF ControlTypes
<1>5. QED BY <1>1, <1>3, <1>4, MoveIsOrdinary

LEMMA EnterIsOrdinary ==
    ASSUME WorkflowInv, WorkflowAssumption, NEW e \in Executions, Enter(e)
    PROVE  Ordinary
<1>1. /\ \/ SetPc(e, "pausing") /\ UNCHANGED <<owner, request>>
         \/ SetPc(e, "cancelling") /\ UNCHANGED <<owner, request>>
         \/ Invalid(e)
         \/ SetPc(e, "act") /\ UNCHANGED <<owner, request>>
      /\ UNCHANGED <<rows, claimed, checkpoint, outside, bounds>>
    BY Zenon DEF Enter
<1>2. {"pausing", "cancelling", "act"} \subseteq Pcs
    BY DEF Pcs
<1>3. ThreadsMove /\ ControlTypes'
  <2>1. CASE Invalid(e)
    BY <1>1, <2>1, InvalidMoves
  <2>2. CASE SetPc(e, "pausing") /\ UNCHANGED <<owner, request>>
    BY <1>1, <1>2, <2>2, PcStep
  <2>3. CASE SetPc(e, "cancelling") /\ UNCHANGED <<owner, request>>
    BY <1>1, <1>2, <2>3, PcStep
  <2>4. CASE SetPc(e, "act") /\ UNCHANGED <<owner, request>>
    BY <1>1, <1>2, <2>4, PcStep
  <2>5. QED BY <1>1, <2>1, <2>2, <2>3, <2>4
<1>4. QED BY <1>1, <1>3, MoveIsOrdinary

LEMMA AnswerIsOrdinary ==
    ASSUME WorkflowInv, WorkflowAssumption, NEW e \in Executions, Answer(e)
    PROVE  Ordinary
<1>1. /\ SetPc(e, "save")
      /\ UNCHANGED <<rows, claimed, checkpoint, owner, request, outside, bounds>>
    BY Zenon DEF Answer
<1>2. "save" \in Pcs
    BY DEF Pcs
<1>3. QED BY <1>1, <1>2, PcStep, MoveIsOrdinary

LEMMA BlockIsOrdinary ==
    ASSUME WorkflowInv, WorkflowAssumption, NEW e \in Executions, Block(e)
    PROVE  Ordinary
<1> DEFINE pc == IF run.status \in Terminal \/ run.best = 0 THEN "failing" ELSE "reviewing"
<1>1. /\ SetPc(e, pc)
      /\ UNCHANGED <<rows, claimed, checkpoint, owner, request, outside, bounds>>
    BY Zenon DEF Block
<1>2. pc \in Pcs
    BY DEF Pcs
<1> HIDE DEF pc
<1>3. QED BY <1>1, <1>2, PcStep, MoveIsOrdinary

LEMMA CallBlockedIsOrdinary ==
    ASSUME WorkflowInv, WorkflowAssumption, NEW e \in Executions, CallBlocked(e)
    PROVE  Ordinary
<1>1. /\ SetPc(e, "blocking") /\ claimed' = claimed \ {Key(e)}
      /\ UNCHANGED <<rows, checkpoint, owner, request, outside, bounds>>
    BY Zenon DEF CallBlocked
<1>2. "blocking" \in Pcs
    BY DEF Pcs
<1>3. ThreadsMove /\ ControlTypes'
    BY <1>1, <1>2, PcStep
<1>4. RowTypes' /\ RunStays /\ chapter'.accepted = chapter.accepted /\ FactsStay
    BY <1>1, RowsRest
<1>5. CheckpointStays /\ BoundTypes'
    BY <1>1, CheckpointRests, BoundsRest
<1>6. claimed' \subseteq ProviderNodes \X Versions
  <2>1. claimed \subseteq ProviderNodes \X Versions
    BY InvParts
  <2>2. QED BY <1>1, <2>1
<1>7. QED BY <1>3, <1>4, <1>5, <1>6 DEF Ordinary

LEMMA ReadIsOrdinary ==
    ASSUME WorkflowInv, WorkflowAssumption, NEW e \in Executions, Read(e)
    PROVE  Ordinary
<1> DEFINE at == thread[e].at
           p == Onward(e)
           limit == Limit(run.operation)
<1>1. /\ at.node \in {"load_context", "build_revision_brief"}
      /\ Complete(e, IF at.node = "load_context" THEN p ELSE [p EXCEPT !.current = at.best])
      /\ UNCHANGED <<rows, claimed, checkpoint, owner, request, outside, bounds>>
    BY Zenon DEF Read, AtNode
<1>2. /\ p \in Positions /\ p.node = Edge(at.node) /\ p.attempt = at.attempt
      /\ at.best \in Ids
    BY OnwardPosition
<1>3. /\ limit \in Nat /\ at.attempt <= limit
      /\ at.node \in Revising => at.attempt < limit
    BY PlaceOfThread
<1> HIDE DEF at, p, limit
<1>4. CASE at.node = "load_context"
  <2>1. Complete(e, p)
    BY <1>1, <1>4
  <2>2. p.node = "generate_draft"
    BY <1>2, <1>4, Edges
  <2>3. Placed(p, version', limit)
    BY <1>2, <1>3, <2>2 DEF Placed, Revising, ExtractionNodes, Extracted
  <2>4. ThreadsMove /\ ControlTypes'
    BY <1>1, <1>2, <2>1, <2>3, CompletionStep DEF limit
  <2>5. QED BY <1>1, <2>4, MoveIsOrdinary
<1>5. CASE at.node = "build_revision_brief"
  <2> DEFINE q == Aiming(p, at.best)
  <2>1. Complete(e, q)
    BY <1>1, <1>5, Zenon DEF Aiming
  <2>2. q \in Positions /\ q.node = p.node /\ q.attempt = p.attempt
    BY <1>2, PositionAims
  <2> HIDE DEF q
  <2>3. q.node = "revise_draft" /\ at.attempt < limit
    BY <1>2, <1>3, <1>5, <2>2, Edges DEF Revising
  <2>4. Placed(q, version', limit)
    BY <1>2, <1>3, <2>2, <2>3 DEF Placed, Revising, ExtractionNodes, Extracted
  <2>5. ThreadsMove /\ ControlTypes'
    BY <1>1, <2>1, <2>2, <2>4, CompletionStep DEF limit
  <2>6. QED BY <1>1, <2>5, MoveIsOrdinary
<1>6. QED BY <1>1, <1>4, <1>5

LEMMA DecideIsOrdinary ==
    ASSUME WorkflowInv, WorkflowAssumption, NEW e \in Executions, Decide(e)
    PROVE  Ordinary
<1> DEFINE at == thread[e].at
           limit == Limit(run.operation)
<1>1. /\ \/ at.node = "decide_after_evaluation"
            /\ Complete(e, [at EXCEPT !.node = RouteAfterEvaluation(at)])
         \/ at.node = "decide_after_comparison"
            /\ Complete(e, [at EXCEPT !.node = RouteAfterComparison(at)])
      /\ UNCHANGED <<rows, claimed, checkpoint, owner, request, outside, bounds>>
    BY Zenon DEF Decide, AtNode
<1>2. at \in Positions /\ at.attempt \in Nat
    BY InvParts, OnwardPosition
<1>3. /\ limit \in Nat /\ at.attempt <= limit /\ MaxRevisions <= limit /\ MaxRevisions \in Nat
      /\ version[at.current].facts # "none" /\ at.current # 0
  <2>1. at.node \in Extracted
    BY <1>1 DEF Extracted
  <2>2. QED BY <2>1, PlaceOfThread DEF Current, Versions
<1>4. PICK n \in {"build_revision_brief", "accept_version", "mark_needs_human_review",
                  "reject_revision"} :
         /\ Complete(e, Redirected(at, n))
         /\ n \in Revising => at.attempt < limit
  <2>1. CASE at.node = "decide_after_evaluation"
    <3> DEFINE n == RouteAfterEvaluation(at)
    <3>1. Complete(e, Redirected(at, n))
      BY <1>1, <2>1, Zenon DEF Redirected
    <3>2. n \in {"build_revision_brief", "accept_version", "mark_needs_human_review"}
      BY DEF RouteAfterEvaluation
    <3>3. n = "build_revision_brief" =>
            (run.operation = "targeted_revision" /\ at.attempt = 0) \/ ~AtLimit(at.attempt)
      BY DEF RouteAfterEvaluation
    <3>4. n = "build_revision_brief" => at.attempt < limit
      BY <1>2, <1>3, <3>3 DEF AtLimit, Limit
    <3> HIDE DEF n
    <3>5. n \in Revising => at.attempt < limit
      BY <3>2, <3>4 DEF Revising
    <3>6. QED BY <3>1, <3>2, <3>5
  <2>2. CASE at.node = "decide_after_comparison"
    <3> DEFINE n == RouteAfterComparison(at)
    <3>1. Complete(e, Redirected(at, n))
      BY <1>1, <2>2, Zenon DEF Redirected
    <3>2. n \in {"reject_revision", "accept_version", "mark_needs_human_review"}
      BY DEF RouteAfterComparison
    <3>3. n = "reject_revision" => ~AtLimit(at.attempt)
      BY DEF RouteAfterComparison
    <3>4. n = "reject_revision" => at.attempt < limit
      BY <1>2, <1>3, <3>3 DEF AtLimit
    <3> HIDE DEF n
    <3>5. n \in Revising => at.attempt < limit
      BY <3>2, <3>4 DEF Revising
    <3>6. QED BY <3>1, <3>2, <3>5
  <2>3. QED BY <1>1, <2>1, <2>2
<1> DEFINE q == Redirected(at, n)
<1>5. n \in Nodes
    BY DEF Nodes, PausableNodes
<1> HIDE DEF at
<1>6. q \in Positions /\ q.node = n /\ q.current = at.current /\ q.attempt = at.attempt
    BY <1>2, <1>5, PositionIsRedirected
<1> HIDE DEF q, limit
<1>7. Placed(q, version', limit)
  <2>1. version' = version
    BY <1>1 DEF rows
  <2>2. q.attempt <= limit /\ (q.node \in Revising => q.attempt < limit)
    BY <1>3, <1>4, <1>6
  <2>3. q.current # 0 /\ version[q.current].facts # "none"
    BY <1>3, <1>6
  <2>4. QED BY <2>1, <2>2, <2>3 DEF Placed
<1>8. ThreadsMove /\ ControlTypes'
    BY <1>1, <1>4, <1>6, <1>7, CompletionStep DEF q, limit
<1>9. QED BY <1>1, <1>8, MoveIsOrdinary
\* Steps that write rows, and leave the claims and the checkpoint.
LEMMA WriteIsOrdinary ==
    ASSUME WorkflowInv, WorkflowAssumption, ThreadsMove, ControlTypes', RowTypes', RunStays,
           chapter'.accepted = chapter.accepted, FactsStay,
           UNCHANGED <<claimed, checkpoint, bounds>>
    PROVE  Ordinary
<1>1. CheckpointStays /\ BoundTypes'
    BY CheckpointRests, BoundsRest
<1>2. claimed' \subseteq ProviderNodes \X Versions
    BY InvParts
<1>3. QED BY <1>1, <1>2 DEF Ordinary

LEMMA FactsRest ==
    ASSUME UNCHANGED version
    PROVE  FactsStay
BY DEF FactsStay

LEMMA SameRunStays ==
    ASSUME WorkflowInv, WorkflowAssumption, SameRun(run, run')
    PROVE  RunStays
BY InvParts DEF SameRun, RunStays

LEMMA RowsOf ==
    ASSUME WorkflowInv, WorkflowAssumption
    PROVE  /\ run \in RunRows /\ chapter \in ChapterRows /\ version \in [Versions -> VersionRows]
           /\ run.current \in Ids /\ run.best \in Ids /\ run.attempt \in Nat
           /\ run.status \in RunStatuses
           /\ chapter.current \in Ids /\ chapter.accepted \in Ids
           /\ run.attempt <= Limit(run.operation)
BY InvParts DEF RowTypes, RunRows, ChapterRows

LEMMA InitializeIsOrdinary ==
    ASSUME WorkflowInv, WorkflowAssumption, NEW e \in Executions, Initialize(e)
    PROVE  Ordinary
<1> DEFINE p == [node |-> "load_context", current |-> run'.current, best |-> run'.best,
                 attempt |-> run'.attempt]
           limit == Limit(run.operation)
<1>1. /\ \/ UNCHANGED <<run, chapter>>
         \/ /\ run' = Concluded(run, "running", chapter.current, chapter.current,
                                chapter.accepted)
            /\ chapter' = Marked(chapter, "workflow_running")
      /\ Complete(e, p)
      /\ UNCHANGED <<version, keyed, latest, comparison, claimed, checkpoint,
                     owner, request, outside, bounds>>
    BY Zenon DEF Initialize, Concluded, Marked
<1>2. RowTypes
    BY InvParts
<1>3. /\ run' \in RunRows /\ SameRun(run, run')
      /\ chapter' \in ChapterRows /\ chapter'.accepted = chapter.accepted
  <2>1. CASE UNCHANGED <<run, chapter>>
    BY <2>1, RowsOf DEF SameRun
  <2>2. CASE /\ run' = Concluded(run, "running", chapter.current, chapter.current,
                                 chapter.accepted)
             /\ chapter' = Marked(chapter, "workflow_running")
    <3>1. "running" \in RunStatuses /\ "workflow_running" \in ChapterStatuses
      BY DEF RunStatuses, ChapterStatuses, Evaluatable
    <3>2. QED BY <2>2, <3>1, RowsOf, RunConcludes, ChapterIsMarked
  <2>3. QED BY <1>1, <2>1, <2>2
<1>4. RowTypes' /\ RunStays /\ FactsStay
    BY <1>1, <1>2, <1>3, SameRunStays, FactsRest DEF RowTypes
<1>5. /\ p \in Positions /\ p.node = "load_context" /\ p.attempt = run'.attempt
  <2>1. "load_context" \in Nodes
    BY DEF Nodes, PausableNodes
  <2>2. run'.current \in Ids /\ run'.best \in Ids /\ run'.attempt \in Nat
    BY <1>3 DEF RunRows
  <2>3. QED BY <2>1, <2>2 DEF Positions
<1> HIDE DEF p
<1>6. Placed(p, version', limit)
    BY <1>4, <1>5 DEF RunStays, Placed, Revising, ExtractionNodes, Extracted
<1>7. ThreadsMove /\ ControlTypes'
    BY <1>1, <1>5, <1>6, CompletionStep
<1>8. QED BY <1>1, <1>3, <1>4, <1>7, WriteIsOrdinary

\* The pointers an evaluation moves.
LEMMA EvaluatedRun ==
    ASSUME WorkflowInv, WorkflowAssumption, NEW e \in Executions, RunEvaluated(e)
    PROVE  run' \in RunRows /\ SameRun(run, run') /\ run'.status = run.status
<1> DEFINE best == IF run.best = 0 THEN Current(e) ELSE run.best
<1>1. CASE thread[e].at.node \in EvaluationNodes
  <2>1. run' = Noted(run, Current(e), best)
    BY <1>1, Zenon DEF RunEvaluated, Noted
  <2>2. Current(e) \in Ids /\ best \in Ids /\ run \in RunRows
    BY RowsOf, OnwardPosition
  <2> HIDE DEF best
  <2>3. QED BY <2>1, <2>2, RunNotes
<1>2. CASE thread[e].at.node \notin EvaluationNodes
  <2>1. run' = run
    BY <1>2, Zenon DEF RunEvaluated
  <2>2. QED BY <2>1, RowsOf DEF SameRun
<1>3. QED BY <1>1, <1>2

\* A node that finds its artifact.
LEMMA ReuseIsOrdinary ==
    ASSUME WorkflowInv, WorkflowAssumption, NEW e \in Executions, Reuse(e)
    PROVE  Ordinary
<1> DEFINE node == thread[e].at.node
           limit == Limit(run.operation)
<1>1. /\ node \in ProviderNodes /\ Exists(e) /\ RunEvaluated(e) /\ Complete(e, After(e))
      /\ UNCHANGED <<chapter, version, keyed, latest, comparison, claimed,
                     checkpoint, owner, request, outside, bounds>>
    BY Zenon DEF Reuse, AtNode
<1>2. RowTypes
    BY InvParts
<1>3. /\ run' \in RunRows /\ SameRun(run, run')
    BY <1>1, EvaluatedRun
<1>4. RowTypes' /\ RunStays /\ FactsStay /\ chapter'.accepted = chapter.accepted
    BY <1>1, <1>2, <1>3, SameRunStays, FactsRest DEF RowTypes
<1>5. After(e) \in Positions /\ Placed(After(e), version', limit)
  <2>1. CASE node = "generate_draft"
    BY <2>1, DraftIsPlaced
  <2>2. CASE node = "revise_draft"
    BY <2>2, RevisionIsPlaced
  <2>3. CASE node \in ExtractionNodes \cup EvaluationNodes
    <3>1. After(e) = Onward(e)
      BY <2>3 DEF After, ExtractionNodes, EvaluationNodes
    <3>2. version[Current(e)].facts # "none"
      <4>1. CASE node \in ExtractionNodes
        BY <1>1, <4>1 DEF Exists, ExtractionNodes, EvaluationNodes
      <4>2. CASE node \in EvaluationNodes
        BY <4>2, PlaceOfThread DEF Extracted, EvaluationNodes
      <4>3. QED BY <2>3, <4>1, <4>2
    <3>3. version' = version
      BY <1>1
    <3>4. QED BY <2>3, <3>1, <3>2, <3>3, OnwardIsPlaced, OnwardPosition
  <2>4. QED BY <1>1, <2>1, <2>2, <2>3 DEF ProviderNodes, ExtractionNodes, EvaluationNodes
<1>6. ThreadsMove /\ ControlTypes'
    BY <1>1, <1>5, CompletionStep
<1>7. QED BY <1>1, <1>4, <1>6, WriteIsOrdinary

LEMMA KeyOfThread ==
    ASSUME WorkflowInv, WorkflowAssumption, NEW e \in Executions,
           thread[e].at.node \in ProviderNodes
    PROVE  Key(e) \in ProviderNodes \X Versions
<1> DEFINE node == thread[e].at.node
<1>1. Target(e) \in Versions
  <2>1. CASE node = "generate_draft"
    <3>1. 1 \in Versions
      BY PlaceOfThread DEF Versions
    <3>2. QED BY <2>1, <3>1 DEF Target
  <2>2. CASE node = "revise_draft"
    BY <2>2, RevisionIsPlaced
  <2>3. CASE node \in ExtractionNodes \cup EvaluationNodes
    <3>1. Current(e) \in Versions
      BY <2>3, PlaceOfThread DEF EvaluationNodes, Extracted
    <3>2. QED BY <2>3, <3>1 DEF Target, ExtractionNodes, EvaluationNodes
  <2>4. QED BY <2>1, <2>2, <2>3 DEF ProviderNodes, ExtractionNodes, EvaluationNodes
<1>2. QED BY <1>1 DEF Key

LEMMA ClaimIsOrdinary ==
    ASSUME WorkflowInv, WorkflowAssumption, NEW e \in Executions, Claim(e)
    PROVE  Ordinary
<1>1. /\ thread[e].at.node \in ProviderNodes
      /\ UNCHANGED <<run, version, keyed, latest, comparison, checkpoint, outside, bounds>>
      /\ \/ Invalid(e) /\ UNCHANGED <<chapter, claimed>>
         \/ /\ \/ chapter' = Marked(chapter, "evaluating") \/ chapter' = chapter
            /\ \/ SetPc(e, "failing") /\ UNCHANGED claimed
               \/ SetPc(e, "call") /\ claimed' = claimed \cup {Key(e)}
            /\ UNCHANGED <<owner, request>>
    BY Zenon DEF Claim, AtNode, Marked
<1>2. RowTypes /\ claimed \subseteq ProviderNodes \X Versions
    BY InvParts
<1>3. chapter' \in ChapterRows /\ chapter'.accepted = chapter.accepted
  <2>1. "evaluating" \in ChapterStatuses
    BY DEF ChapterStatuses
  <2>2. CASE chapter' = chapter
    BY <2>2, RowsOf
  <2>3. CASE chapter' = Marked(chapter, "evaluating")
    BY <2>1, <2>3, RowsOf, ChapterIsMarked
  <2>4. QED BY <1>1, <2>2, <2>3
<1>4. RowTypes' /\ RunStays /\ FactsStay
    BY <1>1, <1>2, <1>3, SameRunStays, FactsRest DEF RowTypes, SameRun
<1>5. claimed' \subseteq ProviderNodes \X Versions
  <2>1. Key(e) \in ProviderNodes \X Versions
    BY <1>1, KeyOfThread
  <2>2. QED BY <1>1, <1>2, <2>1
<1>6. ThreadsMove /\ ControlTypes'
  <2>1. {"failing", "call"} \subseteq Pcs
    BY DEF Pcs
  <2>2. CASE Invalid(e)
    BY <1>1, <2>2, InvalidMoves
  <2>3. CASE SetPc(e, "failing") /\ UNCHANGED <<owner, request>>
    BY <1>1, <2>1, <2>3, PcStep
  <2>4. CASE SetPc(e, "call") /\ UNCHANGED <<owner, request>>
    BY <1>1, <2>1, <2>4, PcStep
  <2>5. QED BY <1>1, <2>2, <2>3, <2>4
<1>7. CheckpointStays /\ BoundTypes'
    BY <1>1, CheckpointRests, BoundsRest
<1>8. QED BY <1>3, <1>4, <1>5, <1>6, <1>7 DEF Ordinary
\* What an evaluation stores.
LEMMA EvaluationsAreTyped ==
    ASSUME WorkflowAssumption, NEW o \in Outcomes
    PROVE  /\ Scored(o) \in Evaluations /\ Partial(o) \in Evaluations
           /\ StatusOf(Scored(o)) \in ChapterStatuses
<1>1. o \in Outcome
    BY DEF WorkflowAssumption
<1>2. o.critical \in 0..2 /\ o.high \in BOOLEAN /\ o.other \in BOOLEAN /\ o.level \in 0..2
    BY <1>1 DEF Outcome
<1>3. {"none", "accept", "revise", "human_review", "reject"} = Actions
    BY DEF Actions
<1>4. Partial(o) \in Evaluations
    BY <1>2, <1>3 DEF Partial, Evaluations
<1> DEFINE score == IF o.critical > 0 /\ o.level = 2 THEN 1 ELSE o.level
           reasons == Count(o.critical > 0) + Count(o.high) + Count(o.other)
                        + Count(score < 2)
           action == IF reasons = 0 THEN "accept"
                     ELSE IF o.critical > 1 \/ score = 0 THEN "reject"
                     ELSE IF o.critical > 0 \/ o.high THEN "human_review"
                     ELSE "revise"
<1>5. Scored(o) = [critical |-> o.critical, reasons |-> reasons, score |-> score,
                   passed |-> reasons = 0, action |-> action]
    BY DEF Scored
<1>6. score \in 0..2
    BY <1>2
<1>7. reasons \in 0..4
    BY <1>2, <1>6 DEF Count
<1>8. action \in Actions
    BY <1>3
<1>9. (reasons = 0) \in BOOLEAN
    OBVIOUS
<1> HIDE DEF score, reasons, action
<1>10. Scored(o) \in Evaluations
    BY <1>2, <1>5, <1>6, <1>7, <1>8, <1>9 DEF Evaluations
<1>11. StatusOf(Scored(o)) \in ChapterStatuses
    BY DEF StatusOf, ChapterStatuses, Evaluatable
<1>12. QED BY <1>4, <1>10, <1>11

LEMMA CallFailsIsOrdinary ==
    ASSUME WorkflowInv, WorkflowAssumption, NEW e \in Executions, CallFails(e)
    PROVE  Ordinary
<1> DEFINE v == Current(e)
<1>1. /\ claimed' = claimed \ {Key(e)}
      /\ UNCHANGED <<run, comparison, checkpoint, outside, bounds>>
      /\ \/ /\ thread[e].at.node \in EvaluationNodes
            /\ \E o \in Outcomes :
                  /\ keyed' = [keyed EXCEPT ![v] = Partial(o)]
                  /\ latest' = [latest EXCEPT ![v] = Partial(o)]
            /\ version' = [version EXCEPT ![v].status = "evaluated"]
            /\ chapter' = Marked(chapter, "evaluation_failed")
            /\ SetPc(e, "failing") /\ UNCHANGED <<owner, request>>
         \/ Invalid(e) /\ UNCHANGED <<keyed, latest, version, chapter>>
         \/ /\ SetPc(e, "failing")
            /\ UNCHANGED <<owner, request, keyed, latest, version, chapter>>
    BY Zenon DEF CallFails, Marked
<1>2. RowTypes /\ claimed \subseteq ProviderNodes \X Versions
    BY InvParts
<1>3. "failing" \in Pcs
    BY DEF Pcs
<1>4. /\ RowTypes' /\ FactsStay /\ chapter'.accepted = chapter.accepted
      /\ ThreadsMove /\ ControlTypes'
  <2>1. CASE Invalid(e) /\ UNCHANGED <<keyed, latest, version, chapter>>
    BY <1>1, <1>2, <2>1, InvalidMoves, FactsRest DEF RowTypes
  <2>2. CASE /\ SetPc(e, "failing")
             /\ UNCHANGED <<owner, request, keyed, latest, version, chapter>>
    <3>1. ThreadsMove /\ ControlTypes'
      BY <1>1, <1>3, <2>2, PcStep
    <3>2. QED BY <1>1, <1>2, <2>2, <3>1, FactsRest DEF RowTypes
  <2>3. CASE /\ thread[e].at.node \in EvaluationNodes
             /\ \E o \in Outcomes :
                   /\ keyed' = [keyed EXCEPT ![v] = Partial(o)]
                   /\ latest' = [latest EXCEPT ![v] = Partial(o)]
             /\ version' = [version EXCEPT ![v].status = "evaluated"]
             /\ chapter' = Marked(chapter, "evaluation_failed")
             /\ SetPc(e, "failing") /\ UNCHANGED <<owner, request>>
    <3>1. v \in Versions
      BY <2>3, PlaceOfThread DEF EvaluationNodes, Extracted
    <3>2. PICK o \in Outcomes : /\ keyed' = [keyed EXCEPT ![v] = Partial(o)]
                                /\ latest' = [latest EXCEPT ![v] = Partial(o)]
      BY <2>3
    <3>3. Partial(o) \in Evaluations
      BY EvaluationsAreTyped
    <3>4. keyed' \in [Versions -> Evaluations] /\ latest' \in [Versions -> Evaluations]
      BY <1>2, <3>2, <3>3 DEF RowTypes
    <3>5. "evaluation_failed" \in ChapterStatuses /\ "evaluated" \in VersionStatuses
      BY DEF ChapterStatuses, Evaluatable, VersionStatuses
    <3> HIDE DEF v
    <3>6. version' \in [Versions -> VersionRows] /\ FactsStay
      BY <2>3, <3>1, <3>5, VersionIsRestated
    <3>7. chapter' \in ChapterRows /\ chapter'.accepted = chapter.accepted
      BY <2>3, <3>5, RowsOf, ChapterIsMarked
    <3>8. ThreadsMove /\ ControlTypes'
      BY <1>1, <1>3, <2>3, PcStep
    <3>9. QED BY <1>1, <1>2, <3>4, <3>6, <3>7, <3>8 DEF RowTypes
  <2>4. QED BY <1>1, <2>1, <2>2, <2>3
<1>5. RunStays /\ CheckpointStays /\ BoundTypes'
    BY <1>1, SameRunStays, CheckpointRests, BoundsRest DEF SameRun
<1>6. claimed' \subseteq ProviderNodes \X Versions
    BY <1>1, <1>2
<1>7. QED BY <1>4, <1>5, <1>6 DEF Ordinary

LEMMA SaveDraftIsOrdinary ==
    ASSUME WorkflowInv, WorkflowAssumption, NEW e \in Executions, SaveDraft(e)
    PROVE  Ordinary
<1> DEFINE one == 1
           best == IF run.best = 0 THEN 1 ELSE run.best
<1>1. /\ thread[e].at.node = "generate_draft" /\ Complete(e, After(e))
      /\ \/ /\ version' = [version EXCEPT ![one].status = "draft"]
            /\ chapter' = Written(chapter, one, "drafting")
            /\ run' = Noted(run, one, best)
         \/ UNCHANGED <<version, chapter, run>>
      /\ UNCHANGED <<keyed, latest, comparison, claimed, checkpoint, owner,
                     request, outside, bounds>>
    BY Zenon DEF SaveDraft, AtNode, Written, Noted
<1>2. RowTypes
    BY InvParts
<1>3. one \in Versions /\ one \in Ids /\ best \in Ids
    BY PlaceOfThread, RowsOf DEF Versions, Ids
<1> HIDE DEF one, best
<1>4. /\ RowTypes' /\ RunStays /\ FactsStay /\ chapter'.accepted = chapter.accepted
  <2>1. CASE UNCHANGED <<version, chapter, run>>
    BY <1>1, <2>1, RowsRest DEF rows
  <2>2. CASE /\ version' = [version EXCEPT ![one].status = "draft"]
             /\ chapter' = Written(chapter, one, "drafting")
             /\ run' = Noted(run, one, best)
    <3>1. "drafting" \in ChapterStatuses /\ "draft" \in VersionStatuses
      BY DEF ChapterStatuses, Evaluatable, VersionStatuses
    <3>2. version' \in [Versions -> VersionRows] /\ FactsStay
      BY <1>3, <2>2, <3>1, VersionIsRestated
    <3>3. chapter' \in ChapterRows /\ chapter'.accepted = chapter.accepted
      BY <1>3, <2>2, <3>1, RowsOf, ChapterIsWritten
    <3>4. run' \in RunRows /\ SameRun(run, run')
      BY <1>3, <2>2, RowsOf, RunNotes
    <3>5. QED BY <1>1, <1>2, <3>2, <3>3, <3>4, SameRunStays DEF RowTypes
  <2>3. QED BY <1>1, <2>1, <2>2
<1>5. ThreadsMove /\ ControlTypes'
    BY <1>1, DraftIsPlaced, CompletionStep
<1>6. QED BY <1>1, <1>4, <1>5, WriteIsOrdinary

LEMMA SaveRevisionIsOrdinary ==
    ASSUME WorkflowInv, WorkflowAssumption, NEW e \in Executions, SaveRevision(e)
    PROVE  Ordinary
<1> DEFINE v == Target(e)
           n == thread[e].at.attempt + 1
<1>1. /\ thread[e].at.node = "revise_draft" /\ Complete(e, After(e))
      /\ \/ /\ version' = [version EXCEPT ![v].status = "revision"]
            /\ chapter' = Written(chapter, v, "revising")
            /\ run' = Revised(run, v, n)
         \/ UNCHANGED <<version, chapter, run>>
      /\ UNCHANGED <<keyed, latest, comparison, claimed, checkpoint, owner,
                     request, outside, bounds>>
    BY Zenon DEF SaveRevision, AtNode, Written, Revised
<1>2. RowTypes
    BY InvParts
<1>3. /\ v \in Versions /\ v \in Ids /\ n \in Nat /\ n <= Limit(run.operation)
      /\ After(e) \in Positions /\ Placed(After(e), version', Limit(run.operation))
    BY <1>1, RevisionIsPlaced DEF Ids
<1> HIDE DEF v, n
<1>4. /\ RowTypes' /\ RunStays /\ FactsStay /\ chapter'.accepted = chapter.accepted
  <2>1. CASE UNCHANGED <<version, chapter, run>>
    BY <1>1, <2>1, RowsRest DEF rows
  <2>2. CASE /\ version' = [version EXCEPT ![v].status = "revision"]
             /\ chapter' = Written(chapter, v, "revising")
             /\ run' = Revised(run, v, n)
    <3>1. "revising" \in ChapterStatuses /\ "revision" \in VersionStatuses
      BY DEF ChapterStatuses, Evaluatable, VersionStatuses
    <3>2. version' \in [Versions -> VersionRows] /\ FactsStay
      BY <1>3, <2>2, <3>1, VersionIsRestated
    <3>3. chapter' \in ChapterRows /\ chapter'.accepted = chapter.accepted
      BY <1>3, <2>2, <3>1, RowsOf, ChapterIsWritten
    <3>4. /\ run' \in RunRows /\ run'.attempt = n
          /\ run'.operation = run.operation /\ run'.prior = run.prior
      <4>1. run \in RunRows
        BY RowsOf
      <4>2. Renewed(run, Revised(run, v, n), n)
        BY <1>3, <4>1, RunRevises, Zenon
      <4>3. QED BY <2>2, <4>2 DEF Renewed
    <3>5. QED BY <1>1, <1>2, <1>3, <3>2, <3>3, <3>4 DEF RowTypes, RunStays
  <2>3. QED BY <1>1, <2>1, <2>2
<1>5. ThreadsMove /\ ControlTypes'
    BY <1>1, <1>3, CompletionStep
<1>6. QED BY <1>1, <1>4, <1>5, WriteIsOrdinary

LEMMA SaveFactsIsOrdinary ==
    ASSUME WorkflowInv, WorkflowAssumption, NEW e \in Executions, SaveFacts(e)
    PROVE  Ordinary
<1> DEFINE v == Current(e)
           facts == IF version[v].facts = "none" THEN "candidate" ELSE version[v].facts
           row == [version[v] EXCEPT !.facts = facts]
<1>1. /\ thread[e].at.node \in ExtractionNodes
      /\ version' = [version EXCEPT ![v].facts = IF @ = "none" THEN "candidate" ELSE @]
      /\ Complete(e, Onward(e))
      /\ UNCHANGED <<run, chapter, keyed, latest, comparison, claimed, checkpoint,
                     owner, request, outside, bounds>>
    BY Zenon DEF SaveFacts, AtNode
<1>2. RowTypes
    BY InvParts
<1>3. v \in Versions
    BY <1>1, PlaceOfThread
<1>4. version \in [Versions -> VersionRows] /\ version[v] \in VersionRows
    BY <1>3, RowsOf
<1>5. facts \in FactStatuses /\ facts # "none" /\ (facts = "accepted" <=> version[v].facts = "accepted")
    BY <1>4 DEF VersionRows, FactStatuses
<1>6. version' = [version EXCEPT ![v] = row]
    BY <1>1, <1>3, <1>4
<1> HIDE DEF facts
<1>7. row \in VersionRows /\ row.facts = facts
    BY <1>4, <1>5 DEF VersionRows
<1> HIDE DEF row, v
<1>8. /\ version' \in [Versions -> VersionRows]
      /\ \A u \in Versions : version'[u] = IF u = v THEN row ELSE version[u]
    BY <1>4, <1>6, <1>7
<1>9. FactsStay
    BY <1>3, <1>5, <1>7, <1>8 DEF FactsStay
<1>10. version'[v].facts # "none"
    BY <1>3, <1>5, <1>7, <1>8
<1>11. RowTypes' /\ RunStays /\ chapter'.accepted = chapter.accepted
    BY <1>1, <1>2, <1>8, SameRunStays DEF RowTypes, SameRun
<1>12. ThreadsMove /\ ControlTypes'
  <2>1. Onward(e) \in Positions
    BY OnwardPosition
  <2>2. Placed(Onward(e), version', Limit(run.operation))
    BY <1>1, <1>10, OnwardIsPlaced DEF v
  <2>3. QED BY <1>1, <2>1, <2>2, CompletionStep
<1>13. QED BY <1>1, <1>9, <1>11, <1>12, WriteIsOrdinary

LEMMA SaveEvaluationIsOrdinary ==
    ASSUME WorkflowInv, WorkflowAssumption, NEW e \in Executions, SaveEvaluation(e)
    PROVE  Ordinary
<1> DEFINE v == Current(e)
<1>1. /\ thread[e].at.node \in EvaluationNodes
      /\ \/ /\ \E o \in Outcomes :
                  /\ keyed' = [keyed EXCEPT ![v] = Scored(o)]
                  /\ latest' = [latest EXCEPT ![v] = Scored(o)]
                  /\ chapter' = Marked(chapter, StatusOf(Scored(o)))
            /\ version' = [version EXCEPT ![v].status = "evaluated"]
            /\ RunEvaluated(e) /\ Complete(e, Onward(e))
            /\ UNCHANGED <<owner, request>>
         \/ Invalid(e) /\ UNCHANGED <<keyed, latest, chapter, version, run>>
      /\ UNCHANGED <<comparison, claimed, checkpoint, outside, bounds>>
    BY Zenon DEF SaveEvaluation, AtNode, Marked
<1>2. RowTypes
    BY InvParts
<1>3. v \in Versions /\ version[v].facts # "none"
    BY <1>1, PlaceOfThread DEF EvaluationNodes, Extracted
<1>4. CASE Invalid(e) /\ UNCHANGED <<keyed, latest, chapter, version, run>>
  <2>1. RowTypes' /\ RunStays /\ FactsStay /\ chapter'.accepted = chapter.accepted
    BY <1>1, <1>4, RowsRest DEF rows
  <2>2. ThreadsMove /\ ControlTypes'
    BY <1>1, <1>4, InvalidMoves
  <2>3. QED BY <1>1, <2>1, <2>2, WriteIsOrdinary
<1>5. CASE /\ \E o \in Outcomes :
                 /\ keyed' = [keyed EXCEPT ![v] = Scored(o)]
                 /\ latest' = [latest EXCEPT ![v] = Scored(o)]
                 /\ chapter' = Marked(chapter, StatusOf(Scored(o)))
           /\ version' = [version EXCEPT ![v].status = "evaluated"]
           /\ RunEvaluated(e) /\ Complete(e, Onward(e))
           /\ UNCHANGED <<owner, request>>
  <2>1. PICK o \in Outcomes : /\ keyed' = [keyed EXCEPT ![v] = Scored(o)]
                              /\ latest' = [latest EXCEPT ![v] = Scored(o)]
                              /\ chapter' = Marked(chapter, StatusOf(Scored(o)))
    BY <1>5
  <2>2. Scored(o) \in Evaluations /\ StatusOf(Scored(o)) \in ChapterStatuses
    BY EvaluationsAreTyped
  <2>3. keyed' \in [Versions -> Evaluations] /\ latest' \in [Versions -> Evaluations]
    BY <1>2, <2>1, <2>2 DEF RowTypes
  <2>4. chapter' \in ChapterRows /\ chapter'.accepted = chapter.accepted
    BY <2>1, <2>2, RowsOf, ChapterIsMarked
  <2>5. "evaluated" \in VersionStatuses
    BY DEF VersionStatuses
  <2> HIDE DEF v
  <2>6. /\ version' \in [Versions -> VersionRows] /\ FactsStay
        /\ version'[v].facts # "none"
    BY <1>3, <1>5, <2>5, VersionIsRestated
  <2>7. run' \in RunRows /\ SameRun(run, run')
    BY <1>5, EvaluatedRun
  <2>8. ThreadsMove /\ ControlTypes'
    <3>1. Onward(e) \in Positions
      BY OnwardPosition
    <3>2. Placed(Onward(e), version', Limit(run.operation))
      BY <1>1, <2>6, OnwardIsPlaced DEF v
    <3>3. QED BY <1>1, <1>5, <3>1, <3>2, CompletionStep
  <2>9. RowTypes' /\ RunStays
    BY <1>1, <1>2, <2>3, <2>4, <2>6, <2>7, SameRunStays DEF RowTypes
  <2>10. QED BY <1>1, <2>4, <2>6, <2>8, <2>9, WriteIsOrdinary
<1>6. QED BY <1>1, <1>4, <1>5
LEMMA ComparesAreDecided ==
    ASSUME NEW old, NEW new, NEW attempt, NEW unresolved
    PROVE  Decision(old, new, attempt, unresolved) \in Decisions
BY DEF Decision, Decisions

LEMMA CompareIsOrdinary ==
    ASSUME WorkflowInv, WorkflowAssumption, NEW e \in Executions, Compare(e)
    PROVE  Ordinary
<1> DEFINE at == thread[e].at
           v == at.current
           p == Ranking(Onward(e), run'.best)
           limit == Limit(run.operation)
<1>1. /\ at.node = "compare_versions"
      /\ \/ UNCHANGED <<run, comparison>>
         \/ /\ \E unresolved \in BOOLEAN :
                  comparison' = [comparison EXCEPT ![v] =
                      Decision(latest[at.best], latest[v], at.attempt, unresolved)]
            /\ run' = Ranked(run, BestOf(run.best, v))
      /\ Complete(e, p)
      /\ UNCHANGED <<chapter, version, keyed, latest, claimed, checkpoint,
                     owner, request, outside, bounds>>
    BY Zenon DEF Compare, AtNode, Ranked, Ranking
<1>2. RowTypes
    BY InvParts
<1>3. v \in Versions /\ version[v].facts # "none" /\ at.attempt <= limit
    BY <1>1, PlaceOfThread DEF Extracted, Current
<1>4. run' \in RunRows /\ SameRun(run, run') /\ comparison' \in [Versions -> Decisions]
  <2>1. CASE UNCHANGED <<run, comparison>>
    BY <1>2, <2>1 DEF RowTypes, SameRun
  <2>2. CASE /\ \E unresolved \in BOOLEAN :
                   comparison' = [comparison EXCEPT ![v] =
                       Decision(latest[at.best], latest[v], at.attempt, unresolved)]
             /\ run' = Ranked(run, BestOf(run.best, v))
    <3>1. PICK d \in Decisions : comparison' = [comparison EXCEPT ![v] = d]
      BY <2>2, ComparesAreDecided
    <3>2. comparison' \in [Versions -> Decisions]
      BY <1>2, <3>1 DEF RowTypes
    <3>3. BestOf(run.best, v) \in Ids /\ run \in RunRows
      BY <1>3, RowsOf DEF BestOf, Ids
    <3>4. run' \in RunRows /\ SameRun(run, run')
      BY <2>2, <3>3, RunRanks
    <3>5. QED BY <3>2, <3>4
  <2>3. QED BY <1>1, <2>1, <2>2
<1>5. RowTypes' /\ RunStays /\ FactsStay /\ chapter'.accepted = chapter.accepted
    BY <1>1, <1>2, <1>4, SameRunStays, FactsRest DEF RowTypes
<1>6. p \in Positions /\ Placed(p, version', limit)
  <2>1. /\ Onward(e) \in Positions /\ Onward(e).node = "decide_after_comparison"
        /\ Onward(e).current = v /\ Onward(e).attempt = at.attempt
    BY <1>1, OnwardPosition, Edges DEF Current
  <2>2. run'.best \in Ids
    BY <1>4 DEF RunRows
  <2>3. /\ p \in Positions /\ p.node = "decide_after_comparison" /\ p.current = v
        /\ p.attempt = at.attempt
    BY <2>1, <2>2, PositionRanks
  <2>4. v # 0 /\ version'[v].facts # "none"
    BY <1>1, <1>3 DEF Versions
  <2> HIDE DEF p, v, at, limit
  <2>5. QED BY <1>3, <2>3, <2>4 DEF Placed, Revising
<1>7. ThreadsMove /\ ControlTypes'
    BY <1>1, <1>6, CompletionStep
<1>8. QED BY <1>1, <1>5, <1>7, WriteIsOrdinary

LEMMA RejectIsOrdinary ==
    ASSUME WorkflowInv, WorkflowAssumption, NEW e \in Executions, Reject(e)
    PROVE  Ordinary
<1> DEFINE at == thread[e].at
           v == Current(e)
           facts == IF version[v].facts = "candidate" THEN "rejected" ELSE version[v].facts
           row == [status |-> "rejected", facts |-> facts]
           next == IF v = at.best THEN v ELSE run.best
           p == Aiming(Onward(e), next)
           limit == Limit(run.operation)
<1>1. /\ at.node = "reject_revision"
      /\ \/ UNCHANGED <<run, chapter, version>>
         \/ /\ version' = [version EXCEPT
                  ![v] = [status |-> "rejected",
                          facts |-> IF @.facts = "candidate" THEN "rejected" ELSE @.facts]]
            /\ run' = Aimed(run, run.best)
            /\ chapter' = Written(chapter, run.best, "workflow_running")
      /\ Complete(e, p)
      /\ UNCHANGED <<keyed, latest, comparison, claimed, checkpoint, owner,
                     request, outside, bounds>>
    BY Zenon DEF Reject, AtNode, Aimed, Written, Aiming
<1>2. RowTypes
    BY InvParts
<1>3. v \in Versions /\ at.attempt < limit
    BY <1>1, PlaceOfThread DEF Extracted, Revising
<1>4. version \in [Versions -> VersionRows] /\ version[v] \in VersionRows /\ run.best \in Ids
    BY <1>3, RowsOf
<1>5. RowTypes' /\ RunStays /\ FactsStay /\ chapter'.accepted = chapter.accepted
  <2>1. CASE UNCHANGED <<run, chapter, version>>
    BY <1>1, <2>1, RowsRest DEF rows
  <2>2. CASE /\ version' = [version EXCEPT
                  ![v] = [status |-> "rejected",
                          facts |-> IF @.facts = "candidate" THEN "rejected" ELSE @.facts]]
             /\ run' = Aimed(run, run.best)
             /\ chapter' = Written(chapter, run.best, "workflow_running")
    <3>1. facts \in FactStatuses /\ (version[v].facts # "none" => facts # "none")
          /\ (facts = "accepted" <=> version[v].facts = "accepted")
      BY <1>4 DEF VersionRows, FactStatuses
    <3>2. version' = [version EXCEPT ![v] = row]
      BY <1>3, <1>4, <2>2
    <3> HIDE DEF facts
    <3>3. row \in VersionRows /\ row.facts = facts
      BY <3>1 DEF VersionRows, VersionStatuses
    <3> HIDE DEF row, v
    <3>4. /\ version' \in [Versions -> VersionRows]
          /\ \A u \in Versions : version'[u] = IF u = v THEN row ELSE version[u]
      BY <1>4, <3>2, <3>3
    <3>5. FactsStay
      BY <1>3, <3>1, <3>3, <3>4 DEF FactsStay
    <3>6. run' \in RunRows /\ SameRun(run, run')
      BY <1>4, <2>2, RowsOf, RunAims
    <3>7. "workflow_running" \in ChapterStatuses
      BY DEF ChapterStatuses, Evaluatable
    <3>8. chapter' \in ChapterRows /\ chapter'.accepted = chapter.accepted
      BY <1>4, <2>2, <3>7, RowsOf, ChapterIsWritten
    <3>9. QED BY <1>1, <1>2, <3>4, <3>5, <3>6, <3>8, SameRunStays DEF RowTypes
  <2>3. QED BY <1>1, <2>1, <2>2
<1>6. p \in Positions /\ Placed(p, version', limit)
  <2>1. /\ Onward(e) \in Positions /\ Onward(e).node = "build_revision_brief"
        /\ Onward(e).attempt = at.attempt
    BY <1>1, OnwardPosition, Edges
  <2>2. next \in Ids
    BY <1>3, <1>4 DEF Ids
  <2> HIDE DEF next
  <2>3. p \in Positions /\ p.node = "build_revision_brief" /\ p.attempt = at.attempt
    BY <2>1, <2>2, PositionAims
  <2>4. at.attempt \in Nat /\ limit \in Nat
    BY OnwardPosition, PlaceOfThread
  <2> HIDE DEF p, at, limit
  <2>5. QED BY <1>3, <2>3, <2>4 DEF Placed, ExtractionNodes, Extracted
<1> HIDE DEF next
<1>7. ThreadsMove /\ ControlTypes'
    BY <1>1, <1>6, CompletionStep
<1>8. QED BY <1>1, <1>5, <1>7, WriteIsOrdinary

-----------------------------------------------------------------------------
(***************************************************************************)
(* A run that closes, and the handlers.                                    *)
(***************************************************************************)

\* A version without a candidate fact, that is no draft and no revision.
Decided(row) == row.facts # "candidate" /\ row.status \notin {"draft", "revision"}

LEMMA DiscardedRow ==
    ASSUME NEW row \in VersionRows
    PROVE  /\ Discarded(row) \in VersionRows /\ Decided(Discarded(row))
           /\ row.facts # "none" => Discarded(row).facts # "none"
           /\ Discarded(row).facts = "accepted" <=> row.facts = "accepted"
<1> DEFINE s == IF row.status \in {"none", "accepted", "superseded", "rejected"}
                THEN row.status ELSE "rejected"
           f == IF row.facts = "candidate" THEN "rejected" ELSE row.facts
<1>1. s \in VersionStatuses /\ s \notin {"draft", "revision"}
    BY DEF VersionStatuses
<1>2. /\ f \in FactStatuses /\ f # "candidate" /\ (row.facts # "none" => f # "none")
      /\ f = "accepted" <=> row.facts = "accepted"
    BY DEF FactStatuses, VersionRows
<1>3. Discarded(row) = [status |-> s, facts |-> f]
    BY DEF Discarded
<1> HIDE DEF s, f
<1>4. QED BY <1>1, <1>2, <1>3 DEF VersionRows, Decided

LEMMA BestIsShown ==
    ASSUME WorkflowInv, WorkflowAssumption, ShowBest, UNCHANGED <<keyed, latest, comparison>>
    PROVE  /\ RowTypes' /\ RunStays /\ FactsStay /\ chapter'.accepted = chapter.accepted
           /\ run'.status = "completed_needs_review" /\ run'.prior = run.prior
           /\ \A u \in Versions : Own(u) => Decided(version'[u])
<1> DEFINE v == run.best
           shown(u) == [Discarded(version[u]) EXCEPT !.status = "needs_review"]
<1>1. /\ version' = [u \in Versions |->
              IF u = v THEN shown(u)
              ELSE IF Own(u) THEN Discarded(version[u]) ELSE version[u]]
      /\ chapter' = Displayed(chapter, "needs_human_review", v)
      /\ run' = Shown(run, "completed_needs_review", v)
    BY Zenon DEF ShowBest, Displayed, Shown
<1>2. RowTypes
    BY InvParts
<1>3. v \in Ids /\ \A u \in Versions : version[u] \in VersionRows
    BY RowsOf
<1> DEFINE Follows(row, next) ==
               /\ next \in VersionRows
               /\ row.facts # "none" => next.facts # "none"
               /\ next.facts = "accepted" <=> row.facts = "accepted"
<1>4. ASSUME NEW u \in Versions
      PROVE  Follows(version[u], version'[u]) /\ (Own(u) => Decided(version'[u]))
  <2> DEFINE row == version[u]
  <2>1. row \in VersionRows
    BY <1>3
  <2>2. /\ Discarded(row) \in VersionRows /\ Decided(Discarded(row))
        /\ row.facts # "none" => Discarded(row).facts # "none"
        /\ Discarded(row).facts = "accepted" <=> row.facts = "accepted"
    BY <2>1, DiscardedRow
  <2>3. version'[u] = IF u = v THEN shown(u) ELSE IF Own(u) THEN Discarded(row) ELSE row
    BY <1>1
  <2>4. Follows(row, shown(u)) /\ Decided(shown(u))
    <3> DEFINE d == Discarded(row)
    <3>1. d \in VersionRows /\ shown(u) = [d EXCEPT !.status = "needs_review"]
      BY <2>2
    <3> HIDE DEF d, row
    <3>2. "needs_review" \in VersionStatuses
      BY DEF VersionStatuses
    <3>3. /\ shown(u) \in VersionRows /\ shown(u).facts = d.facts
          /\ shown(u).status = "needs_review"
      BY <3>1, <3>2 DEF VersionRows
    <3>4. QED BY <2>2, <3>3 DEF Decided, d
  <2>5. Follows(row, Discarded(row)) /\ Decided(Discarded(row)) /\ Follows(row, row)
    BY <2>1, <2>2
  <2> HIDE DEF shown, row, Follows
  <2>6. QED BY <2>3, <2>4, <2>5 DEF row
<1>5. version' \in [Versions -> VersionRows] /\ FactsStay
  <2>1. \A u \in Versions : version'[u] \in VersionRows
    BY <1>4
  <2>2. version' \in [Versions -> VersionRows]
    BY <1>1, <2>1
  <2>3. FactsStay
    BY <1>4 DEF FactsStay
  <2>4. QED BY <2>2, <2>3
<1> HIDE DEF v
<1>6. /\ run' \in RunRows /\ SameRun(run, run') /\ run'.status = "completed_needs_review"
  <2>1. "completed_needs_review" \in RunStatuses
    BY DEF RunStatuses, Terminal
  <2>2. QED BY <1>1, <1>3, <2>1, RowsOf, RunShows
<1>7. chapter' \in ChapterRows /\ chapter'.accepted = chapter.accepted
  <2>1. "needs_human_review" \in ChapterStatuses
    BY DEF ChapterStatuses
  <2>2. QED BY <1>1, <1>3, <2>1, RowsOf, ChapterIsWritten
<1>8. RowTypes' /\ RunStays
    BY <1>2, <1>5, <1>6, <1>7, SameRunStays DEF RowTypes
<1>9. QED BY <1>4, <1>5, <1>6, <1>7, <1>8 DEF SameRun

LEMMA NeedsReviewIsOrdinary ==
    ASSUME WorkflowInv, WorkflowAssumption, NEW e \in Executions, NeedsReview(e)
    PROVE  Ordinary
<1> DEFINE p == Drafted(Onward(e), run.best, run.best)
           limit == Limit(run.operation)
<1>1. /\ thread[e].at.node = "mark_needs_human_review" /\ ShowBest /\ Complete(e, p)
      /\ UNCHANGED <<keyed, latest, comparison, claimed, checkpoint, owner,
                     request, outside, bounds>>
    BY Zenon DEF NeedsReview, AtNode, Drafted
<1>2. RowTypes' /\ RunStays /\ FactsStay /\ chapter'.accepted = chapter.accepted
    BY <1>1, BestIsShown
<1>3. p \in Positions /\ Placed(p, version', limit)
  <2>1. /\ Onward(e) \in Positions /\ Onward(e).node = "end"
        /\ Onward(e).attempt = thread[e].at.attempt
    BY <1>1, OnwardPosition, Edges
  <2>2. run.best \in Ids
    BY RowsOf
  <2>3. p \in Positions /\ p.node = "end" /\ p.attempt = thread[e].at.attempt
    BY <2>1, <2>2, PositionIsDrafted
  <2>4. thread[e].at.attempt <= limit
    BY PlaceOfThread
  <2> HIDE DEF p, limit
  <2>5. QED BY <2>3, <2>4 DEF Placed, Revising, ExtractionNodes, Extracted
<1>4. ThreadsMove /\ ControlTypes'
    BY <1>1, <1>3, CompletionStep
<1>5. QED BY <1>1, <1>2, <1>4, WriteIsOrdinary

LEMMA ReviewIsOrdinary ==
    ASSUME WorkflowInv, WorkflowAssumption, NEW e \in Executions, Review(e)
    PROVE  Ordinary
<1>1. /\ ShowBest /\ End(e)
      /\ UNCHANGED <<keyed, latest, comparison, claimed, checkpoint, outside, bounds>>
    BY Zenon DEF Review
<1>2. RowTypes' /\ RunStays /\ FactsStay /\ chapter'.accepted = chapter.accepted
    BY <1>1, BestIsShown
<1>3. ThreadsMove /\ ControlTypes'
    BY <1>1, EndMoves
<1>4. QED BY <1>1, <1>2, <1>3, WriteIsOrdinary
\* A step that turns the run and, it may be, lets the chapter fall back.
LEMMA TurningRows ==
    ASSUME WorkflowInv, WorkflowAssumption, NEW s \in RunStatuses,
           run' = Turned(run, s),
           chapter' = Marked(chapter, Fallback) \/ chapter' = chapter,
           UNCHANGED <<version, keyed, latest, comparison>>
    PROVE  RowTypes' /\ RunStays /\ FactsStay /\ chapter'.accepted = chapter.accepted
<1>1. RowTypes
    BY InvParts
<1>2. run' \in RunRows /\ SameRun(run, run')
    BY RowsOf, RunTurns
<1>3. Fallback \in ChapterStatuses
    BY DEF Fallback, ChapterStatuses, Evaluatable
<1>4. chapter' \in ChapterRows /\ chapter'.accepted = chapter.accepted
  <2>1. CASE chapter' = chapter
    BY <2>1, RowsOf
  <2>2. CASE chapter' = Marked(chapter, Fallback)
    BY <1>3, <2>2, RowsOf, ChapterIsMarked
  <2>3. QED BY <2>1, <2>2
<1>5. QED BY <1>1, <1>2, <1>4, SameRunStays, FactsRest DEF RowTypes

LEMMA PauseIsOrdinary ==
    ASSUME WorkflowInv, WorkflowAssumption, NEW e \in Executions, Pause(e)
    PROVE  Ordinary
<1> DEFINE s == IF run.status \in Terminal THEN run.status ELSE "paused"
<1>1. /\ run' = Turned(run, s) /\ End(e)
      /\ UNCHANGED <<chapter, version, keyed, latest, comparison, claimed,
                     checkpoint, outside, bounds>>
    BY Zenon DEF Pause, Turned
<1>2. s \in RunStatuses
    BY RowsOf DEF RunStatuses
<1> HIDE DEF s
<1>3. RowTypes' /\ RunStays /\ FactsStay /\ chapter'.accepted = chapter.accepted
    BY <1>1, <1>2, TurningRows
<1>4. ThreadsMove /\ ControlTypes'
    BY <1>1, EndMoves
<1>5. QED BY <1>1, <1>3, <1>4, WriteIsOrdinary

LEMMA CancelAtNodeIsOrdinary ==
    ASSUME WorkflowInv, WorkflowAssumption, NEW e \in Executions, CancelAtNode(e)
    PROVE  Ordinary
<1>1. /\ \/ run' = Turned(run, "cancelled") /\ chapter' = Marked(chapter, Fallback)
         \/ UNCHANGED <<run, chapter>>
      /\ End(e)
      /\ UNCHANGED <<version, keyed, latest, comparison, claimed, checkpoint,
                     outside, bounds>>
    BY Zenon DEF CancelAtNode, Turned, Marked
<1>2. RowTypes' /\ RunStays /\ FactsStay /\ chapter'.accepted = chapter.accepted
  <2>1. CASE UNCHANGED <<run, chapter>>
    BY <1>1, <2>1, RowsRest DEF rows
  <2>2. CASE run' = Turned(run, "cancelled") /\ chapter' = Marked(chapter, Fallback)
    <3>1. "cancelled" \in RunStatuses
      BY DEF RunStatuses, Terminal
    <3>2. QED BY <1>1, <2>2, <3>1, TurningRows
  <2>3. QED BY <1>1, <2>1, <2>2
<1>3. ThreadsMove /\ ControlTypes'
    BY <1>1, EndMoves
<1>4. QED BY <1>1, <1>2, <1>3, WriteIsOrdinary

LEMMA FailIsOrdinary ==
    ASSUME WorkflowInv, WorkflowAssumption, NEW e \in Executions, Fail(e)
    PROVE  Ordinary
<1>1. /\ \/ run' = Turned(run, "failed") /\ chapter' = Marked(chapter, Fallback)
         \/ UNCHANGED <<run, chapter>>
      /\ End(e)
      /\ UNCHANGED <<version, keyed, latest, comparison, claimed, checkpoint,
                     outside, bounds>>
    BY Zenon DEF Fail, Turned, Marked
<1>2. RowTypes' /\ RunStays /\ FactsStay /\ chapter'.accepted = chapter.accepted
  <2>1. CASE UNCHANGED <<run, chapter>>
    BY <1>1, <2>1, RowsRest DEF rows
  <2>2. CASE run' = Turned(run, "failed") /\ chapter' = Marked(chapter, Fallback)
    <3>1. "failed" \in RunStatuses
      BY DEF RunStatuses, Terminal
    <3>2. QED BY <1>1, <2>2, <3>1, TurningRows
  <2>3. QED BY <1>1, <2>1, <2>2
<1>3. ThreadsMove /\ ControlTypes'
    BY <1>1, EndMoves
<1>4. QED BY <1>1, <1>2, <1>3, WriteIsOrdinary

LEMMA ResumeIsOrdinary ==
    ASSUME WorkflowInv, WorkflowAssumption, NEW e \in Executions, Resume(e)
    PROVE  Ordinary
<1> DEFINE u == [pc |-> "enter", at |-> checkpoint.now, first |-> FALSE]
           limit == Limit(run.operation)
<1>1. /\ run' = Turned(run, "running") /\ owner' = e
      /\ checkpoint' = [checkpoint EXCEPT !.before = checkpoint.now]
      /\ thread' = [thread EXCEPT ![e] = u]
      /\ UNCHANGED <<chapter, version, keyed, latest, comparison, claimed, request,
                     outside, bounds>>
    BY Zenon DEF Resume, Turned
<1>2. RowTypes' /\ RunStays /\ FactsStay /\ chapter'.accepted = chapter.accepted
  <2>1. "running" \in RunStatuses
    BY DEF RunStatuses
  <2>2. QED BY <1>1, <2>1, TurningRows
<1>3. /\ checkpoint \in [now : Positions, before : Positions]
      /\ checkpoint.now \in Positions /\ Placed(checkpoint.now, version, limit)
      /\ claimed \subseteq ProviderNodes \X Versions
    BY InvParts
<1>4. CheckpointStays
  <2>1. /\ checkpoint' \in [now : Positions, before : Positions]
        /\ checkpoint'.now = checkpoint.now /\ checkpoint'.before = checkpoint.now
    BY <1>1, <1>3
  <2>2. QED BY <1>3, <2>1 DEF CheckpointStays
<1>5. u \in Threads /\ u.at = checkpoint.now
  <2>1. "enter" \in Pcs
    BY DEF Pcs
  <2>2. QED BY <1>3, <2>1 DEF Threads
<1> HIDE DEF u
<1>6. ThreadsMove
  <2>1. Placed(u.at, version', limit)
    BY <1>1, <1>3, <1>5
  <2>2. QED BY <1>1, <1>5, <2>1, PlacingMoves
<1>7. ControlTypes' /\ BoundTypes' /\ claimed' \subseteq ProviderNodes \X Versions
    BY <1>1, <1>3, InvParts, BoundsRest DEF ControlTypes
<1>8. QED BY <1>2, <1>4, <1>6, <1>7 DEF Ordinary

\* Steps that leave the rows and the claims.
LEMMA ControlIsOrdinary ==
    ASSUME WorkflowInv, WorkflowAssumption, ThreadsMove, ControlTypes', BoundTypes',
           CheckpointStays, UNCHANGED <<rows, claimed>>
    PROVE  Ordinary
<1>1. RowTypes' /\ RunStays /\ chapter'.accepted = chapter.accepted /\ FactsStay
    BY RowsRest
<1>2. claimed' \subseteq ProviderNodes \X Versions
    BY InvParts
<1>3. QED BY <1>1, <1>2 DEF Ordinary

LEMMA Counting ==
    ASSUME NEW n, NEW m \in Nat, n \in 0..m, n < m
    PROVE  n + 1 \in 0..m
OBVIOUS

LEMMA LimitsAreNumbers ==
    ASSUME WorkflowAssumption
    PROVE  MaxAsks \in Nat /\ MaxCrashes \in Nat /\ MaxStalls \in Nat /\ MaxOutside \in Nat
BY DEF WorkflowAssumption

LEMMA AdvanceIsOrdinary ==
    ASSUME WorkflowInv, WorkflowAssumption, NEW e \in Executions, Advance(e)
    PROVE  Ordinary
<1> DEFINE at == thread[e].at
           limit == Limit(run.operation)
<1>1. /\ checkpoint' = [now |-> at, before |-> checkpoint.now]
      /\ \/ End(e) /\ UNCHANGED asks
         \/ SetPc(e, "enter") /\ UNCHANGED <<owner, request, asks>>
         \/ /\ asks < MaxAsks /\ asks' = asks + 1
            /\ SetPc(e, "pausing") /\ UNCHANGED <<owner, request>>
      /\ UNCHANGED <<rows, claimed, outside, crashes, stalls, evaluations>>
    BY Zenon DEF Advance
<1>2. /\ at \in Positions /\ Placed(at, version, limit)
      /\ checkpoint.now \in Positions /\ Placed(checkpoint.now, version, limit)
      /\ BoundTypes
    BY InvParts
<1> HIDE DEF at, limit
<1>3. CheckpointStays
  <2>1. /\ checkpoint' \in [now : Positions, before : Positions]
        /\ checkpoint'.now = at /\ checkpoint'.before = checkpoint.now
    BY <1>1, <1>2
  <2>2. QED BY <1>2, <2>1 DEF CheckpointStays, limit
<1>4. ThreadsMove /\ ControlTypes'
  <2>1. {"enter", "pausing"} \subseteq Pcs
    BY DEF Pcs
  <2>2. CASE End(e)
    BY <1>1, <2>2, EndMoves
  <2>3. CASE SetPc(e, "enter") /\ UNCHANGED <<owner, request>>
    BY <1>1, <2>1, <2>3, PcStep
  <2>4. CASE SetPc(e, "pausing") /\ UNCHANGED <<owner, request>>
    BY <1>1, <2>1, <2>4, PcStep
  <2>5. QED BY <1>1, <2>2, <2>3, <2>4
<1>5. BoundTypes'
  <2>1. asks' \in 0..MaxAsks
    BY <1>1, <1>2, LimitsAreNumbers, Counting DEF BoundTypes
  <2>2. QED BY <1>1, <1>2, <2>1 DEF BoundTypes
<1>6. QED BY <1>1, <1>3, <1>4, <1>5, ControlIsOrdinary

LEMMA CrashIsOrdinary ==
    ASSUME WorkflowInv, WorkflowAssumption, NEW e \in Executions, Crash(e)
    PROVE  Ordinary
<1>1. /\ crashes < MaxCrashes /\ crashes' = crashes + 1
      /\ thread' = [thread EXCEPT ![e] = IdleThread]
      /\ checkpoint' = checkpoint
         \/ checkpoint' = [now |-> checkpoint.before, before |-> checkpoint.before]
      /\ UNCHANGED <<rows, claimed, owner, request, outside, asks, stalls, evaluations>>
    BY DEF Crash
<1>2. /\ checkpoint.before \in Positions
      /\ Placed(checkpoint.before, version, Limit(run.operation)) /\ BoundTypes
    BY InvParts
<1>3. CheckpointStays
  <2>1. CASE checkpoint' = checkpoint
    BY <2>1, CheckpointRests
  <2>2. CASE checkpoint' = [now |-> checkpoint.before, before |-> checkpoint.before]
    BY <1>2, <2>2 DEF CheckpointStays
  <2>3. QED BY <1>1, <2>1, <2>2
<1>4. ThreadsMove /\ ControlTypes'
    BY <1>1, IdlingMoves, ControlRests
<1>5. BoundTypes'
  <2>1. crashes' \in 0..MaxCrashes
    BY <1>1, <1>2, LimitsAreNumbers, Counting DEF BoundTypes
  <2>2. QED BY <1>1, <1>2, <2>1 DEF BoundTypes
<1>6. QED BY <1>1, <1>3, <1>4, <1>5, ControlIsOrdinary

-----------------------------------------------------------------------------
(***************************************************************************)
(* The environment.                                                        *)
(***************************************************************************)

LEMMA AskIsOrdinary ==
    ASSUME WorkflowInv, WorkflowAssumption, NEW wish, Ask(wish)
    PROVE  Ordinary
<1>1. /\ wish \in {"pause", "cancel"} /\ request' = wish
      /\ asks < MaxAsks /\ asks' = asks + 1
      /\ UNCHANGED <<rows, claimed, checkpoint, thread, owner, outside, crashes,
                     stalls, evaluations>>
    BY DEF Ask
<1>2. BoundTypes /\ ControlTypes
    BY InvParts
<1>3. ControlTypes'
    BY <1>1, <1>2 DEF ControlTypes
<1>4. asks' \in 0..MaxAsks
    BY <1>1, <1>2, LimitsAreNumbers, Counting DEF BoundTypes
<1>5. BoundTypes'
    BY <1>1, <1>2, <1>4 DEF BoundTypes
<1>6. QED BY <1>1, <1>3, <1>5, ThreadsRest, CheckpointRests, ControlIsOrdinary

LEMMA AbortIsOrdinary ==
    ASSUME WorkflowInv, WorkflowAssumption, Abort
    PROVE  Ordinary
<1>1. /\ asks < MaxAsks /\ asks' = asks + 1
      /\ run' = Turned(run, "cancelled") /\ chapter' = Marked(chapter, Fallback)
      /\ UNCHANGED <<version, keyed, latest, comparison, claimed, checkpoint, thread,
                     owner, request, outside, crashes, stalls, evaluations>>
    BY Zenon DEF Abort, Turned, Marked
<1>2. BoundTypes /\ claimed \subseteq ProviderNodes \X Versions
    BY InvParts
<1>3. "cancelled" \in RunStatuses
    BY DEF RunStatuses, Terminal
<1>4. RowTypes' /\ RunStays /\ FactsStay /\ chapter'.accepted = chapter.accepted
    BY <1>1, <1>3, TurningRows
<1>5. asks' \in 0..MaxAsks
    BY <1>1, <1>2, LimitsAreNumbers, Counting DEF BoundTypes
<1>6. BoundTypes'
    BY <1>1, <1>2, <1>5 DEF BoundTypes
<1>7. ThreadsMove /\ ControlTypes' /\ CheckpointStays
    BY <1>1, ThreadsRest, ControlRests, CheckpointRests
<1>8. QED BY <1>1, <1>2, <1>4, <1>6, <1>7 DEF Ordinary

LEMMA RecoverIsOrdinary ==
    ASSUME WorkflowInv, WorkflowAssumption, Recover
    PROVE  Ordinary
<1>1. /\ \/ UNCHANGED stalls
         \/ stalls < MaxStalls /\ stalls' = stalls + 1
      /\ run' = Turned(run, "paused") /\ owner' = NoOne
      /\ UNCHANGED <<chapter, version, keyed, latest, comparison, claimed, checkpoint,
                     thread, request, outside, asks, crashes, evaluations>>
    BY Zenon DEF Recover, Turned
<1>2. BoundTypes /\ ControlTypes /\ claimed \subseteq ProviderNodes \X Versions
    BY InvParts
<1>3. "paused" \in RunStatuses
    BY DEF RunStatuses
<1>4. RowTypes' /\ RunStays /\ FactsStay /\ chapter'.accepted = chapter.accepted
    BY <1>1, <1>3, TurningRows
<1>5. stalls' \in 0..MaxStalls
    BY <1>1, <1>2, LimitsAreNumbers, Counting DEF BoundTypes
<1>6. BoundTypes'
    BY <1>1, <1>2, <1>5 DEF BoundTypes
<1>7. ControlTypes'
    BY <1>1, <1>2 DEF ControlTypes
<1>8. ThreadsMove /\ CheckpointStays
    BY <1>1, ThreadsRest, CheckpointRests
<1>9. QED BY <1>1, <1>2, <1>4, <1>6, <1>7, <1>8 DEF Ordinary

LEMMA OutsideBeginIsOrdinary ==
    ASSUME WorkflowInv, WorkflowAssumption, OutsideBegin
    PROVE  Ordinary
<1>1. /\ evaluations < MaxOutside /\ evaluations' = evaluations + 1
      /\ outside' = chapter.current /\ chapter' = Marked(chapter, "evaluating")
      /\ UNCHANGED <<run, version, keyed, latest, comparison, claimed, checkpoint,
                     thread, owner, request, asks, crashes, stalls>>
    BY Zenon DEF OutsideBegin, Marked
<1>2. /\ RowTypes /\ BoundTypes /\ ControlTypes /\ claimed \subseteq ProviderNodes \X Versions
      /\ chapter.current \in Ids
    BY InvParts, RowsOf
<1>3. "evaluating" \in ChapterStatuses
    BY DEF ChapterStatuses
<1>4. chapter' \in ChapterRows /\ chapter'.accepted = chapter.accepted
    BY <1>1, <1>3, RowsOf, ChapterIsMarked
<1>5. RowTypes' /\ RunStays /\ FactsStay
    BY <1>1, <1>2, <1>4, SameRunStays, FactsRest DEF RowTypes, SameRun
<1>6. evaluations' \in 0..MaxOutside
    BY <1>1, <1>2, LimitsAreNumbers, Counting DEF BoundTypes
<1>7. BoundTypes' /\ ControlTypes'
    BY <1>1, <1>2, <1>6 DEF BoundTypes, ControlTypes
<1>8. ThreadsMove /\ CheckpointStays
    BY <1>1, ThreadsRest, CheckpointRests
<1>9. QED BY <1>1, <1>2, <1>4, <1>5, <1>7, <1>8 DEF Ordinary

LEMMA OutsideEndIsOrdinary ==
    ASSUME WorkflowInv, WorkflowAssumption, OutsideEnd
    PROVE  Ordinary
<1> DEFINE v == outside
<1>1. /\ v # 0 /\ outside' = 0
      /\ \/ /\ \E o \in Outcomes, r \in Evaluations : latest' = [latest EXCEPT ![v] = r]
            /\ \E s \in ChapterStatuses : chapter' = Marked(chapter, s)
            /\ version' = [version EXCEPT ![v].status = "evaluated"]
         \/ UNCHANGED <<latest, chapter, version>>
      /\ UNCHANGED <<run, keyed, comparison, claimed, checkpoint, thread, owner,
                     request, bounds>>
  <2>1. /\ v # 0 /\ outside' = 0
        /\ \/ /\ \E o \in Outcomes : /\ latest' = [latest EXCEPT ![v] = Scored(o)]
                                     /\ chapter' = Marked(chapter, StatusOf(Scored(o)))
              /\ version' = [version EXCEPT ![v].status = "evaluated"]
           \/ /\ \E o \in Outcomes : latest' = [latest EXCEPT ![v] = Partial(o)]
              /\ chapter' = Marked(chapter, "evaluation_failed")
              /\ version' = [version EXCEPT ![v].status = "evaluated"]
           \/ UNCHANGED <<latest, chapter, version>>
        /\ UNCHANGED <<run, keyed, comparison, claimed, checkpoint, thread, owner,
                       request, bounds>>
    BY Zenon DEF OutsideEnd, Marked
  <2>2. \A o \in Outcomes : /\ Scored(o) \in Evaluations /\ Partial(o) \in Evaluations
                            /\ StatusOf(Scored(o)) \in ChapterStatuses
    BY EvaluationsAreTyped
  <2>3. "evaluation_failed" \in ChapterStatuses
    BY DEF ChapterStatuses, Evaluatable
  <2>4. QED BY <2>1, <2>2, <2>3, Zenon
<1>2. RowTypes /\ ControlTypes
    BY InvParts
<1>3. v \in Versions
    BY <1>1, <1>2 DEF ControlTypes, Ids
<1>4. RowTypes' /\ RunStays /\ FactsStay /\ chapter'.accepted = chapter.accepted
  <2>1. CASE UNCHANGED <<latest, chapter, version>>
    BY <1>1, <2>1, RowsRest DEF rows
  <2>2. CASE /\ \E o \in Outcomes, r \in Evaluations : latest' = [latest EXCEPT ![v] = r]
             /\ \E s \in ChapterStatuses : chapter' = Marked(chapter, s)
             /\ version' = [version EXCEPT ![v].status = "evaluated"]
    <3>1. latest' \in [Versions -> Evaluations]
      BY <1>2, <2>2 DEF RowTypes
    <3>2. chapter' \in ChapterRows /\ chapter'.accepted = chapter.accepted
      BY <2>2, RowsOf, ChapterIsMarked
    <3>3. "evaluated" \in VersionStatuses
      BY DEF VersionStatuses
    <3> HIDE DEF v
    <3>4. version' \in [Versions -> VersionRows] /\ FactsStay
      BY <1>3, <2>2, <3>3, VersionIsRestated
    <3>5. QED BY <1>1, <1>2, <3>1, <3>2, <3>4, SameRunStays DEF RowTypes, SameRun
  <2>3. QED BY <1>1, <2>1, <2>2
<1>5. ControlTypes'
    BY <1>1, <1>2 DEF ControlTypes, Ids
<1>6. QED BY <1>1, <1>4, <1>5, ThreadsRest, WriteIsOrdinary
-----------------------------------------------------------------------------
(***************************************************************************)
(* accept_version.                                                         *)
(***************************************************************************)

\* The promotion itself: what it does to the rows.
Promotes(e) ==
    LET v == Current(e)
    IN  /\ Acceptable(v)
        /\ version' = [u \in Versions |->
              IF u = v
              THEN [status |-> "accepted",
                    facts |-> IF version[v].facts = "none" THEN "none" ELSE "accepted"]
              ELSE IF u = chapter.accepted THEN Superseded(version[u])
              ELSE IF Own(u) THEN Discarded(version[u])
              ELSE version[u]]
        /\ chapter' = [status |-> "accepted", current |-> v, accepted |-> v]
        /\ run' = Concluded(run, "completed", v, v, v)
        /\ Complete(e, Ranking(Onward(e), v))
        /\ UNCHANGED <<owner, request>>

LEMMA AcceptCases ==
    ASSUME NEW e, Accept(e)
    PROVE  /\ thread[e].at.node = "accept_version"
           /\ UNCHANGED <<keyed, latest, comparison, claimed, checkpoint, outside, bounds>>
           /\ \/ /\ run.status = "completed" /\ Complete(e, Onward(e))
                 /\ UNCHANGED <<run, chapter, version, owner, request>>
              \/ Invalid(e) /\ UNCHANGED <<run, chapter, version>>
              \/ Promotes(e)
BY Zenon DEF Accept, AtNode, Promotes, Concluded, Ranking

\* The promoted version is canonical, every other one gives up its facts.
LEMMA PromotedRows ==
    ASSUME WorkflowInv, WorkflowAssumption, NEW e \in Executions,
           thread[e].at.node = "accept_version", Promotes(e)
    PROVE  /\ Current(e) \in Versions /\ version' \in [Versions -> VersionRows]
           /\ \A u \in Versions :
                 /\ version[u].facts # "none" => version'[u].facts # "none"
                 /\ version'[u].facts = "accepted" <=> u = Current(e)
                 /\ Own(u) => Decided(version'[u])
<1> DEFINE v == Current(e)
<1>1. /\ v \in Versions /\ version[v].facts # "none"
      /\ CanonicalFacts /\ \A u \in Versions : version[u] \in VersionRows
    BY PlaceOfThread, InvParts, RowsOf DEF Extracted
<1>2. version' = [u \in Versions |->
              IF u = v
              THEN [status |-> "accepted",
                    facts |-> IF version[v].facts = "none" THEN "none" ELSE "accepted"]
              ELSE IF u = chapter.accepted THEN Superseded(version[u])
              ELSE IF Own(u) THEN Discarded(version[u])
              ELSE version[u]]
    BY Zenon DEF Promotes
<1> DEFINE Follows(u, next) ==
               /\ next \in VersionRows
               /\ version[u].facts # "none" => next.facts # "none"
               /\ next.facts = "accepted" <=> u = v
               /\ Own(u) => Decided(next)
<1>3. ASSUME NEW u \in Versions PROVE Follows(u, version'[u])
  <2> DEFINE row == version[u]
  <2>1. row \in VersionRows /\ (row.facts = "accepted" <=> chapter.accepted = u)
    BY <1>1 DEF CanonicalFacts
  <2>2. CASE u = v
    <3>1. version'[u] = [status |-> "accepted", facts |-> "accepted"]
      BY <1>1, <1>2, <2>2
    <3>2. QED BY <2>2, <3>1 DEF VersionRows, VersionStatuses, FactStatuses, Decided
  <2>3. CASE u # v /\ u = chapter.accepted
    <3>1. version'[u] = Superseded(row)
      BY <1>2, <2>3
    <3>2. Superseded(row) = [status |-> "superseded", facts |-> "superseded"]
      BY <2>1, <2>3 DEF Superseded
    <3>3. QED BY <2>3, <3>1, <3>2 DEF VersionRows, VersionStatuses, FactStatuses, Decided
  <2>4. CASE u # v /\ u # chapter.accepted /\ Own(u)
    <3>1. version'[u] = Discarded(row)
      BY <1>2, <2>4
    <3>2. /\ Discarded(row) \in VersionRows /\ Decided(Discarded(row))
          /\ row.facts # "none" => Discarded(row).facts # "none"
          /\ Discarded(row).facts = "accepted" <=> row.facts = "accepted"
      BY <2>1, DiscardedRow
    <3>3. QED BY <2>1, <2>4, <3>1, <3>2
  <2>5. CASE u # v /\ u # chapter.accepted /\ ~Own(u)
    <3>1. version'[u] = row
      BY <1>2, <2>5
    <3>2. QED BY <2>1, <2>5, <3>1
  <2>6. QED BY <2>2, <2>3, <2>4, <2>5
<1>4. version' \in [Versions -> VersionRows]
  <2>1. \A u \in Versions : version'[u] \in VersionRows
    BY <1>3
  <2>2. QED BY <1>2, <2>1
<1>5. QED BY <1>1, <1>3, <1>4

LEMMA AcceptKeepsInv ==
    ASSUME WorkflowInv, WorkflowAssumption, NEW e \in Executions, Accept(e)
    PROVE  /\ WorkflowInv'
           /\ chapter'.accepted # chapter.accepted => latest[chapter'.accepted].passed
<1> DEFINE v == Current(e)
           limit == Limit(run.operation)
<1>1. /\ thread[e].at.node = "accept_version"
      /\ UNCHANGED <<keyed, latest, comparison, claimed, checkpoint, outside, bounds>>
    BY AcceptCases
<1>2. /\ Onward(e) \in Positions /\ Onward(e).node = "end"
      /\ Onward(e).attempt = thread[e].at.attempt /\ thread[e].at.attempt <= limit
    BY <1>1, OnwardPosition, PlaceOfThread, Edges
<1>3. ASSUME NEW q \in Positions, q.node = "end", q.attempt = thread[e].at.attempt
      PROVE  Placed(q, version', limit)
    BY <1>2, <1>3 DEF Placed, Revising, ExtractionNodes, Extracted
<1>4. CASE Complete(e, Onward(e)) /\ UNCHANGED <<run, chapter, version, owner, request>>
  <2>1. ThreadsMove /\ ControlTypes'
    BY <1>1, <1>2, <1>3, <1>4, CompletionStep
  <2>2. UNCHANGED <<rows, claimed, checkpoint, bounds>>
    BY <1>1, <1>4 DEF rows
  <2>3. QED BY <2>1, <2>2, MoveIsOrdinary, OrdinaryKeepsInv
<1>5. CASE Invalid(e) /\ UNCHANGED <<run, chapter, version>>
  <2>1. ThreadsMove /\ ControlTypes'
    BY <1>1, <1>5, InvalidMoves
  <2>2. UNCHANGED <<rows, claimed, checkpoint, bounds>>
    BY <1>1, <1>5 DEF rows
  <2>3. QED BY <2>1, <2>2, MoveIsOrdinary, OrdinaryKeepsInv
<1>6. CASE Promotes(e)
  <2>1. /\ Acceptable(v)
        /\ chapter' = [status |-> "accepted", current |-> v, accepted |-> v]
        /\ run' = Concluded(run, "completed", v, v, v)
        /\ Complete(e, Ranking(Onward(e), v))
        /\ UNCHANGED <<owner, request>>
    BY <1>6, Zenon DEF Promotes
  <2>2. /\ v \in Versions /\ version' \in [Versions -> VersionRows]
        /\ \A u \in Versions :
              /\ version[u].facts # "none" => version'[u].facts # "none"
              /\ version'[u].facts = "accepted" <=> u = v
    BY <1>1, <1>6, PromotedRows
  <2>3. v \in Ids
    BY <2>2 DEF Ids
  <2>4. /\ RowTypes /\ thread \in [Executions -> Threads]
        /\ claimed \subseteq ProviderNodes \X Versions
        /\ checkpoint \in [now : Positions, before : Positions]
        /\ checkpoint.now \in Positions /\ Placed(checkpoint.now, version, limit)
        /\ checkpoint.before \in Positions /\ Placed(checkpoint.before, version, limit)
        /\ \A d \in Executions : thread[d].at \in Positions /\ Placed(thread[d].at, version, limit)
    BY InvParts
  <2> DEFINE p == Ranking(Onward(e), v)
  <2>5. p \in Positions /\ p.node = "end" /\ p.attempt = thread[e].at.attempt
    BY <1>2, <2>3, PositionRanks
  <2>6. Placed(p, version', limit)
    BY <1>3, <2>5
  <2>7. ThreadsMove /\ ControlTypes'
    BY <1>1, <2>1, <2>5, <2>6, CompletionStep
  <2> HIDE DEF p, v
  <2>8. ASSUME NEW q \in Positions, Placed(q, version, limit)
        PROVE  Placed(q, version', limit)
    BY <2>2, <2>8, PlaceStays
  <2>9. \A d \in Executions : Placed(thread'[d].at, version', limit)
    BY <2>4, <2>7, <2>8 DEF ThreadsMove
  <2>10. Placed(checkpoint'.now, version', limit) /\ Placed(checkpoint'.before, version', limit)
    BY <1>1, <2>4, <2>8
  <2>11. run' \in RunRows /\ SameRun(run, run')
    <3>1. "completed" \in RunStatuses /\ run \in RunRows
      BY RowsOf DEF RunStatuses, Terminal
    <3>2. QED BY <2>1, <2>3, <3>1, RunConcludes
  <2>12. chapter' \in ChapterRows /\ chapter'.accepted = v
    BY <2>1, <2>3 DEF ChapterRows, ChapterStatuses, Evaluatable
  <2>13. RowTypes' /\ RunStays /\ BoundTypes'
    BY <1>1, <2>2, <2>4, <2>11, <2>12, SameRunStays, BoundsRest DEF RowTypes
  <2>14. CanonicalFacts'
    BY <2>2, <2>12 DEF CanonicalFacts
  <2>15. WorkflowInv'
    BY <1>1, <2>4, <2>7, <2>9, <2>10, <2>13, <2>14, InvOfParts DEF RunStays, ThreadsMove
  <2>16. latest[chapter'.accepted].passed
    BY <2>1, <2>12 DEF Acceptable
  <2>17. QED BY <2>15, <2>16
<1>7. QED BY <1>4, <1>5, <1>6, AcceptCases

-----------------------------------------------------------------------------
(***************************************************************************)
(* The theorems of every workflow.                                         *)
(***************************************************************************)

LEMMA InitInv ==
    ASSUME Init, WorkflowAssumption
    PROVE  WorkflowInv
<1>1. PICK prior \in Prior, operation \in Operations :
        /\ run = [status |-> "none", operation |-> operation, prior |-> prior,
                  current |-> 0, best |-> 0, accepted |-> 0, attempt |-> 0]
        /\ chapter = IF prior
                     THEN [status |-> "accepted", current |-> 1, accepted |-> 1]
                     ELSE [status |-> "planned", current |-> 0, accepted |-> 0]
        /\ version = [v \in Versions |->
                        IF prior /\ v = 1
                        THEN [status |-> "accepted", facts |-> "accepted"]
                        ELSE [status |-> "none", facts |-> "none"]]
    BY DEF Init
<1>2. /\ keyed = [v \in Versions |-> NoEvaluation]
      /\ latest = [v \in Versions |-> NoEvaluation]
      /\ comparison = [v \in Versions |-> "none"]
      /\ claimed = {}
      /\ checkpoint = [now |-> StartPosition, before |-> StartPosition]
      /\ thread = [e \in Executions |-> IdleThread]
      /\ owner = NoOne /\ request = "none" /\ outside = 0
      /\ asks = 0 /\ crashes = 0 /\ stalls = 0 /\ evaluations = 0
    BY DEF Init
<1>3. /\ 1 \in Versions /\ 0 \in Ids /\ 1 \in Ids /\ prior \in BOOLEAN
      /\ MaxRevisions \in Nat
    BY DEF Versions, Ids, WorkflowAssumption
<1>4. run \in RunRows /\ run.attempt = 0
    BY <1>1, <1>3 DEF RunRows, RunStatuses
<1>5. chapter \in ChapterRows /\ chapter.accepted = IF prior THEN 1 ELSE 0
    BY <1>1, <1>3 DEF ChapterRows, ChapterStatuses, Evaluatable
<1>6. /\ version \in [Versions -> VersionRows]
      /\ \A v \in Versions : version[v].facts = IF prior /\ v = 1 THEN "accepted" ELSE "none"
    BY <1>1 DEF VersionRows, VersionStatuses, FactStatuses
<1>7. CanonicalFacts
  <2>1. ASSUME NEW v \in Versions PROVE v # 0
    BY <1>3 DEF Versions
  <2>2. QED BY <1>5, <1>6, <2>1 DEF CanonicalFacts
<1>8. NoEvaluation \in Evaluations /\ "none" \in Decisions
    BY DEF NoEvaluation, Evaluations, Actions, Decisions
<1>9. RowTypes
    BY <1>2, <1>4, <1>5, <1>6, <1>8 DEF RowTypes
<1>10. /\ StartPosition \in Positions
       /\ \A rows_of, operation_of : Placed(StartPosition, rows_of, Limit(operation_of))
    BY StartIsPlaced
<1>11. IdleThread \in Threads /\ IdleThread.at = StartPosition
    BY <1>10 DEF IdleThread, Threads, Pcs
<1>12. ControlTypes /\ BoundTypes
    BY <1>2, <1>3, LimitsAreNumbers DEF ControlTypes, BoundTypes
<1>13. /\ claimed \subseteq ProviderNodes \X Versions
       /\ checkpoint \in [now : Positions, before : Positions]
       /\ thread \in [Executions -> Threads]
    BY <1>2, <1>10, <1>11
<1>14. TypeOK
    BY <1>9, <1>12, <1>13, Zenon
       DEF TypeOK, RowTypes, ControlTypes, BoundTypes, RunRows, ChapterRows, VersionRows
<1>15. RevisionsBounded
    BY <1>3, <1>4 DEF RevisionsBounded
<1>16. \A e \in Executions : Reachable(thread[e].at)
    BY <1>2, <1>10, <1>11 DEF Reachable
<1>17. Reachable(checkpoint.now) /\ Reachable(checkpoint.before)
    BY <1>2, <1>10 DEF Reachable
<1>18. QED BY <1>7, <1>14, <1>15, <1>16, <1>17 DEF WorkflowInv

\* Only accept_version is not ordinary.
LEMMA StepsAreOrdinary ==
    ASSUME WorkflowInv, WorkflowAssumption, [Next]_vars
    PROVE  Ordinary \/ \E e \in Executions : Accept(e)
<1>1. CASE UNCHANGED vars
    BY <1>1, StutterIsOrdinary
<1>2. ASSUME NEW e \in Executions,
             Run(e) \/ Resume(e) \/ Node(e) \/ Handler(e) \/ Crash(e), ~Accept(e)
      PROVE  Ordinary
  <2>1. CASE Run(e)
    BY <2>1, RunIsOrdinary
  <2>2. CASE Resume(e)
    BY <2>2, ResumeIsOrdinary
  <2>3. CASE Crash(e)
    BY <2>3, CrashIsOrdinary
  <2>4. CASE Handler(e)
    BY <2>4, PauseIsOrdinary, CancelAtNodeIsOrdinary, FailIsOrdinary, BlockIsOrdinary,
       ReviewIsOrdinary DEF Handler
  <2>5. CASE Node(e)
    <3>1. CASE Initialize(e) \/ Enter(e) \/ Advance(e) \/ Read(e)
      BY <3>1, InitializeIsOrdinary, EnterIsOrdinary, AdvanceIsOrdinary, ReadIsOrdinary
    <3>2. CASE Reuse(e) \/ Claim(e) \/ Answer(e) \/ CallFails(e) \/ CallBlocked(e)
      BY <3>2, ReuseIsOrdinary, ClaimIsOrdinary, AnswerIsOrdinary, CallFailsIsOrdinary,
         CallBlockedIsOrdinary
    <3>3. CASE SaveDraft(e) \/ SaveRevision(e) \/ SaveFacts(e) \/ SaveEvaluation(e)
      BY <3>3, SaveDraftIsOrdinary, SaveRevisionIsOrdinary, SaveFactsIsOrdinary,
         SaveEvaluationIsOrdinary
    <3>4. CASE Decide(e) \/ Compare(e) \/ Reject(e) \/ NeedsReview(e)
      BY <3>4, DecideIsOrdinary, CompareIsOrdinary, RejectIsOrdinary, NeedsReviewIsOrdinary
    <3>5. QED BY <1>2, <2>5, <3>1, <3>2, <3>3, <3>4 DEF Node
  <2>6. QED BY <1>2, <2>1, <2>2, <2>3, <2>4, <2>5
<1>3. CASE \E wish \in Requests : Ask(wish)
    BY <1>3, AskIsOrdinary
<1>4. CASE Abort \/ Recover \/ OutsideBegin \/ OutsideEnd
    BY <1>4, AbortIsOrdinary, RecoverIsOrdinary, OutsideBeginIsOrdinary, OutsideEndIsOrdinary
<1>5. QED BY <1>1, <1>2, <1>3, <1>4 DEF Next

LEMMA StepKeepsInv ==
    ASSUME WorkflowInv, WorkflowAssumption, [Next]_vars
    PROVE  /\ WorkflowInv'
           /\ chapter'.accepted # chapter.accepted => latest[chapter'.accepted].passed
BY StepsAreOrdinary, OrdinaryKeepsInv, AcceptKeepsInv

LEMMA WorkflowInvHolds == Spec => []WorkflowInv
<1>1. Init => WorkflowInv
    BY WorkflowAssumption, InitInv
<1>2. WorkflowInv /\ [Next]_vars => WorkflowInv'
    BY WorkflowAssumption, StepKeepsInv
<1>3. QED BY <1>1, <1>2, PTL DEF Spec

\* Every variable keeps its type: the rows, the checkpoints and the threads of
\* the workflow, however executions interleave, crash and lose their lease.
THEOREM TypeCorrect == Spec => []TypeOK
<1>1. WorkflowInv => TypeOK
    BY DEF WorkflowInv
<1>2. QED BY <1>1, WorkflowInvHolds, PTL

\* The canon of the story is what the accepted version says: accept_version
\* promotes a version and its facts in one transaction, supersedes the version
\* accepted before, and no other step makes a fact canonical.
THEOREM CanonIsOfAcceptedVersion == Spec => []CanonicalFacts
<1>1. WorkflowInv => CanonicalFacts
    BY DEF WorkflowInv
<1>2. QED BY <1>1, WorkflowInvHolds, PTL

\* accept_version reads the latest evaluation of the version in the transaction
\* that promotes it, and nothing else changes the accepted version: a verdict
\* overtaken by another evaluation promotes nothing.
THEOREM PromotionsPass == Spec => AcceptsOnlyPassing
<1>1. WorkflowInv /\ [Next]_vars =>
        [chapter'.accepted # chapter.accepted => latest[chapter'.accepted].passed]_vars
    BY WorkflowAssumption, StepKeepsInv
<1>2. QED BY <1>1, WorkflowInvHolds, PTL DEF Spec, AcceptsOnlyPassing

\* A run makes no more revisions than max_revision_attempts allows, one if the
\* revision is its operation, although the limit is tested on the state of the
\* graph and the number is kept in the run's row.
THEOREM RevisionsAreBounded == Spec => []RevisionsBounded
<1>1. WorkflowInv => RevisionsBounded
    BY DEF WorkflowInv
<1>2. QED BY <1>1, WorkflowInvHolds, PTL
-----------------------------------------------------------------------------
(***************************************************************************)
(* A run that closed, with one execution.                                  *)
(***************************************************************************)

EndInv == ClosedRests /\ ClosedRunsLeaveNothingOpen

Active(e) == ~At(e, "idle") /\ ~(At(e, "done") /\ thread[e].at.node = "end")

LEMMA ActiveIsOpen ==
    ASSUME ClosedRests, NEW e \in Executions, Active(e)
    PROVE  run.status \notin Closed
BY DEF ClosedRests, Active

LEMMA OpenIsFine ==
    ASSUME run'.status \notin Closed
    PROVE  EndInv'
BY DEF EndInv, ClosedRests, ClosedRunsLeaveNothingOpen, Closed

\* Steps of an execution that leave the run alone.
LEMMA QuietSteps ==
    ASSUME NEW e \in Executions,
           \/ Enter(e) \/ Read(e) \/ Claim(e) \/ Answer(e) \/ CallFails(e) \/ CallBlocked(e)
           \/ SaveFacts(e) \/ Decide(e) \/ Block(e)
    PROVE  Active(e) /\ run' = run
<1>1. CASE Enter(e) \/ Read(e) \/ Claim(e)
    BY <1>1 DEF Enter, Read, Claim, At, AtNode, Active, rows
<1>2. CASE Answer(e) \/ CallFails(e) \/ CallBlocked(e)
    BY <1>2 DEF Answer, CallFails, CallBlocked, At, Active, rows
<1>3. CASE SaveFacts(e) \/ Decide(e) \/ Block(e)
    BY <1>3 DEF SaveFacts, Decide, Block, At, AtNode, Active, rows
<1>4. QED BY <1>1, <1>2, <1>3

\* Steps of an execution that write the run and do not close it.
LEMMA WritingSteps ==
    ASSUME WorkflowInv, WorkflowAssumption, NEW e \in Executions,
           \/ Initialize(e) \/ Reuse(e) \/ SaveDraft(e) \/ SaveRevision(e)
           \/ SaveEvaluation(e) \/ Compare(e) \/ Reject(e)
    PROVE  /\ Active(e)
           /\ \/ run'.status = run.status
              \/ run.status = "none" /\ run'.status = "running" /\ Initialize(e)
<1>1. /\ run \in RunRows /\ run.best \in Ids /\ run.current \in Ids
      /\ chapter.current \in Ids /\ chapter.accepted \in Ids
    BY RowsOf
<1>2. CASE Initialize(e)
  <2>1. Active(e)
    BY <1>2 DEF Initialize, AtNode, Active, At
  <2> DEFINE s == "running"
             c == chapter.current
             a == chapter.accepted
  <2>2. run' = run \/ (run.status = "none" /\ run' = Concluded(run, s, c, c, a))
    BY <1>2, Zenon DEF Initialize, Concluded
  <2>3. run \in RunRows /\ s \in RunStatuses /\ c \in Ids /\ a \in Ids /\ s = "running"
    BY <1>1 DEF RunStatuses
  <2> HIDE DEF s, c, a
  <2>4. Concluded(run, s, c, c, a).status = s
    BY <2>3, RunConcludes
  <2>5. QED BY <1>2, <2>1, <2>2, <2>3, <2>4
<1>3. CASE Reuse(e)
    BY <1>3, EvaluatedRun DEF Reuse, AtNode, Active, At
<1>4. CASE SaveEvaluation(e)
  <2>1. Active(e)
    BY <1>4 DEF SaveEvaluation, AtNode, Active, At
  <2>2. RunEvaluated(e) \/ run' = run
    BY <1>4, Zenon DEF SaveEvaluation
  <2>3. QED BY <2>1, <2>2, EvaluatedRun
<1>5. CASE SaveDraft(e)
  <2> DEFINE one == 1
             best == IF run.best = 0 THEN 1 ELSE run.best
  <2>1. Active(e)
    BY <1>5 DEF SaveDraft, AtNode, Active, At
  <2>2. run' = Noted(run, one, best) \/ run' = run
    BY <1>5, Zenon DEF SaveDraft, Noted
  <2>3. one \in Ids /\ best \in Ids
    BY <1>1, PlaceOfThread DEF Ids, Versions
  <2> HIDE DEF one, best
  <2>4. Noted(run, one, best).status = run.status
    <3>1. run \in RunRows
      BY <1>1
    <3>2. QED BY <2>3, <3>1, RunNotes
  <2>5. QED BY <2>1, <2>2, <2>4
<1>6. CASE SaveRevision(e)
  <2> DEFINE v == Target(e)
             n == thread[e].at.attempt + 1
  <2>1. Active(e) /\ thread[e].at.node = "revise_draft"
    BY <1>6 DEF SaveRevision, AtNode, Active, At
  <2>2. run' = Revised(run, v, n) \/ run' = run
    BY <1>6, Zenon DEF SaveRevision, Revised
  <2>3. v \in Ids /\ n \in Nat
    BY <2>1, RevisionIsPlaced DEF Ids
  <2> HIDE DEF v, n
  <2>4. Renewed(run, Revised(run, v, n), n)
    BY <1>1, <2>3, RunRevises, Zenon
  <2>5. QED BY <2>1, <2>2, <2>4 DEF Renewed
<1>7. CASE Compare(e)
  <2> DEFINE v == thread[e].at.current
             best == BestOf(run.best, v)
  <2>1. Active(e) /\ thread[e].at.node = "compare_versions"
    BY <1>7 DEF Compare, AtNode, Active, At
  <2>2. run' = Ranked(run, best) \/ run' = run
    BY <1>7, Zenon DEF Compare, Ranked
  <2>3. best \in Ids
    BY <1>1, <2>1, PlaceOfThread DEF BestOf, Ids, Current, Extracted
  <2> HIDE DEF v, best
  <2>4. Ranked(run, best).status = run.status
    <3>1. run \in RunRows
      BY <1>1
    <3>2. QED BY <2>3, <3>1, RunRanks
  <2>5. QED BY <2>1, <2>2, <2>4
<1>8. CASE Reject(e)
  <2>1. Active(e)
    BY <1>8 DEF Reject, AtNode, Active, At
  <2>2. run' = Aimed(run, run.best) \/ run' = run
    BY <1>8, Zenon DEF Reject, Aimed
  <2>3. QED BY <1>1, <2>1, <2>2, RunAims
<1>9. QED BY <1>2, <1>3, <1>4, <1>5, <1>6, <1>7, <1>8

\* Steps that end or begin a run otherwise than by closing it.
LEMMA TurningSteps ==
    ASSUME WorkflowInv, WorkflowAssumption, NEW e \in Executions,
           Pause(e) \/ CancelAtNode(e) \/ Fail(e)
    PROVE  Active(e) /\ (run'.status = run.status \/ run'.status \notin Closed)
<1>1. run \in RunRows
    BY RowsOf
<1>2. {"paused", "cancelled", "failed"} \subseteq RunStatuses
    BY DEF RunStatuses, Terminal
<1>3. Active(e)
    BY DEF Pause, CancelAtNode, Fail, Active, At
<1> DEFINE s == IF run.status \in Terminal THEN run.status ELSE "paused"
<1>4. CASE Pause(e)
  <2>1. run' = Turned(run, s)
    BY <1>4, Zenon DEF Pause, Turned
  <2>2. s \in RunStatuses /\ (s = run.status \/ s = "paused")
    BY <1>1, <1>2 DEF RunRows
  <2> HIDE DEF s
  <2>3. QED BY <1>1, <1>3, <2>1, <2>2, RunTurns DEF Closed
<1>5. CASE CancelAtNode(e)
  <2>1. run' = Turned(run, "cancelled") \/ run' = run
    BY <1>5, Zenon DEF CancelAtNode, Turned
  <2>2. QED BY <1>1, <1>2, <1>3, <2>1, RunTurns DEF Closed
<1>6. CASE Fail(e)
  <2>1. run' = Turned(run, "failed") \/ run' = run
    BY <1>6, Zenon DEF Fail, Turned
  <2>2. QED BY <1>1, <1>2, <1>3, <2>1, RunTurns DEF Closed
<1>7. QED BY <1>4, <1>5, <1>6

LEMMA CompletedThread ==
    ASSUME WorkflowInv, WorkflowAssumption, NEW e \in Executions, NEW p, Complete(e, p)
    PROVE  At(e, "done")' /\ thread'[e].at = p
<1>1. thread \in [Executions -> Threads] /\ thread[e] \in Threads
    BY InvParts
<1> DEFINE mid == [thread EXCEPT ![e].pc = "done"]
           u == [thread[e] EXCEPT !.pc = "done"]
           v == [u EXCEPT !.at = p]
<1>2. mid = [thread EXCEPT ![e] = u] /\ thread' = [mid EXCEPT ![e].at = p]
    BY <1>1, Zenon DEF Complete
<1>3. u \in [pc : {"done"}, at : Positions, first : BOOLEAN]
    BY <1>1 DEF Threads
<1> HIDE DEF mid, u
<1>4. v.pc = "done" /\ v.at = p
    BY <1>3
<1>5. mid[e] = u /\ DOMAIN mid = Executions
    BY <1>1, <1>2
<1>6. thread' = [mid EXCEPT ![e] = v]
    BY <1>2, <1>5
<1> HIDE DEF v
<1>7. thread'[e] = v
    BY <1>5, <1>6
<1>8. QED BY <1>4, <1>7 DEF At

\* A step that closes the run leaves its execution at the end.
LEMMA ClosingStep ==
    ASSUME NEW e \in Executions, \A d \in Executions : d = e,
           At(e, "idle")' \/ (At(e, "done")' /\ thread'[e].at.node = "end"),
           \A u \in Versions : Own(u) => Decided(version'[u]),
           run'.prior = run.prior
    PROVE  EndInv'
<1>1. ClosedRests'
    BY DEF ClosedRests, At
<1>2. ClosedRunsLeaveNothingOpen'
    BY DEF ClosedRunsLeaveNothingOpen, Own, Decided
<1>3. QED BY <1>1, <1>2 DEF EndInv

LEMMA AcceptEnds ==
    ASSUME WorkflowInv, WorkflowAssumption, EndInv, NEW e \in Executions,
           \A d \in Executions : d = e, Accept(e)
    PROVE  EndInv'
<1>1. Active(e) /\ thread[e].at.node = "accept_version"
    BY DEF Accept, AtNode, Active, At
<1>2. run.status \notin Closed
    BY <1>1, ActiveIsOpen DEF EndInv
<1>3. CASE run' = run
    BY <1>2, <1>3, OpenIsFine
<1>4. CASE Promotes(e)
  <2> DEFINE v == Current(e)
  <2>1. \A u \in Versions : Own(u) => Decided(version'[u])
    BY <1>1, <1>4, PromotedRows
  <2>2. v \in Ids
    BY OnwardPosition
  <2>3. run' = Concluded(run, "completed", v, v, v) /\ Complete(e, Ranking(Onward(e), v))
    BY <1>4, Zenon DEF Promotes
  <2> HIDE DEF v
  <2>4. run'.prior = run.prior
    <3>1. "completed" \in RunStatuses /\ run \in RunRows
      BY RowsOf DEF RunStatuses, Terminal
    <3>2. QED BY <2>2, <2>3, <3>1, RunConcludes DEF SameRun
  <2>5. Onward(e) \in Positions /\ Onward(e).node = "end"
    BY <1>1, OnwardPosition, Edges
  <2>6. Ranking(Onward(e), v).node = "end"
    BY <2>2, <2>5, PositionRanks
  <2>7. At(e, "done")' /\ thread'[e].at = Ranking(Onward(e), v)
    BY <2>3, CompletedThread
  <2>8. QED BY <2>1, <2>4, <2>6, <2>7, ClosingStep
<1>5. QED BY <1>3, <1>4, AcceptCases

LEMMA ReviewEnds ==
    ASSUME WorkflowInv, WorkflowAssumption, NEW e \in Executions,
           \A d \in Executions : d = e, NeedsReview(e) \/ Review(e)
    PROVE  EndInv'
<1>1. ShowBest /\ UNCHANGED <<keyed, latest, comparison>>
    BY Zenon DEF NeedsReview, Review
<1>2. run'.prior = run.prior /\ \A u \in Versions : Own(u) => Decided(version'[u])
    BY <1>1, BestIsShown
<1>3. CASE NeedsReview(e)
  <2> DEFINE p == Drafted(Onward(e), run.best, run.best)
  <2>1. thread[e].at.node = "mark_needs_human_review" /\ Complete(e, p)
    BY <1>3, Zenon DEF NeedsReview, AtNode, Drafted
  <2>2. Onward(e) \in Positions /\ Onward(e).node = "end" /\ run.best \in Ids
    BY <2>1, OnwardPosition, RowsOf, Edges
  <2>3. p.node = "end"
    BY <2>2, PositionIsDrafted
  <2> HIDE DEF p
  <2>4. At(e, "done")' /\ thread'[e].at = p
    BY <2>1, CompletedThread
  <2>5. QED BY <1>2, <2>3, <2>4, ClosingStep
<1>4. CASE Review(e)
  <2>1. thread' = [thread EXCEPT ![e] = IdleThread]
    BY <1>4, Zenon DEF Review, End
  <2>2. thread \in [Executions -> Threads]
    BY InvParts
  <2>3. At(e, "idle")'
    BY <2>1, <2>2 DEF At, IdleThread
  <2>4. QED BY <1>2, <2>3, ClosingStep
<1>5. QED BY <1>3, <1>4

\* An execution that ends or dies, the rows being left alone.
LEMMA IdlingEnds ==
    ASSUME WorkflowInv, WorkflowAssumption, EndInv, NEW e \in Executions,
           \A d \in Executions : d = e,
           thread' = [thread EXCEPT ![e] = IdleThread], UNCHANGED <<run, version>>
    PROVE  EndInv'
<1>1. thread \in [Executions -> Threads]
    BY InvParts
<1>2. At(e, "idle")'
    BY <1>1 DEF At, IdleThread
<1>3. ClosedRests'
    BY <1>2 DEF ClosedRests, At
<1>4. ClosedRunsLeaveNothingOpen'
    BY DEF EndInv, ClosedRunsLeaveNothingOpen, Own
<1>5. QED BY <1>3, <1>4 DEF EndInv

\* Steps that leave the run and the executions, and at most restate a version.
LEMMA RestingSteps ==
    ASSUME EndInv, UNCHANGED <<run, thread>>,
           \/ version' = version
           \/ \A u \in Versions : /\ version'[u].facts = version[u].facts
                                  /\ \/ version'[u] = version[u]
                                     \/ version'[u].status = "evaluated"
    PROVE  EndInv'
<1>1. ClosedRests'
    BY DEF EndInv, ClosedRests, At
<1>2. ClosedRunsLeaveNothingOpen'
    BY DEF EndInv, ClosedRunsLeaveNothingOpen, Own
<1>3. QED BY <1>1, <1>2 DEF EndInv

LEMMA StepKeepsEnd ==
    ASSUME WorkflowInv, WorkflowAssumption, EndInv, [Next]_vars,
           \A c, d \in Executions : c = d
    PROVE  EndInv'
<1>1. CASE UNCHANGED vars
    BY <1>1, RestingSteps DEF vars, rows
<1>2. ASSUME NEW e \in Executions, Node(e) \/ Handler(e), run' = run \/ run'.status = run.status
                 \/ run'.status \notin Closed, Active(e)
      PROVE  EndInv'
  <2>1. run.status \notin Closed
    BY <1>2, ActiveIsOpen DEF EndInv
  <2>2. QED BY <1>2, <2>1, OpenIsFine
<1>3. ASSUME NEW e \in Executions, Node(e) PROVE EndInv'
  <2>1. \A d \in Executions : d = e
    OBVIOUS
  <2>2. CASE \/ Enter(e) \/ Read(e) \/ Claim(e) \/ Answer(e) \/ CallFails(e) \/ CallBlocked(e)
             \/ SaveFacts(e) \/ Decide(e)
    BY <1>2, <1>3, <2>2, QuietSteps
  <2>3. CASE \/ Initialize(e) \/ Reuse(e) \/ SaveDraft(e) \/ SaveRevision(e)
             \/ SaveEvaluation(e) \/ Compare(e) \/ Reject(e)
    BY <1>2, <1>3, <2>3, WritingSteps DEF Closed
  <2>4. CASE Accept(e)
    BY <2>1, <2>4, AcceptEnds
  <2>5. CASE NeedsReview(e)
    BY <2>1, <2>5, ReviewEnds
  <2>6. CASE Advance(e)
    <3>1. CASE thread[e].at.node = "end"
      <4>1. thread' = [thread EXCEPT ![e] = IdleThread] /\ UNCHANGED <<run, version>>
        BY <2>6, <3>1, Zenon DEF Advance, End, rows
      <4>2. QED BY <2>1, <4>1, IdlingEnds
    <3>2. CASE thread[e].at.node # "end"
      <4>1. Active(e) /\ run' = run
        BY <2>6, <3>2 DEF Advance, Active, At, rows
      <4>2. QED BY <1>2, <1>3, <4>1
    <3>3. QED BY <3>1, <3>2
  <2>7. QED BY <1>3, <2>2, <2>3, <2>4, <2>5, <2>6 DEF Node
<1>4. ASSUME NEW e \in Executions, Handler(e) PROVE EndInv'
  <2>1. \A d \in Executions : d = e
    OBVIOUS
  <2>2. CASE Pause(e) \/ CancelAtNode(e) \/ Fail(e)
    BY <1>2, <1>4, <2>2, TurningSteps
  <2>3. CASE Block(e)
    BY <1>2, <1>4, <2>3, QuietSteps
  <2>4. CASE Review(e)
    BY <2>1, <2>4, ReviewEnds
  <2>5. QED BY <1>4, <2>2, <2>3, <2>4 DEF Handler
<1>5. ASSUME NEW e \in Executions, Run(e) \/ Resume(e) \/ Crash(e) PROVE EndInv'
  <2>1. CASE Run(e)
    <3>1. run'.status = "none"
      BY <2>1 DEF Run, rows
    <3>2. QED BY <3>1, OpenIsFine DEF Closed
  <2>2. CASE Resume(e)
    <3>1. run' = Turned(run, "running") /\ run \in RunRows
      BY <2>2, RowsOf, Zenon DEF Resume, Turned
    <3>2. run'.status = "running"
      BY <3>1, RunTurns DEF RunStatuses
    <3>3. QED BY <3>2, OpenIsFine DEF Closed
  <2>3. CASE Crash(e)
    <3>1. thread' = [thread EXCEPT ![e] = IdleThread] /\ UNCHANGED <<run, version>>
      BY <2>3, Zenon DEF Crash, rows
    <3>2. QED BY <3>1, IdlingEnds
  <2>4. QED BY <1>5, <2>1, <2>2, <2>3
<1>6. ASSUME NEW wish, Ask(wish) PROVE EndInv'
    BY <1>6, RestingSteps DEF Ask, rows
<1>7. CASE Abort \/ Recover
  <2>1. run' = Turned(run, "cancelled") \/ run' = Turned(run, "paused")
    BY <1>7, Zenon DEF Abort, Recover, Turned
  <2>2. run \in RunRows /\ {"cancelled", "paused"} \subseteq RunStatuses
    BY RowsOf DEF RunStatuses, Terminal
  <2>3. run'.status \in {"cancelled", "paused"}
    BY <2>1, <2>2, RunTurns
  <2>4. QED BY <2>3, OpenIsFine DEF Closed
<1>8. CASE OutsideBegin
    BY <1>8, RestingSteps DEF OutsideBegin
<1>9. CASE OutsideEnd
  <2>1. /\ UNCHANGED <<run, thread>> /\ outside # 0
        /\ version' = version \/ version' = [version EXCEPT ![outside].status = "evaluated"]
    BY <1>9, Zenon DEF OutsideEnd
  <2>2. outside \in Versions /\ "evaluated" \in VersionStatuses
    BY <2>1, InvParts DEF ControlTypes, Ids, VersionStatuses
  <2>3. version' = version \/ \A u \in Versions : /\ version'[u].facts = version[u].facts
                                                  /\ \/ version'[u] = version[u]
                                                     \/ version'[u].status = "evaluated"
    BY <2>1, <2>2, VersionIsRestated
  <2>4. QED BY <2>1, <2>3, RestingSteps
<1>10. QED BY <1>1, <1>3, <1>4, <1>5, <1>6, <1>7, <1>8, <1>9 DEF Next

\* When executions of a run do not overlap, what a closing transaction decided
\* stays decided: accept_version and mark_needs_review leave no candidate fact
\* and no undecided version of the run behind, and nothing of the run is
\* written after them.  (A worker that lost its lease and lives on beside the
\* execution that took over may still save a draft or facts.)
THEOREM ClosedRunsAreSettled ==
    ASSUME \A c, d \in Executions : c = d
    PROVE  Spec => []ClosedRunsLeaveNothingOpen
<1>1. Init => EndInv
  <2>1. ASSUME Init PROVE run.status = "none"
    BY <2>1 DEF Init
  <2>2. QED BY <2>1 DEF EndInv, ClosedRests, ClosedRunsLeaveNothingOpen, Closed
<1>2. WorkflowInv /\ EndInv /\ [Next]_vars => EndInv'
    BY WorkflowAssumption, StepKeepsEnd
<1>3. EndInv => ClosedRunsLeaveNothingOpen
    BY DEF EndInv
<1>4. QED BY <1>1, <1>2, <1>3, WorkflowInvHolds, PTL DEF Spec
-----------------------------------------------------------------------------
(***************************************************************************)
(* The text that is shown, with one execution and no outside evaluation.   *)
(***************************************************************************)

Opening == {"initialize_workflow", "load_context", "generate_draft"}
FirstDraft == {"extract_facts", "evaluate_draft", "decide_after_evaluation"}
Judging == {"extract_revision_facts", "evaluate_revision", "compare_versions"}

IsEvaluated(v) == keyed[v] # NoEvaluation
Unbeaten(v) == ~Better(latest[v], latest[run.best])

\* What a position says about the rows: before the draft there is no revision,
\* and behind its evaluation the draft has one.
Sits(p, status, current, draft, keys) ==
    /\ p.node = "initialize_workflow" => p = StartPosition
    /\ p.node \in Opening => current \in {0, 1}
    /\ p.node # "initialize_workflow" => status # "none"
    /\ p.node \notin Opening => draft # "none"
    /\ p.node \in FirstDraft => p.current = 1
    /\ p.node \notin Opening \cup {"extract_facts", "evaluate_draft"} =>
          keys[1] # NoEvaluation
    /\ p.node = "compare_versions" => keys[p.current] # NoEvaluation
Fits(p) == Sits(p, run.status, chapter.current, version[1].status, keyed)

\* A position q that an execution reaches from p.
Precedes(p, q) ==
    /\ q.node \notin Opening \cup FirstDraft => p.node \notin Opening
    /\ q.node = "evaluate_revision" =>
          p.node \in {"extract_revision_facts", "evaluate_revision"} /\ p.current = q.current

\* An execution works from the newest checkpoint, which follows the one before.
Connected ==
    /\ Precedes(checkpoint.before, checkpoint.now)
    /\ \A e \in Executions :
          /\ thread[e].pc \notin {"idle", "done"} => thread[e].at = checkpoint.now
          /\ thread[e].pc = "done" => Precedes(checkpoint.now, thread[e].at)

\* An execution that calls a provider has no artifact of its node yet.
CallPcs == {"call", "save", "blocking", "reviewing"}
Calls(e) ==
    /\ thread[e].pc \notin {"idle", "enter"} => thread[e].at.node # "initialize_workflow"
    /\ thread[e].pc \in CallPcs =>
          /\ thread[e].at.node \in ProviderNodes
          /\ thread[e].at.node \in EvaluationNodes => ~IsEvaluated(Current(e))
          /\ thread[e].at.node \in ExtractionNodes => version[Current(e)].facts = "none"

\* The draft is evaluated first, and the best version is the draft or an
\* evaluated one.
RowsFit ==
    /\ \A v \in Versions : IsEvaluated(v) =>
          /\ IsEvaluated(1) /\ version[v].facts # "none"
          /\ run.status # "none" /\ version[1].status # "none"
    /\ \A v \in Versions : comparison[v] # "none" => IsEvaluated(v)
    /\ IsEvaluated(1) => run.best \in Versions /\ IsEvaluated(run.best)
    /\ ~IsEvaluated(1) => run.best \in {0, 1}
    /\ version[1].status # "none" =>
          IF run.status = "none" THEN chapter.current = 1 ELSE run.best # 0
    /\ chapter.current # 0 => version[1].status # "none"

\* A version that beats the best one is about to be compared, wherever the run
\* is resumed.
Weighs(p, v) == p.node \in Judging /\ p.current = v
AwaitsComparison(v) ==
    /\ comparison[v] = "none"
    /\ Weighs(checkpoint.now, v) /\ Weighs(checkpoint.before, v)
    /\ \A e \in Executions : thread[e].pc # "idle" => Weighs(thread[e].at, v)
BestIsRanked ==
    \A v \in Versions : IsEvaluated(v) => Unbeaten(v) \/ AwaitsComparison(v)

OpenInv ==
    /\ RowsFit /\ Connected
    /\ Fits(checkpoint.now) /\ Fits(checkpoint.before)
    /\ \A e \in Executions : Calls(e) /\ (thread[e].pc # "idle" => Fits(thread[e].at))
    /\ BestIsRanked

ShowInv ==
    evaluations = 0 =>
        /\ outside = 0
        /\ run.status \notin Closed => OpenInv
        /\ NeedsReviewShowsBest

-----------------------------------------------------------------------------
(***************************************************************************)
(* Steps that leave the order of the texts alone.                          *)
(***************************************************************************)

\* The draft exists wherever the run is resumed.
Past ==
    /\ checkpoint.now.node \notin Opening /\ checkpoint.before.node \notin Opening
    /\ \A e \in Executions : thread[e].pc # "idle" => thread[e].at.node \notin Opening

Unmoved ==
    /\ UNCHANGED <<keyed, latest, comparison>>
    /\ run'.best = run.best /\ (run'.status = "none" <=> run.status = "none")
    /\ chapter'.current = chapter.current \/ Past
    /\ version'[1].status = "none" <=> version[1].status = "none"
    /\ \A v \in Versions : version[v].facts # "none" => version'[v].facts # "none"

\* A position of the next state.
Kept(q) ==
    /\ Sits(q, run'.status, chapter'.current, version'[1].status, keyed')
    /\ \A v \in Versions : AwaitsComparison(v) => Weighs(q, v)

LEMMA RowsKeepFitting ==
    ASSUME OpenInv, Unmoved
    PROVE  RowsFit'
<1>1. Past => run.status # "none" /\ version[1].status # "none"
    BY DEF OpenInv, Past, Fits, Sits, Opening
<1>2. RowsFit
    BY DEF OpenInv
<1>3. /\ keyed' = keyed /\ comparison' = comparison /\ run'.best = run.best
      /\ run'.status = "none" <=> run.status = "none"
      /\ chapter'.current = chapter.current \/ Past
      /\ version'[1].status = "none" <=> version[1].status = "none"
      /\ \A v \in Versions : version[v].facts # "none" => version'[v].facts # "none"
    BY DEF Unmoved
<1>4. QED BY <1>1, <1>2, <1>3 DEF RowsFit, IsEvaluated

LEMMA PlaceKeepsFitting ==
    ASSUME NEW p, NEW status, NEW current, NEW draft, NEW keys, NEW status2, NEW current2,
           NEW draft2, Sits(p, status, current, draft, keys),
           status2 = "none" <=> status = "none", draft2 = "none" <=> draft = "none",
           current2 = current \/ p.node \notin Opening
    PROVE  Sits(p, status2, current2, draft2, keys)
BY DEF Sits

LEMMA PlacesAreKept ==
    ASSUME OpenInv, Unmoved
    PROVE  /\ Kept(checkpoint.now) /\ Kept(checkpoint.before)
           /\ \A e \in Executions : thread[e].pc # "idle" => Kept(thread[e].at)
<1>1. /\ keyed' = keyed
      /\ run'.status = "none" <=> run.status = "none"
      /\ chapter'.current = chapter.current \/ Past
      /\ version'[1].status = "none" <=> version[1].status = "none"
    BY DEF Unmoved
<1>2. /\ Fits(checkpoint.now) /\ Fits(checkpoint.before)
      /\ \A e \in Executions : thread[e].pc # "idle" => Fits(thread[e].at)
    BY DEF OpenInv
<1>3. Kept(checkpoint.now)
  <2>1. Sits(checkpoint.now, run'.status, chapter'.current, version'[1].status, keyed')
    BY <1>1, <1>2, PlaceKeepsFitting DEF Fits, Past
  <2>2. QED BY <2>1 DEF Kept, AwaitsComparison
<1>4. Kept(checkpoint.before)
  <2>1. Sits(checkpoint.before, run'.status, chapter'.current, version'[1].status, keyed')
    BY <1>1, <1>2, PlaceKeepsFitting DEF Fits, Past
  <2>2. QED BY <2>1 DEF Kept, AwaitsComparison
<1>5. ASSUME NEW e \in Executions, thread[e].pc # "idle" PROVE Kept(thread[e].at)
  <2>1. Sits(thread[e].at, run'.status, chapter'.current, version'[1].status, keyed')
    BY <1>1, <1>2, <1>5, PlaceKeepsFitting DEF Fits, Past
  <2>2. QED BY <1>5, <2>1 DEF Kept, AwaitsComparison
<1>6. QED BY <1>3, <1>4, <1>5

LEMMA OpenKept ==
    ASSUME OpenInv, Unmoved, Connected', \A e \in Executions : Calls(e)',
           Kept(checkpoint'.now), Kept(checkpoint'.before),
           \A e \in Executions : thread'[e].pc # "idle" => Kept(thread'[e].at)
    PROVE  OpenInv'
<1>1. RowsFit'
    BY RowsKeepFitting
<1>2. /\ Fits(checkpoint.now)' /\ Fits(checkpoint.before)'
      /\ \A e \in Executions : thread'[e].pc # "idle" => Fits(thread[e].at)'
    BY DEF Kept, Fits
<1>3. BestIsRanked'
  <2> SUFFICES ASSUME NEW v \in Versions, IsEvaluated(v)'
               PROVE  Unbeaten(v)' \/ AwaitsComparison(v)'
    BY DEF BestIsRanked
  <2>1. keyed' = keyed /\ latest' = latest /\ comparison' = comparison /\ run'.best = run.best
    BY DEF Unmoved
  <2>2. Unbeaten(v) \/ AwaitsComparison(v)
    BY <2>1 DEF OpenInv, BestIsRanked, IsEvaluated
  <2>3. CASE Unbeaten(v)
    BY <2>1, <2>3 DEF Unbeaten
  <2>4. CASE AwaitsComparison(v)
    <3>1. comparison'[v] = "none"
      BY <2>1, <2>4 DEF AwaitsComparison
    <3>2. /\ Weighs(checkpoint'.now, v) /\ Weighs(checkpoint'.before, v)
          /\ \A e \in Executions : thread'[e].pc # "idle" => Weighs(thread'[e].at, v)
      BY <2>4 DEF Kept
    <3>3. AwaitsComparison(v)'
      BY <3>1, <3>2 DEF AwaitsComparison
    <3>4. QED BY <3>3
  <2>5. QED BY <2>2, <2>3, <2>4
<1>4. QED BY <1>1, <1>2, <1>3 DEF OpenInv
LEMMA PrecedesItself == \A p : Precedes(p, p)
BY DEF Precedes, Opening, FirstDraft

LEMMA PcTurned ==
    ASSUME WorkflowInv, WorkflowAssumption, NEW e \in Executions, NEW pc, SetPc(e, pc)
    PROVE  thread'[e].pc = pc /\ thread'[e].at = thread[e].at
<1>1. thread \in [Executions -> Threads] /\ thread[e] \in Threads
    BY InvParts
<1> DEFINE u == [thread[e] EXCEPT !.pc = pc]
<1>2. u.pc = pc /\ u.at = thread[e].at
    BY <1>1 DEF Threads
<1>3. thread' = [thread EXCEPT ![e] = u]
    BY <1>1, Zenon DEF SetPc
<1> HIDE DEF u
<1>4. QED BY <1>1, <1>2, <1>3

LEMMA ThreadIsSet ==
    ASSUME WorkflowInv, WorkflowAssumption, NEW e \in Executions, NEW u,
           thread' = [thread EXCEPT ![e] = u]
    PROVE  thread'[e] = u
BY InvParts

\* The execution goes on to another step of its node.
LEMMA PcKeepsOpen ==
    ASSUME WorkflowInv, WorkflowAssumption, OpenInv, Unmoved, UNCHANGED checkpoint,
           NEW e \in Executions, \A d \in Executions : d = e, NEW pc, SetPc(e, pc),
           thread[e].pc \notin {"idle", "done"}, pc \notin {"idle", "done"}, Calls(e)'
    PROVE  OpenInv'
<1>1. thread'[e].pc = pc /\ thread'[e].at = thread[e].at
    BY PcTurned
<1>2. /\ Kept(checkpoint.now) /\ Kept(checkpoint.before) /\ Kept(thread[e].at)
      /\ thread[e].at = checkpoint.now /\ Precedes(checkpoint.before, checkpoint.now)
    BY PlacesAreKept DEF OpenInv, Connected
<1>3. Connected'
    BY <1>1, <1>2 DEF Connected
<1>4. Kept(checkpoint'.now) /\ Kept(checkpoint'.before) /\ Kept(thread'[e].at)
    BY <1>1, <1>2
<1>5. \A d \in Executions : Calls(d)' /\ (thread'[d].pc # "idle" => Kept(thread'[d].at))
    BY <1>4
<1>6. QED BY <1>3, <1>4, <1>5, OpenKept

\* The execution ends or dies; a crash may lose the newest checkpoint.
LEMMA IdlingKeepsOpen ==
    ASSUME WorkflowInv, WorkflowAssumption, OpenInv, Unmoved,
           NEW e \in Executions, \A d \in Executions : d = e,
           thread' = [thread EXCEPT ![e] = IdleThread],
           \/ checkpoint' = checkpoint
           \/ checkpoint' = [now |-> checkpoint.before, before |-> checkpoint.before]
    PROVE  OpenInv'
<1>1. thread'[e].pc = "idle"
  <2>1. thread'[e] = IdleThread
    BY ThreadIsSet
  <2>2. QED BY <2>1 DEF IdleThread
<1>2. /\ Kept(checkpoint.now) /\ Kept(checkpoint.before)
      /\ Precedes(checkpoint.before, checkpoint.now)
    BY PlacesAreKept DEF OpenInv, Connected
<1>3. /\ checkpoint'.before = checkpoint.before
      /\ checkpoint'.now \in {checkpoint.now, checkpoint.before}
    OBVIOUS
<1>4. Precedes(checkpoint'.before, checkpoint'.now)
    BY <1>2, <1>3, PrecedesItself
<1>5. Connected' /\ Calls(e)'
    BY <1>1, <1>4 DEF Connected, Calls, CallPcs
<1>6. Kept(checkpoint'.now) /\ Kept(checkpoint'.before)
    BY <1>2, <1>3
<1>7. \A d \in Executions : Calls(d)' /\ (thread'[d].pc # "idle" => Kept(thread'[d].at))
    BY <1>1, <1>5
<1>8. QED BY <1>5, <1>6, <1>7, OpenKept

\* The execution has done its node.
LEMMA CompletionKeepsOpen ==
    ASSUME WorkflowInv, WorkflowAssumption, OpenInv, Unmoved, UNCHANGED checkpoint,
           NEW e \in Executions, \A d \in Executions : d = e, NEW p, Complete(e, p),
           thread[e].pc \notin {"idle", "done"},
           Kept(p), Precedes(thread[e].at, p), p.node # "initialize_workflow"
    PROVE  OpenInv'
<1>1. thread'[e].pc = "done" /\ thread'[e].at = p
    BY CompletedThread DEF At
<1>2. /\ Kept(checkpoint.now) /\ Kept(checkpoint.before)
      /\ thread[e].at = checkpoint.now /\ Precedes(checkpoint.before, checkpoint.now)
    BY PlacesAreKept DEF OpenInv, Connected
<1>3. Connected' /\ Calls(e)'
    BY <1>1, <1>2 DEF Connected, Calls, CallPcs
<1>4. Kept(checkpoint'.now) /\ Kept(checkpoint'.before)
    BY <1>2
<1>5. \A d \in Executions : Calls(d)' /\ (thread'[d].pc # "idle" => Kept(thread'[d].at))
    BY <1>1, <1>3
<1>6. QED BY <1>3, <1>4, <1>5, OpenKept

\* Nothing but requests, leases and statuses changes.
LEMMA RestKeepsOpen ==
    ASSUME OpenInv, Unmoved, UNCHANGED <<checkpoint, thread, version>>
    PROVE  OpenInv'
<1>1. /\ Kept(checkpoint'.now) /\ Kept(checkpoint'.before)
      /\ \A e \in Executions : thread'[e].pc # "idle" => Kept(thread'[e].at)
    BY PlacesAreKept
<1>2. Connected'
    BY DEF OpenInv, Connected
<1>3. \A e \in Executions : Calls(e)'
    BY DEF OpenInv, Unmoved, Calls, IsEvaluated, Current
<1>4. QED BY <1>1, <1>2, <1>3, OpenKept

LEMMA RowsUnmoved ==
    ASSUME UNCHANGED rows
    PROVE  Unmoved
BY DEF rows, Unmoved

LEMMA StatusUnmoved ==
    ASSUME WorkflowInv, WorkflowAssumption, NEW s \in RunStatuses, run' = Turned(run, s),
           s = "none" <=> run.status = "none",
           chapter' = Marked(chapter, Fallback) \/ chapter' = chapter,
           UNCHANGED <<version, keyed, latest, comparison>>
    PROVE  Unmoved
<1>1. run \in RunRows /\ chapter \in ChapterRows
    BY RowsOf
<1>2. run'.best = run.best /\ run'.status = s
    BY <1>1 DEF RunRows, Turned
<1>3. chapter'.current = chapter.current
    BY <1>1 DEF ChapterRows, Marked
<1>4. QED BY <1>2, <1>3 DEF Unmoved
LEMMA CallsMove ==
    ASSUME WorkflowInv, WorkflowAssumption, NEW e \in Executions, NEW pc, SetPc(e, pc), Calls(e),
           thread[e].at.node # "initialize_workflow", UNCHANGED <<keyed, version>>,
           pc \in CallPcs => thread[e].pc \in CallPcs
    PROVE  Calls(e)'
<1>1. thread'[e].pc = pc /\ thread'[e].at = thread[e].at
    BY PcTurned
<1>2. QED BY <1>1 DEF Calls, IsEvaluated, Current, CallPcs

LEMMA TurnKeepsOpen ==
    ASSUME WorkflowInv, WorkflowAssumption, OpenInv, Unmoved,
           UNCHANGED <<checkpoint, keyed, version>>,
           NEW e \in Executions, \A d \in Executions : d = e, NEW pc, SetPc(e, pc),
           thread[e].pc \notin {"idle", "done"}, pc \notin {"idle", "done"},
           thread[e].at.node # "initialize_workflow",
           pc \in CallPcs => thread[e].pc \in CallPcs
    PROVE  OpenInv'
<1>1. Calls(e)
    BY DEF OpenInv
<1>2. Calls(e)'
    BY <1>1, CallsMove
<1>3. UNCHANGED checkpoint
    OBVIOUS
<1>4. QED BY <1>2, <1>3, PcKeepsOpen

LEMMA InvalidKeepsOpen ==
    ASSUME WorkflowInv, WorkflowAssumption, OpenInv, Unmoved,
           UNCHANGED <<checkpoint, keyed, version>>,
           NEW e \in Executions, \A d \in Executions : d = e, Invalid(e),
           thread[e].pc \notin {"idle", "done"},
           thread[e].at.node # "initialize_workflow"
    PROVE  OpenInv'
<1>1. CASE thread' = [thread EXCEPT ![e] = IdleThread]
  <2>1. checkpoint' = checkpoint
    OBVIOUS
  <2>2. QED BY <1>1, <2>1, IdlingKeepsOpen
<1>2. CASE SetPc(e, "failing")
  <2> DEFINE pc == "failing"
  <2>1. SetPc(e, pc) /\ pc \notin {"idle", "done"} /\ pc \notin CallPcs
    BY <1>2 DEF CallPcs
  <2> HIDE DEF pc
  <2>2. QED BY <2>1, TurnKeepsOpen
<1>3. QED BY <1>1, <1>2, Zenon DEF Invalid, End

\* An execution that is behind _node_started is not in initialize_workflow.
LEMMA PastStart ==
    ASSUME OpenInv, NEW e \in Executions, thread[e].pc \notin {"idle", "enter"}
    PROVE  thread[e].at.node # "initialize_workflow" /\ run.status # "none"
<1>1. Calls(e) /\ Fits(thread[e].at)
    BY DEF OpenInv
<1>2. QED BY <1>1 DEF Calls, Fits, Sits

LEMMA EnterKeepsOpen ==
    ASSUME WorkflowInv, WorkflowAssumption, OpenInv, NEW e \in Executions,
           \A d \in Executions : d = e, Enter(e)
    PROVE  OpenInv'
<1>1. /\ thread[e].pc = "enter" /\ thread[e].at.node # "initialize_workflow"
      /\ UNCHANGED <<checkpoint, keyed, version, rows>>
    BY DEF Enter, At, rows
<1>2. Unmoved
    BY <1>1, RowsUnmoved
<1>3. CASE Invalid(e)
    BY <1>1, <1>2, <1>3, InvalidKeepsOpen
<1>4. ASSUME NEW pc \in {"pausing", "cancelling", "act"}, SetPc(e, pc) PROVE OpenInv'
  <2>1. pc \notin {"idle", "done"} /\ pc \notin CallPcs
    BY DEF CallPcs
  <2>2. QED BY <1>1, <1>2, <1>4, <2>1, TurnKeepsOpen
<1>5. QED BY <1>3, <1>4, Zenon DEF Enter

LEMMA CallingKeepsOpen ==
    ASSUME WorkflowInv, WorkflowAssumption, OpenInv, NEW e \in Executions,
           \A d \in Executions : d = e, Answer(e) \/ CallBlocked(e) \/ Block(e)
    PROVE  OpenInv'
<1>1. /\ thread[e].pc \in {"call", "blocking"}
      /\ UNCHANGED <<checkpoint, keyed, version, rows>>
    BY DEF Answer, CallBlocked, Block, At, rows
<1>2. thread[e].at.node # "initialize_workflow" /\ thread[e].pc \in CallPcs
    BY <1>1, PastStart DEF CallPcs
<1>3. Unmoved
    BY <1>1, RowsUnmoved
<1>4. PICK pc \in {"save", "blocking", "failing", "reviewing"} : SetPc(e, pc)
  <2>1. CASE Answer(e) \/ CallBlocked(e)
    BY <2>1, Zenon DEF Answer, CallBlocked
  <2>2. CASE Block(e)
    <3>1. SetPc(e, "failing") \/ SetPc(e, "reviewing")
      BY <2>2, Zenon DEF Block
    <3>2. QED BY <3>1
  <2>3. QED BY <2>1, <2>2
<1>5. QED BY <1>1, <1>2, <1>3, <1>4, TurnKeepsOpen
LEMMA NobodyAwaits ==
    ASSUME NEW e \in Executions, thread[e].pc # "idle", thread[e].at.node \notin Judging
    PROVE  \A v \in Versions : ~AwaitsComparison(v)
BY DEF AwaitsComparison, Weighs

LEMMA PastHolds ==
    ASSUME OpenInv, NEW e \in Executions, \A d \in Executions : d = e,
           thread[e].pc \notin {"idle", "done"},
           thread[e].at.node \notin Opening \cup FirstDraft
    PROVE  Past
<1>1. thread[e].at = checkpoint.now /\ Precedes(checkpoint.before, checkpoint.now)
    BY DEF OpenInv, Connected
<1>2. QED BY <1>1 DEF Precedes, Past

\* Behind the evaluation of the draft one node is as good as another.
LEMMA LaterPlace ==
    ASSUME NEW p, NEW q, NEW status, NEW current, NEW draft, NEW keys,
           Sits(p, status, current, draft, keys),
           p.node \notin Opening \cup {"extract_facts", "evaluate_draft"},
           q.node \notin Opening \cup FirstDraft \cup {"compare_versions", "evaluate_revision"}
    PROVE  Sits(q, status, current, draft, keys) /\ Precedes(p, q)
BY DEF Sits, Precedes, Opening, FirstDraft

LEMMA LaterStep ==
    ASSUME WorkflowInv, WorkflowAssumption, OpenInv, Unmoved, UNCHANGED checkpoint,
           NEW e \in Executions, \A d \in Executions : d = e, NEW p, Complete(e, p),
           thread[e].pc \notin {"idle", "done"},
           thread[e].at.node \notin Opening \cup {"extract_facts", "evaluate_draft"},
           p.node \notin Opening \cup FirstDraft \cup {"compare_versions", "evaluate_revision"},
           \A v \in Versions : ~AwaitsComparison(v)
    PROVE  OpenInv'
<1>1. Kept(thread[e].at)
    BY PlacesAreKept
<1>2. /\ Sits(p, run'.status, chapter'.current, version'[1].status, keyed')
      /\ Precedes(thread[e].at, p)
    BY <1>1, LaterPlace DEF Kept
<1>3. Kept(p) /\ p.node # "initialize_workflow" /\ checkpoint' = checkpoint
    BY <1>2 DEF Kept, Opening
<1>4. QED BY <1>2, <1>3, CompletionKeepsOpen

LEMMA BriefKeepsOpen ==
    ASSUME WorkflowInv, WorkflowAssumption, OpenInv, NEW e \in Executions,
           \A d \in Executions : d = e, Read(e)
    PROVE  OpenInv'
<1> DEFINE at == thread[e].at
<1>1. /\ at.node \in {"load_context", "build_revision_brief"} /\ thread[e].pc = "act"
      /\ UNCHANGED <<checkpoint, rows>>
    BY DEF Read, AtNode, rows
<1>2. Unmoved /\ checkpoint' = checkpoint
    BY <1>1, RowsUnmoved
<1>3. \A v \in Versions : ~AwaitsComparison(v)
    BY <1>1, NobodyAwaits DEF Judging
<1>4. /\ Onward(e) \in Positions /\ Onward(e).node = Edge(at.node)
      /\ Onward(e).current = at.current /\ at.best \in Ids
    BY OnwardPosition DEF Current
<1>5. CASE at.node = "load_context"
  <2> DEFINE p == Onward(e)
  <2>1. Complete(e, p)
    BY <1>5, Zenon DEF Read
  <2>2. p.node = "generate_draft" /\ p.current = at.current
    BY <1>4, <1>5, Edges
  <2>3. Sits(at, run'.status, chapter'.current, version'[1].status, keyed')
    BY <1>1, <1>2, PlacesAreKept DEF Kept
  <2> HIDE DEF p
  <2>4. /\ Kept(p) /\ Precedes(at, p) /\ p.node # "initialize_workflow"
        /\ thread[e].pc \notin {"idle", "done"}
    BY <1>1, <1>3, <1>5, <2>2, <2>3 DEF Kept, Sits, Precedes, Opening, FirstDraft
  <2>5. QED BY <1>2, <2>1, <2>4, CompletionKeepsOpen
<1>6. CASE at.node = "build_revision_brief"
  <2> DEFINE p == Aiming(Onward(e), at.best)
  <2>1. Complete(e, p)
    BY <1>6, Zenon DEF Read, Aiming
  <2>2. p.node = "revise_draft"
    BY <1>4, <1>6, Edges, PositionAims
  <2> HIDE DEF p
  <2>3. QED BY <1>1, <1>2, <1>3, <1>6, <2>1, <2>2, LaterStep DEF Opening, FirstDraft
<1>7. QED BY <1>1, <1>5, <1>6

LEMMA DecideKeepsOpen ==
    ASSUME WorkflowInv, WorkflowAssumption, OpenInv, NEW e \in Executions,
           \A d \in Executions : d = e, Decide(e)
    PROVE  OpenInv'
<1> DEFINE at == thread[e].at
<1>1. /\ at.node \in {"decide_after_evaluation", "decide_after_comparison"}
      /\ thread[e].pc = "act" /\ UNCHANGED <<checkpoint, rows>>
    BY DEF Decide, AtNode, rows
<1>2. Unmoved /\ checkpoint' = checkpoint
    BY <1>1, RowsUnmoved
<1>3. \A v \in Versions : ~AwaitsComparison(v)
    BY <1>1, NobodyAwaits DEF Judging
<1>4. PICK n \in {"build_revision_brief", "accept_version", "mark_needs_human_review",
                  "reject_revision"} : Complete(e, Redirected(at, n))
  <2>1. RouteAfterEvaluation(at) \in {"build_revision_brief", "accept_version",
                                      "mark_needs_human_review", "reject_revision"}
    BY DEF RouteAfterEvaluation
  <2>2. RouteAfterComparison(at) \in {"build_revision_brief", "accept_version",
                                      "mark_needs_human_review", "reject_revision"}
    BY DEF RouteAfterComparison
  <2>3. \/ Complete(e, Redirected(at, RouteAfterEvaluation(at)))
        \/ Complete(e, Redirected(at, RouteAfterComparison(at)))
    BY Zenon DEF Decide, Redirected
  <2>4. QED BY <2>1, <2>2, <2>3, Zenon
<1>5. at \in Positions /\ n \in Nodes
    BY InvParts DEF Nodes, PausableNodes
<1> DEFINE p == Redirected(at, n)
<1>6. p.node = n
    BY <1>5, PositionIsRedirected
<1>7. Complete(e, p)
    BY <1>4
<1> HIDE DEF p
<1>8. QED BY <1>1, <1>2, <1>3, <1>6, <1>7, LaterStep DEF Opening, FirstDraft
\* An execution starts from the newest checkpoint.
LEMMA StartKeepsOpen ==
    ASSUME WorkflowInv, WorkflowAssumption, OpenInv, Unmoved,
           NEW e \in Executions, \A d \in Executions : d = e, NEW u,
           thread' = [thread EXCEPT ![e] = u], u.pc = "enter", u.at = checkpoint.now,
           checkpoint'.now = checkpoint.now,
           checkpoint'.before \in {checkpoint.now, checkpoint.before}
    PROVE  OpenInv'
<1>1. thread'[e] = u
    BY ThreadIsSet
<1>2. /\ Kept(checkpoint.now) /\ Kept(checkpoint.before)
      /\ Precedes(checkpoint.before, checkpoint.now)
    BY PlacesAreKept DEF OpenInv, Connected
<1>3. Precedes(checkpoint'.before, checkpoint'.now)
    BY <1>2, PrecedesItself
<1>4. thread'[e].pc = "enter" /\ thread'[e].at = checkpoint'.now
    BY <1>1
<1>5. Connected' /\ Calls(e)'
    BY <1>3, <1>4 DEF Connected, Calls, CallPcs
<1>6. Kept(checkpoint'.now) /\ Kept(checkpoint'.before)
    BY <1>2
<1>7. \A d \in Executions : Calls(d)' /\ (thread'[d].pc # "idle" => Kept(thread'[d].at))
    BY <1>4, <1>5, <1>6
<1>8. QED BY <1>5, <1>6, <1>7, OpenKept

LEMMA RunKeepsOpen ==
    ASSUME WorkflowInv, WorkflowAssumption, OpenInv, NEW e \in Executions,
           \A d \in Executions : d = e, Run(e)
    PROVE  OpenInv'
<1> DEFINE u == [pc |-> "enter", at |-> StartPosition, first |-> TRUE]
<1>1. /\ run.status = "none" /\ thread' = [thread EXCEPT ![e] = u]
      /\ UNCHANGED <<checkpoint, rows>>
    BY Zenon DEF Run
<1>2. u.pc = "enter" /\ u.at = StartPosition
    OBVIOUS
<1> HIDE DEF u
<1>3. checkpoint.now = StartPosition
    BY <1>1 DEF OpenInv, Fits, Sits
<1>4. Unmoved /\ checkpoint' = checkpoint
    BY <1>1, RowsUnmoved
<1>5. QED BY <1>1, <1>2, <1>3, <1>4, StartKeepsOpen

LEMMA ResumeKeepsOpen ==
    ASSUME WorkflowInv, WorkflowAssumption, OpenInv, NEW e \in Executions,
           \A d \in Executions : d = e, Resume(e)
    PROVE  OpenInv'
<1> DEFINE u == [pc |-> "enter", at |-> checkpoint.now, first |-> FALSE]
           s == "running"
<1>1. /\ run.status = "paused" /\ thread' = [thread EXCEPT ![e] = u]
      /\ checkpoint' = [checkpoint EXCEPT !.before = checkpoint.now]
      /\ run' = Turned(run, s)
      /\ UNCHANGED <<chapter, version, keyed, latest, comparison>>
    BY Zenon DEF Resume, Turned
<1>2. u.pc = "enter" /\ u.at = checkpoint.now /\ s \in RunStatuses /\ s # "none"
    BY DEF RunStatuses
<1> HIDE DEF u, s
<1>3. Unmoved
    BY <1>1, <1>2, StatusUnmoved
<1>4. checkpoint'.now = checkpoint.now /\ checkpoint'.before = checkpoint.now
    BY <1>1, InvParts
<1>5. QED BY <1>1, <1>2, <1>3, <1>4, StartKeepsOpen

LEMMA AdvanceKeepsOpen ==
    ASSUME WorkflowInv, WorkflowAssumption, OpenInv, NEW e \in Executions,
           \A d \in Executions : d = e, Advance(e)
    PROVE  OpenInv'
<1> DEFINE at == thread[e].at
<1>1. /\ thread[e].pc = "done" /\ checkpoint' = [now |-> at, before |-> checkpoint.now]
      /\ UNCHANGED rows
      /\ thread' = [thread EXCEPT ![e] = IdleThread] \/ SetPc(e, "enter") \/ SetPc(e, "pausing")
    BY Zenon DEF Advance, End, At
<1>2. Unmoved /\ UNCHANGED <<keyed, version>>
    BY <1>1, RowsUnmoved DEF rows
<1>3. /\ Kept(at) /\ Kept(checkpoint.now) /\ Precedes(checkpoint.now, at)
    BY <1>1, <1>2, PlacesAreKept DEF OpenInv, Connected
<1>4. checkpoint'.now = at /\ checkpoint'.before = checkpoint.now
    BY <1>1
<1>5. at.node # "initialize_workflow"
    BY <1>1, PastStart
<1>6. \/ thread'[e].pc = "idle"
      \/ thread'[e].pc \in {"enter", "pausing"} /\ thread'[e].at = at
  <2>1. CASE thread' = [thread EXCEPT ![e] = IdleThread]
    <3>1. thread'[e] = IdleThread
      BY <2>1, ThreadIsSet
    <3>2. QED BY <3>1 DEF IdleThread
  <2>2. ASSUME NEW pc \in {"enter", "pausing"}, SetPc(e, pc)
        PROVE  thread'[e].pc = pc /\ thread'[e].at = at
    BY <2>2, PcTurned
  <2>3. QED BY <1>1, <2>1, <2>2
<1> HIDE DEF at
<1>7. Connected'
    BY <1>3, <1>4, <1>6 DEF Connected
<1>8. Calls(e)'
    BY <1>5, <1>6 DEF Calls, CallPcs
<1>9. /\ \A d \in Executions : Calls(d)' /\ (thread'[d].pc # "idle" => Kept(thread'[d].at))
      /\ Kept(checkpoint'.now) /\ Kept(checkpoint'.before)
    BY <1>3, <1>4, <1>6, <1>8
<1>10. QED BY <1>2, <1>7, <1>9, OpenKept

LEMMA EndingKeepsOpen ==
    ASSUME WorkflowInv, WorkflowAssumption, OpenInv, NEW e \in Executions,
           \A d \in Executions : d = e, Pause(e) \/ CancelAtNode(e) \/ Fail(e)
    PROVE  OpenInv'
<1>1. thread[e].pc \notin {"idle", "enter"}
    BY DEF Pause, CancelAtNode, Fail, At
<1>2. run.status # "none"
    BY <1>1, PastStart
<1>3. /\ thread' = [thread EXCEPT ![e] = IdleThread] /\ checkpoint' = checkpoint
      /\ UNCHANGED <<version, keyed, latest, comparison>>
      /\ chapter' = Marked(chapter, Fallback) \/ chapter' = chapter
    BY Zenon DEF Pause, CancelAtNode, Fail, End, Marked
<1>4. PICK s \in RunStatuses : run' = Turned(run, s) /\ s # "none"
  <2>1. run \in RunRows
    BY RowsOf
  <2>2. run.status \in RunStatuses /\ run = Turned(run, run.status)
    BY <2>1 DEF RunRows, Turned
  <2>3. {"paused", "cancelled", "failed"} \subseteq RunStatuses
    BY DEF RunStatuses, Terminal
  <2>4. \E s \in {"paused", "cancelled", "failed", run.status} : run' = Turned(run, s)
    <3> DEFINE t == IF run.status \in Terminal THEN run.status ELSE "paused"
    <3>1. run' = Turned(run, t) \/ run' = Turned(run, "cancelled")
          \/ run' = Turned(run, "failed") \/ run' = run
      BY Zenon DEF Pause, CancelAtNode, Fail, Turned
    <3>2. t \in {"paused", run.status}
      OBVIOUS
    <3> HIDE DEF t
    <3>3. QED BY <2>2, <3>1, <3>2
  <2>5. QED BY <1>2, <2>2, <2>3, <2>4
<1>5. Unmoved
    BY <1>2, <1>3, <1>4, StatusUnmoved
<1>6. QED BY <1>3, <1>5, IdlingKeepsOpen

LEMMA CrashKeepsOpen ==
    ASSUME WorkflowInv, WorkflowAssumption, OpenInv, NEW e \in Executions,
           \A d \in Executions : d = e, Crash(e)
    PROVE  OpenInv'
<1>1. /\ thread' = [thread EXCEPT ![e] = IdleThread] /\ UNCHANGED rows
      /\ \/ checkpoint' = checkpoint
         \/ checkpoint' = [now |-> checkpoint.before, before |-> checkpoint.before]
    BY Zenon DEF Crash
<1>2. Unmoved
    BY <1>1, RowsUnmoved
<1>3. QED BY <1>1, <1>2, IdlingKeepsOpen

LEMMA EnvironmentKeepsOpen ==
    ASSUME WorkflowInv, WorkflowAssumption, OpenInv,
           (\E wish \in Requests : Ask(wish)) \/ Abort \/ Recover
    PROVE  OpenInv'
<1>1. CASE \E wish \in Requests : Ask(wish)
  <2>1. UNCHANGED <<rows, checkpoint, thread, version>>
    BY <1>1 DEF Ask, rows
  <2>2. QED BY <2>1, RowsUnmoved, RestKeepsOpen
<1>2. CASE Abort \/ Recover
  <2>1. /\ run.status # "none" /\ UNCHANGED <<version, keyed, latest, comparison, checkpoint, thread>>
        /\ chapter' = Marked(chapter, Fallback) \/ chapter' = chapter
        /\ run' = Turned(run, "cancelled") \/ run' = Turned(run, "paused")
    BY <1>2, Zenon DEF Abort, Recover, Turned, Marked
  <2>2. {"cancelled", "paused"} \subseteq RunStatuses
    BY DEF RunStatuses, Terminal
  <2>3. Unmoved
    BY <2>1, <2>2, StatusUnmoved
  <2>4. QED BY <2>1, <2>3, RestKeepsOpen
<1>3. QED BY <1>1, <1>2
-----------------------------------------------------------------------------
(***************************************************************************)
(* The nodes that call a provider.                                         *)
(***************************************************************************)

LEMMA RowParts ==
    ASSUME NEW r \in RunRows, NEW s \in RunStatuses, NEW c \in Ids, NEW b \in Ids,
           NEW n \in Nat, NEW h \in ChapterRows, NEW t \in ChapterStatuses
    PROVE  /\ Aimed(r, c).best = r.best /\ Aimed(r, c).status = r.status
           /\ Noted(r, c, b).best = b /\ Noted(r, c, b).status = r.status
           /\ Revised(r, c, n).best = r.best /\ Revised(r, c, n).status = r.status
           /\ Marked(h, t).current = h.current
           /\ Written(h, c, t).current = c
<1>1. Aimed(r, c) \in RunRows /\ Aimed(r, c).best = r.best /\ Aimed(r, c).status = r.status
    BY DEF RunRows, Aimed
<1>2. Noted(r, c, b).best = b /\ Noted(r, c, b).status = r.status
  <2>1. Noted(r, c, b) = Ranked(Aimed(r, c), b)
    BY Zenon DEF Noted, Ranked, Aimed
  <2>2. QED BY <1>1, <2>1, RunRanks
<1>3. Revised(r, c, n).best = r.best /\ Revised(r, c, n).status = r.status
  <2> DEFINE q == Aimed(r, c)
  <2>1. Revised(r, c, n) = [q EXCEPT !.attempt = n]
    BY Zenon DEF Revised, Aimed
  <2>2. q \in RunRows
    BY <1>1
  <2> HIDE DEF q
  <2>3. Revised(r, c, n).best = q.best /\ Revised(r, c, n).status = q.status
    BY <2>1, <2>2 DEF RunRows
  <2>4. QED BY <1>1, <2>3 DEF q
<1>4. Marked(h, t).current = h.current
    BY DEF ChapterRows, Marked
<1>5. Written(h, c, t).current = c
  <2> DEFINE g == [h EXCEPT !.current = c]
  <2>1. g \in ChapterRows /\ g.current = c
    BY DEF ChapterRows
  <2>2. Written(h, c, t) = Marked(g, t)
    BY Zenon DEF Written, Marked
  <2> HIDE DEF g
  <2>3. Marked(g, t).current = g.current
    BY <2>1 DEF ChapterRows, Marked
  <2>4. QED BY <2>1, <2>2, <2>3
<1>6. QED BY <1>1, <1>2, <1>3, <1>4, <1>5

\* An evaluation leaves the best version of a run that has one.
LEMMA EvaluatedBest ==
    ASSUME WorkflowInv, WorkflowAssumption, NEW e \in Executions, RunEvaluated(e),
           run.best # 0 \/ thread[e].at.node \notin EvaluationNodes
    PROVE  run'.best = run.best /\ run'.status = run.status
<1>1. CASE thread[e].at.node \in EvaluationNodes
  <2>1. run' = Noted(run, Current(e), IF run.best = 0 THEN Current(e) ELSE run.best)
    BY <1>1, Zenon DEF RunEvaluated, Noted
  <2>2. run' = Noted(run, Current(e), run.best)
    BY <1>1, <2>1
  <2>3. Current(e) \in Ids /\ run.best \in Ids /\ run \in RunRows
    BY RowsOf, OnwardPosition
  <2>4. Noted(run, Current(e), run.best).best = run.best
        /\ Noted(run, Current(e), run.best).status = run.status
    <3>1. Noted(run, Current(e), run.best) = Ranked(Aimed(run, Current(e)), run.best)
      BY Zenon DEF Noted, Ranked, Aimed
    <3>2. Aimed(run, Current(e)) \in RunRows /\ Aimed(run, Current(e)).status = run.status
      BY <2>3, RunAims
    <3>3. QED BY <2>3, <3>1, <3>2, RunRanks
  <2>5. QED BY <2>2, <2>4
<1>2. CASE thread[e].at.node \notin EvaluationNodes
    BY <1>2, Zenon DEF RunEvaluated
<1>3. QED BY <1>1, <1>2

\* At an evaluation the run has a best version.
LEMMA BestExists ==
    ASSUME OpenInv, NEW e \in Executions, thread[e].pc # "idle",
           thread[e].at.node \notin Opening
    PROVE  run.best # 0 /\ version[1].status # "none" /\ run.status # "none"
<1>1. Fits(thread[e].at) /\ RowsFit
    BY DEF OpenInv
<1>2. QED BY <1>1 DEF Fits, Sits, RowsFit, Opening

LEMMA ExtractionStep ==
    ASSUME WorkflowInv, WorkflowAssumption, OpenInv, Unmoved, UNCHANGED checkpoint,
           NEW e \in Executions, \A d \in Executions : d = e, Complete(e, Onward(e)),
           thread[e].pc \notin {"idle", "done"}, thread[e].at.node \in ExtractionNodes
    PROVE  OpenInv'
<1> DEFINE at == thread[e].at
           p == Onward(e)
<1>1. /\ p.current = at.current /\ p.node = Edge(at.node)
    BY OnwardPosition DEF Current
<1>2. \/ at.node = "extract_facts" /\ p.node = "evaluate_draft"
      \/ at.node = "extract_revision_facts" /\ p.node = "evaluate_revision"
    BY <1>1, Edges DEF ExtractionNodes
<1>3. Kept(at)
    BY PlacesAreKept
<1>4. Complete(e, p)
    OBVIOUS
<1> HIDE DEF p
<1>5. Sits(p, run'.status, chapter'.current, version'[1].status, keyed')
    BY <1>1, <1>2, <1>3 DEF Kept, Sits, Opening, FirstDraft
<1>6. \A v \in Versions : AwaitsComparison(v) => Weighs(p, v)
    BY <1>1, <1>2, <1>3 DEF Kept, Weighs, Judging
<1>7. Kept(p) /\ Precedes(at, p) /\ p.node # "initialize_workflow"
    BY <1>1, <1>2, <1>5, <1>6 DEF Kept, Precedes, Opening, FirstDraft
<1>8. checkpoint' = checkpoint
    OBVIOUS
<1>9. QED BY <1>4, <1>7, <1>8, CompletionKeepsOpen

LEMMA EvaluationStep ==
    ASSUME WorkflowInv, WorkflowAssumption, OpenInv, Unmoved, UNCHANGED checkpoint,
           NEW e \in Executions, \A d \in Executions : d = e, Complete(e, Onward(e)),
           thread[e].pc \notin {"idle", "done"}, thread[e].at.node \in EvaluationNodes,
           IsEvaluated(Current(e))
    PROVE  OpenInv'
<1> DEFINE at == thread[e].at
           p == Onward(e)
<1>1. /\ p.current = at.current /\ p.node = Edge(at.node)
    BY OnwardPosition DEF Current
<1>2. \/ at.node = "evaluate_draft" /\ p.node = "decide_after_evaluation"
      \/ at.node = "evaluate_revision" /\ p.node = "compare_versions"
    BY <1>1, Edges DEF EvaluationNodes
<1>3. Kept(at) /\ keyed'[at.current] # NoEvaluation
    BY PlacesAreKept DEF Unmoved, IsEvaluated, Current
<1>4. Complete(e, p)
    OBVIOUS
<1> HIDE DEF p
<1>5. Sits(p, run'.status, chapter'.current, version'[1].status, keyed')
    BY <1>1, <1>2, <1>3 DEF Kept, Sits, Opening, FirstDraft
<1>6. \A v \in Versions : AwaitsComparison(v) => Weighs(p, v)
    BY <1>1, <1>2, <1>3 DEF Kept, Weighs, Judging
<1>7. Kept(p) /\ Precedes(at, p) /\ p.node # "initialize_workflow"
    BY <1>1, <1>2, <1>5, <1>6 DEF Kept, Precedes, Opening, FirstDraft
<1>8. checkpoint' = checkpoint
    OBVIOUS
<1>9. QED BY <1>4, <1>7, <1>8, CompletionKeepsOpen

\* The draft is there.
LEMMA DraftStep ==
    ASSUME WorkflowInv, WorkflowAssumption, OpenInv, Unmoved, UNCHANGED checkpoint,
           NEW e \in Executions, \A d \in Executions : d = e, Complete(e, After(e)),
           thread[e].pc \notin {"idle", "done"}, thread[e].at.node = "generate_draft",
           version[1].status # "none"
    PROVE  OpenInv'
<1> DEFINE at == thread[e].at
           p == After(e)
<1>1. Kept(at) /\ Fits(at)
    BY PlacesAreKept DEF OpenInv
<1>2. p.node = "extract_facts" /\ p.current = 1
    BY <1>1, DraftIsPlaced DEF Fits, Sits, Opening
<1>3. Complete(e, p) /\ version'[1].status # "none"
    BY DEF Unmoved
<1>4. \A v \in Versions : ~AwaitsComparison(v)
    BY NobodyAwaits DEF Judging
<1> HIDE DEF p
<1>5. Sits(p, run'.status, chapter'.current, version'[1].status, keyed')
    BY <1>1, <1>2, <1>3 DEF Kept, Sits, Opening, FirstDraft
<1>6. Kept(p) /\ Precedes(at, p) /\ p.node # "initialize_workflow"
    BY <1>2, <1>4, <1>5 DEF Kept, Precedes, Opening, FirstDraft
<1>7. checkpoint' = checkpoint
    OBVIOUS
<1>8. QED BY <1>3, <1>6, <1>7, CompletionKeepsOpen

\* The revision is there.
LEMMA RevisionStep ==
    ASSUME WorkflowInv, WorkflowAssumption, OpenInv, Unmoved, UNCHANGED checkpoint,
           NEW e \in Executions, \A d \in Executions : d = e, Complete(e, After(e)),
           thread[e].pc \notin {"idle", "done"}, thread[e].at.node = "revise_draft"
    PROVE  OpenInv'
<1> DEFINE p == After(e)
<1>1. p.node = "extract_revision_facts" /\ Complete(e, p)
    BY RevisionIsPlaced
<1>2. \A v \in Versions : ~AwaitsComparison(v)
    BY NobodyAwaits DEF Judging
<1> HIDE DEF p
<1>3. QED BY <1>1, <1>2, LaterStep DEF Opening, FirstDraft

LEMMA ReuseKeepsOpen ==
    ASSUME WorkflowInv, WorkflowAssumption, OpenInv, NEW e \in Executions,
           \A d \in Executions : d = e, Reuse(e)
    PROVE  OpenInv'
<1> DEFINE at == thread[e].at
<1>1. /\ at.node \in ProviderNodes /\ thread[e].pc = "act" /\ Exists(e) /\ RunEvaluated(e)
      /\ Complete(e, After(e))
      /\ UNCHANGED <<chapter, version, keyed, latest, comparison, checkpoint>>
    BY Zenon DEF Reuse, AtNode
<1>2. run'.best = run.best /\ run'.status = run.status
    BY <1>1, BestExists, EvaluatedBest DEF EvaluationNodes, Opening
<1>3. Unmoved
    BY <1>1, <1>2 DEF Unmoved
<1>4. thread[e].pc \notin {"idle", "done"}
    BY <1>1
<1>5. CASE at.node = "generate_draft"
  <2>1. chapter.current # 0 \/ version[1].status # "none"
    BY <1>1, <1>5 DEF Exists, ExtractionNodes, EvaluationNodes
  <2>2. version[1].status # "none"
    BY <2>1 DEF OpenInv, RowsFit
  <2>3. QED BY <1>1, <1>3, <1>4, <1>5, <2>2, DraftStep
<1>6. CASE at.node = "revise_draft"
    BY <1>1, <1>3, <1>4, <1>6, RevisionStep
<1>7. CASE at.node \in ExtractionNodes
  <2>1. After(e) = Onward(e)
    BY <1>7 DEF After, ExtractionNodes
  <2>2. QED BY <1>1, <1>3, <1>4, <1>7, <2>1, ExtractionStep
<1>8. CASE at.node \in EvaluationNodes
  <2>1. After(e) = Onward(e) /\ IsEvaluated(Current(e))
    BY <1>1, <1>8 DEF After, Exists, EvaluationNodes, ExtractionNodes, IsEvaluated
  <2>2. QED BY <1>1, <1>3, <1>4, <1>8, <2>1, EvaluationStep
<1>9. QED BY <1>1, <1>5, <1>6, <1>7, <1>8 DEF ProviderNodes, ExtractionNodes, EvaluationNodes
LEMMA SaveFactsKeepsOpen ==
    ASSUME WorkflowInv, WorkflowAssumption, OpenInv, NEW e \in Executions,
           \A d \in Executions : d = e, SaveFacts(e)
    PROVE  OpenInv'
<1> DEFINE v == Current(e)
           facts == IF version[v].facts = "none" THEN "candidate" ELSE version[v].facts
           row == [version[v] EXCEPT !.facts = facts]
<1>1. /\ thread[e].at.node \in ExtractionNodes /\ thread[e].pc = "save"
      /\ version' = [version EXCEPT ![v].facts = IF @ = "none" THEN "candidate" ELSE @]
      /\ Complete(e, Onward(e))
      /\ UNCHANGED <<run, chapter, keyed, latest, comparison, checkpoint>>
    BY Zenon DEF SaveFacts, AtNode
<1>2. v \in Versions
    BY <1>1, PlaceOfThread
<1>3. version \in [Versions -> VersionRows] /\ version[v] \in VersionRows /\ 1 \in Versions
    BY <1>2, RowsOf, PlaceOfThread DEF Versions
<1>4. version' = [version EXCEPT ![v] = row]
    BY <1>1, <1>2, <1>3
<1>5. FactsStay
    BY SaveFactsIsOrdinary DEF Ordinary
<1> HIDE DEF facts
<1>6. row.status = version[v].status
    BY <1>3 DEF VersionRows
<1> HIDE DEF row, v
<1>7. version'[1].status = version[1].status
    BY <1>2, <1>3, <1>4, <1>6
<1>8. Unmoved
    BY <1>1, <1>5, <1>7 DEF Unmoved, FactsStay
<1>9. thread[e].pc \notin {"idle", "done"} /\ checkpoint' = checkpoint
    BY <1>1
<1>10. QED BY <1>1, <1>8, <1>9, ExtractionStep

LEMMA ClaimKeepsOpen ==
    ASSUME WorkflowInv, WorkflowAssumption, OpenInv, NEW e \in Executions,
           \A d \in Executions : d = e, Claim(e)
    PROVE  OpenInv'
<1> DEFINE at == thread[e].at
<1>1. /\ at.node \in ProviderNodes /\ thread[e].pc = "act" /\ ~Exists(e)
      /\ UNCHANGED <<run, version, keyed, latest, comparison, checkpoint>>
      /\ chapter' = Marked(chapter, "evaluating") \/ chapter' = chapter
      /\ Invalid(e) \/ SetPc(e, "failing") \/ SetPc(e, "call")
    BY Zenon DEF Claim, AtNode, Marked
<1>2. chapter'.current = chapter.current
  <2>1. chapter \in ChapterRows
    BY RowsOf
  <2>2. Marked(chapter, "evaluating").current = chapter.current
    BY <2>1 DEF ChapterRows, Marked
  <2>3. QED BY <1>1, <2>2
<1>3. Unmoved
    BY <1>1, <1>2 DEF Unmoved
<1>4. /\ at.node # "initialize_workflow" /\ thread[e].pc \notin {"idle", "done"}
      /\ UNCHANGED <<checkpoint, keyed, version>>
    BY <1>1 DEF ProviderNodes
<1>5. CASE Invalid(e)
    BY <1>3, <1>4, <1>5, InvalidKeepsOpen
<1>6. CASE SetPc(e, "failing")
  <2> DEFINE pc == "failing"
  <2>1. SetPc(e, pc) /\ pc \notin CallPcs /\ pc \notin {"idle", "done"}
    BY <1>6 DEF CallPcs
  <2> HIDE DEF pc
  <2>2. QED BY <1>3, <1>4, <2>1, TurnKeepsOpen
<1>7. CASE SetPc(e, "call")
  <2> DEFINE pc == "call"
  <2>1. SetPc(e, pc) /\ pc \notin {"idle", "done"}
    BY <1>7
  <2> HIDE DEF pc
  <2>2. thread'[e].at = at
    BY <2>1, PcTurned
  <2>3. /\ at.node \in EvaluationNodes => ~IsEvaluated(at.current)
        /\ at.node \in ExtractionNodes => version[at.current].facts = "none"
    BY <1>1 DEF Exists, EvaluationNodes, ExtractionNodes, IsEvaluated, Current
  <2> HIDE DEF at
  <2>4. Calls(e)'
    BY <1>1, <1>4, <2>2, <2>3 DEF Calls, Current, IsEvaluated
  <2>5. QED BY <1>3, <1>4, <2>1, <2>4, PcKeepsOpen DEF at
<1>8. QED BY <1>1, <1>5, <1>6, <1>7

LEMMA SaveRevisionKeepsOpen ==
    ASSUME WorkflowInv, WorkflowAssumption, OpenInv, NEW e \in Executions,
           \A d \in Executions : d = e, SaveRevision(e)
    PROVE  OpenInv'
<1> DEFINE v == Target(e)
           n == thread[e].at.attempt + 1
<1>1. /\ thread[e].at.node = "revise_draft" /\ thread[e].pc = "save" /\ Complete(e, After(e))
      /\ \/ /\ version' = [version EXCEPT ![v].status = "revision"]
            /\ run' = Revised(run, v, n)
         \/ UNCHANGED <<version, run>>
      /\ UNCHANGED <<keyed, latest, comparison, checkpoint>>
    BY Zenon DEF SaveRevision, AtNode, Revised
<1>2. v \in Versions /\ v \in Ids /\ v # 1 /\ n \in Nat /\ 1 \in Versions
  <2>1. v = thread[e].at.attempt + 2 /\ thread[e].at.attempt \in Nat
    BY <1>1, OnwardPosition DEF Target
  <2>2. QED BY <1>1, <2>1, RevisionIsPlaced, PlaceOfThread DEF Ids, Versions
<1>3. Past
    BY <1>1, PastHolds DEF Opening, FirstDraft
<1> HIDE DEF v, n
<1>4. run'.best = run.best /\ run'.status = run.status
  <2>1. run \in RunRows
    BY RowsOf
  <2>2. Revised(run, v, n).best = run.best /\ Revised(run, v, n).status = run.status
    <3>1. Renewed(run, Revised(run, v, n), n)
      BY <1>2, <2>1, RunRevises, Zenon
    <3>2. Revised(run, v, n).best = run.best
      <4> DEFINE q == Aimed(run, v)
      <4>1. Revised(run, v, n) = [q EXCEPT !.attempt = n]
        BY Zenon DEF Revised, Aimed
      <4>2. q \in RunRows /\ q.best = run.best
        BY <1>2, <2>1 DEF RunRows, Aimed
      <4> HIDE DEF q
      <4>3. QED BY <4>1, <4>2 DEF RunRows
    <3>3. QED BY <3>1, <3>2 DEF Renewed
  <2>3. QED BY <1>1, <2>2
<1>5. /\ version'[1].status = version[1].status
      /\ \A u \in Versions : version'[u].facts = version[u].facts
  <2>1. CASE version' = version
    BY <2>1
  <2>2. CASE version' = [version EXCEPT ![v].status = "revision"]
    <3>1. "revision" \in VersionStatuses
      BY DEF VersionStatuses
    <3>2. QED BY <1>2, <2>2, <3>1, VersionIsRestated
  <2>3. QED BY <1>1, <2>1, <2>2
<1>6. Unmoved
    BY <1>1, <1>3, <1>4, <1>5 DEF Unmoved
<1>7. thread[e].pc \notin {"idle", "done"} /\ checkpoint' = checkpoint
    BY <1>1
<1>8. QED BY <1>1, <1>6, <1>7, RevisionStep

LEMMA RejectKeepsOpen ==
    ASSUME WorkflowInv, WorkflowAssumption, OpenInv, NEW e \in Executions,
           \A d \in Executions : d = e, Reject(e)
    PROVE  OpenInv'
<1> DEFINE at == thread[e].at
           v == Current(e)
           facts == IF version[v].facts = "candidate" THEN "rejected" ELSE version[v].facts
           row == [status |-> "rejected", facts |-> facts]
           next == IF v = at.best THEN v ELSE run.best
           p == Aiming(Onward(e), next)
<1>1. /\ at.node = "reject_revision" /\ thread[e].pc = "act" /\ Complete(e, p)
      /\ \/ UNCHANGED <<run, version>>
         \/ /\ version' = [version EXCEPT
                  ![v] = [status |-> "rejected",
                          facts |-> IF @.facts = "candidate" THEN "rejected" ELSE @.facts]]
            /\ run' = Aimed(run, run.best)
      /\ UNCHANGED <<keyed, latest, comparison, checkpoint>>
    BY Zenon DEF Reject, AtNode, Aimed, Aiming
<1>2. v \in Versions /\ 1 \in Versions
    BY <1>1, PlaceOfThread DEF Extracted, Versions
<1>3. version \in [Versions -> VersionRows] /\ run.best \in Ids /\ run \in RunRows
    BY RowsOf
<1>4. p.node = "build_revision_brief"
  <2>1. Onward(e) \in Positions /\ Onward(e).node = "build_revision_brief"
    BY <1>1, OnwardPosition, Edges
  <2>2. next \in Ids
    BY <1>2, <1>3 DEF Ids
  <2> HIDE DEF next
  <2>3. QED BY <2>1, <2>2, PositionAims
<1>5. FactsStay
    BY RejectIsOrdinary DEF Ordinary
<1>6. Past /\ version[1].status # "none"
    BY <1>1, PastHolds, BestExists DEF Opening, FirstDraft
<1>7. run'.best = run.best /\ run'.status = run.status
  <2>1. Aimed(run, run.best).best = run.best /\ Aimed(run, run.best).status = run.status
    BY <1>3 DEF RunRows, Aimed
  <2>2. QED BY <1>1, <2>1
<1>8. version'[1].status # "none"
  <2>1. CASE version' = version
    BY <1>6, <2>1
  <2>2. CASE version' = [version EXCEPT
                  ![v] = [status |-> "rejected",
                          facts |-> IF @.facts = "candidate" THEN "rejected" ELSE @.facts]]
    <3>1. version' = [version EXCEPT ![v] = row]
      BY <1>2, <1>3, <2>2
    <3>2. row.status = "rejected"
      OBVIOUS
    <3> HIDE DEF row, v
    <3>3. QED BY <1>2, <1>3, <1>6, <3>1, <3>2
  <2>3. QED BY <1>1, <2>1, <2>2
<1> HIDE DEF p
<1>9. Unmoved
    BY <1>1, <1>5, <1>6, <1>7, <1>8 DEF Unmoved, FactsStay
<1>10. \A u \in Versions : ~AwaitsComparison(u)
    BY <1>1, NobodyAwaits DEF Judging
<1>11. checkpoint' = checkpoint
    BY <1>1
<1>12. QED BY <1>1, <1>4, <1>9, <1>10, <1>11, LaterStep DEF Opening, FirstDraft
-----------------------------------------------------------------------------
(***************************************************************************)
(* The rows that decide which text is the best.                            *)
(***************************************************************************)

LEMMA BetterIsAnOrder ==
    ASSUME NEW x \in Evaluations, NEW y \in Evaluations, NEW z \in Evaluations
    PROVE  /\ ~Better(x, x)
           /\ Better(x, y) /\ Better(y, z) => Better(x, z)
<1>1. /\ x.critical \in Int /\ x.reasons \in Int /\ x.score \in Int
      /\ y.critical \in Int /\ y.reasons \in Int /\ y.score \in Int
      /\ z.critical \in Int /\ z.reasons \in Int /\ z.score \in Int
    BY DEF Evaluations
<1>2. QED BY <1>1 DEF Better

\* The next state, when the execution has done its node and goes to p.
LEMMA OpenAfterNode ==
    ASSUME WorkflowInv, WorkflowAssumption, OpenInv, checkpoint' = checkpoint,
           NEW e \in Executions, \A d \in Executions : d = e, NEW p, Complete(e, p),
           thread[e].pc \notin {"idle", "done"}, Precedes(thread[e].at, p),
           p.node # "initialize_workflow", RowsFit',
           Fits(checkpoint.now)', Fits(checkpoint.before)',
           Sits(p, run'.status, chapter'.current, version'[1].status, keyed'),
           BestIsRanked'
    PROVE  OpenInv'
<1>1. thread'[e].pc = "done" /\ thread'[e].at = p
    BY CompletedThread DEF At
<1>2. thread[e].at = checkpoint.now /\ Precedes(checkpoint.before, checkpoint.now)
    BY DEF OpenInv, Connected
<1>3. Connected' /\ Calls(e)'
    BY <1>1, <1>2 DEF Connected, Calls, CallPcs
<1>4. \A d \in Executions : Calls(d)' /\ (thread'[d].pc # "idle" => Fits(thread[d].at)')
    BY <1>1, <1>3 DEF Fits
<1>5. QED BY <1>3, <1>4 DEF OpenInv

LEMMA InitializeKeepsOpen ==
    ASSUME WorkflowInv, WorkflowAssumption, OpenInv, NEW e \in Executions,
           \A d \in Executions : d = e, Initialize(e)
    PROVE  OpenInv'
<1> DEFINE at == thread[e].at
           c == chapter.current
           a == chapter.accepted
           s == "running"
           p == [node |-> "load_context", current |-> run'.current, best |-> run'.best,
                 attempt |-> run'.attempt]
<1>1. /\ at.node = "initialize_workflow" /\ thread[e].pc = "enter" /\ Complete(e, p)
      /\ UNCHANGED <<version, keyed, latest, comparison, checkpoint>>
      /\ \/ /\ run.status = "none" /\ run' = Concluded(run, s, c, c, a)
            /\ chapter' = Marked(chapter, "workflow_running")
         \/ run.status # "none" /\ UNCHANGED <<run, chapter>>
    BY Zenon DEF Initialize, AtNode, Concluded, Marked
<1>2. p.node = "load_context"
    OBVIOUS
<1> HIDE DEF p
<1>3. Precedes(at, p) /\ p.node # "initialize_workflow" /\ checkpoint' = checkpoint
      /\ thread[e].pc \notin {"idle", "done"}
    BY <1>1, <1>2 DEF Precedes, Opening, FirstDraft
<1>4. Fits(at) /\ chapter.current \in {0, 1}
    BY <1>1 DEF OpenInv, Fits, Sits, Opening
<1>5. CASE run.status # "none" /\ UNCHANGED <<run, chapter>>
  <2>1. Unmoved
    BY <1>1, <1>5 DEF Unmoved
  <2>2. \A v \in Versions : ~AwaitsComparison(v)
    BY <1>1, NobodyAwaits DEF Judging
  <2>3. Kept(p)
    BY <1>2, <1>4, <1>5, <2>2 DEF Kept, Sits, Opening, FirstDraft
  <2>4. QED BY <1>1, <1>3, <2>1, <2>3, CompletionKeepsOpen
<1>6. CASE /\ run.status = "none" /\ run' = Concluded(run, s, c, c, a)
           /\ chapter' = Marked(chapter, "workflow_running")
  <2>1. run \in RunRows /\ chapter \in ChapterRows /\ c \in Ids /\ a \in Ids
    BY RowsOf
  <2>2. s \in RunStatuses /\ s # "none"
    BY DEF RunStatuses
  <2> HIDE DEF s
  <2>3. chapter'.current = c
    BY <1>6, <2>1 DEF ChapterRows, Marked
  <2> HIDE DEF c, a
  <2>4. run'.status = s /\ run'.best = c
    <3>1. Concluded(run, s, c, c, a).status = s
      BY <2>1, <2>2, RunConcludes
    <3>2. Concluded(run, s, c, c, a).best = c
      <4> DEFINE q == Settled(run, s, c, c)
                 m == Shown(run, s, c)
      <4>1. Concluded(run, s, c, c, a) = [q EXCEPT !.accepted = a] /\ q = Ranked(m, c)
        BY Zenon DEF Settled, Shown, Ranked, Concluded
      <4>2. m \in RunRows
        BY <2>1, <2>2, RunShows
      <4> HIDE DEF q, m
      <4>3. q \in RunRows /\ q.best = c
        BY <2>1, <4>1, <4>2, RunRanks
      <4>4. QED BY <4>1, <4>3 DEF RunRows
    <3>3. QED BY <1>6, <3>1, <3>2
  <2>5. \A v \in Versions : ~IsEvaluated(v) /\ ~IsEvaluated(v)' /\ comparison'[v] = "none"
    BY <1>1, <1>6 DEF OpenInv, RowsFit, IsEvaluated
  <2>6. 1 \in Versions
    BY PlaceOfThread DEF Versions
  <2>7. /\ version[1].status # "none" => c = 1
        /\ c # 0 => version[1].status # "none"
    BY <1>6 DEF OpenInv, RowsFit, c
  <2>8. c \in {0, 1}
    BY <1>4 DEF c
  <2>9. RowsFit'
    BY <1>1, <2>2, <2>3, <2>4, <2>5, <2>6, <2>7, <2>8 DEF RowsFit
  <2>10. ASSUME NEW q, Fits(q)
         PROVE  Sits(q, run'.status, chapter'.current, version'[1].status, keyed')
    BY <1>1, <2>2, <2>3, <2>4, <2>10 DEF Fits, Sits, c
  <2>11. Fits(checkpoint.now)' /\ Fits(checkpoint.before)'
    <3>1. Fits(checkpoint.now) /\ Fits(checkpoint.before)
      BY DEF OpenInv
    <3>2. QED BY <1>1, <2>10, <3>1 DEF Fits
  <2>12. BestIsRanked'
    BY <2>5 DEF BestIsRanked
  <2>13. Sits(p, run'.status, chapter'.current, version'[1].status, keyed')
    BY <1>2, <2>2, <2>3, <2>4, <2>8 DEF Sits, Opening, FirstDraft
  <2>14. QED BY <1>1, <1>3, <2>9, <2>11, <2>12, <2>13, OpenAfterNode
<1>7. QED BY <1>1, <1>5, <1>6

LEMMA SaveDraftKeepsOpen ==
    ASSUME WorkflowInv, WorkflowAssumption, OpenInv, NEW e \in Executions,
           \A d \in Executions : d = e, SaveDraft(e)
    PROVE  OpenInv'
<1> DEFINE at == thread[e].at
           one == 1
           p == After(e)
           best == IF run.best = 0 THEN 1 ELSE run.best
<1>1. /\ at.node = "generate_draft" /\ thread[e].pc = "save" /\ Complete(e, p)
      /\ UNCHANGED <<keyed, latest, comparison, checkpoint>>
      /\ \/ /\ version[1].status = "none" /\ version' = [version EXCEPT ![one].status = "draft"]
            /\ chapter' = Written(chapter, one, "drafting")
            /\ run' = Noted(run, one, best)
         \/ version[1].status # "none" /\ UNCHANGED <<version, chapter, run>>
    BY Zenon DEF SaveDraft, AtNode, Written, Noted
<1>2. thread[e].pc \notin {"idle", "done"} /\ checkpoint' = checkpoint
    BY <1>1
<1>3. CASE version[1].status # "none" /\ UNCHANGED <<version, chapter, run>>
  <2>1. Unmoved
    BY <1>1, <1>3 DEF Unmoved
  <2>2. QED BY <1>1, <1>2, <1>3, <2>1, DraftStep
<1>4. CASE /\ version[1].status = "none" /\ version' = [version EXCEPT ![one].status = "draft"]
           /\ chapter' = Written(chapter, one, "drafting")
           /\ run' = Noted(run, one, best)
  <2>1. /\ run \in RunRows /\ chapter \in ChapterRows /\ run.best \in Ids
        /\ one \in Versions /\ one \in Ids /\ best \in Ids /\ 0 \in Nat
        /\ "drafting" \in ChapterStatuses /\ "draft" \in VersionStatuses
        /\ run.status \in RunStatuses
    BY RowsOf, PlaceOfThread DEF Versions, Ids, ChapterStatuses, Evaluatable, VersionStatuses
  <2>2. \A v \in Versions : ~IsEvaluated(v) /\ ~IsEvaluated(v)' /\ comparison'[v] = "none"
    BY <1>1, <1>4 DEF OpenInv, RowsFit, IsEvaluated
  <2>3. run.best \in {0, 1} /\ best = 1
    BY <2>1, <2>2 DEF OpenInv, RowsFit
  <2> HIDE DEF best
  <2>4. version'[1].status = "draft"
    BY <1>4, <2>1, VersionIsRestated
  <2>5. chapter'.current = 1 /\ run'.best = 1 /\ run'.status = run.status
    BY <1>4, <2>1, <2>3, RowParts
  <2>6. run.status # "none"
    BY <1>1, PastStart
  <2>7. RowsFit'
    BY <2>1, <2>2, <2>4, <2>5, <2>6 DEF RowsFit
  <2>8. ASSUME NEW q, Fits(q)
        PROVE  Sits(q, run'.status, chapter'.current, version'[1].status, keyed')
    BY <1>1, <1>4, <2>4, <2>5, <2>8 DEF Fits, Sits, Opening, FirstDraft
  <2>9. Fits(checkpoint.now)' /\ Fits(checkpoint.before)'
    <3>1. Fits(checkpoint.now) /\ Fits(checkpoint.before)
      BY DEF OpenInv
    <3>2. QED BY <1>2, <2>8, <3>1 DEF Fits
  <2>10. BestIsRanked'
    BY <2>2 DEF BestIsRanked
  <2>11. chapter.current \in {0, 1}
    BY <1>1 DEF OpenInv, Fits, Sits, Opening
  <2>12. p.node = "extract_facts" /\ p.current = 1
    BY <1>1, <2>11, DraftIsPlaced
  <2> HIDE DEF p
  <2>13. /\ Sits(p, run'.status, chapter'.current, version'[1].status, keyed')
         /\ Precedes(at, p) /\ p.node # "initialize_workflow"
    BY <2>4, <2>5, <2>6, <2>12 DEF Sits, Precedes, Opening, FirstDraft
  <2>14. QED BY <1>1, <1>2, <2>7, <2>9, <2>10, <2>13, OpenAfterNode
<1>5. QED BY <1>1, <1>3, <1>4
\* What storing an evaluation x of version v leaves.
Judged(v, x) ==
    /\ keyed' = [keyed EXCEPT ![v] = x] /\ latest' = [latest EXCEPT ![v] = x]
    /\ comparison' = comparison /\ checkpoint' = checkpoint
    /\ run'.best = run.best /\ run'.status = run.status
    /\ chapter'.current = chapter.current
    /\ version'[1].status # "none"
    /\ \A u \in Versions : version'[u].facts = version[u].facts

LEMMA StoredValues ==
    ASSUME WorkflowInv, WorkflowAssumption, NEW v \in Versions, NEW x \in Evaluations,
           Judged(v, x), x # NoEvaluation
    PROVE  /\ IsEvaluated(v)'
           /\ \A u \in Versions : u # v => /\ IsEvaluated(u)' <=> IsEvaluated(u)
                                           /\ latest'[u] = latest[u]
           /\ \A u \in Versions : latest'[u] \in Evaluations /\ latest[u] \in Evaluations
<1>1. keyed \in [Versions -> Evaluations] /\ latest \in [Versions -> Evaluations]
    BY InvParts DEF RowTypes
<1>2. keyed' = [keyed EXCEPT ![v] = x] /\ latest' = [latest EXCEPT ![v] = x]
    BY DEF Judged
<1>3. \A u \in Versions : /\ keyed'[u] = IF u = v THEN x ELSE keyed[u]
                          /\ latest'[u] = IF u = v THEN x ELSE latest[u]
    BY <1>1, <1>2
<1>4. QED BY <1>1, <1>3 DEF IsEvaluated

\* An evaluation of the version the execution evaluates; the execution stays in
\* its node or goes to the next one.
LEMMA JudgingKeepsRows ==
    ASSUME WorkflowInv, WorkflowAssumption, OpenInv, NEW e \in Executions,
           \A d \in Executions : d = e, thread[e].pc \in CallPcs,
           thread[e].at.node \in EvaluationNodes,
           NEW v \in Versions, v = Current(e),
           NEW x \in Evaluations, x # NoEvaluation, Judged(v, x),
           thread[e].at.node = "evaluate_revision" => Weighs(thread'[e].at, v)
    PROVE  RowsFit' /\ BestIsRanked'
<1> DEFINE at == thread[e].at
<1>1. /\ v \in Versions /\ version[v].facts # "none" /\ v = at.current
      /\ ~IsEvaluated(v) /\ 1 \in Versions
    BY PlaceOfThread DEF OpenInv, Calls, EvaluationNodes, Extracted, Current, Versions
<1>2. /\ RowsFit /\ Fits(at) /\ BestIsRanked /\ run.best # 0 /\ run.status # "none"
      /\ at = checkpoint.now /\ Precedes(checkpoint.before, checkpoint.now)
    BY BestExists DEF OpenInv, Connected, CallPcs, Opening, EvaluationNodes
<1>4. /\ IsEvaluated(v)'
      /\ \A u \in Versions : u # v => /\ IsEvaluated(u)' <=> IsEvaluated(u)
                                      /\ latest'[u] = latest[u]
      /\ \A u \in Versions : latest'[u] \in Evaluations /\ latest[u] \in Evaluations
    BY StoredValues
<1>5. /\ comparison' = comparison /\ checkpoint' = checkpoint
      /\ run'.best = run.best /\ run'.status = run.status
      /\ chapter'.current = chapter.current /\ version'[1].status # "none"
      /\ \A u \in Versions : version'[u].facts = version[u].facts
    BY DEF Judged
<1>6. comparison[v] = "none"
    BY <1>1, <1>2 DEF RowsFit
<1>7. CASE at.node = "evaluate_draft"
  <2>1. v = 1
    BY <1>1, <1>2, <1>7 DEF Fits, Sits, FirstDraft
  <2>2. \A u \in Versions : u # 1 => ~IsEvaluated(u)'
    BY <1>1, <1>2, <1>4, <2>1 DEF RowsFit
  <2>3. run.best = 1
    BY <1>1, <1>2, <2>1 DEF RowsFit
  <2>4. RowsFit'
    BY <1>1, <1>2, <1>4, <1>5, <1>6, <2>1, <2>2, <2>3 DEF RowsFit
  <2>5. Unbeaten(1)'
    BY <1>1, <1>4, <1>5, <2>3, BetterIsAnOrder DEF Unbeaten
  <2>6. QED BY <2>2, <2>4, <2>5 DEF BestIsRanked
<1>8. CASE at.node = "evaluate_revision"
  <2>1. IsEvaluated(1) /\ v # 1
    BY <1>1, <1>2, <1>8 DEF Fits, Sits, Opening, IsEvaluated
  <2>2. run.best \in Versions /\ IsEvaluated(run.best) /\ run.best # v
    BY <1>1, <1>2, <2>1 DEF RowsFit
  <2>3. /\ IsEvaluated(1)' /\ keyed'[run.best] # NoEvaluation
        /\ latest'[run.best] = latest[run.best]
    BY <1>1, <1>4, <2>1, <2>2 DEF IsEvaluated
  <2>4. RowsFit'
    <3>1. \A u \in Versions : IsEvaluated(u)' => version'[u].facts # "none"
      BY <1>1, <1>2, <1>4, <1>5 DEF RowsFit
    <3>2. \A u \in Versions : comparison'[u] # "none" => IsEvaluated(u)'
      BY <1>1, <1>2, <1>4, <1>5, <1>6 DEF RowsFit
    <3>3. IsEvaluated(run.best)'
      BY <1>5, <2>3 DEF IsEvaluated
    <3>4. QED BY <1>2, <1>5, <2>2, <2>3, <3>1, <3>2, <3>3 DEF RowsFit
  <2>5. ASSUME NEW u \in Versions, IsEvaluated(u)', u # v PROVE Unbeaten(u)'
    <3>1. Unbeaten(u)
      <4>1. Unbeaten(u) \/ AwaitsComparison(u)
        BY <1>2, <1>4, <2>5 DEF BestIsRanked
      <4>2. ~AwaitsComparison(u)
        BY <1>1, <1>2, <2>5 DEF AwaitsComparison, Weighs
      <4>3. QED BY <4>1, <4>2
    <3>2. latest'[u] = latest[u] /\ latest'[run'.best] = latest[run.best]
      BY <1>4, <1>5, <2>3, <2>5
    <3>3. QED BY <3>1, <3>2 DEF Unbeaten
  <2>6. AwaitsComparison(v)'
    <3>1. Weighs(checkpoint'.now, v) /\ Weighs(checkpoint'.before, v)
      BY <1>1, <1>2, <1>5, <1>8 DEF Weighs, Judging, Precedes
    <3>2. Weighs(thread'[e].at, v)
      BY <1>8
    <3>3. comparison'[v] = "none"
      BY <1>5, <1>6
    <3>4. QED BY <3>1, <3>2, <3>3 DEF AwaitsComparison
  <2>7. BestIsRanked'
    BY <2>5, <2>6 DEF BestIsRanked
  <2>8. QED BY <2>4, <2>7
<1>9. QED BY <1>7, <1>8 DEF EvaluationNodes

\* Evaluations are added only, so that a place that was right is right.
LEMMA PlacesKeepFitting ==
    ASSUME WorkflowInv, WorkflowAssumption, OpenInv, NEW v \in Versions,
           NEW x \in Evaluations, x # NoEvaluation, Judged(v, x),
           run.status # "none"
    PROVE  /\ Fits(checkpoint.now)' /\ Fits(checkpoint.before)'
           /\ \A e \in Executions : thread[e].pc # "idle" =>
                 Sits(thread[e].at, run'.status, chapter'.current, version'[1].status, keyed')
<1>1. /\ run'.status = run.status /\ chapter'.current = chapter.current
      /\ version'[1].status # "none" /\ 1 \in Versions /\ checkpoint' = checkpoint
    BY PlaceOfThread DEF Judged, Versions
<1>2. \A u \in Versions : keyed[u] # NoEvaluation => keyed'[u] # NoEvaluation
    BY StoredValues DEF IsEvaluated
<1>3. ASSUME NEW p \in Positions, Fits(p), Placed(p, version, Limit(run.operation))
      PROVE  Sits(p, run'.status, chapter'.current, version'[1].status, keyed')
  <2>1. p.node = "compare_versions" => p.current \in Versions
    BY <1>3 DEF Positions, Placed, Extracted, Ids
  <2>2. QED BY <1>1, <1>2, <1>3, <2>1 DEF Fits, Sits
<1>4. /\ Fits(checkpoint.now) /\ Fits(checkpoint.before)
      /\ \A e \in Executions : thread[e].pc # "idle" => Fits(thread[e].at)
    BY DEF OpenInv
<1>5. /\ checkpoint.now \in Positions /\ checkpoint.before \in Positions
      /\ \A e \in Executions : /\ thread[e].at \in Positions
                               /\ Placed(thread[e].at, version, Limit(run.operation))
      /\ Placed(checkpoint.now, version, Limit(run.operation))
      /\ Placed(checkpoint.before, version, Limit(run.operation))
    BY InvParts
<1>6. Fits(checkpoint.now)' /\ Fits(checkpoint.before)'
    BY <1>1, <1>3, <1>4, <1>5 DEF Fits
<1>7. \A e \in Executions : thread[e].pc # "idle" =>
          Sits(thread[e].at, run'.status, chapter'.current, version'[1].status, keyed')
    BY <1>3, <1>4, <1>5
<1>8. QED BY <1>6, <1>7
LEMMA StoredIsSomething ==
    ASSUME NEW o
    PROVE  Scored(o) # NoEvaluation /\ Partial(o) # NoEvaluation
<1>1. Partial(o).action = "human_review" /\ NoEvaluation.action = "none"
    BY DEF Partial, NoEvaluation
<1>2. Scored(o).action # "none"
    BY DEF Scored
<1>3. QED BY <1>1, <1>2

\* What SaveEvaluation and a failed critic have in common.
LEMMA StoringJudges ==
    ASSUME WorkflowInv, WorkflowAssumption, OpenInv, NEW e \in Executions,
           thread[e].pc \in CallPcs, thread[e].at.node \in EvaluationNodes,
           NEW v \in Versions, NEW x \in Evaluations, NEW s \in ChapterStatuses,
           keyed' = [keyed EXCEPT ![v] = x], latest' = [latest EXCEPT ![v] = x],
           comparison' = comparison, checkpoint' = checkpoint,
           version' = [version EXCEPT ![v].status = "evaluated"],
           chapter' = Marked(chapter, s), run' = run \/ RunEvaluated(e)
    PROVE  Judged(v, x)
<1>1. run.best # 0 /\ version[1].status # "none"
    BY BestExists DEF CallPcs, Opening, EvaluationNodes
<1>2. run'.best = run.best /\ run'.status = run.status
    BY <1>1, EvaluatedBest
<1>3. "evaluated" \in VersionStatuses /\ 1 \in Versions
    BY PlaceOfThread DEF VersionStatuses, Versions
<1>4. /\ \A u \in Versions : version'[u].facts = version[u].facts
      /\ \A u \in Versions : u # v => version'[u] = version[u]
      /\ version'[v].status = "evaluated"
    BY <1>3, VersionIsRestated
<1>5. version'[1].status # "none"
    BY <1>1, <1>3, <1>4
<1>6. chapter'.current = chapter.current
  <2>1. chapter \in ChapterRows
    BY RowsOf
  <2>2. QED BY <2>1 DEF ChapterRows, Marked
<1>7. QED BY <1>2, <1>4, <1>5, <1>6 DEF Judged

LEMMA SaveEvaluationKeepsOpen ==
    ASSUME WorkflowInv, WorkflowAssumption, OpenInv, NEW e \in Executions,
           \A d \in Executions : d = e, SaveEvaluation(e)
    PROVE  OpenInv'
<1> DEFINE at == thread[e].at
           p == Onward(e)
<1>1. /\ at.node \in EvaluationNodes /\ thread[e].pc = "save"
      /\ \/ /\ \E o \in Outcomes :
                  /\ keyed' = [keyed EXCEPT ![Current(e)] = Scored(o)]
                  /\ latest' = [latest EXCEPT ![Current(e)] = Scored(o)]
                  /\ chapter' = Marked(chapter, StatusOf(Scored(o)))
            /\ version' = [version EXCEPT ![Current(e)].status = "evaluated"]
            /\ RunEvaluated(e) /\ Complete(e, p)
         \/ Invalid(e) /\ UNCHANGED <<keyed, latest, chapter, version, run>>
      /\ UNCHANGED <<comparison, checkpoint>>
    BY Zenon DEF SaveEvaluation, AtNode, Marked
<1>2. /\ thread[e].pc \in CallPcs /\ thread[e].pc \notin {"idle", "done"}
      /\ checkpoint' = checkpoint /\ at.node # "initialize_workflow"
    BY <1>1 DEF CallPcs, EvaluationNodes
<1>3. CASE Invalid(e) /\ UNCHANGED <<keyed, latest, chapter, version, run>>
  <2>1. Unmoved /\ UNCHANGED <<checkpoint, keyed, version>>
    BY <1>1, <1>3 DEF Unmoved
  <2>2. QED BY <1>2, <1>3, <2>1, InvalidKeepsOpen
<1>4. CASE /\ \E o \in Outcomes :
                 /\ keyed' = [keyed EXCEPT ![Current(e)] = Scored(o)]
                 /\ latest' = [latest EXCEPT ![Current(e)] = Scored(o)]
                 /\ chapter' = Marked(chapter, StatusOf(Scored(o)))
           /\ version' = [version EXCEPT ![Current(e)].status = "evaluated"]
           /\ RunEvaluated(e) /\ Complete(e, p)
  <2>1. PICK o \in Outcomes : /\ keyed' = [keyed EXCEPT ![Current(e)] = Scored(o)]
                              /\ latest' = [latest EXCEPT ![Current(e)] = Scored(o)]
                              /\ chapter' = Marked(chapter, StatusOf(Scored(o)))
    BY <1>4
  <2>2. PICK x \in Evaluations : x = Scored(o) /\ x # NoEvaluation
    BY EvaluationsAreTyped, StoredIsSomething
  <2>3. PICK v \in Versions : v = Current(e)
    BY <1>1, PlaceOfThread DEF EvaluationNodes, Extracted
  <2>4. StatusOf(Scored(o)) \in ChapterStatuses
    BY EvaluationsAreTyped
  <2>5. Judged(v, x)
    BY <1>1, <1>2, <1>4, <2>1, <2>2, <2>3, <2>4, StoringJudges
  <2>6. /\ p.current = v /\ p.node = Edge(at.node) /\ at.current = v
    BY <2>3, OnwardPosition DEF Current
  <2>7. \/ at.node = "evaluate_draft" /\ p.node = "decide_after_evaluation"
        \/ at.node = "evaluate_revision" /\ p.node = "compare_versions"
    BY <1>1, <2>6, Edges DEF EvaluationNodes
  <2>8. thread'[e].at = p
    BY <1>4, CompletedThread
  <2>9. RowsFit' /\ BestIsRanked'
    <3>1. at.node = "evaluate_revision" => Weighs(thread'[e].at, v)
      BY <2>6, <2>7, <2>8 DEF Weighs, Judging
    <3>2. QED BY <1>1, <1>2, <2>2, <2>3, <2>5, <3>1, JudgingKeepsRows
  <2>10. run.status # "none"
    BY <1>2, BestExists, <1>1 DEF Opening, EvaluationNodes
  <2>11. /\ Fits(checkpoint.now)' /\ Fits(checkpoint.before)'
         /\ Sits(at, run'.status, chapter'.current, version'[1].status, keyed')
    BY <1>2, <2>2, <2>5, <2>10, PlacesKeepFitting
  <2>12. keyed'[v] # NoEvaluation
    BY <2>2, <2>5, StoredValues DEF IsEvaluated
  <2> HIDE DEF p
  <2>13. Sits(p, run'.status, chapter'.current, version'[1].status, keyed')
    BY <2>6, <2>7, <2>11, <2>12 DEF Sits, Opening, FirstDraft
  <2>14. Precedes(at, p) /\ p.node # "initialize_workflow"
    BY <2>7 DEF Precedes, Opening, FirstDraft
  <2>15. QED BY <1>2, <1>4, <2>9, <2>11, <2>13, <2>14, OpenAfterNode
<1>5. QED BY <1>1, <1>3, <1>4

LEMMA CallFailsKeepsOpen ==
    ASSUME WorkflowInv, WorkflowAssumption, OpenInv, NEW e \in Executions,
           \A d \in Executions : d = e, CallFails(e)
    PROVE  OpenInv'
<1> DEFINE at == thread[e].at
           failing == "failing"
<1>1. /\ thread[e].pc = "call" /\ UNCHANGED <<run, comparison, checkpoint>>
      /\ \/ /\ at.node \in EvaluationNodes
            /\ \E o \in Outcomes :
                  /\ keyed' = [keyed EXCEPT ![Current(e)] = Partial(o)]
                  /\ latest' = [latest EXCEPT ![Current(e)] = Partial(o)]
            /\ version' = [version EXCEPT ![Current(e)].status = "evaluated"]
            /\ chapter' = Marked(chapter, "evaluation_failed")
            /\ SetPc(e, failing)
         \/ Invalid(e) /\ UNCHANGED <<keyed, latest, version, chapter>>
         \/ SetPc(e, failing) /\ UNCHANGED <<keyed, latest, version, chapter>>
    BY Zenon DEF CallFails, Marked, At
<1>2. /\ thread[e].pc \in CallPcs /\ thread[e].pc \notin {"idle", "done"}
      /\ checkpoint' = checkpoint /\ failing \notin CallPcs /\ failing \notin {"idle", "done"}
    BY <1>1 DEF CallPcs
<1> HIDE DEF failing
<1>3. at.node # "initialize_workflow"
    BY <1>1, PastStart
<1>4. CASE UNCHANGED <<keyed, latest, version, chapter>>
  <2>1. Unmoved /\ UNCHANGED <<checkpoint, keyed, version>>
    BY <1>1, <1>4 DEF Unmoved
  <2>2. CASE Invalid(e)
    BY <1>2, <1>3, <2>1, <2>2, InvalidKeepsOpen
  <2>3. CASE SetPc(e, failing)
    BY <1>2, <1>3, <2>1, <2>3, TurnKeepsOpen
  <2>4. QED BY <1>1, <2>2, <2>3
<1>5. CASE /\ at.node \in EvaluationNodes
           /\ \E o \in Outcomes :
                 /\ keyed' = [keyed EXCEPT ![Current(e)] = Partial(o)]
                 /\ latest' = [latest EXCEPT ![Current(e)] = Partial(o)]
           /\ version' = [version EXCEPT ![Current(e)].status = "evaluated"]
           /\ chapter' = Marked(chapter, "evaluation_failed")
           /\ SetPc(e, failing)
  <2>1. PICK o \in Outcomes : /\ keyed' = [keyed EXCEPT ![Current(e)] = Partial(o)]
                              /\ latest' = [latest EXCEPT ![Current(e)] = Partial(o)]
    BY <1>5
  <2>2. PICK x \in Evaluations : x = Partial(o) /\ x # NoEvaluation
    BY EvaluationsAreTyped, StoredIsSomething
  <2>3. PICK v \in Versions : v = Current(e)
    BY <1>5, PlaceOfThread DEF EvaluationNodes, Extracted
  <2>4. "evaluation_failed" \in ChapterStatuses
    BY DEF ChapterStatuses, Evaluatable
  <2>5. Judged(v, x)
    <3> DEFINE s == "evaluation_failed"
    <3>1. s \in ChapterStatuses /\ chapter' = Marked(chapter, s)
      BY <1>5, <2>4
    <3> HIDE DEF s
    <3>2. QED BY <1>1, <1>2, <1>5, <2>1, <2>2, <2>3, <3>1, StoringJudges
  <2>6. thread'[e].pc = failing /\ thread'[e].at = at
    BY <1>5, PcTurned
  <2>7. RowsFit' /\ BestIsRanked'
    <3>1. at.node = "evaluate_revision" => Weighs(thread'[e].at, v)
      BY <2>3, <2>6 DEF Weighs, Judging, Current
    <3>2. QED BY <1>2, <1>5, <2>2, <2>3, <2>5, <3>1, JudgingKeepsRows
  <2>8. run.status # "none"
    BY <1>2, PastStart, <1>1
  <2>9. /\ Fits(checkpoint.now)' /\ Fits(checkpoint.before)'
        /\ Sits(at, run'.status, chapter'.current, version'[1].status, keyed')
    BY <1>2, <2>2, <2>5, <2>8, PlacesKeepFitting
  <2>10. at = checkpoint.now /\ Precedes(checkpoint.before, checkpoint.now)
    BY <1>2 DEF OpenInv, Connected
  <2>11. Connected'
    BY <1>2, <2>6, <2>10 DEF Connected
  <2> HIDE DEF at
  <2>12. \A d \in Executions : Calls(d)' /\ Fits(thread[d].at)'
    BY <1>2, <1>3, <2>6, <2>9 DEF Calls, Fits
  <2>13. QED BY <2>7, <2>9, <2>11, <2>12 DEF OpenInv
<1>6. QED BY <1>1, <1>4, <1>5

LEMMA CompareKeepsOpen ==
    ASSUME WorkflowInv, WorkflowAssumption, OpenInv, NEW e \in Executions,
           \A d \in Executions : d = e, Compare(e)
    PROVE  OpenInv'
<1> DEFINE at == thread[e].at
           p == Ranking(Onward(e), run'.best)
<1>1. PICK v \in Versions : v = at.current /\ v = Current(e) /\ at.node = "compare_versions"
  <2>1. at.node = "compare_versions"
    BY DEF Compare, AtNode
  <2>2. QED BY <2>1, PlaceOfThread DEF Extracted, Current
<1>2. /\ thread[e].pc = "act" /\ Complete(e, p)
      /\ UNCHANGED <<chapter, version, keyed, latest, checkpoint>>
      /\ \/ comparison[v] # "none" /\ UNCHANGED <<run, comparison>>
         \/ /\ comparison[v] = "none"
            /\ \E d : comparison' = [comparison EXCEPT ![v] = d]
            /\ run' = Ranked(run, BestOf(run.best, v))
    BY <1>1, Zenon DEF Compare, AtNode, Ranked, Ranking
<1>3. thread[e].pc \notin {"idle", "done"} /\ checkpoint' = checkpoint
    BY <1>2
<1>4. /\ RowsFit /\ Fits(at) /\ BestIsRanked /\ IsEvaluated(v) /\ IsEvaluated(1)
      /\ run.best \in Versions /\ IsEvaluated(run.best)
  <2>1. RowsFit /\ Fits(at) /\ BestIsRanked
    BY <1>2 DEF OpenInv
  <2>2. IsEvaluated(v)
    BY <1>1, <2>1 DEF Fits, Sits, IsEvaluated
  <2>3. QED BY <2>1, <2>2 DEF RowsFit
<1>5. run \in RunRows /\ run.best \in Ids /\ BestOf(run.best, v) \in Ids
    BY <1>1, RowsOf DEF BestOf, Ids
<1>6. /\ run'.status = run.status
      /\ run'.best = IF comparison[v] # "none" THEN run.best ELSE BestOf(run.best, v)
    BY <1>2, <1>5, RunRanks
<1>7. p.node = "decide_after_comparison"
  <2>1. Onward(e) \in Positions /\ Onward(e).node = "decide_after_comparison"
    BY <1>1, OnwardPosition, Edges
  <2>2. run'.best \in Ids
    BY <1>5, <1>6
  <2>3. QED BY <2>1, <2>2, PositionRanks
<1> HIDE DEF p
<1>8. \A u \in Versions : u # v => ~AwaitsComparison(u)
    BY <1>1, <1>3 DEF AwaitsComparison, Weighs
<1>9. CASE comparison[v] # "none" /\ UNCHANGED <<run, comparison>>
  <2>1. Unmoved
    BY <1>2, <1>9 DEF Unmoved
  <2>2. \A u \in Versions : ~AwaitsComparison(u)
    BY <1>8, <1>9 DEF AwaitsComparison
  <2>3. QED
    BY <1>1, <1>2, <1>3, <1>7, <2>1, <2>2, LaterStep DEF Opening, FirstDraft
<1>10. CASE /\ comparison[v] = "none" /\ \E d : comparison' = [comparison EXCEPT ![v] = d]
            /\ run' = Ranked(run, BestOf(run.best, v))
  <2>1. \A u \in Versions : comparison'[u] = comparison[u] \/ u = v
    <3>1. comparison \in [Versions -> Decisions]
      BY InvParts DEF RowTypes
    <3>2. QED BY <1>10, <3>1
  <2>2. /\ run'.best \in Versions /\ IsEvaluated(run.best)' /\ run'.status = run.status
        /\ run'.best = IF Better(latest[v], latest[run.best]) THEN v ELSE run.best
    BY <1>2, <1>4, <1>6, <1>10 DEF BestOf, IsEvaluated
  <2>3. RowsFit'
    <3>1. \A u \in Versions : IsEvaluated(u)' <=> IsEvaluated(u)
      BY <1>2 DEF IsEvaluated
    <3>2. \A u \in Versions : comparison'[u] # "none" => IsEvaluated(u)'
      BY <1>4, <2>1, <3>1 DEF RowsFit
    <3>3. run'.best # 0 /\ 1 \in Versions /\ IsEvaluated(1)'
      BY <1>4, <2>2, <3>1, PlaceOfThread DEF Versions
    <3>4. /\ version' = version /\ chapter' = chapter
      BY <1>2
    <3>5. QED BY <1>4, <2>2, <3>1, <3>2, <3>3, <3>4 DEF RowsFit
  <2>4. BestIsRanked'
    <3> SUFFICES ASSUME NEW u \in Versions, IsEvaluated(u)'
                 PROVE  Unbeaten(u)'
      BY DEF BestIsRanked
    <3>1. latest \in [Versions -> Evaluations] /\ latest' = latest
      BY <1>2, InvParts DEF RowTypes
    <3>2. latest[u] \in Evaluations /\ latest[v] \in Evaluations
          /\ latest[run.best] \in Evaluations
      BY <1>4, <3>1
    <3>3. u # v => ~Better(latest[u], latest[run.best])
      BY <1>2, <1>4, <1>8 DEF BestIsRanked, Unbeaten, IsEvaluated
    <3>4. ~Better(latest[u], latest[run'.best])
      <4>1. CASE Better(latest[v], latest[run.best])
        <5>1. run'.best = v
          BY <2>2, <4>1
        <5>2. CASE u = v
          BY <3>2, <5>1, <5>2, BetterIsAnOrder
        <5>3. CASE u # v
          BY <3>2, <3>3, <4>1, <5>1, <5>3, BetterIsAnOrder
        <5>4. QED BY <5>2, <5>3
      <4>2. CASE ~Better(latest[v], latest[run.best])
        BY <2>2, <3>3, <4>2
      <4>3. QED BY <4>1, <4>2
    <3>5. QED BY <3>1, <3>4 DEF Unbeaten
  <2>5. ASSUME NEW q, Fits(q)
        PROVE  Sits(q, run'.status, chapter'.current, version'[1].status, keyed')
    BY <1>2, <1>6, <2>5 DEF Fits
  <2>6. Fits(checkpoint.now)' /\ Fits(checkpoint.before)'
    <3>1. Fits(checkpoint.now) /\ Fits(checkpoint.before)
      BY DEF OpenInv
    <3>2. QED BY <1>3, <2>5, <3>1 DEF Fits
  <2>7. /\ Sits(p, run'.status, chapter'.current, version'[1].status, keyed')
        /\ Precedes(at, p) /\ p.node # "initialize_workflow"
    <3>1. Sits(at, run'.status, chapter'.current, version'[1].status, keyed')
      BY <1>4, <2>5
    <3>2. QED BY <1>1, <1>7, <3>1, LaterPlace DEF Opening, FirstDraft
  <2>8. QED BY <1>2, <1>3, <2>3, <2>4, <2>6, <2>7, OpenAfterNode
<1>11. QED BY <1>2, <1>9, <1>10
-----------------------------------------------------------------------------
(***************************************************************************)
(* The text that is shown.                                                 *)
(***************************************************************************)

LEMMA NodesKeepOpen ==
    ASSUME WorkflowInv, WorkflowAssumption, OpenInv, NEW e \in Executions,
           \A d \in Executions : d = e,
           Node(e), ~Accept(e), ~NeedsReview(e)
    PROVE  OpenInv' /\ (run'.status = run.status \/ run'.status \notin Closed)
<1>1. CASE \/ Initialize(e) \/ Reuse(e) \/ SaveDraft(e) \/ SaveRevision(e)
           \/ SaveEvaluation(e) \/ Compare(e) \/ Reject(e)
  <2>1. run'.status = run.status \/ run'.status \notin Closed
    BY <1>1, WritingSteps DEF Closed
  <2>2. OpenInv'
    BY <1>1, InitializeKeepsOpen, ReuseKeepsOpen, SaveDraftKeepsOpen, SaveRevisionKeepsOpen,
       SaveEvaluationKeepsOpen, CompareKeepsOpen, RejectKeepsOpen
  <2>3. QED BY <2>1, <2>2
<1>2. CASE \/ Enter(e) \/ Read(e) \/ Claim(e) \/ Answer(e) \/ CallFails(e) \/ CallBlocked(e)
           \/ SaveFacts(e) \/ Decide(e)
  <2>1. run' = run
    BY <1>2, QuietSteps
  <2>2. OpenInv'
    BY <1>2, EnterKeepsOpen, BriefKeepsOpen, ClaimKeepsOpen, CallingKeepsOpen,
       CallFailsKeepsOpen, SaveFactsKeepsOpen, DecideKeepsOpen
  <2>3. QED BY <2>1, <2>2
<1>3. CASE Advance(e)
  <2>1. run' = run
    BY <1>3 DEF Advance, rows
  <2>2. QED BY <1>3, <2>1, AdvanceKeepsOpen
<1>4. QED BY <1>1, <1>2, <1>3 DEF Node

LEMMA HandlersKeepOpen ==
    ASSUME WorkflowInv, WorkflowAssumption, OpenInv, NEW e \in Executions,
           \A d \in Executions : d = e,
           Handler(e), ~Review(e)
    PROVE  OpenInv' /\ (run'.status = run.status \/ run'.status \notin Closed)
<1>1. CASE Block(e)
    BY <1>1, QuietSteps, CallingKeepsOpen
<1>2. CASE Pause(e) \/ CancelAtNode(e) \/ Fail(e)
    BY <1>2, TurningSteps, EndingKeepsOpen
<1>3. QED BY <1>1, <1>2 DEF Handler

LEMMA StartsKeepOpen ==
    ASSUME WorkflowInv, WorkflowAssumption, OpenInv, NEW e \in Executions,
           \A d \in Executions : d = e, Run(e) \/ Resume(e) \/ Crash(e)
    PROVE  OpenInv' /\ (run'.status = run.status \/ run'.status \notin Closed)
<1>1. CASE Run(e) \/ Crash(e)
  <2>1. run' = run
    BY <1>1 DEF Run, Crash, rows
  <2>2. QED BY <1>1, <2>1, RunKeepsOpen, CrashKeepsOpen
<1>2. CASE Resume(e)
  <2>1. run' = Turned(run, "running") /\ run \in RunRows
    BY <1>2, RowsOf, Zenon DEF Resume, Turned
  <2>2. run'.status = "running"
    BY <2>1, RunTurns DEF RunStatuses
  <2>3. QED BY <1>2, <2>2, ResumeKeepsOpen DEF Closed
<1>3. QED BY <1>1, <1>2

LEMMA RequestsKeepOpen ==
    ASSUME WorkflowInv, WorkflowAssumption, OpenInv,
           (\E wish \in Requests : Ask(wish)) \/ Abort \/ Recover
    PROVE  OpenInv' /\ (run'.status = run.status \/ run'.status \notin Closed)
<1>1. OpenInv'
    BY EnvironmentKeepsOpen
<1>2. CASE \E wish \in Requests : Ask(wish)
    BY <1>1, <1>2 DEF Ask, rows
<1>3. CASE Abort \/ Recover
  <2>1. run' = Turned(run, "cancelled") \/ run' = Turned(run, "paused")
    BY <1>3, Zenon DEF Abort, Recover, Turned
  <2>2. run \in RunRows /\ {"cancelled", "paused"} \subseteq RunStatuses
    BY RowsOf DEF RunStatuses, Terminal
  <2>3. run'.status \in {"cancelled", "paused"}
    BY <2>1, <2>2, RunTurns
  <2>4. QED BY <1>1, <2>3 DEF Closed
<1>4. QED BY <1>2, <1>3

\* mark_needs_review shows a text that no other one beats.
LEMMA BestIsDisplayed ==
    ASSUME WorkflowInv, WorkflowAssumption, OpenInv, NEW e \in Executions,
           NeedsReview(e) \/ Review(e)
    PROVE  NeedsReviewShowsBest' /\ run'.status \in Closed
<1> DEFINE at == thread[e].at
<1>1. /\ run' = Shown(run, "completed_needs_review", run.best)
      /\ UNCHANGED <<keyed, latest, comparison>>
    BY Zenon DEF NeedsReview, Review, ShowBest, Shown
<1>2. run'.best = run.best /\ run'.status = "completed_needs_review"
  <2> DEFINE q == Turned(run, "completed_needs_review")
  <2>1. run \in RunRows /\ run.best \in Ids /\ "completed_needs_review" \in RunStatuses
    BY RowsOf DEF RunStatuses, Terminal
  <2>2. Shown(run, "completed_needs_review", run.best) = Aimed(q, run.best)
    BY Zenon DEF Shown, Turned, Aimed
  <2>3. q \in RunRows /\ q.status = "completed_needs_review" /\ q.best = run.best
    BY <2>1 DEF RunRows, Turned
  <2> HIDE DEF q
  <2>4. Aimed(q, run.best).best = q.best /\ Aimed(q, run.best).status = q.status
    BY <2>1, <2>3 DEF RunRows, Aimed
  <2>5. QED BY <1>1, <2>2, <2>3, <2>4
<1>3. \A v \in Versions : IsEvaluated(v) => ~AwaitsComparison(v)
  <2>1. CASE NeedsReview(e)
    <3>1. thread[e].pc # "idle" /\ at.node \notin Judging
      BY <2>1 DEF NeedsReview, AtNode, Judging
    <3>2. QED BY <3>1, NobodyAwaits
  <2>2. CASE Review(e)
    <3>1. thread[e].pc = "reviewing"
      BY <2>2 DEF Review, At
    <3>2. /\ at.node \in ProviderNodes
          /\ at.node \in EvaluationNodes => ~IsEvaluated(at.current)
          /\ at.node \in ExtractionNodes => version[at.current].facts = "none"
      BY <3>1 DEF OpenInv, Calls, CallPcs, Current
    <3> SUFFICES ASSUME NEW v \in Versions, IsEvaluated(v), AwaitsComparison(v)
                 PROVE  FALSE
      OBVIOUS
    <3>3. at.node \in Judging /\ at.current = v
      BY <3>1 DEF AwaitsComparison, Weighs
    <3>4. version[v].facts # "none"
      BY DEF OpenInv, RowsFit
    <3>5. QED BY <3>2, <3>3, <3>4 DEF Judging, ProviderNodes, EvaluationNodes, ExtractionNodes
  <2>3. QED BY <2>1, <2>2
<1>4. \A v \in Versions : IsEvaluated(v) => Unbeaten(v)
    BY <1>3 DEF OpenInv, BestIsRanked
<1>5. NeedsReviewShowsBest'
    BY <1>1, <1>2, <1>4 DEF NeedsReviewShowsBest, IsEvaluated, Unbeaten
<1>6. QED BY <1>2, <1>5 DEF Closed

LEMMA AcceptKeepsOpen ==
    ASSUME WorkflowInv, WorkflowAssumption, OpenInv, run.status \notin Closed,
           NEW e \in Executions, \A d \in Executions : d = e, Accept(e)
    PROVE  (OpenInv' /\ run' = run) \/ run'.status = "completed"
<1>1. CASE Promotes(e)
  <2> DEFINE v == Current(e)
  <2>1. run' = Concluded(run, "completed", v, v, v)
    BY <1>1, Zenon DEF Promotes
  <2>2. v \in Ids /\ run \in RunRows /\ "completed" \in RunStatuses
    BY OnwardPosition, RowsOf DEF RunStatuses, Terminal
  <2> HIDE DEF v
  <2>3. QED BY <2>1, <2>2, RunConcludes
<1>2. CASE ~Promotes(e)
  <2>1. /\ run.status = "completed" \/ Invalid(e)
        /\ thread[e].pc = "act" /\ thread[e].at.node = "accept_version"
        /\ UNCHANGED <<run, chapter, version, keyed, latest, comparison, checkpoint>>
    <3>1. /\ thread[e].pc = "act" /\ thread[e].at.node = "accept_version"
          /\ UNCHANGED <<keyed, latest, comparison, checkpoint>>
      BY DEF Accept, AtNode
    <3>2. /\ run.status = "completed" \/ Invalid(e)
          /\ UNCHANGED <<run, chapter, version>>
      BY <1>2, Zenon DEF Accept, Promotes, Concluded, Ranking
    <3>3. QED BY <3>1, <3>2
  <2>2. Invalid(e)
    BY <2>1 DEF Closed
  <2>3. Unmoved /\ thread[e].pc \notin {"idle", "done"}
    BY <2>1 DEF Unmoved
  <2>4. QED BY <2>1, <2>2, <2>3, InvalidKeepsOpen
<1>3. QED BY <1>1, <1>2
\* Only OutsideBegin and OutsideEnd know of evaluations outside the workflow.
LEMMA OutsideRests ==
    ASSUME [Next]_vars, ~OutsideBegin, ~OutsideEnd
    PROVE  evaluations' = evaluations /\ outside' = outside
<1>1. CASE UNCHANGED vars
    BY <1>1 DEF vars, bounds
<1>2. ASSUME NEW e \in Executions, Node(e) PROVE evaluations' = evaluations /\ outside' = outside
  <2>1. CASE Initialize(e) \/ Enter(e) \/ Advance(e) \/ Read(e) \/ Reuse(e) \/ Claim(e)
    BY <2>1 DEF Initialize, Enter, Advance, Read, Reuse, Claim, bounds
  <2>2. CASE Answer(e) \/ CallFails(e) \/ CallBlocked(e) \/ SaveDraft(e) \/ SaveRevision(e)
    BY <2>2 DEF Answer, CallFails, CallBlocked, SaveDraft, SaveRevision, bounds
  <2>3. CASE SaveFacts(e) \/ SaveEvaluation(e) \/ Decide(e) \/ Compare(e)
    BY <2>3 DEF SaveFacts, SaveEvaluation, Decide, Compare, bounds
  <2>4. CASE Reject(e) \/ Accept(e) \/ NeedsReview(e)
    BY <2>4 DEF Reject, Accept, NeedsReview, bounds
  <2>5. QED BY <1>2, <2>1, <2>2, <2>3, <2>4 DEF Node
<1>3. ASSUME NEW e \in Executions, Handler(e) PROVE evaluations' = evaluations /\ outside' = outside
    BY <1>3 DEF Handler, Pause, CancelAtNode, Fail, Block, Review, bounds
<1>4. ASSUME NEW e \in Executions, Run(e) \/ Resume(e) \/ Crash(e)
      PROVE  evaluations' = evaluations /\ outside' = outside
    BY <1>4 DEF Run, Resume, Crash, bounds
<1>5. CASE (\E wish \in Requests : Ask(wish)) \/ Abort \/ Recover
    BY <1>5 DEF Ask, Abort, Recover
<1>6. QED BY <1>1, <1>2, <1>3, <1>4, <1>5 DEF Next

\* What a step does to a run that is open.
LEMMA OpenStep ==
    ASSUME WorkflowInv, WorkflowAssumption, OpenInv, run.status \notin Closed, [Next]_vars,
           \A c, d \in Executions : c = d, ~OutsideBegin, ~OutsideEnd
    PROVE  \/ OpenInv' /\ run'.status \notin Closed
           \/ run'.status \in Closed /\ NeedsReviewShowsBest'
<1>1. CASE UNCHANGED vars
  <2>1. UNCHANGED <<rows, checkpoint, thread, version>>
    BY <1>1 DEF vars, rows
  <2>2. OpenInv' /\ run' = run
    BY <2>1, RowsUnmoved, RestKeepsOpen DEF rows
  <2>3. QED BY <2>2
<1>2. ASSUME NEW e \in Executions, Node(e)
      PROVE  \/ OpenInv' /\ run'.status \notin Closed
             \/ run'.status \in Closed /\ NeedsReviewShowsBest'
  <2>1. \A d \in Executions : d = e
    OBVIOUS
  <2>2. CASE NeedsReview(e)
    BY <2>2, BestIsDisplayed
  <2>3. CASE Accept(e)
    <3>1. (OpenInv' /\ run' = run) \/ run'.status = "completed"
      BY <2>1, <2>3, AcceptKeepsOpen
    <3>2. run'.status = "completed" => run'.status \in Closed /\ NeedsReviewShowsBest'
      BY DEF Closed, NeedsReviewShowsBest
    <3>3. QED BY <3>1, <3>2
  <2>4. CASE ~NeedsReview(e) /\ ~Accept(e)
    BY <1>2, <2>1, <2>4, NodesKeepOpen
  <2>5. QED BY <2>2, <2>3, <2>4
<1>3. ASSUME NEW e \in Executions, Handler(e)
      PROVE  \/ OpenInv' /\ run'.status \notin Closed
             \/ run'.status \in Closed /\ NeedsReviewShowsBest'
  <2>1. \A d \in Executions : d = e
    OBVIOUS
  <2>2. CASE Review(e)
    BY <2>2, BestIsDisplayed
  <2>3. CASE ~Review(e)
    BY <1>3, <2>1, <2>3, HandlersKeepOpen
  <2>4. QED BY <2>2, <2>3
<1>4. ASSUME NEW e \in Executions, Run(e) \/ Resume(e) \/ Crash(e)
      PROVE  OpenInv' /\ run'.status \notin Closed
  <2>1. \A d \in Executions : d = e
    OBVIOUS
  <2>2. QED BY <1>4, <2>1, StartsKeepOpen
<1>5. CASE (\E wish \in Requests : Ask(wish)) \/ Abort \/ Recover
    BY <1>5, RequestsKeepOpen
<1>6. QED BY <1>1, <1>2, <1>3, <1>4, <1>5 DEF Next

\* A run that closed is shown as it was.
LEMMA ClosedStep ==
    ASSUME WorkflowInv, WorkflowAssumption, ClosedRests, run.status \in Closed, [Next]_vars,
           ~OutsideBegin, ~OutsideEnd
    PROVE  UNCHANGED rows
<1>1. ASSUME NEW e \in Executions PROVE ~Active(e)
    BY ActiveIsOpen
<1>2. CASE UNCHANGED vars
    BY <1>2 DEF vars
<1>3. ASSUME NEW e \in Executions, Node(e) PROVE UNCHANGED rows
  <2>1. CASE Advance(e)
    BY <2>1 DEF Advance
  <2>2. CASE \/ Initialize(e) \/ Reuse(e) \/ SaveDraft(e) \/ SaveRevision(e)
             \/ SaveEvaluation(e) \/ Compare(e) \/ Reject(e)
    BY <1>1, <2>2, WritingSteps
  <2>3. CASE \/ Enter(e) \/ Read(e) \/ Claim(e) \/ Answer(e) \/ CallFails(e) \/ CallBlocked(e)
             \/ SaveFacts(e) \/ Decide(e)
    BY <1>1, <2>3, QuietSteps
  <2>4. CASE Accept(e) \/ NeedsReview(e)
    BY <1>1, <2>4 DEF Accept, NeedsReview, AtNode, Active, At
  <2>5. QED BY <1>3, <2>1, <2>2, <2>3, <2>4 DEF Node
<1>4. ASSUME NEW e \in Executions, Handler(e) PROVE UNCHANGED rows
    BY <1>1, <1>4 DEF Handler, Pause, CancelAtNode, Fail, Block, Review, Active, At
<1>5. ASSUME NEW e \in Executions, Run(e) \/ Resume(e) \/ Crash(e) PROVE UNCHANGED rows
    BY <1>5 DEF Run, Resume, Crash, Closed
<1>6. CASE (\E wish \in Requests : Ask(wish)) \/ Abort \/ Recover
    BY <1>6 DEF Ask, Abort, Recover, Closed
<1>7. QED BY <1>2, <1>3, <1>4, <1>5, <1>6 DEF Next

LEMMA StepKeepsShow ==
    ASSUME WorkflowInv, WorkflowAssumption, EndInv, ShowInv, [Next]_vars,
           \A c, d \in Executions : c = d
    PROVE  ShowInv'
<1> SUFFICES ASSUME evaluations' = 0
             PROVE  /\ outside' = 0 /\ (run'.status \notin Closed => OpenInv')
                    /\ NeedsReviewShowsBest'
    BY DEF ShowInv
<1>1. evaluations \in Nat
    BY InvParts DEF BoundTypes
<1>2. ~OutsideBegin
    BY <1>1 DEF OutsideBegin
<1>3. evaluations = 0
  <2>1. CASE OutsideEnd
    BY <2>1 DEF OutsideEnd, bounds
  <2>2. CASE ~OutsideEnd
    BY <1>2, <2>2, OutsideRests
  <2>3. QED BY <2>1, <2>2
<1>4. outside = 0 /\ (run.status \notin Closed => OpenInv) /\ NeedsReviewShowsBest
    BY <1>3 DEF ShowInv
<1>5. ~OutsideEnd
    BY <1>4 DEF OutsideEnd
<1>6. outside' = 0
    BY <1>2, <1>4, <1>5, OutsideRests
<1>7. CASE run.status \in Closed
  <2>1. UNCHANGED rows
    BY <1>2, <1>5, <1>7, ClosedStep DEF EndInv
  <2>2. run' = run /\ NeedsReviewShowsBest'
    BY <1>3, <1>4, <2>1 DEF rows, NeedsReviewShowsBest
  <2>3. QED BY <1>6, <1>7, <2>2
<1>8. CASE run.status \notin Closed
  <2>1. \/ OpenInv' /\ run'.status \notin Closed
        \/ run'.status \in Closed /\ NeedsReviewShowsBest'
    BY <1>2, <1>4, <1>5, <1>8, OpenStep
  <2>2. run'.status \notin Closed => NeedsReviewShowsBest'
    BY DEF Closed, NeedsReviewShowsBest
  <2>3. QED BY <1>6, <2>1, <2>2
<1>9. QED BY <1>7, <1>8

LEMMA InitShow ==
    ASSUME Init, WorkflowAssumption
    PROVE  ShowInv
<1>1. /\ run.status = "none" /\ run.best = 0 /\ outside = 0
      /\ keyed = [v \in Versions |-> NoEvaluation]
      /\ comparison = [v \in Versions |-> "none"]
      /\ checkpoint = [now |-> StartPosition, before |-> StartPosition]
      /\ thread = [e \in Executions |-> IdleThread]
    BY DEF Init
<1>2. 1 \in Versions
    BY DEF WorkflowAssumption, Versions
<1>3. \/ chapter.current = 1 /\ version[1].status # "none"
      \/ chapter.current = 0 /\ version[1].status = "none"
    BY <1>2 DEF Init
<1>4. checkpoint.now = StartPosition /\ checkpoint.before = StartPosition
      /\ \A e \in Executions : thread[e].pc = "idle"
    BY <1>1 DEF IdleThread
<1>5. \A v \in Versions : ~IsEvaluated(v) /\ comparison[v] = "none"
    BY <1>1 DEF IsEvaluated
<1>6. RowsFit
    BY <1>1, <1>2, <1>3, <1>5 DEF RowsFit
<1>7. Fits(StartPosition)
    BY <1>3 DEF Fits, Sits, StartPosition, Opening, FirstDraft
<1>8. Connected /\ \A e \in Executions : Calls(e)
    BY <1>4, PrecedesItself DEF Connected, Calls, CallPcs
<1>9. OpenInv
    BY <1>4, <1>5, <1>6, <1>7, <1>8 DEF OpenInv, BestIsRanked
<1>10. NeedsReviewShowsBest
    BY <1>1 DEF NeedsReviewShowsBest
<1>11. QED BY <1>1, <1>9, <1>10 DEF ShowInv

\* When executions of a run do not overlap and nobody evaluates the chapter
\* outside the run, what a person is asked to review is the best text of the
\* run: however often it was paused, crashed or resumed from the checkpoint
\* before the last one, and also when a blocked budget ended it, no evaluated
\* version has fewer critical conflicts, or as many and fewer blocking reasons,
\* or as many of both and a higher score.
THEOREM BestIsShownForReview ==
    ASSUME \A c, d \in Executions : c = d
    PROVE  Spec => []NeedsReviewShowsBest
<1>1. Init => EndInv /\ ShowInv
  <2>1. ASSUME Init PROVE EndInv
    <3>1. run.status = "none"
      BY <2>1 DEF Init
    <3>2. QED BY <3>1 DEF EndInv, ClosedRests, ClosedRunsLeaveNothingOpen, Closed
  <2>2. QED BY <2>1, InitShow, WorkflowAssumption
<1>2. WorkflowInv /\ EndInv /\ ShowInv /\ [Next]_vars => EndInv' /\ ShowInv'
    BY WorkflowAssumption, StepKeepsEnd, StepKeepsShow
<1>3. ShowInv => NeedsReviewShowsBest
    BY DEF ShowInv, NeedsReviewShowsBest
<1>4. QED BY <1>1, <1>2, <1>3, WorkflowInvHolds, PTL DEF Spec
-----------------------------------------------------------------------------
(***************************************************************************)
(* The workflow is the chapter lifecycle.                                  *)
(***************************************************************************)

PhaseOf(s) == [w \in {1 : x \in {s} \ {"none"}} |-> s]
Phase == PhaseOf(run.status)
Told == {v \in Versions : version[v].facts = "accepted"}

\* A run that has not begun has done nothing but enter its first node, which has
\* no control callback.
Begun ==
    run.status = "none" =>
        \A e \in Executions :
            At(e, "idle") \/ AtNode(e, "enter", {"initialize_workflow"})

LEMMA PhaseOfOne ==
    /\ PhaseOf("none") = [w \in {} |-> "running"]
    /\ \A s : s # "none" => PhaseOf(s) = [w \in {1} |-> s]
<1>1. {1 : x \in {"none"} \ {"none"}} = {}
    OBVIOUS
<1>2. PhaseOf("none") = [w \in {} |-> "none"]
    BY <1>1 DEF PhaseOf
<1>3. [w \in {} |-> "none"] = [w \in {} |-> "running"]
    OBVIOUS
<1>4. ASSUME NEW s, s # "none" PROVE PhaseOf(s) = [w \in {1} |-> s]
  <2>1. {1 : x \in {s} \ {"none"}} = {1}
    BY <1>4
  <2>2. QED BY <2>1 DEF PhaseOf
<1>5. QED BY <1>2, <1>3, <1>4

LEMMA PhasesTurn ==
    ASSUME NEW s, NEW t, s # "none", t # "none"
    PROVE  /\ 1 \in DOMAIN PhaseOf(s) /\ PhaseOf(s)[1] = s
           /\ PhaseOf(t) = [PhaseOf(s) EXCEPT ![1] = t]
<1>1. PhaseOf(s) = [w \in {1} |-> s] /\ PhaseOf(t) = [w \in {1} |-> t]
    BY PhaseOfOne
<1>2. QED BY <1>1

LEMMA PhaseBegins ==
    /\ 1 \notin DOMAIN PhaseOf("none") /\ DOMAIN PhaseOf("none") = {}
    /\ 1 \in DOMAIN PhaseOf("running")
    /\ PhaseOf("running") =
           [v \in DOMAIN PhaseOf("none") \cup {1} |->
               IF v = 1 THEN "running" ELSE PhaseOf("none")[v]]
<1> DEFINE none == PhaseOf("none")
<1>1. DOMAIN none = {} /\ PhaseOf("running") = [w \in {1} |-> "running"]
    BY PhaseOfOne
<1> HIDE DEF none
<1>2. DOMAIN none \cup {1} = {1}
    BY <1>1
<1>3. [v \in {1} |-> IF v = 1 THEN "running" ELSE none[v]] = [w \in {1} |-> "running"]
    OBVIOUS
<1>4. QED BY <1>1, <1>2, <1>3 DEF none

\* What a step that promotes no text may do to the status of the run.
Turns(s, t) ==
    \/ t = s
    \/ s = "none" /\ t = "running"
    \/ s = "running" /\ t = "paused"
    \/ s = "paused" /\ t = "running"
    \/ s \in {"running", "paused"} /\ t \in {"failed", "cancelled"}
    \/ s # "none" /\ t = "completed_needs_review"

LEMMA TurnIsLawful ==
    ASSUME WorkflowInv, Turns(run.status, run'.status),
           chapter'.accepted = chapter.accepted, Told' = Told
    PROVE  [Chapter!Next]_(Chapter!chapterVars)
<1> DEFINE s == run.status
           t == run'.status
<1>1. s \in RunStatuses
    BY DEF WorkflowInv, TypeOK
<1>2. CASE t = s
    BY <1>2, Zenon DEF Chapter!chapterVars, Told
<1>3. CASE s = "none" /\ t = "running"
  <2>1. /\ 1 \in DOMAIN PhaseOf(t) /\ 1 \notin DOMAIN PhaseOf(s)
        /\ \A v \in DOMAIN PhaseOf(s) : PhaseOf(s)[v] \notin {"running", "paused"}
        /\ PhaseOf(t) = [v \in DOMAIN PhaseOf(s) \cup {1} |->
                            IF v = 1 THEN "running" ELSE PhaseOf(s)[v]]
    BY <1>3, PhaseBegins
  <2>2. 1 \in DOMAIN PhaseOf(t) /\ Chapter!Begin(1)
    BY <2>1, Zenon DEF Chapter!Begin, Chapter!Live, PhaseOf, Told
  <2>3. QED BY <2>2, Zenon DEF Chapter!Next, PhaseOf
<1>4. ASSUME s # "none", t # "none"
      PROVE  /\ 1 \in DOMAIN PhaseOf(s)
             /\ \A sources, target :
                    s \in sources /\ t = target => Chapter!Move(1, sources, target)
  <2>1. /\ 1 \in DOMAIN PhaseOf(s) /\ PhaseOf(s)[1] = s
        /\ PhaseOf(t) = [PhaseOf(s) EXCEPT ![1] = t]
    BY <1>4, PhasesTurn
  <2>2. ASSUME NEW sources, NEW target, s \in sources, t = target
        PROVE  Chapter!Move(1, sources, target)
    BY <2>1, <2>2, Zenon DEF Chapter!Move, PhaseOf, Told
  <2>3. QED BY <2>1, <2>2
<1>5. CASE s = "running" /\ t = "paused"
  <2>1. 1 \in DOMAIN PhaseOf(s) /\ Chapter!Pause(1)
    BY <1>4, <1>5 DEF Chapter!Pause
  <2>2. QED BY <2>1, Zenon DEF Chapter!Next, PhaseOf
<1>6. CASE s = "paused" /\ t = "running"
  <2>1. 1 \in DOMAIN PhaseOf(s) /\ Chapter!Resume(1)
    BY <1>4, <1>6 DEF Chapter!Resume
  <2>2. QED BY <2>1, Zenon DEF Chapter!Next, PhaseOf
<1>7. CASE s \in {"running", "paused"} /\ t = "failed"
  <2>1. 1 \in DOMAIN PhaseOf(s) /\ Chapter!Fail(1)
    BY <1>4, <1>7 DEF Chapter!Fail, Chapter!Live
  <2>2. QED BY <2>1, Zenon DEF Chapter!Next, PhaseOf
<1>8. CASE s \in {"running", "paused"} /\ t = "cancelled"
  <2>1. 1 \in DOMAIN PhaseOf(s) /\ Chapter!Cancel(1)
    BY <1>4, <1>8 DEF Chapter!Cancel, Chapter!Live
  <2>2. QED BY <2>1, Zenon DEF Chapter!Next, PhaseOf
<1>9. CASE s # "none" /\ t = "completed_needs_review" /\ s # t
  <2>1. s \in {"running", "paused"} \cup {"failed", "cancelled", "completed"}
    BY <1>1, <1>9 DEF RunStatuses, Terminal
  <2>2. 1 \in DOMAIN PhaseOf(s) /\ Chapter!Review(1)
    BY <1>4, <1>9, <2>1 DEF Chapter!Review, Chapter!Live
  <2>3. QED BY <2>2, Zenon DEF Chapter!Next, PhaseOf
<1>10. QED BY <1>2, <1>3, <1>5, <1>6, <1>7, <1>8, <1>9 DEF Turns

LEMMA OrdinaryTells ==
    ASSUME Ordinary
    PROVE  chapter'.accepted = chapter.accepted /\ Told' = Told
BY DEF Ordinary, FactsStay, Told

LEMMA NodeTurns ==
    ASSUME WorkflowInv, WorkflowAssumption, Begun, NEW e \in Executions, Node(e), ~Accept(e)
    PROVE  Turns(run.status, run'.status)
<1>1. CASE \/ Enter(e) \/ Read(e) \/ Claim(e) \/ Answer(e) \/ CallFails(e) \/ CallBlocked(e)
           \/ SaveFacts(e) \/ Decide(e)
    BY <1>1, QuietSteps DEF Turns
<1>2. CASE \/ Initialize(e) \/ Reuse(e) \/ SaveDraft(e) \/ SaveRevision(e)
           \/ SaveEvaluation(e) \/ Compare(e) \/ Reject(e)
    BY <1>2, WritingSteps DEF Turns
<1>3. CASE Advance(e)
    BY <1>3 DEF Advance, Turns, rows
<1>4. CASE NeedsReview(e)
  <2>1. run'.status = "completed_needs_review"
    <3>1. ShowBest /\ UNCHANGED <<keyed, latest, comparison>>
      BY <1>4, Zenon DEF NeedsReview
    <3>2. QED BY <3>1, BestIsShown
  <2>2. run.status # "none"
    BY <1>4 DEF Begun, NeedsReview, AtNode, At
  <2>3. QED BY <2>1, <2>2 DEF Turns
<1>5. QED BY <1>1, <1>2, <1>3, <1>4 DEF Node

LEMMA HandlerTurns ==
    ASSUME WorkflowInv, WorkflowAssumption, Begun, NEW e \in Executions, Handler(e)
    PROVE  Turns(run.status, run'.status)
<1>1. run \in RunRows /\ run.status \in RunStatuses
    BY RowsOf DEF RunRows
<1>2. {"paused", "cancelled", "failed"} \subseteq RunStatuses
    BY DEF RunStatuses, Terminal
<1>3. run.status # "none"
    BY DEF Begun, Handler, Pause, CancelAtNode, Fail, Block, Review, AtNode, At
<1>4. run.status \notin Terminal => run.status \in {"running", "paused"}
    BY <1>1, <1>3 DEF RunStatuses
<1>5. CASE Pause(e)
  <2> DEFINE s == IF run.status \in Terminal THEN run.status ELSE "paused"
  <2>1. run' = Turned(run, s)
    BY <1>5, Zenon DEF Pause, Turned
  <2>2. s \in RunStatuses /\ (s = run.status \/ (run.status \notin Terminal /\ s = "paused"))
    BY <1>1, <1>2
  <2> HIDE DEF s
  <2>3. run'.status = s
    BY <1>1, <2>1, <2>2, RunTurns
  <2>4. QED BY <1>4, <2>2, <2>3 DEF Turns
<1>6. CASE CancelAtNode(e)
  <2>1. run' = run \/ (run.status \notin Terminal \ {"cancelled"} /\ run' = Turned(run, "cancelled"))
    BY <1>6, Zenon DEF CancelAtNode, Turned
  <2>2. Turned(run, "cancelled").status = "cancelled"
    BY <1>1, <1>2, RunTurns
  <2>3. QED BY <1>4, <2>1, <2>2 DEF Turns
<1>7. CASE Fail(e)
  <2>1. run' = run \/ (run.status \notin Terminal /\ run' = Turned(run, "failed"))
    BY <1>7, Zenon DEF Fail, Turned
  <2>2. Turned(run, "failed").status = "failed"
    BY <1>1, <1>2, RunTurns
  <2>3. QED BY <1>4, <2>1, <2>2 DEF Turns
<1>8. CASE Block(e)
    BY <1>8, QuietSteps DEF Turns
<1>9. CASE Review(e)
  <2>1. ShowBest /\ UNCHANGED <<keyed, latest, comparison>>
    BY <1>9, Zenon DEF Review
  <2>2. QED BY <1>3, <2>1, BestIsShown DEF Turns
<1>10. QED BY <1>5, <1>6, <1>7, <1>8, <1>9 DEF Handler

LEMMA OutsideTurns ==
    ASSUME WorkflowInv, WorkflowAssumption, Abort \/ Recover \/ OutsideBegin \/ OutsideEnd
    PROVE  Turns(run.status, run'.status)
<1>1. run \in RunRows /\ {"paused", "cancelled"} \subseteq RunStatuses
    BY RowsOf DEF RunStatuses, Terminal
<1>2. Turned(run, "paused").status = "paused" /\ Turned(run, "cancelled").status = "cancelled"
    BY <1>1, RunTurns
<1>3. CASE Abort
  <2>1. run.status \in {"running", "paused"} /\ run' = Turned(run, "cancelled")
    BY <1>3, Zenon DEF Abort, Turned
  <2>2. QED BY <1>2, <2>1 DEF Turns
<1>4. CASE Recover
  <2>1. run.status = "running" /\ run' = Turned(run, "paused")
    BY <1>4, Zenon DEF Recover, Turned
  <2>2. QED BY <1>2, <2>1 DEF Turns
<1>5. CASE OutsideBegin \/ OutsideEnd
    BY <1>5 DEF OutsideBegin, OutsideEnd, Turns
<1>6. QED BY <1>3, <1>4, <1>5

LEMMA StatusTurns ==
    ASSUME WorkflowInv, WorkflowAssumption, Begun, [Next]_vars,
           \A e \in Executions : ~Accept(e)
    PROVE  Turns(run.status, run'.status)
<1>1. CASE UNCHANGED vars
    BY <1>1 DEF vars, rows, Turns
<1>2. ASSUME NEW e \in Executions, Run(e) \/ Resume(e) \/ Node(e) \/ Handler(e) \/ Crash(e)
      PROVE  Turns(run.status, run'.status)
  <2>1. CASE Run(e) \/ Crash(e)
    BY <2>1 DEF Run, Crash, rows, Turns
  <2>2. CASE Resume(e)
    <3>1. run.status = "paused" /\ run' = Turned(run, "running") /\ run \in RunRows
      BY <2>2, RowsOf, Zenon DEF Resume, Turned
    <3>2. Turned(run, "running").status = "running"
      BY <3>1, RunTurns DEF RunStatuses
    <3>3. QED BY <3>1, <3>2 DEF Turns
  <2>3. CASE Node(e)
    BY <2>3, NodeTurns
  <2>4. CASE Handler(e)
    BY <2>4, HandlerTurns
  <2>5. QED BY <1>2, <2>1, <2>2, <2>3, <2>4
<1>3. ASSUME NEW wish, Ask(wish) PROVE Turns(run.status, run'.status)
    BY <1>3 DEF Ask, rows, Turns
<1>4. CASE Abort \/ Recover \/ OutsideBegin \/ OutsideEnd
    BY <1>4, OutsideTurns
<1>5. QED BY <1>1, <1>2, <1>3, <1>4 DEF Next

\* accept_version.
LEMMA PromotionIsLawful ==
    ASSUME WorkflowInv, WorkflowAssumption, Begun, NEW e \in Executions, Accept(e)
    PROVE  run'.status # "none" /\ [Chapter!Next]_(Chapter!chapterVars)
<1>1. run.status # "none" /\ thread[e].at.node = "accept_version" /\ run.status \in RunStatuses
    BY DEF Begun, Accept, AtNode, At, WorkflowInv, TypeOK
<1>2. CASE UNCHANGED <<run, chapter, version>>
    BY <1>1, <1>2, TurnIsLawful DEF Turns, Told
<1>3. CASE Promotes(e)
  <2> DEFINE v == Current(e)
  <2>1. /\ v \in Versions
        /\ \A u \in Versions : version'[u].facts = "accepted" <=> u = v
    BY <1>1, <1>3, PromotedRows
  <2>2. v \in Nat \ {0} /\ v \in Ids
    BY <2>1 DEF Versions, Ids, WorkflowAssumption
  <2>3. Told' = {v}
    BY <2>1 DEF Told
  <2>4. /\ chapter'.accepted = v
        /\ run' = Concluded(run, "completed", v, v, v)
    BY <1>3 DEF Promotes
  <2> HIDE DEF v
  <2>5. run'.status = "completed"
    <3>1. "completed" \in RunStatuses /\ run \in RunRows
      BY RowsOf DEF RunStatuses, Terminal
    <3>2. QED BY <2>2, <2>4, <3>1, RunConcludes
  <2>6. /\ 1 \in DOMAIN PhaseOf(run.status)
        /\ PhaseOf(run'.status) = [PhaseOf(run.status) EXCEPT ![1] = "completed"]
    BY <1>1, <2>5, PhasesTurn
  <2>7. chapter'.accepted \in Nat \ {0} /\ Told' = {chapter'.accepted}
    BY <2>2, <2>3, <2>4
  <2>8. Chapter!Promote(1) /\ 1 \in DOMAIN PhaseOf(run.status)
    BY <2>6, <2>7, Zenon DEF Chapter!Promote, PhaseOf, Told
  <2>9. Chapter!Next
    BY <2>8, Zenon DEF Chapter!Next, PhaseOf
  <2>10. QED BY <2>5, <2>9
<1>4. QED BY <1>1, <1>2, <1>3, AcceptCases

LEMMA StepIsLawful ==
    ASSUME WorkflowInv, WorkflowAssumption, Begun, [Next]_vars
    PROVE  [Chapter!Next]_(Chapter!chapterVars)
<1>1. CASE \A e \in Executions : ~Accept(e)
  <2>1. Ordinary
    BY <1>1, StepsAreOrdinary
  <2>2. Turns(run.status, run'.status)
    BY <1>1, StatusTurns
  <2>3. chapter'.accepted = chapter.accepted /\ Told' = Told
    BY <2>1, OrdinaryTells
  <2>4. QED BY <2>2, <2>3, TurnIsLawful
<1>2. CASE \E e \in Executions : Accept(e)
    BY <1>2, PromotionIsLawful
<1>3. QED BY <1>1, <1>2

LEMMA IdlingIsBegun ==
    ASSUME WorkflowInv, WorkflowAssumption, Begun, run.status = "none",
           NEW e \in Executions, NEW u, thread' = [thread EXCEPT ![e] = u],
           u.pc = "idle" \/ (u.pc = "enter" /\ u.at = StartPosition)
    PROVE  Begun'
<1>1. thread \in [Executions -> Threads]
    BY InvParts
<1>2. thread'[e] = u /\ \A d \in Executions : d # e => thread'[d] = thread[d]
    BY <1>1
<1>3. StartPosition.node = "initialize_workflow"
    BY DEF StartPosition
<1>4. ASSUME NEW d \in Executions
      PROVE  \/ thread'[d].pc = "idle"
             \/ thread'[d].pc = "enter" /\ thread'[d].at.node = "initialize_workflow"
    BY <1>2, <1>3 DEF Begun, At, AtNode
<1>5. QED BY <1>4 DEF Begun, At, AtNode

LEMMA StepKeepsBegun ==
    ASSUME WorkflowInv, WorkflowAssumption, Begun, [Next]_vars
    PROVE  Begun'
<1>1. CASE run'.status # "none"
    BY <1>1 DEF Begun
<1>2. CASE run'.status = "none"
  <2>1. \A e \in Executions : ~Accept(e)
    BY <1>2, PromotionIsLawful
  <2>2. run.status = "none"
    BY <1>2, <2>1, StatusTurns DEF Turns
  <2>3. CASE UNCHANGED thread
    BY <2>2, <2>3 DEF Begun, At, AtNode
  <2>4. ASSUME NEW e \in Executions, Node(e) \/ Handler(e) PROVE Initialize(e)
    <3>1. At(e, "idle") \/ AtNode(e, "enter", {"initialize_workflow"})
      BY <2>2 DEF Begun
    <3>2. ~Handler(e)
      BY <3>1 DEF Handler, Pause, CancelAtNode, Fail, Block, Review, At, AtNode
    <3>3. /\ ~Enter(e) /\ ~Advance(e) /\ ~Read(e) /\ ~Reuse(e) /\ ~Claim(e) /\ ~Answer(e)
          /\ ~CallFails(e) /\ ~CallBlocked(e)
      BY <3>1 DEF Enter, Advance, Read, Reuse, Claim, Answer, CallFails, CallBlocked, At, AtNode
    <3>4. /\ ~SaveDraft(e) /\ ~SaveRevision(e) /\ ~SaveFacts(e) /\ ~SaveEvaluation(e)
          /\ ~Decide(e) /\ ~Compare(e) /\ ~Reject(e) /\ ~Accept(e) /\ ~NeedsReview(e)
      BY <3>1 DEF SaveDraft, SaveRevision, SaveFacts, SaveEvaluation, Decide, Compare, Reject,
                  Accept, NeedsReview, At, AtNode
    <3>5. QED BY <2>4, <3>2, <3>3, <3>4 DEF Node
  <2>5. ASSUME NEW e \in Executions, Initialize(e) PROVE FALSE
    <3>1. run' = Concluded(run, "running", chapter.current, chapter.current, chapter.accepted)
      BY <2>2, <2>5, Zenon DEF Initialize, Concluded
    <3>2. /\ run \in RunRows /\ "running" \in RunStatuses
          /\ chapter.current \in Ids /\ chapter.accepted \in Ids
      BY RowsOf DEF RunStatuses
    <3>3. run'.status = "running"
      BY <3>1, <3>2, RunConcludes
    <3>4. QED BY <1>2, <3>3
  <2>6. ASSUME NEW e \in Executions, Run(e) \/ Resume(e) \/ Crash(e) PROVE Begun'
    <3>1. ~Resume(e)
      BY <2>2 DEF Resume
    <3>2. CASE Run(e)
      <4> DEFINE u == [pc |-> "enter", at |-> StartPosition, first |-> TRUE]
      <4>1. thread' = [thread EXCEPT ![e] = u]
        BY <3>2, Zenon DEF Run
      <4>2. u.pc = "enter" /\ u.at = StartPosition
        OBVIOUS
      <4> HIDE DEF u
      <4>3. QED BY <2>2, <4>1, <4>2, IdlingIsBegun
    <3>3. CASE Crash(e)
      <4>1. thread' = [thread EXCEPT ![e] = IdleThread] /\ IdleThread.pc = "idle"
        BY <3>3, Zenon DEF Crash, IdleThread
      <4>2. QED BY <2>2, <4>1, IdlingIsBegun
    <3>4. QED BY <2>6, <3>1, <3>2, <3>3
  <2>7. CASE (\E wish \in Requests : Ask(wish)) \/ Abort \/ Recover \/ OutsideBegin \/ OutsideEnd
    BY <2>3, <2>7 DEF Ask, Abort, Recover, OutsideBegin, OutsideEnd
  <2>8. CASE UNCHANGED vars
    BY <2>3, <2>8 DEF vars
  <2>9. QED BY <2>4, <2>5, <2>6, <2>7, <2>8 DEF Next
<1>3. QED BY <1>1, <1>2

LEMMA InitIsLawful ==
    ASSUME Init, WorkflowAssumption
    PROVE  Chapter!Init /\ Begun
<1>1. run.status = "none" /\ \A e \in Executions : thread[e].pc = "idle"
    BY DEF Init, IdleThread
<1>2. WorkflowInv
    BY InitInv
<1>3. chapter.accepted \in Ids /\ CanonicalFacts
    BY <1>2, RowsOf DEF WorkflowInv
<1>4. Ids \subseteq Nat /\ Ids = {0} \cup Versions /\ 0 \notin Versions
    BY DEF Ids, Versions, WorkflowAssumption
<1>5. Told = {chapter.accepted} \ {0}
    BY <1>3, <1>4 DEF Told, CanonicalFacts
<1>6. PhaseOf(run.status) = [w \in {} |-> "running"] /\ chapter.accepted \in Nat
    BY <1>1, <1>3, <1>4, PhaseOfOne
<1>7. Chapter!Init
    BY <1>5, <1>6, Zenon DEF Chapter!Init, PhaseOf, Told
<1>8. Begun
    BY <1>1 DEF Begun, At
<1>9. QED BY <1>7, <1>8

\* The nodes, their replays from a checkpoint, the handlers of run and resume,
\* lease recovery and a user's cancel are the chapter lifecycle: one live run,
\* whose completion is the one step in which the accepted version and the facts
\* that are told of it change, together; a run that is paused, fails or is
\* cancelled leaves both alone, and only a run that is live may do either.
THEOREM ChapterImplemented == Spec => ImplementsChapter
<1>1. Init => Chapter!Init /\ Begun
    BY WorkflowAssumption, InitIsLawful
<1>2. WorkflowInv /\ Begun /\ [Next]_vars =>
          Begun' /\ [Chapter!Next]_(Chapter!chapterVars)
    BY WorkflowAssumption, StepKeepsBegun, StepIsLawful
<1>3. QED BY <1>1, <1>2, WorkflowInvHolds, PTL DEF Spec, ImplementsChapter, Chapter!Spec
==============================================================================

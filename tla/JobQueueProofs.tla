--------------------------- MODULE JobQueueProofs ---------------------------
(***************************************************************************)
(* Theorems about JobQueue for every set of jobs, threads, processes and   *)
(* dispatchers and every value of the attempt limits.                      *)
(***************************************************************************)
EXTENDS JobQueue, TLAPS

-----------------------------------------------------------------------------
(***************************************************************************)
(* The operators on rows.                                                  *)
(***************************************************************************)

\* Replacing one element of a sequence keeps its type and its length.
LEMMA ReplaceType ==
    ASSUME NEW S, NEW s \in Seq(S), NEW i \in 1..Len(s), NEW e \in S
    PROVE  /\ [s EXCEPT ![i] = e] \in Seq(S)
           /\ Len([s EXCEPT ![i] = e]) = Len(s)
           /\ DOMAIN [s EXCEPT ![i] = e] = DOMAIN s
OBVIOUS

\* The idle values are well typed.
LEMMA IdleType ==
    /\ IdleSlot \in [pc : SlotPcs, job : Jobs, attempt : Nat]
    /\ IdleSlot.pc = "idle"
    /\ IdleDispatcher \in [pc : DispatcherPcs, job : Jobs, row : Nat]
    /\ IdleDispatcher.pc = "idle"
<1>1. (CHOOSE j \in Jobs : TRUE) \in Jobs
  BY JobQueueAssumption
<1>2. QED
  BY <1>1 DEF IdleSlot, IdleDispatcher, SlotPcs, DispatcherPcs

\* transition_job changes the status and, for a terminal target, the lease.
LEMMA TransitionType ==
    ASSUME NEW row \in JobRows, NEW target \in Statuses
    PROVE  /\ Transition(row, target) \in JobRows
           /\ Transition(row, target).status = target
           /\ Transition(row, target).attempt = row.attempt
           /\ Transition(row, target).maxAttempts = row.maxAttempts
           /\ Transition(row, target).worker \in {row.worker, NoProc}
           /\ (target \notin TerminalStatuses \/ target = row.status)
                 => /\ Transition(row, target).worker = row.worker
                    /\ Transition(row, target).lease = row.lease
           /\ (target \in TerminalStatuses /\ target # row.status)
                 => Transition(row, target).worker = NoProc
BY DEF JobRows, Transition

\* Two transitions in one transaction.
LEMMA TransitionTwice ==
    ASSUME NEW row \in JobRows, NEW first \in Statuses, NEW second \in Statuses
    PROVE  /\ Transition(Transition(row, first), second) \in JobRows
           /\ Transition(Transition(row, first), second).status = second
           /\ Transition(Transition(row, first), second).attempt = row.attempt
           /\ Transition(Transition(row, first), second).worker \in {row.worker, NoProc}
<1>1. /\ Transition(row, first) \in JobRows
      /\ Transition(row, first).attempt = row.attempt
      /\ Transition(row, first).worker \in {row.worker, NoProc}
  BY TransitionType
<1>2. QED
  BY <1>1, TransitionType

LEMMA DeadLetterType ==
    ASSUME NEW row \in JobRows
    PROVE  /\ DeadLetter(row) \in JobRows
           /\ DeadLetter(row).status = "dead_lettered"
           /\ DeadLetter(row).attempt = row.attempt
           /\ DeadLetter(row).maxAttempts = row.maxAttempts
           /\ DeadLetter(row).worker = NoProc
<1>1. "failed" \in Statuses /\ "dead_lettered" \in Statuses
  BY DEF Statuses
<1>2. Transition(row, "failed") \in JobRows /\ Transition(row, "failed").status = "failed"
  BY <1>1, TransitionType
<1>3. QED
  BY <1>1, <1>2, TransitionType DEF DeadLetter, TerminalStatuses

LEMMA RescheduledType ==
    ASSUME NEW row \in JobRows
    PROVE  /\ Rescheduled(row) \in JobRows
           /\ Rescheduled(row).status = "retry_scheduled"
           /\ Rescheduled(row).attempt = row.attempt
           /\ Rescheduled(row).maxAttempts = row.maxAttempts
           /\ Rescheduled(row).worker = NoProc
<1>1. "retry_scheduled" \in Statuses
  BY DEF Statuses
<1>2. QED
  BY ZenonT(60), <1>1, TransitionType DEF Rescheduled, JobRows

\* The two ways of adding an outbox row append one pending row, or none.
LEMMA OutboxType ==
    ASSUME NEW rows \in Seq(OutboxRows), NEW row \in JobRows,
           NEW key \in Reasons \X Nat
    PROVE  /\ NewRow(key) \in OutboxRows
           /\ CreateOutbox(rows, key) \in Seq(OutboxRows)
           /\ DOMAIN rows \subseteq DOMAIN CreateOutbox(rows, key)
           /\ RetryOutbox(rows, row) \in Seq(OutboxRows)
           /\ DOMAIN rows \subseteq DOMAIN RetryOutbox(rows, row)
<1>1. ASSUME NEW k \in Reasons \X Nat PROVE NewRow(k) \in OutboxRows
  BY JobQueueAssumption DEF NewRow, OutboxRows, RowStatuses
<1>2. <<"attempt", row.attempt + 1>> \in Reasons \X Nat
  BY DEF JobRows, Reasons
<1>3. ASSUME NEW r \in OutboxRows
      PROVE  Append(rows, r) \in Seq(OutboxRows) /\ DOMAIN rows \subseteq DOMAIN Append(rows, r)
  OBVIOUS
<1>4. QED
  BY <1>1, <1>2, <1>3 DEF CreateOutbox, RetryOutbox

-----------------------------------------------------------------------------
(***************************************************************************)
(* Type correctness.  TypeOK is not inductive alone: a dispatcher writes   *)
(* to the row it holds, so that row must exist.                            *)
(***************************************************************************)

\* A dispatcher in flight holds an existing outbox row.
InFlight ==
    \A d \in Dispatchers : disp[d].pc # "idle" =>
        disp[d].row \in DOMAIN outbox[disp[d].job]

TypeInv == TypeOK /\ InFlight

\* No outbox row is ever deleted.
RowsGrow == \A j \in Jobs : DOMAIN outbox[j] \subseteq DOMAIN outbox'[j]

LEMMA SetJobType ==
    ASSUME TypeOK, NEW j \in Jobs, NEW row \in JobRows, SetJob(j, row)
    PROVE  job' \in [Jobs -> JobRows] /\ job'[j] = row
           /\ \A k \in Jobs : k # j => job'[k] = job[k]
BY DEF TypeOK, SetJob

LEMMA SetRowsType ==
    ASSUME TypeOK, NEW j \in Jobs, NEW rows \in Seq(OutboxRows), SetRows(j, rows),
           DOMAIN outbox[j] \subseteq DOMAIN rows
    PROVE  outbox' \in [Jobs -> Seq(OutboxRows)] /\ RowsGrow
BY DEF TypeOK, SetRows, RowsGrow

LEMMA SetRowType ==
    ASSUME TypeOK, NEW j \in Jobs, NEW i \in DOMAIN outbox[j],
           NEW row \in OutboxRows, SetRow(j, i, row)
    PROVE  outbox' \in [Jobs -> Seq(OutboxRows)] /\ RowsGrow
<1>1. outbox[j] \in Seq(OutboxRows) /\ i \in 1..Len(outbox[j])
  BY DEF TypeOK
<1>2. /\ [outbox[j] EXCEPT ![i] = row] \in Seq(OutboxRows)
      /\ DOMAIN outbox[j] \subseteq DOMAIN [outbox[j] EXCEPT ![i] = row]
  BY <1>1, ReplaceType
<1>3. QED
  BY <1>2, SetRowsType DEF SetRow

LEMMA SameRowsType ==
    ASSUME TypeOK, UNCHANGED outbox
    PROVE  outbox' \in [Jobs -> Seq(OutboxRows)] /\ RowsGrow
BY DEF TypeOK, RowsGrow

\* A step that only adds rows and leaves the dispatchers alone is in order.
LEMMA InFlightKept ==
    ASSUME TypeOK, InFlight, RowsGrow, UNCHANGED disp
    PROVE  InFlight'
BY DEF TypeOK, InFlight, RowsGrow

LEMMA InitialMaxType == InitialMaxAttempts \in Nat
BY JobQueueAssumption DEF InitialMaxAttempts

LEMMA InitType == Init => TypeInv
<1> SUFFICES ASSUME Init PROVE TypeInv
  OBVIOUS
<1>1. AbsentJob \in JobRows
  BY InitialMaxType DEF AbsentJob, JobRows, Statuses
<1>2. job \in [Jobs -> JobRows]
  BY <1>1 DEF Init
<1>3. outbox \in [Jobs -> Seq(OutboxRows)] /\ queue \in [Jobs -> 0..MaxMessages]
  BY JobQueueAssumption DEF Init
<1>4. /\ exec \in [Slots -> [pc : SlotPcs, job : Jobs, attempt : Nat]]
      /\ disp \in [Dispatchers -> [pc : DispatcherPcs, job : Jobs, row : Nat]]
  BY IdleType DEF Init
<1>5. asks \in 0..MaxAsks /\ faults \in 0..MaxFaults
  BY JobQueueAssumption DEF Init
<1>6. InFlight
  BY IdleType DEF Init, InFlight
<1>7. QED
  BY <1>2, <1>3, <1>4, <1>5, <1>6 DEF TypeInv, TypeOK

\* The requests of an operator, and create.
LEMMA AskType ==
    ASSUME TypeOK, NEW r, Ask(r)
    PROVE  asks' \in 0..MaxAsks /\ UNCHANGED <<queue, exec, disp, faults>>
BY JobQueueAssumption DEF TypeOK, Ask

LEMMA OperatorType ==
    ASSUME TypeInv, NEW j \in Jobs, Create(j) \/ Operator(j)
    PROVE  TypeInv'
<1> USE DEF TypeInv
<1>0. job[j] \in JobRows /\ outbox[j] \in Seq(OutboxRows)
  BY DEF TypeOK
<1>1. \A n \in Nat : \A r \in Reasons : <<r, n>> \in Reasons \X Nat
  OBVIOUS
<1>2. job[j].attempt + 1 \in Nat /\ job[j].attempt + RegistryAttempts \in Nat
  BY <1>0, JobQueueAssumption DEF JobRows
<1>3. {"outbox_pending", "pause_requested", "paused", "cancel_requested", "cancelled"}
         \subseteq Statuses
  BY DEF Statuses
<1>4. {"create", "resume", "dlq-retry"} \subseteq Reasons
  BY DEF Reasons
<1>5. CASE Create(j)
  <2>1. [job[j] EXCEPT !.status = "outbox_pending"] \in JobRows
    BY <1>0, <1>3 DEF JobRows
  <2>2. job' \in [Jobs -> JobRows]
    BY <1>5, <2>1, SetJobType DEF Create
  <2>3. outbox' \in [Jobs -> Seq(OutboxRows)] /\ RowsGrow
    BY <1>0, <1>1, <1>4, <1>5, OutboxType, SetRowsType DEF Create
  <2>4. QED
    BY <1>5, <2>2, <2>3, InFlightKept DEF Create, TypeOK
<1>6. CASE Operator(j)
  <2>1. asks' \in 0..MaxAsks /\ UNCHANGED <<queue, exec, disp, faults>>
    BY <1>6, AskType
       DEF Operator, RequestCancel, RequestPause, Resume, RetryDeadLetter, DiscardDeadLetter
  <2>2. CASE RequestCancel(j)
    <3> DEFINE asked == Transition(job[j], "cancel_requested")
    <3>1. asked \in JobRows /\ Transition(asked, "cancelled") \in JobRows
      BY <1>0, <1>3, TransitionType
    <3>2. job' \in [Jobs -> JobRows]
      BY <2>2, <3>1, SetJobType DEF RequestCancel
    <3>3. QED
      BY <2>1, <2>2, <3>2, SameRowsType, InFlightKept DEF RequestCancel, TypeOK
  <2>3. CASE RequestPause(j)
    <3> DEFINE asked == Transition(job[j], "pause_requested")
    <3>1. asked \in JobRows /\ Transition(asked, "paused") \in JobRows
      BY <1>0, <1>3, TransitionType
    <3>2. job' \in [Jobs -> JobRows]
      BY <2>3, <3>1, SetJobType DEF RequestPause
    <3>3. QED
      BY <2>1, <2>3, <3>2, SameRowsType, InFlightKept DEF RequestPause, TypeOK
  <2>4. CASE Resume(j)
    <3>1. job' \in [Jobs -> JobRows]
      BY <1>0, <1>3, <2>4, TransitionType, SetJobType DEF Resume
    <3>2. outbox' \in [Jobs -> Seq(OutboxRows)] /\ RowsGrow
      BY <1>0, <1>1, <1>2, <1>4, <2>4, OutboxType, SetRowsType DEF Resume
    <3>3. QED
      BY <2>1, <3>1, <3>2, InFlightKept DEF TypeOK
  <2>5. CASE RetryDeadLetter(j)
    <3> DEFINE row == [Transition(job[j], "outbox_pending") EXCEPT
                          !.maxAttempts = job[j].attempt + RegistryAttempts,
                          !.due = TRUE]
    <3>1. Transition(job[j], "outbox_pending") \in JobRows
      BY <1>0, <1>3, TransitionType
    <3>2. row \in JobRows
      BY <1>2, <3>1 DEF JobRows
    <3>3. job' \in [Jobs -> JobRows]
      BY <2>5, <3>2, SetJobType DEF RetryDeadLetter
    <3>4. outbox' \in [Jobs -> Seq(OutboxRows)] /\ RowsGrow
      BY <1>0, <1>1, <1>2, <1>4, <2>5, OutboxType, SetRowsType DEF RetryDeadLetter
    <3>5. QED
      BY <2>1, <3>3, <3>4, InFlightKept DEF TypeOK
  <2>6. CASE DiscardDeadLetter(j)
    <3>1. [job[j] EXCEPT !.discarded = TRUE] \in JobRows
      BY <1>0 DEF JobRows
    <3>2. job' \in [Jobs -> JobRows]
      BY <2>6, <3>1, SetJobType DEF DiscardDeadLetter
    <3>3. QED
      BY <2>1, <2>6, <3>2, SameRowsType, InFlightKept DEF DiscardDeadLetter, TypeOK
  <2>7. QED
    BY <1>6, <2>2, <2>3, <2>4, <2>5, <2>6 DEF Operator
<1>7. QED
  BY <1>5, <1>6

\* The dispatcher: rows it holds exist, rows it writes are rows.
LEMMA DispatchType ==
    ASSUME TypeInv, NEW d \in Dispatchers, Dispatch(d) \/ DispatcherDies(d)
    PROVE  TypeInv'
<1> USE DEF TypeInv
<1>0. disp[d] \in [pc : DispatcherPcs, job : Jobs, row : Nat]
  BY DEF TypeOK
<1>1. CASE \E j \in Jobs : \E i \in DOMAIN outbox[j] : ClaimRow(d, j, i)
  <2>0. PICK j \in Jobs : \E i \in DOMAIN outbox[j] : ClaimRow(d, j, i)
    BY <1>1
  <2>1. PICK i \in DOMAIN outbox[j] : ClaimRow(d, j, i)
    BY <2>0
  <2> DEFINE row == [outbox[j][i] EXCEPT
                        !.status = "claimed",
                        !.attempt = IF @ < JobMaxAttempts THEN @ + 1 ELSE @]
  <2>2. outbox[j][i] \in OutboxRows /\ i \in Nat
    BY DEF TypeOK
  <2>3. row \in OutboxRows
    <3> DEFINE a == outbox[j][i].attempt
               n == IF a < JobMaxAttempts THEN a + 1 ELSE a
    <3>1. a \in 0..JobMaxAttempts
      BY <2>2 DEF OutboxRows
    <3>2. n \in 0..JobMaxAttempts
      BY <3>1, JobQueueAssumption
    <3>3. [outbox[j][i] EXCEPT !.status = "claimed", !.attempt = n] \in OutboxRows
      BY <2>2, <3>2 DEF OutboxRows, RowStatuses
    <3>4. QED
      BY <3>3
  <2>4. outbox' \in [Jobs -> Seq(OutboxRows)] /\ RowsGrow
    BY <2>1, <2>3, SetRowType DEF ClaimRow
  <2>5. disp' = [disp EXCEPT ![d] = [pc |-> "claimed", job |-> j, row |-> i]]
    BY <2>1 DEF ClaimRow
  <2>6. disp' \in [Dispatchers -> [pc : DispatcherPcs, job : Jobs, row : Nat]]
    BY <2>2, <2>5 DEF TypeOK, DispatcherPcs
  <2>7. InFlight'
    BY <2>4, <2>5 DEF TypeOK, InFlight, RowsGrow
  <2>8. QED
    BY <2>1, <2>4, <2>6, <2>7 DEF ClaimRow, DispatchStep, TypeOK
<1>2. CASE Publish(d)
  <2>1. queue' \in [Jobs -> 0..MaxMessages]
    BY <1>0, <1>2, JobQueueAssumption DEF Publish, TypeOK
  <2>2. disp' \in [Dispatchers -> [pc : DispatcherPcs, job : Jobs, row : Nat]]
    BY <1>2 DEF Publish, TypeOK, DispatcherPcs
  <2>3. InFlight'
    BY <1>2 DEF Publish, TypeOK, InFlight
  <2>4. QED
    BY <1>2, <2>1, <2>2, <2>3 DEF Publish, DispatchStep, TypeOK
<1>3. CASE RecordPublished(d) \/ RecordFailure(d)
  <2> DEFINE j == disp[d].job
             i == disp[d].row
  <2>1. j \in Jobs /\ i \in DOMAIN outbox[j]
    BY SMTT(60), <1>0, <1>3 DEF InFlight, RecordPublished, RecordFailure
  <2>2. outbox[j][i] \in OutboxRows /\ job[j] \in JobRows
    BY <2>1 DEF TypeOK
  <2>3. job' \in [Jobs -> JobRows]
    <3>1. Queued(job[j]) \in JobRows
      BY <2>2 DEF Queued, JobRows, Statuses
    <3>2. DeadLetter(job[j]) \in JobRows
      BY <2>2, DeadLetterType
    <3>3. QED
      BY SMTT(60), <1>3, <2>1, <2>2, <3>1, <3>2, SetJobType DEF RecordPublished, RecordFailure
  <2>4. outbox' \in [Jobs -> Seq(OutboxRows)] /\ RowsGrow
    <3>1. \A st \in RowStatuses : [outbox[j][i] EXCEPT !.status = st] \in OutboxRows
      BY <2>2 DEF OutboxRows
    <3>2. QED
      BY ZenonT(60), <1>3, <2>1, <3>1, SetRowType DEF RecordPublished, RecordFailure, RowStatuses
  <2>5. disp' = [disp EXCEPT ![d] = IdleDispatcher]
    BY SMTT(60), <1>3 DEF RecordPublished, RecordFailure
  <2>6. disp' \in [Dispatchers -> [pc : DispatcherPcs, job : Jobs, row : Nat]]
    BY <2>5, IdleType DEF TypeOK
  <2>7. InFlight'
    BY <2>4, <2>5, IdleType DEF TypeOK, InFlight, RowsGrow
  <2>8. UNCHANGED <<queue, exec, asks>> /\ faults' \in 0..MaxFaults
    BY <1>3, JobQueueAssumption
       DEF RecordPublished, RecordFailure, DispatchStep, Fault, TypeOK
  <2>9. QED
    BY <2>3, <2>4, <2>6, <2>7, <2>8 DEF TypeOK
<1>4. CASE DispatcherDies(d)
  <2>1. faults' \in 0..MaxFaults
    BY <1>4, JobQueueAssumption DEF DispatcherDies, Fault, TypeOK
  <2>2. disp' \in [Dispatchers -> [pc : DispatcherPcs, job : Jobs, row : Nat]]
    BY <1>4, IdleType DEF DispatcherDies, TypeOK
  <2>3. InFlight'
    BY <1>4, IdleType DEF DispatcherDies, TypeOK, InFlight
  <2>4. QED
    BY <1>4, <2>1, <2>2, <2>3 DEF DispatcherDies, TypeOK
<1>5. QED
  BY <1>1, <1>2, <1>3, <1>4 DEF Dispatch

\* The recovery loops and the passing of time.
LEMMA MaintainType ==
    ASSUME TypeInv, NEW j \in Jobs, Maintain(j)
    PROVE  TypeInv'
<1> USE DEF TypeInv
<1>0. job[j] \in JobRows /\ outbox[j] \in Seq(OutboxRows)
  BY DEF TypeOK
<1>1. UNCHANGED <<queue, exec, disp, asks, faults>>
  BY DEF Maintain, RecoverStranded, RecoverExpired, LeaseExpires, BecomesDue, ExecStep
<1>2. job' \in [Jobs -> JobRows] /\ outbox' \in [Jobs -> Seq(OutboxRows)] /\ RowsGrow
  <2>1. CASE RecoverStranded(j)
    <3> DEFINE last == Len(outbox[j])
    <3>1. Transition(job[j], "retry_scheduled") \in JobRows
      BY <1>0, TransitionType DEF Statuses
    <3>2. [Transition(job[j], "retry_scheduled") EXCEPT !.due = TRUE] \in JobRows
      BY <3>1 DEF JobRows
    <3>3. last \in DOMAIN outbox[j] /\ outbox[j][last] \in OutboxRows
      BY <1>0, <2>1 DEF RecoverStranded
    <3>4. [outbox[j][last] EXCEPT !.status = "pending"] \in OutboxRows
      BY <3>3 DEF OutboxRows, RowStatuses
    <3>5. QED
      BY <2>1, <3>2, <3>3, <3>4, SetJobType, SetRowType DEF RecoverStranded
  <2>2. CASE RecoverExpired(j)
    <3>1. DeadLetter(job[j]) \in JobRows /\ Rescheduled(job[j]) \in JobRows
      BY <1>0, DeadLetterType, RescheduledType
    <3>2. <<"create", 0>> \in Reasons \X Nat
      BY DEF Reasons
    <3>3. /\ RetryOutbox(outbox[j], job[j]) \in Seq(OutboxRows)
          /\ DOMAIN outbox[j] \subseteq DOMAIN RetryOutbox(outbox[j], job[j])
      BY <1>0, <3>2, OutboxType
    <3>4. QED
      BY <1>0, <2>2, <3>1, <3>3, SetJobType, SetRowsType DEF RecoverExpired
  <2>3. CASE LeaseExpires(j) \/ BecomesDue(j)
    <3>1. /\ [job[j] EXCEPT !.lease = "expired"] \in JobRows
          /\ [job[j] EXCEPT !.due = TRUE] \in JobRows
      BY <1>0 DEF JobRows
    <3>2. QED
      BY <2>3, <3>1, SetJobType, SameRowsType DEF LeaseExpires, BecomesDue
  <2>4. QED
    BY <2>1, <2>2, <2>3 DEF Maintain
<1>3. QED
  BY <1>1, <1>2, InFlightKept DEF TypeOK

LEMMA ExecIdle ==
    ASSUME TypeOK, NEW s \in Slots, exec' = [exec EXCEPT ![s] = IdleSlot]
    PROVE  exec' \in [Slots -> [pc : SlotPcs, job : Jobs, attempt : Nat]]
BY IdleType DEF TypeOK

\* Where the outcome transactions take the job.
LEMMA OutcomeRows ==
    ASSUME NEW row \in JobRows
    PROVE  /\ Transition(row, SuccessTarget(row.status)) \in JobRows
           /\ Transition(row, "cancelled") \in JobRows
           /\ Transition(row, "failed") \in JobRows
           /\ [Transition(row, "paused") EXCEPT !.worker = NoProc, !.lease = "none"]
                 \in JobRows
<1>1. {SuccessTarget(row.status), "cancelled", "failed", "paused"} \subseteq Statuses
  BY DEF SuccessTarget, Statuses
<1>2. \A t \in Statuses : Transition(row, t) \in JobRows
  BY TransitionType
<1>3. Transition(row, "paused") \in JobRows
  BY <1>1, <1>2
<1>4. [Transition(row, "paused") EXCEPT !.worker = NoProc, !.lease = "none"] \in JobRows
  BY <1>3 DEF JobRows
<1>5. QED
  BY <1>1, <1>2, <1>4

\* An executor thread.
LEMMA ExecuteType ==
    ASSUME TypeInv, NEW s \in Slots, Execute(s) \/ ExecutorDies(s)
    PROVE  TypeInv'
<1> USE DEF TypeInv
<1> DEFINE k == exec[s].job
<1>0. exec[s] \in [pc : SlotPcs, job : Jobs, attempt : Nat]
      /\ k \in Jobs /\ job[k] \in JobRows /\ outbox[k] \in Seq(OutboxRows)
  BY DEF TypeOK
<1>1. CASE \E j \in Jobs : Claim(s, j) \/ DropMessage(s, j)
  <2>1. PICK j \in Jobs : Claim(s, j) \/ DropMessage(s, j)
    BY <1>1
  <2>2. queue' \in [Jobs -> 0..MaxMessages]
    <3>1. queue \in [Jobs -> 0..MaxMessages] /\ queue[j] \in 0..MaxMessages
      BY DEF TypeOK
    <3>2. queue[j] > 0 => queue[j] - 1 \in 0..MaxMessages
      BY <3>1, JobQueueAssumption
    <3>3. queue[j] > 0 /\ queue' = [queue EXCEPT ![j] = @ - 1]
      BY <2>1 DEF Claim, DropMessage
    <3>4. QED
      BY <3>1, <3>2, <3>3
  <2>3. CASE DropMessage(s, j)
    BY <2>2, <2>3, SameRowsType, InFlightKept DEF DropMessage, ExecStep, TypeOK
  <2>4. CASE Claim(s, j)
    <3> DEFINE row == Started(job[j], ProcOf[s])
    <3>1. job[j] \in JobRows /\ ProcOf[s] \in Procs
      BY JobQueueAssumption DEF TypeOK
    <3>2. row \in JobRows /\ job[j].attempt + 1 \in Nat
      <4> DEFINE n == job[j].attempt + 1
      <4>1. n \in Nat
        BY <3>1 DEF JobRows
      <4>2. [job[j] EXCEPT !.status = "running", !.worker = ProcOf[s], !.lease = "live",
                           !.attempt = n, !.started = TRUE] \in JobRows
        BY <3>1, <4>1 DEF JobRows, Statuses
      <4>3. QED
        BY <4>1, <4>2 DEF Started
    <3>3. job' \in [Jobs -> JobRows]
      BY <2>4, <3>2, SetJobType DEF Claim
    <3>4. exec' \in [Slots -> [pc : SlotPcs, job : Jobs, attempt : Nat]]
      BY <2>4, <3>2 DEF Claim, TypeOK, SlotPcs
    <3>5. QED
      BY <2>2, <2>4, <3>3, <3>4, SameRowsType, InFlightKept DEF Claim, ExecStep, TypeOK
  <2>5. QED
    BY <2>1, <2>3, <2>4
<1>2. CASE Heartbeat(s)
  <2>1. [job[k] EXCEPT !.lease = "live"] \in JobRows
    BY <1>0 DEF JobRows
  <2>2. job' \in [Jobs -> JobRows]
    BY <1>0, <1>2, <2>1, SetJobType DEF Heartbeat
  <2>3. QED
    BY <1>2, <2>2, SameRowsType, InFlightKept DEF Heartbeat, ExecStep, TypeOK
<1>3. CASE ObserveControl(s)
  <2>1. exec' \in [Slots -> [pc : SlotPcs, job : Jobs, attempt : Nat]]
    <3>1. PICK pc \in {"cancel", "pause"} : exec' = [exec EXCEPT ![s].pc = pc]
      BY <1>3 DEF ObserveControl
    <3>2. [exec[s] EXCEPT !.pc = pc] \in [pc : SlotPcs, job : Jobs, attempt : Nat]
      BY <1>0 DEF SlotPcs
    <3>3. QED
      BY <3>1, <3>2 DEF TypeOK
  <2>2. QED
    BY <1>3, <2>1, SameRowsType, InFlightKept DEF ObserveControl, ExecStep, TypeOK
<1>4. CASE Outcome(s)
  <2>1. UNCHANGED <<queue, disp, asks, faults>>
    BY <1>4 DEF Outcome, Succeed, CancelAtBoundary, PauseAtBoundary, RetryOrDeadLetter,
                Fail, ExecStep
  <2>2. exec' \in [Slots -> [pc : SlotPcs, job : Jobs, attempt : Nat]]
    <3>1. \/ exec' = [exec EXCEPT ![s] = IdleSlot]
          \/ exec' = [exec EXCEPT ![s].pc = "fail"]
      BY <1>4 DEF Outcome, Succeed, CancelAtBoundary, PauseAtBoundary, RetryOrDeadLetter,
                  Fail, Write, Raise
    <3>2. CASE exec' = [exec EXCEPT ![s] = IdleSlot]
      BY <3>2, ExecIdle
    <3>3. CASE exec' = [exec EXCEPT ![s].pc = "fail"]
      <4>1. [exec[s] EXCEPT !.pc = "fail"] \in [pc : SlotPcs, job : Jobs, attempt : Nat]
        BY <1>0 DEF SlotPcs
      <4>2. QED
        BY <3>3, <4>1 DEF TypeOK
    <3>4. QED
      BY <3>1, <3>2, <3>3
  <2>3. job' \in [Jobs -> JobRows]
    <3>1. /\ DeadLetter(job[k]) \in JobRows /\ Rescheduled(job[k]) \in JobRows
          /\ Transition(job[k], SuccessTarget(job[k].status)) \in JobRows
          /\ Transition(job[k], "cancelled") \in JobRows
          /\ Transition(job[k], "failed") \in JobRows
          /\ [Transition(job[k], "paused") EXCEPT !.worker = NoProc, !.lease = "none"]
                \in JobRows
      BY ZenonT(60), <1>0, DeadLetterType, RescheduledType, OutcomeRows
    <3>2. UNCHANGED job \/ \E row \in JobRows : SetJob(k, row)
      BY <1>4, <3>1 DEF Outcome, Succeed, CancelAtBoundary, PauseAtBoundary,
                        RetryOrDeadLetter, Fail, Write, Raise
    <3>3. QED
      BY <1>0, <3>2, SetJobType DEF TypeOK
  <2>4. outbox' \in [Jobs -> Seq(OutboxRows)] /\ RowsGrow
    <3>1. <<"create", 0>> \in Reasons \X Nat
      BY DEF Reasons
    <3>2. /\ RetryOutbox(outbox[k], job[k]) \in Seq(OutboxRows)
          /\ DOMAIN outbox[k] \subseteq DOMAIN RetryOutbox(outbox[k], job[k])
      BY <1>0, <3>1, OutboxType
    <3>3. UNCHANGED outbox \/ SetRows(k, RetryOutbox(outbox[k], job[k]))
      BY <1>4 DEF Outcome, Succeed, CancelAtBoundary, PauseAtBoundary,
                  RetryOrDeadLetter, Fail, Raise
    <3>4. QED
      BY <1>0, <3>2, <3>3, SetRowsType, SameRowsType
  <2>5. QED
    BY <2>1, <2>2, <2>3, <2>4, InFlightKept DEF TypeOK
<1>5. CASE ExecutorDies(s)
  <2>1. exec' \in [Slots -> [pc : SlotPcs, job : Jobs, attempt : Nat]]
    BY <1>5, ExecIdle DEF ExecutorDies
  <2>2. queue' \in [Jobs -> 0..MaxMessages]
    <3>1. queue \in [Jobs -> 0..MaxMessages] /\ queue[k] \in 0..MaxMessages
      BY <1>0 DEF TypeOK
    <3>2. queue[k] < MaxMessages => queue[k] + 1 \in 0..MaxMessages
      BY <3>1, JobQueueAssumption
    <3>3. QED
      BY <1>5, <3>1, <3>2 DEF ExecutorDies
  <2>3. faults' \in 0..MaxFaults
    BY <1>5, JobQueueAssumption DEF ExecutorDies, Fault, TypeOK
  <2>4. QED
    BY <1>5, <2>1, <2>2, <2>3, SameRowsType, InFlightKept DEF ExecutorDies, TypeOK
<1>6. QED
  BY <1>1, <1>2, <1>3, <1>4, <1>5 DEF Execute

LEMMA TypeStep == TypeInv /\ [Next]_vars => TypeInv'
<1> SUFFICES ASSUME TypeInv, [Next]_vars PROVE TypeInv'
  OBVIOUS
<1>1. CASE \E j \in Jobs : Create(j) \/ Operator(j) \/ Maintain(j)
  BY <1>1, OperatorType, MaintainType
<1>2. CASE \E d \in Dispatchers : Dispatch(d) \/ DispatcherDies(d)
  BY <1>2, DispatchType
<1>3. CASE \E s \in Slots : Execute(s) \/ ExecutorDies(s)
  BY <1>3, ExecuteType
<1>4. CASE RedisLoses
  <2>1. queue' \in [Jobs -> 0..MaxMessages] /\ faults' \in 0..MaxFaults
    BY <1>4, JobQueueAssumption DEF RedisLoses, Fault, TypeInv, TypeOK
  <2>2. QED
    BY <1>4, <2>1, SameRowsType, InFlightKept DEF RedisLoses, TypeInv, TypeOK
<1>5. CASE UNCHANGED vars
  BY <1>5 DEF vars, TypeInv, TypeOK, InFlight
<1>6. QED
  BY <1>1, <1>2, <1>3, <1>4, <1>5 DEF Next

\* Type correctness of the job core: every row of the jobs table and of the
\* outbox, every thread and every dispatcher keeps its type, and a dispatcher
\* in flight (dispatch_once between claim_batch and its record) holds a row
\* that exists.
THEOREM TypeCorrect == Spec => []TypeOK
<1>1. Spec => []TypeInv
  BY InitType, TypeStep, PTL DEF Spec
<1>2. TypeInv => TypeOK
  BY DEF TypeInv
<1>3. QED
  BY <1>1, <1>2, PTL

-----------------------------------------------------------------------------
(***************************************************************************)
(* Ownership.  Only a claim makes a job running, gives it an owner or      *)
(* counts an attempt; every other step moves the job legally and at most   *)
(* takes the ownership away.                                               *)
(***************************************************************************)

\* A leased or running job has an owner and a lease; a job at a terminal
\* status was released.
OwnedRow(row) ==
    /\ row.status \in {"leased", "running"} => row.worker # NoProc /\ row.lease # "none"
    /\ row.status \in TerminalStatuses => row.worker = NoProc

Ownership == \A j \in Jobs : OwnedRow(job[j])

OwnInv == TypeInv /\ Ownership

\* The moves of JobLifecycle other than a start, and no move.
LegalMove(from, to) ==
    \/ from = to
    \/ from = "absent" /\ to = "waiting"
    \/ from = "waiting" /\ to \in {"failed", "dead", "pausing", "paused", "cancelling", "cancelled"}
    \/ from = "running" /\ to \in {"waiting", "succeeded", "failed", "dead", "pausing",
                                   "paused", "cancelling", "cancelled"}
    \/ from = "pausing" /\ to \in {"failed", "dead", "paused", "cancelling", "cancelled"}
    \/ from = "paused" /\ to \in {"waiting", "cancelled"}
    \/ from = "cancelling" /\ to \in {"failed", "dead", "cancelled"}
    \/ from = "dead" /\ to = "waiting"

\* What a step that is not a claim does to a row of the jobs table.
Keeps(old, new) ==
    /\ new.worker \in {old.worker, NoProc}
    /\ new.attempt = old.attempt
    /\ new.status \in {"leased", "running"} =>
          /\ old.status = new.status
          /\ new.worker = old.worker
          /\ old.lease # "none" => new.lease # "none"
    /\ new.status \in TerminalStatuses => new.worker = NoProc
    /\ LegalMove(PhaseOf(old.status), PhaseOf(new.status))

\* A step changes at most one row of the jobs table.
KeepsStep == \E j \in Jobs : \E row \in JobRows : SetJob(j, row) /\ Keeps(job[j], row)

\* A thread goes on with the same execution or is idle afterwards.
SameExecution(s) ==
    exec'[s].pc # "idle" =>
        /\ exec[s].pc # "idle"
        /\ exec'[s].job = exec[s].job
        /\ exec'[s].attempt = exec[s].attempt

\* A row whose status, owner and attempt stay is kept.
LEMMA KeepsSame ==
    ASSUME NEW old \in JobRows, NEW new \in JobRows, OwnedRow(old),
           new.status = old.status, new.worker = old.worker, new.attempt = old.attempt,
           old.lease # "none" => new.lease # "none"
    PROVE  Keeps(old, new)
BY DEF Keeps, OwnedRow, LegalMove

\* A row that moves, is not leased and does not run, is kept.
LEMMA KeepsMoved ==
    ASSUME NEW old \in JobRows, NEW new \in JobRows,
           new.worker \in {old.worker, NoProc}, new.attempt = old.attempt,
           new.status \notin {"leased", "running"},
           new.status \in TerminalStatuses => new.worker = NoProc,
           LegalMove(PhaseOf(old.status), PhaseOf(new.status))
    PROVE  Keeps(old, new)
BY DEF Keeps

\* The moves of a job that waits to be published.
LEMMA WaitingMoves ==
    ASSUME NEW s \in {"outbox_pending", "retry_scheduled"}, NEW t \in {"queued", "dead_lettered"}
    PROVE  LegalMove(PhaseOf(s), PhaseOf(t))
BY DEF LegalMove, PhaseOf, WaitingStatuses

\* The moves of a job whose execution failed.
LEMMA FailedMoves ==
    ASSUME NEW s \in Statuses, s \notin TerminalStatuses
    PROVE  /\ CanGo(s, "failed") => LegalMove(PhaseOf(s), PhaseOf("dead_lettered"))
           /\ CanGo(s, "retry_scheduled") => LegalMove(PhaseOf(s), PhaseOf("retry_scheduled"))
BY DEF LegalMove, PhaseOf, TerminalStatuses, WaitingStatuses, CanGo, Allowed, Statuses

LEMMA KeepsAll ==
    ASSUME OwnInv, UNCHANGED job
    PROVE  KeepsStep
<1>1. PICK j \in Jobs : TRUE
  BY JobQueueAssumption
<1>2. job[j] \in JobRows /\ OwnedRow(job[j]) /\ SetJob(j, job[j])
  BY DEF OwnInv, TypeInv, TypeOK, Ownership, SetJob
<1>3. QED
  BY <1>2, KeepsSame DEF KeepsStep

LEMMA KeepsEvery ==
    ASSUME OwnInv, KeepsStep
    PROVE  \A k \in Jobs : Keeps(job[k], job'[k])
<1>1. PICK j \in Jobs : \E row \in JobRows : SetJob(j, row) /\ Keeps(job[j], row)
  BY DEF KeepsStep
<1>2. \A k \in Jobs : job[k] \in JobRows /\ OwnedRow(job[k])
  BY DEF OwnInv, TypeInv, TypeOK, Ownership
<1>3. QED
  BY <1>1, <1>2, KeepsSame, SetJobType DEF OwnInv, TypeInv

LEMMA OperatorKeeps ==
    ASSUME OwnInv, NEW j \in Jobs, Create(j) \/ Operator(j)
    PROVE  KeepsStep /\ UNCHANGED exec
<1> USE DEF OwnInv, TypeInv
<1>0. job[j] \in JobRows /\ OwnedRow(job[j]) /\ job[j].status \in Statuses
  BY DEF TypeOK, Ownership, JobRows
<1>1. {"outbox_pending", "pause_requested", "paused", "cancel_requested", "cancelled"}
         \subseteq Statuses \ {"leased", "running"}
  BY DEF Statuses
<1>2. UNCHANGED exec
  BY DEF Create, Operator, RequestCancel, RequestPause, Resume, RetryDeadLetter,
         DiscardDeadLetter, Ask
<1>3. CASE Create(j)
  <2> DEFINE row == [job[j] EXCEPT !.status = "outbox_pending"]
  <2>1. /\ row \in JobRows /\ row.status = "outbox_pending"
        /\ row.attempt = job[j].attempt /\ row.worker = job[j].worker
    BY <1>0, <1>1 DEF JobRows
  <2>2. Keeps(job[j], row)
    BY <1>3, <2>1 DEF Create, Keeps, LegalMove, PhaseOf, TerminalStatuses, WaitingStatuses
  <2>3. QED
    BY <1>2, <1>3, <2>1, <2>2 DEF Create, KeepsStep
<1>4. CASE RequestCancel(j)
  <2> DEFINE asked == Transition(job[j], "cancel_requested")
             gone == Transition(asked, "cancelled")
  <2>0. CanGo(job[j].status, "cancel_requested") /\ job[j].status # "cancel_requested"
    BY <1>4 DEF RequestCancel
  <2>1. /\ asked \in JobRows /\ asked.attempt = job[j].attempt
        /\ asked.worker \in {job[j].worker, NoProc} /\ asked.status = "cancel_requested"
    BY <1>0, <1>1, TransitionType
  <2> HIDE DEF asked
  <2>2. /\ gone \in JobRows /\ gone.attempt = job[j].attempt
        /\ gone.worker = NoProc /\ gone.status = "cancelled"
    <3>1. "cancelled" \in Statuses
      BY <1>1
    <3>2. QED
      BY <2>1, <3>1, TransitionType DEF TerminalStatuses
  <2> HIDE DEF gone
  <2>3. (job[j].status # "paused" => Keeps(job[j], asked)) /\ Keeps(job[j], gone)
    BY <1>0, <2>0, <2>1, <2>2
       DEF Keeps, LegalMove, PhaseOf, TerminalStatuses, WaitingStatuses, CanGo, Allowed
  <2>4. (job[j].status # "paused" /\ SetJob(j, asked)) \/ SetJob(j, gone)
    BY <1>4 DEF RequestCancel, asked, gone
  <2>5. QED
    BY <1>2, <2>1, <2>2, <2>3, <2>4 DEF KeepsStep
<1>5. CASE RequestPause(j)
  <2> DEFINE asked == Transition(job[j], "pause_requested")
             gone == Transition(asked, "paused")
  <2>0. CanGo(job[j].status, "pause_requested") /\ job[j].status # "pause_requested"
    BY <1>5 DEF RequestPause
  <2>1. /\ asked \in JobRows /\ asked.attempt = job[j].attempt
        /\ asked.worker \in {job[j].worker, NoProc} /\ asked.status = "pause_requested"
    BY <1>0, <1>1, TransitionType
  <2> HIDE DEF asked
  <2>2. /\ gone \in JobRows /\ gone.attempt = job[j].attempt
        /\ gone.worker \in {job[j].worker, NoProc} /\ gone.status = "paused"
    <3>1. "paused" \in Statuses
      BY <1>1
    <3>2. QED
      BY <2>1, <3>1, TransitionType
  <2> HIDE DEF gone
  <2>3. Keeps(job[j], asked) /\ Keeps(job[j], gone)
    BY <1>0, <2>0, <2>1, <2>2
       DEF Keeps, LegalMove, PhaseOf, TerminalStatuses, WaitingStatuses, CanGo, Allowed
  <2>4. SetJob(j, asked) \/ SetJob(j, gone)
    BY <1>5 DEF RequestPause, asked, gone
  <2>5. QED
    BY <1>2, <2>1, <2>2, <2>3, <2>4 DEF KeepsStep
<1>6. CASE Resume(j) \/ RetryDeadLetter(j)
  <2> DEFINE base == Transition(job[j], "outbox_pending")
             row == [base EXCEPT !.maxAttempts = job[j].attempt + RegistryAttempts,
                                 !.due = TRUE]
  <2>1. /\ base \in JobRows /\ base.attempt = job[j].attempt
        /\ base.worker \in {job[j].worker, NoProc} /\ base.status = "outbox_pending"
    BY <1>0, <1>1, TransitionType
  <2>2. job[j].attempt + RegistryAttempts \in Nat
    BY <1>0, JobQueueAssumption DEF JobRows
  <2>3. SetJob(j, base) \/ SetJob(j, row)
    BY <1>6 DEF Resume, RetryDeadLetter
  <2> HIDE DEF base
  <2>4. /\ row \in JobRows /\ row.attempt = job[j].attempt
        /\ row.worker \in {job[j].worker, NoProc} /\ row.status = "outbox_pending"
    BY <2>1, <2>2 DEF JobRows
  <2>5. job[j].status \in {"paused", "dead_lettered"}
    BY <1>6 DEF Resume, RetryDeadLetter
  <2>6. Keeps(job[j], base) /\ Keeps(job[j], row)
    BY <2>1, <2>4, <2>5 DEF Keeps, LegalMove, PhaseOf, TerminalStatuses, WaitingStatuses
  <2>7. QED
    BY <1>2, <2>1, <2>3, <2>4, <2>6 DEF KeepsStep
<1>7. CASE DiscardDeadLetter(j)
  <2> DEFINE row == [job[j] EXCEPT !.discarded = TRUE]
  <2>1. /\ row \in JobRows /\ row.attempt = job[j].attempt /\ row.lease = job[j].lease
        /\ row.worker = job[j].worker /\ row.status = job[j].status
    BY <1>0 DEF JobRows
  <2>2. QED
    BY <1>0, <1>2, <1>7, <2>1, KeepsSame DEF DiscardDeadLetter, KeepsStep
<1>8. QED
  BY <1>3, <1>4, <1>5, <1>6, <1>7 DEF Operator

LEMMA DispatchKeeps ==
    ASSUME OwnInv, NEW d \in Dispatchers, Dispatch(d) \/ DispatcherDies(d)
    PROVE  KeepsStep /\ UNCHANGED exec
<1> DEFINE j == disp[d].job
           i == disp[d].row
<1>0. j \in Jobs /\ job[j] \in JobRows /\ OwnedRow(job[j])
  BY DEF OwnInv, TypeInv, TypeOK, Ownership
<1>1. UNCHANGED exec
  <2>1. ASSUME NEW k, NEW m, ClaimRow(d, k, m) PROVE UNCHANGED exec
    BY <2>1 DEF ClaimRow, DispatchStep
  <2>2. QED
    BY SMTT(60), <2>1 DEF Dispatch, Publish, RecordPublished, RecordFailure, DispatcherDies, DispatchStep
<1>2. CASE RecordPublished(d)
  <2> DEFINE row == Queued(job[j])
  <2>1. Keeps(job[j], row) /\ row \in JobRows
    <3>1. CASE job[j].status \in {"outbox_pending", "retry_scheduled"}
      <4>1. /\ row \in JobRows /\ row.status = "queued" /\ row.worker = job[j].worker
            /\ row.attempt = job[j].attempt
        BY <1>0, <3>1 DEF Queued, JobRows, Statuses
      <4> HIDE DEF row
      <4>2. QED
        BY <1>0, <3>1, <4>1, KeepsMoved, WaitingMoves DEF TerminalStatuses
    <3>2. CASE job[j].status \notin {"outbox_pending", "retry_scheduled"}
      BY <1>0, <3>2, KeepsSame DEF Queued
    <3>3. QED
      BY <3>1, <3>2
  <2>2. Keeps(job[j], job[j])
    BY <1>0, KeepsSame
  <2>3. SetJob(j, row) \/ SetJob(j, job[j])
    BY <1>2 DEF RecordPublished
  <2>4. QED
    BY <1>0, <1>1, <2>1, <2>2, <2>3 DEF KeepsStep
<1>3. CASE RecordFailure(d)
  <2>1. CASE SetJob(j, job[j])
    BY <1>0, <1>1, <2>1, KeepsSame DEF KeepsStep
  <2>2. CASE /\ SetJob(j, DeadLetter(job[j]))
             /\ job[j].status \in {"outbox_pending", "retry_scheduled"}
    <3> DEFINE row == DeadLetter(job[j])
    <3>1. /\ row \in JobRows /\ row.status = "dead_lettered"
          /\ row.attempt = job[j].attempt /\ row.worker = NoProc
      BY <1>0, DeadLetterType
    <3> HIDE DEF row
    <3>2. Keeps(job[j], row)
      BY <1>0, <2>2, <3>1, KeepsMoved, WaitingMoves DEF TerminalStatuses
    <3>3. QED
      BY <1>0, <1>1, <2>2, <3>1, <3>2 DEF KeepsStep, row
  <2>3. QED
    BY SMTT(60), <1>3, <2>1, <2>2 DEF RecordFailure
<1>4. CASE UNCHANGED job
  BY <1>1, <1>4, KeepsAll
<1>5. QED
  <2>1. ASSUME NEW k, NEW m, ClaimRow(d, k, m) PROVE UNCHANGED job
    BY <2>1 DEF ClaimRow
  <2>2. QED
    BY <1>2, <1>3, <1>4, <2>1 DEF Dispatch, DispatcherDies, Publish

LEMMA MaintainKeeps ==
    ASSUME OwnInv, NEW j \in Jobs, Maintain(j)
    PROVE  KeepsStep /\ UNCHANGED exec
<1> USE DEF OwnInv, TypeInv
<1>0. job[j] \in JobRows /\ OwnedRow(job[j])
  BY DEF TypeOK, Ownership
<1>1. UNCHANGED exec
  BY DEF Maintain, RecoverStranded, RecoverExpired, LeaseExpires, BecomesDue
<1>2. CASE RecoverStranded(j)
  <2> DEFINE base == Transition(job[j], "retry_scheduled")
             row == [base EXCEPT !.due = TRUE]
  <2>1. /\ base \in JobRows /\ base.attempt = job[j].attempt
        /\ base.worker \in {job[j].worker, NoProc} /\ base.status = "retry_scheduled"
    BY <1>0, TransitionType DEF Statuses
  <2> HIDE DEF base
  <2>2. /\ row \in JobRows /\ row.attempt = job[j].attempt
        /\ row.worker \in {job[j].worker, NoProc} /\ row.status = "retry_scheduled"
    BY <2>1 DEF JobRows
  <2>3. SetJob(j, row) /\ job[j].status = "queued"
    BY <1>2 DEF RecoverStranded, base
  <2>4. Keeps(job[j], row)
    BY <2>2, <2>3 DEF Keeps, LegalMove, PhaseOf, TerminalStatuses, WaitingStatuses
  <2>5. QED
    BY <1>1, <2>2, <2>3, <2>4 DEF KeepsStep
<1>3. CASE RecoverExpired(j)
  <2>1. PICK row \in {DeadLetter(job[j]), Rescheduled(job[j])} : SetJob(j, row)
    BY <1>3 DEF RecoverExpired
  <2>2. /\ row \in JobRows /\ row.status \in {"dead_lettered", "retry_scheduled"}
        /\ row.attempt = job[j].attempt /\ row.worker = NoProc
    BY <1>0, <2>1, DeadLetterType, RescheduledType
  <2>3. job[j].status \in {"leased", "running"}
    BY <1>3 DEF RecoverExpired, ExpiredLease
  <2>4. Keeps(job[j], row)
    BY <2>2, <2>3 DEF Keeps, LegalMove, PhaseOf, TerminalStatuses, WaitingStatuses
  <2>5. QED
    BY <1>1, <2>1, <2>2, <2>4 DEF KeepsStep
<1>4. CASE LeaseExpires(j) \/ BecomesDue(j)
  <2>1. ASSUME NEW row \in {[job[j] EXCEPT !.lease = "expired"], [job[j] EXCEPT !.due = TRUE]}
        PROVE  row \in JobRows /\ Keeps(job[j], row)
    <3>1. /\ row \in JobRows /\ row.attempt = job[j].attempt
          /\ row.lease \in {job[j].lease, "expired"}
          /\ row.worker = job[j].worker /\ row.status = job[j].status
      BY <1>0 DEF JobRows
    <3>2. QED
      BY <1>0, <3>1, KeepsSame
  <2>2. QED
    BY <1>1, <1>4, <2>1 DEF LeaseExpires, BecomesDue, KeepsStep
<1>5. QED
  BY <1>2, <1>3, <1>4 DEF Maintain

\* The outcome transactions: what they write to the row of the job they own.
LEMMA OutcomeKeeps ==
    ASSUME OwnInv, NEW s \in Slots, Outcome(s)
    PROVE  KeepsStep
<1> USE DEF OwnInv, TypeInv
<1> DEFINE j == exec[s].job
           old == job[j]
<1>0. j \in Jobs /\ old \in JobRows /\ OwnedRow(old) /\ old.status \in Statuses
  BY DEF TypeOK, Ownership, JobRows
<1>1. ProcOf[s] # NoProc
  BY JobQueueAssumption
<1>2. CASE Owned(s) /\ \E target \in {"succeeded", "failed", "cancelled", "paused"} :
              /\ \/ CanGo(old.status, target)
                 \/ target = "cancelled" /\ CanGo(old.status, "cancel_requested")
              /\ SetJob(j, Transition(old, target))
  <2>1. PICK target \in {"succeeded", "failed", "cancelled", "paused"} :
              /\ \/ CanGo(old.status, target)
                 \/ target = "cancelled" /\ CanGo(old.status, "cancel_requested")
              /\ SetJob(j, Transition(old, target))
    BY <1>2
  <2> DEFINE row == Transition(old, target)
  <2>2. old.worker # NoProc
    BY <1>1, <1>2 DEF Owned
  <2>3. old.status \notin TerminalStatuses
    BY <1>0, <2>2 DEF OwnedRow
  <2>4. /\ row \in JobRows /\ row.status = target /\ row.attempt = old.attempt
        /\ row.worker \in {old.worker, NoProc}
        /\ target \in TerminalStatuses => row.worker = NoProc
    BY <1>0, <2>3, TransitionType DEF Statuses
  <2> HIDE DEF row
  <2>5. Keeps(old, row)
    BY SMTT(60), <1>0, <2>1, <2>3, <2>4
       DEF Keeps, LegalMove, PhaseOf, TerminalStatuses, WaitingStatuses, CanGo, Allowed, Statuses
  <2>6. QED
    BY <1>0, <2>1, <2>4, <2>5 DEF KeepsStep, row
<1>3. CASE CanGo(old.status, "pause_requested")
           /\ SetJob(j, [Transition(old, "paused") EXCEPT !.worker = NoProc, !.lease = "none"])
  <2> DEFINE base == Transition(old, "paused")
             row == [base EXCEPT !.worker = NoProc, !.lease = "none"]
  <2>1. base \in JobRows /\ base.status = "paused" /\ base.attempt = old.attempt
    BY <1>0, TransitionType DEF Statuses
  <2>2. SetJob(j, row)
    BY <1>3
  <2> HIDE DEF base
  <2>3. /\ row \in JobRows /\ row.status = "paused" /\ row.attempt = old.attempt
        /\ row.worker = NoProc
    BY <2>1 DEF JobRows
  <2>4. Keeps(old, row)
    BY ZenonT(60), <1>0, <1>3, <2>3
       DEF Keeps, LegalMove, PhaseOf, TerminalStatuses, WaitingStatuses, CanGo, Allowed, Statuses
  <2>5. QED
    BY <1>0, <2>2, <2>3, <2>4 DEF KeepsStep
<1>4. CASE /\ Owned(s)
           /\ \/ CanGo(old.status, "failed") /\ SetJob(j, DeadLetter(old))
              \/ CanGo(old.status, "retry_scheduled") /\ SetJob(j, Rescheduled(old))
  <2>1. old.status \notin TerminalStatuses
    BY <1>0, <1>1, <1>4 DEF OwnedRow, Owned
  <2>2. PICK row \in {DeadLetter(old), Rescheduled(old)} : SetJob(j, row)
    BY <1>4
  <2>3. /\ DeadLetter(old) \in JobRows /\ DeadLetter(old).status = "dead_lettered"
        /\ DeadLetter(old).attempt = old.attempt /\ DeadLetter(old).worker = NoProc
        /\ Rescheduled(old) \in JobRows /\ Rescheduled(old).status = "retry_scheduled"
        /\ Rescheduled(old).attempt = old.attempt /\ Rescheduled(old).worker = NoProc
    BY <1>0, DeadLetterType, RescheduledType
  <2>4. /\ CanGo(old.status, "failed") => Keeps(old, DeadLetter(old))
        /\ CanGo(old.status, "retry_scheduled") => Keeps(old, Rescheduled(old))
    BY <1>0, <2>1, <2>3, FailedMoves, KeepsMoved DEF TerminalStatuses
  <2>5. QED
    BY <1>0, <1>4, <2>3, <2>4 DEF KeepsStep
<1>5. CASE UNCHANGED job
  BY <1>5, KeepsAll
<1>6. CASE Succeed(s)
  <2> DEFINE target == SuccessTarget(old.status)
  <2>1. \/ UNCHANGED job
        \/ Owned(s) /\ CanGo(old.status, target) /\ SetJob(j, Transition(old, target))
    BY <1>6 DEF Succeed, Write
  <2>2. target \in {"succeeded", "failed", "cancelled", "paused"}
    BY DEF SuccessTarget
  <2>3. QED
    BY <1>2, <1>5, <2>1, <2>2
<1>7. CASE CancelAtBoundary(s)
  <2>1. \/ UNCHANGED job
        \/ /\ Owned(s) /\ CanGo(old.status, "cancel_requested")
           /\ SetJob(j, Transition(old, "cancelled"))
    BY <1>7 DEF CancelAtBoundary, Write, Raise
  <2>2. QED
    BY <1>2, <1>5, <2>1
<1>8. CASE PauseAtBoundary(s)
  BY <1>3, <1>5, <1>8 DEF PauseAtBoundary, Write, Raise
<1>9. CASE RetryOrDeadLetter(s)
  BY <1>4, <1>5, <1>9 DEF RetryOrDeadLetter, Write, Raise
<1>10. CASE Fail(s)
  <2>1. \/ UNCHANGED job
        \/ Owned(s) /\ CanGo(old.status, "failed") /\ SetJob(j, Transition(old, "failed"))
    BY <1>10 DEF Fail, Write, Raise
  <2>2. QED
    BY <1>2, <1>5, <2>1
<1>11. QED
  BY <1>6, <1>7, <1>8, <1>9, <1>10 DEF Outcome

LEMMA ExecuteKeeps ==
    ASSUME OwnInv, NEW s \in Slots, Execute(s) \/ ExecutorDies(s),
           ~ \E j \in Jobs : Claim(s, j)
    PROVE  KeepsStep /\ (\A t \in Slots : SameExecution(t))
<1> USE DEF OwnInv, TypeInv
<1> DEFINE j == exec[s].job
<1>0. j \in Jobs /\ job[j] \in JobRows /\ exec \in [Slots -> [pc : SlotPcs, job : Jobs, attempt : Nat]]
      /\ OwnedRow(job[j])
  BY DEF TypeOK, Ownership
<1>1. CASE (\E k \in Jobs : DropMessage(s, k)) \/ ObserveControl(s) \/ ExecutorDies(s)
  <2>1. UNCHANGED job
    BY <1>1 DEF DropMessage, ObserveControl, ExecutorDies
  <2>2. CASE UNCHANGED exec
    BY <2>1, <2>2, KeepsAll DEF SameExecution
  <2>3. CASE ObserveControl(s)
    <3>1. exec[s].pc = "running" /\ \E pc \in {"cancel", "pause"} : exec' = [exec EXCEPT ![s].pc = pc]
      BY <2>3 DEF ObserveControl
    <3>2. \A t \in Slots : SameExecution(t)
      BY <1>0, <3>1 DEF SameExecution
    <3>3. QED
      BY <2>1, <3>2, KeepsAll
  <2>4. CASE exec' = [exec EXCEPT ![s] = IdleSlot]
    BY <1>0, <2>1, <2>4, KeepsAll, IdleType DEF SameExecution
  <2>5. QED
    BY <1>1, <2>2, <2>3, <2>4 DEF DropMessage, ExecutorDies
<1>2. CASE Heartbeat(s)
  <2> DEFINE row == [job[j] EXCEPT !.lease = "live"]
  <2>1. /\ row \in JobRows /\ row.attempt = job[j].attempt /\ row.lease = "live"
        /\ row.worker = job[j].worker /\ row.status = job[j].status
    BY <1>0 DEF JobRows
  <2>2. SetJob(j, row) /\ UNCHANGED exec
    BY <1>2 DEF Heartbeat
  <2>3. QED
    BY <1>0, <2>1, <2>2, KeepsSame DEF SameExecution, KeepsStep
<1>3. CASE Outcome(s)
  <2>1. exec[s].pc # "idle"
    BY <1>3 DEF Outcome, Succeed, CancelAtBoundary, PauseAtBoundary, RetryOrDeadLetter, Fail
  <2>2. \/ exec' = [exec EXCEPT ![s] = IdleSlot]
        \/ exec' = [exec EXCEPT ![s].pc = "fail"]
    BY <1>3 DEF Outcome, Succeed, CancelAtBoundary, PauseAtBoundary, RetryOrDeadLetter,
                Fail, Write, Raise
  <2>3. \A t \in Slots : SameExecution(t)
    BY <1>0, <2>1, <2>2, IdleType DEF SameExecution
  <2>4. QED
    BY <1>3, <2>3, OutcomeKeeps
<1>4. QED
  BY <1>1, <1>2, <1>3 DEF Execute

\* Every step is a claim, or keeps all ownership and all executions.
LEMMA JobStep ==
    ASSUME OwnInv, [Next]_vars
    PROVE  \/ \E s \in Slots, j \in Jobs : Claim(s, j)
           \/ KeepsStep /\ (\A t \in Slots : SameExecution(t))
<1>0. UNCHANGED exec => \A t \in Slots : SameExecution(t)
  BY DEF SameExecution
<1>1. CASE \E j \in Jobs : Create(j) \/ Operator(j) \/ Maintain(j)
  BY <1>0, <1>1, OperatorKeeps, MaintainKeeps
<1>2. CASE \E d \in Dispatchers : Dispatch(d) \/ DispatcherDies(d)
  BY <1>0, <1>2, DispatchKeeps
<1>3. CASE \E s \in Slots : Execute(s) \/ ExecutorDies(s)
  BY <1>3, ExecuteKeeps
<1>4. CASE RedisLoses \/ UNCHANGED vars
  BY <1>0, <1>4, KeepsAll DEF RedisLoses, vars
<1>5. QED
  BY <1>1, <1>2, <1>3, <1>4 DEF Next

\* A claim: one waiting row becomes running under the thread's process.
LEMMA ClaimStep ==
    ASSUME OwnInv, NEW s \in Slots, NEW j \in Jobs, Claim(s, j)
    PROVE  /\ SetJob(j, Started(job[j], ProcOf[s]))
           /\ job'[j].status = "running" /\ job'[j].worker = ProcOf[s]
           /\ job'[j].lease = "live" /\ job'[j].attempt = job[j].attempt + 1
           /\ PhaseOf(job[j].status) = "waiting"
           /\ \A k \in Jobs : k # j => job'[k] = job[k]
<1>1. job' = [job EXCEPT ![j] = Started(job[j], ProcOf[s])] /\ Claimable(job[j])
  BY DEF Claim, SetJob
<1>2. job \in [Jobs -> JobRows]
  BY DEF OwnInv, TypeInv, TypeOK
<1>3. /\ job'[j].status = "running" /\ job'[j].worker = ProcOf[s]
      /\ job'[j].lease = "live" /\ job'[j].attempt = job[j].attempt + 1
  BY <1>1, <1>2 DEF Started, JobRows
<1>4. PhaseOf(job[j].status) = "waiting"
  BY <1>1 DEF Claimable, PhaseOf, WaitingStatuses
<1>5. QED
  BY <1>1, <1>2, <1>3, <1>4 DEF SetJob

LEMMA OwnInit == Init => OwnInv
BY InitType DEF Init, OwnInv, Ownership, OwnedRow, AbsentJob, TerminalStatuses

LEMMA OwnStep == OwnInv /\ [Next]_vars => OwnInv'
<1> SUFFICES ASSUME OwnInv, [Next]_vars PROVE Ownership'
  BY TypeStep DEF OwnInv
<1>1. CASE \E s \in Slots, j \in Jobs : Claim(s, j)
  <2>1. PICK s \in Slots, j \in Jobs : Claim(s, j)
    BY <1>1
  <2>2. /\ job'[j].status = "running" /\ job'[j].worker = ProcOf[s]
        /\ job'[j].lease = "live" /\ \A k \in Jobs : k # j => job'[k] = job[k]
    BY <2>1, ClaimStep
  <2>3. ProcOf[s] # NoProc
    BY JobQueueAssumption
  <2>4. QED
    BY <2>2, <2>3 DEF OwnInv, Ownership, OwnedRow, TerminalStatuses
<1>2. CASE KeepsStep
  BY <1>2, KeepsEvery DEF OwnInv, Ownership, OwnedRow, Keeps
<1>3. QED
  BY <1>1, <1>2, JobStep

\* A running job always has an owner and a lease, so that recover_expired can
\* find it when its worker dies.
THEOREM RunningJobsAreLeased == Spec => []RunningIsLeased
<1>1. OwnInv => RunningIsLeased
  BY DEF OwnInv, Ownership, OwnedRow, RunningIsLeased
<1>2. QED
  BY <1>1, OwnInit, OwnStep, PTL DEF Spec

-----------------------------------------------------------------------------
(***************************************************************************)
(* JobQueue implements JobLifecycle.                                       *)
(***************************************************************************)

\* The legal moves of one row are steps of the life cycle.
LEMMA LifecycleStep ==
    ASSUME OwnInv, NEW j \in Jobs, NEW row \in JobRows, SetJob(j, row), Keeps(job[j], row)
    PROVE  [Lifecycle!Next]_(Lifecycle!lifecycleVars)
<1> DEFINE phase == [k \in Jobs |-> PhaseOf(job[k].status)]
           from == PhaseOf(job[j].status)
           to == PhaseOf(row.status)
<1>1. /\ job \in [Jobs -> JobRows] /\ job' = [job EXCEPT ![j] = row]
      /\ row.attempt = job[j].attempt /\ LegalMove(from, to)
  BY DEF OwnInv, TypeInv, TypeOK, SetJob, Keeps
<1>2. /\ phase' = [phase EXCEPT ![j] = to]
      /\ phase[j] = from
      /\ UNCHANGED [k \in Jobs |-> job[k].attempt]
  BY <1>1
<1>3. CASE from = to
  <2>1. phase' = phase
    BY <1>2, <1>3
  <2>2. QED
    BY <1>2, <2>1 DEF Lifecycle!lifecycleVars
<1>4. CASE from # to
  BY <1>1, <1>2, <1>4
     DEF LegalMove, Lifecycle!Next, Lifecycle!Move, Lifecycle!Submit, Lifecycle!Requeue,
         Lifecycle!Complete, Lifecycle!GiveUp, Lifecycle!Pause, Lifecycle!Cancel,
         Lifecycle!Resume, Lifecycle!RetryDead
<1>5. QED
  BY <1>3, <1>4

\* Every step of the queue, the dispatchers, the workers, the recovery loops and
\* the operators is a legal move of one job's life cycle, or none, and the
\* attempts count the executions started (transitions.py, worker.py _claim).
THEOREM LifecycleImplemented == Spec => ImplementsLifecycle
<1>1. Init => Lifecycle!Init
  BY DEF Init, Lifecycle!Init, AbsentJob, PhaseOf, WaitingStatuses
<1>2. OwnInv /\ [Next]_vars => [Lifecycle!Next]_(Lifecycle!lifecycleVars)
  <2> SUFFICES ASSUME OwnInv, [Next]_vars
               PROVE  [Lifecycle!Next]_(Lifecycle!lifecycleVars)
    OBVIOUS
  <2>1. CASE \E s \in Slots, j \in Jobs : Claim(s, j)
    <3>1. PICK s \in Slots, j \in Jobs : Claim(s, j)
      BY <2>1
    <3>2. job \in [Jobs -> JobRows]
      BY DEF OwnInv, TypeInv, TypeOK
    <3>3. /\ job' = [job EXCEPT ![j] = Started(job[j], ProcOf[s])]
          /\ job'[j].status = "running" /\ job'[j].attempt = job[j].attempt + 1
          /\ PhaseOf(job[j].status) = "waiting"
          /\ \A k \in Jobs : k # j => job'[k] = job[k]
      BY <3>1, ClaimStep DEF SetJob
    <3>4. PhaseOf("running") = "running"
      BY DEF PhaseOf, WaitingStatuses
    <3>5. Lifecycle!Start(j)
      BY <3>2, <3>3, <3>4 DEF Lifecycle!Start
    <3>6. QED
      BY <3>5 DEF Lifecycle!Next
  <2>2. CASE KeepsStep
    BY <2>2, LifecycleStep DEF KeepsStep
  <2>3. QED
    BY <2>1, <2>2, JobStep
<1>3. QED
  BY <1>1, <1>2, OwnInit, OwnStep, PTL DEF Spec, ImplementsLifecycle, Lifecycle!Spec

-----------------------------------------------------------------------------
(***************************************************************************)
(* Deduplication keys.  JobExecutor._retry_outbox inserts without a        *)
(* lookup: its key is new because the retry rows of a job are numbered by  *)
(* attempt, and the row of the next attempt is only inserted while the     *)
(* current attempt has an owner, which the insertion takes away.           *)
(***************************************************************************)

SameKeys(rows, new) ==
    /\ DOMAIN new = DOMAIN rows
    /\ \A i \in DOMAIN rows : new[i].key = rows[i].key

\* The statuses of a job that waits for the publication of an outbox row.
Unpublished == {"outbox_pending", "retry_scheduled"}

\* What a step does to the outbox rows of job j.
KeyStep(j) ==
    \/ SameKeys(outbox[j], outbox'[j])
    \/ \E key \in {<<"create", 0>>, <<"resume", job[j].attempt + 1>>,
                   <<"dlq-retry", job[j].attempt + 1>>} :
          /\ ~HasKey(outbox[j], key)
          /\ key[1] = "dlq-retry" => job[j].worker = NoProc
          /\ outbox'[j] = Append(outbox[j], NewRow(key))
          /\ job'[j].worker \in {job[j].worker, NoProc} /\ job'[j].attempt = job[j].attempt
          /\ job'[j].status \in Unpublished
    \/ /\ job[j].worker # NoProc /\ job'[j].worker = NoProc
       /\ job'[j].attempt = job[j].attempt /\ job'[j].status \in Unpublished
       /\ outbox'[j] = Append(outbox[j], NewRow(<<"attempt", job[j].attempt + 1>>))

\* The keys of the retry rows are distinct and do not run ahead of the attempts.
KeysOf(j) ==
    /\ \A i, k \in DOMAIN outbox[j] : outbox[j][i].key = outbox[j][k].key => i = k
    /\ \A i \in DOMAIN outbox[j] : outbox[j][i].key[1] = "attempt" =>
          /\ outbox[j][i].key[2] <= job[j].attempt + 1
          /\ job[j].worker # NoProc => outbox[j][i].key[2] <= job[j].attempt

KeyInv == OwnInv /\ \A j \in Jobs : KeysOf(j)

LEMMA SameKeysAll ==
    ASSUME TypeOK, NEW j \in Jobs, \A k \in Jobs : k # j => outbox'[k] = outbox[k], KeyStep(j)
    PROVE  \A k \in Jobs : KeyStep(k)
BY DEF KeyStep, SameKeys

LEMMA UnchangedKeys ==
    ASSUME UNCHANGED outbox
    PROVE  \A k \in Jobs : KeyStep(k)
BY DEF KeyStep, SameKeys

LEMMA SetRowKeys ==
    ASSUME TypeOK, NEW j \in Jobs, NEW i \in DOMAIN outbox[j], NEW row,
           row.key = outbox[j][i].key, SetRow(j, i, row)
    PROVE  \A k \in Jobs : KeyStep(k)
<1>1. outbox[j] \in Seq(OutboxRows) /\ outbox \in [Jobs -> Seq(OutboxRows)]
  BY DEF TypeOK
<1>2. outbox'[j] = [outbox[j] EXCEPT ![i] = row] /\ \A k \in Jobs : k # j => outbox'[k] = outbox[k]
  BY <1>1 DEF SetRow, SetRows
<1>3. SameKeys(outbox[j], outbox'[j])
  BY <1>1, <1>2 DEF SameKeys
<1>4. QED
  BY <1>2, <1>3, SameKeysAll DEF KeyStep

LEMMA SetRowsKeys ==
    ASSUME TypeOK, NEW j \in Jobs, NEW rows, SetRows(j, rows)
    PROVE  outbox'[j] = rows /\ \A k \in Jobs : k # j => outbox'[k] = outbox[k]
BY DEF TypeOK, SetRows

\* _create_outbox appends a row whose key is new, or nothing.
LEMMA CreateKeys ==
    ASSUME OwnInv, NEW j \in Jobs, SetJob(j, job'[j]),
           job'[j].worker \in {job[j].worker, NoProc}, job'[j].attempt = job[j].attempt,
           job'[j].status \in Unpublished,
           NEW key \in {<<"create", 0>>, <<"resume", job[j].attempt + 1>>,
                        <<"dlq-retry", job[j].attempt + 1>>},
           key[1] = "dlq-retry" => job[j].worker = NoProc,
           SetRows(j, CreateOutbox(outbox[j], key))
    PROVE  \A k \in Jobs : KeyStep(k)
<1>1. /\ outbox'[j] = CreateOutbox(outbox[j], key)
      /\ \A k \in Jobs : k # j => outbox'[k] = outbox[k]
  BY SetRowsKeys DEF OwnInv, TypeInv
<1>2. KeyStep(j)
  BY <1>1 DEF KeyStep, SameKeys, CreateOutbox
<1>3. QED
  BY <1>1, <1>2, SameKeysAll DEF OwnInv, TypeInv

\* _retry_outbox appends the row of the next attempt of a job that was owned.
LEMMA RetryKeys ==
    ASSUME OwnInv, NEW j \in Jobs, job[j].worker # NoProc,
           SetJob(j, Rescheduled(job[j])), SetRows(j, RetryOutbox(outbox[j], job[j]))
    PROVE  \A k \in Jobs : KeyStep(k)
<1>0. job[j] \in JobRows
  BY DEF OwnInv, TypeInv, TypeOK
<1>1. /\ job'[j].worker = NoProc /\ job'[j].attempt = job[j].attempt
      /\ job'[j].status \in Unpublished
  BY <1>0, RescheduledType, SetJobType DEF OwnInv, TypeInv, Unpublished
<1>2. /\ outbox'[j] = RetryOutbox(outbox[j], job[j])
      /\ \A k \in Jobs : k # j => outbox'[k] = outbox[k]
  BY SetRowsKeys DEF OwnInv, TypeInv
<1>3. KeyStep(j)
  BY <1>1, <1>2 DEF KeyStep, RetryOutbox
<1>4. QED
  BY <1>2, <1>3, SameKeysAll DEF OwnInv, TypeInv

LEMMA OperatorKeys ==
    ASSUME OwnInv, NEW j \in Jobs, Create(j) \/ Operator(j)
    PROVE  \A k \in Jobs : KeyStep(k)
<1>0. job[j] \in JobRows /\ OwnedRow(job[j])
  BY DEF OwnInv, TypeInv, TypeOK, Ownership
<1>1. \A k \in Jobs : Keeps(job[k], job'[k])
  BY OperatorKeeps, KeepsEvery
<1>2. job'[j].worker \in {job[j].worker, NoProc} /\ job'[j].attempt = job[j].attempt
  BY <1>1 DEF Keeps
<1>3. ASSUME NEW row, SetJob(j, row) PROVE SetJob(j, job'[j])
  BY <1>3 DEF SetJob, OwnInv, TypeInv, TypeOK
<1>4. CASE Create(j)
  <2>0. job'[j].status \in Unpublished
    <3>1. job'[j] = [job[j] EXCEPT !.status = "outbox_pending"]
      BY <1>4 DEF Create, SetJob, OwnInv, TypeInv, TypeOK
    <3>2. QED
      BY <1>0, <3>1 DEF JobRows, Unpublished
  <2>1. SetJob(j, job'[j])
    BY <1>3, <1>4 DEF Create
  <2>2. SetRows(j, CreateOutbox(outbox[j], <<"create", 0>>))
    BY <1>4 DEF Create
  <2>3. QED
    BY <1>2, <2>0, <2>1, <2>2, CreateKeys
<1>5. CASE Resume(j)
  <2>0. job'[j].status \in Unpublished
    <3>1. job'[j] = Transition(job[j], "outbox_pending")
      BY <1>5 DEF Resume, SetJob, OwnInv, TypeInv, TypeOK
    <3>2. QED
      BY <1>0, <3>1, TransitionType DEF Statuses, Unpublished
  <2>1. SetJob(j, job'[j])
    BY <1>3, <1>5 DEF Resume
  <2>2. SetRows(j, CreateOutbox(outbox[j], <<"resume", job[j].attempt + 1>>))
    BY <1>5 DEF Resume
  <2>3. QED
    BY <1>2, <2>0, <2>1, <2>2, CreateKeys
<1>6. CASE RetryDeadLetter(j)
  <2>0. job'[j].status \in Unpublished
    <3> DEFINE base == Transition(job[j], "outbox_pending")
               n == job[j].attempt + RegistryAttempts
    <3>1. job'[j] = [base EXCEPT !.maxAttempts = n, !.due = TRUE]
      BY <1>6 DEF RetryDeadLetter, SetJob, OwnInv, TypeInv, TypeOK
    <3>2. base \in JobRows /\ base.status = "outbox_pending"
      BY <1>0, TransitionType DEF Statuses
    <3> HIDE DEF base, n
    <3>3. QED
      BY <3>1, <3>2 DEF JobRows, Unpublished
  <2>1. SetJob(j, job'[j])
    BY <1>3, <1>6 DEF RetryDeadLetter
  <2>2. SetRows(j, CreateOutbox(outbox[j], <<"dlq-retry", job[j].attempt + 1>>))
    BY <1>6 DEF RetryDeadLetter
  <2>3. job[j].worker = NoProc
    BY <1>0, <1>6 DEF RetryDeadLetter, OwnedRow, TerminalStatuses
  <2>4. QED
    BY <1>2, <2>0, <2>1, <2>2, <2>3, CreateKeys
<1>7. QED
  BY <1>4, <1>5, <1>6, UnchangedKeys
     DEF Operator, RequestCancel, RequestPause, DiscardDeadLetter

LEMMA OutboxKeyStep ==
    ASSUME OwnInv, [Next]_vars
    PROVE  \A k \in Jobs : KeyStep(k)
<1> USE DEF OwnInv, TypeInv
<1>1. CASE \E j \in Jobs : Create(j) \/ Operator(j)
  BY <1>1, OperatorKeys
<1>2. ASSUME NEW j \in Jobs, Maintain(j) PROVE \A k \in Jobs : KeyStep(k)
  <2>1. CASE RecoverStranded(j)
    <3> DEFINE last == Len(outbox[j])
    <3>1. last \in DOMAIN outbox[j] /\ outbox[j][last] \in OutboxRows
      BY <2>1 DEF RecoverStranded, TypeOK
    <3>2. [outbox[j][last] EXCEPT !.status = "pending"].key = outbox[j][last].key
      BY <3>1 DEF OutboxRows
    <3>3. QED
      BY <2>1, <3>1, <3>2, SetRowKeys DEF RecoverStranded
  <2>2. CASE RecoverExpired(j)
    <3>1. CASE Exhausted(job[j])
      <4>1. UNCHANGED outbox
        BY <2>2, <3>1 DEF RecoverExpired, SetRows, TypeOK
      <4>2. QED
        BY <4>1, UnchangedKeys
    <3>2. CASE ~Exhausted(job[j])
      <4>1. job[j].worker # NoProc
        BY <2>2 DEF RecoverExpired, ExpiredLease, Ownership, OwnedRow
      <4>2. QED
        BY <2>2, <3>2, <4>1, RetryKeys DEF RecoverExpired
    <3>3. QED
      BY <3>1, <3>2
  <2>3. QED
    BY <1>2, <2>1, <2>2, UnchangedKeys DEF Maintain, LeaseExpires, BecomesDue
<1>3. ASSUME NEW d \in Dispatchers, Dispatch(d) \/ DispatcherDies(d)
      PROVE  \A k \in Jobs : KeyStep(k)
  <2>1. ASSUME NEW j \in Jobs, NEW i \in DOMAIN outbox[j], ClaimRow(d, j, i)
        PROVE  \A k \in Jobs : KeyStep(k)
    <3> DEFINE row == [outbox[j][i] EXCEPT
                          !.status = "claimed",
                          !.attempt = IF @ < JobMaxAttempts THEN @ + 1 ELSE @]
    <3>1. outbox[j][i] \in OutboxRows
      BY DEF TypeOK
    <3>2. row.key = outbox[j][i].key
      BY <3>1 DEF OutboxRows
    <3>3. SetRow(j, i, row)
      BY <2>1 DEF ClaimRow
    <3> HIDE DEF row
    <3>4. QED
      BY <3>2, <3>3, SetRowKeys
  <2>2. CASE RecordPublished(d) \/ RecordFailure(d)
    <3> DEFINE j == disp[d].job
               i == disp[d].row
    <3>1. j \in Jobs /\ i \in DOMAIN outbox[j] /\ outbox[j][i] \in OutboxRows
      <4>1. j \in Jobs /\ outbox[j] \in Seq(OutboxRows)
        BY DEF TypeOK
      <4>2. i \in DOMAIN outbox[j]
        BY <2>2 DEF InFlight, RecordPublished, RecordFailure
      <4>3. QED
        BY <4>1, <4>2
    <3>2. \A st : [outbox[j][i] EXCEPT !.status = st].key = outbox[j][i].key
      BY <3>1 DEF OutboxRows
    <3>3. \E st : SetRow(j, i, [outbox[j][i] EXCEPT !.status = st])
      BY ZenonT(60), <2>2 DEF RecordPublished, RecordFailure
    <3>4. QED
      BY <3>1, <3>2, <3>3, SetRowKeys
  <2>3. QED
    BY <1>3, <2>1, <2>2, UnchangedKeys DEF Dispatch, DispatcherDies, Publish
<1>4. ASSUME NEW s \in Slots, Execute(s) \/ ExecutorDies(s)
      PROVE  \A k \in Jobs : KeyStep(k)
  <2>1. CASE RetryOrDeadLetter(s) /\ ~UNCHANGED outbox
    <3> DEFINE j == exec[s].job
    <3>1. /\ Owned(s) /\ SetJob(j, Rescheduled(job[j]))
          /\ SetRows(j, RetryOutbox(outbox[j], job[j]))
      BY <2>1 DEF RetryOrDeadLetter, Write, Raise
    <3>2. j \in Jobs /\ job[j].worker # NoProc
      BY <3>1, JobQueueAssumption DEF TypeOK, Owned
    <3>3. QED
      BY <3>1, <3>2, RetryKeys
  <2>2. CASE UNCHANGED outbox
    BY <2>2, UnchangedKeys
  <2>3. QED
    BY <1>4, <2>1, <2>2
       DEF Execute, Claim, DropMessage, Heartbeat, ObserveControl, Outcome, Succeed,
           CancelAtBoundary, PauseAtBoundary, Fail, Raise, ExecutorDies
<1>5. CASE RedisLoses \/ UNCHANGED vars
  BY <1>5, UnchangedKeys DEF RedisLoses, vars
<1>6. QED
  BY <1>1, <1>2, <1>3, <1>4, <1>5 DEF Next

\* An appended row with a new key keeps the keys distinct.
LEMMA AppendedKeys ==
    ASSUME NEW S, NEW rows \in Seq(S), NEW row, ~HasKey(rows, row.key),
           \A i, k \in DOMAIN rows : rows[i].key = rows[k].key => i = k
    PROVE  \A i, k \in DOMAIN Append(rows, row) :
              Append(rows, row)[i].key = Append(rows, row)[k].key => i = k
<1> DEFINE new == Append(rows, row)
           n == Len(rows)
<1>1. /\ n \in Nat /\ DOMAIN rows = 1..n /\ DOMAIN new = 1..(n + 1)
      /\ new[n + 1] = row /\ \A i \in 1..n : new[i] = rows[i]
  OBVIOUS
<1>2. \A i \in 1..n : rows[i].key # row.key
  BY <1>1 DEF HasKey
<1> HIDE DEF new, n
<1>3. ASSUME NEW i \in DOMAIN new, NEW k \in DOMAIN new, new[i].key = new[k].key
      PROVE  i = k
  <2>1. (i \in 1..n \/ i = n + 1) /\ (k \in 1..n \/ k = n + 1)
    BY <1>1
  <2>2. QED
    BY <1>1, <1>2, <1>3, <2>1
<1>4. QED
  BY <1>3 DEF new

LEMMA KeyInvStep == KeyInv /\ [Next]_vars => KeyInv'
<1> SUFFICES ASSUME KeyInv, [Next]_vars, NEW j \in Jobs PROVE KeysOf(j)'
  BY OwnStep DEF KeyInv
<1>0. /\ OwnInv /\ OwnInv' /\ KeysOf(j) /\ KeyStep(j)
  BY OwnStep, OutboxKeyStep DEF KeyInv
<1>1. /\ outbox[j] \in Seq(OutboxRows) /\ outbox'[j] \in Seq(OutboxRows)
      /\ job[j] \in JobRows /\ job'[j] \in JobRows
      /\ job[j].attempt \in Nat /\ job'[j].attempt \in Nat
  BY <1>0 DEF OwnInv, TypeInv, TypeOK, JobRows
<1>2. \A i \in DOMAIN outbox[j] : outbox[j][i].key \in Reasons \X Nat
  <2>1. \A i \in DOMAIN outbox[j] : outbox[j][i] \in OutboxRows
    BY <1>1
  <2>2. QED
    BY <2>1 DEF OutboxRows
<1>3. CASE SameKeys(outbox[j], outbox'[j])
  <2>1. \/ /\ job'[j].worker \in {job[j].worker, NoProc} /\ job'[j].attempt = job[j].attempt
        \/ job'[j].attempt = job[j].attempt + 1
    <3>1. CASE \E s \in Slots, k \in Jobs : Claim(s, k)
      BY <1>0, <3>1, ClaimStep
    <3>2. CASE KeepsStep
      BY <1>0, <3>2, KeepsEvery DEF Keeps
    <3>3. QED
      BY <1>0, <3>1, <3>2, JobStep
  <2>2. \A i \in DOMAIN outbox'[j] :
           i \in DOMAIN outbox[j] /\ outbox'[j][i].key = outbox[j][i].key
    BY <1>3 DEF SameKeys
  <2>3. ASSUME NEW i \in DOMAIN outbox'[j], outbox'[j][i].key[1] = "attempt"
        PROVE  /\ outbox'[j][i].key[2] <= job'[j].attempt + 1
               /\ job'[j].worker # NoProc => outbox'[j][i].key[2] <= job'[j].attempt
    <3>1. /\ outbox[j][i].key[2] \in Nat /\ outbox[j][i].key[2] <= job[j].attempt + 1
          /\ job[j].worker # NoProc => outbox[j][i].key[2] <= job[j].attempt
          /\ outbox'[j][i].key = outbox[j][i].key
      BY <1>0, <1>2, <2>2, <2>3 DEF KeysOf
    <3>2. CASE job'[j].attempt = job[j].attempt + 1
      <4> DEFINE n == outbox[j][i].key[2]
                 a == job[j].attempt
      <4>1. n \in Nat /\ a \in Nat /\ n <= a + 1
        BY <1>1, <3>1
      <4> HIDE DEF n, a
      <4>2. n <= (a + 1) + 1
        BY <4>1
      <4>3. outbox'[j][i].key[2] = n /\ job'[j].attempt = a + 1
        BY <3>1, <3>2 DEF n, a
      <4>4. QED
        BY <4>1, <4>2, <4>3
    <3>3. CASE job'[j].worker \in {job[j].worker, NoProc} /\ job'[j].attempt = job[j].attempt
      BY <1>1, <3>1, <3>3
    <3>4. QED
      BY <2>1, <3>2, <3>3
  <2>4. QED
    BY <1>0, <2>2, <2>3 DEF KeysOf
<1>4. ASSUME NEW key \in Reasons \X Nat, ~HasKey(outbox[j], key),
             outbox'[j] = Append(outbox[j], NewRow(key)),
             job'[j].worker \in {job[j].worker, NoProc}, job'[j].attempt = job[j].attempt,
             key[1] = "attempt" => key[2] <= job[j].attempt + 1 /\ job'[j].worker = NoProc
      PROVE  KeysOf(j)'
  <2>1. NewRow(key).key = key
    BY DEF NewRow
  <2>2. \A i, k \in DOMAIN outbox'[j] : outbox'[j][i].key = outbox'[j][k].key => i = k
    <3>1. ~HasKey(outbox[j], NewRow(key).key)
      BY <1>4, <2>1
    <3>2. \A i, k \in DOMAIN outbox[j] : outbox[j][i].key = outbox[j][k].key => i = k
      BY <1>0 DEF KeysOf
    <3>3. QED
      BY SMTT(30), <1>1, <1>4, <3>1, <3>2, AppendedKeys
  <2>3. ASSUME NEW i \in DOMAIN outbox'[j], outbox'[j][i].key[1] = "attempt"
        PROVE  /\ outbox'[j][i].key[2] <= job'[j].attempt + 1
               /\ job'[j].worker # NoProc => outbox'[j][i].key[2] <= job'[j].attempt
    <3>1. \/ i \in DOMAIN outbox[j] /\ outbox'[j][i] = outbox[j][i]
          \/ outbox'[j][i] = NewRow(key)
      BY SMTT(30), <1>1, <1>4
    <3>2. QED
      BY <1>0, <1>4, <2>1, <2>3, <3>1 DEF KeysOf
  <2>4. QED
    BY <2>2, <2>3 DEF KeysOf
<1>5. CASE \E key \in {<<"create", 0>>, <<"resume", job[j].attempt + 1>>,
                       <<"dlq-retry", job[j].attempt + 1>>} :
              /\ ~HasKey(outbox[j], key)
              /\ outbox'[j] = Append(outbox[j], NewRow(key))
              /\ job'[j].worker \in {job[j].worker, NoProc} /\ job'[j].attempt = job[j].attempt
  <2>1. PICK key \in {<<"create", 0>>, <<"resume", job[j].attempt + 1>>,
                       <<"dlq-retry", job[j].attempt + 1>>} :
              /\ ~HasKey(outbox[j], key)
              /\ outbox'[j] = Append(outbox[j], NewRow(key))
              /\ job'[j].worker \in {job[j].worker, NoProc} /\ job'[j].attempt = job[j].attempt
    BY <1>5
  <2>2. key \in Reasons \X Nat
    BY <1>1 DEF Reasons
  <2>3. key[1] # "attempt"
    OBVIOUS
  <2>4. QED
    BY <1>4, <2>1, <2>2, <2>3
<1>6. CASE /\ job[j].worker # NoProc /\ job'[j].worker = NoProc
           /\ job'[j].attempt = job[j].attempt
           /\ outbox'[j] = Append(outbox[j], NewRow(<<"attempt", job[j].attempt + 1>>))
  <2> DEFINE key == <<"attempt", job[j].attempt + 1>>
  <2>1. ~HasKey(outbox[j], key)
    BY <1>0, <1>1, <1>2, <1>6 DEF HasKey, KeysOf
  <2>2. key \in Reasons \X Nat
    BY SMTT(60), <1>1 DEF Reasons
  <2>3. key[2] <= job[j].attempt + 1
    BY <1>1
  <2>4. QED
    BY <1>4, <1>6, <2>1, <2>2, <2>3
<1>7. QED
  BY <1>0, <1>3, <1>5, <1>6 DEF KeyStep

LEMMA KeyInit == Init => KeyInv
BY OwnInit DEF Init, KeyInv, KeysOf

\* No two outbox rows of a job have the same deduplication_key: the insertion of
\* JobExecutor._retry_outbox never breaks the unique index, so no recovery batch
\* fails on it, however retries, lost leases, pauses and dead-letter retries
\* interleave.
THEOREM OutboxKeysAreUnique == Spec => []DeduplicationKeysUnique
<1>1. KeyInv => DeduplicationKeysUnique
  BY DEF KeyInv, KeysOf, DeduplicationKeysUnique
<1>2. QED
  BY <1>1, KeyInit, KeyInvStep, PTL DEF Spec

-----------------------------------------------------------------------------
(***************************************************************************)
(* Intent to deliver.  Where nobody pauses a job, and either one process   *)
(* publishes the outbox or nobody retries a dead letter, a waiting job has *)
(* an outbox row that will be published, that the stranded-job recovery    *)
(* will reopen, or that used up its publish attempts.                      *)
(***************************************************************************)

NobodyPauses == "pause" \notin Requests

\* At most one outbox row is in flight: the one dispatcher of the deployment.
SinglePublisher == \A d, e \in Dispatchers : d = e

HasRow(rows, statuses) == \E i \in DOMAIN rows : rows[i].status \in statuses

Unsent(rows) == HasRow(rows, {"pending", "claimed", "failed"})

RetryKey(j) == <<"dlq-retry", job[j].attempt + 1>>

Paused == {"pause_requested", "paused"}

\* A waiting job has the row that its status stands for.
IntentOf(j) ==
    /\ job[j].status = "absent" <=> outbox[j] = <<>>
    /\ job[j].status \in Unpublished => Unsent(outbox[j])
    /\ job[j].status \notin Paused

\* The row of a dead-letter retry that was not started yet was given up.
RetriesOf(j) ==
    /\ \A i \in DOMAIN outbox[j] : outbox[j][i].key[1] = "dlq-retry" =>
          outbox[j][i].key[2] <= job[j].attempt + 1
    /\ HasKey(outbox[j], RetryKey(j)) =>
          /\ job[j].worker = NoProc
          /\ job[j].status = "dead_lettered" => HasRow(outbox[j], {"failed"})

\* The row in flight is claimed: nobody else publishes it.
HeldIsClaimed ==
    \A d \in Dispatchers : disp[d].pc # "idle" =>
        outbox[disp[d].job][disp[d].row].status = "claimed"

NoPauseSeen == \A s \in Slots : exec[s].pc # "pause"

IntentInv ==
    /\ KeyInv
    /\ NoPauseSeen
    /\ \A j \in Jobs : IntentOf(j)
    /\ SinglePublisher => HeldIsClaimed /\ \A j \in Jobs : RetriesOf(j)

\* How the status of job j changes with its outbox rows.
StatusStep(j) ==
    /\ job'[j].status \in Unpublished =>
          \/ Unsent(outbox'[j])
          \/ job[j].status \in Unpublished /\ outbox'[j] = outbox[j]
          \/ /\ "retry" \in Requests /\ job[j].status = "dead_lettered"
             /\ HasKey(outbox[j], RetryKey(j)) /\ outbox'[j] = outbox[j]
          \/ job[j].status = "paused"
          \/ job[j].status = "absent" /\ outbox[j] # <<>>
    /\ job'[j].status \in Paused =>
          \/ job[j].status \in Paused
          \/ "pause" \in Requests
          \/ ~NoPauseSeen
    /\ job'[j].status = "dead_lettered" =>
          \/ job[j].status = "dead_lettered"
          \/ job[j].worker # NoProc
          \/ HasRow(outbox'[j], {"failed"})
    /\ job[j].status = "absent" => job'[j].status = "absent" \/ outbox'[j] # <<>>

LEMMA StatusFrame ==
    ASSUME NEW j \in Jobs, \A k \in Jobs : k # j => job'[k] = job[k] /\ outbox'[k] = outbox[k],
           StatusStep(j)
    PROVE  \A k \in Jobs : StatusStep(k)
BY DEF StatusStep

LEMMA SameStatus ==
    ASSUME NEW j \in Jobs, job'[j].status = job[j].status, outbox'[j] = outbox[j]
    PROVE  StatusStep(j)
BY DEF StatusStep

\* An appended row is pending.
LEMMA AppendedUnsent ==
    ASSUME NEW j \in Jobs, outbox[j] \in Seq(OutboxRows), NEW key,
           outbox'[j] = Append(outbox[j], NewRow(key))
    PROVE  Unsent(outbox'[j]) /\ outbox'[j] # <<>>
<1> DEFINE n == Len(outbox[j]) + 1
<1>1. n \in DOMAIN outbox'[j] /\ outbox'[j][n] = NewRow(key)
  OBVIOUS
<1>2. QED
  BY <1>1 DEF Unsent, HasRow, NewRow

\* _create_outbox leaves a pending row, or finds the key.
LEMMA CreatedUnsent ==
    ASSUME NEW j \in Jobs, TypeOK, NEW key, SetRows(j, CreateOutbox(outbox[j], key))
    PROVE  \/ Unsent(outbox'[j]) /\ outbox'[j] # <<>>
           \/ HasKey(outbox[j], key) /\ outbox'[j] = outbox[j] /\ outbox[j] # <<>>
<1>0. outbox[j] \in Seq(OutboxRows)
  BY DEF TypeOK
<1>1. outbox'[j] = CreateOutbox(outbox[j], key)
  BY SetRowsKeys
<1>2. CASE HasKey(outbox[j], key)
  BY <1>1, <1>2 DEF CreateOutbox, HasKey
<1>3. CASE ~HasKey(outbox[j], key)
  BY <1>0, <1>1, <1>3, AppendedUnsent DEF CreateOutbox
<1>4. QED
  BY <1>2, <1>3

LEMMA OperatorStatus ==
    ASSUME OwnInv, NEW j \in Jobs, Create(j) \/ Operator(j)
    PROVE  \A k \in Jobs : StatusStep(k)
<1>0. /\ TypeOK /\ job[j] \in JobRows /\ outbox[j] \in Seq(OutboxRows)
      /\ job \in [Jobs -> JobRows] /\ outbox \in [Jobs -> Seq(OutboxRows)]
  BY DEF OwnInv, TypeInv, TypeOK
<1>1. \A k \in Jobs : k # j => job'[k] = job[k] /\ outbox'[k] = outbox[k]
  BY <1>0 DEF Create, Operator, RequestCancel, RequestPause, Resume, RetryDeadLetter,
              DiscardDeadLetter, SetJob, SetRows
<1>2. {"cancel_requested", "cancelled", "pause_requested", "paused", "outbox_pending"}
         \subseteq Statuses
  BY DEF Statuses
<1>3. CASE Create(j)
  <2>1. \/ Unsent(outbox'[j]) /\ outbox'[j] # <<>>
        \/ outbox'[j] = outbox[j] /\ outbox[j] # <<>>
    BY <1>0, <1>3, CreatedUnsent DEF Create
  <2>2. job'[j].status = "outbox_pending" /\ job[j].status = "absent"
    BY <1>0, <1>3 DEF Create, SetJob, JobRows
  <2>3. StatusStep(j)
    BY <2>1, <2>2 DEF StatusStep, Paused
  <2>4. QED
    BY <1>1, <2>3, StatusFrame
<1>4. CASE RequestCancel(j)
  <2>1. job'[j].status \in {"cancel_requested", "cancelled"}
    <3> DEFINE asked == Transition(job[j], "cancel_requested")
    <3>1. asked \in JobRows /\ asked.status = "cancel_requested"
      BY <1>0, <1>2, TransitionType
    <3>2. job'[j] = asked \/ job'[j] = Transition(asked, "cancelled")
      BY <1>0, <1>4 DEF RequestCancel, SetJob
    <3> HIDE DEF asked
    <3>3. Transition(asked, "cancelled").status = "cancelled"
      BY <1>2, <3>1, TransitionType
    <3>4. QED
      BY <3>1, <3>2, <3>3
  <2>2. job[j].status # "absent"
    BY <1>4 DEF RequestCancel, CanGo, Allowed
  <2>3. StatusStep(j)
    BY <2>1, <2>2 DEF StatusStep, Paused, Unpublished
  <2>4. QED
    BY <1>1, <2>3, StatusFrame
<1>5. CASE RequestPause(j)
  <2>1. job'[j].status \in Paused
    <3> DEFINE asked == Transition(job[j], "pause_requested")
    <3>1. asked \in JobRows /\ asked.status = "pause_requested"
      BY <1>0, <1>2, TransitionType
    <3>2. job'[j] = asked \/ job'[j] = Transition(asked, "paused")
      BY <1>0, <1>5 DEF RequestPause, SetJob
    <3> HIDE DEF asked
    <3>3. Transition(asked, "paused").status = "paused"
      BY <1>2, <3>1, TransitionType
    <3>4. QED
      BY <3>1, <3>2, <3>3 DEF Paused
  <2>2. "pause" \in Requests /\ job[j].status # "absent"
    BY <1>5 DEF RequestPause, Ask
  <2>3. StatusStep(j)
    BY <2>1, <2>2 DEF StatusStep, Paused, Unpublished
  <2>4. QED
    BY <1>1, <2>3, StatusFrame
<1>6. CASE Resume(j)
  <2>1. job'[j].status = "outbox_pending" /\ job[j].status = "paused"
    BY <1>0, <1>2, <1>6, TransitionType DEF Resume, SetJob
  <2>2. StatusStep(j)
    BY <2>1 DEF StatusStep, Paused
  <2>3. QED
    BY <1>1, <2>2, StatusFrame
<1>7. CASE RetryDeadLetter(j)
  <2>1. job'[j].status = "outbox_pending" /\ job[j].status = "dead_lettered"
    <3> DEFINE base == Transition(job[j], "outbox_pending")
               n == job[j].attempt + RegistryAttempts
    <3>1. job'[j] = [base EXCEPT !.maxAttempts = n, !.due = TRUE]
      BY <1>0, <1>7 DEF RetryDeadLetter, SetJob
    <3>2. base \in JobRows /\ base.status = "outbox_pending"
      BY <1>0, <1>2, TransitionType
    <3> HIDE DEF base, n
    <3>3. QED
      BY <1>7, <3>1, <3>2 DEF JobRows, RetryDeadLetter
  <2>2. "retry" \in Requests
    BY <1>7 DEF RetryDeadLetter, Ask
  <2>3. \/ Unsent(outbox'[j])
        \/ HasKey(outbox[j], RetryKey(j)) /\ outbox'[j] = outbox[j]
    BY <1>0, <1>7, CreatedUnsent DEF RetryDeadLetter, RetryKey
  <2>4. StatusStep(j)
    BY <2>1, <2>2, <2>3 DEF StatusStep, Paused
  <2>5. QED
    BY <1>1, <2>4, StatusFrame
<1>8. CASE DiscardDeadLetter(j)
  <2>1. job'[j].status = job[j].status /\ outbox'[j] = outbox[j]
    BY <1>0, <1>8 DEF DiscardDeadLetter, SetJob, JobRows
  <2>2. QED
    BY <1>1, <2>1, SameStatus, StatusFrame
<1>9. QED
  BY <1>3, <1>4, <1>5, <1>6, <1>7, <1>8 DEF Operator

\* One row of a job's outbox is replaced.
LEMMA SetRowEffect ==
    ASSUME TypeOK, NEW j \in Jobs, NEW i \in DOMAIN outbox[j], NEW row, SetRow(j, i, row)
    PROVE  /\ i \in DOMAIN outbox'[j] /\ outbox'[j][i] = row
           /\ outbox'[j] # <<>>
           /\ \A k \in Jobs : k # j => outbox'[k] = outbox[k]
           /\ \A m \in DOMAIN outbox[j] :
                 m \in DOMAIN outbox'[j] /\ (m # i => outbox'[j][m] = outbox[j][m])
<1>1. outbox \in [Jobs -> Seq(OutboxRows)] /\ outbox[j] \in Seq(OutboxRows)
  BY DEF TypeOK
<1>2. outbox' = [outbox EXCEPT ![j] = [outbox[j] EXCEPT ![i] = row]]
  BY DEF SetRow, SetRows
<1>3. outbox'[j] = [outbox[j] EXCEPT ![i] = row] /\ \A k \in Jobs : k # j => outbox'[k] = outbox[k]
  BY <1>1, <1>2
<1>4. /\ DOMAIN outbox'[j] = DOMAIN outbox[j] /\ outbox'[j][i] = row
      /\ \A m \in DOMAIN outbox[j] : m # i => outbox'[j][m] = outbox[j][m]
  BY <1>1, <1>3
<1>5. outbox'[j] # <<>>
  BY <1>4
<1>6. QED
  BY <1>3, <1>4, <1>5

\* The dispatchers: a row is published with its job, or given up with it.
LEMMA DispatchStatus ==
    ASSUME OwnInv, NEW d \in Dispatchers, Dispatch(d) \/ DispatcherDies(d)
    PROVE  \A k \in Jobs : StatusStep(k)
<1>0. /\ TypeOK /\ job \in [Jobs -> JobRows] /\ outbox \in [Jobs -> Seq(OutboxRows)]
      /\ disp[d].job \in Jobs
  BY DEF OwnInv, TypeInv, TypeOK
<1>1. ASSUME NEW j \in Jobs, NEW i \in DOMAIN outbox[j], ClaimRow(d, j, i)
      PROVE  \A k \in Jobs : StatusStep(k)
  <2> DEFINE row == [outbox[j][i] EXCEPT
                        !.status = "claimed",
                        !.attempt = IF @ < JobMaxAttempts THEN @ + 1 ELSE @]
  <2>1. UNCHANGED job /\ SetRow(j, i, row)
    BY <1>1 DEF ClaimRow
  <2>2. row.status = "claimed"
    <3>1. outbox[j][i] \in OutboxRows
      BY <1>0
    <3>2. QED
      BY <3>1 DEF OutboxRows
  <2> HIDE DEF row
  <2>3. i \in DOMAIN outbox'[j] /\ outbox'[j][i] = row /\ outbox'[j] # <<>>
        /\ \A k \in Jobs : k # j => outbox'[k] = outbox[k]
    BY <1>0, <2>1, SetRowEffect
  <2>4. Unsent(outbox'[j])
    BY <2>2, <2>3 DEF Unsent, HasRow
  <2>5. StatusStep(j)
    BY <2>1, <2>3, <2>4 DEF StatusStep
  <2>6. QED
    BY <2>1, <2>3, <2>5, StatusFrame
<1>2. CASE RecordPublished(d)
  <2> DEFINE j == disp[d].job
             i == disp[d].row
             row == [outbox[j][i] EXCEPT !.status = "published"]
  <2>1. j \in Jobs /\ i \in DOMAIN outbox[j]
    BY <1>0, <1>2 DEF OwnInv, TypeInv, InFlight, RecordPublished
  <2>2. SetRow(j, i, row) /\ outbox[j][i] \in OutboxRows
    BY <1>0, <1>2, <2>1 DEF RecordPublished
  <2>3. /\ outbox'[j] # <<>> /\ \A k \in Jobs : k # j => outbox'[k] = outbox[k]
    BY <1>0, <2>1, <2>2, SetRowEffect
  <2>4. SetJob(j, IF outbox[j][i].status # "published" THEN Queued(job[j]) ELSE job[j])
    BY <1>2 DEF RecordPublished
  <2>5. \A k \in Jobs : k # j => job'[k] = job[k]
    BY <1>0, <2>4 DEF SetJob
  <2>6. CASE outbox[j][i].status = "published"
    <3>1. job'[j] = job[j]
      BY <1>0, <2>4, <2>6 DEF SetJob
    <3>2. row = outbox[j][i]
      BY <2>2, <2>6 DEF OutboxRows
    <3>3. outbox'[j] = outbox[j]
      <4>1. outbox'[j] = [outbox[j] EXCEPT ![i] = outbox[j][i]]
        BY <1>0, <2>1, <2>2, <3>2 DEF SetRow, SetRows
      <4>2. outbox[j] \in Seq(OutboxRows)
        BY <1>0, <2>1
      <4>3. QED
        BY <4>1, <4>2
    <3>4. QED
      BY <2>1, <2>3, <2>5, <3>1, <3>3, SameStatus, StatusFrame
  <2>7. CASE outbox[j][i].status # "published"
    <3>1. job'[j] = Queued(job[j]) /\ job[j] \in JobRows
      BY <1>0, <2>1, <2>4, <2>7 DEF SetJob
    <3>2. /\ job'[j].status \notin Unpublished
          /\ job'[j].status \in {"queued", job[j].status}
      BY <3>1 DEF Queued, JobRows, Unpublished
    <3>3. StatusStep(j)
      BY <2>3, <3>2 DEF StatusStep, Paused
    <3>4. QED
      BY <2>1, <2>3, <2>5, <3>3, StatusFrame
  <2>8. QED
    BY <2>6, <2>7
<1>3. CASE RecordFailure(d)
  <2> DEFINE j == disp[d].job
             i == disp[d].row
             exhausted == outbox[j][i].attempt >= JobMaxAttempts
             row == [outbox[j][i] EXCEPT !.status = IF exhausted THEN "failed" ELSE "pending"]
  <2>1. j \in Jobs /\ i \in DOMAIN outbox[j]
    BY <1>0, <1>3 DEF OwnInv, TypeInv, InFlight, RecordFailure
  <2>2. SetRow(j, i, row) /\ outbox[j][i] \in OutboxRows
    BY <1>0, <1>3, <2>1 DEF RecordFailure
  <2>3. row.status = IF exhausted THEN "failed" ELSE "pending"
    BY <2>2 DEF OutboxRows
  <2>4. SetJob(j, IF exhausted /\ job[j].status \in {"outbox_pending", "retry_scheduled"}
                  THEN DeadLetter(job[j]) ELSE job[j])
    BY <1>3 DEF RecordFailure
  <2> HIDE DEF exhausted, row
  <2>5. /\ i \in DOMAIN outbox'[j] /\ outbox'[j][i] = row /\ outbox'[j] # <<>>
        /\ \A k \in Jobs : k # j => outbox'[k] = outbox[k]
    BY <1>0, <2>1, <2>2, SetRowEffect
  <2>6. Unsent(outbox'[j]) /\ (exhausted => HasRow(outbox'[j], {"failed"}))
    BY <2>3, <2>5 DEF Unsent, HasRow
  <2>7. /\ job'[j].status = job[j].status \/ (exhausted /\ job'[j].status = "dead_lettered")
        /\ \A k \in Jobs : k # j => job'[k] = job[k]
    <3>1. job[j] \in JobRows
      BY <1>0, <2>1
    <3>2. DeadLetter(job[j]).status = "dead_lettered"
      BY <3>1, DeadLetterType
    <3>3. QED
      BY <1>0, <2>1, <2>4, <3>2 DEF SetJob
  <2>8. StatusStep(j)
    BY <2>5, <2>6, <2>7 DEF StatusStep, Paused
  <2>9. QED
    BY <2>1, <2>5, <2>7, <2>8, StatusFrame
<1>4. CASE UNCHANGED <<job, outbox>>
  BY <1>4, SameStatus
<1>5. QED
  BY <1>1, <1>2, <1>3, <1>4 DEF Dispatch, DispatcherDies, Publish

LEMMA MaintainStatus ==
    ASSUME OwnInv, NEW j \in Jobs, Maintain(j)
    PROVE  \A k \in Jobs : StatusStep(k)
<1>0. /\ TypeOK /\ job \in [Jobs -> JobRows] /\ outbox \in [Jobs -> Seq(OutboxRows)]
      /\ job[j] \in JobRows /\ outbox[j] \in Seq(OutboxRows)
  BY DEF OwnInv, TypeInv, TypeOK
<1>1. \A k \in Jobs : k # j => job'[k] = job[k] /\ outbox'[k] = outbox[k]
  BY <1>0 DEF Maintain, RecoverStranded, RecoverExpired, LeaseExpires, BecomesDue,
              SetJob, SetRow, SetRows
<1>2. CASE RecoverStranded(j)
  <2> DEFINE last == Len(outbox[j])
             row == [outbox[j][last] EXCEPT !.status = "pending"]
             base == Transition(job[j], "retry_scheduled")
  <2>1. last \in DOMAIN outbox[j] /\ outbox[j][last] \in OutboxRows /\ SetRow(j, last, row)
    BY <1>0, <1>2 DEF RecoverStranded
  <2>2. row.status = "pending"
    BY <2>1 DEF OutboxRows
  <2>3. job'[j] = [base EXCEPT !.due = TRUE] /\ job[j].status = "queued"
    BY <1>0, <1>2 DEF RecoverStranded, SetJob
  <2>4. base \in JobRows /\ base.status = "retry_scheduled"
    BY <1>0, TransitionType DEF Statuses
  <2> HIDE DEF row, base
  <2>5. job'[j].status = "retry_scheduled"
    BY <2>3, <2>4 DEF JobRows
  <2>6. last \in DOMAIN outbox'[j] /\ outbox'[j][last] = row
    BY <1>0, <2>1, SetRowEffect
  <2>7. Unsent(outbox'[j])
    BY <2>2, <2>6 DEF Unsent, HasRow
  <2>8. StatusStep(j)
    BY <2>3, <2>5, <2>7 DEF StatusStep, Paused
  <2>9. QED
    BY <1>1, <2>8, StatusFrame
<1>3. CASE RecoverExpired(j)
  <2>1. job[j].status \in {"leased", "running"} /\ job[j].worker # NoProc
    BY <1>3 DEF RecoverExpired, ExpiredLease, OwnInv, Ownership, OwnedRow
  <2>2. CASE Exhausted(job[j])
    <3>1. job'[j].status = "dead_lettered"
      BY <1>0, <1>3, <2>2, DeadLetterType DEF RecoverExpired, SetJob
    <3>2. StatusStep(j)
      BY <2>1, <3>1 DEF StatusStep, Paused, Unpublished
    <3>3. QED
      BY <1>1, <3>2, StatusFrame
  <2>3. CASE ~Exhausted(job[j])
    <3>1. job'[j].status = "retry_scheduled"
      BY <1>0, <1>3, <2>3, RescheduledType DEF RecoverExpired, SetJob
    <3>2. outbox'[j] = Append(outbox[j], NewRow(<<"attempt", job[j].attempt + 1>>))
      BY <1>0, <1>3, <2>3, SetRowsKeys DEF RecoverExpired, RetryOutbox
    <3>3. Unsent(outbox'[j])
      BY <1>0, <3>2, AppendedUnsent
    <3>4. StatusStep(j)
      BY <2>1, <3>1, <3>3 DEF StatusStep, Paused
    <3>5. QED
      BY <1>1, <3>4, StatusFrame
  <2>4. QED
    BY <2>2, <2>3
<1>4. CASE LeaseExpires(j) \/ BecomesDue(j)
  <2>1. job'[j].status = job[j].status /\ outbox'[j] = outbox[j]
    BY <1>0, <1>4 DEF LeaseExpires, BecomesDue, SetJob, JobRows
  <2>2. QED
    BY <1>1, <2>1, SameStatus, StatusFrame
<1>5. QED
  BY <1>2, <1>3, <1>4 DEF Maintain

LEMMA ExecuteStatus ==
    ASSUME OwnInv, NEW s \in Slots, Execute(s) \/ ExecutorDies(s)
    PROVE  \A k \in Jobs : StatusStep(k)
<1> DEFINE j == exec[s].job
           old == job[j]
<1>0. /\ TypeOK /\ job \in [Jobs -> JobRows] /\ outbox \in [Jobs -> Seq(OutboxRows)]
      /\ j \in Jobs /\ old \in JobRows /\ outbox[j] \in Seq(OutboxRows) /\ OwnedRow(old)
      /\ exec \in [Slots -> [pc : SlotPcs, job : Jobs, attempt : Nat]]
  BY DEF OwnInv, TypeInv, TypeOK, Ownership
<1>p. ProcOf[s] # NoProc
  BY JobQueueAssumption
<1>1. ASSUME NEW k \in Jobs, Claim(s, k) PROVE \A m \in Jobs : StatusStep(m)
  <2>1. /\ job'[k].status = "running" /\ UNCHANGED outbox /\ job[k].status # "absent"
        /\ \A m \in Jobs : m # k => job'[m] = job[m]
    BY <1>1, ClaimStep DEF Claim, Claimable
  <2>2. StatusStep(k)
    BY <2>1 DEF StatusStep, Paused, Unpublished
  <2>3. QED
    BY <2>1, <2>2, StatusFrame
<1>2. CASE UNCHANGED <<job, outbox>>
  BY <1>2, SameStatus
<1>3. CASE Heartbeat(s)
  <2>1. /\ job' = [job EXCEPT ![j] = [job[j] EXCEPT !.lease = "live"]] /\ UNCHANGED outbox
    BY <1>3 DEF Heartbeat, SetJob
  <2>2. job'[j].status = old.status /\ \A k \in Jobs : k # j => job'[k] = job[k]
    BY <1>0, <2>1 DEF JobRows
  <2>3. QED
    BY <1>0, <2>1, <2>2, SameStatus, StatusFrame
<1>4. CASE /\ Owned(s) /\ UNCHANGED outbox
           /\ \E row \in JobRows :
                 /\ SetJob(j, row)
                 /\ row.status \in {"succeeded", "failed", "cancelled", "dead_lettered"}
                 /\ old.status # "absent"
  <2>1. PICK row \in JobRows :
                 /\ SetJob(j, row)
                 /\ row.status \in {"succeeded", "failed", "cancelled", "dead_lettered"}
                 /\ old.status # "absent"
    BY <1>4
  <2>2. job'[j] = row /\ \A k \in Jobs : k # j => job'[k] = job[k]
    BY <1>0, <2>1, SetJobType
  <2>3. old.worker # NoProc
    BY <1>4, <1>p DEF Owned
  <2>4. StatusStep(j)
    BY <2>1, <2>2, <2>3 DEF StatusStep, Paused, Unpublished
  <2>5. QED
    BY <1>0, <1>4, <2>2, <2>4, StatusFrame
<1>5. CASE Succeed(s)
  <2> DEFINE target == SuccessTarget(old.status)
  <2>1. CASE Owned(s) /\ CanGo(old.status, target)
    <3>1. SetJob(j, Transition(old, target)) /\ UNCHANGED outbox
      BY <1>5, <2>1 DEF Succeed, Write
    <3>2. /\ target \in Statuses /\ old.status # "absent"
          /\ \/ target \in {"succeeded", "cancelled"}
             \/ target = "paused" /\ old.status \in Paused
      BY <2>1 DEF SuccessTarget, CanGo, Allowed, Statuses, Paused
    <3>3. Transition(old, target) \in JobRows /\ Transition(old, target).status = target
      BY <1>0, <3>2, TransitionType
    <3>4. CASE target = "paused" /\ old.status \in Paused
      <4>1. job'[j].status = "paused" /\ \A k \in Jobs : k # j => job'[k] = job[k]
        BY <1>0, <3>1, <3>3, <3>4, SetJobType
      <4>2. StatusStep(j)
        BY <3>2, <3>4, <4>1 DEF StatusStep, Unpublished
      <4>3. QED
        BY <1>0, <3>1, <4>1, <4>2, StatusFrame
    <3>5. QED
      BY <1>4, <2>1, <3>1, <3>2, <3>3, <3>4
  <2>2. CASE ~(Owned(s) /\ CanGo(old.status, target))
    BY <1>2, <1>5, <2>2 DEF Succeed
  <2>3. QED
    BY <2>1, <2>2
<1>6. CASE CancelAtBoundary(s)
  <2>1. CASE Owned(s) /\ CanGo(old.status, "cancel_requested")
    <3>1. SetJob(j, Transition(old, "cancelled")) /\ UNCHANGED outbox
      BY <1>6, <2>1 DEF CancelAtBoundary, Write
    <3>2. old.status # "absent"
      BY <2>1 DEF CanGo, Allowed
    <3>3. Transition(old, "cancelled") \in JobRows /\ Transition(old, "cancelled").status = "cancelled"
      BY <1>0, TransitionType DEF Statuses
    <3>4. QED
      BY <1>4, <2>1, <3>1, <3>2, <3>3
  <2>2. CASE ~(Owned(s) /\ CanGo(old.status, "cancel_requested"))
    BY <1>2, <1>6, <2>2 DEF CancelAtBoundary, Raise
  <2>3. QED
    BY <2>1, <2>2
<1>7. CASE PauseAtBoundary(s)
  <2>1. CASE UNCHANGED outbox /\ SetJob(j, [Transition(old, "paused") EXCEPT !.worker = NoProc, !.lease = "none"])
             /\ CanGo(old.status, "pause_requested")
    <3> DEFINE base == Transition(old, "paused")
    <3>1. base \in JobRows /\ base.status = "paused"
      BY <1>0, TransitionType DEF Statuses
    <3>2. job' = [job EXCEPT ![j] = [base EXCEPT !.worker = NoProc, !.lease = "none"]]
      BY <2>1 DEF SetJob
    <3> HIDE DEF base
    <3>3. job'[j].status = "paused" /\ \A k \in Jobs : k # j => job'[k] = job[k]
      BY <1>0, <3>1, <3>2 DEF JobRows
    <3>4. ~NoPauseSeen
      BY <1>7 DEF PauseAtBoundary, NoPauseSeen
    <3>5. old.status # "absent"
      BY <2>1 DEF CanGo, Allowed
    <3>6. StatusStep(j)
      BY <3>3, <3>4, <3>5 DEF StatusStep, Unpublished
    <3>7. QED
      BY <1>0, <2>1, <3>3, <3>6, StatusFrame
  <2>2. QED
    BY <1>2, <1>7, <2>1 DEF PauseAtBoundary, Write, Raise
<1>8. CASE RetryOrDeadLetter(s)
  <2>1. CASE Owned(s) /\ CanGo(old.status, "failed") /\ SetJob(j, DeadLetter(old)) /\ UNCHANGED outbox
    <3>1. old.status # "absent"
      BY <2>1 DEF CanGo, Allowed
    <3>2. QED
      BY <1>0, <1>4, <2>1, <3>1, DeadLetterType
  <2>2. CASE /\ CanGo(old.status, "retry_scheduled") /\ SetJob(j, Rescheduled(old))
             /\ SetRows(j, RetryOutbox(outbox[j], old))
    <3>1. old.status # "absent"
      BY <2>2 DEF CanGo, Allowed
    <3>2. job'[j].status = "retry_scheduled" /\ \A k \in Jobs : k # j => job'[k] = job[k]
      BY <1>0, <2>2, RescheduledType, SetJobType
    <3>3. /\ outbox'[j] = Append(outbox[j], NewRow(<<"attempt", old.attempt + 1>>))
          /\ \A k \in Jobs : k # j => outbox'[k] = outbox[k]
      BY <1>0, <2>2, SetRowsKeys DEF RetryOutbox
    <3>4. Unsent(outbox'[j])
      BY <1>0, <3>3, AppendedUnsent
    <3>5. StatusStep(j)
      BY <3>1, <3>2, <3>4 DEF StatusStep, Paused
    <3>6. QED
      BY <1>0, <3>2, <3>3, <3>5, StatusFrame
  <2>3. QED
    BY <1>2, <1>8, <2>1, <2>2 DEF RetryOrDeadLetter, Write, Raise
<1>9. CASE Fail(s)
  <2>1. CASE Owned(s) /\ CanGo(old.status, "failed")
    <3>1. SetJob(j, Transition(old, "failed")) /\ UNCHANGED outbox
      BY <1>9, <2>1 DEF Fail, Write
    <3>2. old.status # "absent"
      BY <2>1 DEF CanGo, Allowed
    <3>3. Transition(old, "failed") \in JobRows /\ Transition(old, "failed").status = "failed"
      BY <1>0, TransitionType DEF Statuses
    <3>4. QED
      BY <1>4, <2>1, <3>1, <3>2, <3>3
  <2>2. CASE ~(Owned(s) /\ CanGo(old.status, "failed"))
    BY <1>2, <1>9, <2>2 DEF Fail, Raise
  <2>3. QED
    BY <2>1, <2>2
<1>10. QED
  BY <1>1, <1>2, <1>3, <1>5, <1>6, <1>7, <1>8, <1>9
     DEF Execute, Outcome, DropMessage, ObserveControl, ExecutorDies

LEMMA EveryStatus ==
    ASSUME OwnInv, [Next]_vars
    PROVE  \A k \in Jobs : StatusStep(k)
<1>1. CASE \E j \in Jobs : Create(j) \/ Operator(j) \/ Maintain(j)
  BY <1>1, OperatorStatus, MaintainStatus
<1>2. CASE \E d \in Dispatchers : Dispatch(d) \/ DispatcherDies(d)
  BY <1>2, DispatchStatus
<1>3. CASE \E s \in Slots : Execute(s) \/ ExecutorDies(s)
  BY <1>3, ExecuteStatus
<1>4. CASE RedisLoses \/ UNCHANGED vars
  BY <1>4, SameStatus DEF RedisLoses, vars
<1>5. QED
  BY <1>1, <1>2, <1>3, <1>4 DEF Next

\* A step of anybody but the dispatchers.
Elsewhere ==
    \/ \E k \in Jobs : Create(k) \/ Operator(k) \/ Maintain(k)
    \/ \E s \in Slots : Execute(s) \/ ExecutorDies(s)
    \/ RedisLoses
    \/ UNCHANGED vars

LEMMA ElsewhereDisp == Elsewhere => UNCHANGED disp
<1> SUFFICES ASSUME Elsewhere PROVE UNCHANGED disp
  OBVIOUS
<1>1. ASSUME NEW k \in Jobs, Create(k) \/ Operator(k) PROVE UNCHANGED disp
  BY <1>1 DEF Create, Operator, RequestCancel, RequestPause, Resume, RetryDeadLetter,
              DiscardDeadLetter, Ask
<1>2. ASSUME NEW k \in Jobs, Maintain(k) PROVE UNCHANGED disp
  BY <1>2 DEF Maintain, RecoverStranded, RecoverExpired, LeaseExpires, BecomesDue, ExecStep
<1>3. ASSUME NEW s \in Slots, Execute(s) \/ ExecutorDies(s) PROVE UNCHANGED disp
  <2>1. CASE Outcome(s)
    BY <2>1 DEF Outcome, Succeed, CancelAtBoundary, PauseAtBoundary, RetryOrDeadLetter,
                Fail, ExecStep
  <2>2. QED
    BY <1>3, <2>1 DEF Execute, Claim, DropMessage, Heartbeat, ObserveControl, ExecutorDies,
                      ExecStep
<1>4. QED
  BY <1>1, <1>2, <1>3 DEF Elsewhere, RedisLoses, vars

\* Only a dispatcher changes a row that is not published.
LEMMA QuietRows ==
    ASSUME OwnInv, NEW j \in Jobs, NEW i \in DOMAIN outbox[j], Elsewhere
    PROVE  /\ i \in DOMAIN outbox'[j]
           /\ outbox'[j][i] = outbox[j][i] \/ outbox[j][i].status = "published"
<1>0. /\ TypeOK /\ outbox \in [Jobs -> Seq(OutboxRows)] /\ outbox[j] \in Seq(OutboxRows)
  BY DEF OwnInv, TypeInv, TypeOK
<1>1. CASE outbox'[j] = outbox[j]
  BY <1>1
<1>2. CASE \E row : outbox'[j] = Append(outbox[j], row)
  BY <1>0, <1>2
<1>3. CASE \E k \in Jobs : RecoverStranded(k)
  <2>1. PICK k \in Jobs : RecoverStranded(k)
    BY <1>3
  <2> DEFINE last == Len(outbox[k])
             row == [outbox[k][last] EXCEPT !.status = "pending"]
  <2>2. /\ last \in DOMAIN outbox[k] /\ outbox[k][last].status = "published"
        /\ SetRow(k, last, row)
    BY <1>0, <2>1 DEF RecoverStranded
  <2> HIDE DEF row
  <2>3. /\ \A m \in Jobs : m # k => outbox'[m] = outbox[m]
        /\ \A m \in DOMAIN outbox[k] :
              m \in DOMAIN outbox'[k] /\ (m # last => outbox'[k][m] = outbox[k][m])
    BY <1>0, <2>2, SetRowEffect
  <2>4. QED
    BY <2>2, <2>3
<1>4. ASSUME NEW k \in Jobs, NEW rows, SetRows(k, rows),
             rows = outbox[k] \/ \E row : rows = Append(outbox[k], row)
      PROVE  outbox'[j] = outbox[j] \/ \E row : outbox'[j] = Append(outbox[j], row)
  BY <1>0, <1>4, SetRowsKeys
<1>5. ASSUME NEW k \in Jobs, NEW key, SetRows(k, CreateOutbox(outbox[k], key))
      PROVE  outbox'[j] = outbox[j] \/ \E row : outbox'[j] = Append(outbox[j], row)
  BY <1>4, <1>5 DEF CreateOutbox
<1>6. ASSUME NEW k \in Jobs, NEW row, SetRows(k, RetryOutbox(outbox[k], row))
      PROVE  outbox'[j] = outbox[j] \/ \E r : outbox'[j] = Append(outbox[j], r)
  BY <1>4, <1>6 DEF RetryOutbox
<1>7. CASE \E k \in Jobs : Create(k) \/ Operator(k)
  <2>1. PICK k \in Jobs : Create(k) \/ Operator(k)
    BY <1>7
  <2>2. UNCHANGED outbox \/ \E key : SetRows(k, CreateOutbox(outbox[k], key))
    BY <2>1 DEF Create, Operator, RequestCancel, RequestPause, Resume, RetryDeadLetter,
                DiscardDeadLetter
  <2>3. QED
    BY <1>1, <1>2, <1>5, <2>2
<1>8. CASE \E k \in Jobs : Maintain(k)
  <2>1. PICK k \in Jobs : Maintain(k)
    BY <1>8
  <2>2. CASE RecoverExpired(k)
    <3>1. SetRows(k, outbox[k]) \/ SetRows(k, RetryOutbox(outbox[k], job[k]))
      BY <2>2 DEF RecoverExpired
    <3>2. QED
      BY <1>1, <1>2, <1>4, <1>6, <3>1
  <2>3. QED
    BY <1>1, <1>3, <2>1, <2>2 DEF Maintain, LeaseExpires, BecomesDue
<1>9. CASE \E s \in Slots : Execute(s) \/ ExecutorDies(s)
  <2>1. PICK s \in Slots : Execute(s) \/ ExecutorDies(s)
    BY <1>9
  <2>2. \/ UNCHANGED outbox
        \/ SetRows(exec[s].job, RetryOutbox(outbox[exec[s].job], job[exec[s].job]))
    <3>1. CASE Outcome(s)
      BY <3>1 DEF Outcome, Succeed, CancelAtBoundary, PauseAtBoundary, RetryOrDeadLetter,
                  Fail, Raise
    <3>2. QED
      BY <2>1, <3>1 DEF Execute, Claim, DropMessage, Heartbeat, ObserveControl, ExecutorDies
  <2>3. exec[s].job \in Jobs
    BY <1>0 DEF TypeOK
  <2>4. outbox'[j] = outbox[j] \/ \E row : outbox'[j] = Append(outbox[j], row)
    BY <1>6, <2>2, <2>3
  <2>5. QED
    BY <1>1, <1>2, <2>4
<1>10. QED
  BY <1>1, <1>7, <1>8, <1>9 DEF Elsewhere, RedisLoses, vars

\* What the one dispatcher does to the rows.
LEMMA SingleDispatch ==
    ASSUME OwnInv, SinglePublisher, HeldIsClaimed,
           NEW d \in Dispatchers, Dispatch(d) \/ DispatcherDies(d)
    PROVE  /\ HeldIsClaimed'
           /\ \A j \in Jobs : HasRow(outbox[j], {"failed"}) => HasRow(outbox'[j], {"failed"})
<1>0. /\ TypeOK /\ outbox \in [Jobs -> Seq(OutboxRows)]
      /\ disp \in [Dispatchers -> [pc : DispatcherPcs, job : Jobs, row : Nat]]
  BY DEF OwnInv, TypeInv, TypeOK
<1>1. \A e \in Dispatchers : e = d
  BY DEF SinglePublisher
<1>2. ASSUME NEW j \in Jobs, NEW i \in DOMAIN outbox[j], NEW row, SetRow(j, i, row),
             outbox[j][i].status # "failed"
      PROVE  \A k \in Jobs : HasRow(outbox[k], {"failed"}) => HasRow(outbox'[k], {"failed"})
  <2>1. /\ \A k \in Jobs : k # j => outbox'[k] = outbox[k]
        /\ \A m \in DOMAIN outbox[j] :
              m \in DOMAIN outbox'[j] /\ (m # i => outbox'[j][m] = outbox[j][m])
    BY <1>0, <1>2, SetRowEffect
  <2>2. QED
    BY <1>2, <2>1 DEF HasRow
<1>3. ASSUME NEW j \in Jobs, NEW i \in DOMAIN outbox[j], ClaimRow(d, j, i)
      PROVE  /\ HeldIsClaimed'
             /\ \A k \in Jobs : HasRow(outbox[k], {"failed"}) => HasRow(outbox'[k], {"failed"})
  <2> DEFINE row == [outbox[j][i] EXCEPT
                        !.status = "claimed",
                        !.attempt = IF @ < JobMaxAttempts THEN @ + 1 ELSE @]
  <2>1. /\ SetRow(j, i, row) /\ outbox[j][i].status \in {"pending", "claimed"}
        /\ disp' = [disp EXCEPT ![d] = [pc |-> "claimed", job |-> j, row |-> i]]
    BY <1>3 DEF ClaimRow
  <2>2. row.status = "claimed"
    <3>1. outbox[j][i] \in OutboxRows
      BY <1>0
    <3>2. QED
      BY <3>1 DEF OutboxRows
  <2> HIDE DEF row
  <2>3. outbox'[j][i] = row
    BY <1>0, <2>1, SetRowEffect
  <2>4. disp'[d].job = j /\ disp'[d].row = i
    BY <1>0, <2>1
  <2>5. HeldIsClaimed'
    BY <1>1, <2>2, <2>3, <2>4 DEF HeldIsClaimed
  <2>6. QED
    BY <1>2, <2>1, <2>5
<1>4. CASE Publish(d)
  <2>1. UNCHANGED outbox /\ disp[d].pc # "idle" /\ disp' = [disp EXCEPT ![d].pc = "sent"]
    BY <1>4 DEF Publish
  <2>2. disp'[d].job = disp[d].job /\ disp'[d].row = disp[d].row
    BY <1>0, <2>1
  <2>3. QED
    BY <1>1, <2>1, <2>2 DEF HeldIsClaimed
<1>5. CASE RecordPublished(d) \/ RecordFailure(d)
  <2> DEFINE j == disp[d].job
             i == disp[d].row
  <2>1. /\ disp[d].pc # "idle" /\ disp' = [disp EXCEPT ![d] = IdleDispatcher]
        /\ \E row : SetRow(j, i, row)
    BY <1>5 DEF RecordPublished, RecordFailure
  <2>2. outbox[j][i].status = "claimed" /\ j \in Jobs /\ i \in DOMAIN outbox[j]
    BY <1>0, <2>1 DEF HeldIsClaimed, OwnInv, TypeInv, InFlight
  <2>3. disp'[d].pc = "idle"
    BY <1>0, <2>1, IdleType
  <2>4. HeldIsClaimed'
    BY <1>1, <2>3 DEF HeldIsClaimed
  <2>5. QED
    BY <1>2, <2>1, <2>2, <2>4
<1>6. CASE DispatcherDies(d)
  <2>1. disp' = [disp EXCEPT ![d] = IdleDispatcher] /\ UNCHANGED outbox
    BY <1>6 DEF DispatcherDies
  <2>2. disp'[d].pc = "idle"
    BY <1>0, <2>1, IdleType
  <2>3. QED
    BY <1>1, <2>1, <2>2 DEF HeldIsClaimed
<1>7. QED
  BY <1>3, <1>4, <1>5, <1>6 DEF Dispatch

LEMMA SingleStep ==
    ASSUME OwnInv, SinglePublisher, HeldIsClaimed, [Next]_vars
    PROVE  /\ HeldIsClaimed'
           /\ \A j \in Jobs : HasRow(outbox[j], {"failed"}) => HasRow(outbox'[j], {"failed"})
<1>1. CASE \E d \in Dispatchers : Dispatch(d) \/ DispatcherDies(d)
  BY <1>1, SingleDispatch
<1>2. CASE Elsewhere
  <2>1. \A j \in Jobs : \A i \in DOMAIN outbox[j] :
           /\ i \in DOMAIN outbox'[j]
           /\ outbox'[j][i] = outbox[j][i] \/ outbox[j][i].status = "published"
    BY <1>2, QuietRows
  <2>2. \A j \in Jobs : HasRow(outbox[j], {"failed"}) => HasRow(outbox'[j], {"failed"})
    BY <2>1 DEF HasRow
  <2>3. UNCHANGED disp
    BY <1>2, ElsewhereDisp
  <2>4. ASSUME NEW d \in Dispatchers, disp[d].pc # "idle"
        PROVE  outbox'[disp[d].job][disp[d].row].status = "claimed"
    <3> DEFINE j == disp[d].job
               i == disp[d].row
    <3>1. j \in Jobs /\ i \in DOMAIN outbox[j] /\ outbox[j][i].status = "claimed"
      BY <2>4 DEF HeldIsClaimed, OwnInv, TypeInv, InFlight, TypeOK
    <3>2. outbox'[j][i] = outbox[j][i]
      BY <2>1, <3>1
    <3>3. QED
      BY <3>1, <3>2
  <2>5. QED
    BY <2>2, <2>3, <2>4 DEF HeldIsClaimed
<1>3. QED
  BY <1>1, <1>2 DEF Next, Elsewhere

\* The counted executions: a step is quiet, or a claim that counts one more.
LEMMA AttemptStep ==
    ASSUME OwnInv, [Next]_vars, NEW j \in Jobs
    PROVE  \/ /\ job'[j].worker \in {job[j].worker, NoProc}
              /\ job'[j].attempt = job[j].attempt
           \/ /\ job'[j].attempt = job[j].attempt + 1 /\ outbox'[j] = outbox[j]
              /\ job'[j].status = "running"
<1>1. CASE \E s \in Slots, k \in Jobs : Claim(s, k)
  <2>1. PICK s \in Slots, k \in Jobs : Claim(s, k)
    BY <1>1
  <2>2. UNCHANGED outbox
    BY <2>1 DEF Claim
  <2>3. QED
    BY <2>1, <2>2, ClaimStep
<1>2. CASE KeepsStep
  BY <1>2, KeepsEvery DEF Keeps
<1>3. QED
  BY <1>1, <1>2, JobStep

LEMMA PauseSeenStep ==
    ASSUME OwnInv, NoPauseSeen, \A j \in Jobs : job[j].status \notin Paused, [Next]_vars
    PROVE  NoPauseSeen'
<1>1. exec \in [Slots -> [pc : SlotPcs, job : Jobs, attempt : Nat]]
  BY DEF OwnInv, TypeInv, TypeOK
<1>2. CASE \E s \in Slots : Execute(s) \/ ExecutorDies(s)
  <2>1. PICK s \in Slots : Execute(s) \/ ExecutorDies(s)
    BY <1>2
  <2>2. exec'[s].pc # "pause"
    <3>1. \/ UNCHANGED exec
          \/ exec' = [exec EXCEPT ![s] = IdleSlot]
          \/ \E pc \in {"cancel", "fail"} : exec' = [exec EXCEPT ![s].pc = pc]
          \/ \E j, n : exec' = [exec EXCEPT ![s] = [pc |-> "running", job |-> j, attempt |-> n]]
          \/ job[exec[s].job].status = "pause_requested"
      BY <2>1 DEF Execute, Claim, DropMessage, Heartbeat, ObserveControl, Outcome, Succeed,
                  CancelAtBoundary, PauseAtBoundary, RetryOrDeadLetter, Fail, Write, Raise,
                  ExecutorDies
    <3>2. exec[s].job \in Jobs
      BY <1>1
    <3>3. QED
      BY <1>1, <3>1, <3>2, IdleType DEF NoPauseSeen, Paused
  <2>3. \A t \in Slots : t # s => exec'[t] = exec[t]
    BY <1>1, <2>1
       DEF Execute, Claim, DropMessage, Heartbeat, ObserveControl, Outcome, Succeed,
           CancelAtBoundary, PauseAtBoundary, RetryOrDeadLetter, Fail, Write, Raise,
           ExecutorDies
  <2>4. QED
    BY <2>2, <2>3 DEF NoPauseSeen
<1>3. CASE UNCHANGED exec
  BY <1>3 DEF NoPauseSeen
<1>4. QED
  BY <1>2, <1>3, OperatorKeeps, DispatchKeeps, MaintainKeeps DEF Next, RedisLoses, vars

LEMMA EmptyRows ==
    ASSUME NEW S, NEW rows \in Seq(S), DOMAIN rows = {}
    PROVE  rows = <<>>
<1>1. Len(rows) \in Nat /\ DOMAIN rows = 1..Len(rows)
  OBVIOUS
<1>2. Len(rows) = 0
  BY <1>1
<1>3. QED
  BY <1>2

LEMMA IntentStep ==
    ASSUME NobodyPauses, SinglePublisher \/ "retry" \notin Requests, IntentInv, [Next]_vars
    PROVE  IntentInv'
<1>0. /\ KeyInv /\ OwnInv /\ KeyInv' /\ OwnInv' /\ NoPauseSeen
      /\ \A j \in Jobs : IntentOf(j) /\ StatusStep(j) /\ KeyStep(j)
  BY KeyInvStep, EveryStatus, OutboxKeyStep DEF IntentInv, KeyInv
<1>1. NoPauseSeen'
  BY <1>0, PauseSeenStep DEF IntentOf
<1>t. ASSUME NEW j \in Jobs
      PROVE  /\ outbox[j] \in Seq(OutboxRows) /\ outbox'[j] \in Seq(OutboxRows)
             /\ job[j] \in JobRows /\ job'[j] \in JobRows
             /\ job[j].attempt \in Nat /\ job'[j].attempt \in Nat
  BY <1>0 DEF OwnInv, TypeInv, TypeOK, JobRows
<1>2. ASSUME NEW j \in Jobs PROVE IntentOf(j)'
  <2>1. job'[j].status \notin Paused
    BY <1>0 DEF IntentOf, StatusStep, NobodyPauses
  <2>2. job'[j].status \in Unpublished => Unsent(outbox'[j])
    <3>1. ASSUME "retry" \in Requests, job[j].status = "dead_lettered",
                 HasKey(outbox[j], RetryKey(j)), outbox'[j] = outbox[j]
          PROVE  Unsent(outbox'[j])
      <4>1. RetriesOf(j)
        BY <3>1 DEF IntentInv
      <4>2. HasRow(outbox[j], {"failed"})
        BY <3>1, <4>1 DEF RetriesOf
      <4>3. QED
        BY <3>1, <4>2 DEF Unsent, HasRow
    <3>2. job[j].status # "paused" /\ ~(job[j].status = "absent" /\ outbox[j] # <<>>)
      BY <1>0 DEF IntentOf, Paused
    <3>3. job[j].status \in Unpublished => Unsent(outbox[j])
      BY <1>0 DEF IntentOf
    <3>4. QED
      BY <1>0, <3>1, <3>2, <3>3 DEF StatusStep
  <2>3. job'[j].status = "absent" => outbox'[j] = <<>>
    <3>1. ASSUME job'[j].status = "absent" PROVE outbox'[j] = <<>>
      <4>1. PhaseOf(job'[j].status) = "absent"
        BY <3>1 DEF PhaseOf, WaitingStatuses
      <4>2. CASE KeepsStep
        <5>1. LegalMove(PhaseOf(job[j].status), "absent")
          BY <1>0, <4>1, <4>2, KeepsEvery DEF Keeps
        <5>2. PhaseOf(job[j].status) = "absent"
          BY <5>1 DEF LegalMove
        <5>3. job[j].status = "absent"
          BY <1>t, <5>2 DEF PhaseOf, WaitingStatuses, JobRows, Statuses
        <5>4. outbox[j] = <<>>
          BY <1>0, <5>3 DEF IntentOf
        <5>5. SameKeys(outbox[j], outbox'[j])
          BY <1>0, <3>1 DEF KeyStep, Unpublished
        <5>6. DOMAIN outbox'[j] = {}
          BY <5>4, <5>5 DEF SameKeys
        <5>7. QED
          BY <1>t, <5>6, EmptyRows
      <4>3. CASE \E s \in Slots, k \in Jobs : Claim(s, k)
        <5>1. PICK s \in Slots, k \in Jobs : Claim(s, k)
          BY <4>3
        <5>2. job'[k].status = "running" /\ UNCHANGED outbox
              /\ \A m \in Jobs : m # k => job'[m] = job[m]
          BY <1>0, <5>1, ClaimStep DEF Claim
        <5>3. QED
          BY <1>0, <3>1, <5>2 DEF IntentOf
      <4>4. QED
        BY <1>0, <4>2, <4>3, JobStep
    <3>2. QED
      BY <3>1
  <2>4. outbox'[j] = <<>> => job'[j].status = "absent"
    <3>1. ASSUME outbox'[j] = <<>> PROVE outbox[j] = <<>>
      <4>1. ASSUME NEW row PROVE outbox'[j] # Append(outbox[j], row)
        <5>1. Len(outbox[j]) + 1 \in DOMAIN Append(outbox[j], row)
          BY <1>t
        <5>2. QED
          BY <3>1, <5>1
      <4>2. SameKeys(outbox[j], outbox'[j])
        BY <1>0, <4>1 DEF KeyStep
      <4>3. DOMAIN outbox[j] = {}
        BY <3>1, <4>2 DEF SameKeys
      <4>4. QED
        BY <1>t, <4>3, EmptyRows
    <3>2. QED
      BY <1>0, <3>1 DEF StatusStep, IntentOf
  <2>5. QED
    BY <2>1, <2>2, <2>3, <2>4 DEF IntentOf
<1>3. ASSUME SinglePublisher PROVE HeldIsClaimed' /\ \A j \in Jobs : RetriesOf(j)'
  <2>0. HeldIsClaimed /\ \A j \in Jobs : RetriesOf(j)
    BY <1>3 DEF IntentInv
  <2>1. HeldIsClaimed' /\ \A j \in Jobs : HasRow(outbox[j], {"failed"}) => HasRow(outbox'[j], {"failed"})
    BY <1>0, <1>3, <2>0, SingleStep
  <2>2. ASSUME NEW j \in Jobs PROVE RetriesOf(j)'
    <3> DEFINE a == job[j].attempt
    <3>0. RetriesOf(j) /\ a \in Nat
      BY <1>t, <2>0
    <3>k. \A i \in DOMAIN outbox[j] : outbox[j][i].key \in Reasons \X Nat
      <4>1. \A i \in DOMAIN outbox[j] : outbox[j][i] \in OutboxRows
        BY <1>t
      <4>2. QED
        BY <4>1 DEF OutboxRows
    <3>1. CASE job'[j].attempt = a + 1 /\ outbox'[j] = outbox[j] /\ job'[j].status = "running"
      <4>1. \A i \in DOMAIN outbox[j] : outbox[j][i].key[1] = "dlq-retry" =>
               /\ outbox[j][i].key[2] <= (a + 1) + 1
               /\ outbox[j][i].key[2] # (a + 1) + 1
        <5> SUFFICES ASSUME NEW i \in DOMAIN outbox[j], outbox[j][i].key[1] = "dlq-retry"
                     PROVE  /\ outbox[j][i].key[2] <= (a + 1) + 1
                            /\ outbox[j][i].key[2] # (a + 1) + 1
          OBVIOUS
        <5> DEFINE n == outbox[j][i].key[2]
        <5>1. n \in Nat /\ n <= a + 1
          BY <3>0, <3>k DEF RetriesOf
        <5> HIDE DEF n, a
        <5>2. n <= (a + 1) + 1 /\ n # (a + 1) + 1
          BY <3>0, <5>1
        <5>3. QED
          BY <5>2 DEF n
      <4>2. ~HasKey(outbox'[j], RetryKey(j)')
        BY <3>1, <4>1 DEF HasKey, RetryKey
      <4>3. QED
        BY <3>1, <4>1, <4>2 DEF RetriesOf
    <3>2. CASE job'[j].worker \in {job[j].worker, NoProc} /\ job'[j].attempt = a
      <4>1. RetryKey(j)' = RetryKey(j)
        BY <3>2 DEF RetryKey
      <4>2. CASE SameKeys(outbox[j], outbox'[j])
        <5>1. HasKey(outbox'[j], RetryKey(j)) <=> HasKey(outbox[j], RetryKey(j))
          BY <4>2 DEF SameKeys, HasKey
        <5>2. \A i \in DOMAIN outbox'[j] : outbox'[j][i].key[1] = "dlq-retry" =>
                 outbox'[j][i].key[2] <= job'[j].attempt + 1
          BY <3>0, <3>2, <4>2 DEF SameKeys, RetriesOf
        <5>3. HasKey(outbox'[j], RetryKey(j)) => job'[j].worker = NoProc
          BY <3>0, <3>2, <5>1 DEF RetriesOf
        <5>4. HasKey(outbox'[j], RetryKey(j)) /\ job'[j].status = "dead_lettered"
                 => HasRow(outbox'[j], {"failed"})
          BY <1>0, <2>1, <3>0, <5>1 DEF RetriesOf, StatusStep
        <5>5. QED
          BY <4>1, <5>2, <5>3, <5>4 DEF RetriesOf
      <4>3. ASSUME NEW key, outbox'[j] = Append(outbox[j], NewRow(key)),
                   key[1] = "dlq-retry" => key = RetryKey(j) /\ job[j].worker = NoProc,
                   key = RetryKey(j) => key[1] = "dlq-retry",
                   job'[j].status \in Unpublished
            PROVE  RetriesOf(j)'
        <5>1. ASSUME NEW i \in DOMAIN outbox'[j]
              PROVE  \/ i \in DOMAIN outbox[j] /\ outbox'[j][i] = outbox[j][i]
                     \/ outbox'[j][i].key = key
          BY <1>t, <4>3 DEF NewRow
        <5>2. RetryKey(j)[2] <= a + 1
          BY <3>0 DEF RetryKey
        <5>3. \A i \in DOMAIN outbox'[j] : outbox'[j][i].key[1] = "dlq-retry" =>
                 outbox'[j][i].key[2] <= a + 1
          BY <3>0, <4>3, <5>1, <5>2 DEF RetriesOf
        <5>4. HasKey(outbox'[j], RetryKey(j)) => job'[j].worker = NoProc
          BY <3>0, <3>2, <4>3, <5>1 DEF RetriesOf, HasKey
        <5>5. job'[j].status # "dead_lettered"
          BY <4>3 DEF Unpublished
        <5>6. QED
          BY <3>2, <4>1, <5>3, <5>4, <5>5 DEF RetriesOf
      <4>4. CASE \E key \in {<<"create", 0>>, <<"resume", job[j].attempt + 1>>,
                             <<"dlq-retry", job[j].attempt + 1>>} :
                    /\ key[1] = "dlq-retry" => job[j].worker = NoProc
                    /\ outbox'[j] = Append(outbox[j], NewRow(key))
                    /\ job'[j].status \in Unpublished
        <5>1. PICK key \in {<<"create", 0>>, <<"resume", job[j].attempt + 1>>,
                             <<"dlq-retry", job[j].attempt + 1>>} :
                    /\ key[1] = "dlq-retry" => job[j].worker = NoProc
                    /\ outbox'[j] = Append(outbox[j], NewRow(key))
                    /\ job'[j].status \in Unpublished
          BY <4>4
        <5>2. /\ key[1] = "dlq-retry" => key = RetryKey(j)
              /\ key = RetryKey(j) => key[1] = "dlq-retry"
          BY DEF RetryKey
        <5>3. QED
          BY <4>3, <5>1, <5>2
      <4>5. CASE /\ outbox'[j] = Append(outbox[j], NewRow(<<"attempt", job[j].attempt + 1>>))
                 /\ job'[j].status \in Unpublished
        <5> DEFINE key == <<"attempt", job[j].attempt + 1>>
        <5>1. key[1] # "dlq-retry" /\ key # RetryKey(j)
          BY DEF RetryKey
        <5>2. QED
          BY <4>3, <4>5, <5>1
      <4>6. QED
        BY <1>0, <4>2, <4>4, <4>5 DEF KeyStep
    <3>3. QED
      BY <1>0, <3>1, <3>2, AttemptStep
  <2>3. QED
    BY <2>1, <2>2
<1>4. QED
  BY <1>0, <1>1, <1>2, <1>3 DEF IntentInv

LEMMA IntentInit == Init => IntentInv
<1> SUFFICES ASSUME Init PROVE IntentInv
  OBVIOUS
<1>1. \A j \in Jobs : job[j] = AbsentJob /\ outbox[j] = <<>>
  BY DEF Init
<1>2. \A j \in Jobs : IntentOf(j) /\ RetriesOf(j)
  BY <1>1 DEF IntentOf, RetriesOf, AbsentJob, Unpublished, Paused, HasKey
<1>3. NoPauseSeen /\ HeldIsClaimed
  BY IdleType DEF Init, NoPauseSeen, HeldIsClaimed
<1>4. QED
  BY <1>2, <1>3, KeyInit DEF IntentInv

\* Losing Redis, a dispatcher or a worker at any point loses no job: in a
\* deployment with one dispatcher, or without dead-letter retries, and as long as
\* nobody pauses (a resume can reuse a published row), every waiting job has an
\* outbox row that will be published, or that recover_stranded reopens, or that
\* used up its publish attempts.
THEOREM WaitingJobsAreIntended ==
    ASSUME NobodyPauses, SinglePublisher \/ "retry" \notin Requests
    PROVE  Spec => []IntentUntilExhausted
<1>1. IntentInv => IntentUntilExhausted
  <2> SUFFICES ASSUME IntentInv, NEW j \in Jobs, job[j].status \in WaitingStatuses,
                      ~ \E i \in DOMAIN outbox[j] : outbox[j][i].status = "failed"
               PROVE  DurablyIntended(j)
    BY DEF IntentUntilExhausted
  <2>0. IntentOf(j) /\ outbox[j] \in Seq(OutboxRows)
    BY DEF IntentInv, KeyInv, OwnInv, TypeInv, TypeOK
  <2>1. CASE Unsent(outbox[j])
    BY <2>1 DEF Unsent, HasRow, DurablyIntended
  <2>2. CASE ~Unsent(outbox[j])
    <3>1. job[j].status = "queued" /\ outbox[j] # <<>>
      BY <2>0, <2>2 DEF IntentOf, WaitingStatuses, Unpublished
    <3>2. Len(outbox[j]) \in DOMAIN outbox[j]
      BY <2>0, <3>1
    <3>3. outbox[j][Len(outbox[j])].status \in RowStatuses
      <4>1. outbox[j][Len(outbox[j])] \in OutboxRows
        BY <2>0, <3>2
      <4>2. QED
        BY <4>1 DEF OutboxRows
    <3>4. outbox[j][Len(outbox[j])].status = "published"
      BY <2>2, <3>2, <3>3 DEF Unsent, HasRow, RowStatuses
    <3>5. QED
      BY <3>1, <3>4 DEF DurablyIntended
  <2>3. QED
    BY <2>1, <2>2
<1>2. QED
  BY <1>1, IntentInit, IntentStep, PTL DEF Spec

\* The execution of thread s runs the latest attempt of its job as long as the
\* job names the worker process of s as its owner.
OwnedIsCurrent(s) ==
    (exec[s].pc # "idle" /\ job[exec[s].job].worker = ProcOf[s])
        => exec[s].attempt = job[exec[s].job].attempt

\* Only a claim by a sibling thread can take the attempt of a job further and
\* leave its owner the same.
LEMMA OwnedIsCurrentStep ==
    ASSUME NEW s \in Slots, OwnInv, OwnedIsCurrent(s), [Next]_vars, ~SiblingClaims(s)
    PROVE  OwnedIsCurrent(s)'
<1> USE DEF OwnInv, TypeInv
<1>0. exec \in [Slots -> [pc : SlotPcs, job : Jobs, attempt : Nat]] /\ job \in [Jobs -> JobRows]
  BY DEF TypeOK
<1> SUFFICES ASSUME exec'[s].pc # "idle", job'[exec'[s].job].worker = ProcOf[s]
             PROVE  exec'[s].attempt = job'[exec'[s].job].attempt
  BY DEF OwnedIsCurrent
<1>1. CASE \E t \in Slots, j \in Jobs : Claim(t, j)
  <2>1. PICK t \in Slots, j \in Jobs : Claim(t, j)
    BY <1>1
  <2>2. /\ job' = [job EXCEPT ![j] = Started(job[j], ProcOf[t])]
        /\ exec' = [exec EXCEPT ![t] = [pc |-> "running", job |-> j,
                                        attempt |-> job[j].attempt + 1]]
    BY <2>1 DEF Claim, SetJob
  <2>3. job'[j].worker = ProcOf[t] /\ job'[j].attempt = job[j].attempt + 1
    BY <1>0, <2>2 DEF JobRows, Started
  <2>4. \A k \in Jobs : k # j => job'[k] = job[k]
    BY <1>0, <2>2
  <2>5. exec'[t].job = j /\ exec'[t].attempt = job[j].attempt + 1
    BY <1>0, <2>2
  <2>6. CASE t = s
    BY <2>3, <2>5, <2>6
  <2>7. CASE t # s
    <3>1. exec'[s] = exec[s] /\ exec[s].job \in Jobs
      BY <1>0, <2>2, <2>7
    <3>2. exec[s].job # j
      <4>1. SUFFICES ASSUME exec[s].job = j PROVE FALSE
        OBVIOUS
      <4>2. ProcOf[t] = ProcOf[s]
        BY <2>3, <3>1, <4>1
      <4>3. exec[s].pc # "idle"
        BY <3>1
      <4>4. QED
        BY <2>1, <2>7, <4>1, <4>2, <4>3, Zenon DEF SiblingClaims
    <3>3. QED
      BY <2>4, <3>1, <3>2 DEF OwnedIsCurrent
  <2>8. QED
    BY <2>6, <2>7
<1>2. CASE KeepsStep /\ (\A t \in Slots : SameExecution(t))
  <2>1. /\ exec[s].pc # "idle" /\ exec'[s].job = exec[s].job
        /\ exec'[s].attempt = exec[s].attempt /\ exec[s].job \in Jobs
    BY <1>0, <1>2 DEF SameExecution
  <2>2. ProcOf[s] # NoProc
    BY JobQueueAssumption
  <2>3. /\ job[exec[s].job].worker = ProcOf[s]
        /\ job'[exec[s].job].attempt = job[exec[s].job].attempt
    BY <1>2, <2>1, <2>2, KeepsEvery DEF Keeps
  <2>4. QED
    BY <2>1, <2>3 DEF OwnedIsCurrent
<1>3. QED
  BY <1>1, <1>2, JobStep

\* An outcome is written through _owned_job only.
LEMMA OwnedIsFenced ==
    ASSUME NEW s \in Slots, OwnInv, OwnedIsCurrent(s), Next
    PROVE  Fenced(s)
<1> SUFFICES ASSUME exec[s].pc # "idle", exec'[s].pc = "idle", job' # job
             PROVE  exec[s].attempt = job[exec[s].job].attempt
  BY DEF Fenced
<1>1. exec \in [Slots -> [pc : SlotPcs, job : Jobs, attempt : Nat]]
  BY DEF OwnInv, TypeInv, TypeOK
<1>2. exec' # exec
  OBVIOUS
<1>3. PICK t \in Slots : Execute(t) \/ ExecutorDies(t)
  BY ZenonT(60), <1>2 DEF Next, Create, Operator, RequestCancel, RequestPause, Resume,
              RetryDeadLetter, DiscardDeadLetter, Ask, Maintain, RecoverStranded,
              RecoverExpired, LeaseExpires, BecomesDue, Dispatch, ClaimRow, Publish,
              RecordPublished, RecordFailure, DispatchStep, DispatcherDies, RedisLoses
<1>4. Outcome(t) \/ \E j \in Jobs : Claim(t, j)
  BY <1>2, <1>3 DEF Execute, DropMessage, Heartbeat, ObserveControl, ExecutorDies
<1>5. CASE \E j \in Jobs : Claim(t, j)
  BY <1>1, <1>5 DEF Claim
<1>6. CASE Outcome(t)
  <2>1. \/ exec' = [exec EXCEPT ![t] = IdleSlot] /\ job[exec[t].job].worker = ProcOf[t]
        \/ exec' = [exec EXCEPT ![t].pc = "fail"]
    BY <1>6 DEF Outcome, Succeed, CancelAtBoundary, PauseAtBoundary, RetryOrDeadLetter,
                Fail, Write, Raise, Owned
  <2>2. t = s
    BY <1>1, <2>1
  <2>3. job[exec[s].job].worker = ProcOf[s]
    BY <1>1, <2>1, <2>2
  <2>4. QED
    BY <2>3 DEF OwnedIsCurrent
<1>7. QED
  BY <1>4, <1>5, <1>6

LEMMA OwnedIsCurrentInit ==
    ASSUME NEW s \in Slots, Init
    PROVE  OwnInv /\ OwnedIsCurrent(s)
BY OwnInit, IdleType DEF Init, OwnedIsCurrent

\* However many threads the worker processes have, an execution that is behind
\* writes no outcome unless a thread of its own process claimed the job while it
\* was still executing it: _owned_job compares the worker id, which an execution
\* of another process never has and a sibling always has (jobs/worker.py).
THEOREM OutcomesAreFenced ==
    ASSUME NEW s \in Slots
    PROVE  Spec /\ [][~SiblingClaims(s)]_vars => [][Fenced(s)]_vars
<1> DEFINE Inv == OwnInv /\ OwnedIsCurrent(s)
<1>1. Init => Inv
  BY OwnedIsCurrentInit
<1>2. Inv /\ [Next]_vars /\ [~SiblingClaims(s)]_vars => Inv'
  <2>1. CASE UNCHANGED vars
    BY <2>1, OwnStep DEF vars, OwnedIsCurrent
  <2>2. CASE ~SiblingClaims(s)
    BY <2>2, OwnStep, OwnedIsCurrentStep
  <2>3. QED
    BY <2>1, <2>2
<1>3. Inv /\ [Next]_vars => [Fenced(s)]_vars
  BY OwnedIsFenced
<1>4. QED
  BY <1>1, <1>2, <1>3, PTL DEF Spec

\* In particular no outcome is written for a later attempt where every worker
\* process has one executor thread (worker_concurrency = 1): a sibling does not
\* exist.
COROLLARY FencedWithoutSiblings ==
    ASSUME OneThreadPerProcess
    PROVE  Spec => FencedOutcome
<1> DEFINE Inv == OwnInv /\ \A s \in Slots : OwnedIsCurrent(s)
<1>1. Init => Inv
  BY OwnInit, OwnedIsCurrentInit
<1>2. Inv /\ [Next]_vars => Inv'
  <2>1. \A s \in Slots : ~SiblingClaims(s)
    BY DEF SiblingClaims, OneThreadPerProcess
  <2>2. QED
    BY <2>1, OwnStep, OwnedIsCurrentStep
<1>3. Inv /\ [Next]_vars => [\A s \in Slots : Fenced(s)]_vars
  BY OwnedIsFenced
<1>4. QED
  BY <1>1, <1>2, <1>3, PTL DEF Spec, FencedOutcome

-----------------------------------------------------------------------------
(***************************************************************************)
(* Attempts.  A job that may be claimed has an attempt left, as long as    *)
(* nobody pauses a job: a resumed job is claimed however many attempts it  *)
(* has used.                                                               *)
(***************************************************************************)

Unstarted == WaitingStatuses \cup {"absent"}

\* The attempts of a row are within their bound, with one left before a start.
WithinAttempts(row) ==
    /\ row.attempt <= row.maxAttempts
    /\ row.status \in Unstarted => row.attempt < row.maxAttempts
    /\ row.status \notin Paused

AttemptsInv == OwnInv /\ NoPauseSeen /\ \A j \in Jobs : WithinAttempts(job[j])

\* A row written by anything but a claim, a retry of a dead letter or a pause.
SparesAttempts(old, new) ==
    /\ new.attempt = old.attempt
    /\ new.maxAttempts = old.maxAttempts
    /\ new.status \in Unstarted => old.status \in Unstarted \/ ~Exhausted(old)
    /\ new.status \notin Paused

\* Such a row stays within its attempts.
LEMMA SparedWithin ==
    ASSUME NEW old \in JobRows, NEW new \in JobRows, SparesAttempts(old, new), WithinAttempts(old)
    PROVE  WithinAttempts(new)
<1>1. old.attempt \in Nat /\ old.maxAttempts \in Nat
  BY DEF JobRows
<1>2. QED
  BY <1>1 DEF SparesAttempts, WithinAttempts, Exhausted

\* A step that writes one such row keeps every job within its attempts.
LEMMA WithinKept ==
    ASSUME OwnInv, \A j \in Jobs : WithinAttempts(job[j]),
           NEW k \in Jobs, NEW row \in JobRows, SetJob(k, row), WithinAttempts(row)
    PROVE  \A j \in Jobs : WithinAttempts(job'[j])
<1>1. job \in [Jobs -> JobRows]
  BY DEF OwnInv, TypeInv, TypeOK
<1>2. job'[k] = row /\ \A j \in Jobs : j # k => job'[j] = job[j]
  BY <1>1 DEF SetJob
<1>3. QED
  BY <1>2

LEMMA OperatorAttempts ==
    ASSUME NobodyPauses, AttemptsInv, NEW j \in Jobs, Create(j) \/ Operator(j)
    PROVE  \A k \in Jobs : WithinAttempts(job'[k])
<1> DEFINE old == job[j]
<1>0. /\ old \in JobRows /\ WithinAttempts(old) /\ OwnInv
      /\ \A k \in Jobs : WithinAttempts(job[k])
  BY DEF AttemptsInv, OwnInv, TypeInv, TypeOK
<1>1. CASE Create(j) \/ DiscardDeadLetter(j)
  <2>1. PICK row \in {[old EXCEPT !.status = "outbox_pending"], [old EXCEPT !.discarded = TRUE]} :
          SetJob(j, row) /\ (row.status = "outbox_pending" => old.status = "absent")
                         /\ row.status \in {old.status, "outbox_pending"}
    BY <1>0, <1>1 DEF Create, DiscardDeadLetter, JobRows
  <2>2. row \in JobRows /\ row.attempt = old.attempt /\ row.maxAttempts = old.maxAttempts
    BY <1>0, <2>1 DEF JobRows, Statuses
  <2>3. SparesAttempts(old, row)
    BY <1>0, <2>1, <2>2 DEF SparesAttempts, WithinAttempts, Paused, Unstarted
  <2>4. QED
    BY <1>0, <2>1, <2>2, <2>3, SparedWithin, WithinKept
<1>2. CASE RequestCancel(j)
  <2> DEFINE asked == Transition(old, "cancel_requested")
  <2>1. "cancel_requested" \in Statuses /\ "cancelled" \in Statuses
    BY DEF Statuses
  <2>2. /\ asked \in JobRows /\ asked.attempt = old.attempt
        /\ asked.maxAttempts = old.maxAttempts /\ asked.status = "cancel_requested"
    BY <1>0, <2>1, TransitionType
  <2>3. PICK row \in {asked, Transition(asked, "cancelled")} : SetJob(j, row)
    BY <1>2 DEF RequestCancel
  <2> HIDE DEF asked
  <2>4. /\ row \in JobRows /\ row.attempt = old.attempt
        /\ row.maxAttempts = old.maxAttempts /\ row.status \in {"cancel_requested", "cancelled"}
    BY <2>1, <2>2, <2>3, TransitionType
  <2>5. SparesAttempts(old, row)
    BY <2>4 DEF SparesAttempts, Paused, Unstarted, WaitingStatuses
  <2>6. QED
    BY <1>0, <2>3, <2>4, <2>5, SparedWithin, WithinKept
<1>3. CASE RetryDeadLetter(j)
  <2> DEFINE base == Transition(old, "outbox_pending")
             row == [base EXCEPT !.maxAttempts = old.attempt + RegistryAttempts, !.due = TRUE]
  <2>1. SetJob(j, row)
    BY <1>3 DEF RetryDeadLetter
  <2>2. base \in JobRows /\ base.attempt = old.attempt /\ base.status = "outbox_pending"
    BY <1>0, TransitionType DEF Statuses
  <2> HIDE DEF base
  <2>3. old.attempt \in Nat /\ RegistryAttempts \in Nat \ {0}
    BY <1>0, JobQueueAssumption DEF JobRows
  <2>m. old.attempt + RegistryAttempts \in Nat
    BY <2>3
  <2>4. /\ row \in JobRows /\ row.attempt = old.attempt /\ row.status = "outbox_pending"
        /\ row.maxAttempts = old.attempt + RegistryAttempts
    BY <2>2, <2>m DEF JobRows
  <2> HIDE DEF row
  <2>5. WithinAttempts(row)
    BY <2>3, <2>4 DEF WithinAttempts, Paused
  <2>6. QED
    BY <1>0, <2>1, <2>4, <2>5, WithinKept
<1>4. CASE RequestPause(j)
  BY <1>4 DEF RequestPause, Ask, NobodyPauses
<1>5. CASE Resume(j)
  BY <1>0, <1>5 DEF Resume, WithinAttempts, Paused
<1>6. QED
  BY <1>1, <1>2, <1>3, <1>4, <1>5 DEF Operator

LEMMA DispatchAttempts ==
    ASSUME AttemptsInv, NEW d \in Dispatchers, Dispatch(d) \/ DispatcherDies(d)
    PROVE  \A k \in Jobs : WithinAttempts(job'[k])
<1> DEFINE j == disp[d].job
           old == job[j]
<1>0. /\ j \in Jobs /\ old \in JobRows /\ WithinAttempts(old) /\ OwnInv
      /\ \A k \in Jobs : WithinAttempts(job[k])
  BY DEF AttemptsInv, OwnInv, TypeInv, TypeOK
<1>1. ASSUME UNCHANGED job
      PROVE  \A k \in Jobs : WithinAttempts(job'[k])
  BY <1>0, <1>1
<1>2. CASE RecordPublished(d) \/ RecordFailure(d)
  <2>1. PICK row \in {old, Queued(old), DeadLetter(old)} : SetJob(j, row)
    BY <1>2 DEF RecordPublished, RecordFailure
  <2>2. row \in JobRows /\ SparesAttempts(old, row)
    <3>1. CASE row = old
      BY <1>0, <3>1 DEF SparesAttempts, WithinAttempts
    <3>2. CASE row = Queued(old)
      <4>1. CASE old.status \in {"outbox_pending", "retry_scheduled"}
        <5>1. /\ row \in JobRows /\ row.attempt = old.attempt
              /\ row.maxAttempts = old.maxAttempts /\ row.status = "queued"
          BY <1>0, <3>2, <4>1 DEF Queued, JobRows, Statuses
        <5>2. QED
          BY <4>1, <5>1 DEF SparesAttempts, Paused, Unstarted, WaitingStatuses
      <4>2. CASE old.status \notin {"outbox_pending", "retry_scheduled"}
        BY <3>1, <3>2, <4>2 DEF Queued
      <4>3. QED
        BY <4>1, <4>2
    <3>3. CASE row = DeadLetter(old)
      <4>1. /\ row \in JobRows /\ row.attempt = old.attempt
            /\ row.maxAttempts = old.maxAttempts /\ row.status = "dead_lettered"
        BY <1>0, <3>3, DeadLetterType
      <4>2. QED
        BY <4>1 DEF SparesAttempts, Paused, Unstarted, WaitingStatuses
    <3>4. QED
      BY <2>1, <3>1, <3>2, <3>3
  <2>3. QED
    BY <1>0, <2>1, <2>2, SparedWithin, WithinKept
<1>3. CASE DispatcherDies(d) \/ Publish(d) \/ \E k \in Jobs : \E i \in DOMAIN outbox[k] : ClaimRow(d, k, i)
  <2>1. ASSUME NEW k, NEW i, ClaimRow(d, k, i) PROVE UNCHANGED job
    BY <2>1 DEF ClaimRow
  <2>2. UNCHANGED job
    BY <1>3, <2>1 DEF DispatcherDies, Publish
  <2>3. QED
    BY <1>1, <2>2
<1>4. QED
  BY <1>2, <1>3 DEF Dispatch

LEMMA MaintainAttempts ==
    ASSUME AttemptsInv, NEW j \in Jobs, Maintain(j)
    PROVE  \A k \in Jobs : WithinAttempts(job'[k])
<1> DEFINE old == job[j]
<1>0. /\ old \in JobRows /\ WithinAttempts(old) /\ OwnInv
      /\ \A k \in Jobs : WithinAttempts(job[k])
  BY DEF AttemptsInv, OwnInv, TypeInv, TypeOK
<1>1. CASE RecoverStranded(j)
  <2> DEFINE base == Transition(old, "retry_scheduled")
             row == [base EXCEPT !.due = TRUE]
  <2>1. /\ base \in JobRows /\ base.attempt = old.attempt
        /\ base.maxAttempts = old.maxAttempts /\ base.status = "retry_scheduled"
    BY <1>0, TransitionType DEF Statuses
  <2>2. SetJob(j, row) /\ old.status = "queued"
    BY <1>1 DEF RecoverStranded
  <2> HIDE DEF base
  <2>3. /\ row \in JobRows /\ row.attempt = old.attempt
        /\ row.maxAttempts = old.maxAttempts /\ row.status = "retry_scheduled"
    BY <2>1 DEF JobRows
  <2> HIDE DEF row
  <2>4. SparesAttempts(old, row)
    BY <2>2, <2>3 DEF SparesAttempts, Paused, Unstarted, WaitingStatuses
  <2>5. QED
    BY <1>0, <2>2, <2>3, <2>4, SparedWithin, WithinKept
<1>2. CASE RecoverExpired(j)
  <2>1. PICK row \in {DeadLetter(old), Rescheduled(old)} :
          SetJob(j, row) /\ (row = Rescheduled(old) => ~Exhausted(old) \/ row = DeadLetter(old))
    BY <1>2 DEF RecoverExpired
  <2>2. /\ row \in JobRows /\ row.attempt = old.attempt /\ row.maxAttempts = old.maxAttempts
        /\ row.status = "dead_lettered" \/ (row.status = "retry_scheduled" /\ ~Exhausted(old))
    BY <1>0, <2>1, DeadLetterType, RescheduledType
  <2>3. SparesAttempts(old, row)
    BY <2>2 DEF SparesAttempts, Paused, Unstarted, WaitingStatuses
  <2>4. QED
    BY <1>0, <2>1, <2>2, <2>3, SparedWithin, WithinKept
<1>3. CASE LeaseExpires(j) \/ BecomesDue(j)
  <2>1. PICK row \in {[old EXCEPT !.lease = "expired"], [old EXCEPT !.due = TRUE]} : SetJob(j, row)
    BY <1>3 DEF LeaseExpires, BecomesDue
  <2>2. /\ row \in JobRows /\ row.attempt = old.attempt
        /\ row.maxAttempts = old.maxAttempts /\ row.status = old.status
    BY <1>0, <2>1 DEF JobRows
  <2>3. SparesAttempts(old, row)
    BY <1>0, <2>2 DEF SparesAttempts, WithinAttempts
  <2>4. QED
    BY <1>0, <2>1, <2>2, <2>3, SparedWithin, WithinKept
<1>4. QED
  BY <1>1, <1>2, <1>3 DEF Maintain

LEMMA OutcomeAttempts ==
    ASSUME AttemptsInv, NEW s \in Slots, Outcome(s)
    PROVE  \A k \in Jobs : WithinAttempts(job'[k])
<1> DEFINE j == exec[s].job
           old == job[j]
<1>0. /\ j \in Jobs /\ old \in JobRows /\ WithinAttempts(old) /\ OwnInv
      /\ \A k \in Jobs : WithinAttempts(job[k])
      /\ exec[s].pc # "pause"
  BY DEF AttemptsInv, OwnInv, TypeInv, TypeOK, NoPauseSeen
<1>1. CASE UNCHANGED job
  BY <1>0, <1>1
<1>2. CASE \E target \in {"succeeded", "failed", "cancelled"} : SetJob(j, Transition(old, target))
  <2>1. PICK target \in {"succeeded", "failed", "cancelled"} : SetJob(j, Transition(old, target))
    BY <1>2
  <2> DEFINE row == Transition(old, target)
  <2>2. /\ row \in JobRows /\ row.attempt = old.attempt
        /\ row.maxAttempts = old.maxAttempts /\ row.status = target
    BY <1>0, TransitionType DEF Statuses
  <2>3. SetJob(j, row)
    BY <2>1
  <2> HIDE DEF row
  <2>4. SparesAttempts(old, row)
    BY <2>2 DEF SparesAttempts, Paused, Unstarted, WaitingStatuses
  <2>5. QED
    BY <1>0, <2>2, <2>3, <2>4, SparedWithin, WithinKept
<1>3. CASE SetJob(j, DeadLetter(old)) \/ (~Exhausted(old) /\ SetJob(j, Rescheduled(old)))
  <2>1. PICK row \in {DeadLetter(old), Rescheduled(old)} :
          SetJob(j, row) /\ (row = DeadLetter(old) \/ ~Exhausted(old))
    BY <1>3
  <2>2. /\ row \in JobRows /\ row.attempt = old.attempt /\ row.maxAttempts = old.maxAttempts
        /\ row.status = "dead_lettered" \/ (row.status = "retry_scheduled" /\ ~Exhausted(old))
    BY <1>0, <2>1, DeadLetterType, RescheduledType
  <2>3. SparesAttempts(old, row)
    BY <2>2 DEF SparesAttempts, Paused, Unstarted, WaitingStatuses
  <2>4. QED
    BY <1>0, <2>1, <2>2, <2>3, SparedWithin, WithinKept
<1>4. CASE Succeed(s)
  <2>1. SuccessTarget(old.status) \in {"succeeded", "cancelled"}
    BY <1>0 DEF SuccessTarget, WithinAttempts, Paused
  <2>2. UNCHANGED job \/ SetJob(j, Transition(old, SuccessTarget(old.status)))
    BY <1>4 DEF Succeed, Write
  <2>3. QED
    BY <1>1, <1>2, <2>1, <2>2
<1>5. CASE CancelAtBoundary(s)
  <2>1. UNCHANGED job \/ SetJob(j, Transition(old, "cancelled"))
    BY <1>5 DEF CancelAtBoundary, Write, Raise
  <2>2. QED
    BY <1>1, <1>2, <2>1
<1>6. CASE PauseAtBoundary(s)
  BY <1>0, <1>6 DEF PauseAtBoundary
<1>7. CASE RetryOrDeadLetter(s)
  BY <1>1, <1>3, <1>7 DEF RetryOrDeadLetter, Write, Raise
<1>8. CASE Fail(s)
  <2>1. UNCHANGED job \/ SetJob(j, Transition(old, "failed"))
    BY <1>8 DEF Fail, Write, Raise
  <2>2. QED
    BY <1>1, <1>2, <2>1
<1>9. QED
  BY <1>4, <1>5, <1>6, <1>7, <1>8 DEF Outcome

LEMMA ExecuteAttempts ==
    ASSUME AttemptsInv, NEW s \in Slots, Execute(s) \/ ExecutorDies(s)
    PROVE  \A k \in Jobs : WithinAttempts(job'[k])
<1>0. OwnInv /\ job \in [Jobs -> JobRows] /\ \A k \in Jobs : WithinAttempts(job[k])
  BY DEF AttemptsInv, OwnInv, TypeInv, TypeOK
<1>1. CASE \E j \in Jobs : Claim(s, j)
  <2>1. PICK j \in Jobs : Claim(s, j)
    BY <1>1
  <2> DEFINE old == job[j]
             row == Started(old, ProcOf[s])
  <2>2. old.attempt \in Nat /\ old.maxAttempts \in Nat /\ old.attempt < old.maxAttempts
    BY <1>0, <2>1 DEF JobRows, WithinAttempts, Claim, Claimable, Unstarted, WaitingStatuses
  <2>3. /\ row.attempt = old.attempt + 1 /\ row.maxAttempts = old.maxAttempts
        /\ row.status = "running"
    BY <1>0 DEF Started, JobRows
  <2>4. \A k \in Jobs : job'[k] = IF k = j THEN row ELSE job[k]
    BY <1>0, <2>1 DEF Claim, SetJob
  <2> HIDE DEF row
  <2>5. WithinAttempts(row)
    BY <2>2, <2>3 DEF WithinAttempts, Paused, Unstarted, WaitingStatuses
  <2>6. QED
    BY <1>0, <2>4, <2>5
<1>2. CASE (\E j \in Jobs : DropMessage(s, j)) \/ ObserveControl(s) \/ ExecutorDies(s)
  <2>1. UNCHANGED job
    BY <1>2 DEF DropMessage, ObserveControl, ExecutorDies
  <2>2. QED
    BY <1>0, <2>1
<1>3. CASE Heartbeat(s)
  <2> DEFINE j == exec[s].job
             row == [job[j] EXCEPT !.lease = "live"]
  <2>1. j \in Jobs /\ job[j] \in JobRows
    BY <1>0 DEF OwnInv, TypeInv, TypeOK
  <2>2. SetJob(j, row)
    BY <1>3 DEF Heartbeat
  <2>3. /\ row \in JobRows /\ row.attempt = job[j].attempt
        /\ row.maxAttempts = job[j].maxAttempts /\ row.status = job[j].status
    BY <2>1 DEF JobRows
  <2> HIDE DEF row
  <2>4. SparesAttempts(job[j], row)
    BY <1>0, <2>1, <2>3 DEF SparesAttempts, WithinAttempts
  <2>5. QED
    BY <1>0, <2>1, <2>2, <2>3, <2>4, SparedWithin, WithinKept
<1>4. CASE Outcome(s)
  BY <1>4, OutcomeAttempts
<1>5. QED
  BY <1>1, <1>2, <1>3, <1>4 DEF Execute

\* As long as nobody pauses a job, no job is run more often than its
\* max_attempts, however claims, crashes, redelivered messages, expired leases,
\* cancellations and dead-letter retries interleave.
THEOREM AttemptsAreBounded ==
    ASSUME NobodyPauses
    PROVE  Spec => []AttemptsBounded
<1>1. Init => AttemptsInv
  <2> SUFFICES ASSUME Init PROVE AttemptsInv
    OBVIOUS
  <2>1. \A j \in Jobs : job[j] = AbsentJob
    BY DEF Init
  <2>2. 0 < InitialMaxAttempts
    BY JobQueueAssumption DEF InitialMaxAttempts
  <2>3. WithinAttempts(AbsentJob)
    BY <2>2, InitialMaxType DEF WithinAttempts, AbsentJob, Unstarted, Paused
  <2>4. NoPauseSeen
    BY IdleType DEF Init, NoPauseSeen
  <2>5. QED
    BY <2>1, <2>3, <2>4, OwnInit DEF AttemptsInv
<1>2. AttemptsInv /\ [Next]_vars => AttemptsInv'
  <2> SUFFICES ASSUME AttemptsInv, [Next]_vars PROVE AttemptsInv'
    OBVIOUS
  <2>1. OwnInv' /\ NoPauseSeen'
    BY OwnStep, PauseSeenStep DEF AttemptsInv, WithinAttempts
  <2>2. \A k \in Jobs : WithinAttempts(job'[k])
    <3>1. CASE RedisLoses \/ UNCHANGED vars
      BY <3>1 DEF RedisLoses, vars, AttemptsInv
    <3>2. QED
      BY <3>1, OperatorAttempts, DispatchAttempts, MaintainAttempts, ExecuteAttempts DEF Next
  <2>3. QED
    BY <2>1, <2>2 DEF AttemptsInv, WithinAttempts
<1>3. AttemptsInv => AttemptsBounded
  BY DEF AttemptsInv, WithinAttempts, AttemptsBounded
<1>4. QED
  BY <1>1, <1>2, <1>3, PTL DEF Spec

=============================================================================

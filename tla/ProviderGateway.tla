-------------------------- MODULE ProviderGateway --------------------------
(***************************************************************************)
(* The governed provider gateway: GovernedLLMProvider.generate             *)
(* (providers/gateway.py) with the project budget (usage/service.py), the  *)
(* durable idempotency claim (reliability/idempotency.py), the circuit     *)
(* breaker and the rate limiter (reliability/).  Callers are threads that  *)
(* run generate at the same time for one project and one workflow run; one *)
(* action is one database transaction, one Redis script or one provider    *)
(* response.                                                               *)
(*                                                                         *)
(* Exceptions are told apart by what generate does with them:              *)
(*   "transient"  timeout, service error: retried, counted by the circuit  *)
(*   "throttled"  upstream rate limit: retried                             *)
(*   "final"      authentication, refusal, budget, privacy: no fallback    *)
(*   "fallback"   every other one (open circuit, no capacity, invalid      *)
(*                response, database error): the next candidate is tried   *)
(*                                                                         *)
(* A key found succeeded, or in the caller's own cache, makes generate     *)
(* return or raise before any change: such a call is no step here.         *)
(***************************************************************************)
EXTENDS Integers, FiniteSets

CONSTANTS
    Callers,           \* threads calling the gateway
    Keys,              \* idempotency keys
    Candidates,        \* number of models of the route, the primary is 1
    Blocked,           \* candidates the project's privacy policy refuses
    MaxRetries,        \* settings.provider_max_retries
    Estimate,          \* preflight price of a call
    Prices,            \* prices of the usage a provider may report
    Limits,            \* hard limits an operator may set
    Switches,          \* values of budget.enabled an operator may set
    WorkflowMaxCalls,  \* settings.workflow_max_provider_calls
    WorkflowMaxCost,   \* settings.workflow_max_cost
    Threshold,         \* settings.circuit_failure_threshold
    MaxConcurrency,    \* settings.provider_max_concurrency
    Distributed,       \* circuit and limiter live in Redis
    MaxBegins,         \* bound on claims of one key
    MaxSets,           \* bound on changes of the budget
    MaxErrors,         \* bound on database and Redis errors
    MaxCrashes         \* bound on crashes of a caller's process

ASSUME GatewayAssumption ==
    /\ Candidates \in Nat \ {0} /\ Blocked \subseteq 1..Candidates
    /\ MaxRetries \in Nat /\ Estimate \in Nat
    /\ Prices \subseteq Nat /\ Prices # {}
    /\ Limits \subseteq Nat \ {0} /\ Limits # {}
    /\ Switches \subseteq BOOLEAN
    /\ WorkflowMaxCalls \in Nat /\ WorkflowMaxCost \in Nat
    /\ Threshold \in Nat \ {0} /\ MaxConcurrency \in Nat \ {0}
    /\ Distributed \in BOOLEAN
    /\ {MaxBegins, MaxSets, MaxErrors, MaxCrashes} \subseteq Nat
    /\ IsFiniteSet(Callers) /\ Callers # {} /\ Keys # {}

VARIABLES
    budget,    \* the project_budgets row
    workflow,  \* provider counters of the workflow_runs row
    record,    \* provider_idempotency_records: the status of each key
    audit,     \* provider_calls: the (attempt, candidate) rows of each key
    circuit,   \* circuit state of each candidate
    active,    \* the limiter's concurrency counter of each candidate
    caller,    \* what each thread is doing
    begun,     \* claims made of each key
    paid,      \* responses each key has been billed for
    sent,      \* calls sent to a provider
    sets, errors, crashes,   \* changes of the budget and faults so far
    dropped    \* answers to each key that an error of the caller's own lost

stores == <<budget, workflow, record, audit, circuit, active>>
ghosts == <<begun, paid, sent>>
bounds == <<sets, errors, crashes, dropped>>
vars == <<stores, caller, ghosts, bounds>>

Refs == 1..Candidates

-----------------------------------------------------------------------------
(***************************************************************************)
(* Types.  The circuit's clock is the flag cooled: the cooldown has        *)
(* elapsed since opened_at.                                                *)
(***************************************************************************)

Statuses == {"none", "active", "succeeded", "failed"}
Errors == {"none", "transient", "throttled", "final", "fallback"}

\* Where a thread is in generate: the try block, its handler, the loop ends.
TryPcs == {"attempt", "check", "reserve", "start", "acquire", "network",
           "finish", "settle", "record", "succeed"}
HandlerPcs == {"release", "audit", "decide"}
Pcs == TryPcs \cup HandlerPcs \cup {"idle", "prepare", "next", "giveup"}

Threads == [pc : Pcs, key : Keys, ref : Refs, retry : 0..MaxRetries, n : Nat,
            err : Errors, reserved : {0, Estimate}, row : BOOLEAN,
            price : Prices, late : BOOLEAN]

Circuits == [failures : 0..Threshold, cooled : BOOLEAN, probe : BOOLEAN]

ClosedCircuit == [failures |-> 0, cooled |-> FALSE, probe |-> FALSE]

IdleThread == [pc |-> "idle", key |-> CHOOSE k \in Keys : TRUE, ref |-> 1,
               retry |-> 0, n |-> 0, err |-> "none", reserved |-> 0,
               row |-> FALSE, price |-> CHOOSE p \in Prices : TRUE,
               late |-> FALSE]

Init ==
    /\ \E hard \in Limits :
          budget = [hard |-> hard, enabled |-> TRUE, spent |-> 0, reserved |-> 0]
    /\ workflow = [calls |-> 0, cost |-> 0]
    /\ record = [k \in Keys |-> "none"]
    /\ audit = [k \in Keys |-> {}]
    /\ circuit = [r \in Refs |-> ClosedCircuit]
    /\ active = [r \in Refs |-> 0]
    /\ caller = [c \in Callers |-> IdleThread]
    /\ begun = [k \in Keys |-> 0]
    /\ paid = [k \in Keys |-> 0]
    /\ sent = 0
    /\ sets = 0 /\ errors = 0 /\ crashes = 0
    /\ dropped = [k \in Keys |-> 0]

-----------------------------------------------------------------------------
(***************************************************************************)
(* Moves of a thread.                                                      *)
(***************************************************************************)

At(c, pc) == caller[c].pc = pc

SetThread(c, thread) == caller' = [caller EXCEPT ![c] = thread]

Goto(c, pc) == SetThread(c, [caller[c] EXCEPT !.pc = pc])

\* An exception inside the try block: the handler starts with the release.
Raise(c, err) == SetThread(c, [caller[c] EXCEPT !.pc = "release", !.err = err])

\* An exception that leaves generate: the claim is not finished.
Escape(c) == SetThread(c, IdleThread)

\* The unique constraint provider_call_attempt_identity.
Identity(c) == <<caller[c].n, caller[c].ref>>
Duplicate(c) == Identity(c) \in audit[caller[c].key]

AddAudit(c) == audit' = [audit EXCEPT ![caller[c].key] = @ \cup {Identity(c)}]

\* _finish_call counts the attempt on the workflow, a failed one too.
CountCall(cost) ==
    workflow' = [calls |-> workflow.calls + 1, cost |-> workflow.cost + cost]

-----------------------------------------------------------------------------
(***************************************************************************)
(* The claim and the candidate loop.                                       *)
(***************************************************************************)

\* Mutant: a key whose claim is active can be claimed again.
AnyClaimable(k) == record[k] # "succeeded"

\* IdempotencyService.claim: a new key, or one that failed before.
Claimable(k) == record[k] \in {"none", "failed"}

Begin(c, k) ==
    /\ At(c, "idle")
    /\ begun[k] < MaxBegins
    /\ Claimable(k)
    /\ record' = [record EXCEPT ![k] = "active"]
    /\ begun' = [begun EXCEPT ![k] = @ + 1]
    /\ SetThread(c, [IdleThread EXCEPT !.pc = "prepare", !.key = k])
    /\ UNCHANGED <<budget, workflow, audit, circuit, active, paid, sent, bounds>>

\* The head of the retry loop: a new attempt has no reservation and no row.
NextAttempt(c, retry) ==
    [caller[c] EXCEPT !.pc = "attempt", !.n = @ + 1, !.retry = retry,
                      !.reserved = 0, !.row = FALSE]

\* The privacy policy lets the candidate be tried.
Prepare(c) ==
    /\ At(c, "prepare")
    /\ caller[c].ref \notin Blocked
    /\ SetThread(c, NextAttempt(c, 0))
    /\ UNCHANGED <<stores, ghosts, bounds>>

\* The privacy policy refuses it: audited outside the try block, then the
\* candidate loop ends.
PreparePrivate(c) ==
    /\ At(c, "prepare")
    /\ caller[c].ref \in Blocked
    /\ LET identity == <<caller[c].n + 1, caller[c].ref>>
           k == caller[c].key
       IN  \/ /\ identity \in audit[k]
              /\ Escape(c)
              /\ UNCHANGED <<audit, workflow>>
           \/ /\ identity \notin audit[k]
              /\ audit' = [audit EXCEPT ![k] = @ \cup {identity}]
              /\ CountCall(0)
              /\ SetThread(c, [caller[c] EXCEPT !.pc = "giveup", !.err = "final"])
    /\ UNCHANGED <<budget, record, circuit, active, ghosts, bounds>>

\* The end of one candidate's retries.
NextCandidate(c) ==
    /\ At(c, "next")
    /\ IF caller[c].err = "final" \/ caller[c].ref = Candidates
       THEN Goto(c, "giveup")
       ELSE SetThread(c, [caller[c] EXCEPT !.pc = "prepare", !.ref = @ + 1])
    /\ UNCHANGED <<stores, ghosts, bounds>>

\* Mutant: the error is raised without finishing the claim.
RaisesOnly(c) ==
    /\ At(c, "giveup")
    /\ SetThread(c, IdleThread)
    /\ UNCHANGED <<stores, ghosts, bounds>>

\* IdempotencyService.fail, then the last error is raised.
GiveUp(c) ==
    /\ At(c, "giveup")
    /\ record' = [record EXCEPT ![caller[c].key] = "failed"]
    /\ SetThread(c, IdleThread)
    /\ UNCHANGED <<budget, workflow, audit, circuit, active, ghosts, bounds>>

-----------------------------------------------------------------------------
(***************************************************************************)
(* One attempt: the try block.                                             *)
(***************************************************************************)

\* The total deadline is exhausted: it stays so for the later candidates.
Deadline(c) ==
    /\ At(c, "attempt")
    /\ SetThread(c, [caller[c] EXCEPT !.pc = "next", !.err = "transient",
                                      !.late = TRUE])
    /\ UNCHANGED <<stores, ghosts, bounds>>

\* CircuitBreaker.before_call: closed, or cooled down and not being probed.
Open(r) == circuit[r].failures >= Threshold
Admits(r) == ~Open(r) \/ (circuit[r].cooled /\ ~circuit[r].probe)

BeforeCall(c) ==
    LET r == caller[c].ref
    IN  /\ At(c, "attempt")
        /\ ~caller[c].late
        /\ \/ /\ Admits(r)
              /\ circuit' = [circuit EXCEPT ![r].probe = @ \/ Open(r)]
              /\ Goto(c, "check")
           \/ /\ ~Admits(r)
              /\ Raise(c, "fallback")
              /\ UNCHANGED circuit
        /\ UNCHANGED <<budget, workflow, record, audit, active, ghosts, bounds>>

\* Mutant: the ceiling is compared without the call about to be made.
RoomIgnoresThisCall == workflow.calls <= WorkflowMaxCalls

\* BudgetService.check_workflow: calls and cost (tokens are compared in the
\* same way as cost).
WorkflowRoom ==
    /\ workflow.calls + 1 <= WorkflowMaxCalls
    /\ workflow.cost + Estimate <= WorkflowMaxCost

CheckWorkflow(c) ==
    /\ At(c, "check")
    /\ IF WorkflowRoom THEN Goto(c, "reserve") ELSE Raise(c, "final")
    /\ UNCHANGED <<stores, ghosts, bounds>>

\* Mutant: reservations of calls in flight are not counted.
FitsSpentOnly == budget.spent + Estimate <= budget.hard

\* BudgetService.reserve.
Fits == budget.spent + budget.reserved + Estimate <= budget.hard

Reserve(c) ==
    /\ At(c, "reserve")
    /\ \/ /\ ~budget.enabled
          /\ Goto(c, "start")
          /\ UNCHANGED budget
       \/ /\ budget.enabled /\ Fits
          /\ budget' = [budget EXCEPT !.reserved = @ + Estimate]
          /\ SetThread(c, [caller[c] EXCEPT !.pc = "start", !.reserved = Estimate])
       \/ /\ budget.enabled /\ ~Fits
          /\ Raise(c, "final")
          /\ UNCHANGED budget
    /\ UNCHANGED <<workflow, record, audit, circuit, active, ghosts, bounds>>

\* _start_call inserts the audit row; a repeated identity is an IntegrityError.
StartCall(c) ==
    /\ At(c, "start")
    /\ \/ /\ Duplicate(c)
          /\ Raise(c, "fallback")
          /\ UNCHANGED audit
       \/ /\ ~Duplicate(c)
          /\ AddAudit(c)
          /\ SetThread(c, [caller[c] EXCEPT !.pc = "acquire", !.row = TRUE])
    /\ UNCHANGED <<budget, workflow, record, circuit, active, ghosts, bounds>>

HasSlot(r) == active[r] < MaxConcurrency

\* ProviderRateLimiter.acquire: the concurrency counter is kept; a full
\* requests-per-minute or tokens-per-minute window refuses at any time.
Acquire(c) ==
    LET r == caller[c].ref
    IN  /\ At(c, "acquire")
        /\ \/ /\ HasSlot(r)
              /\ active' = [active EXCEPT ![r] = @ + 1]
              /\ sent' = sent + 1
              /\ Goto(c, "network")
           \/ /\ Raise(c, "fallback")
              /\ UNCHANGED <<active, sent>>
        /\ UNCHANGED <<budget, workflow, record, audit, circuit, begun, paid, bounds>>

\* The provider answers, fails or times out; the limiter's slot is given back.
Respond(c) ==
    LET r == caller[c].ref
    IN  /\ At(c, "network")
        /\ active' = [active EXCEPT ![r] = IF @ > 0 THEN @ - 1 ELSE 0]
        /\ \/ /\ \E price \in Prices :
                    SetThread(c, [caller[c] EXCEPT !.pc = "finish", !.price = price])
              /\ paid' = [paid EXCEPT ![caller[c].key] = @ + 1]
           \/ /\ \E err \in Errors \ {"none"} : Raise(c, err)
              /\ UNCHANGED paid
        /\ UNCHANGED <<budget, workflow, record, audit, circuit, begun, sent, bounds>>

\* _finish_call of a success.
Finish(c) ==
    /\ At(c, "finish")
    /\ CountCall(caller[c].price)
    /\ Goto(c, "settle")
    /\ UNCHANGED <<budget, record, audit, circuit, active, ghosts, bounds>>

\* The clamp at zero of settle.
Lowered(reserved, amount) == IF reserved > amount THEN reserved - amount ELSE 0

\* BudgetService.settle.
Settle(c) ==
    /\ At(c, "settle")
    /\ budget' = [budget EXCEPT !.reserved = Lowered(@, caller[c].reserved),
                                !.spent = @ + caller[c].price]
    /\ Goto(c, "record")
    /\ UNCHANGED <<workflow, record, audit, circuit, active, ghosts, bounds>>

\* Mutant: the retry loop is not left after an answer.
RecordsAndRetries(c) ==
    /\ At(c, "record")
    /\ circuit' = [circuit EXCEPT ![caller[c].ref] = ClosedCircuit]
    /\ IF caller[c].retry < MaxRetries
       THEN SetThread(c, NextAttempt(c, caller[c].retry + 1))
       ELSE Goto(c, "succeed")
    /\ UNCHANGED <<budget, workflow, record, audit, active, ghosts, bounds>>

\* CircuitBreaker.record_success.
RecordSuccess(c) ==
    /\ At(c, "record")
    /\ circuit' = [circuit EXCEPT ![caller[c].ref] = ClosedCircuit]
    /\ Goto(c, "succeed")
    /\ UNCHANGED <<budget, workflow, record, audit, active, ghosts, bounds>>

\* IdempotencyService.succeed, then the response is returned.
Succeed(c) ==
    /\ At(c, "succeed")
    /\ record' = [record EXCEPT ![caller[c].key] = "succeeded"]
    /\ SetThread(c, IdleThread)
    /\ UNCHANGED <<budget, workflow, audit, circuit, active, ghosts, bounds>>

-----------------------------------------------------------------------------
(***************************************************************************)
(* The exception handler of an attempt.                                    *)
(***************************************************************************)

\* Mutant: a failed attempt keeps its reservation.
KeepsReservation(c) ==
    /\ At(c, "release")
    /\ Goto(c, "audit")
    /\ UNCHANGED <<stores, ghosts, bounds>>

\* BudgetService.release of the attempt's reserved amount, settled or not.
Release(c) ==
    /\ At(c, "release")
    /\ budget' = [budget EXCEPT !.reserved = Lowered(@, caller[c].reserved)]
    /\ Goto(c, "audit")
    /\ UNCHANGED <<workflow, record, audit, circuit, active, ghosts, bounds>>

\* _start_call when the attempt has no row yet, then _finish_call.
AuditFailure(c) ==
    /\ At(c, "audit")
    /\ \/ /\ ~caller[c].row /\ Duplicate(c)
          /\ Escape(c)
          /\ UNCHANGED <<audit, workflow>>
       \/ /\ caller[c].row \/ ~Duplicate(c)
          /\ AddAudit(c)
          /\ CountCall(0)
          /\ Goto(c, "decide")
    /\ UNCHANGED <<budget, record, circuit, active, ghosts, bounds>>

\* CircuitBreaker.record_failure: opens, or re-opens, at the threshold and
\* ends the probe.
Failed(state) ==
    [failures |-> IF state.failures < Threshold THEN state.failures + 1 ELSE Threshold,
     cooled |-> FALSE, probe |-> FALSE]

\* The circuit counts timeouts and service errors; RetryPolicy.retryable also
\* lets an upstream rate limit be retried.
Decide(c) ==
    LET r == caller[c].ref
        err == caller[c].err
    IN  /\ At(c, "decide")
        /\ circuit' = [circuit EXCEPT ![r] =
                          IF err = "transient" THEN Failed(@) ELSE @]
        /\ IF err \in {"transient", "throttled"} /\ caller[c].retry < MaxRetries
           THEN SetThread(c, NextAttempt(c, caller[c].retry + 1))
           ELSE Goto(c, "next")
        /\ UNCHANGED <<budget, workflow, record, audit, active, ghosts, bounds>>

-----------------------------------------------------------------------------
(***************************************************************************)
(* The surroundings: the clock, the operator and faults.                   *)
(***************************************************************************)

\* The cooldown of an open circuit elapses.
Cooldown(r) ==
    /\ Open(r) /\ ~circuit[r].cooled
    /\ circuit' = [circuit EXCEPT ![r].cooled = TRUE]
    /\ UNCHANGED <<budget, workflow, record, audit, active, caller, ghosts, bounds>>

\* The Redis hash expires four cooldowns after its last write.
CircuitExpires(r) ==
    /\ Distributed
    /\ circuit[r].failures > 0
    /\ Open(r) => circuit[r].cooled
    /\ circuit' = [circuit EXCEPT ![r] = ClosedCircuit]
    /\ UNCHANGED <<budget, workflow, record, audit, active, caller, ghosts, bounds>>

\* The Redis concurrency counter expires 120 seconds after the last admission;
\* a call is shorter (30 second client timeout).
SlotsExpire(r) ==
    /\ Distributed
    /\ active[r] > 0
    /\ \A c \in Callers : ~(At(c, "network") /\ caller[c].ref = r)
    /\ active' = [active EXCEPT ![r] = 0]
    /\ UNCHANGED <<budget, workflow, record, audit, circuit, caller, ghosts, bounds>>

\* BudgetService.set.
SetBudget(hard, enabled) ==
    /\ sets < MaxSets
    /\ hard >= budget.spent + budget.reserved
    /\ budget' = [budget EXCEPT !.hard = hard, !.enabled = enabled]
    /\ sets' = sets + 1
    /\ UNCHANGED <<workflow, record, audit, circuit, active, caller, ghosts,
                   errors, crashes, dropped>>

\* The provider has answered; what is left of the try block is bookkeeping.
AnsweredPcs == {"finish", "settle", "record", "succeed"}

\* A database transaction of the try block rolls back, or a Redis script is
\* unavailable: every one but the provider's own response is such a step.
\* After an answer the handler takes the error for one of the call.
TryError(c) ==
    /\ errors < MaxErrors
    /\ caller[c].pc \in TryPcs \ {"network"}
    /\ caller[c].pc \in {"attempt", "acquire", "record"} => Distributed
    /\ At(c, "attempt") => ~caller[c].late
    /\ Raise(c, "fallback")
    /\ errors' = errors + 1
    /\ dropped' = IF caller[c].pc \in AnsweredPcs
                  THEN [dropped EXCEPT ![caller[c].key] = @ + 1] ELSE dropped
    /\ UNCHANGED <<stores, ghosts, sets, crashes>>

\* A database or Redis error in the handler or at the loop's end leaves generate.
HandlerError(c) ==
    /\ errors < MaxErrors
    /\ caller[c].pc \in HandlerPcs \cup {"giveup"}
    /\ At(c, "decide") => Distributed /\ caller[c].err = "transient"
    /\ Escape(c)
    /\ errors' = errors + 1
    /\ UNCHANGED <<stores, ghosts, sets, crashes, dropped>>

\* The worker process of the thread dies (one that does not share its circuit
\* and limiter through Redis takes them along and starts anew).
Crash(c) ==
    /\ crashes < MaxCrashes
    /\ Distributed
    /\ ~At(c, "idle")
    /\ SetThread(c, IdleThread)
    /\ crashes' = crashes + 1
    /\ UNCHANGED <<stores, ghosts, sets, errors, dropped>>

-----------------------------------------------------------------------------
(***************************************************************************)
(* The specification.                                                      *)
(***************************************************************************)

\* One step of generate.
Generate(c) ==
    \/ Prepare(c) \/ PreparePrivate(c) \/ NextCandidate(c) \/ GiveUp(c)
    \/ Deadline(c) \/ BeforeCall(c) \/ CheckWorkflow(c) \/ Reserve(c)
    \/ StartCall(c) \/ Acquire(c) \/ Respond(c) \/ Finish(c) \/ Settle(c)
    \/ RecordSuccess(c) \/ Succeed(c)
    \/ Release(c) \/ AuditFailure(c) \/ Decide(c)

Fault(c) == TryError(c) \/ HandlerError(c) \/ Crash(c)

Clock(r) == Cooldown(r) \/ CircuitExpires(r) \/ SlotsExpire(r)

Next ==
    \/ \E c \in Callers : (\E k \in Keys : Begin(c, k)) \/ Generate(c) \/ Fault(c)
    \/ \E r \in Refs : Clock(r)
    \/ \E hard \in Limits, enabled \in Switches : SetBudget(hard, enabled)

Spec == Init /\ [][Next]_vars

\* A thread runs on: transactions end, the provider answers or its client
\* times out, a backoff sleep is bounded.  The clock advances.
Fairness ==
    /\ \A c \in Callers : WF_vars(Generate(c))
    /\ \A r \in Refs : WF_vars(Cooldown(r)) /\ WF_vars(CircuitExpires(r))

FairSpec == Spec /\ Fairness

-----------------------------------------------------------------------------
(***************************************************************************)
(* Properties.                                                             *)
(***************************************************************************)

\* Every row, counter and thread has its type; the reservation in particular
\* never becomes negative (the clamp of BudgetService.settle and the check
\* constraint project_budget_reserved_non_negative).
TypeOK ==
    /\ budget \in [hard : Limits, enabled : BOOLEAN, spent : Nat, reserved : Nat]
    /\ workflow \in [calls : Nat, cost : Nat]
    /\ record \in [Keys -> Statuses]
    /\ audit \in [Keys -> SUBSET (Nat \X Refs)]
    /\ circuit \in [Refs -> Circuits]
    /\ active \in [Refs -> Nat]
    /\ caller \in [Callers -> Threads]
    /\ begun \in [Keys -> Nat] /\ paid \in [Keys -> Nat] /\ sent \in Nat
    /\ sets \in 0..MaxSets /\ errors \in 0..MaxErrors /\ crashes \in 0..MaxCrashes
    /\ dropped \in [Keys -> Nat]

\* The threads in one of these places with a reservation.
InFlightPcs == {"start", "acquire", "network", "finish", "settle"}
Holders(pcs) == {c \in Callers : caller[c].pc \in pcs /\ caller[c].reserved # 0}

\* The reservation of the project covers every attempt in flight: a call on
\* the network has its estimate set aside until it settles (BudgetService's
\* reserve, settle and release).
ReservationsBacked ==
    budget.reserved >= Estimate * Cardinality(Holders(InFlightPcs))

\* Failures release what they reserved: as long as no process died, nothing
\* stays reserved without an attempt in flight or about to be released (the
\* handler of generate).
FailuresRelease ==
    crashes = 0 =>
        budget.reserved <= Estimate * Cardinality(Holders(InFlightPcs \cup {"release"}))

\* The owners of a share in the sense of BudgetLedger, and what the row has
\* reserved besides theirs.
ShareOwners == Holders(InFlightPcs \cup {"release"})
Orphaned == budget.reserved - Estimate * Cardinality(ShareOwners)

Ledger == INSTANCE BudgetLedger WITH
    Owners <- Callers, Share <- Estimate, limit <- budget.hard, spent <- budget.spent,
    held <- ShareOwners, lost <- Orphaned, deaths <- crashes

\* Reserve, settle and release are the ledger every call relies on: a share is
\* set aside only where it fits, is given back once, by the attempt that holds
\* it, through the network's failures, retries and fallbacks, and is lost only
\* with a process (BudgetService; the try block and the handler of generate).
ImplementsLedger == Ledger!Spec

\* The hard limit holds at every moment, whatever is in flight: the estimated
\* spending and the reservations of an enabled budget stay within it
\* (BudgetService.reserve, set).
HardLimit == budget.enabled => budget.spent + budget.reserved <= budget.hard

\* A key is billed once, and once more only for every answer whose bookkeeping
\* (_finish_call, settle, record_success, succeed) an error undid: nothing else,
\* no retry, fallback, replay or crash, sends a request again that a provider
\* has answered (IdempotencyService and the loop of generate).
PaidOnce == \A k \in Keys : paid[k] <= 1 + dropped[k]

\* A key is billed at most once, whatever fails: not kept by the code, which
\* treats an error after the answer like a failed call.
NeverPaidTwice == \A k \in Keys : paid[k] <= 1

\* Two threads never work on one key at a time, and a key that succeeded is
\* not worked on (IdempotencyService.claim).
KeyExclusive ==
    \A c \in Callers : ~At(c, "idle") =>
        /\ record[caller[c].key] = "active"
        /\ \A d \in Callers \ {c} :
               ~At(d, "idle") => caller[d].key # caller[c].key

\* No more calls are on the network to a model than the limiter allows, also
\* when processes die and counters expire (ProviderRateLimiter.acquire).
ConcurrencyBound ==
    \A r \in Refs :
        Cardinality({c \in Callers : At(c, "network") /\ caller[c].ref = r})
            <= MaxConcurrency

\* The workflow ceiling bounds the calls really sent to providers, however many
\* threads call: it is passed by no more than one call of each other thread,
\* whose check came before this one's count, and one call for each death or
\* error that kept a call from being counted (BudgetService.check_workflow and
\* _finish_call).
WorkflowCeiling ==
    sent <= WorkflowMaxCalls + (Cardinality(Callers) - 1) + errors + crashes

\* The ceiling itself bounds the calls sent: not kept by the code where two
\* threads work on one run, see WorkflowRace.cfg.
NeverPastCeiling == sent <= WorkflowMaxCalls

\* A claim is always finished: the key becomes succeeded or failed, so that a
\* retry of the job can use it (IdempotencyService.claim, succeed, fail).  The
\* code does not keep this: see KeyCrash.cfg.
ClaimsEnd == \A k \in Keys : record[k] = "active" ~> record[k] # "active"

\* Claims end where no crash and no database error takes the thread away.
KeySettles == [](crashes = 0 /\ errors = 0) => ClaimsEnd

\* A half-open probe always ends, so that the circuit admits calls again
\* (CircuitBreaker.before_call, record_success, record_failure): not kept by
\* the process-local breaker, see ProbeLeak.cfg; in Redis only the expiry of
\* the key ends a probe that met neither success nor a counted failure.
HalfOpenProbeEnds ==
    [](crashes = 0 /\ errors = 0) =>
       \A r \in Refs : circuit[r].probe ~> ~circuit[r].probe

=============================================================================

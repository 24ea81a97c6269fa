------------------------- MODULE GovernedEmbeddings -------------------------
(***************************************************************************)
(* The governed embedding provider (embeddings/governed.py) over the       *)
(* project's budget (usage/service.py) and the audit rows of its calls.    *)
(*                                                                         *)
(* An embedder is a thread inside embed_texts; its pc names the store it   *)
(* touches next, in the order of the code.  Circuit, ceilings of the       *)
(* active workflow run, and limiter are those of ProviderGateway: here     *)
(* each is a refusal that may come at its place.  Errors:                  *)
(*   "service"  timeout or provider error, tried again                     *)
(*   "shape"    wrong number or size of vectors, not tried again           *)
(*   "other"    privacy, open circuit, ceiling, budget, rate limit, or a   *)
(*              transaction or Redis that failed                           *)
(* The first two are EmbeddingErrors.  Every call is estimated at one      *)
(* unit; the other users of the budget are in ProviderGateway.             *)
(***************************************************************************)
EXTENDS Naturals, FiniteSets

CONSTANTS
    Indexers,      \* the threads that embed
    Limit,         \* the project's hard limit
    MaxRetries,    \* settings.provider_max_retries
    MaxFaults      \* bound on dead processes, failures and refusals

ASSUME EmbeddingAssumption ==
    {Limit, MaxRetries, MaxFaults} \subseteq Nat /\ IsFiniteSet(Indexers)

VARIABLES
    budget,     \* the project's budget: spent, reserved
    priced,     \* sum of estimated_cost over the audit rows
    embedder,
    torn,       \* history: a step of the accounting failed or never came
    faults

embedding == <<budget, priced, embedder, torn>>

IdleEmbedder == [pc |-> "idle", attempt |-> 0, reserved |-> FALSE, error |-> "none"]

EmbeddingInit ==
    /\ budget = [spent |-> 0, reserved |-> 0] /\ priced = 0
    /\ embedder = [i \in Indexers |-> IdleEmbedder]
    /\ torn = FALSE /\ faults = 0

-----------------------------------------------------------------------------

Step(i, pc) == embedder[i].pc = pc
Go(i, pc) == embedder' = [embedder EXCEPT ![i].pc = pc]

\* An exception in the loop goes to its handler.
Catch(i, error) ==
    embedder' = [embedder EXCEPT ![i].pc = "release", ![i].error = error]
Fault == faults < MaxFaults /\ faults' = faults + 1

\* The privacy policy may refuse before the loop.
BeginEmbedding(i) ==
    \/ /\ embedder' = [embedder EXCEPT ![i] =
                         [IdleEmbedder EXCEPT !.pc = "reserve", !.attempt = 1]]
       /\ UNCHANGED faults
    \/ /\ embedder' = [embedder EXCEPT ![i] =
                         [IdleEmbedder EXCEPT !.pc = "raised", !.error = "other"]]
       /\ Fault

Fits == budget.spent + budget.reserved + 1 <= Limit

\* before_call of the circuit, check_workflow and reserve: the first two may
\* refuse as well.
Reserve(i) ==
    /\ Step(i, "reserve")
    /\ \/ /\ Fits
          /\ budget' = [budget EXCEPT !.reserved = @ + 1]
          /\ embedder' = [embedder EXCEPT ![i].pc = "network", ![i].reserved = TRUE]
          /\ UNCHANGED faults
       \/ ~Fits /\ Catch(i, "other") /\ UNCHANGED <<budget, faults>>
       \/ Fault /\ Catch(i, "other") /\ UNCHANGED budget
    /\ UNCHANGED <<priced, torn>>

\* _start_call inserts the row of the attempt, the limiter may refuse, the
\* provider answers or fails.
CallProvider(i) ==
    /\ Step(i, "network")
    /\ \/ Go(i, "finish") /\ UNCHANGED faults
       \/ Fault /\ \E error \in {"service", "shape", "other"} : Catch(i, error)
    /\ UNCHANGED <<budget, priced, torn>>

\* _finish_call: the row gets its cost.
FinishCall(i) ==
    /\ Step(i, "finish") /\ Go(i, "settle")
    /\ priced' = priced + 1
    /\ UNCHANGED <<budget, torn, faults>>

\* settle clamps the reservation at zero; release settles without a cost.
Settled(reserved, cost) ==
    [spent |-> budget.spent + cost,
     reserved |-> IF budget.reserved < reserved THEN 0 ELSE budget.reserved - reserved]
Settle(i) ==
    /\ Step(i, "settle") /\ Go(i, "success")
    /\ budget' = Settled(1, 1)
    /\ UNCHANGED <<priced, torn, faults>>

\* record_success of the circuit.
RecordSuccess(i) ==
    /\ Step(i, "success")
    /\ embedder' = [embedder EXCEPT ![i] = [IdleEmbedder EXCEPT !.pc = "answered"]]
    /\ UNCHANGED <<budget, priced, torn, faults>>

\* Mutant: the handler leaves the reservation to the next settlement.
KeepsReservation(i) == budget
\* The handler gives the reservation back, if the attempt got one.
Released(i) == Settled(IF embedder[i].reserved THEN 1 ELSE 0, 0)
Retried(i) == embedder[i].error = "service" /\ embedder[i].attempt <= MaxRetries

\* Then the row is finished without a cost, the circuit is told, and an error
\* of the service is tried again.
Release(i) ==
    /\ Step(i, "release")
    /\ budget' = Released(i)
    /\ embedder' = [embedder EXCEPT ![i] =
           IF Retried(i)
           THEN [IdleEmbedder EXCEPT !.pc = "reserve",
                                     !.attempt = embedder[i].attempt + 1]
           ELSE [IdleEmbedder EXCEPT !.pc = "raised", !.error = embedder[i].error]]
    /\ UNCHANGED <<priced, torn, faults>>

IsEmbeddingError(error) == error \in {"service", "shape"}

-----------------------------------------------------------------------------
(***************************************************************************)
(* Faults.                                                                 *)
(***************************************************************************)

\* A transaction or Redis fails after the answer: the handler of the loop
\* follows, and gives back even what was settled.
TryError(i) ==
    /\ embedder[i].pc \in {"finish", "settle", "success"}
    /\ Catch(i, "other")
    /\ torn' = (torn \/ embedder[i].pc \in {"settle", "success"})
    /\ UNCHANGED budget
\* A failure of the handler itself, in the release or after it, leaves
\* embed_texts in place of the error it handles.
HandlerError(i) ==
    /\ Step(i, "release")
    /\ embedder' = [embedder EXCEPT ![i] =
                      [IdleEmbedder EXCEPT !.pc = "raised", !.error = "other"]]
    /\ \/ UNCHANGED budget /\ torn' = (torn \/ embedder[i].reserved)
       \/ budget' = Released(i) /\ UNCHANGED torn
EmbeddingError(i) == Fault /\ (TryError(i) \/ HandlerError(i)) /\ UNCHANGED priced

\* The attempts that hold a reservation.
Holds(i) == /\ embedder[i].reserved
            /\ embedder[i].pc \in {"network", "finish", "settle", "release"}

\* The thread dies with its process and leaves what it holds.
Dies(i) ==
    /\ embedder' = [embedder EXCEPT ![i] = IdleEmbedder]
    /\ torn' = (torn \/ Holds(i))
    /\ UNCHANGED <<budget, priced>>

EmbedStep(i) ==
    Reserve(i) \/ CallProvider(i) \/ FinishCall(i) \/ Settle(i)
       \/ RecordSuccess(i) \/ Release(i)

-----------------------------------------------------------------------------

\* The budget and the audit tell the same story, whichever attempts overlap,
\* fail and are tried again: what is reserved is what attempts in flight
\* hold, what is spent is what the rows of answered calls cost, and both stay
\* within the limit.  Only a thread that died, or a transaction that failed,
\* between a reservation and its end takes the two apart.
LedgersAgree ==
    torn \/ /\ budget.reserved = Cardinality({i \in Indexers : Holds(i)})
            /\ priced = budget.spent + Cardinality({i \in Indexers : Step(i, "settle")})
            /\ budget.spent + budget.reserved <= Limit
=============================================================================

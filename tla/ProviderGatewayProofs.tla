----------------------- MODULE ProviderGatewayProofs -----------------------
(***************************************************************************)
(* Theorems about ProviderGateway, for any number of threads, keys,        *)
(* candidates, retries and limits.                                         *)
(***************************************************************************)
EXTENDS ProviderGateway, FiniteSetTheorems, TLAPS

-----------------------------------------------------------------------------
(***************************************************************************)
(* Types.                                                                  *)
(***************************************************************************)

\* The thread that waits for a request is well typed (end of generate).
LEMMA IdleType == IdleThread \in Threads
<1>1. (CHOOSE k \in Keys : TRUE) \in Keys /\ (CHOOSE p \in Prices : TRUE) \in Prices
  BY GatewayAssumption
<1>2. 1 \in Refs /\ 0 \in 0..MaxRetries
  BY GatewayAssumption DEF Refs
<1>3. QED
  BY <1>1, <1>2 DEF IdleThread, Threads, Pcs, Errors

\* Replacing one thread by a well typed one keeps the type of all.
LEMMA SetThreadType ==
    ASSUME TypeOK, NEW c \in Callers, NEW t \in Threads, SetThread(c, t)
    PROVE  caller' \in [Callers -> Threads]
BY DEF TypeOK, SetThread

\* Moving a thread to another place of generate keeps its type.
LEMMA GotoType ==
    ASSUME TypeOK, NEW c \in Callers, NEW pc \in Pcs, Goto(c, pc)
    PROVE  caller' \in [Callers -> Threads]
<1>1. caller[c] \in Threads
  BY DEF TypeOK
<1>2. [caller[c] EXCEPT !.pc = pc] \in Threads
  BY <1>1 DEF Threads
<1>3. QED
  BY <1>2, SetThreadType DEF Goto

\* Raising an exception in the try block keeps the thread's type.
LEMMA RaiseType ==
    ASSUME TypeOK, NEW c \in Callers, NEW err \in Errors, Raise(c, err)
    PROVE  caller' \in [Callers -> Threads]
<1>1. caller[c] \in Threads
  BY DEF TypeOK
<1>2. [caller[c] EXCEPT !.pc = "release", !.err = err] \in Threads
  BY <1>1 DEF Threads, Pcs, HandlerPcs
<1>3. QED
  BY <1>2, SetThreadType DEF Raise

\* Lowering a reservation gives a natural number (the clamp of settle).
LEMMA LoweredType ==
    ASSUME NEW a \in Nat, NEW b \in Nat
    PROVE  Lowered(a, b) \in Nat /\ Lowered(a, b) <= a /\ Lowered(a, b) >= a - b
BY DEF Lowered

\* The initial state is well typed.
LEMMA InitType == Init => TypeOK
<1> SUFFICES ASSUME Init PROVE TypeOK
  OBVIOUS
<1>1. ClosedCircuit \in Circuits
  BY GatewayAssumption DEF ClosedCircuit, Circuits
<1>2. /\ budget \in [hard : Limits, enabled : BOOLEAN, spent : Nat, reserved : Nat]
      /\ workflow \in [calls : Nat, cost : Nat]
      /\ record \in [Keys -> Statuses]
      /\ audit \in [Keys -> SUBSET (Nat \X Refs)]
      /\ active \in [Refs -> Nat]
      /\ begun \in [Keys -> Nat] /\ paid \in [Keys -> Nat] /\ sent \in Nat
  BY DEF Init, Statuses
<1>3. circuit \in [Refs -> Circuits] /\ caller \in [Callers -> Threads]
  BY <1>1, IdleType DEF Init
<1>4. sets \in 0..MaxSets /\ errors \in 0..MaxErrors /\ crashes \in 0..MaxCrashes
  BY GatewayAssumption DEF Init
<1>5. dropped \in [Keys -> Nat]
  BY DEF Init
<1>6. QED
  BY <1>2, <1>3, <1>4, <1>5 DEF TypeOK

\* Every step of a thread in generate is well typed.
LEMMA GenerateType ==
    ASSUME TypeOK, NEW c \in Callers, Generate(c)
    PROVE  TypeOK'
<1> DEFINE k == caller[c].key
           r == caller[c].ref
<1>0. /\ caller[c] \in Threads /\ k \in Keys /\ r \in Refs
      /\ caller[c].n \in Nat /\ caller[c].n + 1 \in Nat
      /\ caller[c].price \in Nat /\ caller[c].reserved \in Nat
  <2>1. caller[c] \in Threads
    BY DEF TypeOK
  <2>2. caller[c].price \in Prices /\ caller[c].reserved \in {0, Estimate}
    BY <2>1 DEF Threads
  <2>3. caller[c].n \in Nat /\ k \in Keys /\ r \in Refs
    BY <2>1 DEF Threads
  <2>4. caller[c].n + 1 \in Nat
    BY <2>3
  <2>5. Prices \subseteq Nat /\ Estimate \in Nat
    BY GatewayAssumption
  <2>6. caller[c].price \in Nat
    BY <2>2, <2>5, Zenon
  <2>7. caller[c].reserved \in Nat
    BY <2>2, <2>5
  <2>8. QED
    BY <2>1, <2>3, <2>4, <2>6, <2>7
<1>a. ClosedCircuit \in Circuits
  BY GatewayAssumption DEF ClosedCircuit, Circuits
<1>b. /\ workflow.calls \in Nat /\ workflow.cost \in Nat
      /\ budget.spent \in Nat /\ budget.reserved \in Nat /\ Estimate \in Nat
  BY GatewayAssumption DEF TypeOK
<1>1. CASE Prepare(c)
  <2>1. NextAttempt(c, 0) \in Threads
    <3> DEFINE n == caller[c].n + 1
    <3>1. n \in Nat /\ 0 \in 0..MaxRetries
      BY <1>0, GatewayAssumption
    <3>2. [caller[c] EXCEPT !.pc = "attempt", !.n = n, !.retry = 0,
                            !.reserved = 0, !.row = FALSE] \in Threads
      BY <1>0, <3>1 DEF Threads, Pcs, TryPcs
    <3>3. QED
      BY <3>2 DEF NextAttempt
  <2>2. QED
    BY <1>1, <2>1, SetThreadType DEF Prepare, TypeOK, stores, ghosts, bounds
<1>2. CASE PreparePrivate(c)
  <2>1. [caller[c] EXCEPT !.pc = "giveup", !.err = "final"] \in Threads
    BY <1>0 DEF Threads, Pcs, Errors
  <2>2. caller' \in [Callers -> Threads]
    BY <1>2, <2>1, IdleType, SetThreadType DEF PreparePrivate, Escape
  <2>3. <<caller[c].n + 1, r>> \in Nat \X Refs
    BY <1>0
  <2>4. audit' \in [Keys -> SUBSET (Nat \X Refs)]
    BY <1>0, <1>2, <2>3 DEF PreparePrivate, TypeOK
  <2>5. workflow' \in [calls : Nat, cost : Nat]
    BY <1>2, <1>b DEF PreparePrivate, CountCall, TypeOK
  <2>6. QED
    BY <1>2, <2>2, <2>4, <2>5 DEF PreparePrivate, TypeOK, ghosts, bounds
<1>3. CASE NextCandidate(c)
  <2>1. CASE caller[c].err = "final" \/ r = Candidates
    BY <1>3, <2>1, GotoType DEF NextCandidate, TypeOK, stores, ghosts, bounds, Pcs
  <2>2. CASE ~(caller[c].err = "final" \/ r = Candidates)
    <3>1. r + 1 \in Refs
      BY <1>0, <2>2, GatewayAssumption DEF Refs
    <3>2. [caller[c] EXCEPT !.pc = "prepare", !.ref = r + 1] \in Threads
      BY <1>0, <3>1 DEF Threads, Pcs
    <3>3. QED
      BY <1>3, <2>2, <3>2, SetThreadType DEF NextCandidate, TypeOK, stores, ghosts, bounds
  <2>3. QED
    BY <2>1, <2>2
<1>4. CASE GiveUp(c) \/ Succeed(c)
  BY <1>0, <1>4, IdleType, SetThreadType
     DEF GiveUp, Succeed, TypeOK, ghosts, bounds, Statuses
<1>5. CASE Deadline(c)
  <2>1. [caller[c] EXCEPT !.pc = "next", !.err = "transient", !.late = TRUE] \in Threads
    BY <1>0 DEF Threads, Pcs, Errors
  <2>2. QED
    BY <1>5, <2>1, SetThreadType DEF Deadline, TypeOK, stores, ghosts, bounds
<1>6. CASE BeforeCall(c)
  <2>1. caller' \in [Callers -> Threads]
    BY <1>6, GotoType, RaiseType DEF BeforeCall, Pcs, TryPcs, Errors
  <2>2. circuit[r] \in Circuits
    BY <1>0 DEF TypeOK
  <2>3. [circuit[r] EXCEPT !.probe = @ \/ Open(r)] \in Circuits
    <3>1. (circuit[r].probe \/ Open(r)) \in BOOLEAN
      OBVIOUS
    <3>2. QED
      BY <2>2, <3>1 DEF Circuits
  <2>4. circuit' \in [Refs -> Circuits]
    BY <1>0, <1>6, <2>3 DEF BeforeCall, TypeOK
  <2>5. QED
    BY <1>6, <2>1, <2>4 DEF BeforeCall, TypeOK, ghosts, bounds
<1>7. CASE CheckWorkflow(c)
  BY <1>7, GotoType, RaiseType
     DEF CheckWorkflow, TypeOK, stores, ghosts, bounds, Pcs, TryPcs, Errors
<1>8. CASE Reserve(c)
  <2>1. [caller[c] EXCEPT !.pc = "start", !.reserved = Estimate] \in Threads
    BY <1>0 DEF Threads, Pcs, TryPcs
  <2>2. caller' \in [Callers -> Threads]
    BY <1>8, <2>1, GotoType, RaiseType, SetThreadType DEF Reserve, Pcs, TryPcs, Errors
  <2>3. [budget EXCEPT !.reserved = budget.reserved + Estimate]
           \in [hard : Limits, enabled : BOOLEAN, spent : Nat, reserved : Nat]
    BY <1>b DEF TypeOK
  <2>4. budget' \in [hard : Limits, enabled : BOOLEAN, spent : Nat, reserved : Nat]
    BY <1>8, <2>3 DEF Reserve, TypeOK
  <2>5. QED
    BY <1>8, <2>2, <2>4 DEF Reserve, TypeOK, ghosts, bounds
<1>9. CASE StartCall(c)
  <2>1. [caller[c] EXCEPT !.pc = "acquire", !.row = TRUE] \in Threads
    BY <1>0 DEF Threads, Pcs, TryPcs
  <2>2. caller' \in [Callers -> Threads]
    BY <1>9, <2>1, RaiseType, SetThreadType DEF StartCall, Errors
  <2>3. audit' \in [Keys -> SUBSET (Nat \X Refs)]
    <3>1. Identity(c) \in Nat \X Refs
      BY <1>0 DEF Identity
    <3>2. QED
      BY <1>0, <1>9, <3>1 DEF StartCall, AddAudit, TypeOK
  <2>4. QED
    BY <1>9, <2>2, <2>3 DEF StartCall, TypeOK, ghosts, bounds
<1>10. CASE Acquire(c)
  <2>1. caller' \in [Callers -> Threads]
    BY <1>10, GotoType, RaiseType DEF Acquire, Pcs, TryPcs, Errors
  <2>2. active' \in [Refs -> Nat] /\ sent' \in Nat
    BY <1>0, <1>10 DEF Acquire, TypeOK
  <2>3. QED
    BY <1>10, <2>1, <2>2 DEF Acquire, TypeOK, bounds
<1>11. CASE Respond(c)
  <2>1. \A price \in Prices :
           [caller[c] EXCEPT !.pc = "finish", !.price = price] \in Threads
    BY <1>0 DEF Threads, Pcs, TryPcs
  <2>2. caller' \in [Callers -> Threads]
    <3>1. CASE \E price \in Prices :
                  SetThread(c, [caller[c] EXCEPT !.pc = "finish", !.price = price])
      BY ZenonT(60), <2>1, <3>1, SetThreadType
    <3>2. CASE \E err \in Errors \ {"none"} : Raise(c, err)
      BY <3>2, RaiseType
    <3>3. QED
      BY ZenonT(60), <1>11, <3>1, <3>2 DEF Respond
  <2>3. active' \in [Refs -> Nat]
    <3>1. active[r] \in Nat /\ active \in [Refs -> Nat]
      BY <1>0 DEF TypeOK
    <3>2. (IF active[r] > 0 THEN active[r] - 1 ELSE 0) \in Nat
      BY <3>1
    <3>3. QED
      BY ZenonT(60), <1>0, <1>11, <3>1, <3>2 DEF Respond
  <2>4. paid' \in [Keys -> Nat]
    <3>1. paid \in [Keys -> Nat] /\ paid[k] + 1 \in Nat
      BY <1>0 DEF TypeOK
    <3>2. UNCHANGED paid \/ paid' = [paid EXCEPT ![k] = paid[k] + 1]
      BY ZenonT(60), <1>11 DEF Respond
    <3>3. QED
      BY <1>0, <3>1, <3>2
  <2>5. QED
    BY ZenonT(60), <1>11, <2>2, <2>3, <2>4 DEF Respond, TypeOK, bounds
<1>12. CASE Finish(c)
  <2>1. workflow' \in [calls : Nat, cost : Nat]
    BY <1>0, <1>12, <1>b DEF Finish, CountCall
  <2>2. QED
    BY <1>12, <2>1, GotoType DEF Finish, TypeOK, ghosts, bounds, Pcs, TryPcs
<1>13. CASE Settle(c)
  <2>1. Lowered(budget.reserved, caller[c].reserved) \in Nat
        /\ budget.spent + caller[c].price \in Nat
    BY <1>0, <1>b, LoweredType
  <2>2. budget' \in [hard : Limits, enabled : BOOLEAN, spent : Nat, reserved : Nat]
    BY <1>13, <2>1 DEF Settle, TypeOK
  <2>3. QED
    BY <1>13, <2>2, GotoType DEF Settle, TypeOK, ghosts, bounds, Pcs, TryPcs
<1>14. CASE RecordSuccess(c)
  <2>1. circuit' \in [Refs -> Circuits]
    BY <1>0, <1>14, <1>a DEF RecordSuccess, TypeOK
  <2>2. QED
    BY <1>14, <2>1, GotoType DEF RecordSuccess, TypeOK, ghosts, bounds, Pcs, TryPcs
<1>15. CASE Release(c)
  <2>1. Lowered(budget.reserved, caller[c].reserved) \in Nat
    BY <1>0, <1>b, LoweredType
  <2>2. budget' \in [hard : Limits, enabled : BOOLEAN, spent : Nat, reserved : Nat]
    BY <1>15, <2>1 DEF Release, TypeOK
  <2>3. QED
    BY <1>15, <2>2, GotoType DEF Release, TypeOK, ghosts, bounds, Pcs, HandlerPcs
<1>16. CASE AuditFailure(c)
  <2>1. caller' \in [Callers -> Threads]
    BY <1>16, IdleType, SetThreadType, GotoType DEF AuditFailure, Escape, Pcs, HandlerPcs
  <2>2. audit' \in [Keys -> SUBSET (Nat \X Refs)]
    <3>1. Identity(c) \in Nat \X Refs
      BY <1>0 DEF Identity
    <3>2. QED
      BY <1>0, <1>16, <3>1 DEF AuditFailure, AddAudit, TypeOK
  <2>3. workflow' \in [calls : Nat, cost : Nat]
    BY <1>16, <1>b DEF AuditFailure, CountCall, TypeOK
  <2>4. QED
    BY <1>16, <2>1, <2>2, <2>3 DEF AuditFailure, TypeOK, ghosts, bounds
<1>17. CASE Decide(c)
  <2>1. circuit[r] \in Circuits
    BY <1>0 DEF TypeOK
  <2>2. Failed(circuit[r]) \in Circuits
    BY <2>1, GatewayAssumption DEF Failed, Circuits
  <2>3. circuit' \in [Refs -> Circuits]
    BY <1>0, <1>17, <2>1, <2>2 DEF Decide, TypeOK
  <2>4. caller' \in [Callers -> Threads]
    <3>1. CASE caller[c].err \in {"transient", "throttled"} /\ caller[c].retry < MaxRetries
      <4>1. caller[c].retry + 1 \in 0..MaxRetries
        BY <1>0, <3>1, GatewayAssumption DEF Threads
      <4>2. NextAttempt(c, caller[c].retry + 1) \in Threads
        BY <1>0, <4>1 DEF NextAttempt, Threads, Pcs, TryPcs
      <4>3. QED
        BY <1>17, <3>1, <4>2, SetThreadType DEF Decide
    <3>2. CASE ~(caller[c].err \in {"transient", "throttled"} /\ caller[c].retry < MaxRetries)
      BY <1>17, <3>2, GotoType DEF Decide, Pcs
    <3>3. QED
      BY <3>1, <3>2
  <2>5. QED
    BY <1>17, <2>3, <2>4 DEF Decide, TypeOK, ghosts, bounds
<1>18. QED
  BY <1>1, <1>2, <1>3, <1>4, <1>5, <1>6, <1>7, <1>8, <1>9, <1>10, <1>11, <1>12, <1>13,
     <1>14, <1>15, <1>16, <1>17 DEF Generate

\* Every step is well typed.
LEMMA TypeStep == TypeOK /\ [Next]_vars => TypeOK'
<1> SUFFICES ASSUME TypeOK, [Next]_vars PROVE TypeOK'
  OBVIOUS
<1>1. CASE UNCHANGED vars
  BY <1>1 DEF vars, stores, ghosts, bounds, TypeOK
<1>2. ASSUME NEW c \in Callers, NEW k \in Keys, Begin(c, k) PROVE TypeOK'
  <2>1. [IdleThread EXCEPT !.pc = "prepare", !.key = k] \in Threads
    BY IdleType DEF Threads, Pcs
  <2>2. caller' \in [Callers -> Threads]
    BY <1>2, <2>1, SetThreadType DEF Begin
  <2>3. record' \in [Keys -> Statuses] /\ begun' \in [Keys -> Nat]
    BY <1>2 DEF Begin, TypeOK, Statuses
  <2>4. QED
    BY <1>2, <2>2, <2>3 DEF Begin, TypeOK, bounds
<1>3. ASSUME NEW c \in Callers, Generate(c) PROVE TypeOK'
  BY <1>3, GenerateType
<1>4. ASSUME NEW c \in Callers, Fault(c) PROVE TypeOK'
  <2>1. CASE TryError(c)
    <3>1. caller' \in [Callers -> Threads]
      BY <2>1, RaiseType DEF TryError, Errors
    <3>2. errors' \in 0..MaxErrors
      BY <2>1, GatewayAssumption DEF TryError, TypeOK
    <3>3. dropped' \in [Keys -> Nat]
      <4>1. caller[c].key \in Keys /\ dropped \in [Keys -> Nat]
        BY DEF TypeOK, Threads
      <4>2. UNCHANGED dropped
            \/ dropped' = [dropped EXCEPT ![caller[c].key] = dropped[caller[c].key] + 1]
        BY <2>1, Zenon DEF TryError
      <4>3. dropped[caller[c].key] + 1 \in Nat
        BY <4>1
      <4>4. QED
        BY <4>1, <4>2, <4>3
    <3>4. QED
      BY <2>1, <3>1, <3>2, <3>3 DEF TryError, TypeOK, stores, ghosts
  <2>2. CASE HandlerError(c)
    <3>1. caller' \in [Callers -> Threads]
      BY <2>2, IdleType, SetThreadType DEF HandlerError, Escape
    <3>2. errors' \in 0..MaxErrors
      BY <2>2, GatewayAssumption DEF HandlerError, TypeOK
    <3>3. QED
      BY <2>2, <3>1, <3>2 DEF HandlerError, TypeOK, stores, ghosts
  <2>3. CASE Crash(c)
    <3>1. caller' \in [Callers -> Threads]
      BY <2>3, IdleType, SetThreadType DEF Crash
    <3>2. crashes' \in 0..MaxCrashes
      BY <2>3, GatewayAssumption DEF Crash, TypeOK
    <3>3. QED
      BY <2>3, <3>1, <3>2 DEF Crash, TypeOK, stores, ghosts
  <2>4. QED
    BY <1>4, <2>1, <2>2, <2>3 DEF Fault
<1>5. ASSUME NEW r \in Refs, Clock(r) PROVE TypeOK'
  <2>1. circuit[r] \in Circuits /\ ClosedCircuit \in Circuits
    BY GatewayAssumption DEF TypeOK, ClosedCircuit, Circuits
  <2>2. [circuit[r] EXCEPT !.cooled = TRUE] \in Circuits
    BY <2>1 DEF Circuits
  <2>3. circuit' \in [Refs -> Circuits]
    BY <1>5, <2>1, <2>2 DEF Clock, Cooldown, CircuitExpires, SlotsExpire, TypeOK
  <2>4. active' \in [Refs -> Nat]
    BY <1>5 DEF Clock, Cooldown, CircuitExpires, SlotsExpire, TypeOK
  <2>5. QED
    BY <1>5, <2>3, <2>4 DEF Clock, Cooldown, CircuitExpires, SlotsExpire, TypeOK,
                            ghosts, bounds
<1>6. ASSUME NEW hard \in Limits, NEW enabled \in Switches, SetBudget(hard, enabled)
      PROVE  TypeOK'
  <2>1. budget' \in [hard : Limits, enabled : BOOLEAN, spent : Nat, reserved : Nat]
    BY <1>6, GatewayAssumption DEF SetBudget, TypeOK
  <2>2. sets' \in 0..MaxSets
    BY <1>6, GatewayAssumption DEF SetBudget, TypeOK
  <2>3. QED
    BY <1>6, <2>1, <2>2 DEF SetBudget, TypeOK, ghosts
<1>7. QED
  BY <1>1, <1>2, <1>3, <1>4, <1>5, <1>6 DEF Next

\* Rows, counters and threads keep their types in every behaviour; the
\* reservation of a project is never negative.
THEOREM TypeCorrect == Spec => []TypeOK
<1>1. TypeOK /\ [Next]_vars => TypeOK'
  BY TypeStep
<1>2. QED
  BY InitType, <1>1, PTL DEF Spec

-----------------------------------------------------------------------------
(***************************************************************************)
(* The hard limit.  A reservation is Estimate or nothing, so that the      *)
(* reservations in flight sum up to Estimate times the number of threads   *)
(* that hold one.                                                          *)
(***************************************************************************)

HeldPcs == InFlightPcs \cup {"release"}
FreshPcs == {"attempt", "check", "reserve"}

Holds(t) == t.pc \in HeldPcs /\ t.reserved # 0
Held == Holders(HeldPcs)

\* An attempt in flight has reserved, one that has not come to reserve has not.
Shaped(t) ==
    /\ t.pc \in InFlightPcs => t.reserved = Estimate
    /\ t.pc \in FreshPcs => t.reserved = 0

Backed == budget.reserved >= Estimate * Cardinality(Held)

\* The inductive invariant: the limit needs the clamp of settle never to act,
\* hence Backed; Backed needs to know who holds what, hence Shaped.
BudgetInv ==
    /\ TypeOK
    /\ budget.enabled
    /\ budget.spent + budget.reserved <= budget.hard
    /\ Backed
    /\ \A c \in Callers : Shaped(caller[c])

\* Multiples of the estimate.
LEMMA Multiples ==
    ASSUME NEW e \in Nat, NEW n \in Nat
    PROVE  e * n \in Nat /\ e * (n + 1) = e * n + e
OBVIOUS

\* The owners of a reservation when one thread changes.
LEMMA OwnersStep ==
    ASSUME TypeOK, NEW c \in Callers, NEW t \in Threads, SetThread(c, t)
    PROVE  /\ Held \in SUBSET Callers /\ (c \in Held <=> Holds(caller[c]))
           /\ Held' = IF Holds(t) THEN Held \cup {c} ELSE Held \ {c}
<1>1. Held \in SUBSET Callers /\ Held' \in SUBSET Callers
  BY DEF Held, Holders
<1>2. /\ \A d \in Callers : d \in Held <=> Holds(caller[d])
      /\ \A d \in Callers : d \in Held' <=> Holds(caller'[d])
  BY DEF Held, Holders, Holds
<1>3. caller'[c] = t /\ \A d \in Callers \ {c} : caller'[d] = caller[d]
  BY DEF TypeOK, SetThread
<1>4. QED
  BY <1>1, <1>2, <1>3

\* The number of reservations held when one thread changes.
LEMMA HeldStep ==
    ASSUME TypeOK, NEW c \in Callers, NEW t \in Threads, SetThread(c, t)
    PROVE  /\ Cardinality(Held) \in Nat /\ Cardinality(Held)' \in Nat
           /\ (Holds(t) <=> Holds(caller[c])) =>
                 Cardinality(Held)' = Cardinality(Held)
           /\ Holds(t) /\ ~Holds(caller[c]) =>
                 Cardinality(Held)' = Cardinality(Held) + 1
           /\ ~Holds(t) /\ Holds(caller[c]) =>
                 Cardinality(Held) = Cardinality(Held)' + 1
<1>1. /\ Held \in SUBSET Callers /\ (c \in Held <=> Holds(caller[c]))
      /\ Held' = IF Holds(t) THEN Held \cup {c} ELSE Held \ {c}
  BY OwnersStep
<1>2. IsFiniteSet(Held) /\ Cardinality(Held) \in Nat
  BY <1>1, GatewayAssumption, FS_Subset, FS_CardinalityType
<1>3. CASE Holds(t) <=> Holds(caller[c])
  <2>1. Held' = Held
    BY <1>1, <1>3
  <2>2. QED
    BY <1>2, <1>3, <2>1
<1>4. CASE Holds(t) /\ ~Holds(caller[c])
  <2>1. Cardinality(Held \cup {c}) = Cardinality(Held) + 1
    BY <1>1, <1>2, <1>4, FS_AddElement
  <2>2. QED
    BY <1>1, <1>2, <1>4, <2>1
<1>5. CASE ~Holds(t) /\ Holds(caller[c])
  <2>1. Cardinality(Held \ {c}) = Cardinality(Held) - 1 /\ Cardinality(Held \ {c}) \in Nat
    BY <1>1, <1>2, <1>5, FS_RemoveElement, FS_CardinalityType
  <2>2. QED
    BY <1>1, <1>2, <1>5, <2>1
<1>6. QED
  BY <1>3, <1>4, <1>5

\* A step that leaves the budget alone and takes no reservation keeps the
\* invariant.
LEMMA QuietStep ==
    ASSUME BudgetInv, TypeOK', NEW c \in Callers, NEW t \in Threads, SetThread(c, t),
           Holds(t) => Holds(caller[c]), Shaped(t), UNCHANGED budget
    PROVE  BudgetInv'
<1>1. TypeOK /\ Estimate \in Nat /\ budget.reserved \in Nat
  BY GatewayAssumption DEF BudgetInv, TypeOK
<1>2. \A d \in Callers : Shaped(caller'[d])
  BY <1>1 DEF BudgetInv, SetThread, TypeOK
<1>3. Estimate * Cardinality(Held)' <= Estimate * Cardinality(Held)
  <2>1. CASE Holds(t) <=> Holds(caller[c])
    <3>1. Cardinality(Held) \in Nat /\ Cardinality(Held)' = Cardinality(Held)
      BY <1>1, <2>1, HeldStep
    <3>2. QED
      BY <1>1, <3>1, Multiples
  <2>2. CASE ~Holds(t) /\ Holds(caller[c])
    <3> DEFINE n == Cardinality(Held)'
    <3>1. n \in Nat /\ Cardinality(Held) = n + 1
      BY <1>1, <2>2, HeldStep
    <3>2. Estimate * n \in Nat /\ Estimate * (n + 1) = Estimate * n + Estimate
      BY <1>1, <3>1, Multiples
    <3>3. QED
      BY <1>1, <3>1, <3>2
  <2>3. QED
    BY <2>1, <2>2
<1>4. Estimate * Cardinality(Held) \in Nat /\ Estimate * Cardinality(Held)' \in Nat
  BY <1>1, HeldStep, Multiples
<1>5. Backed'
  <2>1. budget.reserved >= Estimate * Cardinality(Held)
    BY DEF BudgetInv, Backed
  <2>2. budget'.reserved >= Estimate * Cardinality(Held)'
    BY <1>1, <1>3, <1>4, <2>1
  <2>3. QED
    BY <2>2 DEF Backed
<1>6. QED
  BY <1>2, <1>5 DEF BudgetInv, Shaped

\* Giving a reservation back, with what was spent of it, keeps the invariant
\* (BudgetService.settle and release).
LEMMA GiveBackStep ==
    ASSUME BudgetInv, TypeOK', NEW c \in Callers, NEW t \in Threads, SetThread(c, t),
           ~Holds(t), Shaped(t), caller[c].pc \in HeldPcs,
           NEW cost \in Nat, cost <= caller[c].reserved,
           budget' = [budget EXCEPT !.reserved = Lowered(@, caller[c].reserved),
                                    !.spent = @ + cost]
    PROVE  BudgetInv'
<1> DEFINE a == caller[c].reserved
           n == Cardinality(Held)
           m == Cardinality(Held)'
<1>1. TypeOK /\ Estimate \in Nat /\ a \in {0, Estimate} /\ a \in Nat
  <2>1. caller[c] \in Threads /\ Estimate \in Nat
    BY GatewayAssumption DEF BudgetInv, TypeOK
  <2>2. a \in {0, Estimate}
    BY <2>1 DEF Threads
  <2>3. QED
    BY <2>1, <2>2 DEF BudgetInv
<1>2. /\ budget.reserved \in Nat /\ budget.spent \in Nat /\ budget.hard \in Nat
      /\ budget \in [hard : Limits, enabled : BOOLEAN, spent : Nat, reserved : Nat]
  <2>1. budget \in [hard : Limits, enabled : BOOLEAN, spent : Nat, reserved : Nat]
    BY <1>1 DEF TypeOK
  <2>2. Limits \subseteq Nat
    BY GatewayAssumption
  <2>3. QED
    BY <2>1, <2>2
<1>3. /\ budget'.reserved = Lowered(budget.reserved, a)
      /\ budget'.spent = budget.spent + cost
      /\ budget'.hard = budget.hard /\ budget'.enabled = budget.enabled
  BY <1>2
<1>4. \A d \in Callers : Shaped(caller'[d])
  BY <1>1 DEF BudgetInv, SetThread, TypeOK
<1>5. n \in Nat /\ m \in Nat /\ Estimate * n \in Nat /\ Estimate * m \in Nat
  BY <1>1, HeldStep, Multiples
<1>6. Estimate * n = Estimate * m + a
  <2>1. CASE a = 0
    <3>1. ~Holds(caller[c])
      BY <2>1 DEF Holds
    <3>2. m = n
      BY <1>1, <3>1, HeldStep
    <3>3. QED
      BY <1>5, <2>1, <3>2
  <2>2. CASE a # 0
    <3>1. Holds(caller[c]) /\ a = Estimate
      BY <1>1, <2>2 DEF Holds
    <3>2. n = m + 1
      BY <1>1, <3>1, HeldStep
    <3>3. Estimate * (m + 1) = Estimate * m + Estimate
      BY <1>1, <1>5, Multiples
    <3>4. QED
      BY <3>1, <3>2, <3>3
  <2>3. QED
    BY <2>1, <2>2
<1>7. budget.reserved >= Estimate * n
  BY DEF BudgetInv, Backed
<1>8. budget.reserved >= a
  BY <1>1, <1>2, <1>5, <1>6, <1>7
<1>9. budget'.reserved = budget.reserved - a
  BY <1>1, <1>2, <1>3, <1>8 DEF Lowered
<1>10. budget'.reserved >= Estimate * m
  BY <1>1, <1>2, <1>5, <1>6, <1>7, <1>9
<1>11. budget.spent + budget.reserved <= budget.hard /\ budget.enabled
  BY DEF BudgetInv
<1>12. budget'.spent + budget'.reserved <= budget'.hard
  BY <1>1, <1>2, <1>3, <1>9, <1>11
<1>13. QED
  BY <1>3, <1>4, <1>10, <1>11, <1>12 DEF BudgetInv, Backed, Shaped

\* Reserving keeps the invariant: what is in flight is counted.
LEMMA ReserveStep ==
    ASSUME BudgetInv, TypeOK', NEW c \in Callers, NEW t \in Threads, SetThread(c, t),
           ~Holds(caller[c]), t.pc = "start", t.reserved = Estimate,
           Fits, budget' = [budget EXCEPT !.reserved = @ + Estimate]
    PROVE  BudgetInv'
<1> DEFINE n == Cardinality(Held)
           m == Cardinality(Held)'
<1>1. TypeOK /\ Estimate \in Nat /\ Shaped(t) /\ budget.enabled
  BY GatewayAssumption DEF BudgetInv, Shaped, FreshPcs
<1>2. /\ budget.reserved \in Nat /\ budget.spent \in Nat
      /\ budget'.reserved = budget.reserved + Estimate
      /\ budget'.spent = budget.spent /\ budget'.hard = budget.hard
      /\ budget'.enabled = budget.enabled
  BY <1>1 DEF TypeOK
<1>3. n \in Nat /\ m \in Nat /\ Estimate * n \in Nat /\ Estimate * m \in Nat
  BY <1>1, HeldStep, Multiples
<1>4. Estimate * m <= Estimate * n + Estimate
  <2>1. CASE Holds(t)
    <3>1. m = n + 1
      BY <1>1, <2>1, HeldStep
    <3>2. Estimate * (n + 1) = Estimate * n + Estimate
      BY <1>1, <1>3, Multiples
    <3>3. QED
      BY <1>1, <1>3, <3>1, <3>2
  <2>2. CASE ~Holds(t)
    <3>1. m = n
      BY <1>1, <2>2, HeldStep
    <3>2. QED
      BY <1>1, <1>3, <3>1
  <2>3. QED
    BY <2>1, <2>2
<1>5. budget.reserved >= Estimate * n
  BY DEF BudgetInv, Backed
<1>6. budget'.reserved >= Estimate * m
  BY <1>1, <1>2, <1>3, <1>4, <1>5
<1>7. budget'.spent + budget'.reserved <= budget'.hard
  <2>1. budget.spent + budget.reserved + Estimate <= budget.hard
    BY DEF Fits
  <2>2. budget'.spent + budget'.reserved = budget.spent + budget.reserved + Estimate
    BY <1>1, <1>2
  <2>3. QED
    BY <1>2, <2>1, <2>2
<1>8. \A d \in Callers : Shaped(caller'[d])
  BY <1>1 DEF BudgetInv, SetThread, TypeOK
<1>9. QED
  BY <1>1, <1>2, <1>6, <1>7, <1>8 DEF BudgetInv, Backed, Shaped

-----------------------------------------------------------------------------
(***************************************************************************)
(* What the budget sees of a step in which the thread c becomes t: nothing *)
(* (Keeps), a share set aside (Takes) or a share given back (Returns).     *)
(***************************************************************************)

Keeps(c, t) == UNCHANGED budget /\ (Holds(t) <=> Holds(caller[c]))

Takes(c, t) ==
    /\ Fits /\ budget' = [budget EXCEPT !.reserved = @ + Estimate]
    /\ ~Holds(caller[c]) /\ t.pc = "start" /\ t.reserved = Estimate

Returns(c, t) ==
    /\ caller[c].pc \in HeldPcs /\ ~Holds(t)
    /\ \E cost \in Nat :
          /\ cost <= caller[c].reserved
          /\ budget' = [budget EXCEPT !.reserved = Lowered(@, caller[c].reserved),
                                      !.spent = @ + cost]

Move(c, t) ==
    /\ t \in Threads /\ SetThread(c, t) /\ Shaped(t) /\ crashes' = crashes
    /\ Keeps(c, t) \/ Takes(c, t) \/ Returns(c, t)

\* The places where a thread neither holds nor is about to reserve.
RestPcs == {"idle", "prepare", "next", "giveup", "record", "succeed", "audit", "decide"}

\* The steps between two places that hold nothing.
LEMMA RestMove ==
    ASSUME UNCHANGED <<budget, crashes>>, NEW c \in Callers, NEW t \in Threads,
           SetThread(c, t), caller[c].pc \notin HeldPcs,
           t.pc \in RestPcs \/ (t.pc = "attempt" /\ t.reserved = 0)
    PROVE  Move(c, t)
<1>1. ~Holds(caller[c]) /\ ~Holds(t) /\ Shaped(t)
  BY DEF Holds, Shaped, HeldPcs, InFlightPcs, FreshPcs, RestPcs
<1>2. QED
  BY <1>1 DEF Move, Keeps

\* The steps before the reservation, to the next check or to the handler.
LEMMA FreshMove ==
    ASSUME BudgetInv, UNCHANGED <<budget, crashes>>, NEW c \in Callers, NEW t \in Threads,
           SetThread(c, t), t.reserved = caller[c].reserved,
           caller[c].pc \in FreshPcs, t.pc \in FreshPcs \cup {"release"}
    PROVE  Move(c, t)
<1>1. t.reserved = 0 /\ caller[c].reserved = 0
  BY DEF BudgetInv, Shaped
<1>2. ~Holds(caller[c]) /\ ~Holds(t) /\ Shaped(t)
  BY <1>1 DEF Holds, Shaped, InFlightPcs, FreshPcs
<1>3. QED
  BY <1>2 DEF Move, Keeps

\* The steps from one place in flight to the next, or to the handler.
LEMMA FlightMove ==
    ASSUME BudgetInv, UNCHANGED <<budget, crashes>>, NEW c \in Callers, NEW t \in Threads,
           SetThread(c, t), t.reserved = caller[c].reserved,
           caller[c].pc \in InFlightPcs, t.pc \in HeldPcs
    PROVE  Move(c, t)
<1>1. Shaped(caller[c]) /\ t.pc \notin FreshPcs
  BY DEF BudgetInv, HeldPcs, InFlightPcs, FreshPcs
<1>2. (Holds(t) <=> Holds(caller[c])) /\ Shaped(t)
  BY <1>1 DEF Holds, HeldPcs, Shaped
<1>3. QED
  BY <1>2 DEF Move, Keeps

\* Every step of generate is such a move when the budget is enabled and no price
\* exceeds the estimate.
LEMMA GenerateMove ==
    ASSUME BudgetInv, TypeOK', NEW c \in Callers, Generate(c),
           \A p \in Prices : p <= Estimate
    PROVE  \E t : Move(c, t)
<1> DEFINE u == caller[c]
           To(pc) == [u EXCEPT !.pc = pc]
           Raised(err) == [u EXCEPT !.pc = "release", !.err = err]
           Quiet == UNCHANGED <<budget, crashes>>
<1>0. u \in Threads /\ IdleThread \in Threads /\ IdleThread.pc = "idle" /\ TypeOK /\ Shaped(u)
  BY IdleType DEF BudgetInv, TypeOK, IdleThread
<1>a. ASSUME NEW pc \in Pcs
      PROVE  /\ To(pc) \in Threads /\ To(pc).pc = pc /\ To(pc).reserved = u.reserved
             /\ Goto(c, pc) => SetThread(c, To(pc))
  BY <1>0 DEF Threads, Goto
<1>b. ASSUME NEW err \in Errors
      PROVE  /\ Raised(err) \in Threads /\ Raised(err).pc = "release"
             /\ Raised(err).reserved = u.reserved
             /\ Raise(c, err) => SetThread(c, Raised(err))
  BY <1>0 DEF Threads, Pcs, HandlerPcs, Raise
<1>c. \A t : SetThread(c, t) => t \in Threads
  BY DEF SetThread, TypeOK
<1> HIDE DEF To, Raised
<1>d. ASSUME NEW pc \in RestPcs, Goto(c, pc), Quiet, u.pc \notin HeldPcs
      PROVE  \E t : Move(c, t)
  <2>1. pc \in Pcs
    BY DEF RestPcs, Pcs, TryPcs, HandlerPcs
  <2>2. QED
    BY <1>a, <1>d, <2>1, RestMove
<1>e. ASSUME Quiet, SetThread(c, IdleThread), u.pc \notin HeldPcs
      PROVE  \E t : Move(c, t)
  BY <1>0, <1>e, RestMove DEF RestPcs
<1>f. ASSUME NEW retry, SetThread(c, NextAttempt(c, retry)), Quiet, u.pc \notin HeldPcs
      PROVE  \E t : Move(c, t)
  <2> DEFINE t == NextAttempt(c, retry)
  <2>1. t.pc = "attempt" /\ t.reserved = 0
    BY <1>0 DEF NextAttempt, Threads
  <2>2. t \in Threads
    BY <1>c, <1>f
  <2> HIDE DEF t
  <2>3. QED
    BY <1>f, <2>1, <2>2, RestMove DEF t
<1>1. CASE Prepare(c)
  <2>1. SetThread(c, NextAttempt(c, 0)) /\ Quiet /\ u.pc \notin HeldPcs
    BY <1>1 DEF Prepare, At, stores, bounds, HeldPcs, InFlightPcs
  <2>2. QED
    BY <1>f, <2>1
<1>2. CASE PreparePrivate(c)
  <2> DEFINE t == [u EXCEPT !.pc = "giveup", !.err = "final"]
  <2>1. SetThread(c, IdleThread) \/ SetThread(c, t)
    BY <1>2 DEF PreparePrivate, Escape
  <2>2. t.pc = "giveup" /\ t \in Threads
    BY <1>0 DEF Threads, Pcs, Errors
  <2>3. Quiet /\ u.pc \notin HeldPcs
    BY <1>2 DEF PreparePrivate, At, bounds, HeldPcs, InFlightPcs
  <2>4. QED
    BY <1>e, <2>1, <2>2, <2>3, RestMove DEF RestPcs
<1>3. CASE NextCandidate(c)
  <2> DEFINE t == [u EXCEPT !.pc = "prepare", !.ref = @ + 1]
  <2>1. Quiet /\ u.pc \notin HeldPcs /\ (Goto(c, "giveup") \/ SetThread(c, t))
    BY <1>3 DEF NextCandidate, stores, bounds, At, HeldPcs, InFlightPcs
  <2>2. t.pc = "prepare"
    BY <1>0 DEF Threads
  <2>3. CASE Goto(c, "giveup")
    BY <1>d, <2>1, <2>3 DEF RestPcs
  <2>4. CASE SetThread(c, t)
    BY <1>c, <2>1, <2>2, <2>4, RestMove DEF RestPcs
  <2>5. QED
    BY <2>1, <2>3, <2>4
<1>4. CASE GiveUp(c) \/ Succeed(c)
  <2>1. Quiet /\ SetThread(c, IdleThread) /\ u.pc \notin HeldPcs
    BY <1>4 DEF GiveUp, Succeed, bounds, At, HeldPcs, InFlightPcs
  <2>2. QED
    BY <1>e, <2>1
<1>5. CASE Deadline(c)
  <2> DEFINE t == [u EXCEPT !.pc = "next", !.err = "transient", !.late = TRUE]
  <2>1. t.pc = "next" /\ t \in Threads
    BY <1>0 DEF Threads, Pcs, Errors
  <2>2. Quiet /\ u.pc \notin HeldPcs /\ SetThread(c, t)
    BY <1>5 DEF Deadline, stores, bounds, At, HeldPcs, InFlightPcs
  <2>3. QED
    BY <2>1, <2>2, RestMove DEF RestPcs
<1>6. CASE BeforeCall(c) \/ CheckWorkflow(c)
  <2>1. /\ u.pc \in FreshPcs /\ Quiet
        /\ \/ Goto(c, "check") \/ Goto(c, "reserve")
           \/ Raise(c, "fallback") \/ Raise(c, "final")
    BY <1>6 DEF BeforeCall, CheckWorkflow, At, stores, bounds, FreshPcs
  <2>2. \E t \in Threads : /\ SetThread(c, t) /\ t.reserved = u.reserved
                           /\ t.pc \in FreshPcs \cup {"release"}
    BY ZenonT(60), <2>1, <1>a, <1>b DEF Pcs, TryPcs, Errors, FreshPcs
  <2>3. QED
    BY <2>1, <2>2, FreshMove
<1>7. CASE Reserve(c)
  <2>1. u.pc = "reserve" /\ crashes' = crashes /\ budget.enabled
    BY <1>7 DEF Reserve, At, bounds, BudgetInv
  <2>2. CASE Fits /\ budget' = [budget EXCEPT !.reserved = @ + Estimate]
                 /\ SetThread(c, [u EXCEPT !.pc = "start", !.reserved = Estimate])
    <3> DEFINE t == [u EXCEPT !.pc = "start", !.reserved = Estimate]
    <3>1. t \in Threads /\ t.pc = "start" /\ t.reserved = Estimate
      BY <1>0 DEF Threads, Pcs, TryPcs
    <3>2. Shaped(t) /\ ~Holds(u)
      BY <1>0, <2>1, <3>1 DEF Shaped, FreshPcs, Holds
    <3>3. QED
      BY <2>1, <2>2, <3>1, <3>2 DEF Move, Takes
  <2>3. CASE Raise(c, "final") /\ UNCHANGED budget
    BY <1>b, <2>1, <2>3, FreshMove DEF Errors, FreshPcs
  <2>4. QED
    BY <1>7, <2>1, <2>2, <2>3 DEF Reserve
<1>8. CASE StartCall(c) \/ Acquire(c) \/ Respond(c) \/ Finish(c)
  <2> DEFINE started == [u EXCEPT !.pc = "acquire", !.row = TRUE]
  <2>1. /\ u.pc \in InFlightPcs /\ Quiet
        /\ \/ \E err \in Errors : Raise(c, err)
           \/ SetThread(c, started)
           \/ Goto(c, "network") \/ Goto(c, "settle")
           \/ \E price \in Prices :
                 SetThread(c, [u EXCEPT !.pc = "finish", !.price = price])
    BY ZenonT(60), <1>8 DEF StartCall, Acquire, Respond, Finish, At, Errors, InFlightPcs,
                            bounds
  <2>2. \E t \in Threads : SetThread(c, t) /\ t.reserved = u.reserved /\ t.pc \in HeldPcs
    <3>1. CASE \E err \in Errors : Raise(c, err)
      BY ZenonT(60), <3>1, <1>b DEF HeldPcs
    <3>2. CASE SetThread(c, started)
      <4>1. started.pc = "acquire" /\ started.reserved = u.reserved
        BY <1>0 DEF Threads
      <4>2. QED
        BY <1>c, <3>2, <4>1 DEF HeldPcs, InFlightPcs
    <3>3. CASE Goto(c, "network") \/ Goto(c, "settle")
      BY <3>3, <1>a DEF Pcs, TryPcs, HeldPcs, InFlightPcs
    <3>4. CASE \E price \in Prices :
                  SetThread(c, [u EXCEPT !.pc = "finish", !.price = price])
      <4>1. PICK price \in Prices :
               SetThread(c, [u EXCEPT !.pc = "finish", !.price = price])
        BY ZenonT(60), <3>4
      <4> DEFINE t == [u EXCEPT !.pc = "finish", !.price = price]
      <4>2. t.pc = "finish" /\ t.reserved = u.reserved
        BY <1>0 DEF Threads
      <4>3. QED
        BY <1>c, <4>1, <4>2 DEF HeldPcs, InFlightPcs
    <3>5. QED
      BY ZenonT(60), <2>1, <3>1, <3>2, <3>3, <3>4
  <2>3. QED
    BY ZenonT(60), <2>1, <2>2, FlightMove
<1>9. CASE Settle(c) \/ Release(c)
  <2> DEFINE to == IF u.pc = "settle" THEN "record" ELSE "audit"
             cost == IF u.pc = "settle" THEN u.price ELSE 0
             t == To(to)
  <2>1. /\ u.pc \in {"settle", "release"} /\ crashes' = crashes
        /\ SetThread(c, t) /\ to \in Pcs
    BY <1>9, <1>a DEF Settle, Release, At, bounds, Pcs, TryPcs, HandlerPcs
  <2>2. t \in Threads /\ t.pc \in {"record", "audit"}
    BY <1>a, <2>1
  <2> HIDE DEF t
  <2>3. ~Holds(t) /\ Shaped(t)
    BY <2>2 DEF Holds, Shaped, HeldPcs, InFlightPcs, FreshPcs
  <2>4. cost \in Nat /\ cost <= u.reserved
    <3>1. u.price \in Prices /\ u.reserved \in {0, Estimate}
      BY <1>0 DEF Threads
    <3>2. Prices \subseteq Nat /\ Estimate \in Nat
      BY GatewayAssumption
    <3>3. CASE u.pc = "settle"
      <4>1. u.reserved = Estimate /\ cost = u.price
        BY <1>0, <3>3 DEF Shaped, InFlightPcs
      <4>2. QED
        BY <3>1, <3>2, <4>1
    <3>4. CASE u.pc # "settle"
      <4>1. cost = 0
        BY <3>4
      <4>2. QED
        BY <3>1, <3>2, <4>1
    <3>5. QED
      BY <3>3, <3>4
  <2>5. budget' = [budget EXCEPT !.reserved = Lowered(@, u.reserved), !.spent = @ + cost]
    <3>1. CASE Settle(c)
      <4>1. u.pc = "settle"
        BY <3>1 DEF Settle, At
      <4>2. budget' = [budget EXCEPT !.reserved = Lowered(@, u.reserved),
                                     !.spent = @ + u.price]
        BY <3>1, Zenon DEF Settle
      <4>3. QED
        BY <4>1, <4>2
    <3>2. CASE Release(c)
      <4>1. u.pc = "release" /\ budget' = [budget EXCEPT !.reserved = Lowered(@, u.reserved)]
        BY <3>2 DEF Release, At
      <4>2. budget \in [hard : Limits, enabled : BOOLEAN, spent : Nat, reserved : Nat]
        BY <1>0 DEF TypeOK
      <4>3. budget.spent + 0 = budget.spent
        BY <4>2
      <4>4. QED
        BY <4>1, <4>2, <4>3
    <3>3. QED
      BY <1>9, <3>1, <3>2
  <2> HIDE DEF to, cost
  <2>6. Returns(c, t)
    <3>1. u.pc \in HeldPcs
      BY <2>1 DEF HeldPcs, InFlightPcs
    <3>2. QED
      BY <2>3, <2>4, <2>5, <3>1, Zenon DEF Returns
  <2>7. QED
    BY <2>1, <2>2, <2>3, <2>6 DEF Move
<1>10. CASE RecordSuccess(c)
  <2>1. Goto(c, "succeed") /\ Quiet /\ u.pc \notin HeldPcs
    BY <1>10 DEF RecordSuccess, At, bounds, HeldPcs, InFlightPcs
  <2>2. QED
    BY <1>d, <2>1 DEF RestPcs
<1>11. CASE AuditFailure(c)
  <2>1. SetThread(c, IdleThread) \/ Goto(c, "decide")
    BY <1>11 DEF AuditFailure, Escape
  <2>2. Quiet /\ u.pc \notin HeldPcs
    BY <1>11 DEF AuditFailure, At, bounds, HeldPcs, InFlightPcs
  <2>3. QED
    BY <1>d, <1>e, <2>1, <2>2 DEF RestPcs
<1>12. CASE Decide(c)
  <2>1. SetThread(c, NextAttempt(c, u.retry + 1)) \/ Goto(c, "next")
    BY <1>12 DEF Decide
  <2>2. Quiet /\ u.pc \notin HeldPcs
    BY <1>12 DEF Decide, At, bounds, HeldPcs, InFlightPcs
  <2>3. QED
    BY <1>d, <1>f, <2>1, <2>2 DEF RestPcs
<1>13. QED
  BY <1>1, <1>2, <1>3, <1>4, <1>5, <1>6, <1>7, <1>8, <1>9, <1>10, <1>11, <1>12 DEF Generate

\* What the hard limit rests on: the reported usage never costs more than the
\* preflight estimate, the budget is not switched off, and no transaction or
\* Redis script of an attempt fails.
BudgetAssumption ==
    /\ \A p \in Prices : p <= Estimate
    /\ Switches \subseteq {TRUE}
    /\ MaxErrors = 0

\* What the budget sees of any step.
SetsLimit ==
    /\ budget' \in [hard : Limits, enabled : {TRUE}, spent : {budget.spent},
                    reserved : {budget.reserved}]
    /\ budget'.hard >= budget.spent + budget.reserved
    /\ UNCHANGED <<caller, crashes>>

Dies(c) == SetThread(c, IdleThread) /\ UNCHANGED budget /\ crashes' = crashes + 1

LEMMA NextMove ==
    ASSUME BudgetAssumption, BudgetInv, [Next]_vars
    PROVE  \/ \E c \in Callers, t \in Threads : Move(c, t)
           \/ \E c \in Callers : Dies(c)
           \/ SetsLimit
           \/ UNCHANGED <<budget, caller, crashes>>
<1>0. TypeOK /\ TypeOK'
  BY TypeStep DEF BudgetInv
<1>1. ASSUME NEW c \in Callers, NEW k \in Keys, Begin(c, k)
      PROVE  \E t \in Threads : Move(c, t)
  <2> DEFINE t == [IdleThread EXCEPT !.pc = "prepare", !.key = k]
  <2>1. t \in Threads /\ t.pc = "prepare"
    BY IdleType DEF Threads, Pcs
  <2>2. SetThread(c, t) /\ UNCHANGED <<budget, crashes>> /\ caller[c].pc \notin HeldPcs
    BY <1>1 DEF Begin, At, bounds, HeldPcs, InFlightPcs
  <2> HIDE DEF t
  <2>3. QED
    BY <2>1, <2>2, RestMove DEF RestPcs
<1>2. ASSUME NEW c \in Callers, Generate(c)
      PROVE  \E t \in Threads : Move(c, t)
  BY <1>0, <1>2, GenerateMove DEF BudgetAssumption, Move
<1>3. ASSUME NEW c \in Callers, Fault(c) PROVE Dies(c)
  <2>1. Crash(c)
    BY <1>0, <1>3 DEF Fault, TryError, HandlerError, BudgetAssumption, TypeOK
  <2>2. QED
    BY <2>1 DEF Crash, Dies, stores
<1>4. ASSUME NEW r \in Refs, Clock(r) PROVE UNCHANGED <<budget, caller, crashes>>
  BY <1>4, Zenon DEF Clock, Cooldown, CircuitExpires, SlotsExpire, bounds
<1>5. ASSUME NEW hard \in Limits, NEW enabled \in Switches, SetBudget(hard, enabled)
      PROVE  SetsLimit
  <2>1. budget \in [hard : Limits, enabled : BOOLEAN, spent : Nat, reserved : Nat]
    BY <1>0 DEF TypeOK
  <2>2. enabled = TRUE
    BY DEF BudgetAssumption
  <2>3. /\ budget' = [budget EXCEPT !.hard = hard, !.enabled = TRUE]
        /\ hard >= budget.spent + budget.reserved /\ UNCHANGED <<caller, crashes>>
    BY <1>5, <2>2 DEF SetBudget
  <2>4. QED
    BY <2>1, <2>3 DEF SetsLimit
<1>6. CASE UNCHANGED vars
  BY <1>6 DEF vars, stores, bounds
<1>7. QED
  BY <1>1, <1>2, <1>3, <1>4, <1>5, <1>6 DEF Next

\* Every step keeps the invariant.
LEMMA BudgetStep ==
    ASSUME BudgetAssumption, BudgetInv, [Next]_vars
    PROVE  BudgetInv'
<1>0. TypeOK /\ TypeOK'
  BY TypeStep DEF BudgetInv
<1>1. ASSUME NEW c \in Callers, NEW t \in Threads, Move(c, t) PROVE BudgetInv'
  <2>1. CASE Keeps(c, t)
    BY <1>0, <1>1, <2>1, QuietStep DEF Move, Keeps
  <2>2. CASE Takes(c, t)
    BY <1>0, <1>1, <2>2, ReserveStep DEF Move, Takes
  <2>3. CASE Returns(c, t)
    <3>1. PICK cost \in Nat :
             /\ cost <= caller[c].reserved
             /\ budget' = [budget EXCEPT !.reserved = Lowered(@, caller[c].reserved),
                                         !.spent = @ + cost]
      BY <2>3, Zenon DEF Returns
    <3>2. caller[c].pc \in HeldPcs /\ ~Holds(t) /\ SetThread(c, t) /\ Shaped(t)
      BY <1>1, <2>3, Zenon DEF Move, Returns
    <3>3. QED
      BY ZenonT(60), <1>0, <3>1, <3>2, GiveBackStep
  <2>4. QED
    BY <1>1, <2>1, <2>2, <2>3 DEF Move
<1>2. ASSUME NEW c \in Callers, Dies(c) PROVE BudgetInv'
  <2>1. ~Holds(IdleThread) /\ Shaped(IdleThread)
    BY DEF Holds, Shaped, HeldPcs, InFlightPcs, FreshPcs, IdleThread
  <2>2. QED
    BY <1>0, <1>2, <2>1, IdleType, QuietStep DEF Dies
<1>3. CASE UNCHANGED <<budget, caller, crashes>>
  BY <1>0, <1>3 DEF BudgetInv, Backed, Held, Holders, Shaped
<1>4. CASE SetsLimit
  <2>1. /\ budget'.enabled = TRUE /\ budget'.hard >= budget.spent + budget.reserved
        /\ budget'.spent = budget.spent /\ budget'.reserved = budget.reserved
        /\ budget'.hard \in Limits /\ caller' = caller
    BY <1>4 DEF SetsLimit
  <2>2. budget'.spent + budget'.reserved <= budget'.hard
    <3>1. Limits \subseteq Nat /\ budget.spent \in Nat /\ budget.reserved \in Nat
      BY <1>0, GatewayAssumption DEF TypeOK
    <3>2. QED
      BY <2>1, <3>1
  <2>3. QED
    BY <1>0, <2>1, <2>2 DEF BudgetInv, Backed, Held, Holders, Shaped
<1>5. QED
  BY <1>1, <1>2, <1>3, <1>4, NextMove

\* The invariant holds at the start: nothing is reserved.
LEMMA BudgetInit == Init => BudgetInv
<1> SUFFICES ASSUME Init PROVE BudgetInv
  OBVIOUS
<1>1. \A c \in Callers : caller[c].pc = "idle"
  BY DEF Init, IdleThread
<1>2. Held = {}
  BY <1>1 DEF Held, Holders, HeldPcs, InFlightPcs
<1>3. Cardinality(Held) = 0 /\ Estimate \in Nat
  BY <1>2, FS_EmptySet, GatewayAssumption
<1>4. PICK hard \in Limits :
         budget = [hard |-> hard, enabled |-> TRUE, spent |-> 0, reserved |-> 0]
  BY DEF Init
<1>5. hard \in Nat
  <2>1. Limits \subseteq Nat
    BY GatewayAssumption
  <2>2. QED
    BY <2>1
<1>6. /\ budget.enabled /\ budget.spent + budget.reserved <= budget.hard
      /\ budget.reserved >= Estimate * Cardinality(Held)
  BY <1>3, <1>4, <1>5
<1>7. QED
  BY <1>1, <1>6, InitType DEF BudgetInv, Backed, Shaped, InFlightPcs, FreshPcs

\* The same moves are the steps of the abstract ledger.
LEMMA LedgerStep ==
    ASSUME BudgetAssumption, BudgetInv, [Next]_vars
    PROVE  [Ledger!Next]_(Ledger!ledgerVars)
<1> DEFINE n == Cardinality(Held)
           m == Cardinality(Held)'
           Owned(k) == Estimate * k
           Stays == UNCHANGED <<budget.hard, budget.spent, ShareOwners, Orphaned, crashes>>
<1>0. /\ TypeOK /\ TypeOK' /\ Estimate \in Nat /\ ShareOwners = Held /\ ShareOwners' = Held'
      /\ Orphaned = budget.reserved - Owned(n) /\ Orphaned' = budget'.reserved - Owned(m)
  BY TypeStep, GatewayAssumption DEF BudgetInv, ShareOwners, Held, HeldPcs, Orphaned
<1>1. budget \in [hard : Limits, enabled : BOOLEAN, spent : Nat, reserved : Nat]
  BY <1>0 DEF TypeOK
<1>2. n \in Nat /\ \A k \in Nat : Owned(k) \in Nat /\ Owned(k + 1) = Owned(k) + Estimate
  <2>1. Held \in SUBSET Callers
    BY DEF Held, Holders
  <2>2. QED
    BY <1>0, <2>1, GatewayAssumption, FS_Subset, FS_CardinalityType
<1>3. Ledger!SetAside = budget.reserved
  <2>1. Ledger!SetAside = Owned(n) + Orphaned
    BY <1>0, Zenon DEF Ledger!SetAside, Ledger!Cardinality, Cardinality
  <2> HIDE DEF Owned
  <2>2. Owned(n) \in Nat
    BY <1>2
  <2>3. QED
    BY <1>0, <1>1, <2>1, <2>2
<1> HIDE DEF Owned
<1>4. CASE Stays
  BY <1>4 DEF Ledger!ledgerVars
<1>5. ASSUME NEW c \in Callers, NEW t \in Threads, Move(c, t)
      PROVE  Stays \/ Ledger!Hold(c) \/ Ledger!GiveBack(c)
  <2>1. /\ SetThread(c, t) /\ (c \in Held <=> Holds(caller[c]))
        /\ Held' = (IF Holds(t) THEN Held \cup {c} ELSE Held \ {c}) /\ m \in Nat
    BY <1>0, <1>5, OwnersStep, HeldStep DEF Move
  <2>2. CASE Keeps(c, t)
    <3>1. UNCHANGED budget /\ Held' = Held
      BY <2>1, <2>2 DEF Keeps
    <3>2. m = n
      BY <1>0, <1>5, <2>1, <2>2, HeldStep DEF Keeps
    <3>3. QED
      BY <1>0, <1>5, <3>1, <3>2 DEF Move
  <2>3. CASE Takes(c, t)
    <3>1. /\ budget'.reserved = budget.reserved + Estimate
          /\ budget'.spent = budget.spent /\ budget'.hard = budget.hard
          /\ budget.spent + budget.reserved + Estimate <= budget.hard
      BY <1>1, <2>3 DEF Takes, Fits
    <3>2. c \notin Held /\ (Holds(t) <=> Estimate # 0)
      BY <2>1, <2>3 DEF Takes, Holds, HeldPcs, InFlightPcs
    <3>3. CASE Estimate = 0
      <4>1. Held' = Held /\ m = n
        BY <1>0, <2>1, <2>3, <3>2, <3>3, HeldStep DEF Takes
      <4>2. QED
        BY <1>0, <1>1, <1>5, <3>1, <3>3, <4>1 DEF Move
    <3>4. CASE Estimate # 0
      <4>1. Held' = Held \cup {c} /\ m = n + 1
        BY <1>0, <2>1, <2>3, <3>2, <3>4, HeldStep DEF Takes
      <4>2. Orphaned' = Orphaned
        BY <1>0, <1>1, <1>2, <3>1, <4>1
      <4>3. budget.spent + Ledger!SetAside + Estimate <= budget.hard
        BY <1>3, <3>1
      <4>4. crashes' = crashes
        BY <1>5 DEF Move
      <4>5. Ledger!Hold(c)
        BY <1>0, <3>1, <3>2, <4>1, <4>2, <4>3, <4>4, Zenon DEF Ledger!Hold
      <4>6. QED
        BY <4>5
    <3>5. QED
      BY <3>3, <3>4
  <2>4. CASE Returns(c, t)
    <3> DEFINE a == caller[c].reserved
    <3>1. PICK cost \in Nat :
             /\ cost <= a
             /\ budget' = [budget EXCEPT !.reserved = Lowered(@, a), !.spent = @ + cost]
      BY <2>4, Zenon DEF Returns
    <3>2. ~Holds(t) /\ caller[c].pc \in HeldPcs /\ a \in {0, Estimate} /\ crashes' = crashes
      <4>1. caller[c] \in Threads
        BY <1>0 DEF TypeOK
      <4>2. ~Holds(t) /\ caller[c].pc \in HeldPcs /\ crashes' = crashes
        BY <1>5, <2>4, Zenon DEF Returns, Move
      <4>3. QED
        BY <4>1, <4>2 DEF Threads
    <3>3. /\ budget'.reserved = Lowered(budget.reserved, a)
          /\ budget'.spent = budget.spent + cost /\ budget'.hard = budget.hard
      BY <1>1, <3>1
    <3>4. budget.reserved >= Owned(n) /\ budget.reserved \in Nat /\ budget.spent \in Nat
      BY <1>1 DEF BudgetInv, Backed, Owned
    <3>5. CASE a = 0
      <4>1. Held' = Held /\ m = n
        BY <1>0, <2>1, <3>2, <3>5, HeldStep DEF Holds
      <4>2. budget'.reserved = budget.reserved /\ cost = 0 /\ budget'.spent = budget.spent
        BY <3>1, <3>3, <3>4, <3>5 DEF Lowered
      <4>3. QED
        BY <1>0, <3>2, <3>3, <4>1, <4>2
    <3>6. CASE a # 0
      <4>1. a = Estimate /\ c \in Held /\ Held' = Held \ {c} /\ n = m + 1
        BY <1>0, <2>1, <3>2, <3>6, HeldStep DEF Holds
      <4>2. Owned(n) = Owned(m) + Estimate /\ Owned(m) \in Nat
        BY <1>2, <2>1, <4>1
      <4>3. budget'.reserved = budget.reserved - Estimate
        <5>1. budget.reserved >= Estimate
          BY <1>0, <3>4, <4>2
        <5>2. QED
          BY <1>0, <3>3, <3>4, <4>1, <5>1 DEF Lowered
      <4>4. Orphaned' = Orphaned
        BY <1>0, <3>4, <4>2, <4>3
      <4>5. budget'.spent \in budget.spent..(budget.spent + Estimate)
        BY <1>0, <3>1, <3>3, <3>4, <4>1
      <4>6. Ledger!GiveBack(c)
        BY <1>0, <3>2, <3>3, <4>1, <4>4, <4>5, Zenon DEF Ledger!GiveBack
      <4>7. QED
        BY <4>6
    <3>7. QED
      BY <3>5, <3>6
  <2>5. QED
    BY <1>5, <2>2, <2>3, <2>4 DEF Move
<1>6. ASSUME NEW c \in Callers, Dies(c) PROVE Ledger!Die(c)
  <2>1. IdleThread \in Threads /\ ~Holds(IdleThread)
    BY IdleType DEF Holds, HeldPcs, InFlightPcs, IdleThread
  <2>2. (c \in Held <=> Holds(caller[c])) /\ Held' = Held \ {c} /\ m \in Nat
    BY <1>0, <1>6, <2>1, OwnersStep, HeldStep DEF Dies
  <2>3. c \in Held => n = m + 1
    BY <1>0, <1>6, <2>1, <2>2, HeldStep DEF Dies
  <2>4. c \notin Held => m = n
    BY <1>0, <1>6, <2>1, <2>2, HeldStep DEF Dies
  <2>5. UNCHANGED budget /\ crashes' = crashes + 1
    BY <1>6 DEF Dies
  <2>6. Orphaned' = IF c \in Held THEN Orphaned + Estimate ELSE Orphaned
    BY <1>0, <1>1, <1>2, <2>2, <2>3, <2>4, <2>5
  <2>7. QED
    BY <1>0, <2>2, <2>5, <2>6, Zenon DEF Ledger!Die
<1>7. CASE SetsLimit
  <2>1. /\ budget'.hard \in Limits /\ budget'.hard >= budget.spent + budget.reserved
        /\ budget'.spent = budget.spent /\ budget'.reserved = budget.reserved
        /\ caller' = caller /\ crashes' = crashes
    BY <1>7 DEF SetsLimit
  <2>2. Held' = Held
    BY <2>1 DEF Held, Holders
  <2>3. m = n
    BY <2>2
  <2>4. budget'.hard \in Nat /\ UNCHANGED <<budget.spent, ShareOwners, Orphaned, crashes>>
    BY <1>0, <2>1, <2>2, <2>3, GatewayAssumption
  <2>5. Ledger!SetLimit
    BY <1>3, <2>1, <2>4 DEF Ledger!SetLimit
  <2>6. QED
    BY <2>5 DEF Ledger!Next
<1>8. CASE UNCHANGED <<budget, caller, crashes>>
  BY <1>4, <1>8 DEF ShareOwners, Orphaned, Holders
<1>9. QED
  BY <1>4, <1>5, <1>6, <1>7, <1>8, NextMove DEF Ledger!Next

LEMMA LedgerInit == Init => Ledger!Init
<1> SUFFICES ASSUME Init PROVE Ledger!Init
  OBVIOUS
<1>1. ShareOwners = {}
  BY DEF Init, IdleThread, ShareOwners, Holders, InFlightPcs
<1>2. Cardinality(ShareOwners) = 0 /\ Estimate \in Nat /\ Limits \subseteq Nat
  BY <1>1, FS_EmptySet, GatewayAssumption
<1>3. PICK hard \in Limits :
         budget = [hard |-> hard, enabled |-> TRUE, spent |-> 0, reserved |-> 0]
  BY DEF Init
<1>4. budget.hard \in Nat /\ budget.spent = 0 /\ budget.reserved = 0 /\ crashes = 0
  BY <1>2, <1>3 DEF Init
<1>5. Orphaned = 0
  BY <1>2, <1>4 DEF Orphaned
<1>6. QED
  BY <1>1, <1>4, <1>5 DEF Ledger!Init

\* Under the same assumption the row of the budget is the abstract ledger: every
\* share is set aside before the call it pays for, is given back once, by the
\* attempt that holds it, and is lost only with a process.
THEOREM LedgerImplemented ==
    ASSUME BudgetAssumption
    PROVE  Spec => ImplementsLedger
<1>1. BudgetInv /\ [Next]_vars => BudgetInv'
  BY BudgetStep
<1>2. BudgetInv /\ [Next]_vars => [Ledger!Next]_(Ledger!ledgerVars)
  BY LedgerStep
<1>3. QED
  BY <1>1, <1>2, BudgetInit, LedgerInit, PTL DEF Spec, ImplementsLedger, Ledger!Spec

\* With prices within the estimate, a budget that stays enabled and no failing
\* transaction, the hard limit holds at every moment, for any number of threads
\* in flight and any crashes.
THEOREM HardLimitHolds ==
    ASSUME BudgetAssumption
    PROVE  Spec => []HardLimit
<1>1. BudgetInv /\ [Next]_vars => BudgetInv'
  BY BudgetStep
<1>2. BudgetInv => HardLimit
  BY DEF BudgetInv, HardLimit
<1>3. QED
  BY <1>1, <1>2, BudgetInit, PTL DEF Spec

\* Under the same assumption every call in flight is covered by the project's
\* reservation.
THEOREM CallsAreBacked ==
    ASSUME BudgetAssumption
    PROVE  Spec => []ReservationsBacked
<1>1. BudgetInv /\ [Next]_vars => BudgetInv'
  BY BudgetStep
<1>2. ASSUME BudgetInv PROVE ReservationsBacked
  <2> DEFINE n == Cardinality(Holders(InFlightPcs))
             m == Cardinality(Held)
  <2>1. Holders(InFlightPcs) \in SUBSET Held /\ Held \in SUBSET Callers
    BY DEF Held, Holders, HeldPcs
  <2>2. IsFiniteSet(Held) /\ IsFiniteSet(Holders(InFlightPcs))
    BY <2>1, GatewayAssumption, FS_Subset
  <2>3. n \in Nat /\ m \in Nat /\ n <= m /\ Estimate \in Nat
    BY <2>1, <2>2, FS_Subset, FS_CardinalityType, GatewayAssumption
  <2>4. Estimate * n <= Estimate * m
    <3> DEFINE d == m - n
    <3>1. d \in Nat /\ m = n + d
      BY <2>3
    <3>2. Estimate * (n + d) = Estimate * n + Estimate * d /\ Estimate * d >= 0
      BY <2>3, <3>1
    <3>3. QED
      BY <2>3, <3>1, <3>2
  <2>5. budget.reserved >= Estimate * m /\ budget.reserved \in Nat
    BY <1>2 DEF BudgetInv, Backed, TypeOK
  <2>6. QED
    BY <2>3, <2>4, <2>5 DEF ReservationsBacked
<1>3. QED
  BY <1>1, <1>2, BudgetInit, PTL DEF Spec

\* As long as no process has died, every reservation has an owner: failures,
\* retries and fallbacks all give back what they took.
THEOREM NothingOrphaned ==
    ASSUME BudgetAssumption
    PROVE  Spec => []FailuresRelease
<1> DEFINE Whole == crashes \in Nat /\ (crashes = 0 => Orphaned = 0)
<1>1. ASSUME Init PROVE Whole
  <2>1. Orphaned = 0
    BY <1>1, LedgerInit, Zenon DEF Ledger!Init
  <2>2. QED
    BY <1>1, <2>1 DEF Init
<1>2. ASSUME BudgetInv, Whole, [Next]_vars PROVE Whole'
  <2>1. CASE \E c \in Callers : Ledger!Die(c)
    BY <1>2, <2>1 DEF Ledger!Die
  <2>2. CASE UNCHANGED <<Orphaned, crashes>>
    BY <1>2, <2>2
  <2>3. QED
    BY <1>2, <2>1, <2>2, LedgerStep
       DEF Ledger!Next, Ledger!Hold, Ledger!GiveBack, Ledger!SetLimit, Ledger!ledgerVars
<1>3. ASSUME BudgetInv, Whole PROVE FailuresRelease
  <2> DEFINE owned == Estimate * Cardinality(ShareOwners)
  <2>1. owned \in Nat /\ budget.reserved \in Nat
    <3>1. ShareOwners \in SUBSET Callers
      BY DEF ShareOwners, Holders
    <3>2. Cardinality(ShareOwners) \in Nat /\ Estimate \in Nat
      BY <3>1, GatewayAssumption, FS_Subset, FS_CardinalityType
    <3>3. QED
      BY <1>3, <3>2, Multiples DEF BudgetInv, TypeOK
  <2>2. Orphaned = budget.reserved - owned
    BY DEF Orphaned
  <2> HIDE DEF owned
  <2>3. crashes = 0 => budget.reserved <= owned
    BY <1>3, <2>1, <2>2
  <2>4. QED
    BY <2>3 DEF FailuresRelease, owned, ShareOwners
<1>4. BudgetInv /\ [Next]_vars => BudgetInv'
  BY BudgetStep
<1> HIDE DEF Whole
<1>5. QED
  BY <1>1, <1>2, <1>3, <1>4, BudgetInit, PTL DEF Spec

-----------------------------------------------------------------------------
(***************************************************************************)
(* Keys, bills and calls.  Turn(c, t) is what these three see of a step of *)
(* generate in which the thread c becomes t.                               *)
(***************************************************************************)

\* The provider has answered, and only success is left.
Answered(t) == t.pc \in AnsweredPcs

\* A call that was sent and is not counted on the workflow yet.
Uncounted(t) == t.pc \in {"network", "finish"} \/ (t.pc \in {"release", "audit"} /\ t.row)

\* The ceiling was checked for a call that is not sent yet.
CheckedPcs == {"reserve", "start", "acquire"}

GoesOn(c, t) ==
    /\ UNCHANGED <<record, paid, sent, workflow>>
    /\ t.key = caller[c].key /\ t.pc \notin {"idle", "network", "finish"}
    /\ Answered(caller[c]) => caller[c].pc # "finish" /\ Answered(t)
    /\ Answered(t) => Answered(caller[c])
    /\ caller[c].pc \in {"release", "audit"} => t.pc = "audit" /\ t.row = caller[c].row
    /\ caller[c].pc \in {"acquire", "network"} => t.pc = "release" /\ t.row = caller[c].row
    /\ t.pc \in CheckedPcs => WorkflowRoom \/ caller[c].pc \in CheckedPcs
    /\ t.pc = "acquire" => t.row

Counts(c, t) ==
    /\ UNCHANGED <<record, paid, sent>> /\ workflow'.calls = workflow.calls + 1
    /\ t.key = caller[c].key
    /\ \/ t.pc = "settle" /\ Answered(caller[c])
       \/ t.pc \in {"giveup", "decide"} /\ ~Answered(caller[c])

Sends(c, t) ==
    /\ UNCHANGED <<record, paid, workflow>> /\ sent' = sent + 1
    /\ t.key = caller[c].key /\ caller[c].pc = "acquire" /\ t.pc = "network"
    /\ t.row = caller[c].row

Bills(c, t) ==
    /\ UNCHANGED <<record, sent, workflow>>
    /\ paid' = [paid EXCEPT ![caller[c].key] = @ + 1]
    /\ t.key = caller[c].key /\ caller[c].pc = "network" /\ t.pc = "finish"
    /\ t.row = caller[c].row

Ends(c, t) ==
    /\ UNCHANGED <<paid, sent, workflow>> /\ t = IdleThread
    /\ \/ /\ caller[c].pc \in {"prepare", "audit"} /\ UNCHANGED record
          /\ caller[c].pc = "audit" => ~caller[c].row
       \/ caller[c].pc = "giveup" /\ record' = [record EXCEPT ![caller[c].key] = "failed"]
       \/ caller[c].pc = "succeed" /\ record' = [record EXCEPT ![caller[c].key] = "succeeded"]

Turn(c, t) ==
    /\ t \in Threads /\ SetThread(c, t) /\ caller[c].pc # "idle" /\ UNCHANGED bounds
    /\ GoesOn(c, t) \/ Counts(c, t) \/ Sends(c, t) \/ Bills(c, t) \/ Ends(c, t)

LEMMA TurnTaken ==
    ASSUME TypeOK, NEW c \in Callers, Generate(c)
    PROVE  \E t : Turn(c, t)
<1> DEFINE u == caller[c]
           Same == UNCHANGED <<record, paid, sent, workflow, bounds>>
           To(pc) == [u EXCEPT !.pc = pc]
           Raised(err) == [u EXCEPT !.pc = "release", !.err = err]
<1>0. u \in Threads /\ IdleThread \in Threads
  BY IdleType DEF TypeOK
<1>a. ASSUME NEW pc \in Pcs
      PROVE  /\ To(pc) \in Threads /\ To(pc).pc = pc /\ To(pc).key = u.key /\ To(pc).row = u.row
             /\ Goto(c, pc) => SetThread(c, To(pc))
  BY <1>0 DEF Threads, Goto
<1>b. ASSUME NEW err \in Errors
      PROVE  /\ Raised(err) \in Threads /\ Raised(err).pc = "release"
             /\ Raised(err).key = u.key /\ Raised(err).row = u.row
             /\ Raise(c, err) => SetThread(c, Raised(err))
  BY <1>0 DEF Threads, Pcs, HandlerPcs, Raise
<1> HIDE DEF To, Raised
<1>c. ASSUME NEW retry \in 0..MaxRetries
      PROVE  /\ NextAttempt(c, retry) \in Threads /\ NextAttempt(c, retry).pc = "attempt"
             /\ NextAttempt(c, retry).key = u.key
  <2> DEFINE n == u.n + 1
  <2>1. n \in Nat
    BY <1>0 DEF Threads
  <2> HIDE DEF n
  <2> DEFINE t == [u EXCEPT !.pc = "attempt", !.n = n, !.retry = retry, !.reserved = 0,
                            !.row = FALSE]
  <2>2. t \in Threads /\ t.pc = "attempt" /\ t.key = u.key
    BY <1>0, <2>1 DEF Threads, Pcs, TryPcs
  <2>3. NextAttempt(c, retry) = t
    BY DEF NextAttempt, n
  <2>4. QED
    BY <2>2, <2>3
<1>d. ASSUME NEW t \in Threads, SetThread(c, t), u.pc # "idle", UNCHANGED bounds,
             GoesOn(c, t) \/ Counts(c, t) \/ Sends(c, t) \/ Bills(c, t) \/ Ends(c, t)
      PROVE  \E s : Turn(c, s)
  BY <1>d DEF Turn
\* An exception raised before the provider answered.
<1>e. ASSUME NEW err \in Errors, Raise(c, err), Same,
             u.pc \in {"attempt", "check", "reserve", "start", "acquire", "network"}
      PROVE  \E t : Turn(c, t)
  <2> DEFINE t == Raised(err)
  <2>1. t \in Threads /\ t.pc = "release" /\ t.key = u.key /\ t.row = u.row /\ SetThread(c, t)
    BY <1>b, <1>e
  <2> HIDE DEF t
  <2>3. GoesOn(c, t)
    BY <1>e, <2>1 DEF GoesOn, Answered, AnsweredPcs, CheckedPcs
  <2>4. QED
    BY <1>d, <1>e, <2>1, <2>3
<1>1. CASE Prepare(c)
  <2>1. 0 \in 0..MaxRetries
    BY GatewayAssumption
  <2> DEFINE t == NextAttempt(c, 0)
  <2>2. t \in Threads /\ t.pc = "attempt" /\ t.key = u.key
    BY <1>c, <2>1
  <2>3. u.pc = "prepare" /\ Same /\ SetThread(c, t)
    BY <1>1 DEF Prepare, At, stores, ghosts
  <2> HIDE DEF t
  <2>4. GoesOn(c, t)
    BY <2>2, <2>3 DEF GoesOn, Answered, AnsweredPcs, CheckedPcs
  <2>5. QED
    BY <1>d, <2>2, <2>3, <2>4
<1>2. CASE PreparePrivate(c)
  <2> DEFINE t == [u EXCEPT !.pc = "giveup", !.err = "final"]
  <2>1. u.pc = "prepare" /\ UNCHANGED <<record, paid, sent, bounds>>
    BY <1>2 DEF PreparePrivate, At, ghosts
  <2>2. t \in Threads /\ t.pc = "giveup" /\ t.key = u.key
    BY <1>0 DEF Threads, Pcs, Errors
  <2>3. CASE Escape(c) /\ UNCHANGED workflow
    <3>1. Ends(c, IdleThread) /\ SetThread(c, IdleThread)
      BY <2>1, <2>3 DEF Ends, Escape
    <3>2. QED
      BY <1>0, <1>d, <2>1, <3>1
  <2>4. CASE CountCall(0) /\ SetThread(c, t)
    <3>1. Counts(c, t)
      BY <2>1, <2>2, <2>4 DEF Counts, CountCall, Answered, AnsweredPcs
    <3>2. QED
      BY <1>d, <2>1, <2>2, <2>4, <3>1
  <2>5. QED
    BY <1>2, <2>3, <2>4 DEF PreparePrivate
<1>3. CASE NextCandidate(c)
  <2> DEFINE t == [u EXCEPT !.pc = "prepare", !.ref = @ + 1]
  <2>1. u.pc = "next" /\ Same
    BY <1>3 DEF NextCandidate, At, stores, ghosts
  <2>2. CASE u.err = "final" \/ u.ref = Candidates
    <3>1. SetThread(c, To("giveup")) /\ "giveup" \in Pcs
      BY <1>3, <1>a, <2>2 DEF NextCandidate, Pcs
    <3>2. GoesOn(c, To("giveup"))
      BY <1>a, <2>1, <3>1 DEF GoesOn, Answered, AnsweredPcs, CheckedPcs
    <3>3. QED
      BY <1>a, <1>d, <2>1, <3>1, <3>2
  <2>3. CASE ~(u.err = "final" \/ u.ref = Candidates)
    <3>1. u.ref + 1 \in Refs
      BY <1>0, <2>3, GatewayAssumption DEF Refs, Threads
    <3>2. t \in Threads /\ t.pc = "prepare" /\ t.key = u.key
      BY <1>0, <3>1 DEF Threads, Pcs
    <3>3. SetThread(c, t)
      BY <1>3, <2>3 DEF NextCandidate
    <3>4. GoesOn(c, t)
      BY <2>1, <3>2 DEF GoesOn, Answered, AnsweredPcs, CheckedPcs
    <3>5. QED
      BY <1>d, <2>1, <3>2, <3>3, <3>4
  <2>4. QED
    BY <2>2, <2>3
<1>4. CASE GiveUp(c) \/ Succeed(c)
  <2>1. Ends(c, IdleThread) /\ SetThread(c, IdleThread) /\ u.pc # "idle" /\ UNCHANGED bounds
    BY <1>4 DEF GiveUp, Succeed, Ends, At, ghosts
  <2>2. QED
    BY <1>0, <1>d, <2>1
<1>5. CASE Deadline(c)
  <2> DEFINE t == [u EXCEPT !.pc = "next", !.err = "transient", !.late = TRUE]
  <2>1. t.pc = "next" /\ t \in Threads /\ t.key = u.key
    BY <1>0 DEF Threads, Pcs, Errors
  <2>2. u.pc = "attempt" /\ Same /\ SetThread(c, t)
    BY <1>5 DEF Deadline, At, stores, ghosts
  <2>3. GoesOn(c, t)
    BY <2>1, <2>2 DEF GoesOn, Answered, AnsweredPcs, CheckedPcs
  <2>4. QED
    BY <1>d, <2>1, <2>2, <2>3
<1>6. CASE BeforeCall(c)
  <2>1. u.pc = "attempt" /\ Same
    BY <1>6 DEF BeforeCall, At, ghosts
  <2>2. CASE Goto(c, "check")
    <3>1. SetThread(c, To("check")) /\ "check" \in Pcs
      BY <1>a, <2>2 DEF Pcs, TryPcs
    <3>2. GoesOn(c, To("check"))
      BY <1>a, <2>1, <3>1 DEF GoesOn, Answered, AnsweredPcs, CheckedPcs
    <3>3. QED
      BY <1>a, <1>d, <2>1, <3>1, <3>2
  <2>3. QED
    BY <1>6, <1>e, <2>1, <2>2 DEF BeforeCall, Errors
<1>7. CASE CheckWorkflow(c)
  <2>1. u.pc = "check" /\ Same
    BY <1>7 DEF CheckWorkflow, At, stores, ghosts
  <2>2. CASE Goto(c, "reserve") /\ WorkflowRoom
    <3>1. SetThread(c, To("reserve")) /\ "reserve" \in Pcs
      BY <1>a, <2>2 DEF Pcs, TryPcs
    <3>2. GoesOn(c, To("reserve"))
      BY <1>a, <2>1, <2>2, <3>1 DEF GoesOn, Answered, AnsweredPcs
    <3>3. QED
      BY <1>a, <1>d, <2>1, <3>1, <3>2
  <2>3. QED
    BY <1>7, <1>e, <2>1, <2>2 DEF CheckWorkflow, Errors
<1>8. CASE Reserve(c)
  <2> DEFINE t == [u EXCEPT !.pc = "start", !.reserved = Estimate]
  <2>1. u.pc = "reserve" /\ Same
    BY <1>8 DEF Reserve, At, ghosts
  <2>2. t \in Threads /\ t.pc = "start" /\ t.key = u.key
    BY <1>0 DEF Threads, Pcs, TryPcs
  <2>3. CASE Goto(c, "start")
    <3>1. SetThread(c, To("start")) /\ "start" \in Pcs
      BY <1>a, <2>3 DEF Pcs, TryPcs
    <3>2. GoesOn(c, To("start"))
      BY <1>a, <2>1, <3>1 DEF GoesOn, Answered, AnsweredPcs, CheckedPcs
    <3>3. QED
      BY <1>a, <1>d, <2>1, <3>1, <3>2
  <2>4. CASE SetThread(c, t)
    <3>1. GoesOn(c, t)
      BY <2>1, <2>2 DEF GoesOn, Answered, AnsweredPcs, CheckedPcs
    <3>2. QED
      BY <1>d, <2>1, <2>2, <2>4, <3>1
  <2>5. QED
    BY <1>8, <1>e, <2>1, <2>3, <2>4 DEF Reserve, Errors
<1>9. CASE StartCall(c)
  <2> DEFINE t == [u EXCEPT !.pc = "acquire", !.row = TRUE]
  <2>1. u.pc = "start" /\ Same
    BY <1>9 DEF StartCall, At, ghosts
  <2>2. t \in Threads /\ t.pc = "acquire" /\ t.key = u.key /\ t.row
    BY <1>0 DEF Threads, Pcs, TryPcs
  <2>3. CASE SetThread(c, t)
    <3>1. GoesOn(c, t)
      BY <2>1, <2>2 DEF GoesOn, Answered, AnsweredPcs, CheckedPcs
    <3>2. QED
      BY <1>d, <2>1, <2>2, <2>3, <3>1
  <2>4. QED
    BY <1>9, <1>e, <2>1, <2>3 DEF StartCall, Errors
<1>10. CASE Acquire(c)
  <2>1. u.pc = "acquire" /\ UNCHANGED <<record, paid, workflow, bounds>>
    BY <1>10 DEF Acquire, At
  <2>2. CASE Goto(c, "network") /\ sent' = sent + 1
    <3>1. SetThread(c, To("network")) /\ "network" \in Pcs
      BY <1>a, <2>2 DEF Pcs, TryPcs
    <3>2. Sends(c, To("network"))
      BY <1>a, <2>1, <2>2, <3>1 DEF Sends
    <3>3. QED
      BY <1>a, <1>d, <2>1, <3>1, <3>2
  <2>3. CASE Raise(c, "fallback") /\ UNCHANGED sent
    BY <1>e, <2>1, <2>3 DEF Errors
  <2>4. QED
    BY <1>10, <2>2, <2>3 DEF Acquire
<1>11. CASE Respond(c)
  <2>1. u.pc = "network" /\ UNCHANGED <<record, sent, workflow, bounds>>
    <3>1. At(c, "network")
          /\ UNCHANGED <<budget, workflow, record, audit, circuit, begun, sent, bounds>>
      BY <1>11, Zenon DEF Respond
    <3>2. QED
      BY <3>1 DEF At
  <2>2. ASSUME NEW price \in Prices, paid' = [paid EXCEPT ![u.key] = @ + 1],
               SetThread(c, [u EXCEPT !.pc = "finish", !.price = price])
        PROVE  \E t : Turn(c, t)
    <3> DEFINE t == [u EXCEPT !.pc = "finish", !.price = price]
    <3>1. t \in Threads /\ t.pc = "finish" /\ t.key = u.key /\ t.row = u.row
      BY <1>0 DEF Threads, Pcs, TryPcs
    <3>2. Bills(c, t)
      BY <2>1, <2>2, <3>1 DEF Bills
    <3>3. QED
      BY <1>d, <2>1, <2>2, <3>1, <3>2
  <2>3. ASSUME NEW err \in Errors, Raise(c, err), UNCHANGED paid
        PROVE  \E t : Turn(c, t)
    BY <1>e, <2>1, <2>3
  <2>4. QED
    BY <1>11, <2>2, <2>3, Zenon DEF Respond
<1>12. CASE Finish(c)
  <2>1. u.pc = "finish" /\ UNCHANGED <<record, paid, sent, bounds>>
        /\ SetThread(c, To("settle")) /\ "settle" \in Pcs
    BY <1>12, <1>a DEF Finish, At, ghosts, Pcs, TryPcs
  <2>2. Counts(c, To("settle"))
    BY <1>12, <1>a, <2>1 DEF Counts, Finish, CountCall, Answered, AnsweredPcs
  <2>3. QED
    BY <1>a, <1>d, <2>1, <2>2
<1>13. CASE Settle(c) \/ RecordSuccess(c) \/ Release(c)
  <2> DEFINE to == IF u.pc = "settle" THEN "record"
                   ELSE IF u.pc = "record" THEN "succeed" ELSE "audit"
  <2>1. u.pc \in {"settle", "record", "release"} /\ Same
        /\ SetThread(c, To(to)) /\ to \in Pcs
    BY <1>13, <1>a DEF Settle, RecordSuccess, Release, At, ghosts, Pcs, TryPcs, HandlerPcs
  <2>2. GoesOn(c, To(to))
    BY <1>a, <2>1 DEF GoesOn, Answered, AnsweredPcs, CheckedPcs
  <2>3. QED
    BY <1>a, <1>d, <2>1, <2>2
<1>14. CASE AuditFailure(c)
  <2>1. u.pc = "audit" /\ UNCHANGED <<record, paid, sent, bounds>>
    BY <1>14 DEF AuditFailure, At, ghosts
  <2>2. CASE ~u.row /\ Escape(c) /\ UNCHANGED workflow
    <3>1. Ends(c, IdleThread) /\ SetThread(c, IdleThread)
      BY <2>1, <2>2 DEF Ends, Escape
    <3>2. QED
      BY <1>0, <1>d, <2>1, <3>1
  <2>3. CASE CountCall(0) /\ Goto(c, "decide")
    <3>1. SetThread(c, To("decide")) /\ "decide" \in Pcs
      BY <1>a, <2>3 DEF Pcs, HandlerPcs
    <3>2. Counts(c, To("decide"))
      BY <1>a, <2>1, <2>3, <3>1 DEF Counts, CountCall, Answered, AnsweredPcs
    <3>3. QED
      BY <1>a, <1>d, <2>1, <3>1, <3>2
  <2>4. QED
    BY <1>14, <2>2, <2>3 DEF AuditFailure
<1>15. CASE Decide(c)
  <2>1. u.pc = "decide" /\ Same
    BY <1>15 DEF Decide, At, ghosts
  <2>2. CASE u.err \in {"transient", "throttled"} /\ u.retry < MaxRetries
    <3>1. u.retry + 1 \in 0..MaxRetries
      BY <1>0, <2>2, GatewayAssumption DEF Threads
    <3> DEFINE t == NextAttempt(c, u.retry + 1)
    <3>2. SetThread(c, t)
      BY <1>15, <2>2 DEF Decide
    <3>3. t \in Threads /\ t.pc = "attempt" /\ t.key = u.key
      BY <1>c, <3>1
    <3> HIDE DEF t
    <3>4. GoesOn(c, t)
      BY <2>1, <3>3 DEF GoesOn, Answered, AnsweredPcs, CheckedPcs
    <3>5. QED
      BY <1>d, <2>1, <3>2, <3>3, <3>4
  <2>3. CASE ~(u.err \in {"transient", "throttled"} /\ u.retry < MaxRetries)
    <3>1. SetThread(c, To("next")) /\ "next" \in Pcs
      BY <1>15, <1>a, <2>3 DEF Decide, Pcs
    <3>2. GoesOn(c, To("next"))
      BY <1>a, <2>1, <3>1 DEF GoesOn, Answered, AnsweredPcs, CheckedPcs
    <3>3. QED
      BY <1>a, <1>d, <2>1, <3>1, <3>2
  <2>4. QED
    BY <2>2, <2>3
<1>16. QED
  BY <1>0, <1>1, <1>2, <1>3, <1>4, <1>5, <1>6, <1>7, <1>8, <1>9, <1>10, <1>11, <1>12, <1>13,
     <1>14, <1>15 DEF Generate

\* What a step that is not of generate does to keys, bills and calls.
Surroundings ==
    /\ UNCHANGED <<record, paid, sent, workflow, caller>>
    /\ UNCHANGED <<errors, crashes, dropped>>

Starts(c, k) ==
    /\ Claimable(k) /\ record' = [record EXCEPT ![k] = "active"]
    /\ caller[c].pc = "idle"
    /\ \E t \in Threads : t.pc = "prepare" /\ t.key = k /\ SetThread(c, t)
    /\ UNCHANGED <<paid, sent, workflow, bounds>>

\* A fault of a thread: an error in its database or in Redis that the handler
\* takes up, one that leaves generate, or the thread's death.
Fails(c, t) ==
    /\ t \in Threads /\ SetThread(c, t) /\ t.pc = "release"
    /\ t.key = caller[c].key /\ t.row = caller[c].row
    /\ caller[c].pc \notin {"idle", "network", "release", "audit"}
    /\ dropped' = IF Answered(caller[c])
                  THEN [dropped EXCEPT ![caller[c].key] = @ + 1] ELSE dropped
    /\ errors' = errors + 1 /\ crashes' = crashes
Leaves(c) ==
    /\ SetThread(c, IdleThread) /\ caller[c].pc # "idle"
    /\ dropped' = dropped
    /\ \/ errors' = errors + 1 /\ crashes' = crashes
       \/ errors' = errors /\ crashes' = crashes + 1
Breaks(c) ==
    /\ UNCHANGED <<record, paid, sent, workflow>>
    /\ Leaves(c) \/ \E t : Fails(c, t)

LEMMA NextTurn ==
    ASSUME TypeOK, [Next]_vars
    PROVE  \/ \E c \in Callers, t \in Threads : Turn(c, t)
           \/ \E c \in Callers, k \in Keys : Starts(c, k)
           \/ \E c \in Callers : Breaks(c)
           \/ Surroundings
<1>1. ASSUME NEW c \in Callers, NEW k \in Keys, Begin(c, k) PROVE Starts(c, k)
  <2> DEFINE t == [IdleThread EXCEPT !.pc = "prepare", !.key = k]
  <2>1. t \in Threads /\ t.pc = "prepare" /\ t.key = k
    BY IdleType DEF Threads, Pcs
  <2>2. SetThread(c, t)
    BY <1>1 DEF Begin
  <2> HIDE DEF t
  <2>3. /\ Claimable(k) /\ record' = [record EXCEPT ![k] = "active"] /\ At(c, "idle")
        /\ UNCHANGED <<budget, workflow, audit, circuit, active, paid, sent, bounds>>
    BY <1>1, Zenon DEF Begin
  <2>4. QED
    BY <2>1, <2>2, <2>3 DEF Starts, At
<1>2. ASSUME NEW c \in Callers, Generate(c)
      PROVE  \E t \in Threads : Turn(c, t)
  BY <1>2, TurnTaken DEF Turn
<1>3. ASSUME NEW c \in Callers, Fault(c) PROVE Breaks(c)
  <2>0. caller[c] \in Threads /\ IdleThread \in Threads
    BY IdleType DEF TypeOK
  <2>1. CASE TryError(c)
    <3> DEFINE t == [caller[c] EXCEPT !.pc = "release", !.err = "fallback"]
    <3>1. /\ t \in Threads /\ t.pc = "release" /\ t.key = caller[c].key
          /\ t.row = caller[c].row
      BY <2>0 DEF Threads, Pcs, HandlerPcs, Errors
    <3>2. /\ SetThread(c, t) /\ errors' = errors + 1 /\ caller[c].pc \in TryPcs \ {"network"}
          /\ UNCHANGED <<stores, ghosts, sets, crashes>>
      BY <2>1 DEF TryError, Raise
    <3>3. dropped' = IF Answered(caller[c])
                     THEN [dropped EXCEPT ![caller[c].key] = @ + 1] ELSE dropped
      BY <2>1, Zenon DEF TryError, Answered
    <3> HIDE DEF t
    <3>4. Fails(c, t)
      BY <3>1, <3>2, <3>3 DEF Fails, TryPcs
    <3>5. QED
      BY <3>2, <3>4 DEF Breaks, stores, ghosts
  <2>2. CASE HandlerError(c)
    BY <2>2 DEF HandlerError, Escape, Breaks, Leaves, At, stores, ghosts, HandlerPcs
  <2>3. CASE Crash(c)
    BY <2>3 DEF Crash, Breaks, Leaves, stores, ghosts, At
  <2>4. QED
    BY <1>3, <2>1, <2>2, <2>3 DEF Fault
<1>4. ASSUME NEW r \in Refs, Clock(r) PROVE Surroundings
  BY <1>4, Zenon DEF Clock, Cooldown, CircuitExpires, SlotsExpire, Surroundings, ghosts, bounds
<1>5. ASSUME NEW hard \in Limits, NEW enabled \in Switches, SetBudget(hard, enabled)
      PROVE  Surroundings
  BY <1>5, Zenon DEF SetBudget, Surroundings, ghosts
<1>6. CASE UNCHANGED vars
  BY <1>6 DEF vars, stores, ghosts, bounds, Surroundings
<1>7. QED
  BY <1>1, <1>2, <1>3, <1>4, <1>5, <1>6 DEF Next

-----------------------------------------------------------------------------

KeyInv == TypeOK /\ KeyExclusive

LEMMA KeyPlainly ==
    ASSUME NEW t, NEW c \in Callers, TypeOK, SetThread(c, t)
    PROVE  /\ caller'[c] = t
           /\ \A d \in Callers : d # c => caller'[d] = caller[d]
BY DEF TypeOK, SetThread

LEMMA IdleIsIdle == IdleThread.pc = "idle"
BY DEF IdleThread

LEMMA KeyStep ==
    ASSUME KeyInv, [Next]_vars
    PROVE  KeyInv'
<1>0. /\ TypeOK /\ TypeOK' /\ record \in [Keys -> Statuses]
      /\ \A c \in Callers : caller[c].key \in Keys
      /\ \A c \in Callers : caller[c].pc # "idle" =>
            /\ record[caller[c].key] = "active"
            /\ \A d \in Callers \ {c} :
                  caller[d].pc # "idle" => caller[d].key # caller[c].key
  <2>1. \A c \in Callers : caller[c] \in Threads
    BY DEF KeyInv, TypeOK
  <2>2. QED
    BY <2>1, TypeStep DEF KeyInv, KeyExclusive, At, TypeOK, Threads
<1>q. ASSUME \A c \in Callers : caller'[c].pc # "idle" =>
                /\ record'[caller'[c].key] = "active"
                /\ \A d \in Callers \ {c} :
                      caller'[d].pc # "idle" => caller'[d].key # caller'[c].key
      PROVE  KeyInv'
  BY <1>0, <1>q DEF KeyInv, KeyExclusive, At
\* The thread stays with its key and with its record.
<1>1. ASSUME NEW c \in Callers, NEW t, SetThread(c, t), UNCHANGED record,
             t.pc = "idle" \/ (caller[c].pc # "idle" /\ t.key = caller[c].key)
      PROVE  KeyInv'
  <2>1. caller'[c] = t /\ \A d \in Callers : d # c => caller'[d] = caller[d]
    BY <1>0, <1>1, KeyPlainly
  <2>2. QED
    BY <1>0, <1>1, <1>q, <2>1
<1>2. ASSUME NEW c \in Callers, NEW t \in Threads, Turn(c, t) PROVE KeyInv'
  <2>1. CASE GoesOn(c, t) \/ Counts(c, t) \/ Sends(c, t) \/ Bills(c, t)
    <3>1. SetThread(c, t) /\ UNCHANGED record /\ caller[c].pc # "idle" /\ t.key = caller[c].key
      BY <1>2, <2>1 DEF Turn, GoesOn, Counts, Sends, Bills
    <3>2. QED
      BY <1>1, <3>1
  <2>2. CASE Ends(c, t)
    <3>1. /\ t.pc = "idle" /\ caller[c].pc # "idle"
          /\ \/ UNCHANGED record
             \/ \E status : record' = [record EXCEPT ![caller[c].key] = status]
      BY <1>2, <2>2, IdleIsIdle DEF Turn, Ends
    <3>2. caller'[c] = t /\ \A d \in Callers : d # c => caller'[d] = caller[d]
      BY <1>0, <1>2, KeyPlainly DEF Turn
    <3>3. \A k \in Keys : k # caller[c].key => record'[k] = record[k]
      BY <1>0, <3>1
    <3>4. QED
      BY <1>0, <1>q, <3>1, <3>2, <3>3
  <2>3. QED
    BY <1>2, <2>1, <2>2 DEF Turn
<1>3. ASSUME NEW c \in Callers, NEW k \in Keys, Starts(c, k) PROVE KeyInv'
  <2>1. PICK t \in Threads : t.pc = "prepare" /\ t.key = k /\ SetThread(c, t)
    BY <1>3 DEF Starts
  <2>2. caller'[c] = t /\ \A d \in Callers : d # c => caller'[d] = caller[d]
    BY <1>0, <2>1, KeyPlainly
  <2>3. record[k] # "active" /\ record'[k] = "active"
        /\ \A j \in Keys : j # k => record'[j] = record[j]
    BY <1>0, <1>3 DEF Starts, Claimable
  <2>4. \A d \in Callers : caller[d].pc # "idle" => caller[d].key # k
    BY <1>0, <2>3
  <2>5. QED
    BY <1>0, <1>q, <2>1, <2>2, <2>3, <2>4
<1>4. ASSUME NEW c \in Callers, Breaks(c) PROVE KeyInv'
  <2>1. CASE Leaves(c)
    BY <1>1, <1>4, <2>1, IdleIsIdle DEF Breaks, Leaves
  <2>2. ASSUME NEW t, Fails(c, t) PROVE KeyInv'
    BY <1>1, <1>4, <2>2 DEF Breaks, Fails
  <2>3. QED
    BY <1>4, <2>1, <2>2 DEF Breaks
<1>5. CASE Surroundings
  BY <1>0, <1>5, <1>q DEF Surroundings
<1>6. QED
  BY <1>0, <1>2, <1>3, <1>4, <1>5, NextTurn

LEMMA KeyInit == Init => KeyInv
<1>1. Init => KeyExclusive
  BY IdleIsIdle DEF Init, KeyExclusive, At
<1>2. QED
  BY <1>1, InitType DEF KeyInv

\* The durable claim excludes: no two threads ever work on one key, whatever
\* crashes, errors, retries and fallbacks there are; the claim of a thread
\* that died is never taken over.
THEOREM KeysAreExclusive == Spec => []KeyExclusive
<1>1. KeyInv => KeyExclusive
  BY DEF KeyInv
<1>2. KeyInv /\ [Next]_vars => KeyInv'
  BY KeyStep
<1>3. QED
  BY <1>1, <1>2, KeyInit, PTL DEF Spec

-----------------------------------------------------------------------------

\* A key that was billed, and whose last answer no error undid, has succeeded,
\* or the thread that works on it has only its own success to record; a thread
\* that died in between leaves the claim active, so that nobody repeats the
\* call.
BilledKey(k) ==
    /\ paid[k] <= 1 + dropped[k]
    /\ paid[k] = 1 + dropped[k] =>
          /\ record[k] \in {"active", "succeeded"}
          /\ \A c \in Callers : caller[c].pc # "idle" /\ caller[c].key = k => Answered(caller[c])

PaidInv == KeyInv /\ \A k \in Keys : BilledKey(k)

LEMMA PaidStep ==
    ASSUME PaidInv, [Next]_vars
    PROVE  PaidInv'
<1>0. /\ KeyInv /\ KeyInv' /\ TypeOK /\ record \in [Keys -> Statuses]
      /\ paid \in [Keys -> Nat] /\ dropped \in [Keys -> Nat]
      /\ \A c \in Callers : caller[c].key \in Keys
      /\ \A c, d \in Callers : caller[c].pc # "idle" /\ caller[d].pc # "idle"
            /\ caller[d].key = caller[c].key => d = c
      /\ \A c \in Callers : caller[c].pc # "idle" => record[caller[c].key] = "active"
  <2>1. \A c \in Callers : caller[c] \in Threads
    BY DEF PaidInv, KeyInv, TypeOK
  <2>2. KeyInv' /\ KeyInv
    BY KeyStep DEF PaidInv
  <2>3. QED
    BY <2>1, <2>2 DEF KeyInv, KeyExclusive, At, TypeOK, Threads
<1> SUFFICES ASSUME NEW k \in Keys
             PROVE  BilledKey(k)'
  BY <1>0 DEF PaidInv
<1>a. BilledKey(k) /\ paid[k] \in Nat /\ dropped[k] \in Nat
  BY <1>0 DEF PaidInv
<1>1. ASSUME NEW c \in Callers, NEW t \in Threads, Turn(c, t) PROVE BilledKey(k)'
  <2>0. /\ caller'[c] = t /\ \A d \in Callers : d # c => caller'[d] = caller[d]
        /\ BilledKey(k) /\ caller[c].pc # "idle" /\ dropped' = dropped
    BY <1>0, <1>1, <1>a, KeyPlainly DEF Turn, bounds
  <2>1. CASE GoesOn(c, t) \/ Counts(c, t) \/ Sends(c, t)
    <3>1. /\ UNCHANGED <<record, paid>> /\ t.key = caller[c].key
          /\ Answered(caller[c]) => Answered(t)
      BY <2>1 DEF GoesOn, Counts, Sends, Answered, AnsweredPcs
    <3>2. QED
      BY <2>0, <3>1 DEF BilledKey
  <2>2. CASE Bills(c, t)
    <3>1. /\ UNCHANGED record /\ t.key = caller[c].key /\ Answered(t) /\ ~Answered(caller[c])
          /\ paid' = [paid EXCEPT ![caller[c].key] = @ + 1]
      BY <2>2 DEF Bills, Answered, AnsweredPcs
    <3>2. CASE k # caller[c].key
      BY <1>0, <2>0, <3>1, <3>2 DEF BilledKey
    <3>3. CASE k = caller[c].key
      <4>1. paid[k] <= dropped[k] /\ paid'[k] = paid[k] + 1
        BY <1>0, <1>a, <2>0, <3>1, <3>3 DEF BilledKey
      <4>2. record'[k] = "active"
        BY <1>0, <2>0, <3>1, <3>3
      <4>3. \A d \in Callers : caller'[d].pc # "idle" /\ caller'[d].key = k => d = c
        BY <1>0, <2>0, <3>3
      <4>4. QED
        BY <1>a, <2>0, <3>1, <4>1, <4>2, <4>3 DEF BilledKey
    <3>4. QED
      BY <3>2, <3>3
  <2>3. CASE Ends(c, t)
    <3>1. /\ UNCHANGED paid /\ t.pc = "idle"
          /\ \/ ~Answered(caller[c])
                /\ (UNCHANGED record \/ record' = [record EXCEPT ![caller[c].key] = "failed"])
             \/ record' = [record EXCEPT ![caller[c].key] = "succeeded"]
      BY <2>3, IdleIsIdle DEF Ends, Answered, AnsweredPcs
    <3>2. CASE paid[k] = 1 + dropped[k]
      <4>1. record'[k] \in {"active", "succeeded"}
        BY <1>0, <2>0, <3>1, <3>2 DEF BilledKey
      <4>2. QED
        BY <2>0, <3>1, <4>1 DEF BilledKey
    <3>3. CASE paid[k] # 1 + dropped[k]
      BY <2>0, <3>1, <3>3 DEF BilledKey
    <3>4. QED
      BY <3>2, <3>3
  <2>4. QED
    BY <1>1, <2>1, <2>2, <2>3 DEF Turn
<1>2. ASSUME NEW c \in Callers, NEW j \in Keys, Starts(c, j) PROVE BilledKey(k)'
  <2>1. PICK t \in Threads : t.pc = "prepare" /\ t.key = j /\ SetThread(c, t)
    BY <1>2 DEF Starts
  <2>2. caller'[c] = t /\ \A d \in Callers : d # c => caller'[d] = caller[d]
    BY <1>0, <2>1, KeyPlainly
  <2>3. /\ record[j] \notin {"active", "succeeded"} /\ record' = [record EXCEPT ![j] = "active"]
        /\ UNCHANGED <<paid, dropped>> /\ BilledKey(k)
    BY <1>2, <1>a DEF Starts, Claimable, bounds
  <2>4. CASE k = j
    <3>1. paid[k] # 1 + dropped[k]
      BY <2>3, <2>4 DEF BilledKey
    <3>2. QED
      BY <2>3, <3>1 DEF BilledKey
  <2>5. CASE k # j
    BY <1>0, <2>1, <2>2, <2>3, <2>5 DEF BilledKey
  <2>6. QED
    BY <2>4, <2>5
<1>3. ASSUME NEW c \in Callers, Breaks(c) PROVE BilledKey(k)'
  <2>1. CASE Leaves(c)
    <3>1. SetThread(c, IdleThread) /\ UNCHANGED <<record, paid, dropped>>
      BY <1>3, <2>1 DEF Breaks, Leaves
    <3>2. caller'[c].pc = "idle" /\ \A d \in Callers : d # c => caller'[d] = caller[d]
      BY <1>0, <3>1, KeyPlainly, IdleIsIdle
    <3>3. QED
      BY <1>a, <3>1, <3>2 DEF BilledKey
  <2>2. ASSUME NEW t, Fails(c, t) PROVE BilledKey(k)'
    <3>1. /\ caller'[c] = t /\ \A d \in Callers : d # c => caller'[d] = caller[d]
          /\ caller[c].pc # "idle" /\ t.key = caller[c].key
          /\ UNCHANGED <<record, paid>>
      BY <1>0, <1>3, <2>2, KeyPlainly DEF Breaks, Fails
    <3>2. CASE Answered(caller[c]) /\ caller[c].key = k
      <4>1. dropped'[k] = dropped[k] + 1
        BY <1>0, <2>2, <3>2 DEF Fails
      <4>2. paid'[k] <= dropped'[k]
        BY <1>a, <3>1, <4>1 DEF BilledKey
      <4>3. QED
        BY <1>a, <3>1, <4>1, <4>2 DEF BilledKey
    <3>3. CASE ~Answered(caller[c]) /\ caller[c].key = k
      <4>1. dropped' = dropped /\ paid[k] # 1 + dropped[k]
        BY <1>a, <2>2, <3>1, <3>3 DEF Fails, BilledKey
      <4>2. QED
        BY <1>a, <3>1, <4>1 DEF BilledKey
    <3>4. CASE caller[c].key # k
      <4>1. dropped'[k] = dropped[k]
        BY <1>0, <2>2, <3>4 DEF Fails
      <4>2. QED
        BY <1>a, <3>1, <3>4, <4>1 DEF BilledKey
    <3>5. QED
      BY <3>2, <3>3, <3>4
  <2>3. QED
    BY <1>3, <2>1, <2>2 DEF Breaks
<1>4. CASE Surroundings
  BY <1>4, <1>a DEF Surroundings, BilledKey
<1>5. QED
  BY <1>0, <1>1, <1>2, <1>3, <1>4, NextTurn

\* Whatever crashes, retries, fallbacks and errors there are: a key is billed
\* once more only for an answer whose bookkeeping an error undid, which the
\* handler takes for a failed call.
THEOREM AnswersArePaidOnce == Spec => []PaidOnce
<1>1. Init => PaidInv
  <2>1. Init => \A k \in Keys : BilledKey(k)
    BY IdleIsIdle DEF Init, BilledKey
  <2>2. QED
    BY <2>1, KeyInit DEF PaidInv
<1>2. PaidInv => PaidOnce
  BY DEF PaidInv, PaidOnce, BilledKey
<1>3. PaidInv /\ [Next]_vars => PaidInv'
  BY PaidStep
<1>4. QED
  BY <1>1, <1>2, <1>3, PTL DEF Spec

-----------------------------------------------------------------------------

\* The threads between the check of the ceiling and the call, and those whose
\* call is sent or may have been and is not counted yet.
Checked == {c \in Callers : caller[c].pc \in CheckedPcs}
Sending == {c \in Callers : Uncounted(caller[c])}
Lost == errors + crashes

\* What was sent is counted, about to be, or lost; a check finds room for the
\* call of its own thread, next to those the other threads have checked or sent.
CeilingInv ==
    /\ TypeOK
    /\ \A c \in Callers : caller[c].pc \in {"acquire", "network", "finish"} => caller[c].row
    /\ sent <= workflow.calls + Cardinality(Sending) + Lost
    /\ sent + Cardinality(Checked) <= WorkflowMaxCalls + (Cardinality(Callers) - 1) + Lost

\* Two sets of threads that differ in one thread at most.
LEMMA OneThread ==
    ASSUME NEW c \in Callers, NEW S \in SUBSET Callers, NEW T \in SUBSET Callers,
           \A d \in Callers \ {c} : d \in T <=> d \in S
    PROVE  /\ Cardinality(S) \in Nat /\ Cardinality(T) \in Nat
           /\ (c \in S <=> c \in T) => Cardinality(T) = Cardinality(S)
           /\ c \in T /\ c \notin S => Cardinality(T) = Cardinality(S) + 1
           /\ c \in S /\ c \notin T => Cardinality(S) = Cardinality(T) + 1
<1>1. IsFiniteSet(S) /\ IsFiniteSet(T) /\ Cardinality(S) \in Nat /\ Cardinality(T) \in Nat
  BY GatewayAssumption, FS_Subset, FS_CardinalityType
<1>2. CASE c \in S <=> c \in T
  <2>1. S = T
    BY <1>2
  <2>2. QED
    BY <1>1, <1>2, <2>1
<1>3. CASE c \in T /\ c \notin S
  <2>1. T = S \cup {c}
    BY <1>3
  <2>2. Cardinality(T) = Cardinality(S) + 1
    BY <1>1, <1>3, <2>1, FS_AddElement
  <2>3. QED
    BY <1>1, <1>3, <2>2
<1>4. CASE c \in S /\ c \notin T
  <2>1. S = T \cup {c}
    BY <1>4
  <2>2. Cardinality(S) = Cardinality(T) + 1
    BY <1>1, <1>4, <2>1, FS_AddElement
  <2>3. QED
    BY <1>1, <1>4, <2>2
<1>5. QED
  BY <1>2, <1>3, <1>4

\* A thread that has neither checked nor sent leaves room for itself.
LEMMA RoomForOne ==
    ASSUME NEW c \in Callers, c \notin Checked, c \notin Sending
    PROVE  Cardinality(Checked) + Cardinality(Sending) <= Cardinality(Callers) - 1
<1>1. Checked \in SUBSET Callers /\ Sending \in SUBSET Callers /\ Checked \cap Sending = {}
  BY DEF Checked, Sending, Uncounted, CheckedPcs
<1> HIDE DEF Checked, Sending
<1>2. IsFiniteSet(Checked) /\ IsFiniteSet(Sending) /\ IsFiniteSet(Callers)
  BY <1>1, GatewayAssumption, FS_Subset
<1>3. Cardinality(Checked \cup Sending) = Cardinality(Checked) + Cardinality(Sending)
  <2>1. /\ IsFiniteSet(Checked \cap Sending)
        /\ Cardinality(Checked \cup Sending) = Cardinality(Checked) + Cardinality(Sending)
                                               - Cardinality(Checked \cap Sending)
    BY <1>2, FS_Union, FS_Intersection
  <2>2. Cardinality(Checked \cap Sending) = 0
    BY <1>1, FS_EmptySet
  <2>3. Cardinality(Checked) \in Nat /\ Cardinality(Sending) \in Nat
    BY <1>2, FS_CardinalityType
  <2>4. QED
    BY <2>1, <2>2, <2>3
<1>4. Checked \cup Sending \in SUBSET (Callers \ {c})
  BY <1>1
<1>5. /\ IsFiniteSet(Callers \ {c})
      /\ Cardinality(Callers \ {c}) = Cardinality(Callers) - 1
  BY <1>2, FS_RemoveElement
<1>6. Cardinality(Checked \cup Sending) <= Cardinality(Callers \ {c})
  BY <1>4, <1>5, FS_Subset
<1>7. QED
  BY <1>3, <1>5, <1>6

LEMMA CeilingStep ==
    ASSUME CeilingInv, [Next]_vars
    PROVE  CeilingInv'
<1> DEFINE a == Cardinality(Checked)
           u == Cardinality(Sending)
           n == Cardinality(Callers)
           ap == Cardinality(Checked')
           up == Cardinality(Sending')
           Rowed == \A c \in Callers :
                       caller[c].pc \in {"acquire", "network", "finish"} => caller[c].row
           M == WorkflowMaxCalls
           w == workflow.calls
<1>0. /\ TypeOK /\ TypeOK' /\ Rowed
      /\ sent \in Nat /\ w \in Nat /\ Lost \in Nat /\ M \in Nat /\ n \in Nat
      /\ a \in Nat /\ u \in Nat /\ ap \in Nat /\ up \in Nat
      /\ sent <= w + u + Lost /\ sent + a <= M + (n - 1) + Lost
  <2>1. TypeOK /\ TypeOK'
    BY TypeStep DEF CeilingInv
  <2>2. errors \in Nat /\ crashes \in Nat
    BY <2>1, GatewayAssumption DEF TypeOK
  <2>3. Lost \in Nat
    BY <2>2 DEF Lost
  <2>4. /\ Checked \in SUBSET Callers /\ Sending \in SUBSET Callers
        /\ Checked' \in SUBSET Callers /\ Sending' \in SUBSET Callers
    BY DEF Checked, Sending
  <2>5. n \in Nat /\ a \in Nat /\ u \in Nat /\ ap \in Nat /\ up \in Nat
    BY <2>4, GatewayAssumption, FS_Subset, FS_CardinalityType
  <2>6. QED
    BY <2>1, <2>3, <2>5, GatewayAssumption DEF TypeOK, CeilingInv
<1> HIDE DEF a, u, n, M
<1>q. ASSUME Rowed', sent' <= w' + up + Lost', sent' + ap <= M + (n - 1) + Lost'
      PROVE  CeilingInv'
  BY <1>0, <1>q DEF CeilingInv, a, u, n, M
<1>m. ASSUME NEW c \in Callers, NEW t, SetThread(c, t)
      PROVE  /\ caller'[c] = t /\ \A d \in Callers : d # c => caller'[d] = caller[d]
             /\ (Uncounted(caller[c]) <=> Uncounted(t)) => up = u
             /\ ~Uncounted(caller[c]) /\ Uncounted(t) => up = u + 1
             /\ Uncounted(caller[c]) /\ ~Uncounted(t) => u = up + 1
             /\ (caller[c].pc \in CheckedPcs <=> t.pc \in CheckedPcs) => ap = a
             /\ caller[c].pc \notin CheckedPcs /\ t.pc \in CheckedPcs => ap = a + 1
             /\ caller[c].pc \in CheckedPcs /\ t.pc \notin CheckedPcs => a = ap + 1
  <2>1. caller'[c] = t /\ \A d \in Callers : d # c => caller'[d] = caller[d]
    BY <1>0, <1>m, KeyPlainly
  <2>2. /\ Checked \in SUBSET Callers /\ Checked' \in SUBSET Callers
        /\ Sending \in SUBSET Callers /\ Sending' \in SUBSET Callers
    BY DEF Checked, Sending
  <2>3. /\ (c \in Checked <=> caller[c].pc \in CheckedPcs)
        /\ (c \in Checked' <=> t.pc \in CheckedPcs)
        /\ \A d \in Callers \ {c} : d \in Checked' <=> d \in Checked
    BY <2>1 DEF Checked
  <2>4. /\ (c \in Sending <=> Uncounted(caller[c])) /\ (c \in Sending' <=> Uncounted(t))
        /\ \A d \in Callers \ {c} : d \in Sending' <=> d \in Sending
    BY <2>1 DEF Sending, Uncounted
  <2> HIDE DEF Checked, Sending, Uncounted, CheckedPcs
  <2>5. /\ (c \in Checked <=> c \in Checked') => ap = a
        /\ c \notin Checked /\ c \in Checked' => ap = a + 1
        /\ c \in Checked /\ c \notin Checked' => a = ap + 1
    BY <2>2, <2>3, OneThread DEF a
  <2>6. /\ (c \in Sending <=> c \in Sending') => up = u
        /\ c \notin Sending /\ c \in Sending' => up = u + 1
        /\ c \in Sending /\ c \notin Sending' => u = up + 1
    BY <2>2, <2>4, OneThread DEF u
  <2>7. QED
    BY <2>1, <2>3, <2>4, <2>5, <2>6
<1> HIDE DEF ap, up
<1>1. ASSUME NEW c \in Callers, NEW t \in Threads, Turn(c, t) PROVE CeilingInv'
  <2>0. SetThread(c, t) /\ Lost' = Lost
    BY <1>1 DEF Turn, bounds, Lost
  <2>r. ASSUME t.pc \in {"acquire", "network", "finish"} => t.row PROVE Rowed'
    BY <1>0, <1>m, <2>0, <2>r
  <2>1. CASE GoesOn(c, t)
    <3>1. /\ UNCHANGED <<sent, workflow>> /\ (Uncounted(caller[c]) => Uncounted(t))
          /\ t.pc \in {"acquire", "network", "finish"} => t.row
          /\ t.pc \in CheckedPcs => ~Uncounted(t)
          /\ t.pc \in CheckedPcs => w + 1 <= M \/ caller[c].pc \in CheckedPcs
      <4>1. t.pc \in CheckedPcs => WorkflowRoom \/ caller[c].pc \in CheckedPcs
        BY <2>1 DEF GoesOn
      <4>2. Uncounted(caller[c]) => Uncounted(t)
        BY <1>0, <2>1 DEF GoesOn, Uncounted, Answered, AnsweredPcs
      <4>3. UNCHANGED <<sent, workflow>>
            /\ (t.pc \in {"acquire", "network", "finish"} => t.row)
        BY <2>1 DEF GoesOn
      <4>4. t.pc \in CheckedPcs => ~Uncounted(t)
        BY DEF CheckedPcs, Uncounted
      <4>5. QED
        BY <4>1, <4>2, <4>3, <4>4 DEF WorkflowRoom, M
    <3>2. u <= up
      BY <1>0, <1>m, <2>0, <3>1
    <3>3. sent + ap <= M + (n - 1) + Lost
      <4>1. CASE t.pc \in CheckedPcs /\ caller[c].pc \notin CheckedPcs
        <5>1. a + u <= n - 1
          <6>1. c \notin Checked /\ c \notin Sending
            BY <3>1, <4>1 DEF Checked, Sending
          <6>2. QED
            BY <6>1, RoomForOne DEF a, u, n
        <5>2. ap = a + 1 /\ w + 1 <= M
          BY <1>m, <2>0, <3>1, <4>1
        <5>3. QED
          BY <1>0, <5>1, <5>2
      <4>2. CASE ~(t.pc \in CheckedPcs /\ caller[c].pc \notin CheckedPcs)
        <5>1. ap <= a
          BY <1>0, <1>m, <2>0, <4>2
        <5>2. QED
          BY <1>0, <5>1
      <4>3. QED
        BY <4>1, <4>2
    <3>4. QED
      BY <1>0, <1>q, <2>0, <2>r, <3>1, <3>2, <3>3
  <2>2. CASE Counts(c, t)
    <3>1. /\ sent' = sent /\ w' = w + 1
          /\ t.pc \in {"settle", "giveup", "decide"}
      BY <2>2 DEF Counts
    <3>2. ~Uncounted(t) /\ t.pc \notin CheckedPcs
      BY <3>1 DEF Uncounted, CheckedPcs
    <3>3. u <= up + 1 /\ ap <= a
      BY <1>0, <1>m, <2>0, <3>2
    <3>4. QED
      BY <1>0, <1>q, <2>0, <2>r, <3>1, <3>3
  <2>3. CASE Sends(c, t)
    <3>1. /\ w' = w /\ sent' = sent + 1
          /\ caller[c].pc = "acquire" /\ t.pc = "network" /\ t.row
      BY <1>0, <2>3 DEF Sends
    <3>2. Uncounted(t) /\ ~Uncounted(caller[c]) /\ caller[c].pc \in CheckedPcs
          /\ t.pc \notin CheckedPcs
      BY <3>1 DEF Uncounted, CheckedPcs
    <3>3. up = u + 1 /\ a = ap + 1
      BY <1>m, <2>0, <3>2
    <3>4. QED
      BY <1>0, <1>q, <2>0, <2>r, <3>1, <3>3
  <2>4. CASE Bills(c, t)
    <3>1. w' = w /\ sent' = sent /\ caller[c].pc = "network" /\ t.pc = "finish" /\ t.row
      BY <1>0, <2>4 DEF Bills
    <3>2. Uncounted(t) /\ Uncounted(caller[c]) /\ t.pc \notin CheckedPcs
          /\ caller[c].pc \notin CheckedPcs
      BY <3>1 DEF Uncounted, CheckedPcs
    <3>3. up = u /\ ap = a
      BY <1>m, <2>0, <3>2
    <3>4. QED
      BY <1>0, <1>q, <2>0, <2>r, <3>1, <3>3
  <2>5. CASE Ends(c, t)
    <3>1. w' = w /\ sent' = sent /\ t.pc = "idle" /\ ~Uncounted(caller[c])
      BY <2>5, IdleIsIdle DEF Ends, Uncounted
    <3>2. ~Uncounted(t) /\ t.pc \notin CheckedPcs
      BY <3>1 DEF Uncounted, CheckedPcs
    <3>3. up = u /\ ap <= a
      BY <1>0, <1>m, <2>0, <3>1, <3>2
    <3>4. QED
      BY <1>0, <1>q, <2>0, <2>r, <3>1, <3>3
  <2>6. QED
    BY <1>1, <2>1, <2>2, <2>3, <2>4, <2>5 DEF Turn
<1>2. ASSUME NEW c \in Callers, NEW k \in Keys, Starts(c, k) PROVE CeilingInv'
  <2>1. PICK t \in Threads : t.pc = "prepare" /\ t.key = k /\ SetThread(c, t)
    BY <1>2 DEF Starts
  <2>2. w' = w /\ sent' = sent /\ Lost' = Lost /\ caller[c].pc = "idle"
    BY <1>2 DEF Starts, bounds, Lost
  <2>3. ~Uncounted(t) /\ t.pc \notin CheckedPcs /\ ~Uncounted(caller[c])
        /\ caller[c].pc \notin CheckedPcs
    BY <2>1, <2>2 DEF Uncounted, CheckedPcs
  <2>4. up = u /\ ap = a /\ Rowed'
    BY <1>0, <1>m, <2>1, <2>3
  <2>5. QED
    BY <1>0, <1>q, <2>2, <2>4
<1>3. ASSUME NEW c \in Callers, Breaks(c) PROVE CeilingInv'
  <2>1. PICK t : SetThread(c, t) /\ t.pc \in {"idle", "release"}
    BY <1>3, IdleIsIdle DEF Breaks, Leaves, Fails
  <2>2. w' = w /\ sent' = sent /\ Lost' = Lost + 1
    <3>1. /\ UNCHANGED <<sent, workflow>>
          /\ \/ errors' = errors + 1 /\ crashes' = crashes
             \/ errors' = errors /\ crashes' = crashes + 1
      BY <1>3 DEF Breaks, Leaves, Fails
    <3>2. errors \in Nat /\ crashes \in Nat
      BY <1>0, GatewayAssumption DEF TypeOK
    <3>3. QED
      BY <3>1, <3>2 DEF Lost
  <2>3. t.pc \notin CheckedPcs
    BY <2>1 DEF CheckedPcs
  <2>4. u <= up + 1 /\ ap <= a /\ Rowed'
    BY <1>0, <1>m, <2>1, <2>3
  <2>5. QED
    BY <1>0, <1>q, <2>2, <2>4
<1>4. CASE Surroundings
  <2>1. /\ sent' = sent /\ w' = w /\ Lost' = Lost /\ caller' = caller
    BY <1>4 DEF Surroundings, Lost
  <2>2. Checked' = Checked /\ Sending' = Sending /\ Rowed'
    BY <1>0, <2>1 DEF Checked, Sending, Uncounted
  <2>3. ap = a /\ up = u
    BY <2>2 DEF ap, a, up, u
  <2>4. QED
    BY <1>0, <1>q, <2>1, <2>2, <2>3
<1>5. QED
  BY <1>0, <1>1, <1>2, <1>3, <1>4, NextTurn

\* check_workflow bounds the calls really sent, for any number of threads: its
\* check and its count are two transactions, and what the other threads have
\* checked or sent in between is all that can be sent beyond the ceiling.
THEOREM CeilingHolds == Spec => []WorkflowCeiling
<1>1. Init => CeilingInv
  <2> SUFFICES ASSUME Init PROVE CeilingInv
    OBVIOUS
  <2>1. Checked = {} /\ Sending = {}
    BY IdleIsIdle DEF Init, Checked, Sending, Uncounted, CheckedPcs
  <2>2. Cardinality(Checked) = 0 /\ Cardinality(Sending) = 0
    BY <2>1, FS_EmptySet
  <2>3. Cardinality(Callers) \in Nat /\ Cardinality(Callers) # 0
    BY GatewayAssumption, FS_CardinalityType, FS_EmptySet
  <2>4. sent = 0 /\ workflow.calls = 0 /\ Lost = 0
    BY DEF Init, Lost
  <2>5. \A c \in Callers : caller[c].pc = "idle"
    BY IdleIsIdle DEF Init
  <2>6. QED
    BY <2>2, <2>3, <2>4, <2>5, InitType, GatewayAssumption DEF CeilingInv
<1>2. CeilingInv => WorkflowCeiling
  <2> SUFFICES ASSUME CeilingInv PROVE WorkflowCeiling
    OBVIOUS
  <2>1. Checked \in SUBSET Callers
    BY DEF Checked
  <2>2. /\ Cardinality(Checked) \in Nat /\ Cardinality(Callers) \in Nat
        /\ sent \in Nat /\ WorkflowMaxCalls \in Nat /\ errors \in Nat /\ crashes \in Nat
    BY <2>1, GatewayAssumption, FS_Subset, FS_CardinalityType DEF CeilingInv, TypeOK
  <2>3. sent + Cardinality(Checked)
           <= WorkflowMaxCalls + (Cardinality(Callers) - 1) + (errors + crashes)
    BY DEF CeilingInv, Lost
  <2> HIDE DEF Checked
  <2>4. QED
    BY <2>2, <2>3 DEF WorkflowCeiling
<1>3. CeilingInv /\ [Next]_vars => CeilingInv'
  BY CeilingStep
<1>4. QED
  BY <1>1, <1>2, <1>3, PTL DEF Spec

-----------------------------------------------------------------------------
(***************************************************************************)
(* The limiter: the counter of a model is never below the calls that are   *)
(* on the network to it, also when a process takes its count along.        *)
(***************************************************************************)

OnNetwork(r) == {c \in Callers : At(c, "network") /\ caller[c].ref = r}
Connected(t, r) == t.pc = "network" /\ t.ref = r

SlotOf(r) == active[r] <= MaxConcurrency /\ Cardinality(OnNetwork(r)) <= active[r]
SlotInv == TypeOK /\ \A r \in Refs : SlotOf(r)

\* The calls to a model when one thread changes.
LEMMA ConnectedStep ==
    ASSUME TypeOK, NEW c \in Callers, NEW t, SetThread(c, t), NEW r \in Refs
    PROVE  LET n == Cardinality(OnNetwork(r))
               m == Cardinality(OnNetwork(r)')
           IN  /\ n \in Nat /\ m \in Nat /\ m <= n + 1
               /\ ~Connected(t, r) => m <= n
               /\ ~Connected(t, r) /\ Connected(caller[c], r) => n = m + 1
<1> DEFINE S == OnNetwork(r)
           T == OnNetwork(r)'
<1>1. S \in SUBSET Callers /\ T \in SUBSET Callers
  BY DEF OnNetwork
<1>2. /\ \A d \in Callers : d \in S <=> Connected(caller[d], r)
      /\ \A d \in Callers : d \in T <=> Connected(caller'[d], r)
  BY DEF OnNetwork, At, Connected
<1>3. caller'[c] = t /\ \A d \in Callers \ {c} : caller'[d] = caller[d]
  BY DEF TypeOK, SetThread
<1> HIDE DEF S, T
<1>4. T = IF Connected(t, r) THEN S \cup {c} ELSE S \ {c}
  BY <1>1, <1>2, <1>3
<1>5. IsFiniteSet(S) /\ Cardinality(S) \in Nat
  BY <1>1, GatewayAssumption, FS_Subset, FS_CardinalityType
<1>6. /\ IsFiniteSet(S \cup {c}) /\ Cardinality(S \cup {c}) \in Nat
      /\ Cardinality(S \cup {c}) <= Cardinality(S) + 1
  <2>1. CASE c \in S
    <3>1. S \cup {c} = S
      BY <2>1
    <3>2. QED
      BY <1>5, <3>1
  <2>2. CASE c \notin S
    <3>1. IsFiniteSet(S \cup {c}) /\ Cardinality(S \cup {c}) = Cardinality(S) + 1
      BY <1>5, <2>2, FS_AddElement
    <3>2. QED
      BY <1>5, <3>1
  <2>3. QED
    BY <2>1, <2>2
<1>7. /\ Cardinality(S \ {c}) \in Nat /\ Cardinality(S \ {c}) <= Cardinality(S)
      /\ c \in S => Cardinality(S) = Cardinality(S \ {c}) + 1
  <2>1. CASE c \in S
    <3>1. IsFiniteSet(S \ {c}) /\ Cardinality(S \ {c}) = Cardinality(S) - 1
      BY <1>5, <2>1, FS_RemoveElement
    <3>2. Cardinality(S \ {c}) \in Nat
      BY <3>1, FS_CardinalityType
    <3>3. QED
      BY <1>5, <2>1, <3>1, <3>2
  <2>2. CASE c \notin S
    <3>1. S \ {c} = S
      BY <2>2
    <3>2. QED
      BY <1>5, <2>2, <3>1
  <2>3. QED
    BY <2>1, <2>2
<1>8. c \in S <=> Connected(caller[c], r)
  BY <1>2
<1>9. QED
  BY <1>4, <1>5, <1>6, <1>7, <1>8 DEF S, T

\* A step after which the thread is not on the network keeps the invariant.
LEMMA OffNetworkStep ==
    ASSUME SlotInv, TypeOK', NEW c \in Callers, NEW t, SetThread(c, t),
           t.pc # "network", UNCHANGED active
    PROVE  SlotInv'
<1>1. ASSUME NEW r \in Refs PROVE SlotOf(r)'
  <2>1. ~Connected(t, r) /\ SlotOf(r) /\ TypeOK
    BY DEF Connected, SlotInv
  <2>2. /\ Cardinality(OnNetwork(r)) \in Nat /\ Cardinality(OnNetwork(r)') \in Nat
        /\ Cardinality(OnNetwork(r)') <= Cardinality(OnNetwork(r))
    BY <2>1, ConnectedStep
  <2>3. active[r] \in Nat /\ MaxConcurrency \in Nat
    BY <2>1, GatewayAssumption DEF TypeOK
  <2>4. QED
    BY <2>1, <2>2, <2>3 DEF SlotOf
<1>2. QED
  BY <1>1 DEF SlotInv

LEMMA AcquireSlot ==
    ASSUME SlotInv, TypeOK', NEW c \in Callers, Acquire(c)
    PROVE  SlotInv'
<1> DEFINE u == caller[c]
           t == [u EXCEPT !.pc = "network"]
<1>1. u \in Threads /\ u.pc = "acquire" /\ u.ref \in Refs /\ TypeOK
  BY DEF SlotInv, TypeOK, Threads, Acquire, At
<1>2. CASE HasSlot(u.ref) /\ active' = [active EXCEPT ![u.ref] = @ + 1] /\ Goto(c, "network")
  <2>1. t.ref = u.ref /\ SetThread(c, t)
    BY <1>1, <1>2 DEF Threads, Goto
  <2>2. ASSUME NEW r \in Refs PROVE SlotOf(r)'
    <3>1. /\ Cardinality(OnNetwork(r)) \in Nat /\ Cardinality(OnNetwork(r)') \in Nat
          /\ Cardinality(OnNetwork(r)') <= Cardinality(OnNetwork(r)) + 1
          /\ r # u.ref => Cardinality(OnNetwork(r)') <= Cardinality(OnNetwork(r))
      BY <1>1, <2>1, ConnectedStep DEF Connected
    <3>2. SlotOf(r) /\ active[r] \in Nat /\ MaxConcurrency \in Nat
      BY <1>1, GatewayAssumption DEF SlotInv, TypeOK
    <3>3. active'[r] = IF r = u.ref THEN active[r] + 1 ELSE active[r]
      BY <1>1, <1>2 DEF TypeOK
    <3>4. r = u.ref => active[r] < MaxConcurrency
      BY <1>2 DEF HasSlot
    <3>5. QED
      BY <3>1, <3>2, <3>3, <3>4 DEF SlotOf
  <2>3. QED
    BY <2>2 DEF SlotInv
<1>3. CASE Raise(c, "fallback") /\ UNCHANGED active
  <2> DEFINE s == [u EXCEPT !.pc = "release", !.err = "fallback"]
  <2>1. s.pc = "release" /\ SetThread(c, s)
    BY <1>1, <1>3 DEF Threads, Raise
  <2>2. QED
    BY <1>3, <2>1, OffNetworkStep
<1>4. QED
  BY <1>2, <1>3 DEF Acquire

LEMMA RespondSlot ==
    ASSUME SlotInv, TypeOK', NEW c \in Callers, Respond(c)
    PROVE  SlotInv'
<1> DEFINE u == caller[c]
<1>1. u \in Threads /\ u.pc = "network" /\ u.ref \in Refs /\ TypeOK
  <2>1. At(c, "network")
    BY Zenon DEF Respond
  <2>2. QED
    BY <2>1 DEF SlotInv, TypeOK, Threads, At
<1>2. PICK t : SetThread(c, t) /\ t.pc # "network"
  <2>1. CASE \E price \in Prices :
                SetThread(c, [u EXCEPT !.pc = "finish", !.price = price])
    <3>1. PICK price \in Prices : SetThread(c, [u EXCEPT !.pc = "finish", !.price = price])
      BY <2>1, Zenon
    <3>2. [u EXCEPT !.pc = "finish", !.price = price].pc = "finish"
      BY <1>1 DEF Threads
    <3>3. QED
      BY <3>1, <3>2
  <2>2. CASE \E err \in Errors : Raise(c, err)
    <3>1. PICK err \in Errors : SetThread(c, [u EXCEPT !.pc = "release", !.err = err])
      BY <2>2, Zenon DEF Raise
    <3>2. [u EXCEPT !.pc = "release", !.err = err].pc = "release"
      BY <1>1 DEF Threads
    <3>3. QED
      BY <3>1, <3>2
  <2>3. QED
    BY <2>1, <2>2, ZenonT(60) DEF Respond
<1>3. active' = [active EXCEPT ![u.ref] = IF @ > 0 THEN @ - 1 ELSE 0]
  BY Zenon DEF Respond
<1>4. ASSUME NEW r \in Refs PROVE SlotOf(r)'
  <2>1. /\ Cardinality(OnNetwork(r)) \in Nat /\ Cardinality(OnNetwork(r)') \in Nat
        /\ Cardinality(OnNetwork(r)') <= Cardinality(OnNetwork(r))
        /\ r = u.ref => Cardinality(OnNetwork(r)) = Cardinality(OnNetwork(r)') + 1
    BY <1>1, <1>2, ConnectedStep DEF Connected
  <2>2. SlotOf(r) /\ active[r] \in Nat /\ MaxConcurrency \in Nat
    BY <1>1, GatewayAssumption DEF SlotInv, TypeOK
  <2>3. active'[r] = IF r # u.ref THEN active[r]
                     ELSE IF active[r] > 0 THEN active[r] - 1 ELSE 0
    BY <1>1, <1>3 DEF TypeOK
  <2>4. QED
    BY <2>1, <2>2, <2>3 DEF SlotOf
<1>5. QED
  BY <1>4 DEF SlotInv

LEMMA SlotStep ==
    ASSUME SlotInv, [Next]_vars
    PROVE  SlotInv'
<1>0. TypeOK /\ TypeOK'
  BY TypeStep DEF SlotInv
<1>1. ASSUME NEW c \in Callers, Generate(c) PROVE SlotInv'
  <2>1. CASE Acquire(c)
    BY <1>0, <2>1, AcquireSlot
  <2>2. CASE Respond(c)
    BY <1>0, <2>2, RespondSlot
  <2>3. CASE ~Acquire(c) /\ ~Respond(c)
    <3>1. UNCHANGED active
      BY <1>1, <2>3, ZenonT(60)
         DEF Generate, Prepare, PreparePrivate, NextCandidate, GiveUp, Deadline, BeforeCall,
             CheckWorkflow, Reserve, StartCall, Finish, Settle, RecordSuccess, Succeed,
             Release, AuditFailure, Decide, stores
    <3>2. PICK t : Turn(c, t)
      BY <1>0, <1>1, TurnTaken
    <3>3. SetThread(c, t) /\ t.pc # "network"
      <4>1. caller[c].pc # "acquire"
        BY <1>1, <2>3 DEF Generate, Prepare, PreparePrivate, NextCandidate, GiveUp, Deadline,
             BeforeCall, CheckWorkflow, Reserve, StartCall, Finish, Settle, RecordSuccess,
             Succeed, Release, AuditFailure, Decide, At
      <4>2. QED
        BY <3>2, <4>1, IdleIsIdle DEF Turn, GoesOn, Counts, Sends, Bills, Ends
    <3>4. QED
      BY <1>0, <3>1, <3>3, OffNetworkStep
  <2>4. QED
    BY <2>1, <2>2, <2>3
<1>2. ASSUME NEW c \in Callers, NEW k \in Keys, Begin(c, k) PROVE SlotInv'
  <2> DEFINE t == [IdleThread EXCEPT !.pc = "prepare", !.key = k]
  <2>1. t.pc # "network" /\ SetThread(c, t) /\ UNCHANGED active
    BY <1>2, IdleType DEF Begin, Threads
  <2> HIDE DEF t
  <2>2. QED
    BY <1>0, <2>1, OffNetworkStep
<1>3. ASSUME NEW c \in Callers, Fault(c) PROVE SlotInv'
  <2>1. UNCHANGED active /\ (SetThread(c, IdleThread) \/ Raise(c, "fallback"))
    BY <1>3 DEF Fault, TryError, HandlerError, Crash, Escape, stores
  <2>2. CASE SetThread(c, IdleThread)
    BY <1>0, <2>1, <2>2, IdleIsIdle, OffNetworkStep
  <2>3. CASE Raise(c, "fallback")
    <3> DEFINE t == [caller[c] EXCEPT !.pc = "release", !.err = "fallback"]
    <3>1. t.pc # "network" /\ SetThread(c, t)
      BY <1>0, <2>3 DEF TypeOK, Threads, Raise
    <3> HIDE DEF t
    <3>2. QED
      BY <1>0, <2>1, <3>1, OffNetworkStep
  <2>4. QED
    BY <2>1, <2>2, <2>3
<1>4. ASSUME NEW r \in Refs, SlotsExpire(r) PROVE SlotInv'
  <2>1. /\ caller' = caller /\ active' = [active EXCEPT ![r] = 0]
        /\ OnNetwork(r) = {}
    BY <1>4 DEF SlotsExpire, OnNetwork
  <2>2. ASSUME NEW q \in Refs PROVE SlotOf(q)'
    <3>1. OnNetwork(q)' = OnNetwork(q) /\ SlotOf(q) /\ MaxConcurrency \in Nat
      BY <1>0, <2>1, GatewayAssumption DEF OnNetwork, At, SlotInv
    <3>2. active'[q] = IF q = r THEN 0 ELSE active[q]
      BY <1>0, <2>1 DEF TypeOK
    <3>3. Cardinality(OnNetwork(r)) = 0
      BY <2>1, FS_EmptySet
    <3>4. QED
      BY <3>1, <3>2, <3>3 DEF SlotOf
  <2>3. QED
    BY <1>0, <2>2 DEF SlotInv
<1>5. CASE UNCHANGED <<caller, active>>
  BY <1>0, <1>5 DEF SlotInv, SlotOf, OnNetwork, At
<1>6. ASSUME NEW r \in Refs, Clock(r) PROVE SlotInv'
  BY <1>4, <1>5, <1>6 DEF Clock, Cooldown, CircuitExpires
<1>7. ASSUME NEW hard \in Limits, NEW enabled \in Switches, SetBudget(hard, enabled)
      PROVE  SlotInv'
  BY <1>5, <1>7 DEF SetBudget
<1>8. QED
  BY <1>1, <1>2, <1>3, <1>5, <1>6, <1>7 DEF Next, vars, stores

\* No more calls are on the network to a model than the limiter allows, for any
\* number of threads, any deaths and any expiry of the shared counters.
THEOREM SlotsBound == Spec => []ConcurrencyBound
<1>1. Init => SlotInv
  <2> SUFFICES ASSUME Init PROVE SlotInv
    OBVIOUS
  <2>1. ASSUME NEW r \in Refs PROVE SlotOf(r)
    <3>1. OnNetwork(r) = {}
      BY IdleIsIdle DEF Init, OnNetwork, At
    <3>2. Cardinality(OnNetwork(r)) = 0
      BY <3>1, FS_EmptySet
    <3>3. QED
      BY <3>2, GatewayAssumption DEF Init, SlotOf
  <2>2. QED
    BY <2>1, InitType DEF SlotInv
<1>2. SlotInv => ConcurrencyBound
  <2> SUFFICES ASSUME SlotInv, NEW r \in Refs
               PROVE  Cardinality(OnNetwork(r)) <= MaxConcurrency
    BY DEF ConcurrencyBound, OnNetwork
  <2>1. OnNetwork(r) \in SUBSET Callers
    BY DEF OnNetwork
  <2>2. Cardinality(OnNetwork(r)) \in Nat /\ active[r] \in Nat /\ MaxConcurrency \in Nat
    BY <2>1, GatewayAssumption, FS_Subset, FS_CardinalityType DEF SlotInv, TypeOK
  <2>3. QED
    BY <2>2 DEF SlotInv, SlotOf
<1>3. SlotInv /\ [Next]_vars => SlotInv'
  BY SlotStep
<1>4. QED
  BY <1>1, <1>2, <1>3, PTL DEF Spec

=============================================================================

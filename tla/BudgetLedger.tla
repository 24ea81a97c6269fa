---------------------------- MODULE BudgetLedger ----------------------------
(***************************************************************************)
(* What a project's budget promises to whoever pays for provider calls:    *)
(* every call has its share set aside before it is made, the share is      *)
(* given back exactly once, with or without a payment out of it, and what  *)
(* is spent and set aside never passes the limit.  Only the death of an    *)
(* owner leaves a share behind that nobody gives back.                     *)
(***************************************************************************)
EXTENDS Naturals, FiniteSets

CONSTANTS
    Owners,   \* those who may hold a share
    Share     \* the size of a share

VARIABLES
    limit,    \* what the project may spend
    spent,    \* what it has spent
    held,     \* owners that hold a share
    lost,     \* the sum of the shares that died with their owners
    deaths    \* owners that have died

ledgerVars == <<limit, spent, held, lost, deaths>>

SetAside == Share * Cardinality(held) + lost

Init ==
    /\ limit \in Nat
    /\ spent = 0 /\ held = {} /\ lost = 0 /\ deaths = 0

Hold(o) ==
    /\ o \notin held
    /\ spent + SetAside + Share <= limit
    /\ held' = held \cup {o}
    /\ UNCHANGED <<limit, spent, lost, deaths>>

\* The share is given back, and no more than it is paid.
GiveBack(o) ==
    /\ o \in held
    /\ held' = held \ {o}
    /\ spent' \in spent..(spent + Share)
    /\ UNCHANGED <<limit, lost, deaths>>

Die(o) ==
    /\ deaths' = deaths + 1
    /\ held' = held \ {o}
    /\ lost' = IF o \in held THEN lost + Share ELSE lost
    /\ UNCHANGED <<limit, spent>>

\* The operator sets a limit that covers what is spent and set aside.
SetLimit ==
    /\ limit' \in Nat /\ limit' >= spent + SetAside
    /\ UNCHANGED <<spent, held, lost, deaths>>

Next == SetLimit \/ \E o \in Owners : Hold(o) \/ GiveBack(o) \/ Die(o)

Spec == Init /\ [][Next]_ledgerVars

=============================================================================

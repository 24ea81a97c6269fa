---------------------------- MODULE MCJobAdmission ----------------------------
(***************************************************************************)
(* JobAdmission with requests for TLC: two that want one chapter, two      *)
(* without a chapter, and two book runs of one project.                    *)
(***************************************************************************)
EXTENDS JobAdmission

CONSTANTS c1, c2, p1, k1, k2, k3, k4, k5, k6

TwoClients == {c1, c2}

Job(key, chapter) ==
    [kind |-> "job", key |-> key, project |-> p1, chapter |-> chapter, external |-> FALSE]
Book(key, external) ==
    [kind |-> "book", key |-> key, project |-> p1, chapter |-> 0, external |-> external]

MixedRequests == 
    {Job(k1, 1), Job(k2, 1), Job(k3, 0), Job(k4, 0), Book(k5, FALSE), Book(k6, TRUE)}
==============================================================================

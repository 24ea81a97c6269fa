----------------------------- MODULE MCDrafting -----------------------------
(***************************************************************************)
(* Instances of Drafting for TLC.                                          *)
(***************************************************************************)
EXTENDS Drafting, TLC

CONSTANTS g1, g2, p1, p2, e1, e2

\* The first text says nothing of earlier chapters, the second pays off the
\* foreshadowing of chapter 1, the third opens it again.
SomeUpdates ==
    [t \in 1..MaxDrafts |->
        CASE t = 2 -> {[hook |-> 1, action |-> "resolve"]}
          [] t = 3 -> {[hook |-> 1, action |-> "advance"], [hook |-> 2, action |-> "setup"]}
          [] OTHER -> {}]
EveryText == 1..MaxDrafts

\* Facts, hooks and memory take one unit of room, character and summary two.
Sizes == [c \in {"characters", "facts", "foreshadowing", "recent", "memory"} |->
             IF c \in {"characters", "recent"} THEN 2 ELSE 1]

ThreadSymmetry == 
    Permutations(Generators) \cup Permutations(Evaluators) \cup Permutations(Planners)

=============================================================================

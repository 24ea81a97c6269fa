---------------------------- MODULE JobLifecycle ----------------------------
(***************************************************************************)
(* What the job API promises about one job, whatever the queue, the        *)
(* workers and the operators do: the phases a caller can observe, the      *)
(* moves between them, and how many executions were started.  The detailed *)
(* module JobQueue implements this specification.                          *)
(***************************************************************************)
EXTENDS Naturals

CONSTANT Jobs

VARIABLES
    phase,   \* what a reader of the jobs table sees of each job
    runs     \* executions of each job that were started

lifecycleVars == <<phase, runs>>

Phases == {"absent", "waiting", "running", "pausing", "paused", "cancelling",
           "succeeded", "failed", "cancelled", "dead"}

Final == {"succeeded", "failed", "cancelled"}

Init ==
    /\ phase = [j \in Jobs |-> "absent"]
    /\ runs = [j \in Jobs |-> 0]

\* Job j moves to phase target without being started.
Move(j, sources, target) ==
    /\ phase[j] \in sources
    /\ phase' = [phase EXCEPT ![j] = target]
    /\ UNCHANGED runs

Submit(j) == Move(j, {"absent"}, "waiting")

\* Only a waiting job is started, and every start is counted.
Start(j) ==
    /\ phase[j] = "waiting"
    /\ phase' = [phase EXCEPT ![j] = "running"]
    /\ runs' = [runs EXCEPT ![j] = @ + 1]

\* A retry or a recovered lease: the running job waits again.
Requeue(j) == Move(j, {"running"}, "waiting")

Complete(j) == Move(j, {"running"}, "succeeded")

GiveUp(j) ==
    \/ Move(j, {"waiting", "running", "pausing", "cancelling"}, "failed")
    \/ Move(j, {"waiting", "running", "pausing", "cancelling"}, "dead")

\* A pause request takes effect at once or at the next safe boundary.
Pause(j) ==
    \/ Move(j, {"waiting", "running"}, "pausing")
    \/ Move(j, {"waiting", "running", "pausing"}, "paused")

\* A cancellation request takes effect at once or at the next safe boundary.
Cancel(j) ==
    \/ Move(j, {"waiting", "running", "pausing"}, "cancelling")
    \/ Move(j, {"waiting", "running", "pausing", "paused", "cancelling"}, "cancelled")

\* Only an operator takes a job out of the paused or the dead phase.
Resume(j) == Move(j, {"paused"}, "waiting")
RetryDead(j) == Move(j, {"dead"}, "waiting")

Next ==
    \E j \in Jobs :
        \/ Submit(j) \/ Start(j) \/ Requeue(j) \/ Complete(j) \/ GiveUp(j)
        \/ Pause(j) \/ Cancel(j) \/ Resume(j) \/ RetryDead(j)

Spec == Init /\ [][Next]_lifecycleVars

=============================================================================

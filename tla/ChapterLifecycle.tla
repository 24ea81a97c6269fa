-------------------------- MODULE ChapterLifecycle --------------------------
(***************************************************************************)
(* What the runs over one chapter promise to the rest of the book: one run *)
(* at a time is live, the accepted text and the facts that are told of it  *)
(* change together and only where a run completes, and no pause, failure   *)
(* or cancellation touches either.  ChapterWorkflow implements this with   *)
(* the nodes of one run; BookRun, whose chapter workflows are single       *)
(* steps, implements it for every chapter of a book.                       *)
(***************************************************************************)
EXTENDS Naturals

VARIABLES
    phase,     \* the status of every run that has begun
    accepted,  \* the accepted text, 0 before the first
    canon      \* the texts whose facts are told

chapterVars == <<phase, accepted, canon>>

Live == {"running", "paused"}

Init ==
    /\ phase = [w \in {} |-> "running"]
    /\ accepted \in Nat /\ canon = {accepted} \ {0}

\* Run w changes its phase and the chapter keeps its text.
Move(w, sources, target) ==
    /\ phase[w] \in sources
    /\ phase' = [phase EXCEPT ![w] = target]
    /\ UNCHANGED <<accepted, canon>>

Begin(w) ==
    /\ w \notin DOMAIN phase
    /\ \A v \in DOMAIN phase : phase[v] \notin Live
    /\ phase' = [v \in DOMAIN phase \cup {w} |-> IF v = w THEN "running" ELSE phase[v]]
    /\ UNCHANGED <<accepted, canon>>

Pause(w)  == Move(w, {"running"}, "paused")
Resume(w) == Move(w, {"paused"}, "running")
Fail(w)   == Move(w, Live, "failed")
Cancel(w) == Move(w, Live, "cancelled")

\* Shown to a reader instead of accepted.  An execution that outlives its run
\* may still review or promote a text of it.
Review(w) == Move(w, Live \cup {"failed", "cancelled", "completed"}, "completed_needs_review")

\* The text becomes the accepted one and its facts the only ones told.
Promote(w) ==
    /\ phase' = [phase EXCEPT ![w] = "completed"]
    /\ accepted' \in Nat \ {0} /\ canon' = {accepted'}

Next ==
    \/ \E w \in DOMAIN phase' : Begin(w)
    \/ \E w \in DOMAIN phase :
           Pause(w) \/ Resume(w) \/ Fail(w) \/ Cancel(w) \/ Review(w) \/ Promote(w)

Spec == Init /\ [][Next]_chapterVars

=============================================================================

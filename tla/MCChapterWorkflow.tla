-------------------------- MODULE MCChapterWorkflow --------------------------
(***************************************************************************)
(* Small instances of ChapterWorkflow for TLC.                             *)
(***************************************************************************)
EXTENDS ChapterWorkflow

\* A text that passes; one with many blocking reasons; one with fewer of them
\* that contradicts the story.
Good == [critical |-> 0, high |-> FALSE, other |-> FALSE, level |-> 2]
Flagged == [critical |-> 0, high |-> TRUE, other |-> TRUE, level |-> 1]
Contradicting == [critical |-> 1, high |-> FALSE, other |-> FALSE, level |-> 1]

GoodOrFlagged == {Good, Flagged}
AllTexts == {Good, Flagged, Contradicting}
==============================================================================

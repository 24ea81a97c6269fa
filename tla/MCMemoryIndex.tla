---------------------------- MODULE MCMemoryIndex ----------------------------
(* Two chapters; the first has two versions, one version of each mentions *)
(* the entity, the others change the character.                           *)
EXTENDS MemoryIndex, TLC
CONSTANTS i1, i2
ThreeVersions == {1, 2, 3}
TwoChapters == <<1, 1, 2>>
MentionedIn == {1, 3}
ChangedBy == {2, 3}
TwoIndexers == {i1, i2}
IndexerSymmetry == Permutations(TwoIndexers)
==============================================================================

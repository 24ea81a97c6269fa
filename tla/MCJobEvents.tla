----------------------------- MODULE MCJobEvents -----------------------------
(***************************************************************************)
(* JobEvents with model values for TLC.                                    *)
(***************************************************************************)
EXTENDS JobEvents, TLC

CONSTANTS w1, w2, r1, r2

TwoWriters == {w1, w2}
OneReader == {r1}
TwoReaders == {r1, r2}
WriterSymmetry == Permutations(TwoWriters)
==============================================================================

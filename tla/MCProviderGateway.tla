------------------------- MODULE MCProviderGateway -------------------------
(***************************************************************************)
(* Small instances of ProviderGateway for TLC.                             *)
(***************************************************************************)
EXTENDS ProviderGateway, TLC

CONSTANTS c1, c2, k1, k2

\* Threads are interchangeable.
CallerSymmetry == Permutations(Callers)

=============================================================================

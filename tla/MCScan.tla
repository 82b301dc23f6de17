------------------------------- MODULE MCScan -------------------------------
(***************************************************************************)
(* Instances of Scan for TLC.                                              *)
(***************************************************************************)
EXTENDS ScanInvariant, TLC

CONSTANTS s1, s2         \* scan ids

LimitOf3  == s1 :> {3}
TwoScans  == (s1 :> {1, 2}) @@ (s2 :> {2})

Symmetry == Permutations(Task)

=============================================================================

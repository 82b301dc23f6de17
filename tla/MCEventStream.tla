---------------------------- MODULE MCEventStream ---------------------------
(***************************************************************************)
(* Two plans, one of two actions, and the events of earlier releases, for  *)
(* TLC.                                                                    *)
(***************************************************************************)
EXTENDS StreamInvariant

CONSTANTS a1, a2, a3, p1, p2

Plans == [a \in Action |-> IF a = a3 THEN p2 ELSE p1]
AlphabeticallyBefore(a, b) == <<a, b>> \in {<<a1, a2>>, <<a1, a3>>, <<a2, a3>>}

E(a, n, t) == [action |-> a, sequence |-> n, at |-> t]
Logs == {<<>>, <<E(a2, 1, 1), E(a1, 1, 1), E(a2, 2, 1)>>}
=============================================================================

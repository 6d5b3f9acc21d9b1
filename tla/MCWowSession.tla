---------------------------- MODULE MCWowSession ----------------------------
(* Instances of WowSession for TLC: clients A and B, with two sessions of  *)
(* A at a time, or one.                                                    *)
EXTENDS WowSession, TLC

CONSTANTS clientA, clientB, a1, a2, b1

OneEach == a1 :> clientA @@ b1 :> clientB
TwoOnA == a1 :> clientA @@ a2 :> clientA @@ b1 :> clientB

Symmetry == Permutations({a1, a2})

(* What is left of a state when the sessions have been disturbed: latest   *)
(* and may are read by FreshOpen alone, and by it as long as quiet holds.  *)
View ==
    <<server, local, current, tick, pc, seen, buf, wrote, writes, faults, quiet,
      tears # {}, overwritten,
      IF quiet THEN historyVars ELSE <<>> >>

Plain == {}
Everything == ModeKinds

=============================================================================

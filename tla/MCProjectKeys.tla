----------------------------- MODULE MCProjectKeys -----------------------------
(* Small instances of ProjectKeys. *)
EXTENDS ProjectKeys, TLC

CONSTANTS alice, bob, a1, a2, b1, b2

OneDeviceEach == (a1 :> alice) @@ (b1 :> bob)
TwoOfMember == (a1 :> alice) @@ (b1 :> bob) @@ (b2 :> bob)
TwoOfOwner == (a1 :> alice) @@ (a2 :> alice)

(* Once the member's second device has registered, few changes, no failure *)
(* and two epochs; until then the bounds of the constants.                 *)
SafetyBound ==
    \/ b2 \notin registered \cup revoked
    \/ /\ faults = 0 /\ changes <= 2 /\ keyEpoch <= 2
       /\ \A d \in Device : \A k \in ring[d] : k.epoch <= 2
================================================================================

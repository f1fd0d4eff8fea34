-------------------------- MODULE MCSecurityRound --------------------------
(***************************************************************************)
(* Instances of SecurityRound for TLC: uid 0 is BURN_UID and ours; a miner *)
(* has uid 1, and another validator uid 2, which a second miner may take.  *)
(***************************************************************************)
EXTENDS SecurityRound, TLC

CONSTANTS v, peer, a, b, c1, c2

TwoValidators == (0 :> v) @@ (1 :> a) @@ (2 :> peer)

=============================================================================

------------------------- MODULE MCLLMKeyValidator -------------------------
(***************************************************************************)
(* Instances of LLMKeyValidator for TLC; each .cfg picks one of the owner  *)
(* maps below, and the symmetry that map allows.                           *)
(***************************************************************************)
EXTENDS LLMKeyValidator, TLC

CONSTANTS u1, h1, h2, k1, k2

\* One hotkey with one key.
SingleKey == k1 :> h1

\* One hotkey with two sibling keys, which are interchangeable.
SiblingKeys == (k1 :> h1) @@ (k2 :> h1)
SiblingSymmetry == Permutations({k1, k2})

=============================================================================

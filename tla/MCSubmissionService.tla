------------------------ MODULE MCSubmissionService ------------------------
(***************************************************************************)
(* Instances of SubmissionService for TLC: p1 and p2 are one agent, packed *)
(* twice; p3 to p6 are packages that one gate each rejects.                *)
(***************************************************************************)
EXTENDS SubmissionService, TLC

CONSTANTS m1, m2, p1, p2, p3, p4, p5, p6, a1, a2, c1, c2, w1, w2

\* One agent in one or two packages.
OneAgent == [p \in Packages |-> a1]
NoFlaw == [p \in Packages |-> "none"]

\* The flawed packages; only p3 gets as far as having its digest looked up.
FlawedAgents == [p \in Packages |-> CASE p \in {p1, p2} -> a1 [] p = p3 -> a2 [] OTHER -> None]
EveryFlaw == [p \in Packages |-> CASE p \in {p1, p2} -> "none" [] p = p3 -> "run"
                                    [] p = p4 -> "file" [] p = p5 -> "structure"
                                    [] p = p6 -> "inspect"]

MinerSymmetry == Permutations(Miners)

=============================================================================

------------------------- MODULE MCAgentEvaluation -------------------------
(***************************************************************************)
(* Instances of AgentEvaluation for TLC.                                   *)
(***************************************************************************)
EXTENDS AgentEvaluation, TLC

CONSTANTS good, bad

Claim(place, canary) == [place |-> place, canary |-> canary]

Inject(method, place) == [method |-> method, place |-> place, payload |-> "inject"]

Report(findings, reproduction) ==
  [formed |-> TRUE, own |-> TRUE, findings |-> findings, reproduction |-> reproduction]

\* A full report, one with a false positive and a useless recipe, one with an
\* old canary, one without a canary, and one about another run.
SomeDocuments ==
  LET flaw == Claim("flaw", "this")
      trap == Claim("trap", "none")
      recipe == {Inject("GET", "flaw")}
  IN {Report(<<flaw>>, recipe),
      Report(<<trap, Claim("parameter", "this")>>, {Inject("POST", "flaw")}),
      Report(<<Claim("flaw", "stale"), trap>>, recipe),
      Report(<<trap>>, {}),
      [Report(<<flaw>>, recipe) EXCEPT !.own = FALSE]}

SomeDeeds ==
  {{[phase |-> "E", call |-> "network"]},
   {[phase |-> "E", call |-> "network"], [phase |-> "E", call |-> "docker-socket"]}}

=============================================================================

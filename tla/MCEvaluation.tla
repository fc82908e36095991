----------------------------- MODULE MCEvaluation -----------------------------
(* An instance for TLC: a model that follows its instructions, repeats a call, *)
(* calls a foreign tool, changes the order, or leaves a tool out.              *)
EXTENDS EvaluationProperties

Symmetry == Permutations(Processes) \cup Permutations(Calls) \cup Permutations(Keys)

\* The candidate does not run yet, or its CI failed.
ProviderStates ==
    {[source |-> "B", ci |-> "success", deployed |-> "A"],
     [source |-> "A", ci |-> "failure", deployed |-> "A"]}

ModelCalls ==
    {<<"source", "ci", "deployed">>,
     <<"source", "other", "source", "ci", "deployed", "ci">>,
     <<"source", "deployed", "ci">>,
     <<"source", "ci">>}

=============================================================================

--------------------------- MODULE MCRunnerSlots ---------------------------
(* Small instances of RunnerSlots: batches of up to two live sessions (the  *)
(* Reviewer and the CI / Regression Auditor), by either agent.              *)
EXTENDS RunnerSlots

Pairs == {<<"codex", "codex">>, <<"codex", "claude">>, <<"claude", "codex">>}
=============================================================================

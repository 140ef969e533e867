---------------------------- MODULE MCEvaluation -----------------------------
(***************************************************************************)
(* Values for model-checking Evaluation: a sweep over a scenario of each   *)
(* kind, and a second one over two of them again.                          *)
(***************************************************************************)
EXTENDS Evaluation

MCSweeps == <<<<<<"S05", 0>>, <<"S13", 0>>, <<"S13", 1>>>>, <<<<"S13", 0>>, <<"S11", 0>>>>>>

\* An RCA that is right for S11 but for not leaving it to a human, one that is
\* right for S13 and S11, and one the schema refuses.
MCAnswers ==
  {[cause |-> "load", suspect |-> "none", needs_human |-> FALSE, remediation |-> "none",
    confident |-> TRUE, runbook |-> "none"],
   [cause |-> "unknown", suspect |-> "none", needs_human |-> TRUE, remediation |-> "none",
    confident |-> FALSE, runbook |-> "none"],
   [cause |-> "load", suspect |-> "other", needs_human |-> FALSE, remediation |-> "alias_rollback",
    confident |-> TRUE, runbook |-> "other"]}

\* What the contract has and a mode more; and one mode renamed.
MCOffered == {DOMAIN MODES \cup {"new"}, (DOMAIN MODES \ {"silent"}) \cup {"new"}}
=============================================================================

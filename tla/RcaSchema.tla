----------------------------- MODULE RcaSchema ------------------------------
(***************************************************************************)
(* agent/schema.py: what makes a model's answer a valid RCA.               *)
(*                                                                         *)
(* An answer is a record.  The fields whose content only has to be well    *)
(* formed (summary, confidence, evidence) are TRUE when they are; suspect  *)
(* says whether suspect_change is a non-empty value, needs_human whether   *)
(* needs_human_investigation is truthy and human_is_bool whether it is     *)
(* true or false at all.  target stands for affected_component and         *)
(* remediation_detail: what the executor will make of that free text.      *)
(***************************************************************************)
EXTENDS Naturals

RootCause == {"code_defect", "config", "capacity", "load", "external", "unknown"}

Remediation == {"alias_rollback", "feature_flag", "none"}

\* Mutant: the check that a load or an external cause proposes nothing is missing.
ErrorsNoDefectCheck(raw) ==
  {e \in {"cause", "summary", "confidence", "evidence", "remediation", "needs_human",
          "unknown_needs_human", "no_suspect", "human_and_fix"} :
     \/ e = "cause"       /\ raw.cause \notin RootCause
     \/ e = "summary"     /\ ~raw.summary
     \/ e = "confidence"  /\ ~raw.confidence
     \/ e = "evidence"    /\ ~raw.evidence
     \/ e = "remediation" /\ raw.remediation \notin Remediation
     \/ e = "needs_human" /\ ~raw.human_is_bool
     \/ e = "unknown_needs_human" /\ raw.cause = "unknown" /\ ~raw.needs_human
     \/ e = "no_suspect"   /\ raw.remediation = "alias_rollback" /\ ~raw.suspect
     \/ e = "human_and_fix" /\ raw.needs_human /\ raw.remediation # "none"}

\* The checks of validate(): the set of complaints it collects before raising
\* InvalidRCA.
Errors(raw) ==
  {e \in {"cause", "summary", "confidence", "evidence", "remediation", "needs_human",
          "unknown_needs_human", "not_a_defect", "no_suspect", "human_and_fix"} :
     \/ e = "cause"       /\ raw.cause \notin RootCause
     \/ e = "summary"     /\ ~raw.summary
     \/ e = "confidence"  /\ ~raw.confidence
     \/ e = "evidence"    /\ ~raw.evidence
     \/ e = "remediation" /\ raw.remediation \notin Remediation
     \/ e = "needs_human" /\ ~raw.human_is_bool
     \/ e = "unknown_needs_human" /\ raw.cause = "unknown" /\ ~raw.needs_human
     \/ e = "not_a_defect" /\ raw.cause \in {"load", "external"} /\ raw.remediation # "none"
     \/ e = "no_suspect"   /\ raw.remediation = "alias_rollback" /\ ~raw.suspect
     \/ e = "human_and_fix" /\ raw.needs_human /\ raw.remediation # "none"}

\* A cause or remediation that is a list or an object cannot be looked up in
\* the sets of valid values: the lookup itself raises TypeError.
Unhashable(raw) == "unhashable" \in {raw.cause, raw.remediation}

Valid(raw) == ~Unhashable(raw) /\ Errors(raw) = {}

\* How validate() ends: the RCA, InvalidRCA, or an exception nobody asked for.
Verdict(raw) == IF Unhashable(raw) THEN "TypeError"
                ELSE IF Errors(raw) = {} THEN "valid"
                ELSE "InvalidRCA"
=============================================================================

----------------------------- MODULE MCAgentLoop -----------------------------
(***************************************************************************)
(* Values for model-checking AgentLoop: an empty answer, one without JSON, *)
(* and objects with every combination of the fields validate() relates,    *)
(* the other fields being all well formed or all malformed.                *)
(***************************************************************************)
EXTENDS AgentLoop

Raw(cause, remediation, human, suspect, wellFormed) ==
  [cause |-> cause, remediation |-> remediation, needs_human |-> human,
   human_is_bool |-> wellFormed, suspect |-> suspect, summary |-> TRUE,
   confidence |-> wellFormed, evidence |-> wellFormed, target |-> "some"]

Objects ==
  {[kind |-> "object", raw |-> Raw(c, r, h, s, w)] :
      c \in RootCause \cup {"other", "unhashable"}, r \in Remediation \cup {"other"},
      h \in BOOLEAN, s \in BOOLEAN, w \in BOOLEAN}

AllAnswers == Objects \cup {NoAnswer, [kind |-> "prose"]}
=============================================================================

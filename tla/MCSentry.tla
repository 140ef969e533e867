------------------------------ MODULE MCSentry -------------------------------
(***************************************************************************)
(* Values for model-checking Sentry: one alarm, its five-minute window     *)
(* scaled to 3, and the RCAs an investigation may produce.                 *)
(***************************************************************************)
EXTENDS Sentry, TLC

CONSTANTS f1, g1, api

Note(name, state, at, id) == [name |-> name, state |-> state, at |-> at, id |-> id]

MCSlug == api :> "api"

AnRca(cause, remediation, target) ==
  [cause |-> cause, summary |-> TRUE, confidence |-> TRUE, evidence |-> TRUE,
   suspect |-> remediation # "none", remediation |-> remediation,
   needs_human |-> cause = "unknown", human_is_bool |-> TRUE, target |-> target]

RollbackRca == AnRca("code_defect", "alias_rollback", f1)
FlagRca     == AnRca("config", "feature_flag", g1)
WrongTarget == AnRca("code_defect", "alias_rollback", NoTarget)
NoFixRca    == AnRca("load", "none", NoTarget)
UnknownRca  == AnRca("unknown", "none", NoTarget)

AllRcas == {RollbackRca, FlagRca, WrongTarget, NoFixRca, UnknownRca}
RollbackOnly == {RollbackRca}
ThreeRcas == {RollbackRca, FlagRca, NoFixRca}

\* One alarm, once.
OneAlarm == {Note(api, "ALARM", 1, 1)}
OneIncident == {<<"api", 0>>}

\* One alarm and its recovery, which is no incident.
OneAlarmAndRecovery == {Note(api, "ALARM", 1, 1), Note(api, "OK", 2, 2)}

\* A flapping alarm: twice in one window, once in the next.
Flapping == {Note(api, "ALARM", 1, 1), Note(api, "ALARM", 2, 2), Note(api, "ALARM", 3, 3)}
FlappingIncidents == {<<"api", 0>>, <<"api", 3>>}

WorkerSymmetry == Permutations(IngestWorker) \cup Permutations(AgentWorker)
                  \cup Permutations(ExecutorWorker) \cup Permutations(Actor)
                  \cup Permutations(Message) \cup Permutations(Event)
=============================================================================

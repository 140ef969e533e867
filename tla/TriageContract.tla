--------------------------- MODULE TriageContract ----------------------------
(***************************************************************************)
(* What the pipeline promises about each incident, whatever fails: one     *)
(* life, in which the target system is touched only after a human          *)
(* authorised it, and "done" is only said of what was done.                *)
(*                                                                         *)
(* The contract does not promise that an authorised action happens once,   *)
(* nor that it stops once the incident is closed: the code does not.       *)
(***************************************************************************)
CONSTANT Incident

VARIABLES stage, acted

contractVars == <<stage, acted>>

Stage == {"none", "open", "settled", "proposed", "refused", "authorised", "done", "failed"}

Init == /\ stage = [i \in Incident |-> "none"]
        /\ acted = [i \in Incident |-> FALSE]

Advance(i, from, to) == /\ stage[i] = from
                        /\ stage' = [stage EXCEPT ![i] = to]
                        /\ UNCHANGED acted

\* The alarm opens it.
Open(i) == Advance(i, "none", "open")

\* The investigation settles it without an action, or proposes one.
Settle(i) == Advance(i, "open", "settled")
Propose(i) == Advance(i, "open", "proposed")

\* A human decides, once.
Authorise(i) == Advance(i, "proposed", "authorised")
Refuse(i) == Advance(i, "proposed", "refused")

\* The target is changed.  A duplicate or a retry may still do so later.
Act(i) == /\ stage[i] \in {"authorised", "done", "failed"}
          /\ acted' = [acted EXCEPT ![i] = TRUE]
          /\ UNCHANGED stage

\* The outcome is recorded.
Complete(i) == acted[i] /\ Advance(i, "authorised", "done")
GiveUp(i) == Advance(i, "authorised", "failed")

Next == \E i \in Incident :
           \/ Open(i) \/ Settle(i) \/ Propose(i) \/ Authorise(i) \/ Refuse(i)
           \/ Act(i) \/ Complete(i) \/ GiveUp(i)

Spec == Init /\ [][Next]_contractVars
=============================================================================

------------------------------- MODULE Faults -------------------------------
(***************************************************************************)
(* The unreliable world around the four Lambda functions.  Every crash,    *)
(* timeout, lost reply, failed AWS call and duplicated message costs one   *)
(* unit of a budget, so that a run can say how much goes wrong.            *)
(***************************************************************************)
EXTENDS Naturals

CONSTANT MaxFaults   \* bound: how many faults a behaviour may contain

ASSUME FaultsAssumption == MaxFaults \in Nat

VARIABLE faults

FaultsTypeOK == faults \in 0..MaxFaults

NoFault == UNCHANGED faults

Fault == /\ faults < MaxFaults
         /\ faults' = faults + 1
=============================================================================

----------------------------- MODULE MCDashboard -----------------------------
(***************************************************************************)
(* Values for model-checking Dashboard: investigations end, and another    *)
(* operator rejects, while the page is used.  With lagging replicas the    *)
(* incidents are those that wait for their decision already.               *)
(***************************************************************************)
EXTENDS Dashboard

MCMoves == {<<"INVESTIGATING", "PENDING_APPROVAL">>, <<"PENDING_APPROVAL", "REJECTED">>}

MCInit == DashInit /\ \A i \in Incident : table[i].status = "PENDING_APPROVAL"

MCFairSpec == MCInit /\ [][DashNext]_vars /\ DashFair
=============================================================================

------------------------------ MODULE MCListing ------------------------------
(***************************************************************************)
(* Values for model-checking Listing: the board's query, the list of the   *)
(* incidents waiting, and a list of two statuses an incident passes        *)
(* through in turn.                                                        *)
(***************************************************************************)
EXTENDS Listing

CONSTANT MCStatus   \* bound: how far the others take an incident

MCFilter == {Status, {"PENDING_APPROVAL"}, {"NEW", "INVESTIGATING"}}

MCStatuses == {"MISSING", "NEW", "INVESTIGATING", "PENDING_APPROVAL", "FAILED"}

MCNext == ListingNext /\ \A i \in Incident : table'[i].status \in MCStatus

MCSpec == ListingInit /\ [][MCNext]_vars
=============================================================================

---------------------------- MODULE MCGroupLists ----------------------------
(* GroupLists for TLC, with the requests of MCGroupJobs. *)
EXTENDS MCGroupJobs, GroupLists

=============================================================================

----------------------------- MODULE MCRefresh -----------------------------
(* Three jobs, so that one repairs what two left behind, and two edits: one   *)
(* before and one after some job's reading of base_sha.                       *)
EXTENDS Refresh
=============================================================================

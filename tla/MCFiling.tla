------------------------------ MODULE MCFiling ------------------------------
(* Three jobs over two crashers and one version: a job that fails or dies, one *)
(* that finds what it left, and one more.                                     *)
EXTENDS Filing
=============================================================================

----------------------------- MODULE MCRcdJobs -----------------------------
(***************************************************************************)
(* Instances of RcdJobs for TLC.                                           *)
(***************************************************************************)
EXTENDS RcdJobs
=============================================================================

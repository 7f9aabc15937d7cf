------------------------ MODULE MCQuarkDavSupervisor ------------------------
(***************************************************************************)
(* Instances of QuarkDavSupervisor for TLC.                                *)
(***************************************************************************)
EXTENDS QuarkDavSupervisor
=============================================================================

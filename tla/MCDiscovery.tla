---------------------------- MODULE MCDiscovery ----------------------------
(***************************************************************************)
(* The instance of Discovery that Discovery.cfg describes.                 *)
(***************************************************************************)
EXTENDS Discovery

=============================================================================

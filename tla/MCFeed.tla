------------------------------- MODULE MCFeed -------------------------------
(* The bounds are given in the configurations.                             *)
EXTENDS Feed
=============================================================================

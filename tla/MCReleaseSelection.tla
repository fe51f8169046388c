-------------------------- MODULE MCReleaseSelection --------------------------
(* ReleaseSelection with a few commits; their order matters, so there is   *)
(* no symmetry.                                                            *)
EXTENDS ReleaseSelection
=============================================================================

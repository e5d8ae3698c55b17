---------------------------- MODULE MCProctorLink ----------------------------
(* Instances of ProctorLink for TLC.                                         *)
EXTENDS ProctorLink
=============================================================================

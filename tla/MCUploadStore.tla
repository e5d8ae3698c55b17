---------------------------- MODULE MCUploadStore ----------------------------
(* Instances of UploadStore for TLC.                                          *)
EXTENDS UploadStore
=============================================================================

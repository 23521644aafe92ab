---------------------------- MODULE MCViewerTls ----------------------------
(* Instances of ViewerTls for TLC. *)
EXTENDS ViewerTls
=============================================================================

--------------------------- MODULE MCUploadServer ---------------------------
(* UploadServer on small instances. *)
EXTENDS UploadServer
=============================================================================

--------------------------- MODULE MCHelperThread ---------------------------
(* HelperThread with a few requests; see the MCHelperThread*.cfg files. *)
EXTENDS HelperThread
=============================================================================

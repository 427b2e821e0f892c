---------------------------- MODULE MCWikiIndex ----------------------------
(* Small instances of WikiIndex: one scene and one planning step. *)
EXTENDS WikiIndex

=============================================================================

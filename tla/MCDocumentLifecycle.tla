------------------------ MODULE MCDocumentLifecycle ------------------------
(***************************************************************************)
(* DocumentLifecycle for TLC: one document (documents share no state in    *)
(* this module), concurrent requests as model values.                      *)
(***************************************************************************)
EXTENDS DocumentRefinement, TLC

=============================================================================

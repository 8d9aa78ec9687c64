------------------------------ MODULE MCImages ------------------------------
(* One tag (the default) and two revisions of the sources: enough for a   *)
(* build to be stale and for every default reference to be used.           *)
EXTENDS Images

MCTags   == {IMAGE_TAG}
MCMaxRev == 2

=============================================================================

------------------------------ MODULE MCPrewarm ------------------------------
(* Two Runs on two machines; each reads an image, and the first may read
   an Artifact as well. *)
EXTENDS Prewarm

MCMachine == <<"m1", "m2">>
MCImages == <<<<"image">>, <<"image">>>>
MCContent == <<<<"image", "artifact">>, <<"image">>>>
=============================================================================

---------------------------- MODULE MCCompositor ----------------------------
(* A few tasks, windows and kills; the .cfg files set the bounds.          *)
EXTENDS Compositor
=============================================================================

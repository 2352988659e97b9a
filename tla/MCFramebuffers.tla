--------------------------- MODULE MCFramebuffers ---------------------------
(* Two windows; pages are alike, and so are the tasks' names but for the   *)
(* compositor's resting one.                                               *)
EXTENDS Framebuffers, TLC

PageSymmetry == Permutations(Page)
=============================================================================

-------------------------- MODULE MCTaskLifecycle --------------------------
(* Zeus, Hades and a few tasks; the .cfg files set the bounds.             *)
EXTENDS TaskLifecycle
=============================================================================

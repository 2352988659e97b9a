---------------------------- MODULE MCOtaSession ----------------------------
(* Tasks differ in nothing but the name of Hades' resting place.           *)
EXTENDS OtaSession
=============================================================================

------------------------------ MODULE MCHermes ------------------------------
EXTENDS Hermes
=============================================================================

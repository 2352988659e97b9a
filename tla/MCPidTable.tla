----------------------------- MODULE MCPidTable -----------------------------
(* The PID ring on its own: every order of allocations and frees.          *)
EXTENDS PidTable
=============================================================================

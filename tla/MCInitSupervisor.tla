-------------------------- MODULE MCInitSupervisor --------------------------
EXTENDS InitSupervisor

Entry(restart, run_once, every, delay, application) ==
    [restart_on_failure |-> restart, run_once |-> run_once,
     start_every |-> every, start_delay |-> delay, application |-> application]

Kept == Entry(TRUE, FALSE, 0, 0, 0)
KeptOfOne == Entry(TRUE, FALSE, 0, 0, 1)
AnotherOfOne == Entry(FALSE, FALSE, 0, 0, 1)
Once == Entry(FALSE, TRUE, 0, 0, 0)
OnceButKept == Entry(TRUE, TRUE, 0, 0, 0)
DelayedPeriodic == Entry(FALSE, FALSE, 3, 3, 0)

MCTables == {<<Once, Kept>>, <<AnotherOfOne, KeptOfOne>>, <<OnceButKept, DelayedPeriodic>>}
=============================================================================

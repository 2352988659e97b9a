------------------------------ MODULE PidTable ------------------------------
(***************************************************************************)
(* The PID allocator of task.c: a ring of NumPids slots that holds the     *)
(* free PIDs between `head' (the next one to hand out) and `tail' (where   *)
(* the next freed one is written).  A slot that holds None (-1) is empty.  *)
(*                                                                         *)
(* Both operations run under pid_table_lock and never block inside it, so  *)
(* each is one step.  `used' is not in the code: it is the set of PIDs     *)
(* that pid_allocate has returned and nobody has freed yet, which Zeus and *)
(* Hades know from their own state.                                        *)
(***************************************************************************)
EXTENDS Integers, FiniteSets

CONSTANT NumPids      (* NUM_PIDS of task.h, 128 in the firmware           *)

ASSUME NumPidsAssumption == NumPids \in Nat /\ NumPids >= 2

MaxPid == NumPids - 1
Pid    == 0..MaxPid
Kernel == 0
None   == -1

VARIABLES pid_table, head, tail, used, refused

pidVars == <<pid_table, head, tail, used, refused>>

NextSlotNoWrap(index) == index + 1
NextSlotSkips(index)  == (index + 2) % NumPids

(* (index + 1) % NUM_PIDS                                                  *)
NextSlot(index) == (index + 1) % NumPids

(* task_init fills slot i with i, then allocates PID 0 for the kernel.     *)
PidInit == /\ pid_table = [i \in Pid |-> IF i = 0 THEN None ELSE i]
           /\ head = 1
           /\ tail = MaxPid
           /\ used = {Kernel}
           /\ refused = FALSE

PidAllocateKeepsSlot == /\ pid_table[head] # None
                        /\ head' = NextSlot(head)
                        /\ used' = used \cup {pid_table[head]}
                        /\ refused' = FALSE
                        /\ UNCHANGED <<pid_table, tail>>

PidAllocate == /\ pid_table[head] # None
               /\ pid_table' = [pid_table EXCEPT ![head] = None]
               /\ head' = NextSlot(head)
               /\ used' = used \cup {pid_table[head]}
               /\ refused' = FALSE
               /\ UNCHANGED tail

(* pid_allocate returns -1 and leaves the ring alone.                      *)
PidRefuse == /\ pid_table[head] = None
             /\ refused' = TRUE
             /\ UNCHANGED <<pid_table, head, tail, used>>

PidFreeKeepsTail(pid) == /\ pid_table' = [pid_table EXCEPT ![tail] = pid]
                         /\ used' = used \ {pid}
                         /\ UNCHANGED <<head, tail, refused>>

(* The slot at tail is overwritten whatever it holds.                      *)
PidFree(pid) == /\ pid_table' = [pid_table EXCEPT ![tail] = pid]
                /\ tail' = NextSlot(tail)
                /\ used' = used \ {pid}
                /\ UNCHANGED <<head, refused>>

(* Only PIDs that were allocated are freed, and the kernel's never is.     *)
PidNext == \/ PidAllocate
           \/ PidRefuse
           \/ \E pid \in used \ {Kernel} : PidFree(pid)

PidSpec == PidInit /\ [][PidNext]_pidVars
-----------------------------------------------------------------------------
(* Every slot is empty or holds a PID, and the indices stay in the ring.   *)
PidTypeOK == /\ pid_table \in [Pid -> Pid \cup {None}]
             /\ head \in Pid
             /\ tail \in Pid
             /\ used \subseteq Pid
             /\ refused \in BOOLEAN

(* No PID is free twice, and none is free while somebody uses it: what     *)
(* pid_allocate returns is nobody else's (task.c: pid_allocate, pid_free). *)
FreePidsAreUnused ==
    \A i \in Pid : pid_table[i] # None =>
        /\ pid_table[i] \notin used
        /\ \A j \in Pid : pid_table[j] = pid_table[i] => i = j

Lost == {p \in Pid \ used : \A i \in Pid : pid_table[i] # p}

(* tail starts one slot behind the first empty one, so the first pid_free  *)
(* may overwrite a free PID.  However many calls follow, that happens to   *)
(* at most one PID (task.c: pid_free).                                     *)
AtMostOnePidLost == \A p, q \in Lost : p = q

(* pid_allocate answers -1 only when at most one PID is not in use.        *)
RefusalMeansExhausted ==
    pid_table[head] = None => \A p, q \in Pid \ used : p = q

(* Every PID but the kernel's can be handed out again: docs/architecture.md*)
(* reserves PID 0 only.                                                    *)
NoPidLost == Lost = {}

(* Why the above hold: the ring is in one of three shapes.                 *)
Filled(i) == pid_table[i] # None

(* From boot: the window is behind the last slot, whose PID is the one the *)
(* next lap of tail will overwrite.                                        *)
Behind == /\ head <= tail
          /\ \A i \in Pid : Filled(i) <=> (head <= i /\ i < tail) \/ i = MaxPid
          /\ Lost = {}

(* Every PID was handed out before any was freed on this lap.              *)
Drained == /\ head = 0
           /\ tail = MaxPid
           /\ \A i \in Pid : ~Filled(i)
           /\ Lost = {}

(* After the overwriting: an ordinary ring of one PID fewer.               *)
InStep == /\ \A i \in Pid : Filled(i) <=> IF head <= tail
                                          THEN head <= i /\ i < tail
                                          ELSE head <= i \/ i < tail
          /\ AtMostOnePidLost

PidInv == /\ PidTypeOK
          /\ Kernel \in used
          /\ FreePidsAreUnused
          /\ Behind \/ Drained \/ InStep

(* The ring implements the set of PIDs the rest of the system relies on.   *)
Pool == INSTANCE PidPool
PoolSpec == Pool!Spec
=============================================================================

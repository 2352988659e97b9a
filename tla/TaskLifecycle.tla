--------------------------- MODULE TaskLifecycle ---------------------------
(***************************************************************************)
(* Birth and death of BadgeVMS tasks (task.c, and vTaskDelete and the idle *)
(* task's clean-up in FreeRTOS' tasks.c).                                  *)
(*                                                                         *)
(* Zeus (core 1, priority 10) creates tasks from the requests in           *)
(* zeus_queue.  A task that dies is handed to the idle tasks, or deleted   *)
(* at once if it was not running; either way FreeRTOS forgets it, then the *)
(* deletion hook puts its PID in hades_queue, for which it may have to     *)
(* wait, and Hades (core 1, priority 11) takes its possessions, tells its  *)
(* parent, and kills its children.                                         *)
(*                                                                         *)
(* Handles are never reused here, so that a use of freed memory shows:     *)
(* the first one is recorded in `fault' and ends the behaviour, since C    *)
(* promises nothing after it.                                              *)
(*                                                                         *)
(* Scheduling: Zeus runs only while Hades is blocked, and the user tasks,  *)
(* all pinned to core 1, only while both are.  Init, the compositor and    *)
(* one of the two idle tasks run on core 0, at any time.                   *)
(***************************************************************************)
EXTENDS PidTable, Sequences

CONSTANTS MaxTasks,         (* bound: tasks ever created                   *)
          MaxFailures,      (* bound: creations that run out of memory     *)
          MaxKills,         (* bound: tasks killed by the compositor       *)
          HadesQueueLen,    (* length of hades_queue, 16 in task_init      *)
          ChildrenLen       (* length of a children queue, 10 or 100       *)

ASSUME LifecycleAssumption ==
    /\ MaxTasks \in Nat \ {0}
    /\ MaxFailures \in Nat
    /\ MaxKills \in Nat
    /\ HadesQueueLen \in Nat \ {0}
    /\ ChildrenLen \in Nat \ {0}

InitTask == 0               (* the kernel's main task, which runs init.c   *)
UserTask == 1..MaxTasks
Task     == {InitTask} \cup UserTask
Nobody   == -1              (* the NULL of process_table                   *)

VARIABLES
    tcb,            (* what FreeRTOS knows of each task                    *)
    info,           (* its task_info_t; in `late', history: it was made    *)
                    (* while Hades destroyed its heap                      *)
    refcount,       (* of the task_thread_t made with that task            *)
    freed_heaps,    (* the task_thread_t's (by maker) Hades has destroyed  *)
    process_table,  (* the task of each PID, or Nobody                     *)
    table_lock,     (* holder of process_table_lock, or "free"             *)
    children,       (* each task's queue of dead children                  *)
    zeus_queue, zeus,
    hades_queue, hades,
    num_tasks,
    failures, kills,
    fault           (* the first use of freed memory, or "none"            *)

sysVars == <<tcb, info, refcount, freed_heaps, process_table, table_lock, children,
             zeus_queue, zeus, hades_queue, hades, num_tasks, failures, kills, fault>>
vars == <<pidVars, sysVars>>

(* "asking" is blocked in ulTaskNotifyTakeIndexed until Zeus answers;      *)
(* "ending" is deleted but not yet freed (xTasksWaitingTermination);       *)
(* "killed", "reaped", "slain" is in no list any more and has its death    *)
(* reported by the compositor, an idle task, or Hades.                     *)
Unlisted == {"killed", "reaped", "slain"}
TcbState == {"unborn", "ready", "asking", "ending", "freed"} \cup Unlisted

NoInfo == [state |-> "none", pid |-> None, parent |-> None, maker |-> None, heap |-> None,
           late |-> FALSE]

LifecycleInit ==
    /\ PidInit
    /\ tcb = [t \in Task |-> IF t = InitTask THEN "ready" ELSE "unborn"]
    /\ info = [t \in Task |-> IF t = InitTask
                 THEN [NoInfo EXCEPT !.state = "live", !.pid = 0, !.parent = 0, !.heap = 0]
                 ELSE NoInfo]
    /\ refcount = [t \in UserTask |-> 0]
    /\ freed_heaps = {}
    /\ process_table = [p \in Pid |-> IF p = 0 THEN InitTask ELSE Nobody]
    /\ table_lock = "free"
    /\ children = [t \in Task |-> <<>>]
    /\ zeus_queue = <<>>
    /\ zeus = [pc |-> "wait", caller |-> None, type |-> "process",
               pid |-> None, child |-> Nobody, loaded |-> 0]
    /\ hades_queue = <<>>
    /\ hades = [pc |-> "wait", pid |-> None, task |-> Nobody, last |-> FALSE, next |-> 1]
    /\ num_tasks = 0
    /\ failures = 0
    /\ kills = 0
    /\ fault = "none"
-----------------------------------------------------------------------------
Sane == fault = "none"

QueueFull == Len(hades_queue) = HadesQueueLen

(* The children Hades' loop has still to kill.  The loop ends before       *)
(* MAX_PID.                                                                *)
Victims == {i \in hades.next..(MaxPid - 1) :
              process_table[i] # Nobody /\ info[process_table[i]].parent = hades.pid}

Slain == {t \in UserTask : tcb[t] = "slain"}

(* While it closes what a dead task left open Hades may wait: for room in  *)
(* compositor_queue, the locks of the file systems and the page allocator. *)
HadesBlocked == \/ hades.pc = "wait" /\ hades_queue = <<>>
                \/ hades.pc = "dying"
                \/ hades.pc \in {"remove", "signal"} /\ table_lock # "free"
                \/ Slain # {} /\ QueueFull
                \/ hades.pc = "delay"

ZeusBlocked == \/ zeus.pc = "wait" /\ zeus_queue = <<>>
               \/ zeus.pc = "publish" /\ table_lock # "free"
               \/ zeus.pc = "delay"

UsersMayRun == HadesBlocked /\ ZeusBlocked

(* Until Zeus has set thread-local slot 1, a new task does not know its    *)
(* task_info and nobody else knows the task.                               *)
Unpublished == IF zeus.pc = "publish" THEN {zeus.child} ELSE {}

(* It does not run before Zeus next blocks, so it has no window yet.       *)
Newborn == IF zeus.pc \in {"publish", "count", "answer"} THEN {zeus.child} ELSE {}

MayRun(t) == /\ tcb[t] = "ready"
             /\ IF t = InitTask THEN table_lock # "init"
                ELSE /\ UsersMayRun /\ t \notin Unpublished
                     /\ info[t].heap \notin freed_heaps

Unborn == {u \in UserTask : tcb[u] = "unborn"}

(* FreeRTOS takes the task from its lists (vTaskDelete of one that does    *)
(* not run, or prvCheckTasksWaitingTermination).                           *)
Unlink(t, by) == tcb' = [tcb EXCEPT ![t] = by]

DeleteTCBUnreported(t) == /\ tcb' = [tcb EXCEPT ![t] = "freed"]
                          /\ UNCHANGED hades_queue

(* prvDeleteTCB: the hook reports the PID, then the TCB is freed.          *)
DeleteTCB(t) == /\ ~QueueFull
                /\ hades_queue' = Append(hades_queue, info[t].pid)
                /\ tcb' = [tcb EXCEPT ![t] = "freed"]

(* process_table_add_task and process_table_remove_task                    *)
Enlist(pid, t) == process_table' = [process_table EXCEPT ![pid] = t]
UnlistNothing(pid) == UNCHANGED process_table
Unlist(pid) == process_table' = [process_table EXCEPT ![pid] = Nobody]

(* The counts of task_thread_init and task_thread_ref.                     *)
TakeRefAnew(heap) == refcount' = [refcount EXCEPT ![heap] = 1]
TakeRef(heap) == refcount' = [refcount EXCEPT ![heap] = @ + 1]

(* The parent's queue takes a dead child if it has room.                   *)
TellAlways(parent, t) == children' = [children EXCEPT ![parent] = Append(@, t)]
Tell(parent, t) == children' = IF Len(children[parent]) < ChildrenLen
                               THEN [children EXCEPT ![parent] = Append(@, t)]
                               ELSE children
-----------------------------------------------------------------------------
(* User tasks and init *)

(* run_task and thread_create, up to the wait for the answer.              *)
Request(t, type) ==
    /\ Sane
    /\ MayRun(t)
    /\ t = InitTask => type = "process"
    /\ zeus_queue = <<>>
    /\ Cardinality(Unborn) > IF zeus.pc = "build" THEN 1 ELSE 0
    /\ zeus_queue' = <<[caller |-> t, type |-> type]>>
    /\ tcb' = [tcb EXCEPT ![t] = "asking"]
    /\ UNCHANGED <<info, refcount, freed_heaps, process_table, table_lock, children, zeus,
                   hades_queue, hades, num_tasks, failures, kills, fault, pidVars>>

(* wait() takes the next dead child.                                       *)
Wait(t) ==
    /\ Sane
    /\ MayRun(t)
    /\ children[t] # <<>>
    /\ children' = [children EXCEPT ![t] = Tail(@)]
    /\ UNCHANGED <<tcb, info, refcount, freed_heaps, process_table, table_lock, zeus_queue,
                   zeus, hades_queue, hades, num_tasks, failures, kills, fault, pidVars>>

(* vTaskDelete(NULL): a return from the entry point, exit, abort, or an    *)
(* exception caught by Cerberos.                                           *)
Exit(t) ==
    /\ Sane
    /\ t # InitTask
    /\ MayRun(t)
    /\ tcb' = [tcb EXCEPT ![t] = "ending"]
    /\ UNCHANGED <<info, refcount, freed_heaps, process_table, table_lock, children,
                   zeus_queue, zeus, hades_queue, hades, num_tasks, failures, kills, fault,
                   pidVars>>

(* A new task is ready from the moment xTaskCreate returns: if Zeus blocks *)
(* before it has set thread-local slot 1, the task runs as the kernel.     *)
RunUnpublished(t) ==
    /\ Sane
    /\ t \in Unpublished
    /\ UsersMayRun
    /\ fault' = "ran as the kernel"
    /\ UNCHANGED <<tcb, info, refcount, freed_heaps, process_table, table_lock, children,
                   zeus_queue, zeus, hades_queue, hades, num_tasks, failures, kills, pidVars>>

(* A thread made on the heap of a dying parent: task_switched_in_hook      *)
(* maps pages by a task_thread_t that Hades has freed.                     *)
RunInFreedHeap(t) ==
    /\ Sane
    /\ tcb[t] = "ready" /\ t \notin Unpublished
    /\ UsersMayRun
    /\ info[t].heap \in freed_heaps
    /\ fault' = "ran in a freed heap"
    /\ UNCHANGED <<tcb, info, refcount, freed_heaps, process_table, table_lock, children,
                   zeus_queue, zeus, hades_queue, hades, num_tasks, failures, kills, pidVars>>

(* Init reads the process table (task_application_is_running) between      *)
(* starts: it holds the lock meanwhile.                                    *)
InitScan ==
    /\ Sane
    /\ MayRun(InitTask)
    /\ table_lock = "free"
    /\ table_lock' = "init"
    /\ UNCHANGED <<tcb, info, refcount, freed_heaps, process_table, children, zeus_queue, zeus,
                   hades_queue, hades, num_tasks, failures, kills, fault, pidVars>>

InitScanDone ==
    /\ Sane
    /\ table_lock = "init"
    /\ table_lock' = "free"
    /\ UNCHANGED <<tcb, info, refcount, freed_heaps, process_table, children, zeus_queue, zeus,
                   hades_queue, hades, num_tasks, failures, kills, fault, pidVars>>

(* The compositor kills the owner of the front window, from core 0, one    *)
(* at a time.  If the task is running it is left to the idle tasks.        *)
Kill(t) ==
    /\ Sane
    /\ kills < MaxKills
    /\ \A u \in UserTask : tcb[u] # "killed"
    /\ tcb[t] \in {"ready", "asking"}
    /\ t \notin Newborn
    /\ \/ MayRun(t) /\ tcb' = [tcb EXCEPT ![t] = "ending"]
       \/ Unlink(t, "killed")
    /\ kills' = kills + 1
    /\ UNCHANGED <<info, refcount, freed_heaps, process_table, table_lock, children,
                   zeus_queue, zeus, hades_queue, hades, num_tasks, failures, fault, pidVars>>

(* prvCheckTasksWaitingTermination, on either core.                        *)
IdleReap(t) ==
    /\ Sane
    /\ tcb[t] = "ending"
    /\ Cardinality({u \in UserTask : tcb[u] = "reaped"}) < 2
    /\ Unlink(t, "reaped")
    /\ UNCHANGED <<info, refcount, freed_heaps, process_table, table_lock, children,
                   zeus_queue, zeus, hades_queue, hades, num_tasks, failures, kills, fault,
                   pidVars>>

(* Whoever took the task from its lists goes on, once there is room.       *)
Report(t) ==
    /\ Sane
    /\ tcb[t] \in Unlisted
    /\ DeleteTCB(t)
    /\ UNCHANGED <<info, refcount, freed_heaps, process_table, table_lock, children,
                   zeus_queue, zeus, hades, num_tasks, failures, kills, fault, pidVars>>
-----------------------------------------------------------------------------
(* Zeus *)

ParentInfo == info[zeus.caller]
ParentUsable == /\ ParentInfo.state = "live"
                /\ zeus.type = "thread" => ParentInfo.heap \notin freed_heaps

ZeusReceive ==
    /\ Sane
    /\ HadesBlocked
    /\ zeus.pc = "wait" /\ zeus_queue # <<>>
    /\ zeus_queue' = <<>>
    /\ \/ /\ PidAllocate
          /\ zeus' = [zeus EXCEPT !.pc = "build", !.pid = pid_table[head], !.child = Nobody,
                                  !.caller = zeus_queue[1].caller, !.type = zeus_queue[1].type]
       \/ /\ PidRefuse
          /\ zeus' = [zeus EXCEPT !.pc = "answer", !.pid = None, !.child = Nobody,
                                  !.caller = zeus_queue[1].caller, !.type = zeus_queue[1].type]
    /\ UNCHANGED <<tcb, info, refcount, freed_heaps, process_table, table_lock, children,
                   hades_queue, hades, num_tasks, failures, kills, fault>>

(* The error label: the PID is freed, and is still what Zeus answers.      *)
ZeusGivesUp ==
    /\ failures < MaxFailures
    /\ PidFree(zeus.pid)
    /\ zeus' = [zeus EXCEPT !.pc = "answer"]
    /\ failures' = failures + 1

(* No memory for the task_info_t or for the task_thread_t.                 *)
ZeusOutOfMemory ==
    /\ Sane
    /\ HadesBlocked
    /\ zeus.pc = "build"
    /\ ZeusGivesUp
    /\ UNCHANGED <<tcb, info, refcount, freed_heaps, process_table, table_lock, children,
                   zeus_queue, hades_queue, hades, num_tasks, kills, fault>>

(* xTaskCreate fails: a thread keeps its reference to the parent's heap.   *)
ZeusCreateFails ==
    /\ Sane
    /\ HadesBlocked
    /\ zeus.pc = "build"
    /\ ParentUsable
    /\ ZeusGivesUp
    /\ IF zeus.type = "thread" THEN TakeRef(ParentInfo.heap) ELSE UNCHANGED refcount
    /\ UNCHANGED <<tcb, info, freed_heaps, process_table, table_lock, children,
                   zeus_queue, hades_queue, hades, num_tasks, kills, fault>>

(* Zeus follows parent_task_info, which Hades may have freed meanwhile,    *)
(* or its thread, which Hades may have freed before it.                    *)
ZeusReadsFreedInfo ==
    /\ Sane
    /\ HadesBlocked
    /\ zeus.pc = "build"
    /\ ~ParentUsable
    /\ fault' = "freed parent"
    /\ UNCHANGED <<tcb, info, refcount, freed_heaps, process_table, table_lock, children,
                   zeus_queue, zeus, hades_queue, hades, num_tasks, failures, kills, pidVars>>

(* Hades has counted the last user of this heap and is destroying it.      *)
Dying(heap) == hades.pc = "dying" /\ hades.last /\ info[hades.task].heap = heap

(* task_thread_ref refuses only when the count was -1, so it takes a       *)
(* reference to a heap whose count has dropped to 0.                       *)
ZeusBuild ==
    /\ Sane
    /\ HadesBlocked
    /\ zeus.pc = "build"
    /\ ParentUsable
    /\ \E new \in Unborn :
         LET heap == IF zeus.type = "thread" THEN ParentInfo.heap ELSE new
         IN  /\ \A u \in Unborn : new <= u
             /\ tcb' = [tcb EXCEPT ![new] = "ready"]
             /\ info' = [info EXCEPT ![new] = [state |-> "live", pid |-> zeus.pid,
                            parent |-> ParentInfo.pid, maker |-> zeus.caller, heap |-> heap,
                            late |-> Dying(heap)]]
             /\ TakeRef(heap)
             /\ zeus' = [zeus EXCEPT !.pc = "publish", !.child = new]
    /\ UNCHANGED <<freed_heaps, process_table, table_lock, children, zeus_queue, hades_queue,
                   hades, num_tasks, failures, kills, fault, pidVars>>

(* process_table_add_task and the thread-local slots; then the load of     *)
(* num_tasks in ++num_tasks.                                               *)
ZeusPublish ==
    /\ Sane
    /\ HadesBlocked
    /\ zeus.pc = "publish" /\ table_lock = "free"
    /\ Enlist(zeus.pid, zeus.child)
    /\ zeus' = [zeus EXCEPT !.pc = "count", !.loaded = num_tasks]
    /\ UNCHANGED <<tcb, info, refcount, freed_heaps, table_lock, children, zeus_queue,
                   hades_queue, hades, num_tasks, failures, kills, fault, pidVars>>

ZeusCountForgets ==
    /\ Sane
    /\ HadesBlocked
    /\ zeus.pc = "count"
    /\ zeus' = [zeus EXCEPT !.pc = "answer", !.loaded = 0]
    /\ UNCHANGED <<tcb, info, refcount, freed_heaps, process_table, table_lock, children,
                   zeus_queue, hades_queue, hades, num_tasks, failures, kills, fault, pidVars>>

(* The store of ++num_tasks.                                               *)
ZeusCount ==
    /\ Sane
    /\ HadesBlocked
    /\ zeus.pc = "count"
    /\ num_tasks' = zeus.loaded + 1
    /\ zeus' = [zeus EXCEPT !.pc = "answer", !.loaded = 0]
    /\ UNCHANGED <<tcb, info, refcount, freed_heaps, process_table, table_lock, children,
                   zeus_queue, hades_queue, hades, failures, kills, fault, pidVars>>

NotifyOtherIndex(t) == UNCHANGED tcb
Notify(t) == tcb' = [tcb EXCEPT ![t] = "ready"]

(* The caller is notified unless it is deleted, as one in no list is.      *)
(* Whether eTaskGetState tells that of a freed TCB is chance.              *)
ZeusAnswer ==
    /\ Sane
    /\ HadesBlocked
    /\ zeus.pc = "answer"
    /\ \/ /\ tcb[zeus.caller] = "asking"
          /\ Notify(zeus.caller)
          /\ UNCHANGED fault
       \/ tcb[zeus.caller] \in Unlisted /\ UNCHANGED <<tcb, fault>>
       \/ /\ tcb[zeus.caller] = "freed"
          /\ fault' \in {"none", "notified a freed task"}
          /\ UNCHANGED tcb
    /\ zeus' = [zeus EXCEPT !.pc = "delay"]
    /\ UNCHANGED <<info, refcount, freed_heaps, process_table, table_lock, children,
                   zeus_queue, hades_queue, hades, num_tasks, failures, kills, pidVars>>

ZeusWake ==
    /\ Sane
    /\ zeus.pc = "delay"
    /\ zeus' = [zeus EXCEPT !.pc = "wait", !.caller = None, !.type = "process",
                            !.pid = None, !.child = Nobody]
    /\ UNCHANGED <<tcb, info, refcount, freed_heaps, process_table, table_lock, children,
                   zeus_queue, hades_queue, hades, num_tasks, failures, kills, fault, pidVars>>
-----------------------------------------------------------------------------
(* Hades *)

HadesReceiveFreesPid ==
    /\ Sane
    /\ hades.pc = "wait" /\ hades_queue # <<>>
    /\ hades_queue' = Tail(hades_queue)
    /\ PidFree(Head(hades_queue))
    /\ hades' = [hades EXCEPT !.pc = "remove", !.pid = Head(hades_queue),
                              !.task = process_table[Head(hades_queue)]]
    /\ UNCHANGED <<tcb, info, refcount, freed_heaps, process_table, table_lock, children,
                   zeus_queue, zeus, num_tasks, failures, kills, fault>>

(* A PID without a task would only be logged; DeathsReportedOnce shows     *)
(* that none arrives.                                                      *)
HadesReceive ==
    /\ Sane
    /\ hades.pc = "wait" /\ hades_queue # <<>>
    /\ hades_queue' = Tail(hades_queue)
    /\ LET task == process_table[Head(hades_queue)]
       IN  hades' = IF task = Nobody THEN hades
                    ELSE [hades EXCEPT !.pc = "remove", !.pid = Head(hades_queue),
                                       !.task = task]
    /\ UNCHANGED <<tcb, info, refcount, freed_heaps, process_table, table_lock, children,
                   zeus_queue, zeus, num_tasks, failures, kills, fault, pidVars>>

(* process_table_remove_task, and the count of task_thread_destroy.        *)
HadesRemove ==
    /\ Sane
    /\ hades.pc = "remove" /\ table_lock = "free"
    /\ info[hades.task].heap \notin freed_heaps
    /\ Unlist(info[hades.task].pid)
    /\ LET heap == info[hades.task].heap
       IN  /\ refcount' = [refcount EXCEPT ![heap] = @ - 1]
           /\ hades' = [hades EXCEPT !.pc = "dying", !.last = (refcount[heap] = 1)]
    /\ UNCHANGED <<tcb, info, freed_heaps, table_lock, children, zeus_queue, zeus,
                   hades_queue, num_tasks, failures, kills, fault, pidVars>>

(* The thread of a dying parent died too: its count is in freed memory.    *)
HadesCountsFreedHeap ==
    /\ Sane
    /\ hades.pc = "remove" /\ table_lock = "free"
    /\ info[hades.task].heap \in freed_heaps
    /\ fault' = "counted a freed heap"
    /\ UNCHANGED <<tcb, info, refcount, freed_heaps, process_table, table_lock, children,
                   zeus_queue, zeus, hades_queue, hades, num_tasks, failures, kills, pidVars>>

(* The rest of task_thread_destroy, and task_info_delete.                  *)
HadesDestroy ==
    /\ Sane
    /\ hades.pc = "dying"
    /\ freed_heaps' = IF hades.last THEN freed_heaps \cup {info[hades.task].heap}
                                    ELSE freed_heaps
    /\ info' = [info EXCEPT ![hades.task].state = "freed"]
    /\ children' = [children EXCEPT ![hades.task] = <<>>]
    /\ hades' = [hades EXCEPT !.pc = "signal"]
    /\ UNCHANGED <<tcb, refcount, process_table, table_lock, zeus_queue, zeus, hades_queue,
                   num_tasks, failures, kills, fault, pidVars>>

(* Hades takes the lock and tells the parent, if its queue has room.  The  *)
(* entry names the task as well as the PID that the code sends.            *)
HadesSignal ==
    /\ Sane
    /\ hades.pc = "signal" /\ table_lock = "free"
    /\ table_lock' = "hades"
    /\ LET parent == process_table[info[hades.task].parent]
       IN  IF parent # Nobody THEN Tell(parent, hades.task) ELSE UNCHANGED children
    /\ hades' = [hades EXCEPT !.pc = "kill", !.next = 1]
    /\ UNCHANGED <<tcb, info, refcount, freed_heaps, process_table, zeus_queue, zeus,
                   hades_queue, num_tasks, failures, kills, fault, pidVars>>

(* vTaskDelete of the next child: it is not running, since Hades is.  A    *)
(* child that died by itself may be in no list any more, or freed.         *)
HadesKillChild ==
    /\ Sane
    /\ hades.pc = "kill" /\ Slain = {}
    /\ \E i \in Victims :
         LET victim == process_table[i]
         IN  /\ \A j \in Victims : i <= j
             /\ \/ /\ tcb[victim] \in {"ready", "asking", "ending"}
                   /\ Unlink(victim, "slain")
                   /\ UNCHANGED fault
                \/ /\ tcb[victim] \in Unlisted \cup {"freed"}
                   /\ fault' = "deleted a freed task"
                   /\ UNCHANGED tcb
             /\ hades' = [hades EXCEPT !.next = i + 1]
    /\ UNCHANGED <<info, refcount, freed_heaps, process_table, table_lock, children,
                   zeus_queue, zeus, hades_queue, num_tasks, failures, kills, pidVars>>

HadesRelease ==
    /\ Sane
    /\ hades.pc = "kill" /\ Slain = {}
    /\ Victims = {}
    /\ table_lock' = "free"
    /\ PidFree(hades.pid)
    /\ num_tasks' = num_tasks - 1
    /\ hades' = [hades EXCEPT !.pc = "delay", !.pid = None, !.task = Nobody,
                              !.last = FALSE, !.next = 1]
    /\ UNCHANGED <<tcb, info, refcount, freed_heaps, process_table, children, zeus_queue,
                   zeus, hades_queue, failures, kills, fault>>

(* Ten milliseconds are enough for a preempted Zeus to go on until it      *)
(* blocks.                                                                 *)
HadesWake ==
    /\ Sane
    /\ hades.pc = "delay"
    /\ ZeusBlocked
    /\ hades' = [hades EXCEPT !.pc = "wait"]
    /\ UNCHANGED <<tcb, info, refcount, freed_heaps, process_table, table_lock, children,
                   zeus_queue, zeus, hades_queue, num_tasks, failures, kills, fault, pidVars>>
-----------------------------------------------------------------------------
ZeusStep == \/ ZeusReceive \/ ZeusOutOfMemory \/ ZeusCreateFails \/ ZeusReadsFreedInfo
            \/ ZeusBuild \/ ZeusPublish \/ ZeusCount \/ ZeusAnswer \/ ZeusWake

HadesStep == \/ HadesReceive \/ HadesRemove \/ HadesCountsFreedHeap \/ HadesDestroy \/ HadesSignal
             \/ HadesKillChild \/ HadesRelease \/ HadesWake

UserStep(t) == \/ \E type \in {"process", "thread"} : Request(t, type)
               \/ Wait(t) \/ Exit(t) \/ RunUnpublished(t) \/ RunInFreedHeap(t)
               \/ Kill(t) \/ IdleReap(t) \/ Report(t)

InitStep == Request(InitTask, "process") \/ Wait(InitTask) \/ InitScan \/ InitScanDone

Next == \/ ZeusStep
        \/ HadesStep
        \/ InitStep
        \/ \E t \in UserTask : UserStep(t)

SafetySpec == LifecycleInit /\ [][Next]_vars

(* Every task of the system is scheduled when nothing above it is ready,   *)
(* Hades and Zeus sleep for bounded times, and the reader of the process   *)
(* table gives the lock back.  A waiter of process_table_lock is woken by  *)
(* the Give and outranks the tasks that could take it again, hence SF.     *)
Fairness ==
    /\ WF_vars(InitScanDone)
    /\ SF_vars(ZeusPublish) /\ SF_vars(HadesSignal)
    /\ SF_vars(HadesRemove \/ HadesCountsFreedHeap)
    /\ WF_vars(ZeusStep) /\ WF_vars(HadesStep)
    /\ \A t \in UserTask : WF_vars(IdleReap(t)) /\ WF_vars(Report(t))

Spec == SafetySpec /\ Fairness
-----------------------------------------------------------------------------
Live(t)     == info[t].state = "live"
Holds(t)    == tcb[t] \notin {"unborn", "freed"}
Published   == {process_table[p] : p \in Pid} \cap UserTask
Handled     == IF hades.pc \in {"remove", "dying"} THEN {hades.task} ELSE {}
Reported(p) == Cardinality({i \in DOMAIN hades_queue : hades_queue[i] = p})

TaskInfo == [state : {"none", "live", "freed"}, pid : Pid \cup {None},
             parent : Pid \cup {None}, maker : Task \cup {None}, heap : Task \cup {None},
             late : BOOLEAN]

LifecycleTypeOK ==
    /\ PidTypeOK
    /\ tcb \in [Task -> TcbState]
    /\ info \in [Task -> TaskInfo]
    /\ refcount \in [UserTask -> Int]
    /\ freed_heaps \subseteq Task \cup {None}
    /\ process_table \in [Pid -> Task \cup {Nobody}]
    /\ table_lock \in {"free", "init", "hades"}
    /\ children \in [Task -> Seq(UserTask)]
    /\ zeus_queue \in Seq([caller : Task, type : {"process", "thread"}])
    /\ zeus \in [pc : {"wait", "build", "publish", "count", "answer", "delay"},
                 caller : Task \cup {None}, type : {"process", "thread"},
                 pid : Pid \cup {None}, child : UserTask \cup {Nobody}, loaded : Int]
    /\ hades_queue \in Seq(Pid)
    /\ hades \in [pc : {"wait", "remove", "dying", "signal", "kill", "delay"},
                  pid : Pid \cup {None}, task : Task \cup {Nobody}, last : BOOLEAN,
                  next : Nat \ {0}]
    /\ num_tasks \in Int
    /\ failures \in 0..MaxFailures
    /\ kills \in 0..MaxKills

(* A PID names one task at a time, and stays allocated until that task is  *)
(* nowhere to be found: not in the process table, and not in a message to  *)
(* Hades (task.c: "Don't free our PID until the last moment").             *)
PidFreedLast ==
    /\ \A t, u \in UserTask : Live(t) /\ Live(u) /\ info[t].pid = info[u].pid => t = u
    /\ \A t \in UserTask : Live(t) => info[t].pid \in used
    /\ \A p \in Pid \ used : process_table[p] = Nobody /\ Reported(p) = 0

(* However a task dies, and whoever deletes it, Hades hears of it exactly  *)
(* once, and not before FreeRTOS has let go of it (vTaskPreDeletionHook).  *)
DeathsReportedOnce ==
    \A t \in UserTask : Live(t) /\ t \notin Unpublished =>
        Reported(info[t].pid) + (IF t \in Handled THEN 1 ELSE 0)
            = IF tcb[t] = "freed" THEN 1 ELSE 0

(* process_table shows each task under its PID from its publication until  *)
(* Hades takes it, and never points at a freed task_info_t.                *)
Shown(t) == Live(t) /\ t \notin Unpublished /\ ~(hades.pc = "dying" /\ hades.task = t)
TableIsExact ==
    \A t \in UserTask, p \in Pid :
        process_table[p] = t <=> Shown(t) /\ info[t].pid = p

(* The heap of a process and its threads lives as long as any task that    *)
(* FreeRTOS still has lives in it, but for a thread that was made while    *)
(* Hades, having counted the last, was closing the windows and files of    *)
(* that heap (task_thread_ref, task_thread_destroy).                       *)
HeapOutlivesUsers ==
    \A t \in UserTask : Holds(t) /\ info[t].heap \in freed_heaps => info[t].late

(* The count is that of the tasks in the heap, and of the references that  *)
(* failed creations keep: never fewer, so no heap is freed early.          *)
RefcountCoversUsers ==
    \A h \in UserTask :
        LET sharers == {t \in UserTask : /\ Live(t) /\ info[t].heap = h
                                         /\ ~(hades.pc = "dying" /\ hades.task = t)}
        IN  /\ refcount[h] >= Cardinality(sharers)
            /\ refcount[h] <= Cardinality(sharers) + failures

(* A child queue holds only children that are dead, none twice, whatever   *)
(* the order in which they and their parent died.                          *)
ReportsAreOfTheDead ==
    \A c \in Task :
        /\ Len(children[c]) <= ChildrenLen
        /\ \A i, j \in DOMAIN children[c] :
              /\ info[children[c][i]].state = "freed"
              /\ children[c][i] = children[c][j] => i = j

(* num_tasks may drift from the number of tasks, but never below it.       *)
Counted == Published \cup (IF hades.pc \in {"remove", "dying", "signal", "kill"}
                           THEN {hades.task} ELSE {})
NumTasksNeverBelow ==
    num_tasks + (IF zeus.pc = "count" THEN 1 ELSE 0) >= Cardinality(Counted)

(* A task that ends is reaped in the end: FreeRTOS, the hook and Hades     *)
(* leave nobody behind, as long as hades_queue has room (HadesNeverStuck). *)
DeadAreReaped ==
    \A t \in UserTask : tcb[t] = "ending" ~> info[t].state = "freed" \/ fault # "none"

(* Whoever asks Zeus for a task gets an answer, or dies waiting.           *)
RequestsAreAnswered ==
    \A t \in Task : tcb[t] = "asking" ~> tcb[t] # "asking" \/ fault # "none"
-----------------------------------------------------------------------------
(* Why the bookkeeping is right: each PID in use is in one place           *)

Busy == hades.pc \in {"remove", "dying", "signal", "kill"}
OwnedBy(p) == {t \in UserTask : Live(t) /\ info[t].pid = p}

(* Tasks live in UserTask from ZeusBuild to HadesDestroy.                  *)
TasksInv ==
    /\ info[InitTask].state = "live" /\ info[InitTask].pid = Kernel
    /\ tcb[InitTask] \in {"ready", "asking"}
    /\ \A t \in Task :
         /\ tcb[t] = "unborn" <=> info[t].state = "none"
         /\ info[t].state # "none" => info[t].pid \in Pid /\ info[t].parent \in Pid
         /\ info[t].state = "freed" => tcb[t] = "freed"
    /\ \A t \in UserTask : Live(t) => info[t].pid \in used \ {Kernel}
    /\ \A t, u \in UserTask : Live(t) /\ Live(u) /\ info[t].pid = info[u].pid => t = u

TableInv == /\ TableIsExact
            /\ \A p \in Pid : process_table[p] = InitTask <=> p = Kernel

(* hades_queue holds the PIDs of the freed TCBs that Hades has not taken,  *)
(* each once.                                                              *)
Distinct(s) == \A i, j \in DOMAIN s : s[i] = s[j] => i = j
Members(s)  == {s[i] : i \in DOMAIN s}
Unreaped    == {t \in UserTask : /\ Live(t) /\ tcb[t] = "freed"
                                 /\ t \notin Handled /\ t \notin Unpublished}
QueueInv    == /\ Distinct(hades_queue)
               /\ Members(hades_queue) = {info[t].pid : t \in Unreaped}

(* Whoever asks exists, and the PID that Zeus has allocated belongs to     *)
(* nobody until the task does.                                             *)
ZeusInv ==
    /\ zeus_queue # <<>> => info[zeus_queue[1].caller].state # "none"
    /\ zeus.pc # "wait" => zeus.caller \in Task /\ info[zeus.caller].state # "none"
    /\ zeus.pc = "build" =>
         /\ zeus.pid \in used \ {Kernel}
         /\ OwnedBy(zeus.pid) = {}
         /\ Busy => hades.pid # zeus.pid
    /\ zeus.pc = "publish" =>
         /\ zeus.child \in UserTask /\ Live(zeus.child) /\ tcb[zeus.child] = "ready"
         /\ info[zeus.child].pid = zeus.pid

(* The PID that Hades holds is in use until HadesRelease, with its task    *)
(* and then without.                                                       *)
HadesInv ==
    /\ Busy => hades.pid \in used \ {Kernel}
    /\ hades.pc \in {"remove", "dying"} =>
         /\ hades.task \in UserTask /\ Live(hades.task) /\ tcb[hades.task] = "freed"
         /\ info[hades.task].pid = hades.pid
         /\ hades.task \notin Unpublished
    /\ hades.pc = "signal" => hades.task \in UserTask /\ info[hades.task].state = "freed"
    /\ hades.pc \in {"signal", "kill"} => OwnedBy(hades.pid) = {}

LifecycleInv == /\ PidInv /\ LifecycleTypeOK
                /\ TasksInv /\ TableInv /\ QueueInv /\ ZeusInv /\ HadesInv

(* No PID leaks, whatever fails or dies where: one that pid_allocate has   *)
(* given out is the kernel's or a task's, or Zeus builds its task, or      *)
(* Hades has still to free it.  So run_task is refused for want of a PID   *)
(* only when all but one are in such hands (task.c: pid_free, zeus, hades).*)
InHand(p) == \/ p = Kernel \/ OwnedBy(p) # {}
             \/ zeus.pc = "build" /\ p = zeus.pid
             \/ Busy /\ p = hades.pid
NoPidLeaks == \A p \in Pid : p \in used <=> InHand(p)
RefusedForWantOfPids ==
    pid_table[head] = None => \A p, q \in Pid : ~InHand(p) /\ ~InHand(q) => p = q

(* What remains of zeus' "even I can't do this", of a thread from a dying  *)
(* parent: it is refused to all who live.  Who asked for a thread that was *)
(* made on a dying heap was dead, or such a thread itself.                 *)
OnlyTheDeadGetLateThreads ==
    \A t \in UserTask : info[t].late =>
        info[t].maker \in UserTask /\ (tcb[info[t].maker] = "freed" \/ info[info[t].maker].late)

(* Nobody waits for room in hades_queue unless as many tasks as it has     *)
(* places are deleted and not yet reaped (task_init: 16).                  *)
OnlyManyDeadFillQueue ==
    QueueFull => Cardinality({t \in UserTask : Live(t) /\ tcb[t] = "freed"}) >= HadesQueueLen
-----------------------------------------------------------------------------
(* What the documentation promises and the code does not keep              *)

(* process.h: get_num_tasks is "the total number of running tasks".        *)
NumTasksExact ==
    zeus.pc \in {"wait", "delay"} /\ hades.pc \in {"wait", "delay"} =>
        num_tasks = Cardinality(Published)

(* hades: "Clean up any child processes or threads this process might have *)
(* left behind": no task outlives its parent's passage through Hades.  (The  *)
(* child with PID MAX_PID always does, see Victims.)                       *)
NoneLeftBehind ==
    \A t \in UserTask :
        t \in Published /\ tcb[t] # "freed" /\ info[t].pid # MaxPid =>
            \/ process_table[info[t].parent] # Nobody
            \/ hades.pid = info[t].parent

(* zeus: no thread is created "from a dying parent".                       *)
NoThreadFromDyingParent == \A t \in UserTask : ~info[t].late

(* wait() returns "the pid of the child process that terminated".          *)
ReportsGoToTheMaker ==
    \A c \in Task : \A i \in DOMAIN children[c] : info[children[c][i]].maker = c

(* Hades never waits for room in the queue that only Hades empties.        *)
HadesNeverStuck == ~(Slain # {} /\ QueueFull)
=============================================================================

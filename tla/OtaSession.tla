----------------------------- MODULE OtaSession -----------------------------
(***************************************************************************)
(* The one update session of the badge (ota.c): tasks open, write, commit  *)
(* and abort it, and Hades aborts it for the dead (task.c).  Every call    *)
(* reaches it by a pointer to the same static variable, so a task that     *)
(* keeps its handle after its session is over reaches that of another.     *)
(*                                                                         *)
(* esp_ota_begin, _write, _end and _abort are ESP-IDF's: sessions of its   *)
(* own, by number, any of which may fail.  The partition table has two     *)
(* application partitions, so there is always one to update.               *)
(***************************************************************************)
EXTENDS Integers, FiniteSets

CONSTANTS Task,
          MaxSessions,      (* bound: calls of esp_ota_begin that succeed  *)
          MaxKills          (* bound                                       *)

ASSUME OtaAssumption == Task # {} /\ {MaxSessions, MaxKills} \subseteq Nat

VARIABLES
    open, error, handle,    (* of the session                              *)
    live, begun,            (* ESP-IDF's sessions                          *)
    image,                  (* whose blocks are in the partition           *)
    boot,                   (* whose blocks are to be booted               *)
    pc, has,                (* of each task: its call, and its handle      *)
    resources,              (* tasks with the session among their own      *)
    hades, kills,
    opener,                 (* history: who last set open                  *)
    cut,                    (* history: tasks killed Unrecorded            *)
    strayed,                (* history: a handle was used after its end    *)
    overtaken               (* history: an abort marked a later session    *)

esp == <<live, begun, image, boot>>
history == <<opener, cut, strayed, overtaken>>
vars == <<open, error, handle, esp, pc, has, resources, hades, kills, history>>

Rest == [pc |-> "rest", task |-> CHOOSE t \in Task : TRUE]

Init == /\ open = FALSE /\ error = FALSE /\ handle = 0
        /\ live = {} /\ begun = 0 /\ image = {} /\ boot = {}
        /\ pc = [t \in Task |-> "rest"]
        /\ has = [t \in Task |-> "none"]
        /\ resources = {}
        /\ hades = Rest /\ kills = 0
        /\ opener = Rest.task /\ cut = {} /\ strayed = FALSE /\ overtaken = FALSE

At(t, where) == pc[t] = where
Goes(t, where) == pc' = [pc EXCEPT ![t] = where]

(* A call that fails, or ends the session, leaves its caller with a handle *)
(* it should forget.                                                       *)
Returns(t) == Goes(t, "rest")
Fails(t) == Returns(t) /\ has' = [has EXCEPT ![t] = IF @ = "none" THEN "none" ELSE "over"]
-----------------------------------------------------------------------------
(* ota_session_open.                                                       *)
Open(t) ==
    /\ At(t, "rest") /\ ~open
    /\ open' = TRUE /\ opener' = t
    /\ Goes(t, "record")
    /\ has' = [has EXCEPT ![t] = "none"]
    /\ UNCHANGED <<error, handle, esp, resources, hades, kills, cut, strayed, overtaken>>

RecordResource(t) ==
    /\ At(t, "record")
    /\ resources' = resources \cup {t}
    /\ Goes(t, "begin")
    /\ UNCHANGED <<open, error, handle, esp, has, hades, kills, history>>

Begin(t) ==
    /\ At(t, "begin") /\ begun < MaxSessions
    /\ begun' = begun + 1
    /\ handle' = begun + 1
    /\ live' = live \cup {begun + 1}
    /\ image' = {}
    /\ Goes(t, "clear")
    /\ UNCHANGED <<open, error, boot, has, resources, hades, kills, history>>

BeginFails(t) ==
    /\ At(t, "begin")
    /\ Goes(t, "abort")
    /\ UNCHANGED <<open, error, handle, esp, has, resources, hades, kills, history>>

ClearNoError(t) ==
    /\ At(t, "clear")
    /\ Returns(t)
    /\ has' = [has EXCEPT ![t] = "mine"]
    /\ UNCHANGED <<open, error, handle, esp, resources, hades, kills, history>>
ClearError(t) ==
    /\ At(t, "clear")
    /\ error' = FALSE
    /\ Returns(t)
    /\ has' = [has EXCEPT ![t] = "mine"]
    /\ UNCHANGED <<open, handle, esp, resources, hades, kills, history>>

(* A call with a handle: one that finds `error' set is over at once.       *)
Strays(t) == strayed' = (strayed \/ has[t] = "over")
Call(t, where) ==
    /\ At(t, "rest") /\ has[t] # "none"
    /\ IF error THEN Fails(t) ELSE Goes(t, where) /\ has' = has
    /\ Strays(t)
    /\ UNCHANGED <<open, error, handle, esp, resources, hades, kills, opener, cut, overtaken>>

(* ota_write.                                                              *)
Write(t) == Call(t, "write")

WriteBlock(t) ==
    /\ At(t, "write") /\ handle \in live
    /\ image' = image \cup {t}
    /\ Returns(t)
    /\ UNCHANGED <<open, error, handle, live, begun, boot, has, resources, hades, kills, history>>

WriteFails(t) ==
    /\ At(t, "write")
    /\ Goes(t, "abort")
    /\ UNCHANGED <<open, error, handle, esp, has, resources, hades, kills, history>>

(* ota_session_commit: when ESP-IDF refuses, the session stays open.       *)
Commit(t) == Call(t, "end")

End(t) ==
    /\ At(t, "end")
    /\ live' = live \ {handle}
    /\ \/ handle \in live /\ Goes(t, "setboot") /\ has' = has
       \/ Fails(t)
    /\ UNCHANGED <<open, error, handle, begun, image, boot, resources, hades, kills, history>>

SetBoot(t) ==
    /\ At(t, "setboot")
    /\ \/ boot' = image /\ Goes(t, "free") /\ has' = has
       \/ Fails(t) /\ boot' = boot
    /\ UNCHANGED <<open, error, handle, live, begun, image, resources, hades, kills, history>>

FreeResource(t) ==
    /\ At(t, "free")
    /\ resources' = resources \ {t}
    /\ Goes(t, "close")
    /\ UNCHANGED <<open, error, handle, esp, has, hades, kills, history>>

Close(t) ==
    /\ At(t, "close")
    /\ open' = FALSE
    /\ Fails(t)
    /\ UNCHANGED <<error, handle, esp, resources, hades, kills, history>>

(* ota_session_abort, called by a task, or by open and write.              *)
Abort(t) ==
    /\ At(t, "rest") /\ has[t] # "none"
    /\ Goes(t, "abort")
    /\ Strays(t)
    /\ UNCHANGED <<open, error, handle, esp, has, resources, hades, kills, opener, cut, overtaken>>

AbortNotBackend(t) ==
    /\ At(t, "abort")
    /\ Goes(t, "abortfree")
    /\ UNCHANGED <<open, error, handle, esp, has, resources, hades, kills, history>>
AbortBackend(t) ==
    /\ At(t, "abort")
    /\ live' = live \ {handle}
    /\ Goes(t, "abortfree")
    /\ UNCHANGED <<open, error, handle, begun, image, boot, has, resources, hades, kills, history>>

AbortFrees(t) ==
    /\ At(t, "abortfree")
    /\ resources' = resources \ {t}
    /\ Goes(t, "abortopen")
    /\ UNCHANGED <<open, error, handle, esp, has, hades, kills, history>>

AbortOpens(t) ==
    /\ At(t, "abortopen")
    /\ open' = FALSE
    /\ Goes(t, "aborterror")
    /\ UNCHANGED <<error, handle, esp, has, resources, hades, kills, history>>

AbortErrs(t) ==
    /\ At(t, "aborterror")
    /\ error' = TRUE /\ overtaken' = (overtaken \/ open)
    /\ Fails(t)
    /\ UNCHANGED <<open, handle, esp, resources, hades, kills, opener, cut, strayed>>
-----------------------------------------------------------------------------
(* A task ends by itself between calls, or is killed anywhere.             *)
Exit(t) ==
    /\ At(t, "rest")
    /\ Goes(t, "dead")
    /\ has' = [has EXCEPT ![t] = "none"]
    /\ UNCHANGED <<open, error, handle, esp, resources, hades, kills, history>>

(* The session is open, and not among the resources of its task, between   *)
(* setting the flag and recording it, and in commit and abort between      *)
(* freeing the record and clearing the flag.                               *)
Unrecorded(t) == pc[t] \in {"record", "close", "abortopen"}

Kill(t) ==
    /\ pc[t] \notin {"rest", "dead"} /\ kills < MaxKills
    /\ kills' = kills + 1
    /\ cut' = IF Unrecorded(t) THEN cut \cup {t} ELSE cut
    /\ Goes(t, "dead")
    /\ has' = [has EXCEPT ![t] = "none"]
    /\ UNCHANGED <<open, error, handle, esp, resources, hades, opener, strayed, overtaken>>

(* task_thread_destroy aborts the session if the dead had it; Hades has no *)
(* resources itself, so freeing it there does nothing.                     *)
HadesIs(where) == hades.pc = where
HadesGoes(where) == hades' = [hades EXCEPT !.pc = where]

HadesIgnores(t) ==
    /\ HadesIs("rest") /\ At(t, "dead")
    /\ Goes(t, "rest")
    /\ resources' = resources \ {t}
    /\ UNCHANGED <<open, error, handle, esp, has, hades, kills, history>>
HadesTakes(t) ==
    /\ HadesIs("rest") /\ At(t, "dead")
    /\ IF t \in resources THEN hades' = [pc |-> "abort", task |-> t] /\ pc' = pc
       ELSE Goes(t, "rest") /\ hades' = hades       (* another, under its name *)
    /\ UNCHANGED <<open, error, handle, esp, has, resources, kills, history>>

HadesAbortsBackend ==
    /\ HadesIs("abort")
    /\ live' = live \ {handle}
    /\ HadesGoes("abortopen")
    /\ UNCHANGED <<open, error, handle, begun, image, boot, pc, has, resources, kills, history>>

HadesOpens ==
    /\ HadesIs("abortopen")
    /\ open' = FALSE
    /\ HadesGoes("aborterror")
    /\ UNCHANGED <<error, handle, esp, pc, has, resources, kills, history>>

HadesErrs ==
    /\ HadesIs("aborterror")
    /\ error' = TRUE /\ overtaken' = (overtaken \/ open)
    /\ resources' = resources \ {hades.task}
    /\ Goes(hades.task, "rest")
    /\ hades' = Rest
    /\ UNCHANGED <<open, handle, esp, has, kills, opener, cut, strayed>>

CallStep(t) ==
    \/ RecordResource(t) \/ Begin(t) \/ BeginFails(t) \/ ClearError(t) \/ WriteBlock(t) \/ WriteFails(t)
    \/ End(t) \/ SetBoot(t) \/ FreeResource(t) \/ Close(t)
    \/ AbortBackend(t) \/ AbortFrees(t) \/ AbortOpens(t) \/ AbortErrs(t)
HadesStep == (\E t \in Task : HadesTakes(t)) \/ HadesAbortsBackend \/ HadesOpens \/ HadesErrs

Next == \/ HadesStep
        \/ \E t \in Task : \/ Open(t) \/ Write(t) \/ Commit(t) \/ Abort(t) \/ CallStep(t)
                           \/ Exit(t) \/ Kill(t)

(* A running task goes on with its call, and Hades serves every death in   *)
(* its turn: its queue is first in, first out, so a death is not passed    *)
(* over for ever.  No task need ever make a call, or end.                  *)
Fairness == /\ \A t \in Task : WF_vars(CallStep(t)) /\ SF_vars(HadesTakes(t))
            /\ WF_vars(HadesAbortsBackend) /\ WF_vars(HadesOpens) /\ WF_vars(HadesErrs)

Spec == Init /\ [][Next]_vars /\ Fairness
-----------------------------------------------------------------------------
OtaTypeOK ==
    /\ open \in BOOLEAN /\ error \in BOOLEAN /\ strayed \in BOOLEAN /\ overtaken \in BOOLEAN
    /\ begun \in 0..MaxSessions /\ handle \in 0..begun /\ live \subseteq 1..begun
    /\ image \subseteq Task /\ boot \subseteq Task /\ cut \subseteq Task
    /\ resources \subseteq Task
    /\ has \in [Task -> {"none", "mine", "over"}]
    /\ kills \in 0..MaxKills /\ opener \in Task /\ hades.task \in Task
    /\ hades.pc # "rest" => pc[hades.task] = "dead"

(* ota_session_open's flag: as long as every task forgets its handle when  *)
(* its session is over, ESP-IDF has one session at a time and nobody has   *)
(* the handle of another's.                                                *)
(* ota_write goes through the same global handle: what was written, and    *)
(* what will be booted, are then the blocks of one task.                   *)
OneSessionAtATime ==
    /\ OtaTypeOK
    /\ ~strayed => /\ Cardinality(live) <= 1
                   /\ \A t \in Task : has[t] = "mine" /\ pc[t] = "rest" => open /\ opener = t
                   /\ Cardinality(image) <= 1 /\ Cardinality(boot) <= 1

(* ota_session_abort sets error after it has opened the session to others: *)
(* only an abort that was overtaken there leaves a session whose every     *)
(* call fails.                                                             *)
FreshSessionsWork ==
    \A t \in Task : has[t] = "mine" /\ pc[t] = "rest" /\ error => overtaken \/ strayed

(* task_thread_destroy: the session of a task that dies is closed, unless  *)
(* that task was killed where the session was not among its resources,     *)
(* which leaves it open for ever: between setting the flag and recording   *)
(* it, or between freeing the record and clearing the flag.                *)
DeadOwnersCloseTheSession ==
    \A t \in Task : (open /\ opener = t /\ pc[t] = "dead") ~> (~open \/ opener # t \/ t \in cut)
=============================================================================

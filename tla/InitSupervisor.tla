--------------------------- MODULE InitSupervisor ---------------------------
(***************************************************************************)
(* Init (init.c): it starts the programs of init.toml, when and as often   *)
(* as their entries ask, waits for their ends, remembers in flash which    *)
(* have run once, and marks the firmware good; with the resets that may    *)
(* come at any step, and what flash and the bootloader keep over them.     *)
(*                                                                         *)
(* A moment is kept as an age in seconds, not past the last limit that     *)
(* Init compares it with; last_started = 0 is the age of the clock.  Zeus, *)
(* Hades and wait() are as TaskLifecycle has them: process_create may      *)
(* fail, or fail and answer a PID all the same, an end is reported once,   *)
(* and no PID comes back while its report waits (the ring holds 126        *)
(* others).  NVS, the bootloader and the OTA state of an image are         *)
(* external.                                                               *)
(***************************************************************************)
EXTENDS Integers, Sequences, SequencesExt, FiniteSets

CONSTANTS NumApps, Tables,  (* what the entries of init.toml may say       *)
          NumPids,
          Cap,              (* bound: ages                                 *)
          MaxLaunched,      (* bound: programs started by others           *)
          MaxResets         (* bound                                       *)

App == 1..NumApps
Pid == 1..NumPids
Elsewhere == NumApps + 1    (* a program the launcher or compositor starts *)
Nothing == 0                (* no program, no PID, no application          *)

Kind == [restart_on_failure : BOOLEAN, run_once : BOOLEAN,
         start_every : 0..Cap, start_delay : 0..Cap, application : Nat]

ASSUME InitAssumption ==
    /\ {Cap, MaxLaunched, MaxResets} \subseteq Nat /\ 2 <= Cap
    /\ NumApps \in Nat \ {0}                (* or there is nothing to start *)
    /\ NumPids = NumApps + MaxLaunched
    /\ Tables \subseteq [App -> Kind]

VARIABLES
    apps,                   (* the startup_config_t                        *)
    init,                   (* where Init is, at which entry               *)
    up, due,                (* since boot_time; entries due at current_time*)
    process, reports,       (* whose program a PID runs; Init's children   *)
    once, firmware,         (* in flash                                    *)
    resets,
    ended, excused,         (* history, run_once programs: it has ended;   *)
                            (* it may run again                            *)
    deceived,               (* history: entries with the PID of no process *)
    unmarked                (* history: marking the image good failed      *)

ram == <<apps, init, up, due, process, reports>>
flash == <<once, firmware>>
history == <<resets, ended, excused, deceived, unmarked>>
vars == <<ram, flash, history>>

Older(age, limits) == IF \A l \in limits : l <= age THEN age ELSE age + 1
Unstarted(kind, clock) ==
    [kind |-> kind, pid |-> Nothing, ran |-> FALSE, since |-> clock,
     should_start |-> FALSE, nvs_write |-> FALSE]

(* The first boot of a new image.                                          *)
Init == /\ \E kinds \in Tables : apps = [a \in App |-> Unstarted(kinds[a], 0)]
        /\ init = [pc |-> "load", at |-> 0]
        /\ up = 0 /\ due = {}
        /\ process = [p \in Pid |-> Nothing] /\ reports = <<>>
        /\ once = {} /\ firmware = "pending"
        /\ resets = 0 /\ unmarked = FALSE
        /\ ended = {} /\ excused = {} /\ deceived = {}

Goes(pc, at) == init' = [pc |-> pc, at |-> at]
Marked(a) == apps[a].kind.run_once /\ a \in once
Running(a) == \E p \in Pid : process[p] = a
Free(p) == process[p] = Nothing /\ ~Contains(reports, p)

(* The ring gives any free PID in its time.  Told apart are those that an  *)
(* entry has and, if programs have applications, the last, which the scan  *)
(* for them does not reach; of the others it is the nearest to the number  *)
(* of the program.                                                         *)
Unscanned == NumPids
Plain(p) == /\ Free(p) /\ \A a \in App : apps[a].pid # p
            /\ p = Unscanned => \A a \in App : apps[a].kind.application = Nothing
Between(p, q) == IF p < q THEN q - p ELSE p - q
Fresh(p, program) ==
    /\ Free(p)
    /\ Plain(p) => \A q \in Pid : Plain(q) => Between(p, program) <= Between(q, program)

(* run_init before its loop.  A mark that cannot be read is no mark.       *)
Load ==
    /\ init.pc = "load"
    /\ \E misread \in SUBSET once :
         apps' = [a \in App |-> [apps[a] EXCEPT !.should_start = ~Marked(a) \/ a \in misread]]
    /\ Goes("validate", 0)
    /\ UNCHANGED <<up, due, process, reports, flash, history>>

(* validate_ota_partition, whose answer run_init ignores.                  *)
ValidateAnother ==
    /\ init.pc = "validate"
    /\ firmware' = (IF firmware # "pending" THEN "valid" ELSE firmware)
    /\ Goes("look", 0)
    /\ UNCHANGED <<apps, up, due, process, reports, once, history>>
Validate ==
    /\ init.pc = "validate"
    /\ \/ firmware' = (IF firmware = "pending" THEN "valid" ELSE firmware) /\ UNCHANGED unmarked
       \/ firmware = "pending" /\ unmarked' = TRUE /\ UNCHANGED firmware
    /\ Goes("look", 0)
    /\ UNCHANGED <<apps, up, due, process, reports, once, resets, ended, excused, deceived>>

(* The clock's part of maybe_start_app: once after the delay, again every  *)
(* so often or whenever it is gone, and never within two seconds.          *)
Due(a) ==
    LET k == apps[a].kind  since == apps[a].since IN
      /\ up >= k.start_delay /\ since >= 2
      /\ \/ ~apps[a].ran
         \/ IF k.start_every > 0 THEN since >= k.start_every ELSE k.restart_on_failure

(* The loop: the time, which every entry is then judged by; one            *)
(* maybe_start_app for each entry; one wait.                               *)
Look ==
    /\ init.pc = "look"
    /\ due' = {a \in App : Due(a)}
    /\ Goes("start", 1)
    /\ UNCHANGED <<apps, up, process, reports, flash, history>>

Proceed(a) == /\ IF a < NumApps THEN Goes("start", a + 1) ELSE Goes("wait", 0)
              /\ due' = due \ {a}

SharesApplication(a, b) ==
    apps[a].kind.application # Nothing /\ apps[a].kind.application = apps[b].kind.application

Willing(a) ==
    /\ apps[a].pid = Nothing /\ apps[a].should_start /\ a \in due
    /\ \A p \in Pid \ {Unscanned} :
         process[p] \in App => ~SharesApplication(a, process[p])

Pass(a) ==
    /\ init = [pc |-> "start", at |-> a]
    /\ ~Willing(a) \/ Marked(a)
    /\ Proceed(a)
    /\ UNCHANGED <<apps, up, process, reports, flash, history>>

CanStart(a) == init = [pc |-> "start", at |-> a] /\ Willing(a)

TakesPid(a, p) == apps' = [apps EXCEPT ![a].pid = p, ![a].since = 0, ![a].ran = TRUE]

Start(a) ==
    /\ CanStart(a)
    /\ \E p \in Pid :
         /\ Fresh(p, a)
         /\ process' = [process EXCEPT ![p] = a]
         /\ TakesPid(a, p)
    /\ excused' = IF Marked(a) THEN excused \cup {a} ELSE excused
    /\ Proceed(a)
    /\ UNCHANGED <<up, reports, flash, resets, ended, deceived, unmarked>>

(* No file, no memory for the arguments, or no PID: the answer is -1.      *)
StartFails(a) ==
    /\ CanStart(a)
    /\ Proceed(a)
    /\ UNCHANGED <<apps, up, process, reports, flash, history>>

(* Zeus fails once it has a PID: it frees the PID and answers it, and Init *)
(* takes the program for started.                                          *)
StartAnswersFreed(a) ==
    /\ CanStart(a)
    /\ \E p \in Pid :
         /\ Fresh(p, a)
         /\ TakesPid(a, p)
    /\ deceived' = deceived \cup {a}
    /\ Proceed(a)
    /\ UNCHANGED <<up, process, reports, flash, resets, ended, excused, unmarked>>

WaitTimesOut ==
    /\ init.pc = "wait" /\ reports = <<>>
    /\ Goes("look", 0)
    /\ UNCHANGED <<apps, up, due, process, reports, flash, history>>

Periodic(a) == apps[a].kind.restart_on_failure \/ apps[a].kind.start_every > 0
GoneForGood(a) == [apps[a] EXCEPT !.pid = Nothing, !.should_start = FALSE]
Gone(a) == [apps[a] EXCEPT !.pid = Nothing, !.should_start = @ /\ Periodic(a)]
WritesAgain(a) == apps[a].kind.run_once /\ apps[a].nvs_write
Writes(a) == apps[a].kind.run_once /\ ~apps[a].nvs_write

(* The end of a program: of which entries is told by its PID.  Where the   *)
(* mark cannot be written or committed, the entry only loses the PID.      *)
EveryEntry == App
Named == {a \in App : apps[a].pid = Head(reports)}
Reap ==
    /\ init.pc = "wait" /\ reports # <<>>
    /\ reports' = Tail(reports)
    /\ \E failed \in SUBSET {a \in Named : Writes(a)}, stored \in SUBSET App :
         /\ stored \subseteq failed
         /\ apps' = [a \in App |->
                IF a \notin Named THEN apps[a]
                ELSE IF a \in failed THEN [apps[a] EXCEPT !.pid = Nothing]
                ELSE [Gone(a) EXCEPT !.nvs_write = @ \/ Writes(a)]]
         /\ once' = once \cup stored \cup {a \in Named \ failed : Writes(a)}
         /\ excused' = excused \cup {a \in failed : Periodic(a)}
    /\ deceived' = deceived \ Named
    /\ Goes("look", 0)
    /\ UNCHANGED <<up, due, process, firmware, resets, ended, unmarked>>

InitStep == \/ Load \/ Validate \/ Look \/ WaitTimesOut \/ Reap
            \/ \E a \in App : Pass(a) \/ Start(a) \/ StartFails(a) \/ StartAnswersFreed(a)
-----------------------------------------------------------------------------
Tick ==
    /\ up' = Older(up, {apps[a].kind.start_delay : a \in App})
    /\ apps' = [a \in App |->
                  [apps[a] EXCEPT !.since = Older(@, {2, apps[a].kind.start_every})]]
    /\ UNCHANGED <<init, due, process, reports, flash, history>>

(* A program ends, however it ends.                                        *)
End(p) ==
    /\ process[p] # Nothing
    /\ process' = [process EXCEPT ![p] = Nothing]
    /\ reports' = Append(reports, p)
    /\ ended' = IF process[p] \in App /\ apps[process[p]].kind.run_once
                THEN ended \cup {process[p]} ELSE ended
    /\ UNCHANGED <<apps, init, up, due, flash, resets, excused, deceived, unmarked>>

(* The compositor is a kernel task too: its launcher reports to Init.      *)
Launch(p) ==
    /\ Fresh(p, Elsewhere)
    /\ Cardinality({q \in Pid : ~Free(q)} \ {apps[a].pid : a \in App}) < MaxLaunched
    /\ process' = [process EXCEPT ![p] = Elsewhere]
    /\ UNCHANGED <<apps, init, up, due, reports, flash, history>>

(* Power, a panic, a watchdog, or run_init that cannot load init.toml.     *)
(* The clock may survive; an image not marked good does not.               *)
Reset ==
    /\ resets < MaxResets /\ resets' = resets + 1
    /\ \E clock \in {0, Cap} : apps' = [a \in App |-> Unstarted(apps[a].kind, clock)]
    /\ Goes("load", 0)
    /\ up' = 0 /\ due' = {}
    /\ process' = [p \in Pid |-> Nothing] /\ reports' = <<>>
    /\ firmware' = IF firmware = "pending" THEN "rolled back" ELSE firmware
    /\ unmarked' = FALSE /\ deceived' = {}
    /\ excused' = excused \cup {a \in ended \ once : ~apps[a].nvs_write}
    /\ UNCHANGED <<once, ended>>

Next == \/ InitStep \/ Tick \/ Reset
        \/ \E p \in Pid : End(p) \/ Launch(p)

(* Init runs, time passes, and process_create succeeds now and then.       *)
Fairness == /\ WF_vars(InitStep) /\ WF_vars(Tick)
            /\ \A a \in App : SF_vars(~Marked(a) /\ Start(a))

Spec == Init /\ [][Next]_vars /\ Fairness
-----------------------------------------------------------------------------
InitTypeOK ==
    /\ [a \in App |-> apps[a].kind] \in Tables
    /\ \A a \in App : /\ apps[a].pid \in Pid \cup {Nothing}
                       /\ apps[a].since \in 0..Cap
                       /\ {apps[a].ran, apps[a].should_start, apps[a].nvs_write} \subseteq BOOLEAN
    /\ init.pc \in {"load", "validate", "look", "start", "wait"} /\ init.at \in 0..NumApps
    /\ up \in 0..Cap /\ due \subseteq App
    /\ process \in [Pid -> App \cup {Nothing, Elsewhere}]
    /\ reports \in Seq(Pid) /\ Len(reports) <= NumPids
    /\ once \subseteq App /\ firmware \in {"pending", "valid", "rolled back"}
    /\ unmarked \in BOOLEAN
    /\ resets \in 0..MaxResets /\ {ended, excused, deceived} \subseteq SUBSET App

(* app->pid is cleared only on the report of that PID, and the process     *)
(* table is asked for the application: of what Init starts, no entry runs  *)
(* twice, whatever the order of ends, starts and PIDs answered in vain,    *)
(* and no application, but for a program under the PID that the scan of    *)
(* task_application_is_running leaves out.                                 *)
OneProcessOfEach ==
    /\ InitTypeOK
    /\ \A p, q \in Pid : p # q /\ {process[p], process[q]} \subseteq App
        => /\ process[p] # process[q]
           /\ SharesApplication(process[p], process[q]) => Unscanned \in {p, q}

(* run_once over resets: what has ended runs again only if its mark could  *)
(* not be written or read, or the badge was reset before it was written.   *)
RunOnceStaysDone == \A a \in ended : Running(a) => a \in excused

(* Validation comes before the first start, so no reset that a program of  *)
(* init.toml provokes can roll the firmware back, unless marking failed.   *)
AppsRunOnGoodFirmware == (\E a \in App : Running(a)) => firmware # "pending" \/ unmarked

(* maybe_start_app and the wait: what is to be restarted, on failure or    *)
(* periodically, is running again and again, the rest gets its turn, and   *)
(* no end, failed start, throttle or other program keeps Init from it: but *)
(* an answered PID without a process does, until a child of Init has had   *)
(* that PID and ended, and for good if none has.                           *)
Alone(a) == \A b \in App \ {a} : ~SharesApplication(a, b)
EntriesAreServed ==
    \A a \in App : Alone(a) =>
        /\ Periodic(a) /\ ~apps[a].kind.run_once => []<>Running(a) \/ <>[](a \in deceived)
        /\ ~apps[a].ran ~> Running(a) \/ Marked(a) \/ a \in deceived

(* docs/architecture.md:110 has the firmware marked good after all initial *)
(* apps start; run_init marks it before the first.                         *)
GoodAfterAppsStart ==
    resets = 0 /\ firmware = "valid" => \A a \in App : apps[a].kind.start_delay = 0 => apps[a].ran
=============================================================================

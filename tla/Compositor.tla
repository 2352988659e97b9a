----------------------------- MODULE Compositor -----------------------------
(***************************************************************************)
(* The compositor (core 0, priority 20), the tasks that have windows, and  *)
(* Hades, who takes the windows of dead processes (compositor.c, and       *)
(* task_thread_destroy in task.c).                                         *)
(*                                                                         *)
(* Tasks send commands to compositor_queue and wait to be notified.  At    *)
(* each refresh the compositor executes some of them, looks at the         *)
(* keyboard and draws the windows from back to front.                      *)
(*                                                                         *)
(* Windows are numbered as they are made and never reused, so that a use   *)
(* of freed memory shows: the first one is recorded in `fault' and ends    *)
(* the behaviour, since C promises nothing after it.                       *)
(***************************************************************************)
EXTENDS WindowRing

CONSTANTS Task,             (* each a process with a single thread         *)
          NoTask,           (* NULL                                        *)
          MaxWindows,       (* MAX_WINDOWS, 10                             *)
          QueueLen,         (* of compositor_queue, 10                     *)
          CommandsPerFrame, (* WINDOW_COMMANDS_PER_FRAME, 5                *)
          HadesQueueLen,    (* of hades_queue, 16                          *)
          MaxKills          (* bound: uses of FN+CROSS                     *)

ASSUME CompositorAssumption ==
    /\ NoTask \notin Task
    /\ {MaxWindows, QueueLen, HadesQueueLen} \subseteq Nat \ {0}
    /\ {CommandsPerFrame, MaxKills} \subseteq Nat

VARIABLES
    life,               (* of each window's memory                         *)
    task_info,          (* the owner it names, NoTask once set to NULL     *)
    recorded,           (* per process, the windows it has as resources    *)
    compositor_queue, compositor,
    tcb,                (* each task: live, freed, or gone (its task_info) *)
    app,                (* what it is doing, or was when it died           *)
    notified,           (* its notification 0                              *)
    hades_queue, hades,
    kills,
    fault               (* the first use of freed memory, or "none"        *)

clientVars == <<life, task_info, recorded, app>>
deathVars == <<tcb, hades_queue>>
vars == <<ringVars, clientVars, compositor_queue, compositor, deathVars,
          notified, hades, kills, fault>>

Command == {"create", "destroy", "change"}
Message == [command : Command, window : Window, caller : Task \cup {NoTask}]
Idle == [pc |-> "run", command |-> "create", window |-> NoWindow]

CompositorInit ==
    /\ RingInit
    /\ life = [w \in Window |-> "unmade"]
    /\ task_info = [w \in Window |-> NoTask]
    /\ recorded = [t \in Task |-> {}]
    /\ compositor_queue = <<>>
    /\ compositor = [pc |-> "commands", processed |-> 0, window |-> NoWindow, victim |-> NoTask]
    /\ tcb = [t \in Task |-> "live"]
    /\ app = [t \in Task |-> Idle]
    /\ notified = [t \in Task |-> FALSE]
    /\ hades_queue = <<>>
    /\ hades = [pc |-> "wait", task |-> NoTask, todo |-> {}, window |-> NoWindow]
    /\ kills = 0
    /\ fault = "none"
-----------------------------------------------------------------------------
Sane == fault = "none"
Live(t) == tcb[t] = "live"
QueueHasRoom == Len(compositor_queue) < QueueLen

Send(command, w, caller) ==
    /\ QueueHasRoom
    /\ compositor_queue' = Append(compositor_queue,
                             [command |-> command, window |-> w, caller |-> caller])

(* vTaskDelete of a task that does not run, or an exit and the reaping of  *)
(* the idle task; in between eTaskGetState says eDeleted, as after.        *)
Bury(t) == /\ Len(hades_queue) < HadesQueueLen
           /\ tcb' = [tcb EXCEPT ![t] = "freed"]
           /\ hades_queue' = Append(hades_queue, t)

Faulty(what) == /\ fault' = what
                /\ UNCHANGED <<ringVars, clientVars, compositor_queue,
                               compositor, deathVars, notified, hades, kills>>
-----------------------------------------------------------------------------
(* A task's calls.                                                         *)
Does(t, pc) == Sane /\ Live(t) /\ app[t].pc = pc
Goes(t, pc) == app' = [app EXCEPT ![t].pc = pc]
ClientOnly == UNCHANGED <<ringVars, compositor, deathVars, hades, kills, fault>>

(* The windows it made and has not asked to destroy.                       *)
Mine(t) == {w \in recorded[t] : task_info[w] = t}

(* window_create looks at the count ...                                    *)
CheckRoom(t) ==
    /\ Does(t, "run")
    /\ cur_num_windows < MaxWindows
    /\ Goes(t, "create")
    /\ ClientOnly
    /\ UNCHANGED <<life, task_info, recorded, compositor_queue, notified>>

(* ... and makes the window, which the compositor will count later.        *)
Make(t) ==
    /\ Does(t, "create")
    /\ \E w \in Window :
         /\ \A v \in Window : v < w <=> life[v] # "unmade"
         /\ life' = [life EXCEPT ![w] = "made"]
         /\ task_info' = [task_info EXCEPT ![w] = t]
         /\ recorded' = [recorded EXCEPT ![t] = @ \cup {w}]
         /\ app' = [app EXCEPT ![t] = [pc |-> "send", command |-> "create", window |-> w]]
    /\ ClientOnly
    /\ UNCHANGED <<compositor_queue, notified>>

Call(t, command, w) == app' = [app EXCEPT ![t] = [pc |-> "send", command |-> command, window |-> w]]

(* window_destroy                                                          *)
Destroy(t) ==
    /\ Does(t, "run")
    /\ \E w \in Mine(t) : /\ task_info' = [task_info EXCEPT ![w] = NoTask]
                          /\ Call(t, "destroy", w)
    /\ ClientOnly
    /\ UNCHANGED <<life, recorded, compositor_queue, notified>>

(* window_flags_set, window_position_set, window_size_set, and the swap of *)
(* window_present.                                                         *)
Change(t) ==
    /\ Does(t, "run")
    /\ \E w \in Mine(t) : Call(t, "change", w)
    /\ ClientOnly
    /\ UNCHANGED <<life, task_info, recorded, compositor_queue, notified>>

SendCommandReturns(t) ==
    /\ Does(t, "send")
    /\ Send(app[t].command, app[t].window, t)
    /\ app' = [app EXCEPT ![t] = Idle]
    /\ ClientOnly
    /\ UNCHANGED <<life, task_info, recorded, notified>>
SendCommand(t) ==
    /\ Does(t, "send")
    /\ Send(app[t].command, app[t].window, t)
    /\ Goes(t, "wait")
    /\ ClientOnly
    /\ UNCHANGED <<life, task_info, recorded, notified>>

(* The wait of each call.  window_destroy strikes the window off its       *)
(* process' resources only now.                                            *)
Return(t) ==
    /\ Does(t, "wait")
    /\ notified[t]
    /\ notified' = [notified EXCEPT ![t] = FALSE]
    /\ recorded' = [recorded EXCEPT ![t] =
                      IF app[t].command = "destroy" THEN @ \ {app[t].window} ELSE @]
    /\ app' = [app EXCEPT ![t] = Idle]
    /\ ClientOnly
    /\ UNCHANGED <<life, task_info, compositor_queue>>

Exit(t) ==
    /\ Does(t, "run")
    /\ Bury(t)
    /\ UNCHANGED <<ringVars, clientVars, compositor_queue, compositor, notified,
                   hades, kills, fault>>

TaskStep(t) ==
    \/ CheckRoom(t) \/ Make(t) \/ Destroy(t) \/ Change(t) \/ SendCommand(t) \/ Return(t)
    \/ Exit(t)
-----------------------------------------------------------------------------
(* The compositor's frame: commands, keyboard, drawing.  The wait for the  *)
(* next refresh is between drawing and commands.                           *)
At(pc) == Sane /\ compositor.pc = pc
FrameOnly == UNCHANGED <<task_info, recorded, app, hades>>

(* The memory of a window and of what hangs on it.                         *)
Frees(w) == life' = [life EXCEPT ![w] = "freed"]

(* A caller that died meanwhile is not notified when eTaskGetState, which  *)
(* finds its TCB in no list, says so.                                      *)
NotifiesNobody(t) == UNCHANGED notified
Notify(t) == notified' = IF t # NoTask /\ Live(t) THEN [notified EXCEPT ![t] = TRUE] ELSE notified

Broken(m) == CASE life[m.window] = "freed" -> "used a freed window"
               [] m.command = "destroy" /\ OutButLinked(m.window) -> "removed a window twice"
               [] OTHER -> "none"

LastOfFrame == compositor.processed = CommandsPerFrame

Execute ==
    /\ At("commands")
    /\ compositor_queue # <<>>
    /\ LET m == Head(compositor_queue)  w == m.window IN
       IF Broken(m) # "none" THEN Faulty(Broken(m)) ELSE
       /\ compositor_queue' = Tail(compositor_queue)
       /\ CASE m.command = "create"  -> PushWindow(w) /\ UNCHANGED life
            [] m.command = "destroy" -> RemoveWindow(w, TRUE) /\ Frees(w)
            [] m.command = "change"  -> UNCHANGED <<ringVars, life>>
       /\ Notify(m.caller)
       /\ compositor' = [compositor EXCEPT
            !.pc = IF LastOfFrame THEN "keys" ELSE "commands",
            !.processed = IF LastOfFrame THEN 0 ELSE @ + 1]
       /\ FrameOnly
       /\ UNCHANGED <<deathVars, kills, fault>>

(* But by then FreeRTOS may have freed that TCB, and eTaskGetState reads   *)
(* it, so that chance decides whether it is notified.  The command itself  *)
(* has had its effect, which nothing can see any more.                     *)
ReadsFreedCaller ==
    /\ At("commands")
    /\ compositor_queue # <<>>
    /\ LET m == Head(compositor_queue) IN
       /\ Broken(m) = "none"
       /\ m.caller # NoTask /\ ~Live(m.caller)
    /\ Faulty("read a freed task")

NoMoreCommands ==
    /\ At("commands")
    /\ compositor_queue = <<>>
    /\ compositor' = [compositor EXCEPT !.pc = "keys", !.processed = 0]
    /\ FrameOnly
    /\ UNCHANGED <<ringVars, life, compositor_queue, deathVars, notified, kills, fault>>

(* Drawing begins with the window at the back, or, unless the one with the *)
(* focus is fullscreen (left open here), with that one.                    *)
Draw ==
    IF window_stack' = NoWindow THEN compositor' = [compositor EXCEPT !.pc = "commands"]
    ELSE \E w \in {window_stack', prev'[window_stack']} :
           compositor' = [compositor EXCEPT !.pc = "render", !.window = w]

(* Other keys go to the event queue of the window with the focus.          *)
NoKey ==
    /\ At("keys")
    /\ UNCHANGED ringVars
    /\ Draw
    /\ FrameOnly
    /\ UNCHANGED <<life, compositor_queue, deathVars, notified, kills, fault>>

AltTab ==
    /\ At("keys")
    /\ SwitchWindow
    /\ Draw
    /\ FrameOnly
    /\ UNCHANGED <<life, compositor_queue, deathVars, notified, kills, fault>>

(* FN+CROSS removes the window with the focus and deletes its owner.       *)
Cross ==
    /\ At("keys")
    /\ window_stack # NoWindow
    /\ kills < MaxKills
    /\ kills' = kills + 1
    /\ RemoveWindow(window_stack, TRUE)
    /\ compositor' = [compositor EXCEPT !.pc = "cross", !.victim = task_info[window_stack]]
    /\ FrameOnly
    /\ UNCHANGED <<life, compositor_queue, deathVars, notified, fault>>

CrossDelete ==
    /\ At("cross")
    /\ LET t == compositor.victim IN
       IF t # NoTask /\ tcb[t] = "gone" THEN Faulty("used a freed task_info") ELSE
       /\ IF t # NoTask /\ Live(t) THEN Bury(t) ELSE UNCHANGED deathVars
       /\ compositor' = [compositor EXCEPT !.pc = "keys", !.victim = NoTask]
       /\ FrameOnly
       /\ UNCHANGED <<ringVars, life, compositor_queue, notified, kills, fault>>

(* A window that nobody owns any more is taken out, its links left as they *)
(* are, and the frame ends.                                                *)
DropOrphan ==
    /\ At("render")
    /\ task_info[compositor.window] = NoTask
    /\ RemoveWindow(compositor.window, FALSE)
    /\ compositor' = [compositor EXCEPT !.pc = "commands", !.window = NoWindow]
    /\ FrameOnly
    /\ UNCHANGED <<life, compositor_queue, deathVars, notified, kills, fault>>

SeeOwner ==
    /\ At("render")
    /\ task_info[compositor.window] # NoTask
    /\ compositor' = [compositor EXCEPT !.pc = "draw", !.victim = task_info[compositor.window]]
    /\ FrameOnly
    /\ UNCHANGED <<ringVars, life, compositor_queue, deathVars, notified, kills, fault>>

(* Its owner's priority is set and the window drawn.  The next one is that *)
(* towards the front; the last one has the focus.                          *)
DrawWindow ==
    /\ At("draw")
    /\ IF tcb[compositor.victim] = "gone" THEN Faulty("used a freed task_info") ELSE
       LET last == compositor.window = window_stack IN
       /\ compositor' = [compositor EXCEPT
            !.pc = IF last THEN "commands" ELSE "render",
            !.window = IF last THEN NoWindow ELSE prev[@],
            !.victim = NoTask]
       /\ FrameOnly
       /\ UNCHANGED <<ringVars, life, compositor_queue, deathVars, notified, kills, fault>>

Frame == \/ Execute \/ ReadsFreedCaller \/ NoMoreCommands \/ NoKey \/ AltTab \/ Cross
         \/ CrossDelete \/ DropOrphan \/ SeeOwner \/ DrawWindow
-----------------------------------------------------------------------------
(* Hades, who takes the windows of a process when its last task is dead.   *)
HadesAt(pc) == Sane /\ hades.pc = pc
HadesOnly == UNCHANGED <<ringVars, life, recorded, app, compositor, notified>>

HadesReceiveDeletesInfo ==
    /\ HadesAt("wait")
    /\ hades_queue # <<>>
    /\ hades_queue' = Tail(hades_queue)
    /\ tcb' = [tcb EXCEPT ![Head(hades_queue)] = "gone"]
    /\ LET t == Head(hades_queue) IN
         hades' = [pc |-> "take", task |-> t, window |-> NoWindow, todo |-> recorded[t]]
    /\ HadesOnly
    /\ UNCHANGED <<task_info, compositor_queue, kills, fault>>
HadesReceive ==
    /\ HadesAt("wait")
    /\ hades_queue # <<>>
    /\ hades_queue' = Tail(hades_queue)
    /\ LET t == Head(hades_queue) IN
         hades' = [pc |-> "take", task |-> t, window |-> NoWindow,
                   todo |-> recorded[t]]
    /\ HadesOnly
    /\ UNCHANGED <<task_info, compositor_queue, tcb, kills, fault>>

(* window_destroy_task                                                     *)
HadesTakesWindow ==
    /\ HadesAt("take")
    /\ \E w \in hades.todo :
         IF life[w] = "freed" THEN Faulty("used a freed window") ELSE
         /\ task_info' = [task_info EXCEPT ![w] = NoTask]
         /\ hades' = [hades EXCEPT !.pc = "send", !.window = w, !.todo = @ \ {w}]
         /\ HadesOnly
         /\ UNCHANGED <<compositor_queue, deathVars, kills, fault>>

HadesForgetsToSend ==
    /\ HadesAt("send")
    /\ hades' = [hades EXCEPT !.pc = "take", !.window = NoWindow]
    /\ HadesOnly
    /\ UNCHANGED <<task_info, compositor_queue, deathVars, kills, fault>>
HadesSends ==
    /\ HadesAt("send")
    /\ Send("destroy", hades.window, NoTask)
    /\ hades' = [hades EXCEPT !.pc = "take", !.window = NoWindow]
    /\ HadesOnly
    /\ UNCHANGED <<task_info, deathVars, kills, fault>>

(* task_info_delete                                                        *)
HadesDeletesInfo ==
    /\ HadesAt("take")
    /\ hades.todo = {}
    /\ tcb' = [tcb EXCEPT ![hades.task] = "gone"]
    /\ hades' = [hades EXCEPT !.pc = "wait", !.task = NoTask]
    /\ HadesOnly
    /\ UNCHANGED <<task_info, compositor_queue, hades_queue, kills, fault>>

HadesStep == HadesReceive \/ HadesTakesWindow \/ HadesSends \/ HadesDeletesInfo
-----------------------------------------------------------------------------
Next == \/ \E t \in Task : TaskStep(t)
        \/ Frame
        \/ HadesStep

(* The display refreshes for ever; what a task has asked it waits for.     *)
Fairness == /\ WF_vars(Frame)
            /\ WF_vars(HadesStep)
            /\ \A t \in Task : SF_vars(SendCommand(t)) /\ WF_vars(Return(t))

SafetySpec == CompositorInit /\ [][Next]_vars
Spec == SafetySpec /\ Fairness
-----------------------------------------------------------------------------
CompositorTypeOK ==
    /\ RingTypeOK
    /\ life \in [Window -> {"unmade", "made", "freed"}]
    /\ task_info \in [Window -> Task \cup {NoTask}]
    /\ recorded \in [Task -> SUBSET Window]
    /\ compositor_queue \in Seq(Message) /\ Len(compositor_queue) <= QueueLen
    /\ tcb \in [Task -> {"live", "freed", "gone"}]
    /\ app \in [Task -> [pc : {"run", "create", "send", "wait"},
                         command : Command, window : Window \cup {NoWindow}]]
    /\ notified \in [Task -> BOOLEAN]
    /\ compositor \in [pc : {"commands", "keys", "cross", "render", "draw"}, processed : 0..CommandsPerFrame,
                       window : Window \cup {NoWindow}, victim : Task \cup {NoTask}]
    /\ hades_queue \in Seq(Task) /\ Len(hades_queue) <= HadesQueueLen
    /\ hades \in [pc : {"wait", "take", "send"}, task : Task \cup {NoTask},
                  todo : SUBSET Window, window : Window \cup {NoWindow}]
    /\ kills \in 0..MaxKills
    /\ fault \in {"none", "used a freed window", "removed a window twice", "used a freed task_info",
                  "read a freed task"}

(* The windows whose destruction their owner had asked for, and not seen   *)
(* done, when it was killed.                                               *)
Interrupted == {w \in Window : \E t \in Task : /\ ~Live(t) /\ app[t].window = w
                                               /\ app[t].pc = "wait" /\ app[t].command = "destroy"}

(* window_create, window_destroy, window_destroy_task: a command finds its *)
(* window alive, and no command is queued behind the destruction of its    *)
(* window, however tasks, Hades and the compositor interleave, unless the  *)
(* owner was killed inside window_destroy.                                 *)
CommandsFindTheirWindow ==
    \A i \in 1..Len(compositor_queue) :
      LET w == compositor_queue[i].window IN
        w \notin Interrupted =>
          /\ life[w] = "made"
          /\ \A j \in 1..(i - 1) : compositor_queue[j].window = w => compositor_queue[j].command # "destroy"

(* Execute's WINDOW_DESTROY: the frame loop, the keyboard and ALT-TAB      *)
(* never meet a window whose memory is freed.  And                         *)
(* task_thread_destroy before task_info_delete: as long as every process   *)
(* has one task, the task_info a window names is not freed before the      *)
(* window has lost it.  (What the compositor has read from a window and    *)
(* not yet followed may be: the fault of CrossDelete and DrawWindow.)      *)
RingLeadsToNothingFreed ==
    /\ CompositorTypeOK
    /\ \A w \in linked : life[w] = "made"
    /\ \A w \in Window : life[w] = "made" /\ task_info[w] # NoTask => tcb[task_info[w]] # "gone"

(* compositor and its queue: every call of a living task comes back, one   *)
(* whose command found the queue full included.                            *)
CallsReturn == \A t \in Task : (Live(t) /\ app[t].pc \in {"send", "wait"})
                                 ~> (~Live(t) \/ app[t].pc = "run" \/ ~Sane)

(* Hades and WINDOW_DESTROY: the windows of a dead process are freed, and  *)
(* their places in the count come back.                                    *)
DeadLeaveNoWindows ==
    <>[](Sane => \A t \in Task : tcb[t] = "gone" =>
                   \A w \in recorded[t] : life[w] = "freed" /\ w \notin linked)

(* architecture.md: "Up to 10 windows" (MAX_WINDOWS).                      *)
AtMostMaxWindows == cur_num_windows <= MaxWindows

(* How far it is missed: window_create looks at a count that the           *)
(* compositor raises later, so each other task may have one more window.   *)
FewMoreThanMaxWindows == cur_num_windows < MaxWindows + Cardinality(Task)

(* "So we don't end up deleting this window twice" (FN+CROSS): no window   *)
(* is taken out of the ring or destroyed a second time.                    *)
NoWindowDeletedTwice == fault \notin {"used a freed window", "removed a window twice"}

(* Of the two, a freed window is used, by the compositor or by Hades, only *)
(* if a task was killed inside window_destroy.                             *)
FreedUseHasACause == fault = "used a freed window" => Interrupted # {}
=============================================================================

------------------------------- MODULE Hermes -------------------------------
(***************************************************************************)
(* The WiFi driver (drivers/wifi.c): tasks send commands to Hermes, which  *)
(* calls ESP-IDF's radio and waits, with timeouts and retries, for bits    *)
(* that the handler of the radio's events sets.  The handler, Hermes and   *)
(* wifi_set_enabled all write the status.                                  *)
(*                                                                         *)
(* The radio and its access point are external: a link that comes and      *)
(* goes, and its events, in order.  A wait may time out at any moment.     *)
(* The handler's task outranks Hermes on its core, so it is one step.      *)
(* What a scan finds is left out.                                          *)
(***************************************************************************)
EXTENDS Integers, Sequences

CONSTANTS Task, Nobody,
          Callers, Settings,(* bounds: tasks that connect and disconnect,  *)
                            (* tasks that scan and switch the radio        *)
          QueueLen,         (* of hermes_queue                             *)
          Dials, Hangups,   (* retries of connect and of disconnect        *)
          MaxEvents         (* bound: events not yet handled               *)

ASSUME HermesAssumption ==
    /\ QueueLen \in Nat \ {0} /\ MaxEvents \in Nat \ {0, 1}
    /\ {Dials, Hangups} \subseteq Nat
    /\ Nobody \notin Task /\ Task = Callers \cup Settings

VARIABLES
    enabled, connection_status, connection_status_want,
    bits,                   (* of wifi_event_group; the FAIL bit ends a    *)
                            (* wait as a timeout does, and is left out     *)
    queue, hermes,
    app,                    (* each task's call                            *)
    link, events,           (* the radio                                   *)
    fault,                  (* ESP_ERROR_CHECK aborts                      *)
    excused                 (* history: the link may come up unwanted      *)

status == <<enabled, connection_status, connection_status_want>>
radio == <<link, events>>
vars == <<status, bits, queue, hermes, app, radio, fault, excused>>

Status == {"error", "disconnected", "connected", "wrong"}
Bit == {"connected", "disconnected", "auth"}
Event == {"start", "ip", "dropped", "refused"}
Command == {"connect", "disconnect", "scan"}

Idle == [pc |-> "idle", caller |-> Nobody, retries |-> 0]

(* wifi_create has started the radio, whose first event will dial; what is *)
(* wanted is zero (WIFI_ERROR), which is as good as a connection.          *)
Init == /\ enabled = TRUE
        /\ connection_status = "disconnected" /\ connection_status_want = "connected"
        /\ bits = {}
        /\ queue = <<>> /\ hermes = Idle
        /\ app = [t \in Task |-> "rest"]
        /\ link = "idle" /\ events = <<"start">>
        /\ fault = FALSE /\ excused = FALSE

Sane == ~fault
Abort == /\ fault' = TRUE
         /\ UNCHANGED <<status, bits, queue, hermes, app, radio, excused>>
-----------------------------------------------------------------------------
(* ESP-IDF: connect, from idle, dials; disconnect hangs up and says so.    *)
Dialled(l) == IF l = "idle" THEN "connecting" ELSE l
Linked == link \in {"connecting", "up"}
HangUp == /\ link' = "idle"
          /\ events' = IF Linked THEN Append(events, "dropped") ELSE events

(* The bound on events leaves the callers of esp_wifi_disconnect one more, *)
(* so that the link alone never keeps them waiting.                        *)
LinkHasRoom == Len(events) + 1 < MaxEvents
Room == Linked => Len(events) < MaxEvents
RadioOnly == UNCHANGED <<status, bits, queue, hermes, app, fault, excused>>

LinkUp == /\ Sane /\ link = "connecting" /\ LinkHasRoom
          /\ link' = "up"
          /\ events' = Append(events, "ip")
          /\ RadioOnly
LinkRefused == /\ Sane /\ link = "connecting" /\ LinkHasRoom
               /\ link' = "idle"
               /\ events' = Append(events, "refused")
               /\ RadioOnly
LinkDropped == /\ Sane /\ Linked /\ LinkHasRoom
               /\ link' = "idle"
               /\ events' = Append(events, "dropped")
               /\ RadioOnly
-----------------------------------------------------------------------------
(* event_handler.  It redials ten times in a row (s_retry_num), here any   *)
(* number of times.                                                        *)
Handles(e) == Sane /\ events # <<>> /\ Head(events) = e /\ events' = Tail(events)
HandlerOnly == UNCHANGED <<enabled, connection_status_want, queue, hermes, app, fault>>

HandleStart ==
    /\ Handles("start")
    /\ link' = Dialled(link)
    /\ excused' = (excused \/ connection_status_want = "disconnected")
    /\ HandlerOnly
    /\ UNCHANGED <<connection_status, bits>>

HandleIp ==
    /\ Handles("ip")
    /\ connection_status' = "connected"
    /\ bits' = bits \cup {"connected"}
    /\ HandlerOnly
    /\ UNCHANGED <<link, excused>>

HandleRefused ==
    /\ Handles("refused") /\ connection_status_want # "disconnected"
    /\ connection_status' = "wrong"
    /\ bits' = bits \cup {"auth"}
    /\ HandlerOnly
    /\ UNCHANGED <<link, excused>>

Redials == link' = Dialled(link) /\ connection_status' = "disconnected" /\ bits' = bits
GivesUp == link' = link /\ connection_status' = "error" /\ bits' = bits

HandleDroppedAlways ==
    /\ Handles("dropped")
    /\ Redials \/ GivesUp
    /\ HandlerOnly
    /\ UNCHANGED excused
HandleDroppedKeepsStatus ==
    /\ Handles("dropped") /\ connection_status_want # "disconnected"
    /\ link' = Dialled(link)
    /\ HandlerOnly
    /\ UNCHANGED <<connection_status, bits, excused>>
HandleDropped ==
    /\ Handles("dropped") /\ connection_status_want # "disconnected"
    /\ Redials \/ GivesUp
    /\ HandlerOnly
    /\ UNCHANGED excused

HandleWanted ==
    /\ Handles("refused") \/ Handles("dropped")
    /\ connection_status_want = "disconnected"
    /\ connection_status' = "disconnected"
    /\ bits' = bits \cup {"disconnected"}
    /\ HandlerOnly
    /\ UNCHANGED <<link, excused>>

Handler == HandleStart \/ HandleIp \/ HandleRefused \/ HandleDropped \/ HandleWanted
-----------------------------------------------------------------------------
On(pc) == Sane /\ hermes.pc = pc
Turns(pc) == hermes' = [hermes EXCEPT !.pc = pc]
Retries(pc) == hermes' = [hermes EXCEPT !.pc = pc, !.retries = @ - 1]
HermesOnly == UNCHANGED <<enabled, app, fault>>

Receive ==
    /\ On("idle") /\ queue # <<>>
    /\ LET m == Head(queue) IN
         hermes' = [pc |-> m.command, caller |-> m.caller, retries |-> 0]
    /\ queue' = Tail(queue)
    /\ HermesOnly
    /\ UNCHANGED <<connection_status, connection_status_want, bits, radio, excused>>

(* hermes_do_disconnect.                                                   *)
WantDisconnected ==
    /\ On("disconnect")
    /\ connection_status_want' = "disconnected"
    /\ Turns("hang")
    /\ HermesOnly
    /\ UNCHANGED <<connection_status, bits, queue, radio, excused>>

AlreadyDisconnected ==
    /\ On("hang") /\ connection_status # "connected"
    /\ Turns("answer")
    /\ excused' = (excused \/ link = "connecting" \/ \E i \in DOMAIN events : events[i] \in {"start", "ip"})
    /\ HermesOnly
    /\ UNCHANGED <<connection_status, connection_status_want, bits, queue, radio>>

Disconnecting ==
    /\ On("hang") /\ connection_status = "connected"
    /\ connection_status' = "disconnected"
    /\ hermes' = [hermes EXCEPT !.pc = "hangup", !.retries = Hangups]
    /\ HermesOnly
    /\ UNCHANGED <<connection_status_want, bits, queue, radio, excused>>

HangsUp ==
    /\ On("hangup") /\ Room
    /\ IF link = "off" THEN Abort ELSE
       /\ HangUp
       /\ excused' = \E i \in DOMAIN events : events[i] = "start"
       /\ Turns("hungup")
       /\ HermesOnly
       /\ UNCHANGED <<connection_status, connection_status_want, bits, queue>>

Answers == {"connected", "disconnected"}
HeardHangup ==
    /\ On("hungup") /\ bits \cap Answers # {}
    /\ bits' = bits \ Answers
    /\ IF "disconnected" \in bits \/ hermes.retries = 0 THEN Turns("answer") ELSE Retries("hangup")
    /\ HermesOnly
    /\ UNCHANGED <<connection_status, connection_status_want, queue, radio, excused>>

HangupTimesOut ==
    /\ On("hungup") /\ bits \cap Answers = {}
    /\ IF hermes.retries = 0 THEN Turns("answer") ELSE Retries("hangup")
    /\ HermesOnly
    /\ UNCHANGED <<connection_status, connection_status_want, bits, queue, radio, excused>>

(* hermes_do_connect.  It waits for three bits at once, so as a rule until *)
(* the timeout, and clears none.                                           *)
WantConnected ==
    /\ On("connect")
    /\ connection_status_want' = "connected"
    /\ Turns("call")
    /\ HermesOnly
    /\ UNCHANGED <<connection_status, bits, queue, radio, excused>>

AlreadyConnected ==
    /\ On("call") /\ connection_status = "connected"
    /\ Turns("answer")
    /\ HermesOnly
    /\ UNCHANGED <<connection_status, connection_status_want, bits, queue, radio, excused>>

Connecting ==
    /\ On("call") /\ connection_status # "connected" /\ Room
    /\ IF link = "off" THEN Abort ELSE
       /\ HangUp
       /\ hermes' = [hermes EXCEPT !.pc = "dial", !.retries = Dials]
       /\ HermesOnly
       /\ UNCHANGED <<connection_status, connection_status_want, bits, queue, excused>>

ConfigRefused ==
    /\ On("dial") /\ hermes.retries > 0
    /\ Retries("dial")
    /\ HermesOnly
    /\ UNCHANGED <<connection_status, connection_status_want, bits, queue, radio, excused>>

Dial ==
    /\ On("dial")
    /\ link' = Dialled(link)
    /\ Turns("dialled")
    /\ HermesOnly
    /\ UNCHANGED <<connection_status, connection_status_want, bits, queue, events, excused>>

DialEnds ==
    /\ On("dialled")
    /\ IF "auth" \in bits \/ "connected" \in bits \/ hermes.retries = 0
       THEN Turns("answer") ELSE Retries("dial")
    /\ HermesOnly
    /\ UNCHANGED <<connection_status, connection_status_want, bits, queue, radio, excused>>

(* hermes_do_scan: unwilling so soon after the last, or through to results *)
(* that ESP-IDF refuses to give when the radio is off.                     *)
ScanUnwilling ==
    /\ On("scan")
    /\ Turns("answer")
    /\ HermesOnly
    /\ UNCHANGED <<connection_status, connection_status_want, bits, queue, radio, excused>>
Scan ==
    /\ On("scan")
    /\ IF link = "off" THEN Abort ELSE
       /\ Turns("answer")
       /\ HermesOnly
       /\ UNCHANGED <<connection_status, connection_status_want, bits, queue, radio, excused>>

(* The answer is the status, as the value of a notification; WIFI_ERROR is *)
(* zero, which a task that does not yet wait takes for none.               *)
AnswerNobody ==
    /\ On("answer")
    /\ hermes' = Idle
    /\ UNCHANGED <<status, bits, queue, app, radio, fault, excused>>
Answer ==
    /\ On("answer")
    /\ hermes' = Idle
    /\ app' = [t \in Task |->
                 CASE t = hermes.caller /\ app[t] = "waits" -> "rest"
                   [] t = hermes.caller /\ app[t] = "sent" ->
                        IF connection_status = "error" THEN "lost" ELSE "told"
                   [] OTHER -> app[t]]
    /\ UNCHANGED <<status, bits, queue, radio, fault, excused>>

HermesStep ==
    \/ Receive
    \/ WantDisconnected \/ AlreadyDisconnected \/ Disconnecting \/ HangsUp \/ HeardHangup \/ HangupTimesOut
    \/ WantConnected \/ AlreadyConnected \/ Connecting \/ ConfigRefused \/ Dial \/ DialEnds
    \/ ScanUnwilling \/ Scan \/ Answer
-----------------------------------------------------------------------------
At(t, pc) == Sane /\ app[t] = pc
Goes(t, pc) == app' = [app EXCEPT ![t] = pc]
Commands(t, c) == /\ At(t, "rest")
                  /\ Goes(t, c)
                  /\ UNCHANGED <<status, bits, queue, hermes, radio, fault, excused>>

(* wifi_connect, wifi_disconnect, wifi_scan_get_num_results look at the    *)
(* status first; wifi_scan_start does not wait for its answer.             *)
Connect(t) == connection_status # "connected" /\ Commands(t, "connect")
Disconnect(t) == connection_status # "disconnected" /\ Commands(t, "disconnect")
ScanResults(t) == enabled /\ Commands(t, "scan")

ScanStart(t) ==
    /\ At(t, "rest") /\ enabled /\ Len(queue) < QueueLen
    /\ queue' = Append(queue, [caller |-> Nobody, command |-> "scan"])
    /\ UNCHANGED <<status, bits, hermes, app, radio, fault, excused>>

Send(t) ==
    /\ Sane /\ app[t] \in Command /\ Len(queue) < QueueLen
    /\ queue' = Append(queue, [caller |-> t, command |-> app[t]])
    /\ Goes(t, "sent")
    /\ UNCHANGED <<status, bits, hermes, radio, fault, excused>>

(* It waits, or finds the answer there.                                    *)
Take(t) ==
    /\ \/ At(t, "sent") /\ Goes(t, "waits")
       \/ At(t, "told") /\ Goes(t, "rest")
    /\ UNCHANGED <<status, bits, queue, hermes, radio, fault, excused>>

(* wifi_set_enabled.  A radio that another task has yet to stop stays on.  *)
Start(t) ==
    /\ At(t, "rest") /\ ~enabled /\ LinkHasRoom
    /\ IF link = "off" THEN link' = "idle" /\ events' = Append(events, "start")
       ELSE UNCHANGED radio
    /\ enabled' = TRUE
    /\ UNCHANGED <<connection_status, connection_status_want, bits, queue, hermes, app, fault, excused>>
Stop(t) ==
    /\ At(t, "rest") /\ enabled
    /\ connection_status_want' = "disconnected" /\ enabled' = FALSE
    /\ excused' = TRUE
    /\ Goes(t, "stop")
    /\ UNCHANGED <<connection_status, bits, queue, hermes, radio, fault>>
Stopped(t) ==
    /\ At(t, "stop")
    /\ link' = "off"
    /\ events' = IF Linked THEN Append(events, "dropped") ELSE events
    /\ Goes(t, "rest")
    /\ UNCHANGED <<status, bits, queue, hermes, fault, excused>>

Next == \/ LinkUp \/ LinkRefused \/ LinkDropped \/ Handler \/ HermesStep
        \/ \E t \in Callers : Connect(t) \/ Disconnect(t)
        \/ \E t \in Task : Send(t) \/ Take(t)
        \/ \E t \in Settings : \/ ScanResults(t) \/ ScanStart(t)
                               \/ Start(t) \/ Stop(t) \/ Stopped(t)

(* The handler and Hermes run; a task goes on with its call, and the queue *)
(* serves those that wait to send in their turn.  The link owes nothing.   *)
Fairness == /\ WF_vars(Handler) /\ WF_vars(HermesStep)
            /\ \A t \in Task : SF_vars(Send(t)) /\ WF_vars(Take(t))
            /\ \A t \in Settings : WF_vars(Stopped(t))

Spec == Init /\ [][Next]_vars /\ Fairness
-----------------------------------------------------------------------------
HermesTypeOK ==
    /\ enabled \in BOOLEAN /\ connection_status \in Status
    /\ connection_status_want \in {"disconnected", "connected"}
    /\ bits \subseteq Bit
    /\ queue \in Seq([caller : Task \cup {Nobody}, command : Command]) /\ Len(queue) <= QueueLen
    /\ hermes.retries \in 0..(Dials + Hangups) /\ hermes.caller \in Task \cup {Nobody}
    /\ link \in {"off", "idle", "connecting", "up"}
    /\ Len(events) <= MaxEvents + 1 /\ \A i \in DOMAIN events : events[i] \in Event
    /\ fault \in BOOLEAN /\ excused \in BOOLEAN

(* event_handler and hermes_do_disconnect both write connection_status:    *)
(* once the events are handled, and but for a disconnect in hand, it says  *)
(* what the link is.                                                       *)
StatusFollowsLink ==
    /\ HermesTypeOK
    /\ Sane /\ events = <<>> /\ hermes.pc # "hangup" => (connection_status = "connected" <=> link = "up")

(* event_handler's redialling and hermes_do_disconnect: a link nobody      *)
(* wants comes up only if it was being dialled when Hermes found itself    *)
(* already disconnected, or when the radio was stopped and started.        *)
UnwantedLinksAreExcused ==
    Sane /\ link = "up" /\ connection_status_want = "disconnected" /\ hermes.pc \in {"idle", "answer"} => excused

(* send_command: a task gets its answer, unless the answer was WIFI_ERROR  *)
(* and Hermes was faster than the task.                                    *)
CallsAreAnswered ==
    \A t \in Task : (app[t] # "rest") ~> (app[t] \in {"rest", "lost"} \/ fault)
=============================================================================

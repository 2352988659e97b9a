---------------------------- MODULE HermesProofs ----------------------------
(***************************************************************************)
(* Proofs about the WiFi driver, for any number of tasks that connect,     *)
(* disconnect, scan and switch the radio, any queue, retries and events.   *)
(***************************************************************************)
EXTENDS Hermes, TLAPS

Places == {"idle", "connect", "disconnect", "scan", "hang", "hangup", "hungup",
           "call", "dial", "dialled", "answer"}

PlacesInv ==
    /\ enabled \in BOOLEAN /\ connection_status \in Status
    /\ connection_status_want \in {"disconnected", "connected"}
    /\ bits \subseteq Bit
    /\ queue \in Seq([caller : Task \cup {Nobody}, command : Command]) /\ Len(queue) <= QueueLen
    /\ hermes \in [pc : Places, caller : Task \cup {Nobody}, retries : 0..(Dials + Hangups)]
    /\ fault \in BOOLEAN /\ excused \in BOOLEAN

(* A radio that stops may leave one event more than there is room for.     *)
RadioInv ==
    /\ link \in {"off", "idle", "connecting", "up"}
    /\ events \in Seq(Event)
    /\ Len(events) <= MaxEvents \/ (Len(events) = MaxEvents + 1 /\ link = "off")

(* What the status will be, once the events are handled: the last event of *)
(* the link says whether it is up; if there is none, the status does, but  *)
(* Hermes may already have cleared it for a link he is to hang up.         *)
NoNews == \A k \in DOMAIN events : events[k] = "start"
LastNews(k) == events[k] # "start" /\ \A j \in DOMAIN events : j > k => events[j] = "start"

NewsInv ==
    /\ \A k \in DOMAIN events : LastNews(k) => (events[k] = "ip" <=> link = "up")
    /\ NoNews => /\ connection_status = "connected" => link = "up"
                 /\ link = "up" /\ hermes.pc # "hangup" => connection_status = "connected"

(* While nobody wants a link, only Hermes' own disconnect still meets one. *)
UnwantedInv ==
    ~excused /\ connection_status_want = "disconnected" =>
      /\ hermes.pc \notin {"call", "dial", "dialled"}
      /\ hermes.pc \notin {"hang", "hangup"} => ~Linked

HermesInv == PlacesInv /\ RadioInv /\ NewsInv /\ (Sane => UnwantedInv)
-----------------------------------------------------------------------------
(* The queue of events, when one is sent or taken.                         *)
LEMMA AppendFacts ==
    ASSUME RadioInv, NEW e \in Event
    PROVE  LET s == Append(events, e) IN
           /\ Len(events) \in Nat /\ DOMAIN events = 1..Len(events)
           /\ s \in Seq(Event) /\ Len(s) = Len(events) + 1 /\ DOMAIN s = 1..(Len(events) + 1)
           /\ s[Len(events) + 1] = e /\ \A k \in DOMAIN events : s[k] = events[k]
<1>1. events \in Seq(Event)
  BY DEF RadioInv
<1> QED
  BY <1>1

LEMMA TailFacts ==
    ASSUME RadioInv, events # <<>>
    PROVE  /\ Len(events) \in Nat /\ DOMAIN events = 1..Len(events) /\ Len(events) >= 1
           /\ Head(events) = events[1]
           /\ Tail(events) \in Seq(Event) /\ Len(Tail(events)) = Len(events) - 1
           /\ DOMAIN Tail(events) = 1..(Len(events) - 1)
           /\ \A k \in DOMAIN Tail(events) : Tail(events)[k] = events[k + 1]
<1>1. events \in Seq(Event)
  BY DEF RadioInv
<1> QED
  BY <1>1

(* An event of the link is the last one, and says what the link is.        *)
LEMMA NewsSent ==
    ASSUME RadioInv, NEW e \in Event, e # "start", events' = Append(events, e),
           e = "ip" <=> link' = "up"
    PROVE  NewsInv'
<1>1. Len(events) + 1 \in DOMAIN events' /\ events'[Len(events) + 1] = e /\ Len(events) \in Nat
      /\ DOMAIN events' = 1..(Len(events) + 1)
  BY AppendFacts
<1>2. ~NoNews'
  BY <1>1 DEF NoNews
<1>3. \A k \in DOMAIN events' : LastNews(k)' => k = Len(events) + 1
  BY <1>1 DEF LastNews
<1> QED
  BY <1>1, <1>2, <1>3 DEF NewsInv

(* The start of the radio is no news of the link.                          *)
LEMMA StartSent ==
    ASSUME RadioInv, NewsInv, events' = Append(events, "start"), link # "up", link' # "up",
           UNCHANGED <<connection_status, hermes>>
    PROVE  NewsInv'
<1>1. /\ Len(events) \in Nat /\ DOMAIN events = 1..Len(events)
      /\ DOMAIN events' = 1..(Len(events) + 1) /\ events'[Len(events) + 1] = "start"
      /\ \A k \in DOMAIN events : events'[k] = events[k]
  BY AppendFacts DEF Event
<1>2. NoNews' => NoNews
  BY <1>1 DEF NoNews
<1>3. \A k \in DOMAIN events' : LastNews(k)' => k \in DOMAIN events /\ LastNews(k)
  BY <1>1 DEF LastNews
<1> QED
  BY <1>1, <1>2, <1>3 DEF NewsInv

(* event_handler: what it makes of the status is what the event said, and  *)
(* dialling again makes no link come up by itself.                         *)
LEMMA EventTaken ==
    ASSUME RadioInv, NewsInv, events # <<>>, events' = Tail(events),
           link' = "up" <=> link = "up", UNCHANGED hermes,
           IF Head(events) = "start" THEN UNCHANGED connection_status
           ELSE connection_status' = "connected" <=> Head(events) = "ip"
    PROVE  NewsInv'
<1>1. /\ Len(events) \in Nat /\ DOMAIN events = 1..Len(events) /\ Len(events) >= 1
      /\ Head(events) = events[1] /\ DOMAIN events' = 1..(Len(events) - 1)
      /\ \A k \in DOMAIN events' : events'[k] = events[k + 1]
  BY TailFacts
<1>2. \A j \in DOMAIN events : j = 1 \/ (j - 1 \in DOMAIN events' /\ events[j] = events'[j - 1])
  BY <1>1
<1>3. ASSUME NEW k \in DOMAIN events', LastNews(k)'
      PROVE  events'[k] = "ip" <=> link' = "up"
  <2>1. k + 1 \in DOMAIN events /\ LastNews(k + 1)
    BY <1>1, <1>2, <1>3 DEF LastNews
  <2> QED
    BY <1>1, <2>1 DEF NewsInv
<1>4. ASSUME NoNews'
      PROVE  /\ connection_status' = "connected" => link' = "up"
             /\ link' = "up" /\ hermes'.pc # "hangup" => connection_status' = "connected"
  <2>1. \A j \in DOMAIN events : j # 1 => events[j] = "start"
    BY <1>2, <1>4 DEF NoNews
  <2>2. CASE Head(events) = "start"
    BY <1>1, <2>1, <2>2 DEF NewsInv, NoNews
  <2>3. CASE Head(events) # "start"
    <3>1. LastNews(1) /\ 1 \in DOMAIN events
      BY <1>1, <2>1, <2>3 DEF LastNews
    <3> QED
      BY <1>1, <2>3, <3>1 DEF NewsInv
  <2> QED
    BY <2>2, <2>3
<1> QED
  BY <1>3, <1>4 DEF NewsInv

(* Steps that leave the radio and the status alone, and Hermes in or out   *)
(* of a disconnect that has cleared the status.                            *)
LEMMA NoEvent ==
    ASSUME NewsInv, UNCHANGED <<connection_status, events, link>>,
           hermes.pc = "hangup" => hermes'.pc = "hangup"
    PROVE  NewsInv'
BY DEF NewsInv, NoNews, LastNews
-----------------------------------------------------------------------------
(* The link comes, is refused, or goes, and says so.                       *)
LEMMA LinkPreserves ==
    ASSUME HermesInv, LinkUp \/ LinkRefused \/ LinkDropped
    PROVE  HermesInv'
<1>1. PICK e \in Event \ {"start"} :
        /\ events' = Append(events, e) /\ LinkHasRoom
        /\ link' \in {"up", "idle"} /\ (e = "ip" <=> link' = "up")
  BY DEF LinkUp, LinkRefused, LinkDropped, Event
<1>2. UNCHANGED <<status, bits, queue, hermes, app, fault, excused>>
  BY DEF LinkUp, LinkRefused, LinkDropped, RadioOnly
<1>3. PlacesInv'
  BY <1>2 DEF HermesInv, PlacesInv, status
<1>4. RadioInv'
  <2>1. events' \in Seq(Event) /\ Len(events') = Len(events) + 1 /\ Len(events) \in Nat
    BY <1>1, AppendFacts DEF HermesInv
  <2> QED
    BY <1>1, <2>1, HermesAssumption DEF RadioInv, LinkHasRoom
<1>5. NewsInv'
  BY <1>1, NewsSent DEF HermesInv
<1>6. Sane /\ UnwantedInv => UnwantedInv'
  BY <1>1, <1>2 DEF LinkUp, LinkRefused, LinkDropped, UnwantedInv, Linked, status
<1> QED
  BY <1>2, <1>3, <1>4, <1>5, <1>6 DEF HermesInv, Sane

LEMMA HandlerPreserves ==
    ASSUME HermesInv, Handler
    PROVE  HermesInv'
<1> USE DEF Handler, HandleStart, HandleIp, HandleRefused, HandleDropped, HandleWanted, Handles,
            HandlerOnly, Redials, GivesUp, Dialled
<1>1. /\ Sane /\ Sane' /\ events # <<>> /\ events' = Tail(events)
      /\ UNCHANGED <<enabled, connection_status_want, queue, hermes>>
  BY DEF Sane
<1>2. PlacesInv'
  BY <1>1 DEF HermesInv, PlacesInv, Status, Bit
<1>3. link' \in {link, Dialled(link)}
  OBVIOUS
<1>4. RadioInv'
  <2>1. events' \in Seq(Event) /\ Len(events') = Len(events) - 1 /\ Len(events) \in Nat
    BY <1>1, TailFacts DEF HermesInv
  <2> QED
    BY <1>3, <2>1, HermesAssumption DEF HermesInv, RadioInv
<1>5. NewsInv'
  <2>1. /\ link' = "up" <=> link = "up"
        /\ IF Head(events) = "start" THEN UNCHANGED connection_status
           ELSE connection_status' = "connected" <=> Head(events) = "ip"
    OBVIOUS
  <2> QED
    BY <1>1, <2>1, EventTaken DEF HermesInv
<1>6. UnwantedInv'
  BY <1>1 DEF HermesInv, UnwantedInv, Linked
<1> QED
  BY <1>1, <1>2, <1>4, <1>5, <1>6 DEF HermesInv
-----------------------------------------------------------------------------
(* An abort stops everything else.                                         *)
LEMMA AbortPreserves ==
    ASSUME HermesInv, Abort
    PROVE  HermesInv'
BY DEF Abort, status, radio, HermesInv, PlacesInv, RadioInv, NewsInv, NoNews, LastNews, Sane

(* Hermes goes on without calling the radio or writing the status.         *)
HermesType == [pc : Places, caller : Task \cup {Nobody}, retries : 0..(Dials + Hangups)]

LEMMA TurnPreserves ==
    ASSUME HermesInv, Sane, hermes.pc # "hangup",
           hermes' \in HermesType, bits' \subseteq Bit,
           queue' \in Seq([caller : Task \cup {Nobody}, command : Command]), Len(queue') <= QueueLen,
           connection_status_want' \in {"disconnected", "connected"},
           UNCHANGED <<enabled, connection_status, events, link, fault, excused>>,
           ~excused /\ connection_status_want' = "disconnected" =>
             /\ hermes'.pc \notin {"call", "dial", "dialled"}
             /\ hermes'.pc \notin {"hang", "hangup"} => ~Linked
    PROVE  HermesInv'
<1>1. PlacesInv'
  BY DEF HermesInv, PlacesInv, HermesType
<1>2. RadioInv'
  BY DEF HermesInv, RadioInv
<1>3. NewsInv'
  BY NoEvent DEF HermesInv
<1>4. UnwantedInv'
  BY DEF UnwantedInv, Linked
<1> QED
  BY <1>1, <1>2, <1>3, <1>4 DEF HermesInv

(* The bounds on the retries, and what becomes of them.                    *)
LEMMA HermesTypes ==
    ASSUME HermesInv
    PROVE  /\ \A pc \in Places : [hermes EXCEPT !.pc = pc] \in HermesType
           /\ hermes.retries > 0 =>
                \A pc \in Places : [hermes EXCEPT !.pc = pc, !.retries = @ - 1] \in HermesType
           /\ \A pc \in Places, n \in {Dials, Hangups} :
                [hermes EXCEPT !.pc = pc, !.retries = n] \in HermesType
           /\ 0 \in 0..(Dials + Hangups) /\ hermes.retries \in Nat
<1>1. /\ hermes \in HermesType /\ Dials \in Nat /\ Hangups \in Nat
      /\ hermes.retries \in 0..(Dials + Hangups)
  BY HermesAssumption DEF HermesInv, PlacesInv, HermesType
<1>2. \A pc \in Places, n \in 0..(Dials + Hangups) :
        [hermes EXCEPT !.pc = pc, !.retries = n] \in HermesType
  BY <1>1 DEF HermesType
<1>3. \A pc \in Places : [hermes EXCEPT !.pc = pc] \in HermesType
  BY <1>1 DEF HermesType
<1>4. /\ Dials \in 0..(Dials + Hangups) /\ Hangups \in 0..(Dials + Hangups)
      /\ hermes.retries > 0 => hermes.retries - 1 \in 0..(Dials + Hangups)
  BY <1>1
<1>5. ASSUME hermes.retries > 0, NEW pc \in Places
      PROVE  [hermes EXCEPT !.pc = pc, !.retries = @ - 1] \in HermesType
  BY <1>1, <1>4, <1>5 DEF HermesType
<1>6. hermes.retries \in Nat /\ 0 \in 0..(Dials + Hangups)
  BY <1>1
<1>7. \A pc \in Places, n \in {Dials, Hangups} : [hermes EXCEPT !.pc = pc, !.retries = n] \in HermesType
  BY <1>2, <1>4
<1> QED
  BY <1>3, <1>5, <1>6, <1>7, Zenon

LEMMA HeadAndTail ==
    ASSUME NEW S, NEW s \in Seq(S), s # <<>>
    PROVE  Head(s) \in S /\ Tail(s) \in Seq(S) /\ Len(Tail(s)) = Len(s) - 1 /\ Len(s) \in Nat
OBVIOUS

(* Hermes' steps that neither call the radio nor find the link as wanted.  *)
LEMMA QuietPreserves ==
    ASSUME HermesInv,
           \/ Receive \/ WantDisconnected \/ HeardHangup \/ HangupTimesOut
           \/ WantConnected \/ AlreadyConnected \/ ConfigRefused \/ DialEnds
           \/ ScanUnwilling \/ Scan \/ Answer
    PROVE  HermesInv'
<1> USE DEF On, Turns, Retries, HermesOnly, status, radio, Sane, Places
<1>1. CASE fault'
  BY <1>1, AbortPreserves DEF Receive, WantDisconnected, HeardHangup, HangupTimesOut, WantConnected,
     AlreadyConnected, ConfigRefused, DialEnds, ScanUnwilling, Scan, Answer
<1>2. /\ bits \subseteq Bit
      /\ queue \in Seq([caller : Task \cup {Nobody}, command : Command]) /\ Len(queue) <= QueueLen
      /\ connection_status_want \in {"disconnected", "connected"}
      /\ hermes \in HermesType /\ hermes.retries \in Nat
  BY HermesTypes DEF HermesInv, PlacesInv, HermesType
<1>3. CASE Receive
  <2>1. queue # <<>> /\ queue' = Tail(queue)
        /\ hermes' = [pc |-> Head(queue).command, caller |-> Head(queue).caller, retries |-> 0]
    BY <1>3 DEF Receive
  <2>2. /\ Head(queue) \in [caller : Task \cup {Nobody}, command : Command]
        /\ queue' \in Seq([caller : Task \cup {Nobody}, command : Command])
        /\ Len(queue') = Len(queue) - 1 /\ Len(queue) \in Nat
    BY <1>2, <2>1, HeadAndTail
  <2>3. hermes' \in HermesType /\ hermes'.pc \in Command
    BY <2>1, <2>2, HermesTypes DEF Command, HermesType
  <2>4. Len(queue') <= QueueLen
    BY <1>2, <2>2, HermesAssumption
  <2> QED
    BY <1>2, <1>3, <2>2, <2>3, <2>4, TurnPreserves DEF Receive, HermesInv, UnwantedInv, Command
<1>4. CASE Answer
  <2>1. hermes' \in HermesType /\ hermes'.pc = "idle"
    BY <1>4, HermesTypes DEF Answer, Idle, HermesType
  <2> QED
    BY <1>2, <1>4, <2>1, TurnPreserves DEF Answer, HermesInv, UnwantedInv
<1>5. CASE WantDisconnected
  <2>1. hermes' \in HermesType /\ hermes'.pc = "hang"
    BY <1>2, <1>5, HermesTypes DEF WantDisconnected, HermesType
  <2> QED
    BY <1>2, <1>5, <2>1, TurnPreserves DEF WantDisconnected
<1>6. CASE WantConnected
  <2>1. hermes' \in HermesType
    BY <1>6, HermesTypes DEF WantConnected
  <2> QED
    BY <1>2, <1>6, <2>1, TurnPreserves DEF WantConnected
<1>7. CASE HeardHangup \/ HangupTimesOut
  <2>1. /\ hermes.pc = "hungup"
        /\ \/ Turns("answer")
           \/ hermes.retries > 0 /\ Retries("hangup")
    BY <1>2, <1>7 DEF HeardHangup, HangupTimesOut
  <2>2. hermes' \in HermesType /\ hermes'.pc \in {"answer", "hangup"}
    <3>1. CASE Turns("answer")
      BY <1>2, <3>1, HermesTypes DEF HermesType
    <3>2. CASE hermes.retries > 0 /\ Retries("hangup")
      <4>1. hermes' \in HermesType
        BY <3>2, HermesTypes
      <4>2. hermes'.pc = "hangup"
        BY <1>2, <3>2 DEF HermesType
      <4> QED
        BY <4>1, <4>2
    <3> QED
      BY <2>1, <3>1, <3>2
  <2>3. bits' \subseteq Bit
    BY <1>2, <1>7 DEF HeardHangup, HangupTimesOut
  <2> QED
    BY <1>2, <1>7, <2>1, <2>2, <2>3, TurnPreserves DEF HeardHangup, HangupTimesOut, HermesInv, UnwantedInv
<1>8. CASE AlreadyConnected \/ ConfigRefused \/ DialEnds
  <2>1. /\ hermes.pc \in {"call", "dial", "dialled"}
        /\ \/ Turns("answer")
           \/ hermes.retries > 0 /\ Retries("dial")
    BY <1>2, <1>8 DEF AlreadyConnected, ConfigRefused, DialEnds
  <2>2. hermes' \in HermesType
    BY <2>1, HermesTypes
  <2> QED
    BY <1>2, <1>8, <2>1, <2>2, TurnPreserves DEF AlreadyConnected, ConfigRefused, DialEnds, HermesInv,
       UnwantedInv
<1>9. CASE (ScanUnwilling \/ Scan) /\ ~fault'
  <2>1. /\ hermes.pc = "scan" /\ Turns("answer")
        /\ UNCHANGED <<connection_status, connection_status_want, bits, queue, radio, excused>>
        /\ UNCHANGED <<enabled, fault>>
    BY <1>9 DEF ScanUnwilling, Scan, Abort
  <2>2. hermes' \in HermesType /\ hermes'.pc = "answer"
    BY <1>2, <2>1, HermesTypes DEF HermesType
  <2> QED
    BY <1>2, <1>9, <2>1, <2>2, TurnPreserves DEF ScanUnwilling, Scan, HermesInv, UnwantedInv
<1> QED
  BY <1>1, <1>3, <1>4, <1>5, <1>6, <1>7, <1>8, <1>9

(* hermes_do_disconnect finds nothing to do: as the status is not that of  *)
(* a link, there is one only if an event of it, or a dial, is on its way.  *)
LEMMA AlreadyDisconnectedPreserves ==
    ASSUME HermesInv, AlreadyDisconnected
    PROVE  HermesInv'
<1> USE DEF AlreadyDisconnected, On, Turns, HermesOnly, radio, Sane
<1>1. hermes' \in [pc : {"answer"}, caller : Task \cup {Nobody}, retries : 0..(Dials + Hangups)]
  BY DEF HermesInv, PlacesInv
<1>2. PlacesInv'
  BY <1>1 DEF HermesInv, PlacesInv, Places
<1>3. RadioInv'
  BY DEF HermesInv, RadioInv
<1>4. NewsInv'
  BY NoEvent DEF HermesInv
<1>5. link = "up" => excused'
  <2> SUFFICES ASSUME link = "up", \A i \in DOMAIN events : events[i] \notin {"start", "ip"}
               PROVE  FALSE
    OBVIOUS
  <2>1. events \in Seq(Event)
    BY DEF HermesInv, RadioInv
  <2>2. CASE events = <<>>
    BY <2>2 DEF HermesInv, NewsInv, NoNews
  <2>3. CASE events # <<>>
    <3>1. /\ Len(events) \in DOMAIN events
          /\ \A j \in DOMAIN events : ~(j > Len(events))
      BY <2>1, <2>3
    <3>2. LastNews(Len(events))
      BY <3>1 DEF LastNews
    <3> QED
      BY <3>1, <3>2 DEF HermesInv, NewsInv
  <2> QED
    BY <2>2, <2>3
<1>6. UnwantedInv'
  BY <1>1, <1>5 DEF UnwantedInv, Linked
<1> QED
  BY <1>2, <1>3, <1>4, <1>6 DEF HermesInv

(* It clears the status of a link that it is to hang up.                   *)
LEMMA DisconnectingPreserves ==
    ASSUME HermesInv, Disconnecting
    PROVE  HermesInv'
<1> USE DEF Disconnecting, On, HermesOnly, radio, Sane
<1>1. hermes' \in HermesType /\ hermes'.pc = "hangup"
  BY HermesTypes DEF Places, HermesType
<1>2. PlacesInv'
  BY <1>1 DEF HermesInv, PlacesInv, HermesType, Status
<1>3. RadioInv'
  BY DEF HermesInv, RadioInv
<1>4. NewsInv'
  BY <1>1 DEF HermesInv, NewsInv, NoNews, LastNews
<1>5. UnwantedInv'
  BY <1>1 DEF UnwantedInv, Linked
<1> QED
  BY <1>2, <1>3, <1>4, <1>5 DEF HermesInv

(* esp_wifi_disconnect, of either command: a link that there was is gone,  *)
(* and its event comes last.                                               *)
LEMMA HangUpFacts ==
    ASSUME HermesInv, HangUp, Room, link # "off", UNCHANGED connection_status
    PROVE  RadioInv' /\ NewsInv' /\ ~Linked'
<1>1. link' = "idle"
  BY DEF HangUp
<1>2. CASE Linked
  <2>1. events' = Append(events, "dropped") /\ "dropped" \in Event /\ Len(events) < MaxEvents
    BY <1>2 DEF HangUp, Room, Event
  <2>2. NewsInv'
    BY <1>1, <2>1, NewsSent DEF HermesInv
  <2>3. events' \in Seq(Event) /\ Len(events') = Len(events) + 1 /\ Len(events) \in Nat
    BY <2>1, AppendFacts DEF HermesInv
  <2> QED
    BY <1>1, <2>1, <2>2, <2>3, HermesAssumption DEF RadioInv, Linked
<1>3. CASE ~Linked
  BY <1>1, <1>3 DEF HangUp, HermesInv, RadioInv, NewsInv, NoNews, LastNews, Linked
<1> QED
  BY <1>2, <1>3

LEMMA CallsPreserve ==
    ASSUME HermesInv, HangsUp \/ Connecting \/ Dial
    PROVE  HermesInv'
<1> USE DEF On, Turns, HermesOnly, Sane
<1>1. CASE fault'
  BY <1>1, AbortPreserves DEF HangsUp, Connecting, Dial
<1>2. CASE HangsUp /\ ~fault'
  <2>1. HangUp /\ Room /\ link # "off" /\ UNCHANGED connection_status
    BY <1>2 DEF HangsUp, Abort
  <2>2. RadioInv' /\ NewsInv' /\ ~Linked'
    BY <2>1, HangUpFacts
  <2>3. hermes' \in [pc : {"hungup"}, caller : Task \cup {Nobody}, retries : 0..(Dials + Hangups)]
    BY <1>2, <2>1 DEF HangsUp, HermesInv, PlacesInv
  <2>4. PlacesInv'
    BY <1>2, <2>1, <2>3 DEF HangsUp, HermesInv, PlacesInv, Places
  <2> QED
    BY <2>2, <2>3, <2>4 DEF HermesInv, UnwantedInv
<1>3. CASE Connecting /\ ~fault'
  <2>1. HangUp /\ Room /\ link # "off" /\ UNCHANGED connection_status
    BY <1>3 DEF Connecting, Abort
  <2>2. RadioInv' /\ NewsInv' /\ ~Linked'
    BY <2>1, HangUpFacts
  <2>3. hermes' \in HermesType
    BY <1>3, <2>1, HermesTypes DEF Connecting, Places
  <2>4. PlacesInv'
    BY <1>3, <2>1, <2>3 DEF Connecting, HermesInv, PlacesInv, HermesType
  <2>5. UnwantedInv'
    BY <1>3, <2>1 DEF Connecting, HermesInv, UnwantedInv
  <2> QED
    BY <2>2, <2>4, <2>5 DEF HermesInv
<1>4. CASE Dial
  <2>1. hermes' \in [pc : {"dialled"}, caller : Task \cup {Nobody}, retries : 0..(Dials + Hangups)]
    BY <1>4 DEF Dial, HermesInv, PlacesInv
  <2>2. PlacesInv'
    BY <1>4, <2>1 DEF Dial, HermesInv, PlacesInv, Places
  <2>3. RadioInv' /\ NewsInv'
    BY <1>4, <2>1 DEF Dial, Dialled, HermesInv, RadioInv, NewsInv, NoNews, LastNews
  <2>4. UnwantedInv'
    BY <1>4 DEF Dial, HermesInv, UnwantedInv
  <2> QED
    BY <2>2, <2>3, <2>4 DEF HermesInv
<1> QED
  BY <1>1, <1>2, <1>3, <1>4 DEF Dial
-----------------------------------------------------------------------------
(* The calls of tasks: sending puts one more command in the queue, and     *)
(* stopping the radio may leave a link without anybody who wants it.       *)
LEMMA TasksPreserve ==
    ASSUME HermesInv, NEW t \in Task,
           \/ Connect(t) \/ Disconnect(t) \/ ScanResults(t) \/ ScanStart(t) \/ Send(t) \/ Take(t)
    PROVE  HermesInv'
<1> USE DEF At, Goes, Commands, Sane
<1>1. UNCHANGED <<status, bits, hermes, radio, fault, excused>>
  BY DEF Connect, Disconnect, ScanResults, ScanStart, Send, Take
<1>2. queue' \in Seq([caller : Task \cup {Nobody}, command : Command]) /\ Len(queue') <= QueueLen
  <2>1. queue \in Seq([caller : Task \cup {Nobody}, command : Command]) /\ Len(queue) <= QueueLen
    BY DEF HermesInv, PlacesInv
  <2>2. CASE queue' = queue
    BY <2>1, <2>2
  <2>3. CASE \E m \in [caller : Task \cup {Nobody}, command : Command] :
               queue' = Append(queue, m) /\ Len(queue) < QueueLen
    BY <2>1, <2>3, HermesAssumption
  <2> QED
    BY <2>2, <2>3 DEF Connect, Disconnect, ScanResults, ScanStart, Send, Take, Command
<1>3. PlacesInv'
  BY <1>1, <1>2 DEF HermesInv, PlacesInv, status
<1>4. RadioInv' /\ NewsInv'
  BY <1>1 DEF status, radio, HermesInv, RadioInv, NewsInv, NoNews, LastNews
<1>5. Sane' = Sane /\ (UnwantedInv => UnwantedInv')
  BY <1>1 DEF status, radio, UnwantedInv, Linked
<1> QED
  BY <1>3, <1>4, <1>5 DEF HermesInv

LEMMA SwitchPreserves ==
    ASSUME HermesInv, NEW t \in Task, Start(t) \/ Stop(t) \/ Stopped(t)
    PROVE  HermesInv'
<1> USE DEF At, Goes, Sane, status, radio
<1>1. UNCHANGED <<connection_status, bits, queue, hermes, fault>>
  BY DEF Start, Stop, Stopped
<1>2. PlacesInv'
  BY <1>1 DEF Start, Stop, Stopped, HermesInv, PlacesInv
<1>3. CASE UNCHANGED radio
  <2>1. RadioInv' /\ NewsInv'
    BY <1>1, <1>3 DEF HermesInv, RadioInv, NewsInv, NoNews, LastNews
  <2>2. UnwantedInv'
    BY <1>1, <1>3 DEF Start, Stop, Stopped, HermesInv, UnwantedInv, Linked
  <2> QED
    BY <1>2, <2>1, <2>2 DEF HermesInv
<1>4. CASE Start(t) /\ link = "off" /\ link' = "idle" /\ events' = Append(events, "start")
  <2>1. NewsInv'
    BY <1>1, <1>4, StartSent DEF HermesInv
  <2>2. events' \in Seq(Event) /\ Len(events') = Len(events) + 1 /\ Len(events) \in Nat
    BY <1>4, AppendFacts DEF HermesInv, Event
  <2>3. RadioInv'
    BY <1>4, <2>2, HermesAssumption DEF Start, RadioInv, LinkHasRoom
  <2>4. UnwantedInv'
    BY <1>1, <1>4 DEF Start, HermesInv, UnwantedInv, Linked
  <2> QED
    BY <1>2, <2>1, <2>3, <2>4 DEF HermesInv
<1>5. CASE Stopped(t) /\ Linked
  <2>1. events' = Append(events, "dropped") /\ link' = "off" /\ "dropped" \in Event
    BY <1>5 DEF Stopped, Event
  <2>2. NewsInv'
    BY <2>1, NewsSent DEF HermesInv
  <2>3. events' \in Seq(Event) /\ Len(events') = Len(events) + 1 /\ Len(events) \in Nat
    BY <2>1, AppendFacts DEF HermesInv
  <2>4. RadioInv'
    BY <1>5, <2>1, <2>3, HermesAssumption DEF HermesInv, RadioInv, Linked
  <2>5. UnwantedInv'
    BY <1>1, <1>5, <2>1 DEF Stopped, HermesInv, UnwantedInv, Linked
  <2> QED
    BY <1>2, <2>2, <2>4, <2>5 DEF HermesInv
<1>6. CASE Stopped(t) /\ ~Linked
  <2>1. RadioInv' /\ NewsInv'
    BY <1>1, <1>6 DEF Stopped, Linked, HermesInv, RadioInv, NewsInv, NoNews, LastNews
  <2>2. UnwantedInv'
    BY <1>1, <1>6 DEF Stopped, HermesInv, UnwantedInv, Linked
  <2> QED
    BY <1>2, <2>1, <2>2 DEF HermesInv
<1> QED
  BY <1>3, <1>4, <1>5, <1>6 DEF Start, Stop
-----------------------------------------------------------------------------
(* Whatever the link does, tasks ask, and however many wait their turn.    *)
THEOREM HermesInvariance == Spec => []HermesInv
<1>1. Init => HermesInv
  <2> SUFFICES ASSUME Init PROVE HermesInv
    OBVIOUS
  <2>1. events \in Seq(Event) /\ Len(events) = 1 /\ \A k \in DOMAIN events : events[k] = "start"
    BY DEF Init, Event
  <2>2. hermes = [pc |-> "idle", caller |-> Nobody, retries |-> 0]
    BY DEF Init, Idle
  <2>3. PlacesInv
    <3>1. 0 \in 0..(Dials + Hangups) /\ QueueLen \in Nat
      BY HermesAssumption
    <3>2. hermes \in [pc : Places, caller : Task \cup {Nobody}, retries : 0..(Dials + Hangups)]
      BY <2>2, <3>1 DEF Places
    <3>3. queue \in Seq([caller : Task \cup {Nobody}, command : Command]) /\ Len(queue) <= QueueLen
      BY <3>1 DEF Init
    <3> QED
      BY <3>2, <3>3 DEF Init, PlacesInv, Status, Bit
  <2>4. RadioInv
    BY <2>1, HermesAssumption DEF Init, RadioInv
  <2>5. NewsInv /\ UnwantedInv
    BY <2>1 DEF Init, NewsInv, LastNews, UnwantedInv
  <2> QED
    BY <2>3, <2>4, <2>5 DEF HermesInv
<1>2. HermesInv /\ [Next]_vars => HermesInv'
  <2> SUFFICES ASSUME HermesInv, [Next]_vars
               PROVE  HermesInv'
    OBVIOUS
  <2>1. CASE LinkUp \/ LinkRefused \/ LinkDropped \/ Handler
    BY <2>1, LinkPreserves, HandlerPreserves
  <2>2. CASE HermesStep
    BY <2>2, QuietPreserves, AlreadyDisconnectedPreserves, DisconnectingPreserves, CallsPreserve
       DEF HermesStep
  <2>3. ASSUME NEW t \in Task,
               \/ Connect(t) \/ Disconnect(t) \/ ScanResults(t) \/ ScanStart(t) \/ Send(t) \/ Take(t)
               \/ Start(t) \/ Stop(t) \/ Stopped(t)
        PROVE  HermesInv'
    BY <2>3, TasksPreserve, SwitchPreserves
  <2>4. CASE UNCHANGED vars
    BY <2>4 DEF vars, status, radio, HermesInv, PlacesInv, RadioInv, NewsInv, NoNews, LastNews,
                UnwantedInv, Linked, Sane
  <2> QED
    BY <2>1, <2>2, <2>3, <2>4, HermesAssumption DEF Next
<1> QED
  BY <1>1, <1>2, PTL DEF Spec

(* event_handler and hermes_do_disconnect: with all events handled, and no *)
(* disconnect in hand, the status is that of the link.                     *)
THEOREM StatusIsTrue == Spec => []StatusFollowsLink
<1>1. HermesInv => StatusFollowsLink
  <2> SUFFICES ASSUME HermesInv PROVE StatusFollowsLink
    OBVIOUS
  <2>1. HermesTypeOK
    <3>1. /\ hermes.retries \in 0..(Dials + Hangups) /\ hermes.caller \in Task \cup {Nobody}
      BY DEF HermesInv, PlacesInv
    <3>2. Len(events) <= MaxEvents + 1 /\ \A i \in DOMAIN events : events[i] \in Event
      BY HermesAssumption DEF HermesInv, RadioInv
    <3> QED
      BY <3>1, <3>2 DEF HermesInv, PlacesInv, RadioInv, HermesTypeOK
  <2>2. events = <<>> => NoNews
    BY DEF NoNews
  <2> QED
    BY <2>1, <2>2 DEF HermesInv, NewsInv, StatusFollowsLink
<1> QED
  BY <1>1, HermesInvariance, PTL

(* A link that nobody wants comes up only by a dial or a start of the      *)
(* radio that hermes_do_disconnect, or wifi_set_enabled, did not see.      *)
THEOREM NoUnwantedLink == Spec => []UnwantedLinksAreExcused
<1>1. HermesInv => UnwantedLinksAreExcused
  BY DEF HermesInv, UnwantedInv, UnwantedLinksAreExcused, Linked
<1> QED
  BY <1>1, HermesInvariance, PTL
=============================================================================

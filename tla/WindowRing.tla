----------------------------- MODULE WindowRing -----------------------------
(***************************************************************************)
(* The compositor's windows: a circular doubly linked list threaded        *)
(* through the windows themselves, entered at window_stack, the window     *)
(* with the focus (compositor.c, push_window and remove_window).           *)
(*                                                                         *)
(* remove_window does not clear the links of the window it takes out.      *)
(* `linked' is history: which windows are in the ring.                     *)
(***************************************************************************)
EXTENDS Naturals, Sequences, FiniteSets

CONSTANT MaxWindowsMade     (* bound: windows ever created                 *)

ASSUME WindowsAssumption == MaxWindowsMade \in Nat \ {0}

Window == 1..MaxWindowsMade
NoWindow == 0               (* NULL                                        *)

VARIABLES window_stack, next, prev, cur_num_windows, linked
ringVars == <<window_stack, next, prev, cur_num_windows, linked>>

RingInit ==
    /\ window_stack = NoWindow
    /\ next = [w \in Window |-> NoWindow]
    /\ prev = [w \in Window |-> NoWindow]
    /\ cur_num_windows = 0
    /\ linked = {}

PushForgetsHead(w) ==
    /\ window_stack' = w
    /\ IF window_stack = NoWindow
       THEN next' = [next EXCEPT ![w] = w] /\ prev' = [prev EXCEPT ![w] = w]
       ELSE LET head == window_stack  tail == prev[window_stack] IN
            /\ next' = [next EXCEPT ![w] = head, ![tail] = w]
            /\ prev' = [prev EXCEPT ![w] = tail]
    /\ cur_num_windows' = cur_num_windows + 1
    /\ linked' = linked \cup {w}
PushWindow(w) ==
    /\ window_stack' = w
    /\ IF window_stack = NoWindow
       THEN next' = [next EXCEPT ![w] = w] /\ prev' = [prev EXCEPT ![w] = w]
       ELSE LET head == window_stack  tail == prev[window_stack] IN
            /\ next' = [next EXCEPT ![w] = head, ![tail] = w]
            /\ prev' = [prev EXCEPT ![w] = tail, ![head] = w]
    /\ cur_num_windows' = cur_num_windows + 1
    /\ linked' = linked \cup {w}

HasLinks(w) == next[w] # NoWindow /\ prev[w] # NoWindow

(* remove_window: the ring without w, which may be any window of it, and   *)
(* the focus to the one behind it.  FN+CROSS clears the links of w after   *)
(* it, and those of a freed window are nothing any more.                   *)
RemoveKeepsFocus(w, cleared) ==
    IF ~HasLinks(w) THEN UNCHANGED ringVars ELSE
    LET before == prev[w]  after == next[w] IN
    /\ window_stack' = IF before = w THEN NoWindow
                       ELSE IF window_stack = w THEN after ELSE window_stack
    /\ next' = [next EXCEPT ![before] = after, ![w] = IF cleared THEN NoWindow ELSE @]
    /\ prev' = [prev EXCEPT ![after] = before, ![w] = IF cleared THEN NoWindow ELSE @]
    /\ cur_num_windows' = cur_num_windows - 1
    /\ linked' = linked \ {w}
RemoveWindow(w, cleared) ==
    IF ~HasLinks(w) THEN UNCHANGED ringVars ELSE
    LET before == prev[w]  after == next[w] IN
    /\ window_stack' = IF before = w THEN NoWindow ELSE after
    /\ next' = [next EXCEPT ![before] = after, ![w] = IF cleared THEN NoWindow ELSE @]
    /\ prev' = [prev EXCEPT ![after] = before, ![w] = IF cleared THEN NoWindow ELSE @]
    /\ cur_num_windows' = cur_num_windows - 1
    /\ linked' = linked \ {w}

(* remove_window takes these for windows of the ring, and they are not.    *)
OutButLinked(w) == HasLinks(w) /\ w \notin linked

SwitchWindow ==
    /\ window_stack # NoWindow
    /\ window_stack' = next[window_stack]
    /\ UNCHANGED <<next, prev, cur_num_windows, linked>>
-----------------------------------------------------------------------------
RingTypeOK ==
    /\ window_stack \in Window \cup {NoWindow}
    /\ next \in [Window -> Window \cup {NoWindow}]
    /\ prev \in [Window -> Window \cup {NoWindow}]
    /\ cur_num_windows \in Nat
    /\ linked \subseteq Window

(* push_window and remove_window: the links of the windows in the ring     *)
(* lead to windows in the ring and are each other's inverse, the focus is  *)
(* on one of them, and cur_num_windows, which window_create checks, is     *)
(* their number, whatever stale links the removed windows still hold.      *)
RingIsSound ==
    /\ window_stack = NoWindow <=> linked = {}
    /\ window_stack \in linked \cup {NoWindow}
    /\ \A w \in linked : /\ next[w] \in linked /\ prev[w] \in linked
                         /\ prev[next[w]] = w /\ next[prev[w]] = w
    /\ cur_num_windows = Cardinality(linked)

(* The windows from the focus backwards, as the frame loop meets them.     *)
FromFocus == [i \in 0..cur_num_windows |->
                LET at[k \in 0..cur_num_windows] ==
                      IF k = 0 THEN window_stack ELSE next[at[k - 1]]
                IN at[i]]
InOrder == [i \in 1..cur_num_windows |-> FromFocus[i - 1]]

List == INSTANCE WindowList WITH list <- InOrder

(* push_window, remove_window and ALT-TAB: following `next' from the focus *)
(* gives exactly the list of windows, so none is lost from the ring and    *)
(* none is met twice.                                                      *)
ListSpec == List!Spec
=============================================================================

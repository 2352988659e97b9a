----------------------------- MODULE WindowList -----------------------------
(***************************************************************************)
(* What the compositor's ring of windows promises: a list, the window with *)
(* the focus first, the one drawn first last.                              *)
(***************************************************************************)
EXTENDS Naturals, Sequences

CONSTANT Window

VARIABLE list

Listed(w) == \E i \in 1..Len(list) : list[i] = w

(* A new window gets the focus.                                            *)
Push(w) == ~Listed(w) /\ list' = <<w>> \o list

(* The window behind the one removed gets the focus, whoever had it.       *)
Remove(i) == list' = SubSeq(list, i + 1, Len(list)) \o SubSeq(list, 1, i - 1)

SwitchToNext == list # <<>> /\ list' = Tail(list) \o <<Head(list)>>

Init == list = <<>>
Next == \/ \E w \in Window : Push(w)
        \/ \E i \in 1..Len(list) : Remove(i)
        \/ SwitchToNext
Spec == Init /\ [][Next]_list
=============================================================================

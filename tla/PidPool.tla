------------------------------ MODULE PidPool ------------------------------
(***************************************************************************)
(* What the rest of BadgeVMS expects of the PID allocator of task.c: a set *)
(* of numbers, of which some are in use.  Allocating takes a number nobody *)
(* uses, freeing returns one, PID 0 is the kernel's for ever, and a        *)
(* request may be refused only when almost nothing is left.                *)
(*                                                                         *)
(* `refused' is the outcome of the latest request, so that a refusal is a  *)
(* step that the specification constrains.                                 *)
(***************************************************************************)
EXTENDS Integers, FiniteSets

CONSTANTS Pid,        (* every process identifier                          *)
          Kernel      (* the identifier reserved for the kernel            *)

VARIABLES used,       (* the identifiers handed out and not yet given back *)
          refused     (* TRUE iff the latest request was refused           *)

vars == <<used, refused>>

Init == /\ used = {Kernel}
        /\ refused = FALSE

Allocate(p) == /\ p \in Pid \ used
               /\ used' = used \cup {p}
               /\ refused' = FALSE

(* One identifier may be out of reach: see PidTable.                       *)
Refuse == /\ \A p, q \in Pid \ used : p = q
          /\ refused' = TRUE
          /\ UNCHANGED used

Free(p) == /\ p \in used \ {Kernel}
           /\ used' = used \ {p}
           /\ UNCHANGED refused

Next == \/ \E p \in Pid : Allocate(p) \/ Free(p)
        \/ Refuse

Spec == Init /\ [][Next]_vars
=============================================================================

--------------------------- MODULE PhysicalPages ---------------------------
(***************************************************************************)
(* What memory.c's users share: the pages the allocator has given out, and *)
(* the entries of the MMU.  A page list (allocation_range_t) is a sequence *)
(* of ranges, each a page and its virtual place; its head, the last range  *)
(* made, is the last of the sequence.                                      *)
(*                                                                         *)
(* The allocator is the one PageStore promises, asked for single pages.    *)
(* esp_system_abort, and the return of a page that is not the caller's,    *)
(* are recorded in `fault' and end the behaviour.                          *)
(***************************************************************************)
EXTENDS Integers, Sequences, SequencesExt, FiniteSets

CONSTANTS Page,             (* physical pages of the pool                  *)
          NumSlots          (* virtual places                              *)

ASSUME PagesAssumption == NumSlots \in Nat \ {0} /\ 0 \notin Page

Slot == 1..NumSlots
NoPage == 0                 (* an MMU entry that is not valid              *)
Range_ == [slot : Slot, page : Page]

VARIABLES given, mmu, fault
pageVars == <<given, mmu, fault>>

PagesInit == /\ given = {}
             /\ mmu = [s \in Slot |-> NoPage]
             /\ fault = "none"

Sane == fault = "none"
FreePages == Cardinality(Page \ given)
Ranges(list) == ToSet(list)
PagesIn(list) == {r.page : r \in Ranges(list)}
SlotsIn(list) == {r.slot : r \in Ranges(list)}

(* Two ranges of one list in the same place make the second entry fault.   *)
Mappable(list, table) == /\ \A s \in SlotsIn(list) : table[s] = NoPage
                         /\ Cardinality(SlotsIn(list)) = Len(list)
Unmappable(list, table) == /\ \A s \in SlotsIn(list) : table[s] # NoPage
                           /\ Cardinality(SlotsIn(list)) = Len(list)
Mapped(list, table) ==
    [s \in Slot |-> IF s \in SlotsIn(list)
                    THEN (CHOOSE r \in Ranges(list) : r.slot = s).page ELSE table[s]]
Unmapped(list, table) == [s \in Slot |-> IF s \in SlotsIn(list) THEN NoPage ELSE table[s]]

(* One turn of pages_allocate's loop puts a page behind those it has got.  *)
Extended(got, base, p) == Append(got, [slot |-> base + Len(got) + 1, page |-> p])
=============================================================================

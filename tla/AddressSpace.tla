---------------------------- MODULE AddressSpace ----------------------------
(***************************************************************************)
(* The memory of processes: why_sbrk with pages_allocate, the context      *)
(* switches of core 1 with remap_task and unmap_task, kills at any point,  *)
(* and Hades who gives the pages of a dead process back (memory.c;         *)
(* task_thread_destroy in task.c).                                         *)
(*                                                                         *)
(* All user tasks run on core 1, one at a time; the threads of a process   *)
(* share its page list.  pages_allocate asks for one page at a time, so    *)
(* every range is one page and why_sbrk never splits one.                  *)
(***************************************************************************)
EXTENDS PhysicalPages

CONSTANTS Process, Task, NoTask,
          ProcessOf,        (* Task -> Process: task_info->thread          *)
          MaxGrow,          (* bound: pages of one increment               *)
          MaxKills          (* bound: tasks killed by FN+CROSS or Hades    *)

ASSUME SpaceAssumption == /\ ProcessOf \in [Task -> Process]
                          /\ NoTask \notin Task
                          /\ {MaxGrow, MaxKills} \subseteq Nat

VARIABLES
    pages, end,             (* of each process: thread->pages, ->end       *)
    current_mapped_task, current_mapped_refs,
    running,                (* on core 1; NoTask while the kernel runs     *)
    sbrk,                   (* each task's progress in why_sbrk            *)
    life,                   (* of each task: live, dead, reaped            *)
    kills,
    overlapped              (* history: two threads of one process were in *)
                            (* why_sbrk at once                            *)

mapVars == <<current_mapped_task, current_mapped_refs>>
restVars == <<pages, end, sbrk, life, kills, overlapped>>
spaceVars == <<pages, end, mapVars, running, sbrk, life, kills, overlapped>>
vars == <<pageVars, spaceVars>>

NoCall == [pc |-> "user", n |-> 0, base |-> 0, got |-> <<>>, left |-> 0, freed |-> <<>>, rest |-> <<>>]

Init == /\ PagesInit
        /\ pages = [p \in Process |-> <<>>]
        /\ end = [p \in Process |-> 0]
        /\ current_mapped_task = NoTask /\ current_mapped_refs = 0
        /\ running = NoTask
        /\ sbrk = [t \in Task |-> NoCall]
        /\ life = [t \in Task |-> "live"]
        /\ kills = 0
        /\ overlapped = FALSE

Threads(p) == {t \in Task : ProcessOf[t] = p}
Mine(t) == pages[ProcessOf[t]]

Abort(why) == fault' = why /\ UNCHANGED <<given, mmu, spaceVars>>

(* Ranges that the list of p still shows and whose pages have gone back.   *)
Stale(p) == UNION {Ranges(sbrk[t].freed) : t \in Threads(p)}
-----------------------------------------------------------------------------
(* task_switched_in_hook and task_switched_out_hook.                       *)
SwitchIn(t) ==
    /\ Sane /\ running = NoTask /\ life[t] = "live"
    /\ CASE current_mapped_task = t ->
              /\ current_mapped_refs' = current_mapped_refs + 1
              /\ running' = t
              /\ UNCHANGED <<pageVars, current_mapped_task, restVars>>
         [] current_mapped_task \notin {t, NoTask} -> Abort("task info does not match")
         [] current_mapped_task = NoTask /\ ~Mappable(Mine(t), mmu) -> Abort("was already mapped")
         [] OTHER ->
              /\ mmu' = Mapped(Mine(t), mmu)
              /\ current_mapped_task' = t /\ current_mapped_refs' = 1
              /\ running' = t
              /\ UNCHANGED <<given, fault, restVars>>

NothingMappedLate == current_mapped_refs' = 0 /\ UNCHANGED current_mapped_task
NothingMapped == current_mapped_refs' = 0 /\ current_mapped_task' = NoTask

SwitchOut ==
    /\ Sane /\ running # NoTask
    /\ CASE current_mapped_task # running -> Abort("task info does not match")
         [] current_mapped_task = running /\ current_mapped_refs > 1 ->
              /\ current_mapped_refs' = current_mapped_refs - 1
              /\ running' = NoTask
              /\ UNCHANGED <<pageVars, current_mapped_task, restVars>>
         [] current_mapped_task = running /\ current_mapped_refs = 1
              /\ ~Unmappable(Mine(running), mmu) -> Abort("was not mapped")
         [] OTHER ->
              /\ mmu' = Unmapped(Mine(running), mmu)
              /\ NothingMapped
              /\ running' = NoTask
              /\ UNCHANGED <<given, fault, restVars>>
-----------------------------------------------------------------------------
(* why_sbrk, in the steps between which another task, Hades or a kill may  *)
(* come.                                                                   *)
In(t, pc) == Sane /\ running = t /\ life[t] = "live" /\ sbrk[t].pc = pc
EnterOnly == UNCHANGED <<pageVars, pages, end, mapVars, running, life, kills>>
CallOnly == UNCHANGED <<mapVars, running, life, kills, overlapped>>

(* dlmalloc is built without its locks, so nothing keeps a second thread   *)
(* out.  (Bound: once two threads have met, no call begins.)               *)
Enters(t, call) ==
    /\ ~overlapped
    /\ sbrk' = [sbrk EXCEPT ![t] = call]
    /\ overlapped' = \E u \in Threads(ProcessOf[t]) \ {t} : life[u] = "live" /\ sbrk[u].pc # "user"

BelowTop(t, n) == end[ProcessOf[t]] + n <= NumSlots

(* The new pages will follow what is the end now.                          *)
Grow(t) ==
    /\ In(t, "user")
    /\ \E n \in 1..MaxGrow :
         /\ BelowTop(t, n)
         /\ n <= FreePages
         /\ Enters(t, [NoCall EXCEPT !.pc = "allocate", !.n = n, !.base = end[ProcessOf[t]]])
    /\ EnterOnly

AllocatePage(t) ==
    /\ In(t, "allocate")
    /\ Len(sbrk[t].got) < sbrk[t].n
    /\ \E q \in Page \ given :
         /\ given' = given \cup {q}
         /\ sbrk' = [sbrk EXCEPT ![t].got = Extended(@, sbrk[t].base, q)]
    /\ CallOnly
    /\ UNCHANGED <<mmu, fault, pages, end>>

(* No page, or no kernel memory for its range.                             *)
AllocateFails(t) ==
    /\ In(t, "allocate")
    /\ Len(sbrk[t].got) < sbrk[t].n
    /\ sbrk' = [sbrk EXCEPT ![t].pc = "undo"]
    /\ CallOnly
    /\ UNCHANGED <<pageVars, pages, end>>

UndoForgetsLast(t) ==
    /\ In(t, "undo")
    /\ LET got == sbrk[t].got IN
       IF Len(got) <= 1
       THEN sbrk' = [sbrk EXCEPT ![t] = NoCall] /\ UNCHANGED given
       ELSE /\ given' = given \ {Last(got).page}
            /\ sbrk' = [sbrk EXCEPT ![t].got = Front(@)]
    /\ CallOnly
    /\ UNCHANGED <<mmu, fault, pages, end>>
Undo(t) ==
    /\ In(t, "undo")
    /\ LET got == sbrk[t].got IN
       IF got = <<>>
       THEN sbrk' = [sbrk EXCEPT ![t] = NoCall] /\ UNCHANGED given
       ELSE /\ given' = given \ {Last(got).page}
            /\ sbrk' = [sbrk EXCEPT ![t].got = Front(@)]
    /\ CallOnly
    /\ UNCHANGED <<mmu, fault, pages, end>>

(* The critical section: map, link, and move the end.                      *)
MapAndLink(t) ==
    /\ In(t, "allocate")
    /\ Len(sbrk[t].got) = sbrk[t].n
    /\ IF ~Mappable(sbrk[t].got, mmu) THEN Abort("was already mapped") ELSE
       /\ mmu' = Mapped(sbrk[t].got, mmu)
       /\ pages' = [pages EXCEPT ![ProcessOf[t]] = @ \o sbrk[t].got]
       /\ end' = [end EXCEPT ![ProcessOf[t]] = @ + sbrk[t].n]
       /\ sbrk' = [sbrk EXCEPT ![t] = NoCall]
       /\ CallOnly
       /\ UNCHANGED <<given, fault>>

ShrinkToSize(t) ==
    /\ In(t, "user")
    /\ \E n \in 1..MaxGrow :
         /\ n <= end[ProcessOf[t]]
         /\ Enters(t, [NoCall EXCEPT !.pc = "shrink", !.n = n, !.left = end[ProcessOf[t]] - n])
    /\ EnterOnly
(* dlmalloc gives back no more than the process has.                       *)
Shrink(t) ==
    /\ In(t, "user")
    /\ \E n \in 1..MaxGrow :
         /\ n <= end[ProcessOf[t]]
         /\ Enters(t, [NoCall EXCEPT !.pc = "shrink", !.n = n, !.left = n])
    /\ EnterOnly

(* The page goes back first ...                                            *)
ShrinkGivesBack(t) ==
    /\ In(t, "shrink")
    /\ sbrk[t].left > 0 /\ Mine(t) # <<>>
    /\ LET r == Last(Mine(t)) IN
       IF r \in Stale(ProcessOf[t]) THEN Abort("gave a page back twice") ELSE
       /\ given' = given \ {r.page}
       /\ sbrk' = [sbrk EXCEPT ![t].pc = "unmap", ![t].freed = <<r>>, ![t].rest = Front(Mine(t))]
       /\ CallOnly
       /\ UNCHANGED <<mmu, fault, pages, end>>

(* ... and is unmapped and unlinked in a critical section after.           *)
UnmapAndUnlink(t) ==
    /\ In(t, "unmap")
    /\ IF ~Unmappable(sbrk[t].freed, mmu) THEN Abort("was not mapped") ELSE
       /\ mmu' = Unmapped(sbrk[t].freed, mmu)
       /\ pages' = [pages EXCEPT ![ProcessOf[t]] = sbrk[t].rest]
       /\ sbrk' = [sbrk EXCEPT ![t].pc = "shrink", ![t].left = @ - 1, ![t].freed = <<>>, ![t].rest = <<>>]
       /\ CallOnly
       /\ UNCHANGED <<given, fault, end>>

ShrinkDone(t) ==
    /\ In(t, "shrink")
    /\ sbrk[t].left = 0 \/ Mine(t) = <<>>
    /\ IF sbrk[t].n > end[ProcessOf[t]] THEN Abort("the end is below the start") ELSE
       /\ end' = [end EXCEPT ![ProcessOf[t]] = @ - sbrk[t].n]
       /\ sbrk' = [sbrk EXCEPT ![t] = NoCall]
       /\ CallOnly
       /\ UNCHANGED <<pageVars, pages>>

Exit(t) ==
    /\ In(t, "user")
    /\ life' = [life EXCEPT ![t] = "dead"]
    /\ UNCHANGED <<pageVars, pages, end, mapVars, running, sbrk, kills, overlapped>>

SbrkStep(t) == \/ Grow(t) \/ AllocatePage(t) \/ AllocateFails(t) \/ Undo(t) \/ MapAndLink(t)
               \/ Shrink(t) \/ ShrinkGivesBack(t) \/ UnmapAndUnlink(t) \/ ShrinkDone(t)
               \/ Exit(t)
-----------------------------------------------------------------------------
(* The compositor deletes the task, wherever it is, and tells core 1 to    *)
(* switch; the few steps it may still take are as if the kill came later.  *)
Kill(t) ==
    /\ Sane /\ life[t] = "live" /\ kills < MaxKills
    /\ life' = [life EXCEPT ![t] = "dead"]
    /\ kills' = kills + 1
    /\ UNCHANGED <<pageVars, pages, end, mapVars, running, sbrk, overlapped>>

(* Hades runs on core 1 too.  The last thread of a process takes its pages *)
(* with it; Hades may wait for the allocator between two of them.          *)
HadesReaps(t) ==
    /\ Sane /\ running = NoTask /\ life[t] = "dead"
    /\ life' = [life EXCEPT ![t] = "reaped"]
    /\ UNCHANGED <<pageVars, pages, end, mapVars, running, sbrk, kills, overlapped>>

HadesGivesBack(p) ==
    /\ Sane /\ running = NoTask
    /\ \A t \in Threads(p) : life[t] = "reaped"
    /\ pages[p] # <<>>
    /\ LET r == Last(pages[p]) IN
       IF r \in Stale(p) THEN Abort("gave a page back twice") ELSE
       /\ given' = given \ {r.page}
       /\ pages' = [pages EXCEPT ![p] = Front(@)]
       /\ UNCHANGED <<mmu, fault, end, mapVars, running, sbrk, life, kills, overlapped>>

HadesStep == (\E t \in Task : HadesReaps(t)) \/ (\E p \in Process : HadesGivesBack(p))

Next == \/ SwitchOut
        \/ \E t \in Task : SwitchIn(t) \/ SbrkStep(t) \/ Kill(t)
        \/ HadesStep

Spec == Init /\ [][Next]_vars
-----------------------------------------------------------------------------
AddressTypeOK ==
    /\ given \subseteq Page
    /\ mmu \in [Slot -> Page \cup {NoPage}]
    /\ pages \in [Process -> Seq(Range_)]
    /\ end \in [Process -> Nat]
    /\ current_mapped_task \in Task \cup {NoTask}
    /\ current_mapped_refs \in 0..1
    /\ running \in Task \cup {NoTask}
    /\ sbrk \in [Task -> [pc : {"user", "allocate", "undo", "shrink", "unmap"}, n : 0..MaxGrow,
                          base : 0..NumSlots, got : Seq(Range_), left : 0..MaxGrow,
                          freed : Seq(Range_), rest : Seq(Range_)]]
    /\ life \in [Task -> {"live", "dead", "reaped"}]
    /\ kills \in 0..MaxKills
    /\ overlapped \in BOOLEAN

Orderly == Sane /\ ~overlapped

(* remap_task, unmap_task and the critical sections of why_sbrk: while     *)
(* threads of one process do not meet in why_sbrk, the MMU shows exactly   *)
(* the pages of the process that runs, wherever switches and kills come,   *)
(* and when none of its threads is in why_sbrk these fill the heap up to   *)
(* thread->end, where the next range goes.                                 *)
MmuShowsTheHeap ==
    Orderly =>
      /\ mmu = IF running = NoTask THEN [s \in Slot |-> NoPage]
               ELSE Mapped(Mine(running), [s \in Slot |-> NoPage])
      /\ \A p \in Process :
           /\ \A t \in Threads(p) : sbrk[t].pc = "user"
           /\ \E t \in Threads(p) : life[t] # "reaped"
           => SlotsIn(pages[p]) = 1..end[p]

Gone == {r.page : r \in UNION {Stale(p) : p \in Process}}
Holders(q) == {<<"space", p>> : p \in {p \in Process : q \in PagesIn(pages[p])}}
                \cup {<<"call", t>> : t \in {t \in Task : q \in PagesIn(sbrk[t].got)}}

(* pages_allocate with its roll-back, why_sbrk and Hades: each page given  *)
(* out is in one list, each free one in none.  Only what a killed task had *)
(* allocated and not linked is lost (it stays in its `got'), and only the  *)
(* page a shrinking task has given back and not unlinked is elsewhere too. *)
PagesAreHeldOnce ==
    /\ AddressTypeOK
    /\ Orderly => \A q \in Page \ Gone : Cardinality(Holders(q)) = IF q \in given THEN 1 ELSE 0

(* The aborts of the MMU code and double returns have two causes: threads  *)
(* that met in why_sbrk, or a kill between the return of a page and its    *)
(* unmapping.                                                              *)
AbortsHaveACause ==
    ~Sane => overlapped \/ \E t \in Task : life[t] # "live" /\ sbrk[t].pc = "unmap"

(* architecture.md: "Each process gets its own isolated virtual address    *)
(* space": no page is in the spaces of two processes.                      *)
SpacesAreIsolated ==
    Orderly => \A p, r \in Process : p # r => PagesIn(pages[p]) \cap PagesIn(pages[r]) = {}
(* What does hold of it: two spaces share a page only while a why_sbrk of  *)
(* one of them has given it back and not unlinked it, and the MMU shows a  *)
(* task pages of its own list, free only if they are such ones.            *)
Returned(p) == {r.page : r \in Stale(p)}
SharedOnlyIfReturned ==
    Orderly =>
      /\ \A p, r \in Process : p # r =>
           PagesIn(pages[p]) \cap PagesIn(pages[r]) \subseteq Returned(p) \cup Returned(r)
      /\ \A s \in Slot : mmu[s] # NoPage =>
           /\ running # NoTask /\ mmu[s] \in PagesIn(Mine(running))
           /\ mmu[s] \in given \cup Returned(ProcessOf[running])
=============================================================================

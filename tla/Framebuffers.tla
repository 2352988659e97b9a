---------------------------- MODULE Framebuffers ----------------------------
(***************************************************************************)
(* The framebuffers of windows: tasks make them (core 1), the compositor   *)
(* draws, swaps and frees them (core 0), and a kill may come at any point  *)
(* (compositor.c, with memory.c's framebuffer_* functions).                *)
(*                                                                         *)
(* A framebuffer has a place in the virtual space, its pixels, and pages   *)
(* mapped at some place: its own, or after a swap its partner's.  Here all *)
(* have one size, and one page stands for the pages of a framebuffer.      *)
(*                                                                         *)
(* The queue is Compositor's matter: here the compositor serves the        *)
(* requests of tasks, each of which waits for its own.                     *)
(***************************************************************************)
EXTENDS PhysicalPages

CONSTANTS Task,             (* each with one double-buffered window        *)
          MaxKills          (* bound                                       *)

ASSUME FramebufferAssumption == Task # {} /\ MaxKills \in Nat

VARIABLES
    taken,                  (* places framebuffer_allocator has given      *)
    framebuffers,           (* of each window: the two pointers            *)
    app,                    (* each task's call                            *)
    compositor,
    kills,
    dangling,               (* tasks whose first pointer names freed memory *)
    gaveUp                  (* history: tasks that could not have a second *)

vars == <<pageVars, taken, framebuffers, app, compositor, kills, dangling, gaveUp>>

(* pixels, then where the pages are mapped, then the pages.                *)
Framebuffer == [pixels : Slot, slot : Slot, page : Page]
Null == [pixels |-> 0, slot |-> 0, page |-> NoPage]
Partial == [pixels : Slot \cup {0}, slot : Slot \cup {0}, page : Page \cup {NoPage}]

Rest == [pc |-> "rest", i |-> 0, fb |-> Null]
Idle == [pc |-> "idle", task |-> CHOOSE t \in Task : TRUE, i |-> 0, fb |-> Null]

Init == /\ PagesInit
        /\ taken = {}
        /\ framebuffers = [t \in Task |-> <<Null, Null>>]
        /\ app = [t \in Task |-> Rest]
        /\ compositor = Idle
        /\ kills = 0 /\ dangling = {} /\ gaveUp = {}

Abort(why) == fault' = why /\ UNCHANGED <<given, mmu, taken, framebuffers, app, compositor, kills, dangling, gaveUp>>
-----------------------------------------------------------------------------
(* framebuffer_map_pages and framebuffer_unmap_pages, each a critical      *)
(* section.                                                                *)
MapPages(slot, page) == mmu' = [mmu EXCEPT ![slot] = page]
UnmapPages(slot) == mmu' = [mmu EXCEPT ![slot] = NoPage]

At(t, pc) == Sane /\ app[t].pc = pc
AppOnly == UNCHANGED <<compositor, kills, dangling, gaveUp>>
Becomes(t, pc, fb) == app' = [app EXCEPT ![t] = [pc |-> pc, i |-> app[t].i, fb |-> fb]]

(* window_framebuffer_create, when there is none; i is the one it makes.   *)
CreateBegins(t) ==
    /\ At(t, "rest")
    /\ framebuffers[t] = <<Null, Null>>
    /\ app' = [app EXCEPT ![t] = [pc |-> "place", i |-> 1, fb |-> Null]]
    /\ AppOnly
    /\ UNCHANGED <<pageVars, taken, framebuffers>>

TakePlace(t) ==
    /\ At(t, "place")
    /\ \E s \in Slot \ taken :
         /\ taken' = taken \cup {s}
         /\ Becomes(t, "pages", [Null EXCEPT !.pixels = s, !.slot = s])
    /\ AppOnly
    /\ UNCHANGED <<pageVars, framebuffers>>

TakePages(t) ==
    /\ At(t, "pages")
    /\ \E q \in Page \ given :
         /\ given' = given \cup {q}
         /\ Becomes(t, "map", [app[t].fb EXCEPT !.page = q])
    /\ AppOnly
    /\ UNCHANGED <<mmu, fault, taken, framebuffers>>

MapNew(t) ==
    /\ At(t, "map")
    /\ LET fb == app[t].fb IN
       IF mmu[fb.slot] # NoPage THEN Abort("was already mapped") ELSE
       /\ MapPages(fb.slot, fb.page)
       /\ Becomes(t, "publish", fb)
       /\ AppOnly
       /\ UNCHANGED <<given, fault, taken, framebuffers>>

Publish(t) ==
    /\ At(t, "publish")
    /\ framebuffers' = [framebuffers EXCEPT ![t][app[t].i] = app[t].fb]
    /\ app' = [app EXCEPT ![t] = IF app[t].i = 1 THEN [pc |-> "place", i |-> 2, fb |-> Null] ELSE Rest]
    /\ AppOnly
    /\ UNCHANGED <<pageVars, taken>>

(* When the second cannot be had, the first is freed like any other, and   *)
(* only then its pointer cleared.  The pages may have gone to the heaps of *)
(* processes, or the kernel's heap may refuse the container or a range.    *)
GiveUpMapped(t) ==
    /\ IF app[t].i = 1 THEN Becomes(t, "rest", Null) ELSE Becomes(t, "return", framebuffers[t][1])
    /\ gaveUp' = IF app[t].i = 1 THEN gaveUp ELSE gaveUp \cup {t}
GiveUp(t) ==
    /\ IF app[t].i = 1 THEN Becomes(t, "rest", Null) ELSE Becomes(t, "unmap", framebuffers[t][1])
    /\ gaveUp' = IF app[t].i = 1 THEN gaveUp ELSE gaveUp \cup {t}
NoPlace(t) ==
    /\ At(t, "place")
    /\ Slot \subseteq taken
    /\ GiveUp(t)
    /\ UNCHANGED <<pageVars, taken, framebuffers, compositor, kills, dangling>>
NoPagesKeepsPlace(t) ==
    /\ At(t, "pages")
    /\ GiveUp(t)
    /\ UNCHANGED <<pageVars, taken, framebuffers, compositor, kills, dangling>>
NoPages(t) ==
    /\ At(t, "pages")
    /\ taken' = taken \ {app[t].fb.pixels}
    /\ GiveUp(t)
    /\ UNCHANGED <<pageVars, framebuffers, compositor, kills, dangling>>

(* framebuffer_free, by the task.                                          *)
CleanUnmap(t) ==
    /\ At(t, "unmap")
    /\ UnmapPages(app[t].fb.slot)
    /\ Becomes(t, "return", app[t].fb)
    /\ AppOnly
    /\ UNCHANGED <<given, fault, taken, framebuffers>>
CleanReturn(t) ==
    /\ At(t, "return")
    /\ given' = given \ {app[t].fb.page}
    /\ Becomes(t, "leave", app[t].fb)
    /\ AppOnly
    /\ UNCHANGED <<mmu, fault, taken, framebuffers>>
CleanLeave(t) ==
    /\ At(t, "leave")
    /\ taken' = taken \ {app[t].fb.pixels}
    /\ Becomes(t, "clear", Null)
    /\ dangling' = dangling \cup {t}
    /\ compositor' = IF compositor.pc = "draw" /\ compositor.task = t
                     THEN [compositor EXCEPT !.pc = "drawfreed"] ELSE compositor
    /\ UNCHANGED <<pageVars, framebuffers, kills, gaveUp>>
CleanClear(t) ==
    /\ At(t, "clear")
    /\ framebuffers' = [framebuffers EXCEPT ![t][1] = Null]
    /\ app' = [app EXCEPT ![t] = Rest]
    /\ dangling' = dangling \ {t}
    /\ UNCHANGED <<pageVars, taken, compositor, kills, gaveUp>>

(* window_present and window_destroy wait for the compositor.              *)
Asks(t, request) ==
    /\ At(t, "rest")
    /\ app' = [app EXCEPT ![t].pc = request]
    /\ AppOnly
    /\ UNCHANGED <<pageVars, taken, framebuffers>>
Present(t) == framebuffers[t][1] # Null /\ framebuffers[t][2] # Null /\ Asks(t, "swap")
Destroy(t) == framebuffers[t] # <<Null, Null>> /\ Asks(t, "destroy")

(* A kill stops the call where it is, and Hades asks for the destruction   *)
(* of the window, behind a swap that is still queued.  What the call held  *)
(* and had not published is lost.  (A kill inside window_destroy is        *)
(* Compositor's matter.)                                                   *)
Kill(t) ==
    /\ Sane /\ kills < MaxKills
    /\ app[t].pc \notin {"destroy", "killed", "killedswap", "gone"}
    /\ kills' = kills + 1
    /\ app' = [app EXCEPT ![t].pc = IF @ = "swap" THEN "killedswap" ELSE "killed",
                          ![t].fb = IF app[t].pc \in {"pages", "map", "publish"} THEN @ ELSE Null]
    /\ UNCHANGED <<pageVars, taken, framebuffers, compositor, dangling, gaveUp>>

TaskStep(t) ==
    \/ CreateBegins(t) \/ TakePlace(t) \/ TakePages(t) \/ MapNew(t) \/ Publish(t)
    \/ NoPlace(t) \/ NoPages(t) \/ CleanUnmap(t) \/ CleanReturn(t) \/ CleanLeave(t) \/ CleanClear(t)
    \/ Present(t) \/ Destroy(t) \/ Kill(t)
-----------------------------------------------------------------------------
On(pc) == Sane /\ compositor.pc = pc
CompositorOnly == UNCHANGED <<kills, dangling, gaveUp>>
Turns(pc) == compositor' = [compositor EXCEPT !.pc = pc]

(* It reads the pointer of the front buffer, and draws from its pixels.    *)
SeeFront(t) ==
    /\ On("idle")
    /\ framebuffers[t][1] # Null
    /\ compositor' = [pc |-> IF t \in dangling THEN "drawfreed" ELSE "draw",
                      task |-> t, i |-> 1, fb |-> framebuffers[t][1]]
    /\ CompositorOnly
    /\ UNCHANGED <<pageVars, taken, framebuffers, app>>

DrawFreed == On("drawfreed") /\ Abort("used a freed framebuffer")
DrawEmpty == On("draw") /\ mmu[compositor.fb.pixels] = NoPage /\ Abort("drew from an empty place")
Draw ==
    /\ On("draw")
    /\ mmu[compositor.fb.pixels] # NoPage
    /\ compositor' = Idle
    /\ CompositorOnly
    /\ UNCHANGED <<pageVars, taken, framebuffers, app>>

(* framebuffer_swap: two unmappings, the places exchanged, two mappings.   *)
SwapBegins(t) ==
    /\ On("idle") /\ app[t].pc \in {"swap", "killedswap"}
    /\ UnmapPages(framebuffers[t][1].slot)
    /\ compositor' = [Idle EXCEPT !.pc = "second", !.task = t]
    /\ CompositorOnly
    /\ UNCHANGED <<given, fault, taken, framebuffers, app>>

SwapSecond ==
    /\ On("second")
    /\ UnmapPages(framebuffers[compositor.task][2].slot)
    /\ Turns("exchange")
    /\ CompositorOnly
    /\ UNCHANGED <<given, fault, taken, framebuffers, app>>

Exchanged(pair) == <<[pair[1] EXCEPT !.slot = pair[2].slot], [pair[2] EXCEPT !.slot = pair[1].slot]>>
SwapMapsFirst ==
    /\ On("exchange")
    /\ LET t == compositor.task  pair == Exchanged(framebuffers[t]) IN
       IF mmu[pair[1].slot] # NoPage THEN Abort("was already mapped") ELSE
       /\ framebuffers' = [framebuffers EXCEPT ![t] = pair]
       /\ MapPages(pair[1].slot, pair[1].page)
       /\ Turns("last")
       /\ CompositorOnly
       /\ UNCHANGED <<given, fault, taken, app>>

SwapMapsNoSecond ==
    /\ On("last")
    /\ compositor' = Idle
    /\ app' = [app EXCEPT ![compositor.task].pc = IF @ = "swap" THEN "rest" ELSE "killed"]
    /\ CompositorOnly
    /\ UNCHANGED <<pageVars, taken, framebuffers>>
SwapMapsSecond ==
    /\ On("last")
    /\ LET t == compositor.task  fb == framebuffers[t][2] IN
       IF mmu[fb.slot] # NoPage THEN Abort("was already mapped") ELSE
       /\ MapPages(fb.slot, fb.page)
       /\ compositor' = Idle
       /\ app' = [app EXCEPT ![t].pc = IF @ = "swap" THEN "rest" ELSE "killed"]
       /\ CompositorOnly
       /\ UNCHANGED <<given, fault, taken, framebuffers>>

(* WINDOW_DESTROY frees both: each is unmapped, its pages go back, and     *)
(* then the place of its pixels.                                           *)
FreeBegins(t) ==
    /\ On("idle") /\ app[t].pc \in {"destroy", "killed"}
    /\ compositor' = [Idle EXCEPT !.pc = "free", !.task = t, !.i = 1]
    /\ CompositorOnly
    /\ UNCHANGED <<pageVars, taken, framebuffers, app>>

Freed == framebuffers[compositor.task][compositor.i]
NextToFree == IF compositor.i = 1 THEN compositor' = [compositor EXCEPT !.pc = "free", !.i = 2]
              ELSE Turns("done")
FreeNothing ==
    /\ On("free") /\ Freed = Null
    /\ NextToFree
    /\ CompositorOnly
    /\ UNCHANGED <<pageVars, taken, framebuffers, app>>

FreeTwice == On("free") /\ compositor.i = 1 /\ compositor.task \in dangling /\ Abort("freed a framebuffer twice")
FreeUnmapped == On("free") /\ Freed # Null /\ mmu[Freed.slot] = NoPage /\ Abort("was not mapped")
FreeUnmaps ==
    /\ On("free") /\ Freed # Null
    /\ compositor.i = 1 => compositor.task \notin dangling
    /\ mmu[Freed.slot] # NoPage
    /\ UnmapPages(Freed.slot)
    /\ Turns("freepages")
    /\ CompositorOnly
    /\ UNCHANGED <<given, fault, taken, framebuffers, app>>

FreeReturns ==
    /\ On("freepages")
    /\ given' = given \ {Freed.page}
    /\ Turns("freeplace")
    /\ CompositorOnly
    /\ UNCHANGED <<mmu, fault, taken, framebuffers, app>>

FreeLeaves ==
    /\ On("freeplace")
    /\ taken' = taken \ {Freed.pixels}
    /\ NextToFree
    /\ CompositorOnly
    /\ UNCHANGED <<pageVars, framebuffers, app>>

FreeEnds ==
    /\ On("done")
    /\ LET t == compositor.task IN
         /\ framebuffers' = [framebuffers EXCEPT ![t] = <<Null, Null>>]
         /\ app' = [app EXCEPT ![t].pc = IF @ = "destroy" THEN "rest" ELSE "gone"]
    /\ compositor' = Idle
    /\ CompositorOnly
    /\ UNCHANGED <<pageVars, taken>>

Frame == \/ \E t \in Task : SeeFront(t) \/ SwapBegins(t) \/ FreeBegins(t)
         \/ Draw \/ DrawFreed \/ DrawEmpty \/ SwapSecond \/ SwapMapsFirst \/ SwapMapsSecond
         \/ FreeNothing \/ FreeTwice \/ FreeUnmapped \/ FreeUnmaps \/ FreeReturns \/ FreeLeaves \/ FreeEnds

Next == Frame \/ \E t \in Task : TaskStep(t)

Spec == Init /\ [][Next]_vars
-----------------------------------------------------------------------------
FramebufferTypeOK ==
    /\ given \subseteq Page /\ taken \subseteq Slot
    /\ mmu \in [Slot -> Page \cup {NoPage}]
    /\ \A t \in Task : /\ Len(framebuffers[t]) = 2
                       /\ \A i \in 1..2 : framebuffers[t][i] \in Framebuffer \cup {Null}
                       /\ app[t].fb \in Partial /\ app[t].i \in 0..2
    /\ compositor.task \in Task /\ compositor.i \in 0..2 /\ compositor.fb \in Framebuffer \cup {Null}
    /\ kills \in 0..MaxKills /\ dangling \subseteq gaveUp /\ gaveUp \subseteq Task

Freeing(t) == compositor.task = t /\ compositor.pc \in {"free", "freepages", "freeplace", "done"}
Swapping(t) == compositor.task = t /\ compositor.pc \in {"second", "exchange", "last"}
Cleaning(t) == t \in gaveUp /\ app[t].pc \in {"unmap", "return", "leave", "clear", "killed", "killedswap"}

(* framebuffer_swap and framebuffer_map_pages: unless a window is being    *)
(* swapped or taken apart, its pixels show its own pages, of both          *)
(* framebuffers and of no other, whatever was swapped, freed and made      *)
(* before in the same places.                                              *)
PixelsShowTheirWindow ==
    Sane => \A t \in Task : ~Freeing(t) /\ ~Swapping(t) /\ ~Cleaning(t) =>
      LET mine == {i \in 1..2 : framebuffers[t][i] # Null} IN
        {mmu[framebuffers[t][i].pixels] : i \in mine} = {framebuffers[t][i].page : i \in mine}

(* Who has a page or a place: a window's pointer, or a call that has not   *)
(* published what it made (for ever, if it was killed).                    *)
Unpublished(t) == IF app[t].pc \in {"pages", "map", "publish", "killed", "gone"} THEN {app[t].fb} ELSE {}
Of(t) == Unpublished(t) \cup {framebuffers[t][i] : i \in 1..2}

(* pages_allocate, framebuffer_vaddr_allocate and the error paths of       *)
(* framebuffer_allocate and window_framebuffer_create: nothing is given to *)
(* two framebuffers, and nothing stays with nobody.                        *)
NothingIsLostOrShared ==
    /\ FramebufferTypeOK
    /\ Sane =>
      /\ \A t, u \in Task : \A f \in Of(t), g \in Of(u) :
            (f.pixels = g.pixels /\ f.pixels # 0) \/ (f.page = g.page /\ f.page # NoPage) =>
              (t = u /\ f = g) \/ \E v \in {t, u} : Freeing(v) \/ Cleaning(v)
      /\ \A s \in taken : \E t \in Task : \E f \in Of(t) : f.pixels = s
      /\ \A q \in given : \E t \in Task : \E f \in Of(t) : f.page = q

(* The aborts of the MMU code and the compositor's use of freed memory     *)
(* have three causes: a window taken apart after an odd number of swaps,   *)
(* whose first place is free while the second buffer is still mapped       *)
(* there; the first framebuffer freed again before its pointer is cleared, *)
(* because the second could not be had; and a kill in the middle of that.  *)
FaultsHaveACause ==
    /\ fault = "was already mapped" =>
         \E t \in Task : Freeing(t) /\ compositor.i = 2 /\ framebuffers[t][2].slot # framebuffers[t][2].pixels
    /\ fault \in {"used a freed framebuffer", "drew from an empty place"} => compositor.task \in gaveUp
    /\ fault \in {"freed a framebuffer twice", "was not mapped"} =>
         compositor.task \in gaveUp /\ app[compositor.task].pc = "killed"
=============================================================================

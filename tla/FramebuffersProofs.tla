------------------------- MODULE FramebuffersProofs -------------------------
(***************************************************************************)
(* Proofs about the framebuffers of any number of windows, in any number   *)
(* of places and pages, with any number of kills.                          *)
(***************************************************************************)
EXTENDS Framebuffers, TLAPS

-----------------------------------------------------------------------------
(* Who has what.  The two pointers of a window name its framebuffers, and  *)
(* i one of them: what a call is making, or a kill left unpublished, counts*)
(* as the one it was to become.                                            *)
Both == {1, 2}
Public(t, i)  == framebuffers[t][i] # Null
Private(t, i) == /\ app[t].pc \in {"pages", "map", "publish", "killed", "gone"}
                 /\ app[t].i = i /\ app[t].fb # Null
Buffer(t, i)  == IF Private(t, i) THEN app[t].fb ELSE framebuffers[t][i]
PixelsOf(t, i) == Buffer(t, i).pixels
SlotOf(t, i)   == Buffer(t, i).slot
PageOf(t, i)   == Buffer(t, i).page

(* What the compositor is doing to the window of a task.                   *)
Untouched == [pc |-> "none", i |-> 0]
Stage(t) == IF compositor.task = t /\ compositor.pc \notin {"idle", "draw", "drawfreed"}
            THEN [pc |-> compositor.pc, i |-> compositor.i] ELSE Untouched
Parting(t, i, pcs) == Stage(t).pc \in pcs /\ Stage(t).i = i
TakenApart(t, i) == \/ Stage(t).pc = "done"
                    \/ Stage(t).pc \in {"free", "freepages", "freeplace"} /\ i < Stage(t).i
Displaced(t, i)  == \/ Stage(t).pc = "exchange"
                    \/ Stage(t).pc = "second" /\ i = 1
                    \/ Stage(t).pc = "last" /\ i = 2

(* A killed task whose only framebuffer was not mapped any more: its pages *)
(* may have gone back, or not.                                             *)
Doubtful(t) == /\ t \in gaveUp \ dangling /\ app[t].pc = "killed"
               /\ Public(t, 1) /\ ~Public(t, 2)
               /\ mmu[framebuffers[t][1].slot] = NoPage
               /\ ~TakenApart(t, 1) /\ ~Parting(t, 1, {"freepages", "freeplace"})

HasPlace(t, i) == \/ Private(t, i)
                  \/ Public(t, i) /\ ~TakenApart(t, i) /\ ~(i = 1 /\ t \in dangling)
HasPage(t, i) ==
    \/ Private(t, i) /\ app[t].fb.page # NoPage
    \/ /\ Public(t, i) /\ ~TakenApart(t, i) /\ ~Parting(t, i, {"freeplace"})
       /\ ~(i = 1 /\ (t \in dangling \/ app[t].pc = "leave" \/ Doubtful(t)))
MayHavePage(t, i) == HasPage(t, i) \/ (i = 1 /\ Doubtful(t))
IsMapped(t, i) ==
    \/ Private(t, i) /\ app[t].pc = "publish"
    \/ /\ Public(t, i) /\ ~TakenApart(t, i) /\ ~Parting(t, i, {"freepages", "freeplace"})
       /\ ~(i = 1 /\ (t \in dangling \/ app[t].pc \in {"return", "leave"} \/ Doubtful(t)))
       /\ ~Displaced(t, i)
MayBeMapped(t, i) == \/ IsMapped(t, i)
                     \/ /\ Private(t, i) /\ app[t].pc \in {"killed", "gone"}
                        /\ app[t].fb.page # NoPage
Settled(t, i) == HasPlace(t, i) /\ (Public(t, i) \/ app[t].pc = "publish")

PlaceInv ==
    /\ \A t \in Task : \A i \in Both : HasPlace(t, i) => PixelsOf(t, i) \in taken
    /\ \A t, u \in Task : \A i, j \in Both :
         HasPlace(t, i) /\ HasPlace(u, j) /\ PixelsOf(t, i) = PixelsOf(u, j) => t = u /\ i = j
    /\ \A s \in taken : \E t \in Task : \E i \in Both : HasPlace(t, i) /\ PixelsOf(t, i) = s

PageInv ==
    /\ \A t \in Task : \A i \in Both : HasPage(t, i) => PageOf(t, i) \in given
    /\ \A t, u \in Task : \A i, j \in Both :
         HasPage(t, i) /\ HasPage(u, j) /\ PageOf(t, i) = PageOf(u, j) => t = u /\ i = j
    /\ \A q \in given : \E t \in Task : \E i \in Both : MayHavePage(t, i) /\ PageOf(t, i) = q

(* A place may still be mapped to the pages of a window that is taken      *)
(* apart, but then nobody else has mapped it.                              *)
MapInv ==
    /\ \A t \in Task : \A i \in Both : IsMapped(t, i) => mmu[SlotOf(t, i)] = PageOf(t, i)
    /\ \A s \in Slot : mmu[s] # NoPage =>
         \E t \in Task : \E i \in Both : MayBeMapped(t, i) /\ SlotOf(t, i) = s
    /\ \A t, u \in Task : \A i, j \in Both :
         Settled(t, i) /\ IsMapped(u, j) /\ SlotOf(u, j) = PixelsOf(t, i) => t = u

(* What each task is doing goes with its window's pointers.                *)
AppPc == {"rest", "place", "pages", "map", "publish", "unmap", "return", "leave", "clear",
          "swap", "destroy", "killed", "killedswap", "gone"}
AppInv(t) ==
    LET pc == app[t].pc  fb == app[t].fb  first == framebuffers[t][1]  second == framebuffers[t][2] IN
    /\ second # Null => first # Null
    /\ first # Null /\ second = Null => first.slot = first.pixels
    /\ first # Null /\ second # Null => \/ first.slot = first.pixels /\ second.slot = second.pixels
                                        \/ first.slot = second.pixels /\ second.slot = first.pixels
    /\ pc \in {"place", "pages", "map", "publish"} =>
         /\ app[t].i \in Both /\ second = Null
         /\ first # Null <=> app[t].i = 2
    /\ pc \in {"pages", "map", "publish"} => fb # Null
    /\ pc = "pages" => fb.page = NoPage
    /\ pc \in {"map", "publish"} => fb.page # NoPage
    /\ fb # Null => fb.pixels # 0 /\ fb.slot = fb.pixels
    /\ fb # Null /\ pc \in {"killed", "gone"} => app[t].i \in Both /\ framebuffers[t][app[t].i] = Null
    /\ pc \in {"unmap", "return", "leave", "clear"} => t \in gaveUp /\ first # Null /\ second = Null
    /\ pc \in {"unmap", "return", "leave"} => fb = first
    /\ pc \in {"rest", "place", "clear", "swap", "killedswap", "destroy"} => fb = Null
    /\ pc \in {"swap", "killedswap"} => second # Null
    /\ pc = "clear" => t \in dangling
    /\ t \in dangling => pc \in {"clear", "killed"} /\ first # Null /\ second = Null
    (* and with what the compositor does to the window *)
    /\ Stage(t).pc \in {"second", "exchange", "last"} => pc \in {"swap", "killedswap"}
    /\ Stage(t).pc \in {"free", "freepages", "freeplace", "done"} =>
         /\ pc \in {"destroy", "killed"} /\ Stage(t).i \in Both
         /\ Stage(t).pc # "free" \/ Stage(t).i = 2 => t \notin dangling
    /\ Stage(t).pc \in {"freepages", "freeplace"} => framebuffers[t][Stage(t).i] # Null

DrawInv ==
    /\ compositor.pc = "draw" /\ compositor.task \notin gaveUp =>
         Public(compositor.task, 1) /\ compositor.fb = framebuffers[compositor.task][1]
    /\ compositor.pc = "drawfreed" => compositor.task \in gaveUp

Pointer == Framebuffer \cup {Null}
FrameType ==
    /\ given \subseteq Page /\ taken \subseteq Slot
    /\ mmu \in [Slot -> Page \cup {NoPage}]
    /\ framebuffers \in [Task -> Pointer \X Pointer]
    /\ app \in [Task -> [pc : AppPc, i : 0..2, fb : Partial]]
    /\ compositor \in [pc : {"idle", "draw", "drawfreed", "second", "exchange", "last",
                             "free", "freepages", "freeplace", "done"},
                       task : Task, i : 0..2, fb : Pointer]
    /\ kills \in 0..MaxKills /\ dangling \subseteq gaveUp /\ gaveUp \subseteq Task

FrameInv == /\ FrameType /\ (\A t \in Task : AppInv(t)) /\ DrawInv
            /\ PlaceInv /\ PageInv /\ MapInv
-----------------------------------------------------------------------------
LEMMA Constants ==
    /\ NoPage = 0 /\ NoPage \notin Page /\ 0 \notin Slot /\ Both = {1, 2} /\ 1 \in Both /\ 2 \in Both
    /\ Null \in Pointer /\ Null \in Partial /\ Null \notin Framebuffer
    /\ Null.pixels = 0 /\ Null.slot = 0 /\ Null.page = NoPage
    /\ \A fb \in Framebuffer : /\ fb # Null /\ fb \in Pointer /\ fb \in Partial
                               /\ fb.pixels \in Slot /\ fb.slot \in Slot /\ fb.page \in Page
    /\ Framebuffer \subseteq Pointer /\ Pointer \subseteq Partial
    /\ \A fb \in Partial : /\ fb.pixels \in Slot \cup {0} /\ fb.slot \in Slot \cup {0}
                           /\ fb.page \in Page \cup {NoPage}
                           /\ fb.pixels # 0 /\ fb.slot # 0 /\ fb.page # NoPage => fb \in Framebuffer
BY PagesAssumption DEF Slot, NoPage, Both, Null, Pointer, Framebuffer, Partial

LEMMA Pairs ==
    ASSUME NEW S, NEW p \in S \X S
    PROVE  /\ p[1] \in S /\ p[2] \in S /\ p = <<p[1], p[2]>>
           /\ \A i \in Both : p[i] \in S
           /\ \A i \in Both : \A x \in S :
                /\ [p EXCEPT ![i] = x] \in S \X S
                /\ \A j \in Both : [p EXCEPT ![i] = x][j] = IF j = i THEN x ELSE p[j]
<1>1. p[1] \in S /\ p[2] \in S /\ p = <<p[1], p[2]>>
  OBVIOUS
<1>2. ASSUME NEW x \in S
      PROVE  [p EXCEPT ![1] = x] = <<x, p[2]>> /\ [p EXCEPT ![2] = x] = <<p[1], x>>
  BY <1>1
<1> QED
  BY <1>1, <1>2 DEF Both

(* Nothing about the window of u changes.                                  *)
Undisturbed(u) == /\ app'[u] = app[u] /\ framebuffers'[u] = framebuffers[u]
                  /\ u \in dangling' <=> u \in dangling
                  /\ u \in gaveUp' <=> u \in gaveUp
                  /\ Stage(u)' = Stage(u)

LEMMA UndisturbedKeeps ==
    ASSUME NEW u \in Task, Undisturbed(u)
    PROVE  /\ AppInv(u) => AppInv(u)'
           /\ \A i \in Both :
                /\ HasPlace(u, i)' <=> HasPlace(u, i)
                /\ Settled(u, i)' <=> Settled(u, i)
                /\ PixelsOf(u, i)' = PixelsOf(u, i)
                /\ SlotOf(u, i)' = SlotOf(u, i)
                /\ PageOf(u, i)' = PageOf(u, i)
           /\ (Doubtful(u)' <=> Doubtful(u)) => \A i \in Both :
                /\ HasPage(u, i)' <=> HasPage(u, i)
                /\ MayHavePage(u, i)' <=> MayHavePage(u, i)
                /\ IsMapped(u, i)' <=> IsMapped(u, i)
                /\ MayBeMapped(u, i)' <=> MayBeMapped(u, i)
<1>1. AppInv(u) => AppInv(u)'
  BY DEF Undisturbed, AppInv
<1>2. ASSUME NEW i \in Both
      PROVE  /\ Private(u, i)' <=> Private(u, i)
             /\ Public(u, i)' <=> Public(u, i)
             /\ TakenApart(u, i)' <=> TakenApart(u, i)
             /\ Displaced(u, i)' <=> Displaced(u, i)
             /\ \A pcs : Parting(u, i, pcs)' <=> Parting(u, i, pcs)
             /\ Buffer(u, i)' = Buffer(u, i)
  BY DEF Undisturbed, Private, Public, TakenApart, Displaced, Parting, Buffer
<1>3. ASSUME NEW i \in Both
      PROVE  /\ HasPlace(u, i)' <=> HasPlace(u, i)
             /\ Settled(u, i)' <=> Settled(u, i)
             /\ PixelsOf(u, i)' = PixelsOf(u, i)
             /\ SlotOf(u, i)' = SlotOf(u, i)
             /\ PageOf(u, i)' = PageOf(u, i)
  BY <1>2 DEF Undisturbed, HasPlace, Settled, PixelsOf, SlotOf, PageOf
<1>4. ASSUME Doubtful(u)' <=> Doubtful(u), NEW i \in Both
      PROVE  /\ HasPage(u, i)' <=> HasPage(u, i)
             /\ MayHavePage(u, i)' <=> MayHavePage(u, i)
             /\ IsMapped(u, i)' <=> IsMapped(u, i)
             /\ MayBeMapped(u, i)' <=> MayBeMapped(u, i)
  BY <1>2, <1>4 DEF Undisturbed, HasPage, MayHavePage, IsMapped, MayBeMapped
<1> QED
  BY <1>1, <1>3, <1>4

LEMMA StaysDoubtful ==
    ASSUME FrameInv, NEW u \in Task, Undisturbed(u), mmu' \in [Slot -> Page \cup {NoPage}],
           ASSUME Settled(u, 1), NEW s, s = PixelsOf(u, 1)
           PROVE  mmu'[s] = mmu[s]
    PROVE  Doubtful(u)' <=> Doubtful(u)
<1>1. \A i \in Both : /\ Public(u, i)' <=> Public(u, i)
                      /\ TakenApart(u, i)' <=> TakenApart(u, i)
                      /\ \A pcs : Parting(u, i, pcs)' <=> Parting(u, i, pcs)
  BY DEF Undisturbed, Public, TakenApart, Parting
<1> DEFINE s == framebuffers[u][1].slot
<1>2. s' = s
  BY DEF Undisturbed
<1>3. ASSUME u \notin dangling, Public(u, 1), ~Public(u, 2), ~TakenApart(u, 1), app[u].pc = "killed"
      PROVE  mmu'[s] = mmu[s]
  <2>1. framebuffers[u][1].slot = framebuffers[u][1].pixels
    BY <1>3 DEF FrameInv, AppInv, Public
  <2>2. ~Private(u, 1)
    BY <1>3 DEF FrameInv, AppInv, Public, Private
  <2>3. PixelsOf(u, 1) = s
    BY <2>1, <2>2 DEF PixelsOf, Buffer
  <2>4. Settled(u, 1)
    BY <1>3 DEF Settled, HasPlace
  <2> QED
    BY <2>3, <2>4
<1> QED
  BY <1>1, <1>2, <1>3, Constants DEF Doubtful, Undisturbed
-----------------------------------------------------------------------------
(* What a step may do to a framebuffer that is not its business.           *)
PlaceStays(u, j)   == /\ HasPlace(u, j)' <=> HasPlace(u, j)
                      /\ HasPlace(u, j) => PixelsOf(u, j)' = PixelsOf(u, j)
PageStays(u, j)    == /\ HasPage(u, j)' => HasPage(u, j)
                      /\ MayHavePage(u, j) => MayHavePage(u, j)' /\ PageOf(u, j)' = PageOf(u, j)
MapStays(u, j)     == /\ IsMapped(u, j)' => IsMapped(u, j)
                      /\ MayBeMapped(u, j) => /\ MayBeMapped(u, j)'
                                              /\ SlotOf(u, j)' = SlotOf(u, j)
                                              /\ PageOf(u, j)' = PageOf(u, j)
SettledStays(u, j) == Settled(u, j)' => Settled(u, j) /\ PixelsOf(u, j)' = PixelsOf(u, j)
Stays(u, j) == PlaceStays(u, j) /\ PageStays(u, j) /\ MapStays(u, j) /\ SettledStays(u, j)

LEMMA UndisturbedStays ==
    ASSUME NEW u \in Task, Undisturbed(u), Doubtful(u)' <=> Doubtful(u)
    PROVE  \A j \in Both : Stays(u, j)
BY UndisturbedKeeps DEF Stays, PlaceStays, PageStays, MapStays, SettledStays

LEMMA TokenFacts ==
    ASSUME FrameInv, NEW t \in Task, NEW i \in Both
    PROVE  /\ HasPlace(t, i) => PixelsOf(t, i) \in Slot
           /\ HasPage(t, i) => MayHavePage(t, i) /\ HasPlace(t, i)
           /\ MayHavePage(t, i) => PageOf(t, i) \in Page
           /\ IsMapped(t, i) => HasPage(t, i) /\ MayBeMapped(t, i)
           /\ MayBeMapped(t, i) => SlotOf(t, i) \in Slot /\ PageOf(t, i) \in Page
           /\ Settled(t, i) => HasPlace(t, i)
<1>1. /\ app[t].fb \in Partial /\ framebuffers[t][i] \in Pointer
  BY Pairs DEF FrameInv, FrameType
<1>2. Public(t, i) => framebuffers[t][i] \in Framebuffer
  BY <1>1 DEF Public, Pointer
<1>3. Private(t, i) => /\ ~Public(t, i)
                       /\ app[t].fb.pixels # 0 /\ app[t].fb.slot = app[t].fb.pixels
                       /\ app[t].fb.pixels \in Slot
                       /\ app[t].fb.page # NoPage => app[t].fb.page \in Page
  <2> SUFFICES ASSUME Private(t, i)
               PROVE  /\ ~Public(t, i)
                      /\ app[t].fb.pixels # 0 /\ app[t].fb.slot = app[t].fb.pixels
    BY <1>1, Constants
  <2>1. AppInv(t)
    BY DEF FrameInv
  <2> QED
    BY <2>1, Constants DEF AppInv, Private, Public, Both
<1>4. Private(t, i) /\ app[t].pc = "publish" => app[t].fb.page # NoPage
  BY DEF FrameInv, AppInv, Private
<1>5. HasPlace(t, i) => PixelsOf(t, i) \in Slot
  BY <1>2, <1>3, Constants DEF HasPlace, PixelsOf, Buffer
<1>6. MayHavePage(t, i) => PageOf(t, i) \in Page
  <2>1. MayHavePage(t, i) => (Private(t, i) /\ app[t].fb.page # NoPage) \/ Public(t, i)
    BY DEF MayHavePage, HasPage, Doubtful
  <2> QED
    BY <1>2, <1>3, <2>1, Constants DEF PageOf, Buffer
<1>7. MayBeMapped(t, i) => (Private(t, i) /\ app[t].fb.page # NoPage) \/ Public(t, i)
  BY <1>4 DEF MayBeMapped, IsMapped
<1>8. MayBeMapped(t, i) => SlotOf(t, i) \in Slot /\ PageOf(t, i) \in Page
  BY <1>2, <1>3, <1>7, Constants DEF PageOf, SlotOf, Buffer
<1>9. IsMapped(t, i) => HasPage(t, i) /\ MayBeMapped(t, i)
  <2>1. IsMapped(t, i) => MayBeMapped(t, i)
    BY DEF MayBeMapped
  <2>2. Parting(t, i, {"freeplace"}) => Parting(t, i, {"freepages", "freeplace"})
    BY DEF Parting
  <2> QED
    BY <1>4, <2>1, <2>2 DEF IsMapped, HasPage
<1>10. HasPage(t, i) => MayHavePage(t, i) /\ HasPlace(t, i)
  BY DEF HasPage, HasPlace, MayHavePage
<1> QED
  BY <1>5, <1>6, <1>8, <1>9, <1>10 DEF Settled
-----------------------------------------------------------------------------
(* Places *)

LEMMA PlacesStay ==
    ASSUME PlaceInv, UNCHANGED taken, \A u \in Task : \A j \in Both : PlaceStays(u, j)
    PROVE  PlaceInv'
BY DEF PlaceInv, PlaceStays

LEMMA PlaceIsTaken ==
    ASSUME PlaceInv, NEW t \in Task, NEW i \in Both, NEW s \in Slot \ taken,
           taken' = taken \cup {s}, ~HasPlace(t, i), HasPlace(t, i)', PixelsOf(t, i)' = s,
           \A u \in Task : \A j \in Both : u # t \/ j # i => PlaceStays(u, j)
    PROVE  PlaceInv'
BY DEF PlaceInv, PlaceStays

LEMMA PlaceIsLeft ==
    ASSUME PlaceInv, NEW t \in Task, NEW i \in Both,
           taken' = taken \ {PixelsOf(t, i)}, HasPlace(t, i), ~HasPlace(t, i)',
           \A u \in Task : \A j \in Both : u # t \/ j # i => PlaceStays(u, j)
    PROVE  PlaceInv'
BY DEF PlaceInv, PlaceStays

(* Pages *)

LEMMA PagesStay ==
    ASSUME FrameInv, UNCHANGED given, \A u \in Task : \A j \in Both : PageStays(u, j)
    PROVE  PageInv'
<1>1. PageInv
  BY DEF FrameInv
<1>2. \A u \in Task : \A j \in Both : HasPage(u, j) => MayHavePage(u, j)
  BY TokenFacts
<1> QED
  BY <1>1, <1>2 DEF PageInv, PageStays

LEMMA PageIsTaken ==
    ASSUME FrameInv, NEW t \in Task, NEW i \in Both, NEW q \in Page \ given,
           given' = given \cup {q}, ~MayHavePage(t, i), MayHavePage(t, i)', PageOf(t, i)' = q,
           \A u \in Task : \A j \in Both : u # t \/ j # i => PageStays(u, j)
    PROVE  PageInv'
<1>1. PageInv
  BY DEF FrameInv
<1>2. \A u \in Task : \A j \in Both : HasPage(u, j) => MayHavePage(u, j)
  BY TokenFacts
<1> QED
  BY <1>1, <1>2 DEF PageInv, PageStays

LEMMA PageIsReturned ==
    ASSUME FrameInv, NEW t \in Task, NEW i \in Both,
           given' = given \ {PageOf(t, i)}, HasPage(t, i), ~HasPage(t, i)',
           \A u \in Task : \A j \in Both : u # t \/ j # i => PageStays(u, j)
    PROVE  PageInv'
<1>1. PageInv
  BY DEF FrameInv
<1>2. \A u \in Task : \A j \in Both : HasPage(u, j) => MayHavePage(u, j)
  BY TokenFacts
<1> QED
  BY <1>1, <1>2 DEF PageInv, PageStays

(* Mappings *)

LEMMA MapsStay ==
    ASSUME FrameInv, UNCHANGED mmu,
           \A u \in Task : \A j \in Both : MapStays(u, j) /\ SettledStays(u, j)
    PROVE  MapInv'
<1>1. MapInv
  BY DEF FrameInv
<1>2. \A u \in Task : \A j \in Both : IsMapped(u, j) => MayBeMapped(u, j)
  BY TokenFacts
<1> QED
  BY <1>1, <1>2 DEF MapInv, MapStays, SettledStays

LEMMA MapIsMade ==
    ASSUME FrameInv, NEW t \in Task, NEW i \in Both, NEW s \in Slot, NEW q \in Page,
           MapPages(s, q), mmu[s] = NoPage,
           ~MayBeMapped(t, i), MayBeMapped(t, i)', SlotOf(t, i)' = s, PageOf(t, i)' = q,
           \A u \in Task : \A j \in Both : u # t \/ j # i => MapStays(u, j) /\ SettledStays(u, j),
           SettledStays(t, i) \/ PixelsOf(t, i)' = s,
           \A u \in Task : \A j \in Both : u # t /\ Settled(u, j) => PixelsOf(u, j) # s
    PROVE  MapInv'
<1>1. MapInv /\ mmu \in [Slot -> Page \cup {NoPage}]
  BY DEF FrameInv, FrameType
<1>2. \A u \in Task : \A j \in Both :
         IsMapped(u, j) => MayBeMapped(u, j) /\ SlotOf(u, j) \in Slot /\ PageOf(u, j) \in Page
  BY TokenFacts
<1>3. \A u \in Task : \A j \in Both : IsMapped(u, j) => SlotOf(u, j) # s
  BY <1>1, <1>2, Constants DEF MapInv
<1>4. mmu'[s] = q /\ \A r \in Slot : r # s => mmu'[r] = mmu[r]
  BY <1>1 DEF MapPages
<1>5. ASSUME NEW u \in Task, NEW j \in Both, IsMapped(u, j)'
      PROVE  mmu'[SlotOf(u, j)'] = PageOf(u, j)'
  <2>1. CASE u = t /\ j = i
    BY <1>4, <2>1
  <2>2. CASE u # t \/ j # i
    <3>1. IsMapped(u, j) /\ SlotOf(u, j)' = SlotOf(u, j) /\ PageOf(u, j)' = PageOf(u, j)
      BY <1>2, <1>5, <2>2 DEF MapStays
    <3> QED
      BY <1>1, <1>2, <1>3, <1>4, <3>1 DEF MapInv
  <2> QED
    BY <2>1, <2>2
<1>6. ASSUME NEW r \in Slot, mmu'[r] # NoPage
      PROVE  \E u \in Task : \E j \in Both : MayBeMapped(u, j)' /\ SlotOf(u, j)' = r
  <2>1. CASE r = s
    BY <2>1
  <2>2. CASE r # s
    <3>1. PICK u \in Task : \E j \in Both : MayBeMapped(u, j) /\ SlotOf(u, j) = r
      BY <1>1, <1>4, <1>6, <2>2 DEF MapInv
    <3> QED
      BY <3>1 DEF MapStays
  <2> QED
    BY <2>1, <2>2
<1>7. ASSUME NEW u \in Task, NEW v \in Task, NEW j \in Both, NEW k \in Both,
             Settled(u, j)', IsMapped(v, k)', SlotOf(v, k)' = PixelsOf(u, j)'
      PROVE  u = v
  <2>1. CASE v = t /\ k = i
    BY <1>7, <2>1 DEF SettledStays
  <2>2. CASE v # t \/ k # i
    <3>1. IsMapped(v, k) /\ SlotOf(v, k)' = SlotOf(v, k) /\ SlotOf(v, k) # s
      BY <1>2, <1>3, <1>7, <2>2 DEF MapStays
    <3>2. Settled(u, j) /\ PixelsOf(u, j)' = PixelsOf(u, j)
      BY <1>7, <3>1 DEF SettledStays
    <3> QED
      BY <1>1, <1>7, <3>1, <3>2 DEF MapInv
  <2> QED
    BY <2>1, <2>2
<1> QED
  BY <1>5, <1>6, <1>7 DEF MapInv

LEMMA MapIsUndone ==
    ASSUME FrameInv, NEW t \in Task, NEW i \in Both,
           UnmapPages(SlotOf(t, i)), IsMapped(t, i), ~IsMapped(t, i)',
           \A u \in Task : \A j \in Both : u # t \/ j # i => MapStays(u, j),
           \A u \in Task : \A j \in Both : SettledStays(u, j)
    PROVE  MapInv'
<1>1. MapInv /\ PageInv /\ mmu \in [Slot -> Page \cup {NoPage}]
  BY DEF FrameInv, FrameType
<1>2. \A u \in Task : \A j \in Both :
         IsMapped(u, j) => /\ MayBeMapped(u, j) /\ HasPage(u, j)
                           /\ SlotOf(u, j) \in Slot /\ PageOf(u, j) \in Page
  BY TokenFacts
<1>3. \A u \in Task : \A j \in Both :
         IsMapped(u, j) /\ SlotOf(u, j) = SlotOf(t, i) => u = t /\ j = i
  BY <1>1, <1>2 DEF MapInv, PageInv
<1>4. mmu'[SlotOf(t, i)] = NoPage /\ \A r \in Slot : r # SlotOf(t, i) => mmu'[r] = mmu[r]
  BY <1>1, <1>2 DEF UnmapPages
<1>5. ASSUME NEW u \in Task, NEW j \in Both, IsMapped(u, j)'
      PROVE  /\ IsMapped(u, j) /\ SlotOf(u, j)' = SlotOf(u, j) /\ PageOf(u, j)' = PageOf(u, j)
             /\ mmu'[SlotOf(u, j)'] = PageOf(u, j)'
  <2>1. u # t \/ j # i
    BY <1>5
  <2>2. IsMapped(u, j) /\ SlotOf(u, j)' = SlotOf(u, j) /\ PageOf(u, j)' = PageOf(u, j)
    BY <1>2, <1>5, <2>1 DEF MapStays
  <2> QED
    BY <1>1, <1>2, <1>3, <1>4, <2>1, <2>2 DEF MapInv
<1>6. ASSUME NEW r \in Slot, mmu'[r] # NoPage
      PROVE  \E u \in Task : \E j \in Both : MayBeMapped(u, j)' /\ SlotOf(u, j)' = r
  <2>1. r # SlotOf(t, i) /\ mmu[r] # NoPage
    BY <1>4, <1>6
  <2>2. PICK u \in Task : \E j \in Both : MayBeMapped(u, j) /\ SlotOf(u, j) = r
    BY <1>1, <2>1 DEF MapInv
  <2> QED
    BY <2>1, <2>2 DEF MapStays
<1>7. ASSUME NEW u \in Task, NEW v \in Task, NEW j \in Both, NEW k \in Both,
             Settled(u, j)', IsMapped(v, k)', SlotOf(v, k)' = PixelsOf(u, j)'
      PROVE  u = v
  <2>1. Settled(u, j) /\ IsMapped(v, k) /\ SlotOf(v, k) = PixelsOf(u, j)
    BY <1>5, <1>7 DEF SettledStays
  <2> QED
    BY <1>1, <2>1 DEF MapInv
<1> QED
  BY <1>5, <1>6, <1>7 DEF MapInv
-----------------------------------------------------------------------------
(* A step of one task, or of the compositor for one task, leaves the other *)
(* windows alone, whatever it maps or unmaps.                              *)
LEMMA OthersStay ==
    ASSUME FrameInv, NEW t, mmu' \in [Slot -> Page \cup {NoPage}],
           \A u \in Task \ {t} : /\ Undisturbed(u)
                                 /\ Settled(u, 1) => mmu'[PixelsOf(u, 1)] = mmu[PixelsOf(u, 1)]
    PROVE  \A u \in Task \ {t} : AppInv(u)' /\ \A j \in Both : Stays(u, j)
<1> SUFFICES ASSUME NEW u \in Task \ {t} PROVE AppInv(u)' /\ \A j \in Both : Stays(u, j)
  OBVIOUS
<1>1. Undisturbed(u) /\ u \in Task
  OBVIOUS
<1>2. Doubtful(u)' <=> Doubtful(u)
  BY <1>1, StaysDoubtful
<1>3. AppInv(u)
  BY <1>1 DEF FrameInv
<1> QED
  BY <1>1, <1>2, <1>3, UndisturbedStays, UndisturbedKeeps

(* What the compositor draws changes with no step that leaves it alone,    *)
(* unless a task frees the framebuffer itself.                             *)
LEMMA DrawStays ==
    ASSUME FrameInv, UNCHANGED compositor, gaveUp \subseteq gaveUp',
           compositor.task \notin gaveUp /\ Public(compositor.task, 1) =>
             framebuffers'[compositor.task][1] = framebuffers[compositor.task][1]
    PROVE  DrawInv'
BY DEF FrameInv, DrawInv, Public

LEMMA AllKeep ==
    ASSUME FrameInv, FrameType', NEW t \in Task, DrawInv', AppInv(t)',
           \A u \in Task \ {t} : AppInv(u)' /\ \A j \in Both : Stays(u, j),
           \A j \in Both : Stays(t, j),
           UNCHANGED <<taken, given, mmu>>
    PROVE  FrameInv'
<1>1. \A u \in Task : \A j \in Both : Stays(u, j)
  OBVIOUS
<1>2. PlaceInv'
  BY <1>1, PlacesStay DEF FrameInv, Stays
<1>3. PageInv'
  BY <1>1, PagesStay DEF Stays
<1>4. MapInv'
  BY <1>1, MapsStay DEF Stays
<1>5. \A u \in Task : AppInv(u)'
  OBVIOUS
<1> QED
  BY <1>2, <1>3, <1>4, <1>5 DEF FrameInv

(* A call that makes or frees nothing is about nothing in particular.      *)
LEMMA PlainStays ==
    ASSUME FrameInv, NEW t \in Task, framebuffers'[t] = framebuffers[t], Stage(t)' = Stage(t),
           t \in dangling' <=> t \in dangling,
           app[t].pc \in {"rest", "place", "unmap", "swap", "destroy", "killedswap"},
           app'[t].pc \in {"rest", "place", "unmap", "swap", "destroy", "killedswap"}
    PROVE  \A j \in Both : Stays(t, j)
<1>1. ~Doubtful(t) /\ ~Doubtful(t)'
  BY DEF Doubtful
<1>2. ASSUME NEW i \in Both
      PROVE  /\ ~Private(t, i)' /\ ~Private(t, i)
             /\ Public(t, i)' <=> Public(t, i)
             /\ TakenApart(t, i)' <=> TakenApart(t, i)
             /\ Displaced(t, i)' <=> Displaced(t, i)
             /\ \A pcs : Parting(t, i, pcs)' <=> Parting(t, i, pcs)
             /\ Buffer(t, i)' = Buffer(t, i)
  BY DEF Private, Public, TakenApart, Displaced, Parting, Buffer
<1>3. ASSUME NEW i \in Both
      PROVE  PlaceStays(t, i) /\ SettledStays(t, i)
  BY <1>2 DEF PlaceStays, SettledStays, HasPlace, Settled, PixelsOf
<1>4. ASSUME NEW i \in Both
      PROVE  PageStays(t, i)
  BY <1>1, <1>2 DEF PageStays, HasPage, MayHavePage, PageOf
<1>5. ASSUME NEW i \in Both
      PROVE  MapStays(t, i)
  BY <1>1, <1>2 DEF MapStays, IsMapped, MayBeMapped, PageOf, SlotOf
<1> QED
  BY <1>3, <1>4, <1>5 DEF Stays

LEMMA TypeFacts ==
    ASSUME FrameInv
    PROVE  /\ \A u \in Task : /\ app[u] \in [pc : AppPc, i : 0..2, fb : Partial]
                              /\ framebuffers[u] \in Pointer \X Pointer
                              /\ framebuffers[u][1] \in Pointer /\ framebuffers[u][2] \in Pointer
                              /\ \A i \in Both : framebuffers[u][i] \in Pointer
                              /\ framebuffers[u] = <<framebuffers[u][1], framebuffers[u][2]>>
           /\ mmu \in [Slot -> Page \cup {NoPage}]
           /\ app \in [Task -> [pc : AppPc, i : 0..2, fb : Partial]]
           /\ framebuffers \in [Task -> Pointer \X Pointer]
           /\ compositor \in [pc : {"idle", "draw", "drawfreed", "second", "exchange", "last",
                                    "free", "freepages", "freeplace", "done"},
                              task : Task, i : 0..2, fb : Pointer]
           /\ Null \in Partial
<1>1. framebuffers \in [Task -> Pointer \X Pointer]
  BY DEF FrameInv, FrameType
<1>2. \A u \in Task : framebuffers[u] \in Pointer \X Pointer
  BY <1>1
<1> QED
  BY <1>1, <1>2, Pairs, Constants DEF FrameInv, FrameType, Both

(* What all the steps of tasks but the two that finish a cleaning have in  *)
(* common.                                                                 *)
LEMMA TaskAlone ==
    ASSUME FrameInv, NEW t \in Task, NEW new \in [pc : AppPc, i : 0..2, fb : Partial],
           app' = [app EXCEPT ![t] = new],
           \A u \in Task \ {t} : framebuffers'[u] = framebuffers[u],
           UNCHANGED <<compositor, dangling>>,
           gaveUp' = gaveUp \/ gaveUp' = gaveUp \cup {t}
    PROVE  /\ app' \in [Task -> [pc : AppPc, i : 0..2, fb : Partial]] /\ app'[t] = new
           /\ \A u \in Task : Stage(u)' = Stage(u)
           /\ \A u \in Task \ {t} : Undisturbed(u)
<1>1. app \in [Task -> [pc : AppPc, i : 0..2, fb : Partial]]
  BY TypeFacts
<1>2. \A u \in Task : Stage(u)' = Stage(u)
  BY DEF Stage
<1> QED
  BY <1>1, <1>2 DEF Undisturbed
-----------------------------------------------------------------------------
LEMMA CreateBeginsKeeps == ASSUME FrameInv, NEW t \in Task, CreateBegins(t) PROVE FrameInv'
<1> DEFINE new == [pc |-> "place", i |-> 1, fb |-> Null]
<1>1. /\ app[t].pc = "rest" /\ framebuffers[t] = <<Null, Null>>
      /\ app' = [app EXCEPT ![t] = new]
      /\ UNCHANGED <<framebuffers, compositor, dangling, gaveUp, kills, taken, given, mmu>>
  BY DEF CreateBegins, At, AppOnly, pageVars
<1>2. new \in [pc : AppPc, i : 0..2, fb : Partial]
  BY Constants DEF AppPc
<1> HIDE DEF new
<1>3. /\ app' \in [Task -> [pc : AppPc, i : 0..2, fb : Partial]] /\ app'[t] = new
      /\ \A u \in Task : Stage(u)' = Stage(u)
      /\ \A u \in Task \ {t} : Undisturbed(u)
  BY <1>1, <1>2, TaskAlone
<1>4. \A u \in Task \ {t} : AppInv(u)' /\ \A j \in Both : Stays(u, j)
  BY <1>1, <1>3, OthersStay, TypeFacts
<1>5. \A j \in Both : Stays(t, j)
  BY <1>1, <1>3, PlainStays DEF new
<1>6. FrameType'
  BY <1>1, <1>3 DEF FrameInv, FrameType
<1>7. AppInv(t)'
  <2>1. /\ framebuffers[t][1] = Null /\ framebuffers[t][2] = Null
        /\ t \notin dangling /\ Stage(t).pc \notin {"second", "exchange", "last", "free", "freepages", "freeplace", "done"}
    BY <1>1 DEF FrameInv, AppInv
  <2> QED
    BY <1>1, <1>3, <2>1 DEF AppInv, new, Both
<1>8. DrawInv'
  BY <1>1, DrawStays
<1> QED
  BY <1>1, <1>4, <1>5, <1>6, <1>7, <1>8, AllKeep
-----------------------------------------------------------------------------
(* While a task makes or cleans, the compositor does nothing to its window *)
(* that takes it apart, and what it holds is what its call says.           *)
LEMMA AppIsAlone ==
    ASSUME FrameInv, NEW t \in Task, app[t].pc \notin {"swap", "killedswap", "destroy", "killed"}
    PROVE  Stage(t) = Untouched
<1>1. AppInv(t) /\ compositor.pc \in {"idle", "draw", "drawfreed", "second", "exchange", "last",
                                      "free", "freepages", "freeplace", "done"}
  BY DEF FrameInv, FrameType
<1> QED
  BY <1>1 DEF AppInv, Stage, Untouched

LEMMA QuietTokens ==
    ASSUME NEW t, Stage(t) = Untouched, app[t].pc \notin {"killed", "gone"}
    PROVE  \A j \in Both :
             /\ HasPlace(t, j) <=> Private(t, j) \/ (Public(t, j) /\ ~(j = 1 /\ t \in dangling))
             /\ HasPage(t, j) <=> \/ Private(t, j) /\ app[t].fb.page # NoPage
                                  \/ Public(t, j) /\ ~(j = 1 /\ (t \in dangling \/ app[t].pc = "leave"))
             /\ MayHavePage(t, j) <=> HasPage(t, j)
             /\ IsMapped(t, j) <=>
                  \/ Private(t, j) /\ app[t].pc = "publish"
                  \/ Public(t, j) /\ ~(j = 1 /\ (t \in dangling \/ app[t].pc \in {"return", "leave"}))
             /\ MayBeMapped(t, j) <=> IsMapped(t, j)
<1>1. ~Doubtful(t)
  BY DEF Doubtful
<1>2. \A j \in Both : /\ ~TakenApart(t, j) /\ ~Displaced(t, j)
                      /\ ~Parting(t, j, {"freeplace"}) /\ ~Parting(t, j, {"freepages", "freeplace"})
  BY DEF Untouched, TakenApart, Displaced, Parting
<1>3. \A j \in Both : Private(t, j) => app[t].pc \in {"pages", "map", "publish"}
  BY DEF Private
<1> QED
  BY <1>1, <1>2, <1>3 DEF HasPlace, HasPage, MayHavePage, IsMapped, MayBeMapped

LEMMA QuietTokensAfter ==
    ASSUME NEW t, Stage(t)' = Untouched, app'[t].pc \notin {"killed", "gone"}
    PROVE  \A j \in Both :
             /\ HasPlace(t, j)' <=> Private(t, j)' \/ (Public(t, j)' /\ ~(j = 1 /\ t \in dangling'))
             /\ HasPage(t, j)' <=> \/ Private(t, j)' /\ app'[t].fb.page # NoPage
                                   \/ Public(t, j)' /\ ~(j = 1 /\ (t \in dangling' \/ app'[t].pc = "leave"))
             /\ MayHavePage(t, j)' <=> HasPage(t, j)'
             /\ IsMapped(t, j)' <=>
                  \/ Private(t, j)' /\ app'[t].pc = "publish"
                  \/ Public(t, j)' /\ ~(j = 1 /\ (t \in dangling' \/ app'[t].pc \in {"return", "leave"}))
             /\ MayBeMapped(t, j)' <=> IsMapped(t, j)'
<1>1. ~Doubtful(t)'
  BY DEF Doubtful
<1>2. \A j \in Both : /\ ~TakenApart(t, j)' /\ ~Displaced(t, j)'
                      /\ ~Parting(t, j, {"freeplace"})' /\ ~Parting(t, j, {"freepages", "freeplace"})'
  BY DEF Untouched, TakenApart, Displaced, Parting
<1>3. \A j \in Both : Private(t, j)' => app'[t].pc \in {"pages", "map", "publish"}
  BY DEF Private
<1> QED
  BY <1>1, <1>2, <1>3 DEF HasPlace, HasPage, MayHavePage, IsMapped, MayBeMapped

(* A call that makes framebuffer i has not published it.                   *)
LEMMA Making ==
    ASSUME FrameInv, NEW t \in Task, app[t].pc \in {"place", "pages", "map", "publish"}
    PROVE  /\ app[t].i \in Both /\ ~Public(t, app[t].i) /\ t \notin dangling
           /\ Stage(t) = Untouched
           /\ \A j \in Both : Private(t, j) <=> app[t].pc # "place" /\ j = app[t].i
<1>1. AppInv(t) /\ Stage(t) = Untouched
  BY AppIsAlone DEF FrameInv
<1>2. app[t].i \in Both /\ ~Public(t, app[t].i) /\ t \notin dangling
  BY <1>1 DEF AppInv, Public, Both
<1> QED
  BY <1>1, <1>2 DEF AppInv, Private

LEMMA TakePlaceKeeps == ASSUME FrameInv, NEW t \in Task, TakePlace(t) PROVE FrameInv'
<1>1. PICK s \in Slot \ taken :
        /\ app[t].pc = "place" /\ taken' = taken \cup {s}
        /\ Becomes(t, "pages", [Null EXCEPT !.pixels = s, !.slot = s])
        /\ UNCHANGED <<framebuffers, compositor, dangling, gaveUp, kills, given, mmu>>
  BY DEF TakePlace, At, AppOnly, pageVars
<1>i. PICK i \in Both : app[t].i = i
  BY <1>1, Making
<1> DEFINE fb == [Null EXCEPT !.pixels = s, !.slot = s]
           new == [pc |-> "pages", i |-> i, fb |-> fb]
<1>2. fb \in Partial /\ fb # Null /\ fb.pixels = s /\ fb.slot = s /\ fb.page = NoPage
  BY Constants DEF Partial, Null
<1>3. new \in [pc : AppPc, i : 0..2, fb : Partial] /\ new.pc = "pages" /\ new.i = i /\ new.fb = fb
  BY <1>2 DEF AppPc, Both
<1>4. app' = [app EXCEPT ![t] = new]
  BY <1>1, <1>i DEF Becomes
<1> HIDE DEF fb, new
<1>5. /\ app' \in [Task -> [pc : AppPc, i : 0..2, fb : Partial]] /\ app'[t] = new
      /\ \A u \in Task : Stage(u)' = Stage(u)
      /\ \A u \in Task \ {t} : Undisturbed(u)
  BY <1>1, <1>3, <1>4, TaskAlone
<1>6. \A u \in Task \ {t} : AppInv(u)' /\ \A j \in Both : Stays(u, j)
  BY <1>1, <1>5, OthersStay, TypeFacts
<1>7. /\ i \in Both /\ ~Public(t, i) /\ t \notin dangling /\ Stage(t) = Untouched
      /\ \A j \in Both : ~Private(t, j)
  BY <1>1, <1>i, Making
<1>8. \A j \in Both : /\ Private(t, j)' <=> j = i
                      /\ Public(t, j)' <=> Public(t, j)
                      /\ j # i => Buffer(t, j)' = Buffer(t, j)
                      /\ j = i => Buffer(t, j)' = fb
  BY <1>1, <1>2, <1>3, <1>5, <1>7 DEF Private, Public, Buffer
<1>9. \A j \in Both : /\ HasPlace(t, j) <=> Public(t, j)
                      /\ HasPlace(t, j)' <=> Public(t, j) \/ j = i
                      /\ HasPage(t, j)' <=> HasPage(t, j)
                      /\ MayHavePage(t, j)' <=> MayHavePage(t, j)
                      /\ IsMapped(t, j)' <=> IsMapped(t, j)
                      /\ MayBeMapped(t, j)' <=> MayBeMapped(t, j)
                      /\ MayHavePage(t, j) \/ MayBeMapped(t, j) \/ Settled(t, j)' => j # i
                      /\ Settled(t, j)' <=> Settled(t, j)
  <2>1. app[t].pc = "place" /\ app'[t].pc = "pages" /\ app'[t].fb.page = NoPage /\ UNCHANGED dangling
    BY <1>1, <1>2, <1>3, <1>5
  <2>2. Stage(t)' = Untouched
    BY <1>5, <1>7
  <2> QED
    BY <1>7, <1>8, <2>1, <2>2, QuietTokens, QuietTokensAfter DEF Settled
<1>10. \A j \in Both : /\ PageStays(t, j) /\ MapStays(t, j) /\ SettledStays(t, j)
                       /\ j # i => PlaceStays(t, j)
  BY <1>8, <1>9 DEF PlaceStays, PageStays, MapStays, SettledStays, PixelsOf, SlotOf, PageOf
<1>11. FrameType'
  BY <1>1, <1>5 DEF FrameInv, FrameType
<1>12. AppInv(t)'
  <2>1. /\ i \in Both /\ framebuffers[t][2] = Null
        /\ framebuffers[t][1] # Null <=> i = 2
        /\ framebuffers[t][1] # Null => framebuffers[t][1].slot = framebuffers[t][1].pixels
    BY <1>1, <1>i DEF FrameInv, AppInv
  <2>2. framebuffers'[t] = framebuffers[t] /\ Stage(t)' = Untouched /\ t \notin dangling'
    BY <1>1, <1>5, <1>7
  <2> QED
    BY <1>2, <1>3, <1>5, <2>1, <2>2, Constants DEF AppInv, Untouched
<1>13. DrawInv'
  BY <1>1, DrawStays
<1>14. PlaceInv'
  <2>1. PixelsOf(t, i)' = s
    BY <1>2, <1>7, <1>8 DEF PixelsOf
  <2> QED
    BY <1>1, <1>6, <1>7, <1>9, <1>10, <2>1, PlaceIsTaken DEF FrameInv, Stays
<1>15. PageInv'
  BY <1>1, <1>6, <1>10, PagesStay DEF Stays
<1>16. MapInv'
  BY <1>1, <1>6, <1>10, MapsStay DEF Stays
<1> QED
  BY <1>6, <1>11, <1>12, <1>13, <1>14, <1>15, <1>16 DEF FrameInv

LEMMA TakePagesKeeps == ASSUME FrameInv, NEW t \in Task, TakePages(t) PROVE FrameInv'
<1>1. PICK q \in Page \ given :
        /\ app[t].pc = "pages" /\ given' = given \cup {q}
        /\ Becomes(t, "map", [app[t].fb EXCEPT !.page = q])
        /\ UNCHANGED <<framebuffers, compositor, dangling, gaveUp, kills, taken, mmu>>
  BY DEF TakePages, At, AppOnly
<1>i. PICK i \in Both : app[t].i = i
  BY <1>1, Making
<1> DEFINE fb == [app[t].fb EXCEPT !.page = q]
           new == [pc |-> "map", i |-> i, fb |-> fb]
<1>2. /\ app[t].fb \in Partial /\ fb \in Partial /\ q # NoPage /\ fb.page = q
      /\ fb.pixels = app[t].fb.pixels /\ fb.slot = app[t].fb.slot
  BY TypeFacts, Constants DEF Partial
<1>3. new \in [pc : AppPc, i : 0..2, fb : Partial] /\ new.pc = "map" /\ new.i = i /\ new.fb = fb
  BY <1>2 DEF AppPc, Both
<1>4. app' = [app EXCEPT ![t] = new]
  BY <1>1, <1>i DEF Becomes
<1>fb. fb # Null
  BY <1>2, Constants
<1> HIDE DEF fb, new
<1>5. /\ app' \in [Task -> [pc : AppPc, i : 0..2, fb : Partial]] /\ app'[t] = new
      /\ \A u \in Task : Stage(u)' = Stage(u)
      /\ \A u \in Task \ {t} : Undisturbed(u)
  BY <1>1, <1>3, <1>4, TaskAlone
<1>6. \A u \in Task \ {t} : AppInv(u)' /\ \A j \in Both : Stays(u, j)
  BY <1>1, <1>5, OthersStay, TypeFacts
<1>7. /\ ~Public(t, i) /\ t \notin dangling /\ Stage(t) = Untouched
      /\ \A j \in Both : Private(t, j) <=> j = i
  BY <1>1, <1>i, Making
<1>inv. AppInv(t) /\ app[t].fb # Null /\ app[t].fb.page = NoPage
  BY <1>1 DEF FrameInv, AppInv
<1>8. \A j \in Both : /\ Private(t, j)' <=> j = i
                      /\ Public(t, j)' <=> Public(t, j)
                      /\ j # i => Buffer(t, j)' = Buffer(t, j)
                      /\ j = i => Buffer(t, j)' = fb /\ Buffer(t, j) = app[t].fb
  BY <1>1, <1>fb, <1>3, <1>5, <1>7 DEF Private, Public, Buffer
<1>9. \A j \in Both : /\ HasPlace(t, j)' <=> HasPlace(t, j)
                      /\ j # i => (HasPage(t, j)' <=> HasPage(t, j))
                      /\ j # i => (MayHavePage(t, j)' <=> MayHavePage(t, j))
                      /\ j = i => ~MayHavePage(t, j) /\ MayHavePage(t, j)'
                      /\ IsMapped(t, j)' <=> IsMapped(t, j)
                      /\ MayBeMapped(t, j)' <=> MayBeMapped(t, j)
                      /\ MayBeMapped(t, j) \/ Settled(t, j)' => j # i
                      /\ Settled(t, j)' <=> Settled(t, j)
  <2>1. /\ app[t].pc = "pages" /\ app'[t].pc = "map" /\ app'[t].fb.page # NoPage
        /\ app[t].fb.page = NoPage /\ UNCHANGED dangling
    BY <1>1, <1>2, <1>3, <1>5, <1>inv
  <2>2. Stage(t)' = Untouched
    BY <1>5, <1>7
  <2> QED
    BY <1>7, <1>8, <2>1, <2>2, QuietTokens, QuietTokensAfter DEF Settled
<1>10. \A j \in Both : /\ PlaceStays(t, j) /\ MapStays(t, j) /\ SettledStays(t, j)
                       /\ j # i => PageStays(t, j)
  BY <1>2, <1>8, <1>9 DEF PlaceStays, PageStays, MapStays, SettledStays, PixelsOf, SlotOf, PageOf
<1>11. FrameType'
  BY <1>1, <1>5 DEF FrameInv, FrameType
<1>12. AppInv(t)'
  <2>1. /\ framebuffers[t][2] = Null
        /\ framebuffers[t][1] # Null <=> i = 2
        /\ framebuffers[t][1] # Null => framebuffers[t][1].slot = framebuffers[t][1].pixels
        /\ fb.pixels # 0 /\ fb.slot = fb.pixels
    BY <1>1, <1>i, <1>inv, <1>2 DEF AppInv
  <2>2. framebuffers'[t] = framebuffers[t] /\ Stage(t)' = Untouched /\ t \notin dangling'
    BY <1>1, <1>5, <1>7
  <2> QED
    BY <1>2, <1>3, <1>5, <2>1, <2>2, Constants DEF AppInv, Untouched
<1>13. DrawInv'
  BY <1>1, DrawStays
<1>14. PlaceInv'
  BY <1>1, <1>6, <1>10, PlacesStay DEF FrameInv, Stays
<1>15. PageInv'
  <2>1. PageOf(t, i)' = q
    BY <1>2, <1>7, <1>8 DEF PageOf
  <2> QED
    BY <1>1, <1>6, <1>9, <1>10, <2>1, PageIsTaken DEF Stays
<1>16. MapInv'
  BY <1>1, <1>6, <1>10, MapsStay DEF Stays
<1> QED
  BY <1>6, <1>11, <1>12, <1>13, <1>14, <1>15, <1>16 DEF FrameInv

(* A step that stops at an abort of the MMU code changes nothing else.     *)
LEMMA AbortKeeps ==
    ASSUME FrameInv,
           UNCHANGED <<given, mmu, taken, framebuffers, app, compositor, kills, dangling, gaveUp>>
    PROVE  FrameInv'
<1>1. \A u \in Task : Undisturbed(u)
  BY DEF Undisturbed, Stage
<1>2. \A u \in Task : AppInv(u)' /\ \A j \in Both : Stays(u, j)
  <2> SUFFICES ASSUME NEW u \in Task PROVE AppInv(u)' /\ \A j \in Both : Stays(u, j)
    OBVIOUS
  <2>1. Doubtful(u)' <=> Doubtful(u)
    BY <1>1, TypeFacts, StaysDoubtful
  <2> QED
    BY <1>1, <2>1, UndisturbedStays, UndisturbedKeeps DEF FrameInv
<1>3. FrameType' /\ DrawInv'
  BY DEF FrameInv, FrameType, DrawInv, Public
<1> QED
  BY <1>2, <1>3, PlacesStay, PagesStay, MapsStay DEF FrameInv, Stays

LEMMA MapNewKeeps == ASSUME FrameInv, NEW t \in Task, MapNew(t) PROVE FrameInv'
<1> DEFINE fb == app[t].fb
<1>0. CASE mmu[fb.slot] # NoPage
  BY <1>0, AbortKeeps DEF MapNew, Abort
<1>a. CASE mmu[fb.slot] = NoPage
  <2>1. /\ app[t].pc = "map" /\ mmu' = [mmu EXCEPT ![fb.slot] = fb.page]
        /\ Becomes(t, "publish", fb)
        /\ UNCHANGED <<framebuffers, compositor, dangling, gaveUp, kills, taken, given>>
    BY <1>a DEF MapNew, At, AppOnly, MapPages
  <2>i. PICK i \in Both : app[t].i = i
    BY <2>1, Making
  <2>c. PICK made \in Partial : made = fb
    BY TypeFacts
  <2>inv. /\ AppInv(t) /\ made # Null /\ made.page # NoPage /\ made.pixels # 0 /\ made.slot = made.pixels
          /\ made.slot \in Slot /\ made.page \in Page
    <3>1. AppInv(t) /\ made # Null /\ made.page # NoPage /\ made.pixels # 0 /\ made.slot = made.pixels
      BY <2>1, <2>c DEF FrameInv, AppInv
    <3> QED
      BY <3>1, Constants
  <2> DEFINE new == [pc |-> "publish", i |-> i, fb |-> made]
  <2>3. new \in [pc : AppPc, i : 0..2, fb : Partial] /\ new.pc = "publish" /\ new.i = i /\ new.fb = made
    BY DEF AppPc, Both
  <2>4. app' = [app EXCEPT ![t] = new]
    BY <2>1, <2>i, <2>c DEF Becomes
  <2> HIDE DEF new
  <2>5. /\ app' \in [Task -> [pc : AppPc, i : 0..2, fb : Partial]] /\ app'[t] = new
        /\ \A u \in Task : Stage(u)' = Stage(u)
        /\ \A u \in Task \ {t} : Undisturbed(u)
    BY <2>1, <2>3, <2>4, TaskAlone
  <2>7. /\ ~Public(t, i) /\ t \notin dangling /\ Stage(t) = Untouched
        /\ \A j \in Both : Private(t, j) <=> j = i
    BY <2>1, <2>i, Making
  <2>8. \A j \in Both : /\ Private(t, j)' <=> j = i
                        /\ Public(t, j)' <=> Public(t, j)
                        /\ Buffer(t, j)' = Buffer(t, j)
                        /\ j = i => Buffer(t, j)' = made /\ Buffer(t, j) = made
    BY <2>1, <2>c, <2>inv, <2>3, <2>5, <2>7 DEF Private, Public, Buffer
  <2>9. \A j \in Both : /\ HasPlace(t, j)' <=> HasPlace(t, j)
                        /\ HasPage(t, j)' <=> HasPage(t, j)
                        /\ MayHavePage(t, j)' <=> MayHavePage(t, j)
                        /\ j = i => HasPlace(t, j) /\ ~MayBeMapped(t, j) /\ MayBeMapped(t, j)'
                        /\ j # i => (IsMapped(t, j)' <=> IsMapped(t, j))
                        /\ j # i => (MayBeMapped(t, j)' <=> MayBeMapped(t, j))
                        /\ j # i => (Settled(t, j)' <=> Settled(t, j))
    <3>1. /\ app[t].pc = "map" /\ app'[t].pc = "publish" /\ app'[t].fb = app[t].fb /\ UNCHANGED dangling
      BY <2>1, <2>c, <2>3, <2>5
    <3>2. Stage(t)' = Untouched
      BY <2>5, <2>7
    <3> QED
      BY <2>7, <2>8, <3>1, <3>2, QuietTokens, QuietTokensAfter DEF Settled
  <2>own. PixelsOf(t, i) = made.slot
    BY <2>inv, <2>8 DEF PixelsOf
  <2>else. \A u \in Task : \A j \in Both : (u # t \/ j # i) /\ HasPlace(u, j) => PixelsOf(u, j) # made.slot
    BY <2>9, <2>own DEF FrameInv, PlaceInv
  <2>mmu. /\ mmu' = [mmu EXCEPT ![made.slot] = made.page] /\ mmu[made.slot] = NoPage
          /\ mmu' \in [Slot -> Page \cup {NoPage}]
          /\ \A s \in Slot : s # made.slot => mmu'[s] = mmu[s]
    BY <1>a, <2>1, <2>c, <2>inv, TypeFacts
  <2>6. \A u \in Task \ {t} : AppInv(u)' /\ \A j \in Both : Stays(u, j)
    <3>1. \A u \in Task \ {t} : Settled(u, 1) => mmu'[PixelsOf(u, 1)] = mmu[PixelsOf(u, 1)]
      BY <2>else, <2>mmu, TokenFacts, Constants
    <3> QED
      BY <2>5, <2>mmu, <3>1, OthersStay
  <2>10. \A j \in Both : /\ PlaceStays(t, j) /\ PageStays(t, j)
                         /\ j # i => MapStays(t, j) /\ SettledStays(t, j)
    BY <2>8, <2>9 DEF PlaceStays, PageStays, MapStays, SettledStays, PixelsOf, SlotOf, PageOf
  <2>11. FrameType'
    BY <2>1, <2>5, <2>mmu DEF FrameInv, FrameType
  <2>12. AppInv(t)'
    <3>1. /\ framebuffers[t][2] = Null
          /\ framebuffers[t][1] # Null <=> i = 2
          /\ framebuffers[t][1] # Null => framebuffers[t][1].slot = framebuffers[t][1].pixels
      BY <2>1, <2>i, <2>inv DEF AppInv
    <3>2. framebuffers'[t] = framebuffers[t] /\ Stage(t)' = Untouched /\ t \notin dangling'
      BY <2>1, <2>5, <2>7
    <3> QED
      BY <2>inv, <2>3, <2>5, <3>1, <3>2, Constants DEF AppInv, Untouched
  <2>13. DrawInv'
    BY <2>1, DrawStays
  <2>14. PlaceInv'
    BY <2>1, <2>6, <2>10, PlacesStay DEF FrameInv, Stays
  <2>15. PageInv'
    BY <2>1, <2>6, <2>10, PagesStay DEF Stays
  <2>16. MapInv'
    <3>1. SlotOf(t, i)' = made.slot /\ PageOf(t, i)' = made.page /\ PixelsOf(t, i)' = made.slot
      BY <2>inv, <2>8 DEF SlotOf, PageOf, PixelsOf
    <3>2. \A u \in Task : \A j \in Both : u # t \/ j # i => MapStays(u, j) /\ SettledStays(u, j)
      BY <2>6, <2>10 DEF Stays
    <3>3. \A u \in Task : \A j \in Both : u # t /\ Settled(u, j) => PixelsOf(u, j) # made.slot
      BY <2>else DEF Settled
    <3>4. PICK s \in Slot, q \in Page : s = made.slot /\ q = made.page
      BY <2>inv
    <3>5. MapPages(s, q) /\ mmu[s] = NoPage
      BY <2>mmu, <3>4 DEF MapPages
    <3>6. /\ ~MayBeMapped(t, i) /\ MayBeMapped(t, i)' /\ SlotOf(t, i)' = s /\ PageOf(t, i)' = q
          /\ SettledStays(t, i) \/ PixelsOf(t, i)' = s
      BY <2>9, <3>1, <3>4
    <3>7. \A u \in Task : \A j \in Both : u # t /\ Settled(u, j) => PixelsOf(u, j) # s
      BY <3>3, <3>4
    <3> QED
      BY <3>2, <3>5, <3>6, <3>7, MapIsMade
  <2> QED
    BY <2>6, <2>11, <2>12, <2>13, <2>14, <2>15, <2>16 DEF FrameInv
<1> QED
  BY <1>0, <1>a

LEMMA PublishKeeps == ASSUME FrameInv, NEW t \in Task, Publish(t) PROVE FrameInv'
<1>1. /\ app[t].pc = "publish"
      /\ framebuffers' = [framebuffers EXCEPT ![t][app[t].i] = app[t].fb]
      /\ app' = [app EXCEPT ![t] = IF app[t].i = 1 THEN [pc |-> "place", i |-> 2, fb |-> Null] ELSE Rest]
      /\ UNCHANGED <<compositor, dangling, gaveUp, kills, taken, given, mmu>>
  BY DEF Publish, At, AppOnly, pageVars
<1>i. PICK i \in Both : app[t].i = i
  BY <1>1, Making
<1>c. PICK made \in Partial : made = app[t].fb
  BY TypeFacts
<1>inv. /\ AppInv(t) /\ made # Null /\ made.page # NoPage /\ made.pixels # 0 /\ made.slot = made.pixels
        /\ made \in Framebuffer
  <2>1. AppInv(t) /\ made # Null /\ made.page # NoPage /\ made.pixels # 0 /\ made.slot = made.pixels
    BY <1>1, <1>c DEF FrameInv, AppInv
  <2> QED
    BY <2>1, Constants
<1>7. /\ ~Public(t, i) /\ t \notin dangling /\ Stage(t) = Untouched
      /\ \A j \in Both : Private(t, j) <=> j = i
  BY <1>1, <1>i, Making
<1> DEFINE new == IF i = 1 THEN [pc |-> "place", i |-> 2, fb |-> Null] ELSE Rest
<1>2. /\ new \in [pc : AppPc, i : 0..2, fb : Partial]
      /\ new.pc = (IF i = 1 THEN "place" ELSE "rest") /\ new.fb = Null
      /\ i = 1 => new.i = 2
  <2>1. CASE i = 1
    BY <2>1, Constants DEF AppPc
  <2>2. CASE i = 2
    BY <2>2, Constants DEF AppPc, Rest
  <2> QED
    BY <2>1, <2>2 DEF Both
<1>4. app' = [app EXCEPT ![t] = new]
  BY <1>1, <1>i, <1>2
<1> HIDE DEF new
<1>f. /\ framebuffers' \in [Task -> Pointer \X Pointer]
      /\ \A u \in Task \ {t} : framebuffers'[u] = framebuffers[u]
      /\ \A j \in Both : framebuffers'[t][j] = IF j = i THEN made ELSE framebuffers[t][j]
  <2>1. made \in Pointer
    BY <1>inv DEF Pointer
  <2>2. /\ framebuffers[t] \in Pointer \X Pointer
        /\ framebuffers' = [framebuffers EXCEPT ![t] = [framebuffers[t] EXCEPT ![i] = made]]
        /\ framebuffers \in [Task -> Pointer \X Pointer]
    BY <1>1, <1>i, <1>c, TypeFacts
  <2>3. /\ [framebuffers[t] EXCEPT ![i] = made] \in Pointer \X Pointer
        /\ \A j \in Both : [framebuffers[t] EXCEPT ![i] = made][j] = IF j = i THEN made ELSE framebuffers[t][j]
    BY <2>1, <2>2, Pairs
  <2> DEFINE pair == [framebuffers[t] EXCEPT ![i] = made]
  <2> HIDE DEF pair
  <2>4. framebuffers' = [framebuffers EXCEPT ![t] = pair]
    BY <2>2 DEF pair
  <2>5. pair \in Pointer \X Pointer /\ \A j \in Both : pair[j] = IF j = i THEN made ELSE framebuffers[t][j]
    BY <2>3 DEF pair
  <2> QED
    BY <2>2, <2>4, <2>5
<1>5. /\ app' \in [Task -> [pc : AppPc, i : 0..2, fb : Partial]] /\ app'[t] = new
      /\ \A u \in Task : Stage(u)' = Stage(u)
      /\ \A u \in Task \ {t} : Undisturbed(u)
  BY <1>1, <1>2, <1>f, <1>4, TaskAlone
<1>6. \A u \in Task \ {t} : AppInv(u)' /\ \A j \in Both : Stays(u, j)
  BY <1>1, <1>5, OthersStay, TypeFacts
<1>8. \A j \in Both : /\ ~Private(t, j)'
                      /\ Public(t, j)' <=> Public(t, j) \/ j = i
                      /\ Buffer(t, j)' = Buffer(t, j)
  BY <1>1, <1>2, <1>c, <1>f, <1>inv, <1>5, <1>7, Constants DEF Private, Public, Buffer
<1>9. \A j \in Both : /\ HasPlace(t, j)' <=> HasPlace(t, j)
                      /\ HasPage(t, j)' <=> HasPage(t, j)
                      /\ MayHavePage(t, j)' <=> MayHavePage(t, j)
                      /\ IsMapped(t, j)' <=> IsMapped(t, j)
                      /\ MayBeMapped(t, j)' <=> MayBeMapped(t, j)
                      /\ Settled(t, j)' <=> Settled(t, j)
  <2>1. /\ app[t].pc = "publish" /\ app'[t].pc \in {"place", "rest"} /\ app[t].fb.page # NoPage
        /\ UNCHANGED dangling
    BY <1>1, <1>2, <1>c, <1>inv, <1>5
  <2>2. Stage(t)' = Untouched
    BY <1>5, <1>7
  <2> QED
    BY <1>7, <1>8, <2>1, <2>2, QuietTokens, QuietTokensAfter DEF Settled
<1>10. \A j \in Both : Stays(t, j)
  BY <1>8, <1>9 DEF Stays, PlaceStays, PageStays, MapStays, SettledStays, PixelsOf, SlotOf, PageOf
<1>11. FrameType'
  BY <1>1, <1>5, <1>f DEF FrameInv, FrameType
<1>12. AppInv(t)'
  <2>1. /\ framebuffers[t][2] = Null
        /\ framebuffers[t][1] # Null <=> i = 2
        /\ framebuffers[t][1] # Null => framebuffers[t][1].slot = framebuffers[t][1].pixels
        /\ i \in {1, 2}
    BY <1>1, <1>i, <1>inv DEF AppInv, Both
  <2>2. /\ framebuffers'[t][1] = IF i = 1 THEN made ELSE framebuffers[t][1]
        /\ framebuffers'[t][2] = IF i = 2 THEN made ELSE framebuffers[t][2]
    BY <1>f, Constants
  <2>3. Stage(t)' = Untouched /\ t \notin dangling'
    BY <1>1, <1>5, <1>7
  <2> QED
    BY <1>inv, <1>2, <1>5, <2>1, <2>2, <2>3, Constants DEF AppInv, Untouched
<1>13. DrawInv'
  <2>1. framebuffers'[compositor.task][1] # framebuffers[compositor.task][1] =>
          compositor.task = t /\ i = 1 /\ ~Public(t, 1)
    BY <1>f, <1>7, TypeFacts, Constants
  <2> QED
    BY <1>1, <2>1, DrawStays
<1> QED
  BY <1>1, <1>6, <1>10, <1>11, <1>12, <1>13, AllKeep
-----------------------------------------------------------------------------
(* Freeing by the task, and requests.                                      *)
LEMMA NoPlaceKeeps == ASSUME FrameInv, NEW t \in Task, NoPlace(t) PROVE FrameInv'
<1>1. /\ app[t].pc = "place" /\ GiveUp(t)
      /\ UNCHANGED <<framebuffers, compositor, dangling, kills, taken, given, mmu>>
  BY DEF NoPlace, At, pageVars
<1>i. PICK i \in Both : app[t].i = i
  BY <1>1, Making
<1> DEFINE new == IF i = 1 THEN [pc |-> "rest", i |-> i, fb |-> Null]
                           ELSE [pc |-> "unmap", i |-> i, fb |-> framebuffers[t][1]]
<1>2. /\ new \in [pc : AppPc, i : 0..2, fb : Partial] /\ new.pc = (IF i = 1 THEN "rest" ELSE "unmap")
      /\ new.fb = IF i = 1 THEN Null ELSE framebuffers[t][1]
  <2>1. framebuffers[t][1] \in Partial
    BY TypeFacts, Constants
  <2> QED
    BY <2>1, Constants DEF AppPc, Both
<1>4. app' = [app EXCEPT ![t] = new] /\ gaveUp' = IF i = 1 THEN gaveUp ELSE gaveUp \cup {t}
  BY <1>1, <1>i DEF GiveUp, Becomes
<1> HIDE DEF new
<1>5. /\ app' \in [Task -> [pc : AppPc, i : 0..2, fb : Partial]] /\ app'[t] = new
      /\ \A u \in Task : Stage(u)' = Stage(u)
      /\ \A u \in Task \ {t} : Undisturbed(u)
  BY <1>1, <1>2, <1>4, TaskAlone
<1>6. \A u \in Task \ {t} : AppInv(u)' /\ \A j \in Both : Stays(u, j)
  BY <1>1, <1>5, OthersStay, TypeFacts
<1>7. ~Public(t, i) /\ t \notin dangling /\ Stage(t) = Untouched
  BY <1>1, <1>i, Making
<1>10. \A j \in Both : Stays(t, j)
  BY <1>1, <1>2, <1>5, PlainStays
<1>11. FrameType'
  BY <1>1, <1>4, <1>5 DEF FrameInv, FrameType
<1>12. AppInv(t)'
  <2>1. /\ framebuffers[t][2] = Null /\ app[t].i = i
        /\ framebuffers[t][1] # Null <=> i = 2
        /\ framebuffers[t][1] # Null => framebuffers[t][1].slot = framebuffers[t][1].pixels
        /\ i \in {1, 2}
    BY <1>1, <1>i DEF FrameInv, AppInv, Both
  <2>2. framebuffers'[t] = framebuffers[t] /\ Stage(t)' = Untouched /\ t \notin dangling'
    BY <1>1, <1>5, <1>7
  <2>3. i = 2 => framebuffers[t][1].pixels # 0
    BY <2>1, TypeFacts, Constants DEF Pointer
  <2>4. i = 2 => t \in gaveUp'
    BY <1>4
  <2> QED
    BY <1>2, <1>5, <2>1, <2>2, <2>3, <2>4, Constants DEF AppInv, Untouched
<1>13. DrawInv'
  BY <1>1, <1>4, DrawStays
<1> QED
  BY <1>1, <1>6, <1>10, <1>11, <1>12, <1>13, AllKeep

LEMMA NoPagesKeeps == ASSUME FrameInv, NEW t \in Task, NoPages(t) PROVE FrameInv'
<1>1. /\ app[t].pc = "pages" /\ GiveUp(t) /\ taken' = taken \ {app[t].fb.pixels}
      /\ UNCHANGED <<framebuffers, compositor, dangling, kills, given, mmu>>
  BY DEF NoPages, At, pageVars
<1>i. PICK i \in Both : app[t].i = i
  BY <1>1, Making
<1> DEFINE new == IF i = 1 THEN [pc |-> "rest", i |-> i, fb |-> Null]
                           ELSE [pc |-> "unmap", i |-> i, fb |-> framebuffers[t][1]]
<1>2. /\ new \in [pc : AppPc, i : 0..2, fb : Partial] /\ new.pc = (IF i = 1 THEN "rest" ELSE "unmap")
      /\ new.fb = IF i = 1 THEN Null ELSE framebuffers[t][1]
  <2>1. framebuffers[t][1] \in Partial
    BY TypeFacts, Constants
  <2> QED
    BY <2>1, Constants DEF AppPc, Both
<1>4. app' = [app EXCEPT ![t] = new] /\ gaveUp' = IF i = 1 THEN gaveUp ELSE gaveUp \cup {t}
  BY <1>1, <1>i DEF GiveUp, Becomes
<1> HIDE DEF new
<1>5. /\ app' \in [Task -> [pc : AppPc, i : 0..2, fb : Partial]] /\ app'[t] = new
      /\ \A u \in Task : Stage(u)' = Stage(u)
      /\ \A u \in Task \ {t} : Undisturbed(u)
  BY <1>1, <1>2, <1>4, TaskAlone
<1>6. \A u \in Task \ {t} : AppInv(u)' /\ \A j \in Both : Stays(u, j)
  BY <1>1, <1>5, OthersStay, TypeFacts
<1>7. /\ ~Public(t, i) /\ t \notin dangling /\ Stage(t) = Untouched
      /\ \A j \in Both : Private(t, j) <=> j = i
  BY <1>1, <1>i, Making
<1>inv. AppInv(t) /\ app[t].fb.page = NoPage
  BY <1>1 DEF FrameInv, AppInv
<1>8. \A j \in Both : /\ ~Private(t, j)'
                      /\ Public(t, j)' <=> Public(t, j)
                      /\ j # i => Buffer(t, j)' = Buffer(t, j)
                      /\ j = i => Buffer(t, j) = app[t].fb
  BY <1>1, <1>2, <1>5, <1>7 DEF Private, Public, Buffer
<1>9. \A j \in Both : /\ j # i => (HasPlace(t, j)' <=> HasPlace(t, j))
                      /\ j = i => HasPlace(t, j) /\ ~HasPlace(t, j)'
                      /\ HasPage(t, j)' <=> HasPage(t, j)
                      /\ MayHavePage(t, j)' <=> MayHavePage(t, j)
                      /\ IsMapped(t, j)' <=> IsMapped(t, j)
                      /\ MayBeMapped(t, j)' <=> MayBeMapped(t, j)
                      /\ MayBeMapped(t, j) \/ MayHavePage(t, j) \/ Settled(t, j)' => j # i
                      /\ Settled(t, j)' <=> Settled(t, j)
  <2>1. /\ app[t].pc = "pages" /\ app'[t].pc \in {"rest", "unmap"} /\ app[t].fb.page = NoPage
        /\ UNCHANGED dangling
    BY <1>1, <1>2, <1>5, <1>inv
  <2>2. Stage(t)' = Untouched
    BY <1>5, <1>7
  <2> QED
    BY <1>7, <1>8, <2>1, <2>2, QuietTokens, QuietTokensAfter DEF Settled
<1>10. \A j \in Both : /\ PageStays(t, j) /\ MapStays(t, j) /\ SettledStays(t, j)
                       /\ j # i => PlaceStays(t, j)
  BY <1>8, <1>9 DEF PlaceStays, PageStays, MapStays, SettledStays, PixelsOf, SlotOf, PageOf
<1>11. FrameType'
  BY <1>1, <1>4, <1>5 DEF FrameInv, FrameType
<1>12. AppInv(t)'
  <2>1. /\ framebuffers[t][2] = Null /\ app[t].i = i
        /\ framebuffers[t][1] # Null <=> i = 2
        /\ framebuffers[t][1] # Null => framebuffers[t][1].slot = framebuffers[t][1].pixels
        /\ i \in {1, 2}
    BY <1>1, <1>i DEF FrameInv, AppInv, Both
  <2>2. framebuffers'[t] = framebuffers[t] /\ Stage(t)' = Untouched /\ t \notin dangling'
    BY <1>1, <1>5, <1>7
  <2>3. i = 2 => framebuffers[t][1].pixels # 0
    BY <2>1, TypeFacts, Constants DEF Pointer
  <2>4. i = 2 => t \in gaveUp'
    BY <1>4
  <2> QED
    BY <1>2, <1>5, <2>1, <2>2, <2>3, <2>4, Constants DEF AppInv, Untouched
<1>13. DrawInv'
  BY <1>1, <1>4, DrawStays
<1>14. PlaceInv'
  <2>1. PixelsOf(t, i) = app[t].fb.pixels
    BY <1>8 DEF PixelsOf
  <2>2. taken' = taken \ {PixelsOf(t, i)} /\ HasPlace(t, i) /\ ~HasPlace(t, i)'
    BY <1>1, <1>9, <2>1
  <2> QED
    BY <1>6, <1>10, <2>2, PlaceIsLeft DEF FrameInv, Stays
<1>15. PageInv'
  BY <1>1, <1>6, <1>10, PagesStay DEF Stays
<1>16. MapInv'
  BY <1>1, <1>6, <1>10, MapsStay DEF Stays
<1> QED
  BY <1>6, <1>11, <1>12, <1>13, <1>14, <1>15, <1>16 DEF FrameInv

LEMMA AsksKeeps ==
    ASSUME FrameInv, NEW t \in Task, Present(t) \/ Destroy(t) PROVE FrameInv'
<1>1. PICK request \in {"swap", "destroy"} :
        /\ app[t].pc = "rest" /\ app' = [app EXCEPT ![t].pc = request]
        /\ request = "swap" => framebuffers[t][2] # Null
        /\ UNCHANGED <<framebuffers, compositor, dangling, gaveUp, kills, taken, given, mmu>>
  BY DEF Present, Destroy, Asks, At, AppOnly, pageVars
<1> DEFINE new == [app[t] EXCEPT !.pc = request]
<1>2. /\ new \in [pc : AppPc, i : 0..2, fb : Partial] /\ new.pc = request
      /\ new.i = app[t].i /\ new.fb = app[t].fb
  BY TypeFacts DEF AppPc
<1>4. app' = [app EXCEPT ![t] = new]
  BY <1>1
<1> HIDE DEF new
<1>5. /\ app' \in [Task -> [pc : AppPc, i : 0..2, fb : Partial]] /\ app'[t] = new
      /\ \A u \in Task : Stage(u)' = Stage(u)
      /\ \A u \in Task \ {t} : Undisturbed(u)
  BY <1>1, <1>2, <1>4, TaskAlone
<1>6. \A u \in Task \ {t} : AppInv(u)' /\ \A j \in Both : Stays(u, j)
  BY <1>1, <1>5, OthersStay, TypeFacts
<1>10. \A j \in Both : Stays(t, j)
  BY <1>1, <1>2, <1>5, PlainStays
<1>11. FrameType'
  BY <1>1, <1>4, <1>5 DEF FrameInv, FrameType
<1>12. AppInv(t)'
  <2>1. Stage(t) = Untouched /\ AppInv(t)
    BY <1>1, AppIsAlone DEF FrameInv
  <2>2. framebuffers'[t] = framebuffers[t] /\ Stage(t)' = Untouched /\ t \notin dangling'
    BY <1>1, <1>5, <2>1 DEF AppInv
  <2> QED
    BY <1>1, <1>2, <1>5, <2>1, <2>2, Constants DEF AppInv, Untouched
<1>13. DrawInv'
  BY <1>1, DrawStays
<1> QED
  BY <1>1, <1>6, <1>10, <1>11, <1>12, <1>13, AllKeep

(* A task that frees its first framebuffer has no other.                   *)
LEMMA Cleans ==
    ASSUME FrameInv, NEW t \in Task, app[t].pc \in {"unmap", "return", "leave", "clear"}
    PROVE  /\ Stage(t) = Untouched /\ t \in gaveUp
           /\ Public(t, 1) /\ ~Public(t, 2)
           /\ \A j \in Both : ~Private(t, j) /\ Buffer(t, j) = framebuffers[t][j]
           /\ framebuffers[t][1] \in Framebuffer /\ framebuffers[t][2] = Null
           /\ framebuffers[t][1].slot = framebuffers[t][1].pixels
           /\ app[t].pc # "clear" => app[t].fb = framebuffers[t][1]
           /\ t \in dangling <=> app[t].pc = "clear"
<1>1. AppInv(t) /\ Stage(t) = Untouched /\ framebuffers[t][1] \in Pointer
  BY AppIsAlone, TypeFacts DEF FrameInv
<1>2. \A j \in Both : ~Private(t, j) /\ Buffer(t, j) = framebuffers[t][j]
  BY DEF Private, Buffer
<1> QED
  BY <1>1, <1>2 DEF AppInv, Public, Pointer

LEMMA CleanUnmapKeeps == ASSUME FrameInv, NEW t \in Task, CleanUnmap(t) PROVE FrameInv'
<1> DEFINE fb == framebuffers[t][1]
           new == [pc |-> "return", i |-> app[t].i, fb |-> app[t].fb]
<1>1. /\ app[t].pc = "unmap" /\ UnmapPages(app[t].fb.slot) /\ app' = [app EXCEPT ![t] = new]
      /\ UNCHANGED <<framebuffers, compositor, dangling, gaveUp, kills, taken, given>>
  BY DEF CleanUnmap, At, AppOnly, Becomes
<1>2. /\ new \in [pc : AppPc, i : 0..2, fb : Partial] /\ new.pc = "return" /\ new.fb = app[t].fb
  BY TypeFacts DEF AppPc
<1> HIDE DEF new
<1>5. /\ app' \in [Task -> [pc : AppPc, i : 0..2, fb : Partial]] /\ app'[t] = new
      /\ \A u \in Task : Stage(u)' = Stage(u)
      /\ \A u \in Task \ {t} : Undisturbed(u)
  BY <1>1, <1>2, TaskAlone
<1>7. /\ Stage(t) = Untouched /\ t \in gaveUp /\ t \notin dangling
      /\ Public(t, 1) /\ ~Public(t, 2) /\ fb \in Framebuffer /\ framebuffers[t][2] = Null
      /\ \A j \in Both : ~Private(t, j) /\ Buffer(t, j) = framebuffers[t][j]
      /\ app[t].fb = fb /\ fb.slot = fb.pixels
  BY <1>1, Cleans
<1>8. \A j \in Both : /\ ~Private(t, j)'
                      /\ Public(t, j)' <=> Public(t, j)
                      /\ Buffer(t, j)' = Buffer(t, j)
  BY <1>1, <1>2, <1>5, <1>7 DEF Private, Public, Buffer
<1>9. \A j \in Both : /\ HasPlace(t, j)' <=> HasPlace(t, j)
                      /\ HasPage(t, j)' <=> HasPage(t, j)
                      /\ MayHavePage(t, j)' <=> MayHavePage(t, j)
                      /\ IsMapped(t, j) <=> j = 1
                      /\ ~IsMapped(t, j)' /\ ~MayBeMapped(t, j)'
                      /\ MayBeMapped(t, j) <=> j = 1
                      /\ Settled(t, j)' <=> Settled(t, j)
  <2>1. app[t].pc = "unmap" /\ app'[t].pc = "return" /\ UNCHANGED dangling
    BY <1>1, <1>2, <1>5
  <2>2. Stage(t)' = Untouched /\ \A j \in Both : Public(t, j) <=> j = 1
    BY <1>5, <1>7 DEF Both
  <2> QED
    BY <1>7, <1>8, <2>1, <2>2, QuietTokens, QuietTokensAfter DEF Settled
<1>own. SlotOf(t, 1) = fb.slot /\ PixelsOf(t, 1) = fb.slot /\ HasPlace(t, 1) /\ fb.slot \in Slot
  <2>1. HasPlace(t, 1)
    BY <1>1, <1>7, QuietTokens, Constants
  <2> QED
    BY <1>7, <2>1, Constants DEF SlotOf, PixelsOf
<1>mmu. /\ UnmapPages(SlotOf(t, 1)) /\ mmu' \in [Slot -> Page \cup {NoPage}]
        /\ \A s \in Slot : s # fb.slot => mmu'[s] = mmu[s]
  BY <1>1, <1>7, <1>own, TypeFacts DEF UnmapPages
<1>6. \A u \in Task \ {t} : AppInv(u)' /\ \A j \in Both : Stays(u, j)
  <2>1. \A u \in Task \ {t} : Settled(u, 1) => mmu'[PixelsOf(u, 1)] = mmu[PixelsOf(u, 1)]
    <3> SUFFICES ASSUME NEW u \in Task \ {t}, Settled(u, 1)
                 PROVE  PixelsOf(u, 1) \in Slot /\ PixelsOf(u, 1) # fb.slot
      BY <1>mmu
    <3>1. HasPlace(u, 1) /\ PixelsOf(u, 1) \in Slot
      BY TokenFacts, Constants
    <3> QED
      BY <1>own, <3>1, Constants DEF FrameInv, PlaceInv
  <2> QED
    BY <1>5, <1>mmu, <2>1, OthersStay
<1>10. \A j \in Both : /\ PlaceStays(t, j) /\ PageStays(t, j) /\ SettledStays(t, j)
                       /\ j # 1 => MapStays(t, j)
  BY <1>8, <1>9 DEF PlaceStays, PageStays, MapStays, SettledStays, PixelsOf, SlotOf, PageOf
<1>11. FrameType'
  BY <1>1, <1>5, <1>mmu DEF FrameInv, FrameType
<1>12. AppInv(t)'
  <2>1. framebuffers'[t] = framebuffers[t] /\ Stage(t)' = Untouched /\ t \notin dangling' /\ t \in gaveUp'
    BY <1>1, <1>5, <1>7
  <2> QED
    BY <1>2, <1>5, <1>7, <2>1, Constants DEF AppInv, Untouched
<1>13. DrawInv'
  BY <1>1, DrawStays
<1>14. PlaceInv'
  BY <1>1, <1>6, <1>10, PlacesStay DEF FrameInv, Stays
<1>15. PageInv'
  BY <1>1, <1>6, <1>10, PagesStay DEF Stays
<1>16. MapInv'
  <2>1. \A u \in Task : \A j \in Both : /\ u # t \/ j # 1 => MapStays(u, j)
                                        /\ SettledStays(u, j)
    BY <1>6, <1>10 DEF Stays
  <2>2. IsMapped(t, 1) /\ ~IsMapped(t, 1)'
    BY <1>9, Constants
  <2> QED
    BY <1>mmu, <2>1, <2>2, MapIsUndone, Constants
<1> QED
  BY <1>6, <1>11, <1>12, <1>13, <1>14, <1>15, <1>16 DEF FrameInv

LEMMA CleanReturnKeeps == ASSUME FrameInv, NEW t \in Task, CleanReturn(t) PROVE FrameInv'
<1> DEFINE fb == framebuffers[t][1]
           new == [pc |-> "leave", i |-> app[t].i, fb |-> app[t].fb]
<1>1. /\ app[t].pc = "return" /\ given' = given \ {app[t].fb.page} /\ app' = [app EXCEPT ![t] = new]
      /\ UNCHANGED <<framebuffers, compositor, dangling, gaveUp, kills, taken, mmu>>
  BY DEF CleanReturn, At, AppOnly, Becomes
<1>2. /\ new \in [pc : AppPc, i : 0..2, fb : Partial] /\ new.pc = "leave" /\ new.fb = app[t].fb
  BY TypeFacts DEF AppPc
<1> HIDE DEF new
<1>5. /\ app' \in [Task -> [pc : AppPc, i : 0..2, fb : Partial]] /\ app'[t] = new
      /\ \A u \in Task : Stage(u)' = Stage(u)
      /\ \A u \in Task \ {t} : Undisturbed(u)
  BY <1>1, <1>2, TaskAlone
<1>6. \A u \in Task \ {t} : AppInv(u)' /\ \A j \in Both : Stays(u, j)
  BY <1>1, <1>5, OthersStay, TypeFacts
<1>7. /\ Stage(t) = Untouched /\ t \in gaveUp /\ t \notin dangling
      /\ Public(t, 1) /\ ~Public(t, 2) /\ fb \in Framebuffer /\ framebuffers[t][2] = Null
      /\ \A j \in Both : ~Private(t, j) /\ Buffer(t, j) = framebuffers[t][j]
      /\ app[t].fb = fb /\ fb.slot = fb.pixels
  BY <1>1, Cleans
<1>8. \A j \in Both : /\ ~Private(t, j)'
                      /\ Public(t, j)' <=> Public(t, j)
                      /\ Buffer(t, j)' = Buffer(t, j)
  BY <1>1, <1>2, <1>5, <1>7 DEF Private, Public, Buffer
<1>9. \A j \in Both : /\ HasPlace(t, j)' <=> HasPlace(t, j)
                      /\ HasPage(t, j) <=> j = 1
                      /\ ~HasPage(t, j)' /\ ~MayHavePage(t, j)'
                      /\ MayHavePage(t, j) <=> j = 1
                      /\ IsMapped(t, j)' <=> IsMapped(t, j)
                      /\ MayBeMapped(t, j)' <=> MayBeMapped(t, j)
                      /\ Settled(t, j)' <=> Settled(t, j)
  <2>1. app[t].pc = "return" /\ app'[t].pc = "leave" /\ UNCHANGED dangling
    BY <1>1, <1>2, <1>5
  <2>2. Stage(t)' = Untouched /\ \A j \in Both : Public(t, j) <=> j = 1
    BY <1>5, <1>7 DEF Both
  <2> QED
    BY <1>7, <1>8, <2>1, <2>2, QuietTokens, QuietTokensAfter DEF Settled
<1>10. \A j \in Both : /\ PlaceStays(t, j) /\ MapStays(t, j) /\ SettledStays(t, j)
                       /\ j # 1 => PageStays(t, j)
  BY <1>8, <1>9 DEF PlaceStays, PageStays, MapStays, SettledStays, PixelsOf, SlotOf, PageOf
<1>11. FrameType'
  BY <1>1, <1>5 DEF FrameInv, FrameType
<1>12. AppInv(t)'
  <2>1. framebuffers'[t] = framebuffers[t] /\ Stage(t)' = Untouched /\ t \notin dangling' /\ t \in gaveUp'
    BY <1>1, <1>5, <1>7
  <2> QED
    BY <1>2, <1>5, <1>7, <2>1, Constants DEF AppInv, Untouched
<1>13. DrawInv'
  BY <1>1, DrawStays
<1>14. PlaceInv'
  BY <1>1, <1>6, <1>10, PlacesStay DEF FrameInv, Stays
<1>15. PageInv'
  <2>1. PageOf(t, 1) = app[t].fb.page
    BY <1>7, Constants DEF PageOf
  <2>2. given' = given \ {PageOf(t, 1)} /\ HasPage(t, 1) /\ ~HasPage(t, 1)'
    BY <1>1, <1>9, <2>1, Constants
  <2> QED
    BY <1>6, <1>10, <2>2, PageIsReturned, Constants DEF Stays
<1>16. MapInv'
  BY <1>1, <1>6, <1>10, MapsStay DEF Stays
<1> QED
  BY <1>6, <1>11, <1>12, <1>13, <1>14, <1>15, <1>16 DEF FrameInv

LEMMA CleanLeaveKeeps == ASSUME FrameInv, NEW t \in Task, CleanLeave(t) PROVE FrameInv'
<1> DEFINE fb == framebuffers[t][1]
           new == [pc |-> "clear", i |-> app[t].i, fb |-> Null]
<1>1. /\ app[t].pc = "leave" /\ taken' = taken \ {app[t].fb.pixels} /\ app' = [app EXCEPT ![t] = new]
      /\ dangling' = dangling \cup {t}
      /\ compositor' = IF compositor.pc = "draw" /\ compositor.task = t
                       THEN [compositor EXCEPT !.pc = "drawfreed"] ELSE compositor
      /\ UNCHANGED <<framebuffers, gaveUp, kills, given, mmu>>
  BY DEF CleanLeave, At, Becomes, pageVars
<1>2. /\ new \in [pc : AppPc, i : 0..2, fb : Partial] /\ new.pc = "clear" /\ new.fb = Null
  BY TypeFacts DEF AppPc
<1> HIDE DEF new
<1>c. /\ compositor' \in [pc : {"idle", "draw", "drawfreed", "second", "exchange", "last",
                                "free", "freepages", "freeplace", "done"},
                          task : Task, i : 0..2, fb : Pointer]
      /\ compositor'.task = compositor.task
      /\ compositor' # compositor => compositor'.pc = "drawfreed" /\ compositor.pc = "draw" /\ compositor.task = t
  BY <1>1, TypeFacts
<1>5. /\ app' \in [Task -> [pc : AppPc, i : 0..2, fb : Partial]] /\ app'[t] = new
      /\ \A u \in Task : Stage(u)' = Stage(u)
      /\ \A u \in Task \ {t} : Undisturbed(u)
  <2>1. /\ app' \in [Task -> [pc : AppPc, i : 0..2, fb : Partial]] /\ app'[t] = new
        /\ \A u \in Task \ {t} : app'[u] = app[u]
    BY <1>1, <1>2, TypeFacts
  <2>2. \A u \in Task : Stage(u)' = Stage(u)
    BY <1>c DEF Stage
  <2> QED
    BY <1>1, <2>1, <2>2 DEF Undisturbed
<1>6. \A u \in Task \ {t} : AppInv(u)' /\ \A j \in Both : Stays(u, j)
  BY <1>1, <1>5, OthersStay, TypeFacts
<1>7. /\ Stage(t) = Untouched /\ t \in gaveUp /\ t \notin dangling
      /\ Public(t, 1) /\ ~Public(t, 2) /\ fb \in Framebuffer /\ framebuffers[t][2] = Null
      /\ \A j \in Both : ~Private(t, j) /\ Buffer(t, j) = framebuffers[t][j]
      /\ app[t].fb = fb /\ fb.slot = fb.pixels
  BY <1>1, Cleans
<1>8. \A j \in Both : /\ ~Private(t, j)'
                      /\ Public(t, j)' <=> Public(t, j)
                      /\ Buffer(t, j)' = Buffer(t, j)
  BY <1>1, <1>2, <1>5, <1>7 DEF Private, Public, Buffer
<1>9. \A j \in Both : /\ HasPlace(t, j) <=> j = 1
                      /\ ~HasPlace(t, j)'
                      /\ HasPage(t, j)' <=> HasPage(t, j)
                      /\ MayHavePage(t, j)' <=> MayHavePage(t, j)
                      /\ IsMapped(t, j)' <=> IsMapped(t, j)
                      /\ MayBeMapped(t, j)' <=> MayBeMapped(t, j)
                      /\ ~Settled(t, j)'
  <2>1. app[t].pc = "leave" /\ app'[t].pc = "clear" /\ t \in dangling'
    BY <1>1, <1>2, <1>5
  <2>2. Stage(t)' = Untouched /\ \A j \in Both : Public(t, j) <=> j = 1
    BY <1>5, <1>7 DEF Both
  <2> QED
    BY <1>7, <1>8, <2>1, <2>2, QuietTokens, QuietTokensAfter DEF Settled
<1>10. \A j \in Both : /\ PageStays(t, j) /\ MapStays(t, j) /\ SettledStays(t, j)
                       /\ j # 1 => PlaceStays(t, j)
  BY <1>8, <1>9 DEF PlaceStays, PageStays, MapStays, SettledStays, PixelsOf, SlotOf, PageOf
<1>11. FrameType'
  BY <1>1, <1>5, <1>7, <1>c DEF FrameInv, FrameType
<1>12. AppInv(t)'
  <2>1. framebuffers'[t] = framebuffers[t] /\ Stage(t)' = Untouched /\ t \in gaveUp' /\ t \in dangling'
    BY <1>1, <1>5, <1>7
  <2> QED
    BY <1>2, <1>5, <1>7, <2>1, Constants DEF AppInv, Untouched
<1>13. DrawInv'
  BY <1>1, <1>7, <1>c DEF FrameInv, DrawInv, Public
<1>14. PlaceInv'
  <2>1. PixelsOf(t, 1) = app[t].fb.pixels
    BY <1>7, Constants DEF PixelsOf
  <2>2. taken' = taken \ {PixelsOf(t, 1)} /\ HasPlace(t, 1) /\ ~HasPlace(t, 1)'
    BY <1>1, <1>9, <2>1, Constants
  <2> QED
    BY <1>6, <1>10, <2>2, PlaceIsLeft, Constants DEF FrameInv, Stays
<1>15. PageInv'
  BY <1>1, <1>6, <1>10, PagesStay DEF Stays
<1>16. MapInv'
  BY <1>1, <1>6, <1>10, MapsStay DEF Stays
<1> QED
  BY <1>6, <1>11, <1>12, <1>13, <1>14, <1>15, <1>16 DEF FrameInv

LEMMA CleanClearKeeps == ASSUME FrameInv, NEW t \in Task, CleanClear(t) PROVE FrameInv'
<1>1. /\ app[t].pc = "clear" /\ app' = [app EXCEPT ![t] = Rest]
      /\ framebuffers' = [framebuffers EXCEPT ![t][1] = Null]
      /\ dangling' = dangling \ {t}
      /\ UNCHANGED <<compositor, gaveUp, kills, taken, given, mmu>>
  BY DEF CleanClear, At, pageVars
<1>2. Rest \in [pc : AppPc, i : 0..2, fb : Partial] /\ Rest.pc = "rest" /\ Rest.fb = Null
  BY Constants DEF AppPc, Rest
<1>f. /\ framebuffers' \in [Task -> Pointer \X Pointer]
      /\ \A u \in Task \ {t} : framebuffers'[u] = framebuffers[u]
      /\ framebuffers'[t][1] = Null /\ framebuffers'[t][2] = framebuffers[t][2]
  <2> DEFINE pair == [framebuffers[t] EXCEPT ![1] = Null]
  <2>1. pair \in Pointer \X Pointer /\ pair[1] = Null /\ pair[2] = framebuffers[t][2]
    BY TypeFacts, Pairs, Constants
  <2>2. framebuffers' = [framebuffers EXCEPT ![t] = pair]
    BY <1>1
  <2> HIDE DEF pair
  <2> QED
    BY <2>1, <2>2, TypeFacts
<1>5. /\ app' \in [Task -> [pc : AppPc, i : 0..2, fb : Partial]] /\ app'[t] = Rest
      /\ \A u \in Task : Stage(u)' = Stage(u)
      /\ \A u \in Task \ {t} : Undisturbed(u)
  <2>1. /\ app' \in [Task -> [pc : AppPc, i : 0..2, fb : Partial]] /\ app'[t] = Rest
        /\ \A u \in Task \ {t} : app'[u] = app[u]
    BY <1>1, <1>2, TypeFacts
  <2>2. \A u \in Task : Stage(u)' = Stage(u)
    BY <1>1 DEF Stage
  <2> QED
    BY <1>1, <1>f, <2>1, <2>2 DEF Undisturbed
<1>6. \A u \in Task \ {t} : AppInv(u)' /\ \A j \in Both : Stays(u, j)
  BY <1>1, <1>5, OthersStay, TypeFacts
<1>7. /\ Stage(t) = Untouched /\ t \in gaveUp /\ t \in dangling
      /\ Public(t, 1) /\ ~Public(t, 2) /\ framebuffers[t][2] = Null
      /\ \A j \in Both : ~Private(t, j)
  BY <1>1, Cleans
<1>8. \A j \in Both : /\ ~Private(t, j)' /\ ~Public(t, j)'
  BY <1>1, <1>2, <1>f, <1>5, <1>7 DEF Private, Public, Both
<1>9. \A j \in Both : /\ ~HasPlace(t, j) /\ ~HasPlace(t, j)'
                      /\ ~HasPage(t, j)' /\ ~MayHavePage(t, j)
                      /\ ~IsMapped(t, j)' /\ ~MayBeMapped(t, j)
                      /\ ~Settled(t, j)'
  <2>1. app[t].pc = "clear" /\ app'[t].pc = "rest"
    BY <1>1, <1>2, <1>5
  <2>2. Stage(t)' = Untouched /\ \A j \in Both : Public(t, j) <=> j = 1
    BY <1>5, <1>7 DEF Both
  <2> QED
    BY <1>7, <1>8, <2>1, <2>2, QuietTokens, QuietTokensAfter DEF Settled
<1>10. \A j \in Both : Stays(t, j)
  BY <1>9 DEF Stays, PlaceStays, PageStays, MapStays, SettledStays
<1>11. FrameType'
  BY <1>1, <1>5, <1>f DEF FrameInv, FrameType
<1>12. AppInv(t)'
  <2>1. Stage(t)' = Untouched /\ t \notin dangling'
    BY <1>1, <1>5, <1>7
  <2> QED
    BY <1>2, <1>5, <1>7, <1>f, <2>1, Constants DEF AppInv, Untouched
<1>13. DrawInv'
  <2>1. compositor.task # t => framebuffers'[compositor.task] = framebuffers[compositor.task]
    BY <1>f, TypeFacts
  <2> QED
    BY <1>1, <1>7, <2>1, DrawStays
<1> QED
  BY <1>1, <1>6, <1>10, <1>11, <1>12, <1>13, AllKeep
-----------------------------------------------------------------------------
(* A kill leaves everything where it is.  What matters is whether the first*)
(* framebuffer is mapped: only a cleaning that unmapped it left its place  *)
(* empty, for nobody else maps a place that is not his.                    *)
LEMMA FirstIsMapped ==
    ASSUME FrameInv, NEW t \in Task, Stage(t) = Untouched, Public(t, 1), t \notin dangling,
           app[t].pc \notin {"return", "leave", "killed", "gone"}
    PROVE  mmu[framebuffers[t][1].slot] # NoPage
<1>1. ~Private(t, 1)
  BY DEF FrameInv, AppInv, Private, Public
<1>2. IsMapped(t, 1) /\ SlotOf(t, 1) = framebuffers[t][1].slot
  BY <1>1, QuietTokens, Constants DEF SlotOf, Buffer
<1>3. mmu[SlotOf(t, 1)] = PageOf(t, 1) /\ PageOf(t, 1) \in Page
  BY <1>2, TokenFacts, Constants DEF FrameInv, MapInv
<1> QED
  BY <1>2, <1>3, Constants

(* A place that belongs to a framebuffer is empty, unless its own window   *)
(* mapped something there.                                                 *)
LEMMA EmptyPlace ==
    ASSUME FrameInv, NEW t \in Task, NEW k \in Both, Settled(t, k),
           \A j \in Both : MayBeMapped(t, j) => SlotOf(t, j) # PixelsOf(t, k)
    PROVE  mmu[PixelsOf(t, k)] = NoPage
<1> DEFINE s == PixelsOf(t, k)
<1>1. s \in Slot /\ HasPlace(t, k)
  BY TokenFacts
<1>2. ASSUME mmu[s] # NoPage PROVE FALSE
  <2>1. PICK u \in Task : \E j \in Both : MayBeMapped(u, j) /\ SlotOf(u, j) = s
    BY <1>1, <1>2 DEF FrameInv, MapInv
  <2>2. PICK j \in Both : MayBeMapped(u, j) /\ SlotOf(u, j) = s
    BY <2>1
  <2>3. u # t
    BY <2>2
  <2>4. ~IsMapped(u, j)
    BY <2>2, <2>3 DEF FrameInv, MapInv
  <2>5. Private(u, j)
    BY <2>2, <2>4 DEF MayBeMapped
  <2>6. HasPlace(u, j) /\ PixelsOf(u, j) = s
    <3>1. app[u].fb.slot = app[u].fb.pixels
      BY <2>5 DEF FrameInv, AppInv, Private
    <3>2. PixelsOf(u, j) = app[u].fb.pixels /\ SlotOf(u, j) = app[u].fb.slot
      BY <2>5 DEF PixelsOf, SlotOf, Buffer
    <3> QED
      BY <2>2, <2>5, <3>1, <3>2 DEF HasPlace
  <2> QED
    BY <1>1, <2>3, <2>6 DEF FrameInv, PlaceInv
<1> QED
  BY <1>2

LEMMA FirstIsUnmapped ==
    ASSUME FrameInv, NEW t \in Task, app[t].pc \in {"return", "leave"}
    PROVE  mmu[framebuffers[t][1].slot] = NoPage
<1> DEFINE s == framebuffers[t][1].slot
<1>1. /\ Stage(t) = Untouched /\ Public(t, 1) /\ ~Public(t, 2) /\ t \notin dangling
      /\ framebuffers[t][1] \in Framebuffer /\ s = framebuffers[t][1].pixels
      /\ \A j \in Both : ~Private(t, j) /\ Buffer(t, j) = framebuffers[t][j]
  BY Cleans
<1>2. Settled(t, 1) /\ PixelsOf(t, 1) = s
  BY <1>1, QuietTokens, Constants DEF PixelsOf, Settled
<1>3. \A j \in Both : ~MayBeMapped(t, j)
  BY <1>1, QuietTokens DEF Both
<1> QED
  BY <1>2, <1>3, EmptyPlace, Constants

(* A call that is left where it is, in another state.                      *)
LEMMA AppStep ==
    ASSUME NEW r \in [pc : AppPc, i : 0..2, fb : Partial], NEW p \in AppPc, NEW f \in Partial
    PROVE  \E n \in [pc : AppPc, i : 0..2, fb : Partial] :
             /\ n = [r EXCEPT !.pc = p, !.fb = f]
             /\ n.pc = p /\ n.i = r.i /\ n.fb = f
<1>1. PICK m : m = [r EXCEPT !.pc = p]
  OBVIOUS
<1>2. m \in [pc : AppPc, i : 0..2, fb : Partial] /\ m.pc = p /\ m.i = r.i
  BY <1>1
<1>3. PICK n : n = [m EXCEPT !.fb = f]
  OBVIOUS
<1>4. n \in [pc : AppPc, i : 0..2, fb : Partial] /\ n.pc = p /\ n.i = r.i /\ n.fb = f
  BY <1>2, <1>3
<1>5. n = [r EXCEPT !.pc = p, !.fb = f]
  BY <1>1, <1>3, Zenon
<1> QED
  BY <1>4, <1>5

LEMMA KillKeeps == ASSUME FrameInv, NEW t \in Task, Kill(t) PROVE FrameInv'
<1> DEFINE pc == app[t].pc
           keeps == pc \in {"pages", "map", "publish"}
           new == [app[t] EXCEPT !.pc = IF pc = "swap" THEN "killedswap" ELSE "killed",
                                 !.fb = IF keeps THEN app[t].fb ELSE Null]
<1>1. /\ pc \in {"rest", "place", "pages", "map", "publish", "unmap", "return", "leave", "clear", "swap"}
      /\ kills < MaxKills /\ kills' = kills + 1
      /\ UNCHANGED <<framebuffers, compositor, dangling, gaveUp, taken, given, mmu>>
  <2>1. pc \in AppPc
    BY TypeFacts
  <2> QED
    BY <2>1 DEF Kill, pageVars, AppPc
<1>2. /\ new \in [pc : AppPc, i : 0..2, fb : Partial] /\ new.i = app[t].i
      /\ new.pc = (IF pc = "swap" THEN "killedswap" ELSE "killed")
      /\ new.fb = (IF keeps THEN app[t].fb ELSE Null)
  <2>1. app[t] \in [pc : AppPc, i : 0..2, fb : Partial] /\ Null \in Partial
    BY TypeFacts, Constants
  <2>2. /\ (IF pc = "swap" THEN "killedswap" ELSE "killed") \in AppPc
        /\ (IF keeps THEN app[t].fb ELSE Null) \in Partial
    BY <2>1 DEF AppPc
  <2> QED
    BY <2>1, <2>2, AppStep, Zenon
<1>4. app' = [app EXCEPT ![t] = new]
  BY TypeFacts DEF Kill
<1> HIDE DEF new
<1>5. /\ app' \in [Task -> [pc : AppPc, i : 0..2, fb : Partial]] /\ app'[t] = new
      /\ \A u \in Task : Stage(u)' = Stage(u)
      /\ \A u \in Task \ {t} : Undisturbed(u)
  BY <1>1, <1>2, <1>4, TaskAlone
<1>6. \A u \in Task \ {t} : AppInv(u)' /\ \A j \in Both : Stays(u, j)
  BY <1>1, <1>5, OthersStay, TypeFacts
<1>inv. AppInv(t)
  BY DEF FrameInv
<1>8. \A j \in Both : /\ Private(t, j)' <=> Private(t, j)
                      /\ Public(t, j)' <=> Public(t, j)
                      /\ Buffer(t, j)' = Buffer(t, j)
                      /\ TakenApart(t, j)' <=> TakenApart(t, j)
                      /\ Displaced(t, j)' <=> Displaced(t, j)
                      /\ \A pcs : Parting(t, j, pcs)' <=> Parting(t, j, pcs)
  <2>1. \A j \in Both : Private(t, j) => keeps
    BY <1>1 DEF Private
  <2>2. \A j \in Both : Private(t, j)' <=> Private(t, j)
    BY <1>1, <1>2, <1>5, <2>1 DEF Private
  <2> QED
    BY <1>1, <1>2, <1>5, <2>1, <2>2 DEF Private, Public, Buffer, TakenApart, Displaced, Parting
<1>d. pc = "swap" \/ Stage(t) = Untouched
  BY <1>1, AppIsAlone
<1>9. ~Doubtful(t) /\ (Doubtful(t)' <=> pc \in {"return", "leave"})
  <2>0. ~Doubtful(t)
    BY <1>1 DEF Doubtful
  <2>1. CASE pc \in {"return", "leave"}
    <3>1. /\ Public(t, 1) /\ ~Public(t, 2) /\ t \in gaveUp \ dangling /\ Stage(t) = Untouched
          /\ mmu[framebuffers[t][1].slot] = NoPage
      BY <2>1, Cleans, FirstIsUnmapped
    <3>2. ~TakenApart(t, 1) /\ ~Parting(t, 1, {"freepages", "freeplace"})
      BY <3>1 DEF TakenApart, Parting, Untouched
    <3>3. app'[t].pc = "killed"
      BY <1>2, <1>5, <2>1
    <3> QED
      BY <1>1, <1>8, <2>0, <2>1, <3>1, <3>2, <3>3, Constants DEF Doubtful
  <2>2. CASE pc \notin {"return", "leave"}
    <3>1. ASSUME Doubtful(t)' PROVE FALSE
      <4>1. /\ t \notin dangling /\ app'[t].pc = "killed" /\ Public(t, 1)
            /\ mmu[framebuffers[t][1].slot] = NoPage
        BY <1>1, <1>8, <3>1, Constants DEF Doubtful
      <4>2. pc # "swap"
        BY <1>2, <1>5, <4>1
      <4> QED
        BY <1>1, <1>d, <2>2, <4>1, <4>2, FirstIsMapped
    <3> QED
      BY <2>0, <2>2, <3>1
  <2> QED
    BY <2>1, <2>2
<1>in. pc \in {"return", "leave"} => Stage(t) = Untouched /\ ~Public(t, 2)
  BY Cleans
<1>10. \A j \in Both : PlaceStays(t, j)
  BY <1>1, <1>8 DEF PlaceStays, HasPlace, PixelsOf
<1>pc. app'[t].pc = (IF pc = "swap" THEN "killedswap" ELSE "killed") /\ app'[t].fb = (IF keeps THEN app[t].fb ELSE Null)
  BY <1>2, <1>5
<1>fb. \A j \in Both : Private(t, j) => app'[t].fb = app[t].fb /\ keeps
  BY <1>1, <1>pc DEF Private
<1>11. \A j \in Both : PageStays(t, j)
  <2>1. \A j \in Both : PageOf(t, j)' = PageOf(t, j)
    BY <1>8 DEF PageOf
  <2>2. \A j \in Both : HasPage(t, j)' => HasPage(t, j)
    BY <1>1, <1>8, <1>9, <1>pc, <1>fb DEF HasPage
  <2>3. \A j \in Both : HasPage(t, j) => HasPage(t, j)' \/ (j = 1 /\ Doubtful(t)')
    BY <1>1, <1>8, <1>9, <1>pc, <1>fb DEF HasPage
  <2> QED
    BY <1>9, <2>1, <2>2, <2>3 DEF PageStays, MayHavePage
<1>12. \A j \in Both : SettledStays(t, j)
  <2>1. app'[t].pc # "publish"
    BY <1>pc
  <2> QED
    BY <1>8, <1>10, <2>1 DEF SettledStays, Settled, PlaceStays
<1>13. \A j \in Both : MapStays(t, j)
  <2>1. \A j \in Both : PageOf(t, j)' = PageOf(t, j) /\ SlotOf(t, j)' = SlotOf(t, j)
    BY <1>8 DEF PageOf, SlotOf
  <2>2. \A j \in Both : IsMapped(t, j)' => IsMapped(t, j)
    BY <1>1, <1>8, <1>9, <1>pc, <1>fb DEF IsMapped
  <2>3. \A j \in Both : IsMapped(t, j) => MayBeMapped(t, j)'
    <3> SUFFICES ASSUME NEW j \in Both, IsMapped(t, j) PROVE MayBeMapped(t, j)'
      OBVIOUS
    <3>1. CASE Private(t, j) /\ pc = "publish"
      <4>1. app[t].fb.page # NoPage /\ app'[t].pc = "killed" /\ app'[t].fb = app[t].fb
        BY <1>inv, <3>1, <1>pc, <1>fb DEF AppInv
      <4> QED
        BY <1>8, <3>1, <4>1, Constants DEF MayBeMapped
    <3>2. CASE ~(Private(t, j) /\ pc = "publish")
      <4>1. IsMapped(t, j)'
        BY <1>1, <1>8, <1>9, <1>pc, <3>2 DEF IsMapped
      <4> QED
        BY <4>1 DEF MayBeMapped
    <3> QED
      BY <3>1, <3>2
  <2>4. \A j \in Both : MayBeMapped(t, j) => IsMapped(t, j)
    BY <1>1 DEF MayBeMapped
  <2> QED
    BY <2>1, <2>2, <2>3, <2>4 DEF MapStays
<1>14. FrameType'
  <2>1. kills' \in 0..MaxKills
    BY <1>1, FramebufferAssumption DEF FrameInv, FrameType
  <2> QED
    BY <1>1, <1>5, <2>1 DEF FrameInv, FrameType
<1>15. AppInv(t)'
  <2>1. framebuffers'[t] = framebuffers[t] /\ Stage(t)' = Stage(t) /\ (t \in dangling' <=> t \in dangling)
    BY <1>1, <1>5
  <2>2. CASE keeps
    <3>1. /\ app[t].i \in Both /\ framebuffers[t][app[t].i] = Null /\ Stage(t) = Untouched /\ t \notin dangling
      BY <2>2, Making DEF Public
    <3>2. app'[t].pc = "killed" /\ app'[t].fb = app[t].fb /\ app'[t].i = app[t].i
      BY <1>2, <1>5, <2>2
    <3> QED
      BY <1>inv, <2>1, <2>2, <3>1, <3>2 DEF AppInv, Untouched
  <2>3. CASE pc = "swap"
    <3>1. app'[t].pc = "killedswap" /\ app'[t].fb = Null
      BY <1>2, <1>5, <2>3
    <3> QED
      BY <1>inv, <2>1, <2>3, <3>1 DEF AppInv
  <2>4. CASE ~keeps /\ pc # "swap"
    <3>1. app'[t].pc = "killed" /\ app'[t].fb = Null /\ Stage(t) = Untouched
      BY <1>d, <1>2, <1>5, <2>4
    <3> QED
      BY <1>inv, <1>1, <2>1, <2>4, <3>1 DEF AppInv, Untouched
  <2> QED
    BY <2>2, <2>3, <2>4
<1>16. DrawInv'
  BY <1>1, DrawStays
<1>17. \A j \in Both : Stays(t, j)
  BY <1>10, <1>11, <1>12, <1>13 DEF Stays
<1> QED
  BY <1>1, <1>6, <1>14, <1>15, <1>16, <1>17, AllKeep
-----------------------------------------------------------------------------
(* The compositor's steps.                                                 *)
CompositorPc == {"idle", "draw", "drawfreed", "second", "exchange", "last",
                 "free", "freepages", "freeplace", "done"}
CompositorType == [pc : CompositorPc, task : Task, i : 0..2, fb : Pointer]

LEMMA CompositorFacts ==
    ASSUME FrameInv
    PROVE  /\ compositor \in CompositorType /\ Idle \in CompositorType /\ Idle.pc = "idle"
           /\ compositor.task \in Task
           /\ \A t \in Task : compositor.pc \in {"idle", "draw", "drawfreed"} => Stage(t) = Untouched
           /\ \A pc \in {"idle", "draw", "drawfreed", "second", "exchange", "last",
                       "free", "freepages", "freeplace", "done"} : pc \in CompositorPc
           /\ compositor.pc \notin {"idle", "draw", "drawfreed"} =>
                Stage(compositor.task) = [pc |-> compositor.pc, i |-> compositor.i]
<1>1. Idle \in CompositorType /\ Idle.pc = "idle"
  BY FramebufferAssumption, Constants DEF Idle, CompositorType, CompositorPc
<1>2. compositor \in CompositorType
  BY TypeFacts DEF CompositorType, CompositorPc
<1> QED
  BY <1>1, <1>2 DEF CompositorType, CompositorPc, Stage, Untouched

LEMMA FrameAlone ==
    ASSUME NEW t, UNCHANGED <<dangling, gaveUp>>,
           \A u \in Task \ {t} : app'[u] = app[u] /\ framebuffers'[u] = framebuffers[u],
           compositor.task = t \/ compositor.pc \in {"idle", "draw", "drawfreed"},
           compositor'.task = t \/ compositor'.pc \in {"idle", "draw", "drawfreed"}
    PROVE  \A u \in Task \ {t} : Undisturbed(u)
BY DEF Undisturbed, Stage, Untouched

(* Looking at a window, or drawing it, changes no window.                  *)
LEMMA LookKeeps ==
    ASSUME FrameInv, compositor' \in CompositorType, DrawInv',
           compositor.pc \in {"idle", "draw", "drawfreed"}, compositor'.pc \in {"idle", "draw", "drawfreed"},
           UNCHANGED <<given, mmu, taken, framebuffers, app, kills, dangling, gaveUp>>
    PROVE  FrameInv'
<1>1. \A u \in Task : Undisturbed(u)
  BY DEF Undisturbed, Stage
<1>2. \A u \in Task : AppInv(u)' /\ \A j \in Both : Stays(u, j)
  <2> SUFFICES ASSUME NEW u \in Task PROVE AppInv(u)' /\ \A j \in Both : Stays(u, j)
    OBVIOUS
  <2>1. Doubtful(u)' <=> Doubtful(u)
    BY <1>1, TypeFacts, StaysDoubtful
  <2> QED
    BY <1>1, <2>1, UndisturbedStays, UndisturbedKeeps DEF FrameInv
<1>3. FrameType'
  BY DEF FrameInv, FrameType, CompositorType, CompositorPc
<1> QED
  BY <1>2, <1>3, PlacesStay, PagesStay, MapsStay DEF FrameInv, Stays

LEMMA SeeFrontKeeps == ASSUME FrameInv, NEW t \in Task, SeeFront(t) PROVE FrameInv'
<1> DEFINE pc == IF t \in dangling THEN "drawfreed" ELSE "draw"
           new == [pc |-> pc, task |-> t, i |-> 1, fb |-> framebuffers[t][1]]
<1>1. /\ compositor.pc = "idle" /\ framebuffers[t][1] # Null /\ compositor' = new
      /\ UNCHANGED <<given, mmu, taken, framebuffers, app, kills, dangling, gaveUp>>
  BY DEF SeeFront, On, CompositorOnly, pageVars
<1>2. new \in CompositorType /\ new.pc = pc /\ new.task = t /\ new.fb = framebuffers[t][1]
  <2>1. pc \in CompositorPc
    BY DEF CompositorPc
  <2>2. framebuffers[t][1] \in Pointer
    BY TypeFacts
  <2> HIDE DEF pc
  <2> QED
    BY <2>1, <2>2 DEF CompositorType
<1>3. dangling \subseteq gaveUp
  BY DEF FrameInv, FrameType
<1> HIDE DEF new
<1>4. DrawInv'
  BY <1>1, <1>2, <1>3 DEF DrawInv, Public
<1> QED
  BY <1>1, <1>2, <1>4, LookKeeps

LEMMA DrawKeeps == ASSUME FrameInv, Draw PROVE FrameInv'
<1>1. /\ compositor.pc = "draw" /\ compositor' = Idle
      /\ UNCHANGED <<given, mmu, taken, framebuffers, app, kills, dangling, gaveUp>>
  BY DEF Draw, On, CompositorOnly, pageVars
<1>2. compositor' \in CompositorType /\ compositor'.pc = "idle"
  BY <1>1, CompositorFacts
<1>3. DrawInv'
  BY <1>2 DEF DrawInv
<1> QED
  BY <1>1, <1>2, <1>3, LookKeeps

(* What becomes of the parts of a window does not matter while its         *)
(* framebuffers are where they were.                                       *)
Same(t, j) == /\ Private(t, j)' <=> Private(t, j)
              /\ Public(t, j)' <=> Public(t, j)
              /\ Buffer(t, j)' = Buffer(t, j)

LEMMA FreeBeginsKeeps == ASSUME FrameInv, NEW t \in Task, FreeBegins(t) PROVE FrameInv'
<1>1. /\ compositor.pc = "idle" /\ app[t].pc \in {"destroy", "killed"}
      /\ compositor' = [Idle EXCEPT !.pc = "free", !.task = t, !.i = 1]
      /\ UNCHANGED <<given, mmu, taken, framebuffers, app, kills, dangling, gaveUp>>
  BY DEF FreeBegins, On, CompositorOnly, pageVars
<1>2. /\ compositor' \in CompositorType
      /\ compositor'.pc = "free" /\ compositor'.task = t /\ compositor'.i = 1
  <2>1. Idle \in CompositorType /\ "free" \in CompositorPc /\ 1 \in 0..2
    BY CompositorFacts
  <2>2. compositor' = [Idle EXCEPT !.pc = "free", !.task = t, !.i = 1]
    BY <1>1
  <2>3. compositor' \in CompositorType
    BY <2>1, <2>2 DEF CompositorType
  <2>4. compositor'.pc = "free" /\ compositor'.task = t /\ compositor'.i = 1
    BY <2>1, <2>2 DEF CompositorType
  <2> QED
    BY <2>3, <2>4
<1>3. Stage(t) = Untouched /\ Stage(t)' = [pc |-> "free", i |-> 1]
  BY <1>1, <1>2, CompositorFacts DEF Stage
<1>4. \A u \in Task \ {t} : Undisturbed(u)
  BY <1>1, <1>2, FrameAlone
<1>5. \A u \in Task \ {t} : AppInv(u)' /\ \A j \in Both : Stays(u, j)
  BY <1>1, <1>4, OthersStay, TypeFacts
<1>6. \A j \in Both : /\ Same(t, j)
                      /\ ~TakenApart(t, j) /\ ~TakenApart(t, j)' /\ ~Displaced(t, j) /\ ~Displaced(t, j)'
                      /\ ~Parting(t, j, {"freeplace"}) /\ ~Parting(t, j, {"freeplace"})'
                      /\ ~Parting(t, j, {"freepages", "freeplace"})
                      /\ ~Parting(t, j, {"freepages", "freeplace"})'
  BY <1>1, <1>3 DEF Same, Private, Public, Buffer, TakenApart, Displaced, Parting, Untouched, Both
<1>7. Doubtful(t)' <=> Doubtful(t)
  BY <1>1, <1>6, Constants DEF Doubtful, Same
<1>8. \A j \in Both : PlaceStays(t, j) /\ SettledStays(t, j)
  BY <1>1, <1>6 DEF PlaceStays, SettledStays, Settled, HasPlace, PixelsOf, Same
<1>9. \A j \in Both : PageStays(t, j)
  BY <1>1, <1>6, <1>7 DEF PageStays, HasPage, MayHavePage, PageOf, Same
<1>10. \A j \in Both : MapStays(t, j)
  BY <1>1, <1>6, <1>7 DEF MapStays, IsMapped, MayBeMapped, PageOf, SlotOf, Same
<1>11. \A j \in Both : Stays(t, j)
  BY <1>8, <1>9, <1>10 DEF Stays
<1>12. FrameType'
  BY <1>1, <1>2 DEF FrameInv, FrameType, CompositorType, CompositorPc
<1>13. AppInv(t)'
  <2>1. AppInv(t)
    BY DEF FrameInv
  <2> QED
    BY <1>1, <1>3, <2>1, Constants DEF AppInv, Untouched
<1>14. DrawInv'
  BY <1>2 DEF DrawInv
<1> QED
  BY <1>1, <1>5, <1>11, <1>12, <1>13, <1>14, AllKeep

(* The first of the two before the second, then the end.                   *)
LEMMA NextFacts ==
    ASSUME FrameInv, NextToFree, NEW t \in Task, t = compositor.task, NEW i \in Both, i = compositor.i
    PROVE  /\ compositor' \in CompositorType /\ compositor'.task = t
           /\ i = 1 => compositor'.pc = "free" /\ compositor'.i = 2
           /\ i = 2 => compositor'.pc = "done"
           /\ Stage(t)' = IF i = 1 THEN [pc |-> "free", i |-> 2] ELSE [pc |-> "done", i |-> 2]
<1>1. /\ compositor \in CompositorType /\ "free" \in CompositorPc /\ "done" \in CompositorPc
      /\ 1 \in 0..2 /\ 2 \in 0..2
  BY CompositorFacts
<1>2. /\ compositor' \in CompositorType /\ compositor'.task = t
      /\ i = 1 => compositor'.pc = "free" /\ compositor'.i = 2
      /\ i = 2 => compositor'.pc = "done" /\ compositor'.i = 2
  <2>1. CASE i = 1
    <3>1. compositor' = [compositor EXCEPT !.pc = "free", !.i = 2]
      BY <2>1 DEF NextToFree
    <3>2. compositor' \in CompositorType
      BY <1>1, <3>1 DEF CompositorType
    <3>3. compositor'.pc = "free" /\ compositor'.i = 2 /\ compositor'.task = compositor.task
      BY <1>1, <3>1 DEF CompositorType
    <3> QED
      BY <2>1, <3>2, <3>3
  <2>2. CASE i = 2
    <3>1. compositor' = [compositor EXCEPT !.pc = "done"]
      BY <2>2 DEF NextToFree, Turns
    <3>2. compositor' \in CompositorType
      BY <1>1, <3>1 DEF CompositorType
    <3>3. compositor'.pc = "done" /\ compositor'.i = 2 /\ compositor'.task = compositor.task
      BY <1>1, <2>2, <3>1 DEF CompositorType
    <3> QED
      BY <2>2, <3>2, <3>3
  <2> QED
    BY <2>1, <2>2 DEF Both
<1> QED
  BY <1>2 DEF Stage, Both

LEMMA FreeNothingKeeps == ASSUME FrameInv, FreeNothing PROVE FrameInv'
<1> DEFINE t == compositor.task
<1>t. PICK w \in Task : w = t
  BY CompositorFacts
<1>1. /\ compositor.pc = "free" /\ Freed = Null /\ NextToFree
      /\ UNCHANGED <<given, mmu, taken, framebuffers, app, kills, dangling, gaveUp>>
  BY DEF FreeNothing, On, CompositorOnly, pageVars
<1>inv. AppInv(w) /\ Stage(w) = [pc |-> "free", i |-> compositor.i]
  BY <1>1, <1>t, CompositorFacts DEF FrameInv
<1>i. PICK i \in Both : i = compositor.i
  BY <1>inv DEF AppInv
<1>2. /\ compositor' \in CompositorType /\ compositor'.task = w
      /\ i = 1 => compositor'.pc = "free" /\ compositor'.i = 2
      /\ i = 2 => compositor'.pc = "done"
      /\ Stage(w)' = IF i = 1 THEN [pc |-> "free", i |-> 2] ELSE [pc |-> "done", i |-> 2]
  BY <1>1, <1>t, <1>i, NextFacts
<1>3. /\ Stage(w) = [pc |-> "free", i |-> i] /\ w \notin dangling /\ ~Public(w, i)
      /\ i = 1 => ~Public(w, 2)
      /\ app[w].pc \in {"destroy", "killed"}
  BY <1>1, <1>inv, <1>t, <1>i, Constants DEF AppInv, Freed, Public, Both
<1>4. \A u \in Task \ {w} : Undisturbed(u)
  <2>1. compositor.task = w
    BY <1>t
  <2> QED
    BY <1>1, <1>2, <2>1, FrameAlone
<1>5. \A u \in Task \ {w} : AppInv(u)' /\ \A j \in Both : Stays(u, j)
  BY <1>1, <1>4, OthersStay, TypeFacts
<1>6. \A j \in Both : /\ Same(w, j)
                      /\ Public(w, j) => (TakenApart(w, j) <=> TakenApart(w, j)')
                      /\ ~Displaced(w, j) /\ ~Displaced(w, j)'
                      /\ ~Parting(w, j, {"freeplace"}) /\ ~Parting(w, j, {"freeplace"})'
                      /\ ~Parting(w, j, {"freepages", "freeplace"})
                      /\ ~Parting(w, j, {"freepages", "freeplace"})'
  BY <1>1, <1>2, <1>3 DEF Same, Private, Public, Buffer, TakenApart, Displaced, Parting, Both
<1>7. Doubtful(w)' <=> Doubtful(w)
  BY <1>1, <1>6, Constants DEF Doubtful, Same
<1>8. \A j \in Both : PlaceStays(w, j) /\ SettledStays(w, j)
  BY <1>1, <1>6 DEF PlaceStays, SettledStays, Settled, HasPlace, PixelsOf, Same
<1>9. \A j \in Both : PageStays(w, j)
  BY <1>1, <1>6, <1>7 DEF PageStays, HasPage, MayHavePage, PageOf, Same
<1>10. \A j \in Both : MapStays(w, j)
  BY <1>1, <1>6, <1>7 DEF MapStays, IsMapped, MayBeMapped, PageOf, SlotOf, Same
<1>11. \A j \in Both : Stays(w, j)
  BY <1>8, <1>9, <1>10 DEF Stays
<1>12. FrameType'
  BY <1>1, <1>2 DEF FrameInv, FrameType, CompositorType, CompositorPc
<1>13. AppInv(w)'
  BY <1>1, <1>2, <1>3, <1>inv, Constants DEF AppInv, Both
<1>14. DrawInv'
  BY <1>2 DEF DrawInv, Both
<1> QED
  BY <1>1, <1>5, <1>11, <1>12, <1>13, <1>14, AllKeep

LEMMA TurnsFacts ==
    ASSUME FrameInv, NEW pc \in CompositorPc, Turns(pc)
    PROVE  /\ compositor' \in CompositorType /\ compositor'.pc = pc
           /\ compositor'.task = compositor.task /\ compositor'.i = compositor.i
<1>1. compositor \in CompositorType
  BY CompositorFacts
<1>2. compositor' = [compositor EXCEPT !.pc = pc]
  BY DEF Turns
<1>3. compositor' \in CompositorType
  BY <1>1, <1>2 DEF CompositorType
<1> QED
  BY <1>1, <1>2, <1>3 DEF CompositorType

(* Unmapping what a window has mapped is of no other window's places.      *)
LEMMA UnmapIsPrivate ==
    ASSUME FrameInv, NEW t \in Task, NEW i \in Both, IsMapped(t, i), UnmapPages(SlotOf(t, i))
    PROVE  /\ mmu' \in [Slot -> Page \cup {NoPage}]
           /\ \A u \in Task \ {t} : Settled(u, 1) => mmu'[PixelsOf(u, 1)] = mmu[PixelsOf(u, 1)]
<1>1. SlotOf(t, i) \in Slot
  BY TokenFacts
<1>2. /\ mmu' \in [Slot -> Page \cup {NoPage}]
      /\ \A s \in Slot : s # SlotOf(t, i) => mmu'[s] = mmu[s]
  BY <1>1, TypeFacts DEF UnmapPages
<1>3. ASSUME NEW u \in Task \ {t}, Settled(u, 1)
      PROVE  PixelsOf(u, 1) \in Slot /\ PixelsOf(u, 1) # SlotOf(t, i)
  <2>1. PixelsOf(u, 1) \in Slot
    BY <1>3, TokenFacts, Constants
  <2>2. PixelsOf(u, 1) # SlotOf(t, i)
    BY <1>3, Constants DEF FrameInv, MapInv
  <2> QED
    BY <2>1, <2>2
<1> QED
  BY <1>2, <1>3

LEMMA FreeUnmapsKeeps == ASSUME FrameInv, FreeUnmaps PROVE FrameInv'
<1>t. PICK w \in Task : w = compositor.task
  BY CompositorFacts
<1>1. /\ compositor.pc = "free" /\ Freed # Null /\ Turns("freepages")
      /\ compositor.i = 1 => w \notin dangling
      /\ mmu[Freed.slot] # NoPage /\ UnmapPages(Freed.slot)
      /\ UNCHANGED <<given, taken, framebuffers, app, kills, dangling, gaveUp>>
  BY <1>t DEF FreeUnmaps, On, CompositorOnly
<1>inv. AppInv(w) /\ Stage(w) = [pc |-> "free", i |-> compositor.i]
  BY <1>1, <1>t, CompositorFacts DEF FrameInv
<1>i. PICK i \in Both : i = compositor.i
  BY <1>inv DEF AppInv
<1>2. /\ compositor' \in CompositorType /\ compositor'.pc = "freepages"
      /\ compositor'.task = w /\ compositor'.i = i
  <2>1. "freepages" \in CompositorPc
    BY DEF CompositorPc
  <2> QED
    BY <1>1, <1>t, <1>i, <2>1, TurnsFacts
<1>s. Stage(w)' = [pc |-> "freepages", i |-> i] /\ Stage(w) = [pc |-> "free", i |-> i]
  BY <1>2, <1>inv, <1>i DEF Stage
<1>3. /\ w \notin dangling /\ Public(w, i) /\ mmu[framebuffers[w][i].slot] # NoPage
      /\ app[w].pc \in {"destroy", "killed"}
  BY <1>1, <1>inv, <1>t, <1>i, <1>s, Constants DEF AppInv, Freed, Public, Both
<1>p. ~Private(w, i) /\ Buffer(w, i) = framebuffers[w][i]
  <2>1. ~Private(w, i)
    BY <1>3, <1>inv DEF Private, AppInv, Public
  <2> QED
    BY <2>1 DEF Buffer
<1>4. \A u \in Task \ {w} : Undisturbed(u)
  <2>1. compositor.task = w
    BY <1>t
  <2> QED
    BY <1>1, <1>2, <2>1, FrameAlone
<1>6. \A j \in Both : /\ Same(w, j)
                      /\ TakenApart(w, j) <=> TakenApart(w, j)'
                      /\ ~Displaced(w, j) /\ ~Displaced(w, j)'
                      /\ ~Parting(w, j, {"freeplace"}) /\ ~Parting(w, j, {"freeplace"})'
                      /\ ~Parting(w, j, {"freepages", "freeplace"})
                      /\ Parting(w, j, {"freepages", "freeplace"})' <=> j = i
                      /\ j = i => ~TakenApart(w, j)
  BY <1>1, <1>s, <1>3 DEF Same, Private, Public, Buffer, TakenApart, Displaced, Parting, Both
<1>7. ~Doubtful(w)' /\ ~Doubtful(w)
  <2>1. CASE i = 1
    BY <1>1, <1>3, <1>6, <2>1, Constants DEF Doubtful, Same
  <2>2. CASE i = 2
    BY <1>3, <1>6, <2>2, Constants DEF Doubtful, Same
  <2> QED
    BY <2>1, <2>2 DEF Both
<1>m. /\ IsMapped(w, i) /\ ~IsMapped(w, i)' /\ UnmapPages(SlotOf(w, i))
  <2>1. SlotOf(w, i) = Freed.slot
    BY <1>p, <1>t, <1>i DEF SlotOf, Freed
  <2>2. IsMapped(w, i)
    BY <1>3, <1>6, <1>7 DEF IsMapped
  <2>3. ~IsMapped(w, i)'
    BY <1>6, <1>p DEF IsMapped, Same
  <2> QED
    BY <1>1, <2>1, <2>2, <2>3
<1>mmu. /\ mmu' \in [Slot -> Page \cup {NoPage}]
        /\ \A u \in Task \ {w} : Settled(u, 1) => mmu'[PixelsOf(u, 1)] = mmu[PixelsOf(u, 1)]
  BY <1>m, UnmapIsPrivate
<1>5. \A u \in Task \ {w} : AppInv(u)' /\ \A j \in Both : Stays(u, j)
  BY <1>4, <1>mmu, OthersStay
<1>8. \A j \in Both : PlaceStays(w, j) /\ SettledStays(w, j)
  BY <1>1, <1>6 DEF PlaceStays, SettledStays, Settled, HasPlace, PixelsOf, Same
<1>9. \A j \in Both : PageStays(w, j)
  BY <1>1, <1>6, <1>7 DEF PageStays, HasPage, MayHavePage, PageOf, Same
<1>10. \A j \in Both : j # i => MapStays(w, j)
  BY <1>1, <1>6, <1>7 DEF MapStays, IsMapped, MayBeMapped, PageOf, SlotOf, Same
<1>12. FrameType'
  BY <1>1, <1>2, <1>mmu DEF FrameInv, FrameType, CompositorType, CompositorPc
<1>13. AppInv(w)'
  BY <1>1, <1>s, <1>3, <1>inv, Constants DEF AppInv, Public
<1>14. DrawInv'
  BY <1>2 DEF DrawInv
<1>15. PlaceInv'
  BY <1>1, <1>5, <1>8, PlacesStay DEF FrameInv, Stays
<1>16. PageInv'
  BY <1>1, <1>5, <1>9, PagesStay DEF Stays
<1>17. MapInv'
  <2>1. \A u \in Task : \A j \in Both : /\ u # w \/ j # i => MapStays(u, j)
                                        /\ SettledStays(u, j)
    BY <1>5, <1>8, <1>10 DEF Stays
  <2> QED
    BY <1>m, <2>1, MapIsUndone
<1> QED
  BY <1>5, <1>12, <1>13, <1>14, <1>15, <1>16, <1>17 DEF FrameInv

LEMMA FreeReturnsKeeps == ASSUME FrameInv, FreeReturns PROVE FrameInv'
<1>t. PICK w \in Task : w = compositor.task
  BY CompositorFacts
<1>1. /\ compositor.pc = "freepages" /\ Turns("freeplace") /\ given' = given \ {Freed.page}
      /\ UNCHANGED <<mmu, taken, framebuffers, app, kills, dangling, gaveUp>>
  BY DEF FreeReturns, On, CompositorOnly
<1>inv. AppInv(w) /\ Stage(w) = [pc |-> "freepages", i |-> compositor.i]
  BY <1>1, <1>t, CompositorFacts DEF FrameInv
<1>i. PICK i \in Both : i = compositor.i
  BY <1>inv DEF AppInv
<1>2. /\ compositor' \in CompositorType /\ compositor'.pc = "freeplace"
      /\ compositor'.task = w /\ compositor'.i = i
  <2>1. "freeplace" \in CompositorPc
    BY DEF CompositorPc
  <2> QED
    BY <1>1, <1>t, <1>i, <2>1, TurnsFacts
<1>s. Stage(w)' = [pc |-> "freeplace", i |-> i] /\ Stage(w) = [pc |-> "freepages", i |-> i]
  BY <1>2, <1>inv, <1>i DEF Stage
<1>3. w \notin dangling /\ Public(w, i) /\ app[w].pc \in {"destroy", "killed"}
  BY <1>inv, <1>s DEF AppInv, Public
<1>p. ~Private(w, i) /\ Buffer(w, i) = framebuffers[w][i]
  <2>1. ~Private(w, i)
    BY <1>3, <1>inv DEF Private, AppInv, Public
  <2> QED
    BY <2>1 DEF Buffer
<1>4. \A u \in Task \ {w} : Undisturbed(u)
  <2>1. compositor.task = w
    BY <1>t
  <2> QED
    BY <1>1, <1>2, <2>1, FrameAlone
<1>5. \A u \in Task \ {w} : AppInv(u)' /\ \A j \in Both : Stays(u, j)
  BY <1>1, <1>4, OthersStay, TypeFacts
<1>6. \A j \in Both : /\ Same(w, j)
                      /\ TakenApart(w, j) <=> TakenApart(w, j)'
                      /\ ~Displaced(w, j) /\ ~Displaced(w, j)'
                      /\ ~Parting(w, j, {"freeplace"})
                      /\ Parting(w, j, {"freeplace"})' <=> j = i
                      /\ Parting(w, j, {"freepages", "freeplace"}) <=> j = i
                      /\ Parting(w, j, {"freepages", "freeplace"})' <=> j = i
                      /\ j = i => ~TakenApart(w, j)
  BY <1>1, <1>s, <1>3 DEF Same, Private, Public, Buffer, TakenApart, Displaced, Parting, Both
<1>7. ~Doubtful(w)' /\ ~Doubtful(w)
  <2>1. CASE i = 1
    BY <1>6, <2>1, Constants DEF Doubtful
  <2>2. CASE i = 2
    BY <1>3, <1>6, <2>2, Constants DEF Doubtful, Same
  <2> QED
    BY <2>1, <2>2 DEF Both
<1>h. HasPage(w, i) /\ ~HasPage(w, i)' /\ PageOf(w, i) = Freed.page
  <2>1. PageOf(w, i) = Freed.page
    BY <1>p, <1>t, <1>i DEF PageOf, Freed
  <2>2. HasPage(w, i)
    BY <1>3, <1>6, <1>7 DEF HasPage
  <2>3. ~HasPage(w, i)'
    BY <1>6, <1>p DEF HasPage, Same
  <2> QED
    BY <2>1, <2>2, <2>3
<1>8. \A j \in Both : PlaceStays(w, j) /\ SettledStays(w, j)
  BY <1>1, <1>6 DEF PlaceStays, SettledStays, Settled, HasPlace, PixelsOf, Same
<1>9. \A j \in Both : j # i => PageStays(w, j)
  BY <1>1, <1>6, <1>7 DEF PageStays, HasPage, MayHavePage, PageOf, Same
<1>10. \A j \in Both : MapStays(w, j)
  BY <1>1, <1>6, <1>7 DEF MapStays, IsMapped, MayBeMapped, PageOf, SlotOf, Same
<1>12. FrameType'
  BY <1>1, <1>2 DEF FrameInv, FrameType, CompositorType, CompositorPc
<1>13. AppInv(w)'
  BY <1>1, <1>s, <1>3, <1>inv, Constants DEF AppInv, Public
<1>14. DrawInv'
  BY <1>2 DEF DrawInv
<1>15. PlaceInv'
  BY <1>1, <1>5, <1>8, PlacesStay DEF FrameInv, Stays
<1>16. PageInv'
  <2>1. given' = given \ {PageOf(w, i)}
    BY <1>1, <1>h
  <2> QED
    BY <1>5, <1>9, <1>h, <2>1, PageIsReturned DEF Stays
<1>17. MapInv'
  BY <1>1, <1>5, <1>8, <1>10, MapsStay DEF Stays
<1> QED
  BY <1>5, <1>12, <1>13, <1>14, <1>15, <1>16, <1>17 DEF FrameInv

LEMMA FreeLeavesKeeps == ASSUME FrameInv, FreeLeaves PROVE FrameInv'
<1>t. PICK w \in Task : w = compositor.task
  BY CompositorFacts
<1>1. /\ compositor.pc = "freeplace" /\ NextToFree /\ taken' = taken \ {Freed.pixels}
      /\ UNCHANGED <<mmu, given, framebuffers, app, kills, dangling, gaveUp>>
  BY DEF FreeLeaves, On, CompositorOnly, pageVars
<1>inv. AppInv(w) /\ Stage(w) = [pc |-> "freeplace", i |-> compositor.i]
  BY <1>1, <1>t, CompositorFacts DEF FrameInv
<1>i. PICK i \in Both : i = compositor.i
  BY <1>inv DEF AppInv
<1>2. /\ compositor' \in CompositorType /\ compositor'.task = w
      /\ i = 1 => compositor'.pc = "free" /\ compositor'.i = 2
      /\ i = 2 => compositor'.pc = "done"
      /\ Stage(w)' = IF i = 1 THEN [pc |-> "free", i |-> 2] ELSE [pc |-> "done", i |-> 2]
  BY <1>1, <1>t, <1>i, NextFacts
<1>s. Stage(w) = [pc |-> "freeplace", i |-> i]
  BY <1>inv, <1>i
<1>3. w \notin dangling /\ Public(w, i) /\ app[w].pc \in {"destroy", "killed"}
  BY <1>inv, <1>s DEF AppInv, Public
<1>p. ~Private(w, i) /\ Buffer(w, i) = framebuffers[w][i]
  <2>1. ~Private(w, i)
    BY <1>3, <1>inv DEF Private, AppInv, Public
  <2> QED
    BY <2>1 DEF Buffer
<1>4. \A u \in Task \ {w} : Undisturbed(u)
  <2>1. compositor.task = w
    BY <1>t
  <2> QED
    BY <1>1, <1>2, <2>1, FrameAlone
<1>5. \A u \in Task \ {w} : AppInv(u)' /\ \A j \in Both : Stays(u, j)
  BY <1>1, <1>4, OthersStay, TypeFacts
<1>6. \A j \in Both : /\ Same(w, j)
                      /\ TakenApart(w, j)' <=> TakenApart(w, j) \/ j = i
                      /\ ~Displaced(w, j) /\ ~Displaced(w, j)'
                      /\ Parting(w, j, {"freeplace"}) <=> j = i
                      /\ Parting(w, j, {"freepages", "freeplace"}) <=> j = i
                      /\ ~Parting(w, j, {"freeplace"})'
                      /\ ~Parting(w, j, {"freepages", "freeplace"})'
                      /\ j = i => ~TakenApart(w, j)
  BY <1>1, <1>2, <1>s, <1>3 DEF Same, Private, Public, Buffer, TakenApart, Displaced, Parting, Both
<1>7. ~Doubtful(w)' /\ ~Doubtful(w)
  <2>1. CASE i = 1
    BY <1>6, <2>1, Constants DEF Doubtful
  <2>2. CASE i = 2
    BY <1>3, <1>6, <2>2, Constants DEF Doubtful, Same
  <2> QED
    BY <2>1, <2>2 DEF Both
<1>h. HasPlace(w, i) /\ ~HasPlace(w, i)' /\ PixelsOf(w, i) = Freed.pixels
  <2>1. PixelsOf(w, i) = Freed.pixels
    BY <1>p, <1>t, <1>i DEF PixelsOf, Freed
  <2>2. HasPlace(w, i)
    BY <1>3, <1>6 DEF HasPlace
  <2>3. ~HasPlace(w, i)'
    BY <1>6, <1>p DEF HasPlace, Same
  <2> QED
    BY <2>1, <2>2, <2>3
<1>8. \A j \in Both : (j # i => PlaceStays(w, j)) /\ SettledStays(w, j)
  BY <1>1, <1>3, <1>6 DEF PlaceStays, SettledStays, Settled, HasPlace, PixelsOf, Same
<1>9. \A j \in Both : PageStays(w, j)
  BY <1>1, <1>6, <1>7 DEF PageStays, HasPage, MayHavePage, PageOf, Same
<1>10. \A j \in Both : MapStays(w, j)
  BY <1>1, <1>6, <1>7 DEF MapStays, IsMapped, MayBeMapped, PageOf, SlotOf, Same
<1>12. FrameType'
  BY <1>1, <1>2 DEF FrameInv, FrameType, CompositorType, CompositorPc
<1>13. AppInv(w)'
  BY <1>1, <1>2, <1>s, <1>3, <1>inv, Constants DEF AppInv, Public, Both
<1>14. DrawInv'
  BY <1>2 DEF DrawInv, Both
<1>15. PlaceInv'
  <2>1. taken' = taken \ {PixelsOf(w, i)}
    BY <1>1, <1>h
  <2> QED
    BY <1>5, <1>8, <1>h, <2>1, PlaceIsLeft DEF FrameInv, Stays
<1>16. PageInv'
  BY <1>1, <1>5, <1>9, PagesStay DEF Stays
<1>17. MapInv'
  BY <1>1, <1>5, <1>8, <1>10, MapsStay DEF Stays
<1> QED
  BY <1>5, <1>12, <1>13, <1>14, <1>15, <1>16, <1>17 DEF FrameInv

LEMMA FreeEndsKeeps == ASSUME FrameInv, FreeEnds PROVE FrameInv'
<1>t. PICK w \in Task : w = compositor.task
  BY CompositorFacts
<1> DEFINE new == [app[w] EXCEPT !.pc = IF app[w].pc = "destroy" THEN "rest" ELSE "gone"]
<1>1. /\ compositor.pc = "done" /\ compositor' = Idle
      /\ framebuffers' = [framebuffers EXCEPT ![w] = <<Null, Null>>]
      /\ app' = [app EXCEPT ![w] = new]
      /\ UNCHANGED <<mmu, given, taken, kills, dangling, gaveUp>>
  BY <1>t DEF FreeEnds, On, CompositorOnly, pageVars
<1>inv. AppInv(w) /\ Stage(w) = [pc |-> "done", i |-> compositor.i]
  BY <1>1, <1>t, CompositorFacts DEF FrameInv
<1>new. /\ new \in [pc : AppPc, i : 0..2, fb : Partial] /\ new.i = app[w].i /\ new.fb = app[w].fb
        /\ new.pc = IF app[w].pc = "destroy" THEN "rest" ELSE "gone"
  BY TypeFacts DEF AppPc
<1> HIDE DEF new
<1>2. compositor' \in CompositorType /\ compositor'.pc = "idle"
  BY <1>1, CompositorFacts
<1>s. Stage(w)' = Untouched
  BY <1>2 DEF Stage
<1>3. w \notin dangling /\ app[w].pc \in {"destroy", "killed"}
  BY <1>inv DEF AppInv
<1>f. /\ framebuffers' \in [Task -> Pointer \X Pointer]
      /\ framebuffers'[w] = <<Null, Null>>
      /\ \A u \in Task \ {w} : framebuffers'[u] = framebuffers[u]
      /\ app' \in [Task -> [pc : AppPc, i : 0..2, fb : Partial]] /\ app'[w] = new
      /\ \A u \in Task \ {w} : app'[u] = app[u]
  <2>1. <<Null, Null>> \in Pointer \X Pointer
    BY Constants
  <2> QED
    BY <1>1, <1>new, <2>1, TypeFacts
<1>4. \A u \in Task \ {w} : Undisturbed(u)
  <2>1. compositor.task = w
    BY <1>t
  <2> QED
    BY <1>1, <1>2, <1>f, <2>1, FrameAlone
<1>5. \A u \in Task \ {w} : AppInv(u)' /\ \A j \in Both : Stays(u, j)
  BY <1>1, <1>4, OthersStay, TypeFacts
<1>6. \A j \in Both : /\ Private(w, j)' <=> Private(w, j)
                      /\ Private(w, j) => /\ Buffer(w, j)' = Buffer(w, j)
                                          /\ app[w].pc = "killed" /\ app'[w].pc = "gone"
                      /\ app'[w].fb = app[w].fb
                      /\ ~Public(w, j)'
                      /\ TakenApart(w, j)
  <2>1. app[w].pc = "destroy" => app[w].fb = Null
    BY <1>inv DEF AppInv
  <2>2. \A j \in Both : Private(w, j)' <=> Private(w, j)
    BY <1>3, <1>f, <1>new, <2>1 DEF Private
  <2>3. \A j \in Both : TakenApart(w, j)
    BY <1>inv DEF TakenApart
  <2>4. \A j \in Both : Private(w, j) => app[w].pc = "killed" /\ app'[w].pc = "gone"
    BY <1>3, <1>f, <1>new, <2>1 DEF Private
  <2>5. \A j \in Both : ~Public(w, j)'
    BY <1>f DEF Public, Both
  <2> QED
    BY <1>f, <1>new, <2>2, <2>3, <2>4, <2>5 DEF Buffer
<1>7. ~Doubtful(w)' /\ ~Doubtful(w)
  BY <1>6, Constants DEF Doubtful
<1>pc. app'[w].pc # "publish" /\ app[w].pc # "publish"
  BY <1>3, <1>f, <1>new
<1>8. \A j \in Both : PlaceStays(w, j) /\ SettledStays(w, j)
  BY <1>pc, <1>6 DEF PlaceStays, SettledStays, Settled, HasPlace, PixelsOf
<1>9. \A j \in Both : PageStays(w, j)
  BY <1>6, <1>7 DEF PageStays, HasPage, MayHavePage, PageOf
<1>10. \A j \in Both : MapStays(w, j)
  BY <1>pc, <1>6, <1>7 DEF MapStays, IsMapped, MayBeMapped, PageOf, SlotOf
<1>11. \A j \in Both : Stays(w, j)
  BY <1>8, <1>9, <1>10 DEF Stays
<1>12. FrameType'
  BY <1>1, <1>2, <1>f DEF FrameInv, FrameType, CompositorType, CompositorPc
<1>13. AppInv(w)'
  <2>1. framebuffers'[w][1] = Null /\ framebuffers'[w][2] = Null /\ w \notin dangling'
    BY <1>1, <1>3, <1>f
  <2> QED
    BY <1>s, <1>3, <1>new, <1>f, <1>inv, <2>1, Constants DEF AppInv, Untouched, Both
<1>14. DrawInv'
  BY <1>2 DEF DrawInv
<1> QED
  BY <1>1, <1>5, <1>11, <1>12, <1>13, <1>14, AllKeep

(* A window that is being swapped has both framebuffers, each in its own   *)
(* place or in its partner's, and nothing else.                            *)
LEMMA Swaps ==
    ASSUME FrameInv, NEW w \in Task, app[w].pc \in {"swap", "killedswap"}
    PROVE  /\ w \notin dangling
           /\ \A j \in Both : Public(w, j) /\ ~Private(w, j) /\ Buffer(w, j) = framebuffers[w][j]
           /\ \A j \in Both : framebuffers[w][j] \in Framebuffer
           /\ framebuffers[w][1] \in Framebuffer /\ framebuffers[w][2] \in Framebuffer
           /\ \/ /\ framebuffers[w][1].slot = framebuffers[w][1].pixels
                 /\ framebuffers[w][2].slot = framebuffers[w][2].pixels
              \/ /\ framebuffers[w][1].slot = framebuffers[w][2].pixels
                 /\ framebuffers[w][2].slot = framebuffers[w][1].pixels
           /\ ~Doubtful(w)
           /\ Stage(w).pc \in {"none", "second", "exchange", "last"}
           /\ \A j \in Both : /\ ~TakenApart(w, j) /\ ~Parting(w, j, {"freeplace"})
                              /\ ~Parting(w, j, {"freepages", "freeplace"})
                              /\ HasPlace(w, j) /\ HasPage(w, j)
                              /\ IsMapped(w, j) <=> ~Displaced(w, j)
                              /\ MayBeMapped(w, j) <=> IsMapped(w, j)
<1>1. AppInv(w)
  BY DEF FrameInv
<1>2. framebuffers[w][2] # Null /\ framebuffers[w][1] # Null /\ w \notin dangling
  BY <1>1 DEF AppInv
<1>3. \A j \in Both : Public(w, j) /\ ~Private(w, j) /\ Buffer(w, j) = framebuffers[w][j]
  BY <1>2 DEF Public, Private, Buffer, Both
<1>4. \A j \in Both : framebuffers[w][j] \in Framebuffer
  BY <1>3, TypeFacts DEF Public, Pointer
<1>5. Stage(w).pc \in {"none", "second", "exchange", "last"}
  <2>1. Stage(w).pc \in CompositorPc \cup {"none"}
    BY CompositorFacts DEF Stage, Untouched, CompositorType
  <2>2. compositor.pc \in {"idle", "draw", "drawfreed"} => Stage(w).pc = "none"
    BY CompositorFacts DEF Untouched
  <2>3. Stage(w).pc \notin {"idle", "draw", "drawfreed"}
    BY DEF Stage, Untouched
  <2> QED
    BY <1>1, <2>1, <2>3 DEF AppInv, CompositorPc
<1>6. ~Doubtful(w)
  BY DEF Doubtful
<1>7. \A j \in Both : /\ ~TakenApart(w, j) /\ ~Parting(w, j, {"freeplace"})
                      /\ ~Parting(w, j, {"freepages", "freeplace"})
  BY <1>5 DEF TakenApart, Parting
<1>8. \A j \in Both : /\ HasPlace(w, j) /\ HasPage(w, j)
                      /\ IsMapped(w, j) <=> ~Displaced(w, j)
                      /\ MayBeMapped(w, j) <=> IsMapped(w, j)
  BY <1>2, <1>3, <1>6, <1>7 DEF HasPlace, HasPage, IsMapped, MayBeMapped
<1>9. \/ /\ framebuffers[w][1].slot = framebuffers[w][1].pixels
         /\ framebuffers[w][2].slot = framebuffers[w][2].pixels
      \/ /\ framebuffers[w][1].slot = framebuffers[w][2].pixels
         /\ framebuffers[w][2].slot = framebuffers[w][1].pixels
  BY <1>1, <1>2 DEF AppInv
<1> QED
  BY <1>2, <1>3, <1>4, <1>5, <1>6, <1>7, <1>8, <1>9, Constants

LEMMA SwapBeginsKeeps == ASSUME FrameInv, NEW t \in Task, SwapBegins(t) PROVE FrameInv'
<1>1. /\ compositor.pc = "idle" /\ app[t].pc \in {"swap", "killedswap"}
      /\ compositor' = [Idle EXCEPT !.pc = "second", !.task = t]
      /\ UnmapPages(framebuffers[t][1].slot)
      /\ UNCHANGED <<given, taken, framebuffers, app, kills, dangling, gaveUp>>
  BY DEF SwapBegins, On, CompositorOnly
<1>2. /\ compositor' \in CompositorType
      /\ compositor'.pc = "second" /\ compositor'.task = t
  <2>1. Idle \in CompositorType /\ "second" \in CompositorPc
    BY CompositorFacts
  <2>2. compositor' = [Idle EXCEPT !.pc = "second", !.task = t]
    BY <1>1
  <2>3. compositor' \in CompositorType
    BY <2>1, <2>2 DEF CompositorType
  <2>4. compositor'.pc = "second" /\ compositor'.task = t
    BY <2>1, <2>2 DEF CompositorType
  <2> QED
    BY <2>3, <2>4
<1>s. Stage(t) = Untouched /\ Stage(t)'.pc = "second"
  BY <1>1, <1>2, CompositorFacts DEF Stage
<1>3. /\ t \notin dangling /\ ~Doubtful(t)
      /\ \A j \in Both : /\ Public(t, j) /\ ~Private(t, j) /\ Buffer(t, j) = framebuffers[t][j]
                         /\ IsMapped(t, j) <=> ~Displaced(t, j)
                         /\ ~TakenApart(t, j) /\ ~Parting(t, j, {"freeplace"})
                         /\ ~Parting(t, j, {"freepages", "freeplace"})
  BY <1>1, Swaps
<1>4. \A u \in Task \ {t} : Undisturbed(u)
  BY <1>1, <1>2, FrameAlone
<1>6. \A j \in Both : /\ Same(t, j)
                      /\ ~TakenApart(t, j)'
                      /\ ~Displaced(t, j) /\ (Displaced(t, j)' <=> j = 1)
                      /\ ~Parting(t, j, {"freeplace"})'
                      /\ ~Parting(t, j, {"freepages", "freeplace"})'
  BY <1>1, <1>s DEF Same, Private, Public, Buffer, TakenApart, Displaced, Parting, Untouched
<1>7. ~Doubtful(t)'
  BY <1>1 DEF Doubtful
<1>m. IsMapped(t, 1) /\ ~IsMapped(t, 1)' /\ UnmapPages(SlotOf(t, 1))
  <2>1. SlotOf(t, 1) = framebuffers[t][1].slot
    BY <1>3, Constants DEF SlotOf
  <2>2. ~IsMapped(t, 1)'
    BY <1>3, <1>6, Constants DEF IsMapped, Same
  <2> QED
    BY <1>1, <1>3, <1>6, <2>1, <2>2, Constants
<1>mmu. /\ mmu' \in [Slot -> Page \cup {NoPage}]
        /\ \A u \in Task \ {t} : Settled(u, 1) => mmu'[PixelsOf(u, 1)] = mmu[PixelsOf(u, 1)]
  BY <1>m, UnmapIsPrivate, Constants
<1>5. \A u \in Task \ {t} : AppInv(u)' /\ \A j \in Both : Stays(u, j)
  BY <1>4, <1>mmu, OthersStay
<1>8. \A j \in Both : PlaceStays(t, j) /\ SettledStays(t, j)
  BY <1>1, <1>3, <1>6 DEF PlaceStays, SettledStays, Settled, HasPlace, PixelsOf, Same
<1>9. \A j \in Both : PageStays(t, j)
  BY <1>1, <1>3, <1>6, <1>7 DEF PageStays, HasPage, MayHavePage, PageOf, Same
<1>10. \A j \in Both : j # 1 => MapStays(t, j)
  BY <1>1, <1>3, <1>6, <1>7 DEF MapStays, IsMapped, MayBeMapped, PageOf, SlotOf, Same
<1>12. FrameType'
  BY <1>1, <1>2, <1>mmu DEF FrameInv, FrameType, CompositorType, CompositorPc
<1>13. AppInv(t)'
  <2>1. AppInv(t)
    BY DEF FrameInv
  <2> QED
    BY <1>1, <1>s, <2>1, Constants DEF AppInv
<1>14. DrawInv'
  BY <1>2 DEF DrawInv
<1>15. PlaceInv'
  BY <1>1, <1>5, <1>8, PlacesStay DEF FrameInv, Stays
<1>16. PageInv'
  BY <1>1, <1>5, <1>9, PagesStay DEF Stays
<1>17. MapInv'
  <2>1. \A u \in Task : \A j \in Both : /\ u # t \/ j # 1 => MapStays(u, j)
                                        /\ SettledStays(u, j)
    BY <1>5, <1>8, <1>10 DEF Stays
  <2> QED
    BY <1>m, <2>1, MapIsUndone, Constants
<1> QED
  BY <1>5, <1>12, <1>13, <1>14, <1>15, <1>16, <1>17 DEF FrameInv

LEMMA SwapSecondKeeps == ASSUME FrameInv, SwapSecond PROVE FrameInv'
<1>t. PICK t \in Task : t = compositor.task
  BY CompositorFacts
<1>1. /\ compositor.pc = "second" /\ Turns("exchange")
      /\ UnmapPages(framebuffers[t][2].slot)
      /\ UNCHANGED <<given, taken, framebuffers, app, kills, dangling, gaveUp>>
  BY <1>t DEF SwapSecond, On, CompositorOnly
<1>inv. AppInv(t) /\ Stage(t) = [pc |-> "second", i |-> compositor.i]
  BY <1>1, <1>t, CompositorFacts DEF FrameInv
<1>pc. app[t].pc \in {"swap", "killedswap"}
  BY <1>inv DEF AppInv
<1>2. compositor' \in CompositorType /\ compositor'.pc = "exchange" /\ compositor'.task = t
  <2>1. "exchange" \in CompositorPc
    BY DEF CompositorPc
  <2> QED
    BY <1>1, <1>t, <2>1, TurnsFacts
<1>s. Stage(t).pc = "second" /\ Stage(t)'.pc = "exchange"
  BY <1>inv, <1>2 DEF Stage
<1>3. /\ t \notin dangling /\ ~Doubtful(t)
      /\ \A j \in Both : /\ Public(t, j) /\ ~Private(t, j) /\ Buffer(t, j) = framebuffers[t][j]
                         /\ IsMapped(t, j) <=> ~Displaced(t, j)
                         /\ ~TakenApart(t, j) /\ ~Parting(t, j, {"freeplace"})
                         /\ ~Parting(t, j, {"freepages", "freeplace"})
  BY <1>pc, Swaps
<1>4. \A u \in Task \ {t} : Undisturbed(u)
  <2>1. compositor.task = t
    BY <1>t
  <2> QED
    BY <1>1, <1>2, <2>1, FrameAlone
<1>6. \A j \in Both : /\ Same(t, j)
                      /\ ~TakenApart(t, j)'
                      /\ (Displaced(t, j) <=> j = 1) /\ Displaced(t, j)'
                      /\ ~Parting(t, j, {"freeplace"})'
                      /\ ~Parting(t, j, {"freepages", "freeplace"})'
  BY <1>1, <1>s DEF Same, Private, Public, Buffer, TakenApart, Displaced, Parting
<1>7. ~Doubtful(t)'
  BY <1>1, <1>pc DEF Doubtful
<1>m. IsMapped(t, 2) /\ ~IsMapped(t, 2)' /\ UnmapPages(SlotOf(t, 2))
  <2>1. SlotOf(t, 2) = framebuffers[t][2].slot
    BY <1>3, Constants DEF SlotOf
  <2>2. ~IsMapped(t, 2)'
    BY <1>3, <1>6, Constants DEF IsMapped, Same
  <2> QED
    BY <1>1, <1>3, <1>6, <2>1, <2>2, Constants
<1>mmu. /\ mmu' \in [Slot -> Page \cup {NoPage}]
        /\ \A u \in Task \ {t} : Settled(u, 1) => mmu'[PixelsOf(u, 1)] = mmu[PixelsOf(u, 1)]
  BY <1>m, UnmapIsPrivate, Constants
<1>5. \A u \in Task \ {t} : AppInv(u)' /\ \A j \in Both : Stays(u, j)
  BY <1>4, <1>mmu, OthersStay
<1>8. \A j \in Both : PlaceStays(t, j) /\ SettledStays(t, j)
  BY <1>1, <1>3, <1>6 DEF PlaceStays, SettledStays, Settled, HasPlace, PixelsOf, Same
<1>9. \A j \in Both : PageStays(t, j)
  BY <1>1, <1>3, <1>6, <1>7 DEF PageStays, HasPage, MayHavePage, PageOf, Same
<1>10. \A j \in Both : j # 2 => MapStays(t, j)
  <2>1. \A j \in Both : j # 2 => Displaced(t, j) /\ Displaced(t, j)'
    BY <1>6 DEF Both
  <2>2. \A j \in Both : j # 2 => ~IsMapped(t, j)'
    BY <1>3, <1>6, <2>1 DEF IsMapped, Same
  <2>3. \A j \in Both : j # 2 => ~MayBeMapped(t, j)
    BY <1>3, <2>1 DEF MayBeMapped
  <2> QED
    BY <2>2, <2>3 DEF MapStays
<1>12. FrameType'
  BY <1>1, <1>2, <1>mmu DEF FrameInv, FrameType, CompositorType, CompositorPc
<1>13. AppInv(t)'
  BY <1>1, <1>s, <1>pc, <1>inv, Constants DEF AppInv
<1>14. DrawInv'
  BY <1>2 DEF DrawInv
<1>15. PlaceInv'
  BY <1>1, <1>5, <1>8, PlacesStay DEF FrameInv, Stays
<1>16. PageInv'
  BY <1>1, <1>5, <1>9, PagesStay DEF Stays
<1>17. MapInv'
  <2>1. \A u \in Task : \A j \in Both : /\ u # t \/ j # 2 => MapStays(u, j)
                                        /\ SettledStays(u, j)
    BY <1>5, <1>8, <1>10 DEF Stays
  <2> QED
    BY <1>m, <2>1, MapIsUndone, Constants
<1> QED
  BY <1>5, <1>12, <1>13, <1>14, <1>15, <1>16, <1>17 DEF FrameInv

(* Either of its places is free for a framebuffer of the window that was   *)
(* unmapped, and no other window's.                                        *)
LEMMA SwapIsPrivate ==
    ASSUME FrameInv, NEW w \in Task, app[w].pc \in {"swap", "killedswap"},
           NEW s \in Slot, NEW q \in Page, NEW k \in Both, s = framebuffers[w][k].slot, MapPages(s, q)
    PROVE  /\ mmu' \in [Slot -> Page \cup {NoPage}]
           /\ \A u \in Task \ {w} : Settled(u, 1) => mmu'[PixelsOf(u, 1)] = mmu[PixelsOf(u, 1)]
           /\ \A u \in Task : \A j \in Both : u # w /\ Settled(u, j) => PixelsOf(u, j) # s
<1>1. /\ mmu' \in [Slot -> Page \cup {NoPage}]
      /\ \A r \in Slot : r # s => mmu'[r] = mmu[r]
  BY TypeFacts DEF MapPages
<1>2. PICK i \in Both : HasPlace(w, i) /\ PixelsOf(w, i) = s
  <2>1. \A j \in Both : HasPlace(w, j) /\ PixelsOf(w, j) = framebuffers[w][j].pixels
    BY Swaps DEF PixelsOf
  <2>2. s = framebuffers[w][1].pixels \/ s = framebuffers[w][2].pixels
    BY Swaps DEF Both
  <2> QED
    BY <2>1, <2>2, Constants
<1>3. ASSUME NEW u \in Task, NEW j \in Both, u # w, Settled(u, j)
      PROVE  PixelsOf(u, j) \in Slot /\ PixelsOf(u, j) # s
  <2>1. HasPlace(u, j) /\ PixelsOf(u, j) \in Slot
    BY <1>3, TokenFacts
  <2> QED
    BY <1>2, <1>3, <2>1 DEF FrameInv, PlaceInv
<1> QED
  BY <1>1, <1>3, Constants

LEMMA SwapMapsFirstKeeps == ASSUME FrameInv, SwapMapsFirst PROVE FrameInv'
<1>t. PICK t \in Task : t = compositor.task
  BY CompositorFacts
<1> DEFINE pair == Exchanged(framebuffers[t])
<1>0. CASE mmu[pair[1].slot] # NoPage
  BY <1>t, <1>0, AbortKeeps DEF SwapMapsFirst, Abort
<1>a. CASE mmu[pair[1].slot] = NoPage
  <2>1. /\ compositor.pc = "exchange" /\ Turns("last")
        /\ framebuffers' = [framebuffers EXCEPT ![t] = pair]
        /\ MapPages(pair[1].slot, pair[1].page)
        /\ UNCHANGED <<given, taken, app, kills, dangling, gaveUp>>
    BY <1>t, <1>a DEF SwapMapsFirst, On, CompositorOnly
  <2>inv. AppInv(t) /\ Stage(t) = [pc |-> "exchange", i |-> compositor.i]
    BY <2>1, <1>t, CompositorFacts DEF FrameInv
  <2>pc. app[t].pc \in {"swap", "killedswap"}
    BY <2>inv DEF AppInv
  <2>2. compositor' \in CompositorType /\ compositor'.pc = "last" /\ compositor'.task = t
    <3>1. "last" \in CompositorPc
      BY DEF CompositorPc
    <3> QED
      BY <2>1, <1>t, <3>1, TurnsFacts
  <2>s. Stage(t).pc = "exchange" /\ Stage(t)'.pc = "last"
    BY <2>inv, <2>2 DEF Stage
  <2>3. /\ t \notin dangling /\ ~Doubtful(t)
        /\ \A j \in Both : /\ Public(t, j) /\ ~Private(t, j) /\ Buffer(t, j) = framebuffers[t][j]
                           /\ IsMapped(t, j) <=> ~Displaced(t, j)
                           /\ MayBeMapped(t, j) <=> IsMapped(t, j)
                           /\ ~TakenApart(t, j) /\ ~Parting(t, j, {"freeplace"})
                           /\ ~Parting(t, j, {"freepages", "freeplace"})
                           /\ HasPlace(t, j) /\ HasPage(t, j)
    BY <2>pc, Swaps
  <2>x. PICK first \in Framebuffer, second \in Framebuffer :
          first = framebuffers[t][1] /\ second = framebuffers[t][2]
    BY <2>pc, Swaps
  <2>y. PICK one \in Framebuffer, two \in Framebuffer :
          /\ pair = <<one, two>>
          /\ one.pixels = first.pixels /\ one.page = first.page /\ one.slot = second.slot
          /\ two.pixels = second.pixels /\ two.page = second.page /\ two.slot = first.slot
    <3> DEFINE one == [first EXCEPT !.slot = second.slot]
               two == [second EXCEPT !.slot = first.slot]
    <3>1. one \in Framebuffer /\ two \in Framebuffer
      BY DEF Framebuffer
    <3>2. /\ one.pixels = first.pixels /\ one.page = first.page /\ one.slot = second.slot
          /\ two.pixels = second.pixels /\ two.page = second.page /\ two.slot = first.slot
      BY DEF Framebuffer
    <3>3. pair = <<one, two>>
      BY <2>x DEF Exchanged
    <3> HIDE DEF one, two, pair
    <3> QED
      BY <3>1, <3>2, <3>3
  <2>slots. one.slot \in Slot /\ one.page \in Page /\ pair[1].slot = one.slot /\ pair[1].page = one.page
    <3>1. pair[1] = one
      BY <2>y
    <3> QED
      BY <3>1, Constants
  <2>map. MapPages(one.slot, one.page) /\ mmu[one.slot] = NoPage
    <3> HIDE DEF pair
    <3> QED
      BY <1>a, <2>1, <2>slots
  <2>f. /\ framebuffers' \in [Task -> Pointer \X Pointer]
        /\ framebuffers'[t] = <<one, two>>
        /\ \A u \in Task \ {t} : framebuffers'[u] = framebuffers[u]
    <3> HIDE DEF pair
    <3>1. <<one, two>> \in Pointer \X Pointer
      BY Constants
    <3>2. framebuffers' = [framebuffers EXCEPT ![t] = <<one, two>>]
      BY <2>1, <2>y
    <3> QED
      BY <3>1, <3>2, TypeFacts
  <2> HIDE DEF pair
  <2>4. \A u \in Task \ {t} : Undisturbed(u)
    <3>1. compositor.task = t
      BY <1>t
    <3> QED
      BY <2>1, <2>2, <2>f, <3>1, FrameAlone
  <2>p. \A j \in Both : /\ ~Private(t, j)' /\ Public(t, j)'
                        /\ j = 1 => Buffer(t, j)' = one
                        /\ j = 2 => Buffer(t, j)' = two
    BY <2>1, <2>pc, <2>f, Constants DEF Private, Public, Buffer, Both
  <2>6. \A j \in Both : /\ ~TakenApart(t, j)'
                        /\ Displaced(t, j) /\ (Displaced(t, j)' <=> j = 2)
                        /\ ~Parting(t, j, {"freeplace"})'
                        /\ ~Parting(t, j, {"freepages", "freeplace"})'
    BY <2>s DEF TakenApart, Displaced, Parting
  <2>7. ~Doubtful(t)'
    BY <2>1, <2>pc DEF Doubtful
  <2>app. app'[t].pc \in {"swap", "killedswap"} /\ t \notin dangling'
    BY <2>1, <2>pc, <2>3
  <2>of. \A j \in Both : PixelsOf(t, j)' = PixelsOf(t, j) /\ PageOf(t, j)' = PageOf(t, j)
    BY <2>3, <2>x, <2>y, <2>p DEF PixelsOf, PageOf, Both
  <2>has. \A j \in Both : /\ HasPlace(t, j)' /\ HasPage(t, j)'
                          /\ ~MayBeMapped(t, j)
                          /\ IsMapped(t, j)' <=> j = 1
                          /\ Settled(t, j)
    <3>1. \A j \in Both : HasPlace(t, j)'
      BY <2>6, <2>p, <2>app DEF HasPlace
    <3>2. \A j \in Both : HasPage(t, j)'
      BY <2>6, <2>7, <2>p, <2>app DEF HasPage
    <3>3. \A j \in Both : IsMapped(t, j)' <=> ~Displaced(t, j)'
      BY <2>6, <2>7, <2>p, <2>app DEF IsMapped
    <3>4. \A j \in Both : ~MayBeMapped(t, j) /\ Settled(t, j)
      BY <2>3, <2>6 DEF Settled
    <3> QED
      BY <2>6, <3>1, <3>2, <3>3, <3>4 DEF Both
  <2>8. \A j \in Both : PlaceStays(t, j) /\ SettledStays(t, j) /\ PageStays(t, j)
    BY <2>3, <2>7, <2>of, <2>has DEF PlaceStays, SettledStays, PageStays, MayHavePage
  <2>10. \A j \in Both : j # 1 => MapStays(t, j)
    BY <2>has DEF MapStays
  <2>mmu. /\ mmu' \in [Slot -> Page \cup {NoPage}]
          /\ \A u \in Task \ {t} : Settled(u, 1) => mmu'[PixelsOf(u, 1)] = mmu[PixelsOf(u, 1)]
          /\ \A u \in Task : \A j \in Both : u # t /\ Settled(u, j) => PixelsOf(u, j) # one.slot
    <3>1. PICK s \in Slot, q \in Page : s = one.slot /\ q = one.page
      BY <2>slots
    <3>2. MapPages(s, q) /\ s = framebuffers[t][2].slot
      BY <2>map, <2>x, <2>y, <3>1
    <3> QED
      BY <2>pc, <3>1, <3>2, SwapIsPrivate, Constants
  <2>5. \A u \in Task \ {t} : AppInv(u)' /\ \A j \in Both : Stays(u, j)
    BY <2>4, <2>mmu, OthersStay
  <2>12. FrameType'
    BY <2>1, <2>2, <2>f, <2>mmu DEF FrameInv, FrameType, CompositorType, CompositorPc
  <2>13. AppInv(t)'
    <3>1. framebuffers'[t][1] = one /\ framebuffers'[t][2] = two /\ one # Null /\ two # Null
      BY <2>f, Constants
    <3>2. \/ one.slot = one.pixels /\ two.slot = two.pixels
          \/ one.slot = two.pixels /\ two.slot = one.pixels
      BY <2>pc, <2>x, <2>y, Swaps
    <3>3. app'[t] = app[t]
      BY <2>1
    <3> QED
      BY <2>1, <2>s, <2>app, <2>inv, <3>1, <3>2, <3>3, Constants DEF AppInv, Both
  <2>14. DrawInv'
    BY <2>2 DEF DrawInv
  <2>15. PlaceInv'
    BY <2>1, <2>5, <2>8, PlacesStay DEF FrameInv, Stays
  <2>16. PageInv'
    BY <2>1, <2>5, <2>8, PagesStay DEF Stays
  <2>17. MapInv'
    <3>1. PICK s \in Slot, q \in Page : s = one.slot /\ q = one.page
      BY <2>slots
    <3>2. MapPages(s, q) /\ mmu[s] = NoPage
      BY <2>map, <3>1
    <3>3. ~MayBeMapped(t, 1) /\ MayBeMapped(t, 1)' /\ SettledStays(t, 1)
      BY <2>has, <2>8, Constants DEF MayBeMapped
    <3>4. SlotOf(t, 1)' = s /\ PageOf(t, 1)' = q
      BY <2>p, <3>1, Constants DEF SlotOf, PageOf
    <3>5. \A u \in Task : \A j \in Both : u # t \/ j # 1 => MapStays(u, j) /\ SettledStays(u, j)
      BY <2>5, <2>8, <2>10 DEF Stays
    <3>6. \A u \in Task : \A j \in Both : u # t /\ Settled(u, j) => PixelsOf(u, j) # s
      BY <2>mmu, <3>1
    <3> QED
      BY <3>2, <3>3, <3>4, <3>5, <3>6, MapIsMade, Constants
  <2> QED
    BY <2>5, <2>12, <2>13, <2>14, <2>15, <2>16, <2>17 DEF FrameInv
<1> QED
  BY <1>0, <1>a

LEMMA SwapMapsSecondKeeps == ASSUME FrameInv, SwapMapsSecond PROVE FrameInv'
<1>t. PICK t \in Task : t = compositor.task
  BY CompositorFacts
<1> DEFINE fb == framebuffers[t][2]
<1>0. CASE mmu[fb.slot] # NoPage
  BY <1>t, <1>0, AbortKeeps DEF SwapMapsSecond, Abort
<1>a. CASE mmu[fb.slot] = NoPage
  <2> DEFINE new == [app[t] EXCEPT !.pc = IF app[t].pc = "swap" THEN "rest" ELSE "killed"]
  <2>1. /\ compositor.pc = "last" /\ compositor' = Idle
        /\ app' = [app EXCEPT ![t] = new]
        /\ MapPages(fb.slot, fb.page)
        /\ UNCHANGED <<given, taken, framebuffers, kills, dangling, gaveUp>>
    BY <1>t, <1>a DEF SwapMapsSecond, On, CompositorOnly
  <2>inv. AppInv(t) /\ Stage(t) = [pc |-> "last", i |-> compositor.i]
    BY <2>1, <1>t, CompositorFacts DEF FrameInv
  <2>pc. app[t].pc \in {"swap", "killedswap"}
    BY <2>inv DEF AppInv
  <2>2. compositor' \in CompositorType /\ compositor'.pc = "idle"
    BY <2>1, CompositorFacts
  <2>s. Stage(t).pc = "last" /\ Stage(t)' = Untouched
    BY <2>inv, <2>2 DEF Stage
  <2>new. /\ new \in [pc : AppPc, i : 0..2, fb : Partial] /\ new.fb = app[t].fb
          /\ new.pc = IF app[t].pc = "swap" THEN "rest" ELSE "killed"
    BY TypeFacts DEF AppPc
  <2> HIDE DEF new
  <2>app. /\ app' \in [Task -> [pc : AppPc, i : 0..2, fb : Partial]] /\ app'[t] = new
          /\ \A u \in Task \ {t} : app'[u] = app[u]
          /\ app'[t].pc \in {"rest", "killed"} /\ app'[t].fb = Null
    <3>1. app[t].fb = Null
      BY <2>inv, <2>pc DEF AppInv
    <3> QED
      BY <2>1, <2>new, <3>1, TypeFacts
  <2>3. /\ t \notin dangling /\ ~Doubtful(t)
        /\ \A j \in Both : /\ Public(t, j) /\ ~Private(t, j) /\ Buffer(t, j) = framebuffers[t][j]
                           /\ IsMapped(t, j) <=> ~Displaced(t, j)
                           /\ MayBeMapped(t, j) <=> IsMapped(t, j)
                           /\ HasPlace(t, j) /\ HasPage(t, j)
    BY <2>pc, Swaps
  <2>4. \A u \in Task \ {t} : Undisturbed(u)
    <3>1. compositor.task = t
      BY <1>t
    <3> QED
      BY <2>1, <2>2, <2>app, <3>1, FrameAlone
  <2>6. \A j \in Both : /\ Same(t, j)
                        /\ ~TakenApart(t, j)'
                        /\ (Displaced(t, j) <=> j = 2) /\ ~Displaced(t, j)'
                        /\ ~Parting(t, j, {"freeplace"})'
                        /\ ~Parting(t, j, {"freepages", "freeplace"})'
    <3>1. \A j \in Both : ~Private(t, j)'
      BY <2>app DEF Private
    <3> QED
      BY <2>1, <2>s, <2>3, <3>1 DEF Same, Public, Buffer, TakenApart, Displaced, Parting, Untouched
  <2>7. ~Doubtful(t)'
    BY <2>3, <2>6, Constants DEF Doubtful, Same
  <2>has. \A j \in Both : /\ HasPlace(t, j)' /\ HasPage(t, j)' /\ IsMapped(t, j)'
                          /\ MayBeMapped(t, j) <=> j = 1
                          /\ Settled(t, j)
    <3>p. \A j \in Both : Public(t, j)' /\ Public(t, j)
      BY <2>3, <2>6 DEF Same
    <3>d. t \notin dangling'
      BY <2>1, <2>3
    <3>1. \A j \in Both : HasPlace(t, j)'
      BY <2>6, <3>p, <3>d DEF HasPlace
    <3>2. \A j \in Both : HasPage(t, j)'
      BY <2>6, <2>7, <3>p, <3>d, <2>app DEF HasPage
    <3>3. \A j \in Both : IsMapped(t, j)'
      BY <2>6, <2>7, <3>p, <3>d, <2>app DEF IsMapped
    <3>4. \A j \in Both : (MayBeMapped(t, j) <=> j = 1) /\ Settled(t, j)
      BY <2>3, <2>6, <3>p DEF Settled, Both
    <3> QED
      BY <3>1, <3>2, <3>3, <3>4
  <2>of. \A j \in Both : PixelsOf(t, j)' = PixelsOf(t, j) /\ PageOf(t, j)' = PageOf(t, j) /\ SlotOf(t, j)' = SlotOf(t, j)
    BY <2>6 DEF PixelsOf, PageOf, SlotOf, Same
  <2>8. \A j \in Both : PlaceStays(t, j) /\ SettledStays(t, j) /\ PageStays(t, j)
    BY <2>3, <2>7, <2>of, <2>has DEF PlaceStays, SettledStays, PageStays, MayHavePage
  <2>10. \A j \in Both : j # 2 => MapStays(t, j)
    <3>1. \A j \in Both : j # 2 => IsMapped(t, j)
      BY <2>3, <2>6
    <3> QED
      BY <2>of, <2>has, <3>1 DEF MapStays, MayBeMapped
  <2>x. PICK s \in Slot, q \in Page : s = fb.slot /\ q = fb.page
    BY <2>pc, Swaps, Constants
  <2>map. MapPages(s, q) /\ mmu[s] = NoPage
    BY <1>a, <2>1, <2>x
  <2>mmu. /\ mmu' \in [Slot -> Page \cup {NoPage}]
          /\ \A u \in Task \ {t} : Settled(u, 1) => mmu'[PixelsOf(u, 1)] = mmu[PixelsOf(u, 1)]
          /\ \A u \in Task : \A j \in Both : u # t /\ Settled(u, j) => PixelsOf(u, j) # s
    BY <2>pc, <2>x, <2>map, SwapIsPrivate, Constants
  <2>5. \A u \in Task \ {t} : AppInv(u)' /\ \A j \in Both : Stays(u, j)
    BY <2>4, <2>mmu, OthersStay
  <2>12. FrameType'
    BY <2>1, <2>2, <2>app, <2>mmu DEF FrameInv, FrameType, CompositorType, CompositorPc
  <2>13. AppInv(t)'
    <3>1. /\ framebuffers'[t] = framebuffers[t] /\ t \notin dangling'
          /\ framebuffers[t][1] # Null /\ framebuffers[t][2] # Null
      BY <2>1, <2>3, Constants DEF Public
    <3> QED
      BY <2>s, <2>app, <2>inv, <3>1, Constants DEF AppInv, Untouched
  <2>14. DrawInv'
    BY <2>2 DEF DrawInv
  <2>15. PlaceInv'
    BY <2>1, <2>5, <2>8, PlacesStay DEF FrameInv, Stays
  <2>16. PageInv'
    BY <2>1, <2>5, <2>8, PagesStay DEF Stays
  <2>17. MapInv'
    <3>1. ~MayBeMapped(t, 2) /\ MayBeMapped(t, 2)' /\ SettledStays(t, 2)
      BY <2>has, <2>8, Constants DEF MayBeMapped
    <3>2. SlotOf(t, 2)' = s /\ PageOf(t, 2)' = q
      BY <2>3, <2>of, <2>x, Constants DEF SlotOf, PageOf
    <3>3. \A u \in Task : \A j \in Both : u # t \/ j # 2 => MapStays(u, j) /\ SettledStays(u, j)
      BY <2>5, <2>8, <2>10 DEF Stays
    <3>4. \A u \in Task : \A j \in Both : u # t /\ Settled(u, j) => PixelsOf(u, j) # s
      BY <2>mmu
    <3> QED
      BY <2>map, <3>1, <3>2, <3>3, <3>4, MapIsMade, Constants
  <2> QED
    BY <2>5, <2>12, <2>13, <2>14, <2>15, <2>16, <2>17 DEF FrameInv
<1> QED
  BY <1>0, <1>a
-----------------------------------------------------------------------------
LEMMA FrameInit == Init => FrameInv
<1> SUFFICES ASSUME Init PROVE FrameInv
  OBVIOUS
<1>1. /\ given = {} /\ taken = {} /\ mmu = [s \in Slot |-> NoPage]
      /\ framebuffers = [t \in Task |-> <<Null, Null>>] /\ app = [t \in Task |-> Rest]
      /\ compositor = Idle /\ kills = 0 /\ dangling = {} /\ gaveUp = {}
  BY DEF Init, PagesInit
<1>2. Idle \in CompositorType /\ Idle.pc = "idle"
  <2>1. "idle" \in CompositorPc
    BY DEF CompositorPc
  <2> QED
    BY <2>1, FramebufferAssumption, Constants DEF Idle, CompositorType
<1>3. Rest \in [pc : AppPc, i : 0..2, fb : Partial] /\ Rest.pc = "rest" /\ Rest.fb = Null
  BY Constants DEF AppPc, Rest
<1>4. FrameType
  <2>1. <<Null, Null>> \in Pointer \X Pointer
    BY Constants
  <2> QED
    BY <1>1, <1>2, <1>3, <2>1, FramebufferAssumption
       DEF FrameType, CompositorType, CompositorPc
<1>5. \A t \in Task : /\ framebuffers[t][1] = Null /\ framebuffers[t][2] = Null
                      /\ app[t].pc = "rest" /\ app[t].fb = Null /\ Stage(t) = Untouched
  BY <1>1, <1>2, <1>3 DEF Stage
<1>6. \A t \in Task : AppInv(t)
  BY <1>1, <1>5 DEF AppInv, Untouched
<1>7. DrawInv
  BY <1>1, <1>2 DEF DrawInv
<1>8. \A t \in Task : \A i \in Both : ~Private(t, i) /\ ~Public(t, i)
  BY <1>5 DEF Private, Public, Both
<1>9. \A t \in Task : \A i \in Both : ~HasPlace(t, i) /\ ~HasPage(t, i) /\ ~IsMapped(t, i) /\ ~Settled(t, i)
  BY <1>8 DEF HasPlace, HasPage, IsMapped, Settled
<1>10. \A s \in Slot : mmu[s] = NoPage
  BY <1>1
<1> QED
  BY <1>1, <1>4, <1>6, <1>7, <1>9, <1>10 DEF FrameInv, PlaceInv, PageInv, MapInv

LEMMA AbortsKeep ==
    ASSUME FrameInv, DrawFreed \/ DrawEmpty \/ FreeTwice \/ FreeUnmapped PROVE FrameInv'
<1>1. UNCHANGED <<given, mmu, taken, framebuffers, app, compositor, kills, dangling, gaveUp>>
  BY DEF DrawFreed, DrawEmpty, FreeTwice, FreeUnmapped, Abort
<1> QED
  BY <1>1, AbortKeeps

LEMMA FrameStep == FrameInv /\ [Next]_vars => FrameInv'
<1> SUFFICES ASSUME FrameInv, [Next]_vars PROVE FrameInv'
  OBVIOUS
<1>1. ASSUME NEW t \in Task, TaskStep(t) PROVE FrameInv'
  BY <1>1, CreateBeginsKeeps, TakePlaceKeeps, TakePagesKeeps, MapNewKeeps, PublishKeeps,
     NoPlaceKeeps, NoPagesKeeps, CleanUnmapKeeps, CleanReturnKeeps, CleanLeaveKeeps, CleanClearKeeps,
     AsksKeeps, KillKeeps DEF TaskStep
<1>2. ASSUME Frame PROVE FrameInv'
  BY <1>2, SeeFrontKeeps, DrawKeeps, SwapBeginsKeeps, SwapSecondKeeps, SwapMapsFirstKeeps,
     SwapMapsSecondKeeps, FreeBeginsKeeps, FreeNothingKeeps, FreeUnmapsKeeps, FreeReturnsKeeps,
     FreeLeavesKeeps, FreeEndsKeeps, AbortsKeep DEF Frame
<1>3. CASE UNCHANGED vars
  BY <1>3, AbortKeeps DEF vars, pageVars
<1> QED
  BY <1>1, <1>2, <1>3 DEF Next

(* Throughout window_framebuffer_create, framebuffer_swap and              *)
(* framebuffer_free, whatever the two cores interleave and wherever a kill *)
(* stops a task: every place, every page and every mapping is of one       *)
(* framebuffer, and the code's next step finds it there.                   *)
THEOREM FrameInvariance == Spec => []FrameInv
BY FrameInit, FrameStep, PTL DEF Spec
-----------------------------------------------------------------------------
(* What the runs check follows.                                            *)

(* A window that nobody swaps or takes apart has what its pointers name.   *)
LEMMA Intact ==
    ASSUME FrameInv, NEW t \in Task, ~Freeing(t), ~Cleaning(t), NEW i \in Both, Public(t, i)
    PROVE  /\ ~Private(t, i) /\ Buffer(t, i) = framebuffers[t][i] /\ framebuffers[t][i] \in Framebuffer
           /\ HasPlace(t, i) /\ HasPage(t, i) /\ Settled(t, i)
           /\ ~Swapping(t) => IsMapped(t, i)
<1>1. AppInv(t) /\ dangling \subseteq gaveUp /\ framebuffers[t][i] \in Pointer
  BY TypeFacts DEF FrameInv, FrameType
<1>2. ~Private(t, i) /\ Buffer(t, i) = framebuffers[t][i] /\ framebuffers[t][i] \in Framebuffer
  <2>1. ~Private(t, i)
    BY <1>1 DEF Private, Public, AppInv, Both
  <2> QED
    BY <1>1, <2>1 DEF Buffer, Public, Pointer
<1>3. Stage(t).pc \notin {"free", "freepages", "freeplace", "done"}
  BY DEF Stage, Freeing, Untouched
<1>4. /\ ~TakenApart(t, i) /\ ~Parting(t, i, {"freeplace"}) /\ ~Parting(t, i, {"freepages", "freeplace"})
  BY <1>3 DEF TakenApart, Parting
<1>5. t \notin dangling /\ app[t].pc \notin {"return", "leave"} /\ ~Doubtful(t)
  BY <1>1 DEF AppInv, Cleaning, Doubtful
<1>6. ~Swapping(t) => ~Displaced(t, i)
  BY DEF Swapping, Displaced, Stage, Untouched
<1> QED
  BY <1>2, <1>4, <1>5, <1>6 DEF HasPlace, HasPage, IsMapped, Settled

LEMMA Shown ==
    ASSUME FrameInv, NEW t \in Task, ~Freeing(t), ~Cleaning(t), ~Swapping(t)
    PROVE  LET mine == {i \in Both : Public(t, i)} IN
             {mmu[framebuffers[t][i].pixels] : i \in mine} = {framebuffers[t][i].page : i \in mine}
<1> DEFINE mine == {i \in Both : Public(t, i)}
           first == framebuffers[t][1]
           second == framebuffers[t][2]
<1>1. \A i \in Both : Public(t, i) => mmu[framebuffers[t][i].slot] = framebuffers[t][i].page
  <2> SUFFICES ASSUME NEW i \in Both, Public(t, i)
               PROVE  mmu[framebuffers[t][i].slot] = framebuffers[t][i].page
    OBVIOUS
  <2>1. IsMapped(t, i) /\ Buffer(t, i) = framebuffers[t][i]
    BY Intact
  <2> QED
    BY <2>1 DEF FrameInv, MapInv, SlotOf, PageOf
<1>2. AppInv(t)
  BY DEF FrameInv
<1>3. CASE ~Public(t, 1)
  <2>1. mine = {}
    BY <1>2, <1>3 DEF AppInv, Public, Both
  <2> QED
    BY <2>1
<1>4. CASE Public(t, 1) /\ ~Public(t, 2)
  <2>1. mine = {1} /\ first.slot = first.pixels /\ mmu[first.slot] = first.page
    BY <1>1, <1>2, <1>4 DEF AppInv, Public, Both
  <2> QED
    BY <2>1
<1>5. CASE Public(t, 1) /\ Public(t, 2)
  <2>1. /\ mine = {1, 2} /\ mmu[first.slot] = first.page /\ mmu[second.slot] = second.page
        /\ \/ first.slot = first.pixels /\ second.slot = second.pixels
           \/ first.slot = second.pixels /\ second.slot = first.pixels
    BY <1>1, <1>2, <1>5 DEF AppInv, Public, Both
  <2>2. /\ {mmu[framebuffers[t][i].pixels] : i \in mine} = {mmu[first.pixels], mmu[second.pixels]}
        /\ {framebuffers[t][i].page : i \in mine} = {first.page, second.page}
    BY <2>1
  <2>3. {mmu[first.pixels], mmu[second.pixels]} = {first.page, second.page}
    BY <2>1
  <2> QED
    BY <2>2, <2>3
<1> QED
  BY <1>3, <1>4, <1>5

(* compositor.c, framebuffer_swap, and memory.c, framebuffer_map_pages:    *)
(* outside a swap or a destruction, the pixels of a window show the pages  *)
(* of its own two framebuffers, after any number of swaps, and whatever    *)
(* was freed and made anew in the same places.                             *)
THEOREM PixelsShow == Spec => []PixelsShowTheirWindow
<1>1. FrameInv => PixelsShowTheirWindow
  <2> SUFFICES ASSUME FrameInv, NEW t \in Task, ~Freeing(t), ~Swapping(t), ~Cleaning(t)
               PROVE  LET mine == {i \in 1..2 : framebuffers[t][i] # Null} IN
                 {mmu[framebuffers[t][i].pixels] : i \in mine} = {framebuffers[t][i].page : i \in mine}
    BY DEF PixelsShowTheirWindow
  <2>1. {i \in 1..2 : framebuffers[t][i] # Null} = {i \in Both : Public(t, i)}
    BY DEF Both, Public
  <2> QED
    BY <2>1, Shown
<1> QED
  BY <1>1, FrameInvariance, PTL

LEMMA BufferIsOfItsTask ==
    ASSUME NEW t \in Task, NEW i \in Both
    PROVE  Buffer(t, i) \in Of(t)
<1>1. Private(t, i) => app[t].fb \in Unpublished(t)
  BY DEF Private, Unpublished
<1>2. i \in 1..2
  BY DEF Both
<1> QED
  BY <1>1, <1>2 DEF Buffer, Of

LEMMA HoldersAreBuffers ==
    ASSUME FrameInv, NEW t \in Task, ~Freeing(t), ~Cleaning(t), NEW f \in Of(t), f # Null
    PROVE  \E i \in Both : /\ Buffer(t, i) = f
                           /\ HasPlace(t, i)
                           /\ f.page # NoPage => HasPage(t, i)
<1>1. CASE f \in Unpublished(t)
  <2>1. f = app[t].fb /\ app[t].pc \in {"pages", "map", "publish", "killed", "gone"}
    BY <1>1 DEF Unpublished
  <2>2. app[t].i \in Both
    <3>1. AppInv(t)
      BY DEF FrameInv
    <3> QED
      BY <2>1, <3>1 DEF AppInv
  <2>3. Private(t, app[t].i)
    BY <2>1 DEF Private
  <2> QED
    BY <2>1, <2>2, <2>3 DEF Buffer, HasPlace, HasPage
<1>2. CASE f \notin Unpublished(t)
  <2>1. PICK i \in Both : f = framebuffers[t][i]
    BY <1>2 DEF Of, Both
  <2>2. Public(t, i)
    BY <2>1 DEF Public
  <2> QED
    BY <2>1, <2>2, Intact
<1> QED
  BY <1>1, <1>2

(* memory.c, pages_allocate and framebuffer_vaddr_allocate, and the error  *)
(* paths of framebuffer_allocate and window_framebuffer_create: no place   *)
(* and no page is of two framebuffers, or of none.                         *)
THEOREM NothingLostOrShared == Spec => []NothingIsLostOrShared
<1>1. FrameInv => NothingIsLostOrShared
  <2> SUFFICES ASSUME FrameInv PROVE NothingIsLostOrShared
    OBVIOUS
  <2>1. FramebufferTypeOK
    <3>1. \A t \in Task : /\ Len(framebuffers[t]) = 2
                          /\ \A i \in 1..2 : framebuffers[t][i] \in Framebuffer \cup {Null}
                          /\ app[t].fb \in Partial /\ app[t].i \in 0..2
      <4> SUFFICES ASSUME NEW t \in Task
                   PROVE  /\ Len(framebuffers[t]) = 2
                          /\ \A i \in 1..2 : framebuffers[t][i] \in Framebuffer \cup {Null}
                          /\ app[t].fb \in Partial /\ app[t].i \in 0..2
        OBVIOUS
      <4>1. framebuffers[t] = <<framebuffers[t][1], framebuffers[t][2]>>
        BY TypeFacts
      <4>2. Len(<<framebuffers[t][1], framebuffers[t][2]>>) = 2
        OBVIOUS
      <4>3. \A i \in 1..2 : framebuffers[t][i] \in Pointer
        BY TypeFacts
      <4>4. app[t] \in [pc : AppPc, i : 0..2, fb : Partial]
        BY TypeFacts
      <4> QED
        BY <4>1, <4>2, <4>3, <4>4 DEF Pointer
    <3>2. compositor.task \in Task /\ compositor.i \in 0..2 /\ compositor.fb \in Framebuffer \cup {Null}
      BY CompositorFacts DEF CompositorType, Pointer
    <3> QED
      BY <3>1, <3>2 DEF FrameInv, FrameType, FramebufferTypeOK
  <2>2. ASSUME NEW t \in Task, NEW u \in Task, NEW f \in Of(t), NEW g \in Of(u),
               (f.pixels = g.pixels /\ f.pixels # 0) \/ (f.page = g.page /\ f.page # NoPage),
               ~ \E v \in {t, u} : Freeing(v) \/ Cleaning(v)
        PROVE  t = u /\ f = g
    <3>1. f # Null /\ g # Null /\ ~Freeing(t) /\ ~Cleaning(t) /\ ~Freeing(u) /\ ~Cleaning(u)
      BY <2>2, Constants
    <3>2. PICK i \in Both : Buffer(t, i) = f /\ HasPlace(t, i) /\ (f.page # NoPage => HasPage(t, i))
      BY <3>1, HoldersAreBuffers
    <3>3. PICK j \in Both : Buffer(u, j) = g /\ HasPlace(u, j) /\ (g.page # NoPage => HasPage(u, j))
      BY <3>1, HoldersAreBuffers
    <3>4. CASE f.pixels = g.pixels /\ f.pixels # 0
      <4>1. PixelsOf(t, i) = PixelsOf(u, j)
        BY <3>2, <3>3, <3>4 DEF PixelsOf
      <4>2. t = u /\ i = j
        BY <3>2, <3>3, <4>1 DEF FrameInv, PlaceInv
      <4> QED
        BY <3>2, <3>3, <4>2
    <3>5. CASE f.page = g.page /\ f.page # NoPage
      <4>1. HasPage(t, i) /\ HasPage(u, j) /\ PageOf(t, i) = PageOf(u, j)
        BY <3>2, <3>3, <3>5 DEF PageOf
      <4>2. t = u /\ i = j
        BY <4>1 DEF FrameInv, PageInv
      <4> QED
        BY <3>2, <3>3, <4>2
    <3> QED
      BY <2>2, <3>4, <3>5
  <2>3. ASSUME NEW s \in taken PROVE \E t \in Task : \E f \in Of(t) : f.pixels = s
    <3>1. PICK t \in Task : \E i \in Both : HasPlace(t, i) /\ PixelsOf(t, i) = s
      BY DEF FrameInv, PlaceInv
    <3>2. PICK i \in Both : PixelsOf(t, i) = s
      BY <3>1
    <3> QED
      BY <3>2, BufferIsOfItsTask DEF PixelsOf
  <2>4. ASSUME NEW q \in given PROVE \E t \in Task : \E f \in Of(t) : f.page = q
    <3>1. PICK t \in Task : \E i \in Both : MayHavePage(t, i) /\ PageOf(t, i) = q
      BY DEF FrameInv, PageInv
    <3>2. PICK i \in Both : PageOf(t, i) = q
      BY <3>1
    <3> QED
      BY <3>2, BufferIsOfItsTask DEF PageOf
  <2> QED
    BY <2>1, <2>2, <2>3, <2>4 DEF NothingIsLostOrShared
<1> QED
  BY <1>1, FrameInvariance, PTL

(* A new framebuffer finds its place mapped only by a second buffer that   *)
(* stands in the place of a first one that has left it.                    *)
LEMMA OnlyALeftover ==
    ASSUME FrameInv, NEW t \in Task, app[t].pc = "map", mmu[app[t].fb.slot] # NoPage
    PROVE  \E u \in Task : /\ Freeing(u) /\ compositor.i = 2
                           /\ framebuffers[u][2].slot # framebuffers[u][2].pixels
<1> DEFINE s == app[t].fb.slot
<1>1. PICK i \in Both : app[t].i = i /\ Private(t, i) /\ ~Public(t, i)
  BY Making
<1>2. AppInv(t) /\ s = app[t].fb.pixels /\ app[t].fb # Null
  BY DEF FrameInv, AppInv
<1>3. HasPlace(t, i) /\ PixelsOf(t, i) = s /\ s \in Slot
  <2>1. HasPlace(t, i) /\ PixelsOf(t, i) = s
    BY <1>1, <1>2 DEF HasPlace, PixelsOf, Buffer
  <2> QED
    BY <2>1, TokenFacts
<1>4. \A u \in Task : \A j \in Both : HasPlace(u, j) /\ PixelsOf(u, j) = s => u = t /\ j = i
  BY <1>3 DEF FrameInv, PlaceInv
<1>5. PICK u \in Task : \E j \in Both : MayBeMapped(u, j) /\ SlotOf(u, j) = s
  BY <1>3 DEF FrameInv, MapInv
<1>6. PICK j \in Both : MayBeMapped(u, j) /\ SlotOf(u, j) = s
  BY <1>5
<1>7. ~Private(u, j)
  <2> SUFFICES ASSUME Private(u, j) PROVE FALSE
    OBVIOUS
  <2>1. HasPlace(u, j) /\ PixelsOf(u, j) = SlotOf(u, j)
    <3>1. app[u].fb.slot = app[u].fb.pixels
      BY DEF FrameInv, AppInv, Private
    <3> QED
      BY <3>1 DEF HasPlace, PixelsOf, SlotOf, Buffer
  <2>2. u = t /\ j = i
    BY <1>4, <1>6, <2>1
  <2>3. ~MayBeMapped(t, i)
    BY <1>1 DEF MayBeMapped, IsMapped
  <2> QED
    BY <1>6, <2>2, <2>3
<1>8. /\ Public(u, j) /\ IsMapped(u, j) /\ framebuffers[u][j].slot = s /\ HasPlace(u, j)
      /\ PixelsOf(u, j) = framebuffers[u][j].pixels
  <2>1. IsMapped(u, j) /\ Public(u, j)
    BY <1>6, <1>7 DEF MayBeMapped, IsMapped
  <2>2. HasPlace(u, j)
    BY <2>1, TokenFacts
  <2> QED
    BY <1>6, <1>7, <2>1, <2>2 DEF SlotOf, PixelsOf, Buffer
<1>9. framebuffers[u][j].pixels # s
  BY <1>1, <1>4, <1>8
<1>10. AppInv(u)
  BY DEF FrameInv
<1>11. PICK k \in Both : k # j /\ Public(u, k) /\ framebuffers[u][k].pixels = s
  BY <1>8, <1>9, <1>10 DEF AppInv, Public, Both
<1>12. ~Private(u, k)
  BY <1>10, <1>11 DEF Private, Public, AppInv, Both
<1>13. ~HasPlace(u, k)
  <2>1. PixelsOf(u, k) = s
    BY <1>11, <1>12 DEF PixelsOf, Buffer
  <2> QED
    BY <1>1, <1>4, <1>11, <2>1
<1>14. u \notin dangling
  BY <1>8, <1>10, <1>11 DEF AppInv, Public, Both
<1>15. TakenApart(u, k) /\ ~TakenApart(u, j)
  BY <1>7, <1>8, <1>11, <1>13, <1>14 DEF HasPlace, IsMapped
<1>16. /\ Stage(u).pc \in {"free", "freepages", "freeplace"} /\ k < Stage(u).i /\ ~(j < Stage(u).i)
  BY <1>15 DEF TakenApart
<1>17. j = 2 /\ Stage(u).i = 2
  <2>1. Stage(u).i \in {1, 2}
    BY <1>10, <1>16 DEF AppInv, Both
  <2> QED
    BY <1>11, <1>16, <2>1 DEF Both
<1>18. Freeing(u) /\ compositor.i = 2
  BY <1>16, <1>17 DEF Stage, Freeing, Untouched
<1> QED
  BY <1>8, <1>9, <1>17, <1>18

(* framebuffer_swap never finds one of its places mapped.                  *)
LEMMA SwapsFindRoom ==
    ASSUME FrameInv, NEW t \in Task, t = compositor.task
    PROVE  /\ compositor.pc = "exchange" => mmu[framebuffers[t][2].slot] = NoPage
           /\ compositor.pc = "last" => mmu[framebuffers[t][2].slot] = NoPage
<1> SUFFICES ASSUME compositor.pc \in {"exchange", "last"}
             PROVE  mmu[framebuffers[t][2].slot] = NoPage
  OBVIOUS
<1>1. Stage(t).pc = compositor.pc
  BY CompositorFacts
<1>2. app[t].pc \in {"swap", "killedswap"}
  BY <1>1 DEF FrameInv, AppInv
<1> DEFINE s == framebuffers[t][2].slot
<1>3. \A j \in Both : HasPlace(t, j) /\ Settled(t, j) /\ PixelsOf(t, j) = framebuffers[t][j].pixels
                      /\ SlotOf(t, j) = framebuffers[t][j].slot
  BY <1>2, Swaps DEF PixelsOf, SlotOf, Settled
<1>4. PixelsOf(t, 1) # PixelsOf(t, 2)
  BY <1>3, Constants DEF FrameInv, PlaceInv
<1>5. SlotOf(t, 1) # s
  <2>1. \/ /\ framebuffers[t][1].slot = framebuffers[t][1].pixels
           /\ framebuffers[t][2].slot = framebuffers[t][2].pixels
        \/ /\ framebuffers[t][1].slot = framebuffers[t][2].pixels
           /\ framebuffers[t][2].slot = framebuffers[t][1].pixels
    BY <1>2, Swaps
  <2> QED
    BY <1>3, <1>4, <2>1, Constants
<1>6. \A j \in Both : MayBeMapped(t, j) => SlotOf(t, j) # s
  <2>1. Displaced(t, 2)
    BY <1>1 DEF Displaced
  <2>2. ~MayBeMapped(t, 2)
    BY <1>2, <2>1, Swaps, Constants
  <2> QED
    BY <1>5, <2>2 DEF Both
<1>7. PICK k \in Both : PixelsOf(t, k) = s
  <2>1. s = framebuffers[t][1].pixels \/ s = framebuffers[t][2].pixels
    BY <1>2, Swaps
  <2> QED
    BY <1>3, <2>1, Constants
<1> QED
  BY <1>3, <1>6, <1>7, EmptyPlace

(* The front buffer of a window that has both, or will have them, can be   *)
(* drawn.                                                                  *)
LEMMA FrontIsShown ==
    ASSUME FrameInv, compositor.pc = "draw", compositor.task \notin gaveUp
    PROVE  mmu[compositor.fb.pixels] # NoPage
<1>t. PICK t \in Task : t = compositor.task
  BY CompositorFacts
<1>1. Public(t, 1) /\ compositor.fb = framebuffers[t][1]
  BY <1>t DEF FrameInv, DrawInv
<1>2. ~Freeing(t) /\ ~Swapping(t) /\ ~Cleaning(t)
  BY <1>t DEF Freeing, Swapping, Cleaning
<1>3. mmu[framebuffers[t][1].pixels] \in {framebuffers[t][i].page : i \in {j \in Both : Public(t, j)}}
  <2>1. mmu[framebuffers[t][1].pixels] \in {mmu[framebuffers[t][i].pixels] : i \in {j \in Both : Public(t, j)}}
    BY <1>1, Constants
  <2> QED
    BY <1>2, <2>1, Shown
<1>4. \A i \in Both : Public(t, i) => framebuffers[t][i].page \in Page
  BY <1>2, Intact, Constants
<1> QED
  BY <1>1, <1>3, <1>4, Constants

(* framebuffer_free finds a framebuffer unmapped, or freed, only when the  *)
(* task was killed while it freed it itself.                               *)
LEMMA FreedTwice ==
    ASSUME FrameInv, compositor.pc = "free", NEW t \in Task, t = compositor.task,
           \/ compositor.i = 1 /\ t \in dangling
           \/ Freed # Null /\ mmu[Freed.slot] = NoPage
    PROVE  t \in gaveUp /\ app[t].pc = "killed"
<1>1. AppInv(t) /\ dangling \subseteq gaveUp
  BY DEF FrameInv, FrameType
<1>2. Stage(t) = [pc |-> "free", i |-> compositor.i]
  BY CompositorFacts
<1>3. PICK i \in Both : i = compositor.i
  BY <1>1, <1>2 DEF AppInv
<1>4. app[t].pc \in {"destroy", "killed"}
  BY <1>1, <1>2 DEF AppInv
<1>5. CASE t \in dangling
  BY <1>1, <1>4, <1>5 DEF AppInv
<1>6. CASE t \notin dangling
  <2>1. Public(t, i) /\ mmu[framebuffers[t][i].slot] = NoPage
    BY <1>3, <1>6 DEF Freed, Public
  <2>2. ~Private(t, i)
    BY <1>1, <2>1 DEF Private, Public, AppInv, Both
  <2>3. ~IsMapped(t, i)
    <3>1. ASSUME IsMapped(t, i) PROVE FALSE
      <4>1. mmu[SlotOf(t, i)] = PageOf(t, i) /\ PageOf(t, i) \in Page
        BY <3>1, TokenFacts DEF FrameInv, MapInv
      <4>2. SlotOf(t, i) = framebuffers[t][i].slot
        BY <2>2 DEF SlotOf, Buffer
      <4> QED
        BY <2>1, <4>1, <4>2, Constants
    <3> QED
      BY <3>1
  <2>4. /\ ~TakenApart(t, i) /\ ~Displaced(t, i) /\ ~Parting(t, i, {"freepages", "freeplace"})
    BY <1>2, <1>3 DEF TakenApart, Displaced, Parting, Both
  <2>5. Doubtful(t)
    BY <1>4, <1>6, <2>1, <2>3, <2>4 DEF IsMapped
  <2> QED
    BY <2>5 DEF Doubtful
<1> QED
  BY <1>5, <1>6

LEMMA CauseStep == FrameInv /\ FaultsHaveACause /\ [Next]_vars => FaultsHaveACause'
<1> SUFFICES ASSUME FrameInv, FaultsHaveACause, [Next]_vars PROVE FaultsHaveACause'
  OBVIOUS
<1> DEFINE same == UNCHANGED <<given, mmu, taken, framebuffers, app, compositor, kills, dangling, gaveUp>>
<1>1. ASSUME fault = "none", UNCHANGED fault PROVE FaultsHaveACause'
  BY <1>1 DEF FaultsHaveACause
<1>2. ASSUME same, fault' = "was already mapped",
             \E u \in Task : /\ Freeing(u) /\ compositor.i = 2
                             /\ framebuffers[u][2].slot # framebuffers[u][2].pixels
      PROVE  FaultsHaveACause'
  BY <1>2 DEF FaultsHaveACause, Freeing
<1>3. ASSUME same, fault' \in {"used a freed framebuffer", "drew from an empty place"},
             compositor.task \in gaveUp
      PROVE  FaultsHaveACause'
  BY <1>3 DEF FaultsHaveACause
<1>4. ASSUME same, fault' \in {"freed a framebuffer twice", "was not mapped"},
             compositor.task \in gaveUp, app[compositor.task].pc = "killed"
      PROVE  FaultsHaveACause'
  BY <1>4 DEF FaultsHaveACause
<1>t. PICK w \in Task : w = compositor.task
  BY CompositorFacts
<1>5. ASSUME NEW t \in Task, TaskStep(t) PROVE FaultsHaveACause'
  <2>1. CASE MapNew(t) /\ mmu[app[t].fb.slot] # NoPage
    <3>1. same /\ fault' = "was already mapped" /\ app[t].pc = "map"
      BY <2>1 DEF MapNew, Abort, At
    <3> QED
      BY <1>2, <2>1, <3>1, OnlyALeftover
  <2>2. CASE ~(MapNew(t) /\ mmu[app[t].fb.slot] # NoPage)
    <3>1. fault = "none" /\ UNCHANGED fault
      BY <1>5, <2>2 DEF TaskStep, CreateBegins, TakePlace, TakePages, MapNew, Publish, NoPlace, NoPages,
            CleanUnmap, CleanReturn, CleanLeave, CleanClear, Present, Destroy, Asks, Kill, At, Sane, pageVars
    <3> QED
      BY <1>1, <3>1
  <2> QED
    BY <2>1, <2>2
<1>6. ASSUME Frame PROVE FaultsHaveACause'
  <2>1. CASE DrawFreed
    BY <1>3, <2>1 DEF DrawFreed, On, Abort, FrameInv, DrawInv
  <2>2. CASE DrawEmpty
    <3>1. /\ compositor.pc = "draw" /\ mmu[compositor.fb.pixels] = NoPage /\ same
          /\ fault' = "drew from an empty place"
      BY <2>2 DEF DrawEmpty, On, Abort
    <3> QED
      BY <1>3, <3>1, FrontIsShown
  <2>3. CASE FreeTwice
    <3>1. /\ compositor.pc = "free" /\ compositor.i = 1 /\ w \in dangling /\ same
          /\ fault' = "freed a framebuffer twice"
      BY <1>t, <2>3 DEF FreeTwice, On, Abort
    <3> QED
      BY <1>4, <1>t, <3>1, FreedTwice
  <2>4. CASE FreeUnmapped
    <3>1. /\ compositor.pc = "free" /\ Freed # Null /\ mmu[Freed.slot] = NoPage /\ same
          /\ fault' = "was not mapped"
      BY <2>4 DEF FreeUnmapped, On, Abort
    <3> QED
      BY <1>4, <1>t, <3>1, FreedTwice
  <2>5. ASSUME SwapMapsFirst PROVE fault = "none" /\ UNCHANGED fault
    <3>1. compositor.pc = "exchange" /\ fault = "none"
      BY <2>5 DEF SwapMapsFirst, On, Sane
    <3>2. mmu[framebuffers[w][2].slot] = NoPage /\ Exchanged(framebuffers[w])[1].slot = framebuffers[w][2].slot
      <4>1. Stage(w).pc = "exchange"
        BY <1>t, <3>1, CompositorFacts
      <4>2. app[w].pc \in {"swap", "killedswap"}
        BY <4>1 DEF FrameInv, AppInv
      <4>3. framebuffers[w][1] \in Framebuffer /\ framebuffers[w][2] \in Framebuffer
        BY <4>2, Swaps
      <4>4. Exchanged(framebuffers[w])[1] = [framebuffers[w][1] EXCEPT !.slot = framebuffers[w][2].slot]
        BY DEF Exchanged
      <4>5. [framebuffers[w][1] EXCEPT !.slot = framebuffers[w][2].slot].slot = framebuffers[w][2].slot
        BY <4>3 DEF Framebuffer
      <4> QED
        BY <1>t, <3>1, <4>4, <4>5, SwapsFindRoom
    <3> QED
      BY <1>t, <2>5, <3>1, <3>2 DEF SwapMapsFirst
  <2>6. ASSUME SwapMapsSecond PROVE fault = "none" /\ UNCHANGED fault
    <3>1. compositor.pc = "last" /\ fault = "none"
      BY <2>6 DEF SwapMapsSecond, On, Sane
    <3>2. mmu[framebuffers[w][2].slot] = NoPage
      BY <1>t, <3>1, SwapsFindRoom
    <3> QED
      BY <1>t, <2>6, <3>1, <3>2 DEF SwapMapsSecond
  <2>7. ASSUME \/ \E t \in Task : SeeFront(t) \/ SwapBegins(t) \/ FreeBegins(t)
               \/ Draw \/ SwapSecond \/ FreeNothing \/ FreeUnmaps \/ FreeReturns \/ FreeLeaves \/ FreeEnds
        PROVE  fault = "none" /\ UNCHANGED fault
    BY <2>7 DEF SeeFront, SwapBegins, FreeBegins, Draw, SwapSecond, FreeNothing, FreeUnmaps,
         FreeReturns, FreeLeaves, FreeEnds, On, Sane, pageVars
  <2> QED
    BY <1>1, <1>6, <2>1, <2>2, <2>3, <2>4, <2>5, <2>6, <2>7 DEF Frame
<1>7. CASE UNCHANGED vars
  BY <1>7 DEF vars, pageVars, FaultsHaveACause, Freeing
<1> QED
  BY <1>5, <1>6, <1>7 DEF Next

(* compositor.c, framebuffer_free and framebuffer_swap: the MMU code       *)
(* aborts, and the compositor uses freed memory, in no other situation     *)
(* than the three of FaultsHaveACause; framebuffer_swap never aborts.      *)
THEOREM FaultsAreCaused == Spec => []FaultsHaveACause
<1>1. Init => FaultsHaveACause
  BY DEF Init, PagesInit, FaultsHaveACause
<1>2. FrameInv /\ FaultsHaveACause /\ [Next]_vars => FaultsHaveACause'
  BY CauseStep
<1> QED
  BY <1>1, <1>2, FrameInvariance, PTL DEF Spec
=============================================================================

----------------------------- MODULE PageStore -----------------------------
(***************************************************************************)
(* What memory.c and the framebuffer code expect of a page allocator: runs *)
(* of consecutive usable pages that overlap nobody else's, which go back   *)
(* whole.  The allocator may refuse any request.                           *)
(***************************************************************************)
EXTENDS Integers

CONSTANT Page               (* every page number                           *)

VARIABLES usable,           (* pages that exist behind the pool            *)
          given             (* runs handed out: [first, count]             *)

vars == <<usable, given>>

Run       == [first : Page, count : Page]
PagesOf(r) == r.first..(r.first + r.count - 1)

Init == /\ usable \in SUBSET Page
        /\ given = {}

Give(r) == /\ r.count > 0
           /\ PagesOf(r) \subseteq usable
           /\ \A g \in given : PagesOf(g) \cap PagesOf(r) = {}
           /\ given' = given \cup {r}
           /\ UNCHANGED usable

TakeBack(r) == /\ r \in given
               /\ given' = given \ {r}
               /\ UNCHANGED usable

Next == \E r \in Run : Give(r) \/ TakeBack(r)

Spec == Init /\ [][Next]_vars
=============================================================================

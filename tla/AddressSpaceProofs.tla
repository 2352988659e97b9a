------------------------- MODULE AddressSpaceProofs -------------------------
(***************************************************************************)
(* Proofs about the memory of processes, for any number of processes,      *)
(* threads, pages and kills, and increments of any size.                   *)
(***************************************************************************)
EXTENDS AddressSpace, FiniteSetTheorems, SequenceTheorems, TLAPS

Calling(t) == sbrk[t].pc # "user"
Shrinking(t) == sbrk[t].pc \in {"shrink", "unmap"}

(* What a call of why_sbrk knows of itself, whoever else is in one.        *)
CallInv ==
    \A t \in Task :
      /\ sbrk[t].pc \in {"allocate", "undo"} => sbrk[t].base + sbrk[t].n <= NumSlots
      /\ Len(sbrk[t].got) <= sbrk[t].n
      /\ sbrk[t].pc \notin {"allocate", "undo"} => sbrk[t].got = <<>>
      /\ sbrk[t].pc = "unmap" => sbrk[t].left > 0
      /\ sbrk[t].pc # "unmap" => sbrk[t].freed = <<>>

(* The task that is mapped is the one that runs.                           *)
RunInv ==
    /\ current_mapped_task = running
    /\ current_mapped_refs = IF running = NoTask THEN 0 ELSE 1

(* A process has one caller of why_sbrk that lives.                        *)
OneCaller ==
    \A t, u \in Task : ProcessOf[t] = ProcessOf[u] /\ t # u /\ life[t] = "live" /\ life[u] = "live" =>
      ~Calling(t) \/ ~Calling(u)

(* The ranges of a list lie one behind the other, below the end; those of  *)
(* a call that allocates follow it.                                        *)
Ascending(s) == \A i, j \in 1..Len(s) : i < j => s[i].slot < s[j].slot
PlaceInv ==
    /\ \A p \in Process : /\ Ascending(pages[p])
                          /\ \A i \in 1..Len(pages[p]) : pages[p][i].slot <= end[p]
    /\ \A t \in Task : life[t] = "live" /\ Shrinking(t) =>
         \A i \in 1..Len(Mine(t)) : Mine(t)[i].slot <= end[ProcessOf[t]] - sbrk[t].n + sbrk[t].left
    /\ \A t \in Task : \A i \in 1..Len(sbrk[t].got) : sbrk[t].got[i].slot = sbrk[t].base + i
    /\ \A t \in Task : life[t] = "live" /\ sbrk[t].pc = "allocate" => sbrk[t].base = end[ProcessOf[t]]

(* A call that unmaps holds what was last in the list.  If it is killed it *)
(* holds a range that is still in the list.                                *)
FreedInv ==
    /\ \A t \in Task : \A r \in Ranges(sbrk[t].freed) : r \in Ranges(Mine(t))
    /\ \A t \in Task : life[t] = "live" /\ sbrk[t].pc = "unmap" =>
         /\ Mine(t) # <<>>
         /\ sbrk[t].freed = <<Last(Mine(t))>> /\ sbrk[t].rest = Front(Mine(t))
    /\ \A t, u \in Task : ProcessOf[t] = ProcessOf[u] /\ t # u =>
         \A r \in Ranges(sbrk[t].freed) : r \notin Ranges(sbrk[u].freed)

(* The heap is full, unless a thread was killed in why_sbrk.               *)
Undisturbed(p) == /\ \A t \in Threads(p) : life[t] = "live" \/ ~Calling(t)
                  /\ \E t \in Threads(p) : life[t] # "reaped"
FullInv ==
    /\ \A t \in Task : life[t] = "live" /\ Shrinking(t) => sbrk[t].n <= end[ProcessOf[t]]
    /\ \A p \in Process : Undisturbed(p) =>
         /\ \A i \in 1..Len(pages[p]) : pages[p][i].slot = i
         /\ \A t \in Threads(p) : Shrinking(t) => Len(pages[p]) = end[p] - sbrk[t].n + sbrk[t].left
         /\ (\A t \in Threads(p) : ~Shrinking(t)) => Len(pages[p]) = end[p]

(* Who has a page: a list that shows it and has not given it back, or a    *)
(* call that has not linked it.                                            *)
Showing(p) == Ranges(pages[p]) \ Stale(p)
Got(t) == Ranges(sbrk[t].got)
Holds(h, q) ==
    \/ \E p \in Process : \E r \in Showing(p) : h = <<"space", p, r>> /\ r.page = q
    \/ \E t \in Task : \E r \in Got(t) : h = <<"call", t, r>> /\ r.page = q
PageInv ==
    /\ \A q \in Page : q \in given <=> \E h : Holds(h, q)
    /\ \A q \in Page : \A h, g : Holds(h, q) /\ Holds(g, q) => h = g
MmuInv == mmu = IF running = NoTask THEN [s \in Slot |-> NoPage]
                ELSE Mapped(Mine(running), [s \in Slot |-> NoPage])

OrderInv == OneCaller /\ PlaceInv /\ FreedInv /\ FullInv /\ PageInv /\ MmuInv
AddressInv == /\ AddressTypeOK /\ CallInv
              /\ Sane => RunInv
              /\ Orderly => OrderInv
              /\ AbortsHaveACause
-----------------------------------------------------------------------------
(* Lists of ranges.                                                        *)
LEMMA Listed ==
    ASSUME NEW S, NEW s \in Seq(S)
    PROVE  /\ Len(s) \in Nat /\ (s = <<>> <=> Len(s) = 0)
           /\ \A i \in 1..Len(s) : s[i] \in S /\ s[i] \in Ranges(s)
           /\ \A r \in Ranges(s) : r \in S /\ \E i \in 1..Len(s) : s[i] = r
  BY DEF Ranges, ToSet

LEMMA ListedBy ==
    ASSUME NEW S, NEW r
    PROVE  \A s \in Seq(S) : r \in Ranges(s) <=> \E i \in 1..Len(s) : s[i] = r
  BY Listed

LEMMA Popped ==
    ASSUME NEW S, NEW s \in Seq(S), s # <<>>
    PROVE  /\ Len(s) \in Nat /\ Len(s) > 0 /\ Last(s) = s[Len(s)] /\ Last(s) \in S
           /\ Front(s) \in Seq(S) /\ Len(Front(s)) = Len(s) - 1
           /\ \A i \in 1..(Len(s) - 1) : Front(s)[i] = s[i]
           /\ Ranges(s) = Ranges(Front(s)) \cup {Last(s)}
<1>1. /\ Len(s) \in Nat /\ Len(s) > 0 /\ Last(s) = s[Len(s)] /\ Last(s) \in S
  BY DEF Last
<1>2. /\ Front(s) \in Seq(S) /\ Len(Front(s)) = Len(s) - 1
      /\ \A i \in 1..(Len(s) - 1) : Front(s)[i] = s[i]
  <2> DEFINE b == SubSeq(s, 1, Len(s) - 1)
  <2>1. 1 \in Int /\ Len(s) - 1 \in Int /\ \A i \in 1..(Len(s) - 1) : s[i] \in S
    BY <1>1
  <2>2. \A i \in 1..((Len(s) - 1) - 1 + 1) : b[i] = s[1 + i - 1]
    BY <2>1, SubSeqProperties
  <2>3. b \in Seq(S) /\ Len(b) = IF 1 <= Len(s) - 1 THEN (Len(s) - 1) - 1 + 1 ELSE 0
    BY <2>1, SubSeqProperties
  <2> HIDE DEF b
  <2>4. Len(b) = Len(s) - 1
    BY <1>1, <2>3
  <2>5. \A i \in 1..(Len(s) - 1) : b[i] = s[i]
    <3> TAKE i \in 1..(Len(s) - 1)
    <3>1. i \in 1..((Len(s) - 1) - 1 + 1) /\ 1 + i - 1 = i
      BY <1>1
    <3> QED
      BY <2>2, <3>1
  <2> QED
    BY <2>3, <2>4, <2>5, Zenon DEF Front, b
<1>3. ASSUME NEW r
      PROVE  r \in Ranges(s) <=> r \in Ranges(Front(s)) \/ r = Last(s)
  <2>1. r \in Ranges(s) <=> \E i \in 1..Len(s) : s[i] = r
    BY Listed
  <2>2. r \in Ranges(Front(s)) <=> \E i \in 1..Len(Front(s)) : Front(s)[i] = r
    BY <1>2, ListedBy, Zenon
  <2> QED
    BY <1>1, <1>2, <2>1, <2>2
<1> QED
  BY <1>1, <1>2, <1>3

LEMMA Appended ==
    ASSUME NEW S, NEW s \in Seq(S), NEW e \in S
    PROVE  /\ Append(s, e) \in Seq(S) /\ Len(s) \in Nat /\ Len(Append(s, e)) = Len(s) + 1
           /\ \A i \in 1..(Len(s) + 1) : Append(s, e)[i] = IF i <= Len(s) THEN s[i] ELSE e
           /\ Ranges(Append(s, e)) = Ranges(s) \cup {e}
<1>1. /\ Append(s, e) \in Seq(S) /\ Len(s) \in Nat /\ Len(Append(s, e)) = Len(s) + 1
      /\ \A i \in 1..(Len(s) + 1) : Append(s, e)[i] = IF i <= Len(s) THEN s[i] ELSE e
  OBVIOUS
<1>2. ASSUME NEW r
      PROVE  r \in Ranges(Append(s, e)) <=> r \in Ranges(s) \/ r = e
  <2>1. r \in Ranges(s) <=> \E i \in 1..Len(s) : s[i] = r
    BY Listed
  <2>2. r \in Ranges(Append(s, e)) <=> \E i \in 1..Len(Append(s, e)) : Append(s, e)[i] = r
    BY <1>1, ListedBy, Zenon
  <2> QED
    BY <1>1, <2>1, <2>2
<1> QED
  BY <1>1, <1>2

LEMMA Joined ==
    ASSUME NEW S, NEW s \in Seq(S), NEW r \in Seq(S)
    PROVE  /\ s \o r \in Seq(S) /\ Len(s) \in Nat /\ Len(r) \in Nat /\ Len(s \o r) = Len(s) + Len(r)
           /\ \A i \in 1..Len(s) : (s \o r)[i] = s[i]
           /\ \A i \in 1..Len(r) : (s \o r)[Len(s) + i] = r[i]
           /\ \A i \in 1..(Len(s) + Len(r)) : i \in 1..Len(s) \/ (i - Len(s)) \in 1..Len(r)
           /\ Ranges(s \o r) = Ranges(s) \cup Ranges(r)
<1>1. /\ s \o r \in Seq(S) /\ Len(s) \in Nat /\ Len(r) \in Nat /\ Len(s \o r) = Len(s) + Len(r)
      /\ \A i \in 1..(Len(s) + Len(r)) : (s \o r)[i] = IF i <= Len(s) THEN s[i] ELSE r[i - Len(s)]
  OBVIOUS
<1>2. /\ \A i \in 1..Len(s) : (s \o r)[i] = s[i]
      /\ \A i \in 1..Len(r) : (s \o r)[Len(s) + i] = r[i]
      /\ \A i \in 1..(Len(s) + Len(r)) : i \in 1..Len(s) \/ (i - Len(s)) \in 1..Len(r)
  BY <1>1
<1>3. ASSUME NEW e
      PROVE  e \in Ranges(s \o r) <=> e \in Ranges(s) \/ e \in Ranges(r)
  <2>1. e \in Ranges(s) <=> \E i \in 1..Len(s) : s[i] = e
    BY Listed
  <2>2. e \in Ranges(r) <=> \E i \in 1..Len(r) : r[i] = e
    BY Listed
  <2>3. e \in Ranges(s \o r) <=> \E i \in 1..(Len(s) + Len(r)) : (s \o r)[i] = e
    <3>1. e \in Ranges(s \o r) <=> \E i \in 1..Len(s \o r) : (s \o r)[i] = e
      BY <1>1, ListedBy, Zenon
    <3> QED
      BY <1>1, <3>1, Zenon
  <2>4. (\E i \in 1..Len(s) : s[i] = e) => \E i \in 1..(Len(s) + Len(r)) : (s \o r)[i] = e
    BY <1>1, <1>2
  <2>5. (\E i \in 1..Len(r) : r[i] = e) => \E i \in 1..(Len(s) + Len(r)) : (s \o r)[i] = e
    <3> SUFFICES ASSUME NEW i \in 1..Len(r), r[i] = e
                 PROVE  \E j \in 1..(Len(s) + Len(r)) : (s \o r)[j] = e
      OBVIOUS
    <3>1. Len(s) + i \in 1..(Len(s) + Len(r)) /\ (s \o r)[Len(s) + i] = e
      BY <1>1, <1>2
    <3> QED
      BY <3>1
  <2>6. (\E i \in 1..(Len(s) + Len(r)) : (s \o r)[i] = e) =>
          (\E i \in 1..Len(s) : s[i] = e) \/ (\E i \in 1..Len(r) : r[i] = e)
    <3> SUFFICES ASSUME NEW i \in 1..(Len(s) + Len(r)), (s \o r)[i] = e, i \notin 1..Len(s)
                 PROVE  \E j \in 1..Len(r) : r[j] = e
      BY <1>2
    <3>1. i - Len(s) \in 1..Len(r) /\ Len(s) + (i - Len(s)) = i
      BY <1>1
    <3> QED
      BY <1>2, <3>1
  <2> QED
    BY <2>1, <2>2, <2>3, <2>4, <2>5, <2>6
<1> QED
  BY <1>1, <1>2, <1>3

(* Ranges in ascending places have as many places.                         *)
LEMMA PlacesDiffer ==
    ASSUME NEW s \in Seq(Range_), Ascending(s)
    PROVE  /\ Cardinality(SlotsIn(s)) = Len(s)
           /\ \A q, r \in Ranges(s) : q.slot = r.slot => q = r
           /\ \A i \in 1..Len(s) : s[i].slot \in SlotsIn(s)
<1>1. /\ Len(s) \in Nat
      /\ \A i \in 1..Len(s) : s[i] \in Range_ /\ s[i].slot \in Int /\ s[i] \in Ranges(s)
      /\ \A r \in Ranges(s) : \E i \in 1..Len(s) : s[i] = r
  <2>1. Range_ = [slot : Slot, page : Page] /\ \A x \in Slot : x \in Int
    BY PagesAssumption DEF Range_, Slot
  <2> QED
    <3>1. \A r \in Range_ : r.slot \in Int
      BY <2>1
    <3> QED
      BY <3>1, Listed
<1>2. \A i, j \in 1..Len(s) : s[i].slot = s[j].slot => i = j
  BY <1>1 DEF Ascending
<1> DEFINE f == [i \in 1..Len(s) |-> s[i].slot]
<1>3. f \in Bijection(1..Len(s), SlotsIn(s))
  <2>1. \A i \in 1..Len(s) : f[i] \in SlotsIn(s)
    BY <1>1 DEF SlotsIn
  <2>2. \A x \in SlotsIn(s) : \E i \in 1..Len(s) : f[i] = x
    BY <1>1 DEF SlotsIn
  <2>3. \A i, j \in 1..Len(s) : f[i] = f[j] => i = j
    BY <1>2
  <2> HIDE DEF f
  <2>4. f \in [1..Len(s) -> SlotsIn(s)]
    BY <2>1 DEF f
  <2> QED
    BY <2>2, <2>3, <2>4 DEF Bijection, Injection, Surjection, IsInjective
<1>4. IsFiniteSet(1..Len(s)) /\ Cardinality(1..Len(s)) = Len(s)
  <2>1. /\ 1 \in Int /\ Len(s) \in Int /\ (1 > Len(s) => Len(s) = 0) /\ Len(s) - 1 + 1 = Len(s)
    BY <1>1
  <2> QED
    BY <2>1, FS_Interval
<1>5. Cardinality(SlotsIn(s)) = Len(s)
  BY <1>3, <1>4, FS_Bijection DEF ExistsBijection
<1>6. \A q, r \in Ranges(s) : q.slot = r.slot => q = r
  BY <1>1, <1>2
<1>7. \A i \in 1..Len(s) : s[i].slot \in SlotsIn(s)
  BY <1>1 DEF SlotsIn
<1> QED
  BY <1>5, <1>6, <1>7
-----------------------------------------------------------------------------
Call == [pc : {"user", "allocate", "undo", "shrink", "unmap"}, n : 0..MaxGrow,
         base : 0..NumSlots, got : Seq(Range_), left : 0..MaxGrow,
         freed : Seq(Range_), rest : Seq(Range_)]

LEMMA Constants ==
    /\ NumSlots \in Nat /\ NumSlots > 0 /\ 0 \notin Page /\ MaxGrow \in Nat /\ MaxKills \in Nat
    /\ ProcessOf \in [Task -> Process] /\ NoTask \notin Task
    /\ \A r \in Range_ : r.slot \in 1..NumSlots /\ r.slot \in Slot /\ r.page \in Page
    /\ <<>> \in Seq(Range_) /\ NoCall \in Call
<1>1. /\ NumSlots \in Nat /\ NumSlots > 0 /\ 0 \notin Page
      /\ \A r \in Range_ : r.slot \in 1..NumSlots /\ r.slot \in Slot /\ r.page \in Page
  BY PagesAssumption DEF Range_, Slot
<1>2. MaxGrow \in Nat /\ MaxKills \in Nat /\ ProcessOf \in [Task -> Process] /\ NoTask \notin Task
  BY SpaceAssumption
<1>3. <<>> \in Seq(Range_)
  OBVIOUS
<1>4. NoCall \in Call
  BY <1>1, <1>2, <1>3 DEF NoCall, Call
<1> QED
  BY <1>1, <1>2, <1>3, <1>4

LEMMA Typed ==
    ASSUME AddressTypeOK
    PROVE  /\ sbrk \in [Task -> Call]
           /\ \A t \in Task :
                /\ ProcessOf[t] \in Process /\ Mine(t) \in Seq(Range_)
                /\ sbrk[t] \in Call /\ sbrk[t].got \in Seq(Range_)
                /\ sbrk[t].freed \in Seq(Range_) /\ sbrk[t].rest \in Seq(Range_)
                /\ sbrk[t].n \in Nat /\ sbrk[t].base \in Nat /\ sbrk[t].left \in Nat
                /\ Len(sbrk[t].got) \in Nat
           /\ \A p \in Process : pages[p] \in Seq(Range_) /\ Len(pages[p]) \in Nat /\ end[p] \in Nat
<1>1. sbrk \in [Task -> Call]
  BY DEF AddressTypeOK, Call
<1>2. ASSUME NEW t \in Task
      PROVE  /\ sbrk[t] \in Call /\ sbrk[t].got \in Seq(Range_)
             /\ sbrk[t].freed \in Seq(Range_) /\ sbrk[t].rest \in Seq(Range_)
             /\ sbrk[t].n \in Nat /\ sbrk[t].base \in Nat /\ sbrk[t].left \in Nat
  BY <1>1, Constants DEF Call
<1>3. ASSUME NEW t \in Task
      PROVE  Len(sbrk[t].got) \in Nat
  BY <1>2
<1>4. ASSUME NEW t \in Task
      PROVE  ProcessOf[t] \in Process
  BY Constants
<1>5. ASSUME NEW p \in Process
      PROVE  pages[p] \in Seq(Range_) /\ Len(pages[p]) \in Nat /\ end[p] \in Nat
  BY DEF AddressTypeOK
<1>6. ASSUME NEW t \in Task
      PROVE  Mine(t) \in Seq(Range_)
  BY <1>4, <1>5 DEF Mine
<1> QED
  BY <1>1, <1>2, <1>3, <1>4, <1>5, <1>6

(* A step of a call that touches nothing else.                             *)
LEMMA CallTyped ==
    ASSUME AddressTypeOK, NEW t \in Task, NEW c \in Call, sbrk' = [sbrk EXCEPT ![t] = c],
           given' \subseteq Page, mmu' \in [Slot -> Page \cup {NoPage}],
           pages' \in [Process -> Seq(Range_)], end' \in [Process -> Nat],
           UNCHANGED <<mapVars, running, life, kills>>, overlapped' \in BOOLEAN
    PROVE  AddressTypeOK'
<1>1. sbrk' \in [Task -> Call]
  BY Typed
<1> QED
  BY <1>1 DEF AddressTypeOK, Call, mapVars

LEMMA CallFacts ==
    ASSUME AddressTypeOK, CallInv, NEW t \in Task, NEW c \in Call, sbrk' = [sbrk EXCEPT ![t] = c],
           c.pc \in {"allocate", "undo"} => c.base + c.n <= NumSlots, Len(c.got) <= c.n, c.pc = "unmap" => c.left > 0,
           c.pc \notin {"allocate", "undo"} => c.got = <<>>, c.pc # "unmap" => c.freed = <<>>
    PROVE  /\ CallInv' /\ sbrk'[t] = c /\ \A u \in Task \ {t} : sbrk'[u] = sbrk[u]
<1>1. sbrk'[t] = c /\ \A u \in Task \ {t} : sbrk'[u] = sbrk[u]
  BY Typed
<1> QED
  BY <1>1 DEF CallInv

(* What is left to show of a step that does not abort.                     *)
LEMMA GoesOn ==
    ASSUME Sane, UNCHANGED fault, AddressTypeOK', CallInv', RunInv', Orderly' => OrderInv'
    PROVE  AddressInv'
  BY DEF AddressInv, Sane, AbortsHaveACause

LEMMA Aborts ==
    ASSUME AddressInv, Sane, NEW why, why # "none", Abort(why),
           overlapped \/ \E t \in Task : life[t] # "live" /\ sbrk[t].pc = "unmap"
    PROVE  AddressInv'
<1>1. UNCHANGED <<given, mmu, pages, end, mapVars, running, sbrk, life, kills, overlapped>>
  BY DEF Abort, spaceVars
<1>2. fault' # "none"
  BY DEF Abort
<1>3. AddressTypeOK' /\ CallInv'
  BY <1>1 DEF AddressInv, AddressTypeOK, CallInv, mapVars
<1>4. AbortsHaveACause'
  BY <1>1 DEF AbortsHaveACause
<1> QED
  BY <1>2, <1>3, <1>4 DEF AddressInv, Orderly, Sane
-----------------------------------------------------------------------------
(* What is held, when ranges come and go.                                  *)
LEMMA SamePages ==
    ASSUME PageInv, given' = given,
           \A p \in Process : Showing(p)' = Showing(p), \A t \in Task : Got(t)' = Got(t)
    PROVE  PageInv'
<1>1. \A h, q : Holds(h, q)' <=> Holds(h, q)
  BY DEF Holds
<1> QED
  BY <1>1 DEF PageInv

LEMMA PageIsGot ==
    ASSUME PageInv, NEW t \in Task, NEW r, r.page \in Page \ given, given' = given \cup {r.page},
           \A p \in Process : Showing(p)' = Showing(p),
           \A u \in Task : Got(u)' = IF u = t THEN Got(u) \cup {r} ELSE Got(u)
    PROVE  PageInv'
<1>1. \A h, q : Holds(h, q)' <=> Holds(h, q) \/ (h = <<"call", t, r>> /\ q = r.page)
  BY DEF Holds
<1>2. \A h : ~Holds(h, r.page)
  BY DEF PageInv
<1> QED
  BY <1>1, <1>2 DEF PageInv

LEMMA HolderLeaves ==
    ASSUME PageInv, NEW x \in Page, NEW g, Holds(g, x), given' = given \ {x},
           \A h : \A q \in Page : Holds(h, q)' <=> Holds(h, q) /\ ~(h = g /\ q = x)
    PROVE  PageInv'
<1>1. \A h : Holds(h, x) => h = g
  BY DEF PageInv
<1>2. \A h : \A q \in Page : Holds(h, q)' <=> Holds(h, q) /\ q # x
  BY <1>1
<1> QED
  BY <1>2 DEF PageInv

LEMMA PageIsUndone ==
    ASSUME PageInv, NEW t \in Task, NEW r \in Got(t), r.page \in Page, given' = given \ {r.page},
           \A p \in Process : Showing(p)' = Showing(p),
           \A u \in Task : Got(u)' = IF u = t THEN Got(u) \ {r} ELSE Got(u)
    PROVE  PageInv'
<1> DEFINE g == <<"call", t, r>>
<1>1. Holds(g, r.page)
  BY DEF Holds
<1>2. \A h : \A q \in Page : Holds(h, q)' <=> Holds(h, q) /\ ~(h = g /\ q = r.page)
  BY DEF Holds
<1> QED
  BY <1>1, <1>2, HolderLeaves

LEMMA PageIsReturned ==
    ASSUME PageInv, NEW p \in Process, NEW r \in Showing(p), r.page \in Page, given' = given \ {r.page},
           \A s \in Process : Showing(s)' = IF s = p THEN Showing(s) \ {r} ELSE Showing(s),
           \A t \in Task : Got(t)' = Got(t)
    PROVE  PageInv'
<1> DEFINE g == <<"space", p, r>>
<1>1. Holds(g, r.page)
  BY DEF Holds
<1>2. \A h : \A q \in Page : Holds(h, q)' <=> Holds(h, q) /\ ~(h = g /\ q = r.page)
  BY DEF Holds
<1> QED
  BY <1>1, <1>2, HolderLeaves

LEMMA PagesAreLinked ==
    ASSUME PageInv, NEW t \in Task, NEW p \in Process, given' = given,
           \A s \in Process : Showing(s)' = IF s = p THEN Showing(s) \cup Got(t) ELSE Showing(s),
           \A u \in Task : Got(u)' = IF u = t THEN {} ELSE Got(u)
    PROVE  PageInv'
<1> DEFINE Here(h) == \E r \in Got(t) : h = <<"call", t, r>>
           There(h, q) == \E r \in Got(t) : h = <<"space", p, r>> /\ r.page = q
<1>1. \A h, q : Holds(h, q)' <=> (Holds(h, q) /\ ~Here(h)) \/ There(h, q)
  BY DEF Holds
<1>2. ASSUME NEW q, NEW h, There(h, q)
      PROVE  \E g : Here(g) /\ Holds(g, q)
  BY <1>2 DEF Holds
<1>3. ASSUME NEW q, NEW h, Here(h), Holds(h, q)
      PROVE  \E g : There(g, q)
  <2>1. PICK r \in Got(t) : h = <<"call", t, r>>
    BY <1>3
  <2>2. r.page = q
    BY <1>3, <2>1 DEF Holds
  <2>3. There(<<"space", p, r>>, q)
    BY <2>2
  <2> QED
    BY <2>3
<1>4. ASSUME NEW q \in Page, NEW h, NEW g, There(h, q), There(g, q)
      PROVE  h = g
  <2>1. PICK r \in Got(t) : h = <<"space", p, r>> /\ r.page = q
    BY <1>4
  <2>2. PICK s \in Got(t) : g = <<"space", p, s>> /\ s.page = q
    BY <1>4
  <2>3. Holds(<<"call", t, r>>, q) /\ Holds(<<"call", t, s>>, q)
    BY <2>1, <2>2 DEF Holds
  <2>4. <<"call", t, r>> = <<"call", t, s>>
    BY <2>3 DEF PageInv
  <2>5. r = s
    BY <2>4
  <2> QED
    BY <2>1, <2>2, <2>5
<1> HIDE DEF Here, There
<1>5. ASSUME NEW q \in Page
      PROVE  q \in given <=> \E h : Holds(h, q)'
  BY <1>1, <1>2, <1>3 DEF PageInv
<1>6. ASSUME NEW q \in Page, NEW h, NEW g, Holds(h, q)', Holds(g, q)'
      PROVE  h = g
  <2>1. CASE There(h, q) /\ There(g, q)
    BY <2>1, <1>4
  <2>2. CASE There(h, q) /\ ~There(g, q)
    BY <1>1, <1>2, <1>6, <2>2 DEF PageInv
  <2>3. CASE ~There(h, q) /\ There(g, q)
    BY <1>1, <1>2, <1>6, <2>3 DEF PageInv
  <2>4. CASE ~There(h, q) /\ ~There(g, q)
    BY <1>1, <1>6, <2>4 DEF PageInv
  <2> QED
    BY <2>1, <2>2, <2>3, <2>4
<1> QED
  BY <1>5, <1>6 DEF PageInv
-----------------------------------------------------------------------------
(* The beginnings, the ends and the refusals of calls: no page moves.      *)
LEMMA CallMoves ==
    ASSUME AddressTypeOK, CallInv, OrderInv, NEW t \in Task, NEW c \in Call,
           sbrk' = [sbrk EXCEPT ![t] = c], c.got = sbrk[t].got, sbrk[t].pc # "unmap",
           c.pc # "unmap", c.freed = <<>>,
           UNCHANGED <<given, mmu, pages, running, life>>
    PROVE  FreedInv' /\ PageInv' /\ MmuInv'
<1>1. sbrk'[t] = c /\ \A u \in Task \ {t} : sbrk'[u] = sbrk[u]
  BY Typed
<1>2. \A u \in Task : sbrk'[u].got = sbrk[u].got /\ sbrk'[u].freed = sbrk[u].freed
  BY <1>1 DEF CallInv
<1>3. \A p \in Process : Showing(p)' = Showing(p)
  BY <1>2 DEF Showing, Stale, Threads
<1>4. \A u \in Task : Got(u)' = Got(u)
  BY <1>2 DEF Got
<1>5. PageInv'
  BY <1>3, <1>4, SamePages DEF OrderInv
<1>6. FreedInv'
  BY <1>1, <1>2 DEF OrderInv, FreedInv, Mine
<1>7. MmuInv'
  BY DEF OrderInv, MmuInv, Mine, Mapped
<1> QED
  BY <1>5, <1>6, <1>7

LEMMA CallerStays ==
    ASSUME AddressTypeOK, OneCaller, NEW t \in Task, NEW c \in Call, sbrk' = [sbrk EXCEPT ![t] = c],
           \/ Calling(t)
           \/ \A u \in Threads(ProcessOf[t]) \ {t} : life[u] = "live" => ~Calling(u),
           UNCHANGED life
    PROVE  OneCaller'
<1>1. sbrk'[t] = c /\ \A u \in Task \ {t} : sbrk'[u] = sbrk[u]
  BY Typed
<1> QED
  BY <1>1 DEF OneCaller, Calling, Threads

(* A caller in the critical sections, or before them, is alone.            *)
LEMMA Alone ==
    ASSUME OneCaller, NEW t \in Task, life[t] = "live", Calling(t)
    PROVE  \A u \in Task \ {t} : ProcessOf[u] = ProcessOf[t] /\ life[u] = "live" => sbrk[u].pc = "user"
  BY DEF OneCaller, Calling

LEMMA EntersKeeps ==
    ASSUME AddressInv, Sane, NEW t \in Task, life[t] = "live", sbrk[t].pc = "user",
           NEW c \in Call, Enters(t, c), EnterOnly,
           c.got = <<>>, c.freed = <<>>, 
           \/ c.pc = "allocate" /\ c.base + c.n <= NumSlots /\ c.base = end[ProcessOf[t]]
           \/ c.pc = "shrink" /\ c.n = c.left /\ c.n <= end[ProcessOf[t]]
    PROVE  AddressInv'
<1> DEFINE P == ProcessOf[t]
<1>1. /\ AddressTypeOK /\ CallInv /\ RunInv /\ sbrk' = [sbrk EXCEPT ![t] = c] /\ overlapped' \in BOOLEAN
      /\ UNCHANGED <<given, mmu, fault, pages, end, mapVars, running, life, kills>>
      /\ Orderly /\ OrderInv
  BY DEF AddressInv, Enters, EnterOnly, pageVars, Orderly
<1>2. AddressTypeOK'
  BY <1>1, CallTyped DEF AddressTypeOK
<1>3. CallInv' /\ sbrk'[t] = c /\ \A u \in Task \ {t} : sbrk'[u] = sbrk[u]
  <2>1. Len(c.got) <= c.n /\ c.pc # "unmap"
    BY Constants DEF Call
  <2> QED
    BY <1>1, <2>1, CallFacts
<1>4. RunInv'
  BY <1>1 DEF RunInv, mapVars
<1>5. ASSUME Orderly'
      PROVE  OrderInv'
  <2>1. \A u \in Threads(P) \ {t} : life[u] = "live" => sbrk[u].pc = "user"
    BY <1>5 DEF Orderly, Enters
  <2>2. OneCaller'
    BY <1>1, <2>1, CallerStays DEF OrderInv, Calling
  <2>3. FreedInv' /\ PageInv' /\ MmuInv'
    BY <1>1, CallMoves DEF CallInv
  <2>4. /\ c.n \in Nat /\ c.left \in Nat /\ end \in [Process -> Nat] /\ P \in Process
        /\ pages[P] \in Seq(Range_) /\ Len(c.got) = 0
    <3>1. c.n \in Nat /\ c.left \in Nat /\ Len(c.got) = 0
      BY Constants DEF Call
    <3>2. P \in Process /\ end \in [Process -> Nat]
      BY <1>1, Constants DEF AddressTypeOK
    <3>3. pages[P] \in Seq(Range_)
      BY <1>1, <3>2, Typed
    <3> QED
      BY <3>1, <3>2, <3>3
  <2>5. \A i \in 1..Len(pages[P]) : pages[P][i].slot \in Nat
    BY <2>4, Listed, Constants
  <2>6. PlaceInv'
    <3>1. PlaceInv
      BY <1>1 DEF OrderInv
    <3>2. ASSUME NEW u \in Task, life[u] = "live", Shrinking(u)'
          PROVE  \A i \in 1..Len(Mine(u)) : Mine(u)[i].slot <= end[ProcessOf[u]] - sbrk'[u].n + sbrk'[u].left
      <4>1. CASE u = t
        <5>1. /\ sbrk'[u].n = sbrk'[u].left /\ sbrk'[u].n \in Nat /\ end[P] \in Nat
              /\ Mine(u) = pages[P] /\ ProcessOf[u] = P
          BY <1>3, <2>4, <3>2, <4>1 DEF Mine, Shrinking
        <5>2. \A i \in 1..Len(pages[P]) : pages[P][i].slot <= end[P]
          BY <2>4, <3>1 DEF PlaceInv
        <5>3. end[P] - sbrk'[u].n + sbrk'[u].left = end[P]
          BY <5>1
        <5> QED
          BY <5>1, <5>2, <5>3
      <4>2. CASE u # t
        <5>1. sbrk'[u] = sbrk[u] /\ Shrinking(u)
          BY <1>3, <3>2, <4>2 DEF Shrinking
        <5> QED
          BY <3>1, <3>2, <5>1 DEF PlaceInv
      <4> QED
        BY <4>1, <4>2
    <3>3. \A u \in Task : \A i \in 1..Len(sbrk'[u].got) : sbrk'[u].got[i].slot = sbrk'[u].base + i
      BY <1>3, <2>4, <3>1 DEF PlaceInv
    <3>4. \A u \in Task : life[u] = "live" /\ sbrk'[u].pc = "allocate" => sbrk'[u].base = end[ProcessOf[u]]
      BY <1>3, <3>1 DEF PlaceInv
    <3>5. \A p \in Process : /\ Ascending(pages[p])
                             /\ \A i \in 1..Len(pages[p]) : pages[p][i].slot <= end[p]
      BY <3>1 DEF PlaceInv
    <3> QED
      BY <1>1, <3>2, <3>3, <3>4, <3>5 DEF PlaceInv, Ascending, Mine
  <2>7. FullInv'
    <3>1. \A p \in Process : Undisturbed(p)' => Undisturbed(p)
      BY <1>1, <1>3 DEF Undisturbed, Calling, Threads
    <3>2. \A u \in Task : life[u] = "live" /\ Shrinking(u)' => sbrk'[u].n <= end[ProcessOf[u]]
      BY <1>1, <1>3 DEF OrderInv, FullInv, Shrinking
    <3>3. ASSUME NEW p \in Process, Undisturbed(p)'
          PROVE  /\ \A i \in 1..Len(pages[p]) : pages[p][i].slot = i
                 /\ \A u \in Threads(p) : Shrinking(u)' => Len(pages[p]) = end[p] - sbrk'[u].n + sbrk'[u].left
                 /\ (\A u \in Threads(p) : ~Shrinking(u)') => Len(pages[p]) = end[p]
      <4>1. \A i \in 1..Len(pages[p]) : pages[p][i].slot = i
        BY <3>1, <3>3, <1>1 DEF OrderInv, FullInv
      <4>2. p = P => Len(pages[p]) = end[p]
        <5> SUFFICES ASSUME p = P PROVE Len(pages[p]) = end[p]
          OBVIOUS
        <5>1. \A u \in Threads(P) : sbrk[u].pc = "user"
          BY <2>1, <3>1, <3>3 DEF Undisturbed, Calling
        <5> QED
          BY <5>1, <3>1, <3>3, <1>1 DEF OrderInv, FullInv, Shrinking
      <4>3. CASE p = P
        <5>1. \A u \in Threads(P) \ {t} : ~Shrinking(u)'
          BY <2>1, <3>1, <3>3, <4>3, <1>3 DEF Undisturbed, Calling, Shrinking, Threads
        <5>2. t \in Threads(P) /\ end[P] \in Nat
          BY <2>4 DEF Threads
        <5> QED
          BY <4>1, <4>2, <4>3, <5>1, <5>2, <1>3, <2>4 DEF Shrinking
      <4>4. CASE p # P
        <5>1. \A u \in Threads(p) : sbrk'[u] = sbrk[u]
          BY <1>3, <4>4 DEF Threads
        <5> QED
          BY <3>1, <3>3, <5>1, <1>1 DEF OrderInv, FullInv, Shrinking
      <4> QED
        BY <4>3, <4>4
    <3> QED
      BY <1>1, <3>2, <3>3 DEF FullInv, Threads
  <2> QED
    BY <2>2, <2>3, <2>6, <2>7 DEF OrderInv
<1> QED
  BY <1>1, <1>2, <1>3, <1>4, <1>5, GoesOn

LEMMA GrowKeeps == ASSUME AddressInv, NEW t \in Task, Grow(t) PROVE AddressInv'
<1>1. Sane /\ life[t] = "live" /\ sbrk[t].pc = "user" /\ AddressTypeOK
  BY DEF Grow, In, AddressInv
<1>2. PICK n \in 1..MaxGrow :
        /\ BelowTop(t, n)
        /\ Enters(t, [NoCall EXCEPT !.pc = "allocate", !.n = n, !.base = end[ProcessOf[t]]])
        /\ EnterOnly
  BY DEF Grow
<1> DEFINE c == [NoCall EXCEPT !.pc = "allocate", !.n = n, !.base = end[ProcessOf[t]]]
<1>3. end[ProcessOf[t]] \in 0..NumSlots /\ end[ProcessOf[t]] + n <= NumSlots /\ n \in 0..MaxGrow
  BY <1>1, <1>2, Typed, Constants DEF BelowTop
<1>4. c \in Call /\ c.got = <<>> /\ c.freed = <<>> /\ c.n = n /\ c.pc = "allocate" /\ c.base = end[ProcessOf[t]]
  BY <1>3, Constants DEF NoCall, Call
<1> HIDE DEF c
<1>5. Enters(t, c)
  BY <1>2 DEF c
<1> QED
  BY <1>1, <1>2, <1>3, <1>4, <1>5, EntersKeeps

LEMMA ShrinkKeeps == ASSUME AddressInv, NEW t \in Task, Shrink(t) PROVE AddressInv'
<1>1. Sane /\ life[t] = "live" /\ sbrk[t].pc = "user" /\ AddressTypeOK
  BY DEF Shrink, In, AddressInv
<1>2. PICK n \in 1..MaxGrow :
        /\ n <= end[ProcessOf[t]]
        /\ Enters(t, [NoCall EXCEPT !.pc = "shrink", !.n = n, !.left = n])
        /\ EnterOnly
  BY DEF Shrink
<1> DEFINE c == [NoCall EXCEPT !.pc = "shrink", !.n = n, !.left = n]
<1>3. n \in 0..MaxGrow
  BY Constants
<1>4. /\ c \in Call /\ c.got = <<>> /\ c.freed = <<>> /\ c.n = n /\ c.left = n /\ c.pc = "shrink"
  BY <1>3, Constants DEF NoCall, Call
<1> HIDE DEF c
<1>5. Enters(t, c)
  BY <1>2 DEF c
<1> QED
  BY <1>1, <1>2, <1>4, <1>5, EntersKeeps

(* A call ends, or turns to its roll-back; t itself keeps what it has got. *)
LEMMA CallTurns ==
    ASSUME AddressInv, Sane, NEW t \in Task, life[t] = "live",
           NEW c \in Call, sbrk' = [sbrk EXCEPT ![t] = c], CallOnly, UNCHANGED <<pageVars, pages>>,
           \/ c = NoCall /\ sbrk[t].got = <<>>
           \/ /\ c.pc = "undo" /\ sbrk[t].pc = "allocate" /\ c.freed = <<>>
              /\ c.got = sbrk[t].got /\ c.n = sbrk[t].n /\ c.base = sbrk[t].base,
           \/ sbrk[t].pc \in {"allocate", "undo"} /\ UNCHANGED end
           \/ /\ sbrk[t].pc = "shrink"
              /\ sbrk[t].left = 0 \/ Mine(t) = <<>>
              /\ sbrk[t].n <= end[ProcessOf[t]]
              /\ end' = [end EXCEPT ![ProcessOf[t]] = @ - sbrk[t].n]
    PROVE  AddressInv'
<1> DEFINE P == ProcessOf[t]
<1>1. /\ AddressTypeOK /\ CallInv /\ RunInv /\ overlapped' = overlapped
      /\ UNCHANGED <<given, mmu, fault, pages, mapVars, running, life, kills>>
  BY DEF AddressInv, CallOnly, pageVars
<1>2. /\ sbrk[t].n \in Nat /\ sbrk[t].left \in Nat /\ end \in [Process -> Nat] /\ P \in Process
      /\ pages[P] \in Seq(Range_) /\ Len(pages[P]) \in Nat
      /\ \A i \in 1..Len(pages[P]) : pages[P][i].slot \in Nat
  <2>1. sbrk[t].n \in Nat /\ sbrk[t].left \in Nat /\ end \in [Process -> Nat] /\ P \in Process
    BY <1>1, Typed DEF AddressTypeOK
  <2>2. pages[P] \in Seq(Range_) /\ Len(pages[P]) \in Nat
    BY <1>1, <2>1, Typed
  <2> QED
    BY <2>1, <2>2, Listed, Constants
<1>3. end' \in [Process -> Nat] /\ \A p \in Process \ {P} : end'[p] = end[p]
  BY <1>2
<1>4. AddressTypeOK'
  BY <1>1, <1>3, CallTyped DEF AddressTypeOK
<1>5. /\ c.got = sbrk[t].got /\ c.freed = <<>> /\ c.pc \in {"user", "undo"}
      /\ c.pc = "user" => c.got = <<>>
  BY DEF NoCall
<1>6. CallInv' /\ sbrk'[t] = c /\ \A u \in Task \ {t} : sbrk'[u] = sbrk[u]
  <2>1. Len(c.got) <= c.n
    BY <1>1 DEF CallInv, NoCall
  <2>2. c.pc = "undo" => c.base + c.n <= NumSlots
    BY <1>1 DEF CallInv, NoCall
  <2> QED
    BY <1>1, <1>5, <2>1, <2>2, CallFacts
<1>7. RunInv'
  BY <1>1 DEF RunInv, mapVars
<1>8. ASSUME Orderly'
      PROVE  OrderInv'
  <2>1. OrderInv /\ Calling(t)
    BY <1>1, <1>8 DEF AddressInv, Orderly, Sane, Calling
  <2>2. OneCaller'
    BY <1>1, <2>1, CallerStays DEF OrderInv
  <2>3. FreedInv' /\ PageInv' /\ MmuInv'
    BY <1>1, <1>5, <2>1, CallMoves
  <2>4. \A u \in Task \ {t} : ProcessOf[u] = P /\ life[u] = "live" => sbrk[u].pc = "user"
    BY <2>1, Alone DEF OrderInv
  <2>5. end'[P] = IF sbrk[t].pc = "shrink" THEN end[P] - sbrk[t].n ELSE end[P]
    BY <1>2
  <2>6. PlaceInv'
    <3>1. ASSUME NEW p \in Process
          PROVE  Ascending(pages[p]) /\ \A i \in 1..Len(pages[p]) : pages[p][i].slot <= end'[p]
      <4>1. CASE p # P
        BY <1>3, <2>1, <4>1 DEF OrderInv, PlaceInv
      <4>2. CASE p = P /\ sbrk[t].pc # "shrink"
        BY <2>5, <2>1, <4>2 DEF OrderInv, PlaceInv
      <4>3. CASE p = P /\ sbrk[t].pc = "shrink"
        <5>1. Mine(t) = pages[P]
          BY DEF Mine
        <5>2. sbrk[t].left = 0 \/ Len(pages[P]) = 0
          BY <5>1, <4>3
        <5>3. \A i \in 1..Len(pages[P]) : pages[P][i].slot <= end[P] - sbrk[t].n + sbrk[t].left
          BY <2>1, <4>3, <5>1 DEF OrderInv, PlaceInv, Shrinking
        <5>4. \A i \in 1..Len(pages[P]) : pages[P][i].slot <= end'[P]
          BY <1>2, <2>5, <4>3, <5>2, <5>3
        <5> QED
          BY <2>1, <4>3, <5>4 DEF OrderInv, PlaceInv
      <4> QED
        BY <4>1, <4>2, <4>3
    <3>2. ASSUME NEW u \in Task, life[u] = "live", Shrinking(u)'
          PROVE  \A i \in 1..Len(Mine(u)) : Mine(u)[i].slot <= end'[ProcessOf[u]] - sbrk'[u].n + sbrk'[u].left
      <4>1. u # t /\ ProcessOf[u] # P /\ sbrk'[u] = sbrk[u] /\ Shrinking(u)
        BY <1>5, <1>6, <2>4, <3>2 DEF Shrinking
      <4>2. end'[ProcessOf[u]] = end[ProcessOf[u]]
        BY <1>3, <4>1, Constants
      <4> QED
        BY <2>1, <3>2, <4>1, <4>2 DEF OrderInv, PlaceInv
    <3>3. ASSUME NEW u \in Task, NEW i \in 1..Len(sbrk'[u].got)
          PROVE  sbrk'[u].got[i].slot = sbrk'[u].base + i
      BY <1>5, <1>6, <2>1, <3>3 DEF OrderInv, PlaceInv
    <3>4. ASSUME NEW u \in Task, life[u] = "live", sbrk'[u].pc = "allocate"
          PROVE  sbrk'[u].base = end'[ProcessOf[u]]
      BY <1>3, <1>5, <1>6, <2>1, <2>4, <3>4, Constants DEF OrderInv, PlaceInv
    <3> QED
      BY <1>1, <3>1, <3>2, <3>3, <3>4 DEF PlaceInv, Mine
  <2>7. FullInv'
    <3>1. \A p \in Process : Undisturbed(p)' => Undisturbed(p)
      BY <1>1, <1>6 DEF Undisturbed, Calling, Threads
    <3>2. ASSUME NEW u \in Task, life[u] = "live", Shrinking(u)'
          PROVE  sbrk'[u].n <= end'[ProcessOf[u]]
      <4>1. u # t /\ ProcessOf[u] # P /\ sbrk'[u] = sbrk[u] /\ Shrinking(u)
        BY <1>5, <1>6, <2>4, <3>2 DEF Shrinking
      <4>2. end'[ProcessOf[u]] = end[ProcessOf[u]]
        BY <1>3, <4>1, Constants
      <4> QED
        BY <2>1, <3>2, <4>1, <4>2 DEF OrderInv, FullInv
    <3>3. ASSUME NEW p \in Process, Undisturbed(p)'
          PROVE  /\ \A i \in 1..Len(pages[p]) : pages[p][i].slot = i
                 /\ \A u \in Threads(p) : Shrinking(u)' => Len(pages[p]) = end'[p] - sbrk'[u].n + sbrk'[u].left
                 /\ (\A u \in Threads(p) : ~Shrinking(u)') => Len(pages[p]) = end'[p]
      <4>1. \A i \in 1..Len(pages[p]) : pages[p][i].slot = i
        BY <2>1, <3>1, <3>3 DEF OrderInv, FullInv
      <4>2. CASE p = P
        <5>1. \A u \in Threads(P) \ {t} : sbrk[u].pc = "user"
          BY <2>4, <3>1, <3>3, <4>2 DEF Undisturbed, Calling, Threads
        <5>2. \A u \in Threads(P) : ~Shrinking(u)'
          BY <1>5, <1>6, <5>1 DEF Shrinking, Threads
        <5>3. Len(pages[P]) = end'[P]
          <6>1. t \in Threads(P) /\ Mine(t) = pages[P]
            BY DEF Threads, Mine
          <6>2. CASE sbrk[t].pc = "shrink"
            <7>1. Len(pages[P]) = end[P] - sbrk[t].n + sbrk[t].left
              BY <2>1, <3>1, <3>3, <4>2, <6>1, <6>2, <1>2 DEF OrderInv, FullInv, Shrinking
            <7>2. sbrk[t].left = 0 \/ Len(pages[P]) = 0
              BY <6>1, <6>2
            <7>3. sbrk[t].n <= end[P] /\ end[P] \in Nat
              BY <1>2, <6>2
            <7> QED
              BY <1>2, <2>5, <6>2, <7>1, <7>2, <7>3
          <6>3. CASE sbrk[t].pc # "shrink"
            <7>1. \A u \in Threads(P) : ~Shrinking(u)
              BY <5>1, <6>3, <2>1 DEF Shrinking
            <7> QED
              BY <2>1, <2>5, <3>1, <3>3, <4>2, <6>3, <7>1, <1>2 DEF OrderInv, FullInv
          <6> QED
            BY <6>2, <6>3
        <5> QED
          BY <4>1, <4>2, <5>2, <5>3
      <4>3. CASE p # P
        <5>1. \A u \in Threads(p) : sbrk'[u] = sbrk[u]
          BY <1>6, <4>3 DEF Threads
        <5> QED
          BY <1>3, <2>1, <3>1, <3>3, <4>3, <5>1 DEF OrderInv, FullInv, Shrinking
      <4> QED
        BY <4>2, <4>3
    <3> QED
      BY <1>1, <3>2, <3>3 DEF FullInv, Threads
  <2> QED
    BY <2>2, <2>3, <2>6, <2>7 DEF OrderInv
<1> QED
  BY <1>1, <1>4, <1>6, <1>7, <1>8, GoesOn

LEMMA AllocateFailsKeeps == ASSUME AddressInv, NEW t \in Task, AllocateFails(t) PROVE AddressInv'
<1> DEFINE c == [sbrk[t] EXCEPT !.pc = "undo"]
<1>1. /\ Sane /\ life[t] = "live" /\ sbrk[t].pc = "allocate" /\ sbrk[t] \in Call /\ sbrk[t].freed = <<>>
      /\ sbrk' = [sbrk EXCEPT ![t] = c] /\ CallOnly /\ UNCHANGED <<pageVars, pages, end>>
  BY Typed DEF AllocateFails, In, AddressInv, CallInv
<1>2. /\ c \in Call /\ c.pc = "undo" /\ c.got = sbrk[t].got /\ c.freed = <<>>
      /\ c.n = sbrk[t].n /\ c.base = sbrk[t].base
  BY <1>1 DEF Call
<1> HIDE DEF c
<1> QED
  BY <1>1, <1>2, CallTurns

LEMMA ShrinkDoneKeeps == ASSUME AddressInv, NEW t \in Task, ShrinkDone(t) PROVE AddressInv'
<1>1. /\ Sane /\ life[t] = "live" /\ sbrk[t].pc = "shrink" /\ sbrk[t].got = <<>>
      /\ sbrk[t].left = 0 \/ Mine(t) = <<>>
      /\ sbrk[t].n \in Nat /\ end[ProcessOf[t]] \in Nat
  BY Typed DEF ShrinkDone, In, AddressInv, CallInv
<1>2. CASE sbrk[t].n > end[ProcessOf[t]]
  <2>1. Abort("the end is below the start")
    BY <1>2 DEF ShrinkDone
  <2>2. overlapped
    BY <1>1, <1>2 DEF AddressInv, Orderly, OrderInv, FullInv, Shrinking
  <2> QED
    BY <1>1, <2>1, <2>2, Aborts
<1>3. CASE ~(sbrk[t].n > end[ProcessOf[t]])
  <2>1. /\ end' = [end EXCEPT ![ProcessOf[t]] = @ - sbrk[t].n] /\ sbrk' = [sbrk EXCEPT ![t] = NoCall]
        /\ CallOnly /\ UNCHANGED <<pageVars, pages>> /\ sbrk[t].n <= end[ProcessOf[t]]
    BY <1>1, <1>3 DEF ShrinkDone
  <2> QED
    BY <1>1, <2>1, Constants, CallTurns
<1> QED
  BY <1>2, <1>3

(* A call gets a page, or gives its last back.                             *)
LEMMA GotMoves ==
    ASSUME AddressInv, Sane, NEW t \in Task, life[t] = "live", sbrk[t].pc \in {"allocate", "undo"},
           NEW g \in Seq(Range_), sbrk' = [sbrk EXCEPT ![t].got = g], Len(g) <= sbrk[t].n,
           Orderly => \A i \in 1..Len(g) : g[i].slot = sbrk[t].base + i,
           given' \subseteq Page, CallOnly, UNCHANGED <<mmu, fault, pages, end>>,
           Orderly => PageInv'
    PROVE  AddressInv'
<1> DEFINE c == [sbrk[t] EXCEPT !.got = g]
<1>1. /\ AddressTypeOK /\ CallInv /\ RunInv /\ overlapped' = overlapped
      /\ UNCHANGED <<mmu, fault, pages, end, mapVars, running, life, kills>>
      /\ sbrk \in [Task -> Call] /\ sbrk[t] \in Call
  BY Typed DEF AddressInv, CallOnly
<1>2. /\ c \in Call /\ c.got = g /\ c.pc = sbrk[t].pc /\ c.n = sbrk[t].n /\ c.base = sbrk[t].base
      /\ c.left = sbrk[t].left /\ c.freed = sbrk[t].freed /\ c.rest = sbrk[t].rest
  BY <1>1 DEF Call
<1>3. sbrk' = [sbrk EXCEPT ![t] = c]
  BY <1>1
<1> HIDE DEF c
<1>4. AddressTypeOK'
  <2>1. /\ mmu' \in [Slot -> Page \cup {NoPage}] /\ pages' \in [Process -> Seq(Range_)]
        /\ end' \in [Process -> Nat] /\ overlapped' \in BOOLEAN
    BY <1>1 DEF AddressTypeOK
  <2> QED
    BY <1>1, <1>2, <1>3, <2>1, CallTyped
<1>5. CallInv' /\ sbrk'[t] = c /\ \A u \in Task \ {t} : sbrk'[u] = sbrk[u]
  <2>1. c.freed = <<>> /\ c.base + c.n <= NumSlots
    BY <1>1, <1>2 DEF CallInv
  <2> QED
    BY <1>1, <1>2, <1>3, <2>1, CallFacts
<1>6. RunInv'
  BY <1>1 DEF RunInv, mapVars
<1>7. ASSUME Orderly'
      PROVE  OrderInv'
  <2>1. OrderInv /\ Calling(t) /\ Orderly
    BY <1>1, <1>7 DEF AddressInv, Orderly, Sane, Calling
  <2>2. OneCaller'
    BY <1>1, <1>2, <1>3, <2>1, CallerStays DEF OrderInv
  <2>3. ASSUME NEW u \in Task
        PROVE  /\ sbrk'[u].pc = sbrk[u].pc /\ sbrk'[u].n = sbrk[u].n /\ sbrk'[u].base = sbrk[u].base
               /\ sbrk'[u].left = sbrk[u].left /\ sbrk'[u].freed = sbrk[u].freed /\ sbrk'[u].rest = sbrk[u].rest
    BY <1>2, <1>5
  <2>4. FreedInv'
    <3>1. \A u \in Task : Mine(u)' = Mine(u)
      BY <1>1 DEF Mine
    <3>2. FreedInv
      BY <2>1 DEF OrderInv
    <3>3. \A u \in Task : \A x \in Ranges(sbrk'[u].freed) : x \in Ranges(Mine(u))
      BY <2>3, <3>2 DEF FreedInv
    <3>4. \A u \in Task : life[u] = "live" /\ sbrk'[u].pc = "unmap" =>
             /\ Mine(u) # <<>>
             /\ sbrk'[u].freed = <<Last(Mine(u))>> /\ sbrk'[u].rest = Front(Mine(u))
      BY <2>3, <3>2, Zenon DEF FreedInv
    <3>5. \A u, v \in Task : ProcessOf[u] = ProcessOf[v] /\ u # v =>
             \A x \in Ranges(sbrk'[u].freed) : x \notin Ranges(sbrk'[v].freed)
      BY <2>3, <3>2 DEF FreedInv
    <3> QED
      BY <1>1, <3>1, <3>3, <3>4, <3>5 DEF FreedInv
  <2>5. MmuInv'
    BY <1>1, <2>1 DEF OrderInv, MmuInv, Mine, Mapped
  <2>6. FullInv'
    BY <1>1, <2>1, <2>3 DEF OrderInv, FullInv, Undisturbed, Calling, Shrinking, Threads
  <2>7. PlaceInv'
    <3>1. \A u \in Task : \A i \in 1..Len(sbrk'[u].got) : sbrk'[u].got[i].slot = sbrk'[u].base + i
      BY <1>2, <1>5, <2>1 DEF OrderInv, PlaceInv
    <3> QED
      BY <1>1, <2>1, <2>3, <3>1 DEF OrderInv, PlaceInv, Mine, Shrinking
  <2> QED
    BY <2>1, <2>2, <2>4, <2>5, <2>6, <2>7 DEF OrderInv
<1> QED
  BY <1>1, <1>4, <1>5, <1>6, <1>7, GoesOn

LEMMA AllocatePageKeeps == ASSUME AddressInv, NEW t \in Task, AllocatePage(t) PROVE AddressInv'
<1> DEFINE got == sbrk[t].got
<1>1. /\ Sane /\ life[t] = "live" /\ sbrk[t].pc = "allocate" /\ Len(got) < sbrk[t].n
      /\ CallOnly /\ UNCHANGED <<mmu, fault, pages, end>> /\ AddressTypeOK /\ CallInv
  BY DEF AllocatePage, In, AddressInv
<1>2. PICK q \in Page \ given :
        given' = given \cup {q} /\ sbrk' = [sbrk EXCEPT ![t].got = Extended(@, sbrk[t].base, q)]
  BY DEF AllocatePage
<1>3. /\ got \in Seq(Range_) /\ Len(got) \in Nat /\ sbrk[t].n \in Nat /\ sbrk[t].base \in Nat
      /\ sbrk \in [Task -> Call] /\ sbrk[t] \in Call
  BY <1>1, Typed
<1> DEFINE r == [slot |-> sbrk[t].base + Len(got) + 1, page |-> q]
           g == Append(got, r)
<1>4. r \in Range_ /\ r.page = q /\ r.slot = sbrk[t].base + Len(got) + 1
  <2>1. sbrk[t].base + sbrk[t].n <= NumSlots
    BY <1>1 DEF CallInv
  <2> QED
    BY <1>1, <1>3, <2>1, Constants DEF Range_, Slot
<1>5. sbrk' = [sbrk EXCEPT ![t].got = g]
  BY <1>2 DEF Extended
<1> HIDE DEF r
<1>6. /\ g \in Seq(Range_) /\ Len(g) = Len(got) + 1 /\ Ranges(g) = Ranges(got) \cup {r}
      /\ \A i \in 1..(Len(got) + 1) : g[i] = IF i <= Len(got) THEN got[i] ELSE r
  BY <1>3, <1>4, Appended
<1> HIDE DEF g
<1>7. Orderly => \A i \in 1..Len(g) : g[i].slot = sbrk[t].base + i
  <2> SUFFICES ASSUME Orderly, NEW i \in 1..Len(g) PROVE g[i].slot = sbrk[t].base + i
    OBVIOUS
  <2>1. \A j \in 1..Len(got) : got[j].slot = sbrk[t].base + j
    BY DEF AddressInv, OrderInv, PlaceInv
  <2>2. CASE i <= Len(got)
    <3>1. i \in 1..Len(got) /\ g[i] = got[i]
      BY <1>3, <1>6, <2>2
    <3> QED
      BY <2>1, <3>1
  <2>3. CASE ~(i <= Len(got))
    <3>1. i = Len(got) + 1 /\ g[i] = r
      BY <1>3, <1>6, <2>3
    <3> QED
      BY <1>3, <1>4, <3>1
  <2> QED
    BY <2>2, <2>3
<1>8. given' \subseteq Page
  BY <1>1, <1>2 DEF AddressTypeOK
<1>9. Orderly => PageInv'
  <2> SUFFICES ASSUME Orderly PROVE PageInv'
    OBVIOUS
  <2>1. \A u \in Task : sbrk'[u].freed = sbrk[u].freed /\ sbrk'[u].got = IF u = t THEN g ELSE sbrk[u].got
    BY <1>3, <1>5 DEF Call
  <2>2. \A p \in Process : Showing(p)' = Showing(p)
    BY <1>1, <2>1 DEF Showing, Stale, Threads
  <2>3. \A u \in Task : Got(u)' = IF u = t THEN Got(u) \cup {r} ELSE Got(u)
    BY <1>6, <2>1 DEF Got
  <2> QED
    BY <1>2, <1>4, <2>2, <2>3, PageIsGot DEF AddressInv, OrderInv
<1>10. Len(g) <= sbrk[t].n
  BY <1>1, <1>3, <1>6
<1> QED
  BY <1>1, <1>5, <1>6, <1>7, <1>8, <1>9, <1>10, GotMoves

LEMMA UndoKeeps == ASSUME AddressInv, NEW t \in Task, Undo(t) PROVE AddressInv'
<1> DEFINE got == sbrk[t].got
<1>1. /\ Sane /\ life[t] = "live" /\ sbrk[t].pc = "undo"
      /\ CallOnly /\ UNCHANGED <<mmu, fault, pages, end>> /\ AddressTypeOK /\ CallInv
  BY DEF Undo, In, AddressInv
<1>2. CASE got = <<>>
  <2>1. sbrk' = [sbrk EXCEPT ![t] = NoCall] /\ UNCHANGED <<pageVars, pages>>
    BY <1>1, <1>2 DEF Undo, pageVars
  <2> QED
    BY <1>1, <1>2, <2>1, Constants, CallTurns
<1>3. CASE got # <<>>
  <2> DEFINE g == Front(got)
             r == Last(got)
  <2>1. /\ got \in Seq(Range_) /\ Len(got) \in Nat /\ sbrk[t].n \in Nat /\ sbrk[t].base \in Nat
        /\ sbrk \in [Task -> Call] /\ sbrk[t] \in Call
    BY <1>1, Typed
  <2>2. /\ given' = given \ {r.page} /\ sbrk' = [sbrk EXCEPT ![t].got = g]
    BY <1>3, <2>1 DEF Undo, Call
  <2>3. /\ g \in Seq(Range_) /\ Len(g) = Len(got) - 1 /\ Len(got) > 0
        /\ r \in Range_ /\ r = got[Len(got)] /\ Ranges(got) = Ranges(g) \cup {r}
        /\ \A i \in 1..(Len(got) - 1) : g[i] = got[i]
    BY <1>3, <2>1, Popped
  <2> HIDE DEF g, r
  <2>4. Orderly => /\ \A i \in 1..Len(g) : g[i].slot = sbrk[t].base + i
                   /\ r \notin Ranges(g)
    <3> SUFFICES ASSUME Orderly
                 PROVE  /\ \A i \in 1..Len(g) : g[i].slot = sbrk[t].base + i
                        /\ r \notin Ranges(g)
      OBVIOUS
    <3>1. \A i \in 1..Len(got) : got[i].slot = sbrk[t].base + i
      BY DEF AddressInv, OrderInv, PlaceInv
    <3>2. \A i \in 1..Len(g) : g[i].slot = sbrk[t].base + i
      BY <2>1, <2>3, <3>1, SMTT(60)
    <3>3. r.slot = sbrk[t].base + Len(got)
      BY <2>1, <2>3, <3>1
    <3>4. ASSUME r \in Ranges(g)
          PROVE  FALSE
      <4>1. PICK i \in 1..Len(g) : g[i] = r
        BY <2>3, <3>4, Listed
      <4> QED
        BY <2>1, <2>3, <3>2, <3>3, <4>1
    <3> QED
      BY <3>2, <3>4
  <2>5. given' \subseteq Page /\ Len(g) <= sbrk[t].n
    <3>1. given' \subseteq Page
      BY <1>1, <2>2 DEF AddressTypeOK
    <3>2. Len(got) <= sbrk[t].n
      BY <1>1 DEF CallInv
    <3> QED
      BY <2>1, <2>3, <3>1, <3>2
  <2>6. Orderly => PageInv'
    <3> SUFFICES ASSUME Orderly PROVE PageInv'
      OBVIOUS
    <3>1. \A u \in Task : sbrk'[u].freed = sbrk[u].freed /\ sbrk'[u].got = IF u = t THEN g ELSE sbrk[u].got
      BY <2>1, <2>2 DEF Call
    <3>2. \A p \in Process : Showing(p)' = Showing(p)
      BY <1>1, <3>1 DEF Showing, Stale, Threads
    <3>3. r \in Got(t) /\ \A u \in Task : Got(u)' = IF u = t THEN Got(u) \ {r} ELSE Got(u)
      BY <2>3, <2>4, <3>1 DEF Got
    <3> QED
      BY <2>2, <2>3, <3>2, <3>3, PageIsUndone, Constants DEF AddressInv, OrderInv
  <2> QED
    BY <1>1, <2>1, <2>2, <2>3, <2>4, <2>5, <2>6, GotMoves
<1> QED
  BY <1>2, <1>3

-----------------------------------------------------------------------------
(* The entries of the MMU.                                                 *)
Empty == [s \in Slot |-> NoPage]

LEMMA MappedType ==
    ASSUME NEW list \in Seq(Range_), NEW table \in [Slot -> Page \cup {NoPage}]
    PROVE  /\ Mapped(list, table) \in [Slot -> Page \cup {NoPage}]
           /\ Unmapped(list, table) \in [Slot -> Page \cup {NoPage}]
           /\ \A s \in Slot : s \notin SlotsIn(list) => Mapped(list, table)[s] = table[s]
           /\ \A s \in Slot : Unmapped(list, table)[s] = IF s \in SlotsIn(list) THEN NoPage ELSE table[s]
<1>1. ASSUME NEW s \in SlotsIn(list)
      PROVE  (CHOOSE r \in Ranges(list) : r.slot = s).page \in Page
  <2>1. \E r \in Ranges(list) : r.slot = s
    BY DEF SlotsIn
  <2>2. (CHOOSE r \in Ranges(list) : r.slot = s) \in Ranges(list)
    BY <2>1
  <2> QED
    BY <2>2, Listed, Constants
<1>2. Mapped(list, table) \in [Slot -> Page \cup {NoPage}]
  BY <1>1 DEF Mapped
<1>3. Unmapped(list, table) \in [Slot -> Page \cup {NoPage}]
  BY DEF Unmapped
<1> QED
  BY <1>2, <1>3 DEF Mapped, Unmapped

LEMMA MappedAt ==
    ASSUME NEW list \in Seq(Range_), Ascending(list), NEW table, NEW r \in Ranges(list)
    PROVE  r.slot \in Slot /\ Mapped(list, table)[r.slot] = r.page
<1>1. r.slot \in Slot /\ r.slot \in SlotsIn(list)
  BY Listed, Constants DEF SlotsIn
<1> DEFINE q == CHOOSE q \in Ranges(list) : q.slot = r.slot
<1>2. q \in Ranges(list) /\ q.slot = r.slot
  OBVIOUS
<1>3. q = r
  BY <1>2, PlacesDiffer
<1> QED
  BY <1>1, <1>3 DEF Mapped

LEMMA SlotsAreOf ==
    ASSUME NEW list, NEW s \in SlotsIn(list)
    PROVE  \E r \in Ranges(list) : r.slot = s
  BY DEF SlotsIn

LEMMA EmptyType == Empty \in [Slot -> Page \cup {NoPage}] /\ \A s \in Slot : Empty[s] = NoPage
  BY DEF Empty

LEMMA CanMap ==
    ASSUME NEW list \in Seq(Range_), Ascending(list), NEW table, \A r \in Ranges(list) : table[r.slot] = NoPage
    PROVE  Mappable(list, table)
  BY PlacesDiffer, SlotsAreOf DEF Mappable

LEMMA MapAndUnmap ==
    ASSUME NEW list \in Seq(Range_), Ascending(list)
    PROVE  /\ Unmappable(list, Mapped(list, Empty))
           /\ Unmapped(list, Mapped(list, Empty)) = Empty
<1> DEFINE m == Mapped(list, Empty)
<1>1. m \in [Slot -> Page \cup {NoPage}] /\ \A s \in Slot : s \notin SlotsIn(list) => m[s] = NoPage
  BY MappedType, EmptyType
<1>2. \A s \in SlotsIn(list) : m[s] # NoPage
  <2> TAKE s \in SlotsIn(list)
  <2>1. PICK r \in Ranges(list) : r.slot = s
    BY SlotsAreOf
  <2>2. m[s] = r.page
    BY <2>1, MappedAt
  <2> QED
    BY <2>2, Listed, Constants DEF NoPage
<1>3. Unmappable(list, m)
  BY <1>2, PlacesDiffer DEF Unmappable
<1> HIDE DEF m
<1>4. \A s \in Slot : Unmapped(list, m)[s] = Empty[s]
  BY <1>1, MappedType, EmptyType
<1>5. Unmapped(list, m) = [s \in Slot |-> Unmapped(list, m)[s]]
  BY <1>1, MappedType
<1>6. Unmapped(list, m) = Empty
  BY <1>4, <1>5, EmptyType
<1> QED
  BY <1>3, <1>6 DEF m

(* Mapping the new ranges extends what is mapped.                          *)
LEMMA MapMore ==
    ASSUME NEW list \in Seq(Range_), NEW more \in Seq(Range_), Ascending(list \o more)
    PROVE  /\ \A r \in Ranges(more) : Mapped(list, Empty)[r.slot] = NoPage
           /\ Mapped(more, Mapped(list, Empty)) = Mapped(list \o more, Empty)
<1> DEFINE all == list \o more
           m == Mapped(list, Empty)
<1>1. /\ all \in Seq(Range_) /\ Len(list) \in Nat /\ Len(more) \in Nat /\ Len(all) = Len(list) + Len(more)
      /\ \A i \in 1..Len(list) : all[i] = list[i]
      /\ \A i \in 1..Len(more) : all[Len(list) + i] = more[i]
      /\ Ranges(all) = Ranges(list) \cup Ranges(more)
  BY Joined
<1> HIDE DEF all
<1>2. Ascending(all) /\ \A i \in 1..Len(all) : all[i].slot \in Int
  <2>1. Ascending(all)
    BY DEF all
  <2> QED
    BY <1>1, <2>1, Listed, Constants
<1>3. Ascending(list)
  BY <1>1 DEF Ascending, all
<1>4. ASSUME NEW i \in 1..Len(more), NEW j \in 1..Len(more), i < j
      PROVE  more[i].slot < more[j].slot
  <2>1. Len(list) + i \in 1..Len(all) /\ Len(list) + j \in 1..Len(all) /\ Len(list) + i < Len(list) + j
    BY <1>1, <1>4
  <2>2. all[Len(list) + i].slot < all[Len(list) + j].slot
    BY <2>1 DEF Ascending, all
  <2> QED
    BY <1>1, <2>2
<1>5. Ascending(more)
  BY <1>4 DEF Ascending
<1>6. ASSUME NEW r \in Ranges(more)
      PROVE  r.slot \in Slot /\ r.slot \notin SlotsIn(list)
  <2>1. PICK i \in 1..Len(more) : more[i] = r
    BY Listed
  <2>2. ASSUME NEW j \in 1..Len(list)
        PROVE  list[j].slot # r.slot
    <3>1. Len(list) + i \in 1..Len(all) /\ j \in 1..Len(all) /\ j < Len(list) + i
      BY <1>1
    <3>2. all[j].slot < all[Len(list) + i].slot
      BY <3>1 DEF Ascending, all
    <3> QED
      BY <1>1, <1>2, <2>1, <3>1, <3>2
  <2>3. \A q \in Ranges(list) : q.slot # r.slot
    BY <2>2, Listed
  <2>4. r.slot \in Slot
    BY Listed, Constants
  <2> QED
    BY <2>3, <2>4, SlotsAreOf
<1>7. m \in [Slot -> Page \cup {NoPage}] /\ \A s \in Slot : s \notin SlotsIn(list) => m[s] = NoPage
  BY MappedType, EmptyType
<1>8. \A r \in Ranges(more) : m[r.slot] = NoPage
  BY <1>6, <1>7
<1>9. \A r \in Ranges(list) : m[r.slot] = r.page /\ r.slot \in SlotsIn(list)
  BY <1>3, MappedAt DEF SlotsIn
<1> HIDE DEF m
<1>10. ASSUME NEW s \in Slot
       PROVE  Mapped(more, m)[s] = Mapped(all, Empty)[s]
  <2>1. CASE \E r \in Ranges(more) : r.slot = s
    <3>1. PICK r \in Ranges(more) : r.slot = s
      BY <2>1
    <3>2. Mapped(more, m)[s] = r.page
      BY <1>5, <3>1, MappedAt
    <3>3. r \in Ranges(all)
      BY <1>1
    <3>4. Mapped(all, Empty)[s] = r.page
      BY <1>1, <1>2, <3>1, <3>3, MappedAt
    <3> QED
      BY <3>2, <3>4
  <2>2. CASE s \notin SlotsIn(more) /\ \E r \in Ranges(list) : r.slot = s
    <3>1. PICK r \in Ranges(list) : r.slot = s
      BY <2>2
    <3>2. Mapped(all, Empty)[s] = r.page
      <4>1. r \in Ranges(all)
        BY <1>1
      <4> QED
        BY <1>1, <1>2, <3>1, <4>1, MappedAt
    <3>3. Mapped(more, m)[s] = m[s]
      BY <1>7, <2>2, MappedType
    <3> QED
      BY <1>9, <3>1, <3>2, <3>3
  <2>3. CASE s \notin SlotsIn(more) /\ s \notin SlotsIn(list)
    <3>1. s \notin SlotsIn(all)
      BY <1>1, <2>3 DEF SlotsIn
    <3>2. Mapped(all, Empty)[s] = NoPage
      BY <1>1, <3>1, MappedType, EmptyType
    <3>3. Mapped(more, m)[s] = NoPage
      BY <1>7, <2>3, MappedType
    <3> QED
      BY <3>2, <3>3
  <2> QED
    BY <2>1, <2>2, <2>3, SlotsAreOf
<1>11. /\ Mapped(more, m) = [s \in Slot |-> Mapped(more, m)[s]]
       /\ Mapped(all, Empty) = [s \in Slot |-> Mapped(all, Empty)[s]]
  BY <1>1, <1>7, MappedType, EmptyType
<1>12. Mapped(more, m) = Mapped(all, Empty)
  BY <1>10, <1>11
<1> QED
  BY <1>8, <1>12 DEF all, m

(* And unmapping the last range shows the others.                          *)
LEMMA UnmapLast ==
    ASSUME NEW list \in Seq(Range_), Ascending(list), list # <<>>
    PROVE  /\ Unmappable(<<Last(list)>>, Mapped(list, Empty))
           /\ Unmapped(<<Last(list)>>, Mapped(list, Empty)) = Mapped(Front(list), Empty)
<1> DEFINE r == Last(list)
           rest == Front(list)
           m == Mapped(list, Empty)
<1>1. /\ Len(list) \in Nat /\ Len(list) > 0 /\ r = list[Len(list)] /\ r \in Range_
      /\ rest \in Seq(Range_) /\ Len(rest) = Len(list) - 1
      /\ \A i \in 1..(Len(list) - 1) : rest[i] = list[i]
      /\ Ranges(list) = Ranges(rest) \cup {r}
  BY Popped
<1> HIDE DEF r, rest
<1>2. <<r>> \in Seq(Range_) /\ Ranges(<<r>>) = {r} /\ SlotsIn(<<r>>) = {r.slot} /\ Len(<<r>>) = 1
  BY <1>1 DEF Ranges, ToSet, SlotsIn
<1>3. m \in [Slot -> Page \cup {NoPage}] /\ \A s \in Slot : s \notin SlotsIn(list) => m[s] = NoPage
  BY MappedType, EmptyType
<1>4. \A q \in Ranges(list) : m[q.slot] = q.page /\ q.slot \in Slot /\ q.page \in Page
  BY MappedAt, Listed, Constants
<1> HIDE DEF m
<1>5. Unmappable(<<r>>, m)
  <2>1. m[r.slot] # NoPage
    BY <1>1, <1>4, Constants DEF NoPage
  <2> QED
    BY <1>2, <2>1, FS_Singleton DEF Unmappable
<1>6. Ascending(rest)
  BY <1>1 DEF Ascending
<1>7. \A q \in Ranges(rest) : q.slot # r.slot
  <2> TAKE q \in Ranges(rest)
  <2>1. PICK i \in 1..Len(rest) : rest[i] = q
    BY <1>1, Listed
  <2>2. i \in 1..Len(list) /\ Len(list) \in 1..Len(list) /\ i < Len(list) /\ list[i] = q
    BY <1>1, <2>1
  <2>3. q.slot < r.slot
    BY <1>1, <2>2 DEF Ascending
  <2> QED
    BY <1>1, <1>4, <2>3, Constants
<1>8. ASSUME NEW s \in Slot
      PROVE  Unmapped(<<r>>, m)[s] = Mapped(rest, Empty)[s]
  <2>1. CASE s = r.slot
    <3>1. s \notin SlotsIn(rest)
      BY <1>7, <2>1, SlotsAreOf
    <3>2. Mapped(rest, Empty)[s] = NoPage
      BY <1>1, <3>1, MappedType, EmptyType
    <3> QED
      BY <1>2, <1>3, <2>1, <3>2, MappedType, ZenonT(60)
  <2>2. CASE s # r.slot /\ \E q \in Ranges(rest) : q.slot = s
    <3>1. PICK q \in Ranges(rest) : q.slot = s
      BY <2>2
    <3>2. Mapped(rest, Empty)[s] = q.page
      BY <1>1, <1>6, <3>1, MappedAt
    <3>3. m[s] = q.page
      BY <1>1, <1>4, <3>1
    <3>4. s \notin SlotsIn(<<r>>)
      BY <1>2, <2>2
    <3>5. Unmapped(<<r>>, m)[s] = m[s]
      BY <3>4, Zenon DEF Unmapped
    <3> QED
      BY <3>2, <3>3, <3>5
  <2>3. CASE s # r.slot /\ ~\E q \in Ranges(rest) : q.slot = s
    <3>1. s \notin SlotsIn(rest) /\ s \notin SlotsIn(list)
      BY <1>1, <2>3 DEF SlotsIn
    <3>2. Mapped(rest, Empty)[s] = NoPage /\ m[s] = NoPage
      BY <1>1, <1>3, <3>1, MappedType, EmptyType
    <3> QED
      BY <1>2, <1>3, <2>3, <3>2, MappedType, ZenonT(30)
  <2> QED
    BY <2>1, <2>2, <2>3
<1>9. /\ Unmapped(<<r>>, m) = [s \in Slot |-> Unmapped(<<r>>, m)[s]]
      /\ Mapped(rest, Empty) = [s \in Slot |-> Mapped(rest, Empty)[s]]
  BY <1>1, <1>2, <1>3, MappedType, EmptyType, SMTT(30)
<1>10. Unmapped(<<r>>, m) = Mapped(rest, Empty)
  BY <1>8, <1>9
<1> QED
  BY <1>5, <1>10 DEF r, rest, m
-----------------------------------------------------------------------------
(* New ranges that follow the end of a list.                               *)
LEMMA Linked ==
    ASSUME NEW list \in Seq(Range_), NEW more \in Seq(Range_), NEW last \in Nat,
           Ascending(list), \A i \in 1..Len(list) : list[i].slot <= last,
           \A i \in 1..Len(more) : more[i].slot = last + i
    PROVE  \E all \in Seq(Range_) :
             /\ all = list \o more /\ Len(all) = Len(list) + Len(more)
             /\ Ascending(all) /\ \A i \in 1..Len(all) : all[i].slot <= last + Len(more)
             /\ Ranges(all) = Ranges(list) \cup Ranges(more) /\ \A r \in Ranges(more) : r \notin Ranges(list)
             /\ Len(list) = last /\ (\A i \in 1..Len(list) : list[i].slot = i) =>
                  \A i \in 1..Len(all) : all[i].slot = i
<1>1. PICK all \in Seq(Range_) :
        /\ all = list \o more /\ Len(list) \in Nat /\ Len(more) \in Nat /\ Len(all) = Len(list) + Len(more)
        /\ \A i \in 1..Len(list) : all[i] = list[i]
        /\ \A i \in 1..Len(more) : all[Len(list) + i] = more[i]
        /\ Ranges(all) = Ranges(list) \cup Ranges(more)
  BY Joined
<1>2. \A i \in 1..Len(list) : list[i].slot \in Nat
  BY Listed, Constants
<1>3. ASSUME NEW i \in 1..Len(all), i \notin 1..Len(list)
      PROVE  all[i].slot = last + (i - Len(list)) /\ i - Len(list) \in 1..Len(more) /\ i > Len(list)
  <2>1. i - Len(list) \in 1..Len(more) /\ Len(list) + (i - Len(list)) = i /\ i > Len(list)
    BY <1>1, <1>3
  <2>2. all[Len(list) + (i - Len(list))] = more[i - Len(list)]
    BY <1>1, <2>1
  <2> QED
    BY <2>1, <2>2
<1>4. \A i \in 1..Len(all) : all[i].slot <= last + Len(more)
  <2> TAKE i \in 1..Len(all)
  <2>1. CASE i \in 1..Len(list)
    BY <1>1, <1>2, <2>1
  <2>2. CASE i \notin 1..Len(list)
    BY <1>1, <1>3, <2>2
  <2> QED
    BY <2>1, <2>2
<1>5. ASSUME NEW i \in 1..Len(all), NEW j \in 1..Len(all), i < j
      PROVE  all[i].slot < all[j].slot
  <2>1. CASE j \in 1..Len(list)
    <3>1. i \in 1..Len(list) /\ list[i].slot < list[j].slot
      BY <1>1, <1>5, <2>1 DEF Ascending
    <3> QED
      BY <1>1, <2>1, <3>1
  <2>2. CASE j \notin 1..Len(list) /\ i \in 1..Len(list)
    <3>1. all[i].slot <= last /\ all[i].slot \in Nat
      BY <1>1, <1>2, <2>2
    <3> QED
      BY <1>1, <1>3, <2>2, <3>1
  <2>3. CASE j \notin 1..Len(list) /\ i \notin 1..Len(list)
    BY <1>1, <1>3, <1>5, <2>3
  <2> QED
    BY <2>1, <2>2, <2>3
<1>6. ASSUME NEW r \in Ranges(more), r \in Ranges(list)
      PROVE  FALSE
  <2>1. PICK i \in 1..Len(more) : more[i] = r
    BY Listed
  <2>2. PICK j \in 1..Len(list) : list[j] = r
    BY <1>6, Listed
  <2> QED
    BY <1>1, <1>2, <2>1, <2>2
<1>7. ASSUME Len(list) = last, \A i \in 1..Len(list) : list[i].slot = i, NEW i \in 1..Len(all)
      PROVE  all[i].slot = i
  <2>1. CASE i \in 1..Len(list)
    BY <1>1, <1>7, <2>1
  <2>2. CASE i \notin 1..Len(list)
    BY <1>1, <1>3, <1>7, <2>2
  <2> QED
    BY <2>1, <2>2
<1> QED
  BY <1>1, <1>4, <1>5, <1>6, <1>7 DEF Ascending

LEMMA MapAndLinkKeeps == ASSUME AddressInv, NEW t \in Task, MapAndLink(t) PROVE AddressInv'
<1> DEFINE P == ProcessOf[t]
           got == sbrk[t].got
           list == pages[P]
           n == sbrk[t].n
<1>1. /\ Sane /\ life[t] = "live" /\ running = t /\ sbrk[t].pc = "allocate" /\ Len(got) = n
      /\ AddressTypeOK /\ CallInv /\ RunInv
  BY DEF MapAndLink, In, AddressInv
<1>2. /\ got \in Seq(Range_) /\ n \in Nat /\ P \in Process /\ list \in Seq(Range_)
      /\ Len(list) \in Nat /\ end[P] \in Nat /\ Len(got) \in Nat /\ sbrk[t].freed = <<>>
      /\ pages \in [Process -> Seq(Range_)] /\ end \in [Process -> Nat] /\ mmu \in [Slot -> Page \cup {NoPage}]
  <2>1. P \in Process /\ got \in Seq(Range_) /\ n \in Nat /\ Len(got) \in Nat
    BY <1>1, Typed
  <2>2. list \in Seq(Range_) /\ Len(list) \in Nat /\ end[P] \in Nat
    BY <1>1, <2>1, Typed
  <2> QED
    BY <1>1, <2>1, <2>2 DEF AddressTypeOK, CallInv
<1> DEFINE all == list \o got
<1>3. /\ all \in Seq(Range_) /\ Len(all) \in Nat /\ Ranges(all) = Ranges(list) \cup Ranges(got)
  <2>1. \A s, q \in Seq(Range_) : s \o q \in Seq(Range_) /\ Ranges(s \o q) = Ranges(s) \cup Ranges(q)
    BY Joined
  <2>2. all \in Seq(Range_) /\ Ranges(all) = Ranges(list) \cup Ranges(got)
    BY <1>2, <2>1, Zenon
  <2> HIDE DEF all
  <2> QED
    BY <2>2
<1>4. ASSUME Orderly
      PROVE  /\ OrderInv /\ Calling(t) /\ \A i \in 1..Len(got) : got[i].slot = end[P] + i
             /\ Ascending(list) /\ Ascending(all) /\ Len(all) = Len(list) + n
             /\ \A i \in 1..Len(all) : all[i].slot <= end[P] + n
             /\ \A r \in Ranges(got) : r \notin Ranges(list)
             /\ Len(list) = end[P] /\ (\A i \in 1..Len(list) : list[i].slot = i) =>
                  \A i \in 1..Len(all) : all[i].slot = i
  <2>1. OrderInv /\ Calling(t)
    BY <1>1, <1>4 DEF AddressInv, Calling
  <2>2. Ascending(list) /\ \A i \in 1..Len(list) : list[i].slot <= end[P]
    BY <1>2, <2>1 DEF OrderInv, PlaceInv
  <2>3. \A i \in 1..Len(got) : got[i].slot = end[P] + i
    BY <1>1, <2>1 DEF OrderInv, PlaceInv
  <2> HIDE DEF list, got, n, P
  <2>4. PICK a \in Seq(Range_) :
             /\ a = list \o got /\ Len(a) = Len(list) + Len(got)
             /\ Ascending(a) /\ \A i \in 1..Len(a) : a[i].slot <= end[P] + Len(got)
             /\ Ranges(a) = Ranges(list) \cup Ranges(got) /\ \A r \in Ranges(got) : r \notin Ranges(list)
             /\ Len(list) = end[P] /\ (\A i \in 1..Len(list) : list[i].slot = i) =>
                  \A i \in 1..Len(a) : a[i].slot = i
    <3>1. \E e \in Nat : e = end[P]
      BY <1>2
    <3> QED
      BY <1>2, <2>2, <2>3, <3>1, Linked, ZenonT(30)
  <2>5. a = all
    BY <2>4
  <2> HIDE DEF all
  <2> QED
    BY <1>1, <2>1, <2>2, <2>3, <2>4, <2>5
<1>22. all = list \o got
  OBVIOUS
<1> HIDE DEF list, got, n, all
<1>23. list = pages[P] /\ got = sbrk[t].got /\ n = sbrk[t].n
  BY DEF list, got, n
<1>5. Orderly => mmu = Mapped(list, Empty) /\ Mappable(got, mmu) /\ Mapped(got, mmu) = Mapped(all, Empty)
  <2> SUFFICES ASSUME Orderly
               PROVE  mmu = Mapped(list, Empty) /\ Mappable(got, mmu) /\ Mapped(got, mmu) = Mapped(all, Empty)
    OBVIOUS
  <2>1. mmu = Mapped(list, Empty)
    BY <1>1, <1>4, <1>23, Constants DEF OrderInv, MmuInv, Mine, Empty
  <2>2. /\ \A r \in Ranges(got) : Mapped(list, Empty)[r.slot] = NoPage
        /\ Mapped(got, Mapped(list, Empty)) = Mapped(all, Empty)
    BY <1>2, <1>4, <1>22, MapMore
  <2>3. \E e \in Nat : \A i \in 1..Len(got) : got[i].slot = e + i
    BY <1>2, <1>4
  <2>4. Ascending(got)
    BY <1>2, <2>3 DEF Ascending
  <2> QED
    BY <1>2, <2>1, <2>2, <2>4, CanMap
<1>6. CASE ~Mappable(got, mmu)
  <2>1. Abort("was already mapped")
    BY <1>6, <1>23 DEF MapAndLink
  <2>2. overlapped
    BY <1>1, <1>5, <1>6 DEF Orderly
  <2> QED
    BY <1>1, <2>1, <2>2, Aborts
<1>7. CASE Mappable(got, mmu)
  <2>1. /\ mmu' = Mapped(got, mmu) /\ pages' = [pages EXCEPT ![P] = all] /\ end' = [end EXCEPT ![P] = @ + n]
        /\ sbrk' = [sbrk EXCEPT ![t] = NoCall] /\ UNCHANGED <<given, fault>>
        /\ UNCHANGED <<mapVars, running, life, kills, overlapped>>
    BY <1>7, <1>22, <1>23 DEF MapAndLink, CallOnly
  <2>2. /\ pages' \in [Process -> Seq(Range_)] /\ end' \in [Process -> Nat]
        /\ pages'[P] = all /\ end'[P] = end[P] + n
        /\ \A p \in Process \ {P} : pages'[p] = pages[p] /\ end'[p] = end[p]
    BY <1>2, <1>3, <2>1
  <2>3. AddressTypeOK'
    <3>1. mmu' \in [Slot -> Page \cup {NoPage}]
      BY <1>2, <2>1, MappedType
    <3>2. given' \subseteq Page /\ overlapped' \in BOOLEAN
      BY <1>1, <2>1 DEF AddressTypeOK
    <3> QED
      BY <1>1, <2>1, <2>2, <3>1, <3>2, Constants, CallTyped
  <2>4. CallInv' /\ sbrk'[t] = NoCall /\ \A u \in Task \ {t} : sbrk'[u] = sbrk[u]
    <3>1. NoCall.got = <<>> /\ NoCall.freed = <<>> /\ NoCall.pc = "user" /\ Len(NoCall.got) <= NoCall.n
      BY DEF NoCall
    <3> QED
      BY <1>1, <2>1, <3>1, Constants, CallFacts
  <2>5. RunInv'
    BY <1>1, <2>1 DEF RunInv, mapVars
  <2>6. ASSUME Orderly'
        PROVE  OrderInv'
    <3>1. Orderly
      BY <2>1, <2>6 DEF Orderly, Sane
    <3>2. /\ OrderInv /\ Calling(t) /\ Ascending(all)
          /\ \A i \in 1..Len(all) : all[i].slot <= end[P] + n
      BY <3>1, <1>4
    <3>3. OneCaller'
      BY <1>1, <2>1, <3>2, Constants, CallerStays DEF OrderInv
    <3>4. \A u \in Task \ {t} : ProcessOf[u] = P /\ life[u] = "live" => sbrk[u].pc = "user"
      BY <1>1, <3>2, Alone DEF OrderInv
    <3>5. /\ sbrk'[t].got = <<>> /\ sbrk'[t].freed = <<>> /\ sbrk'[t].pc = "user"
          /\ ~Shrinking(t) /\ ~Shrinking(t)'
      BY <1>1, <2>4 DEF NoCall, Shrinking
    <3>6. \A u \in Task : ProcessOf[u] # P => /\ ProcessOf[u] \in Process /\ Mine(u)' = Mine(u)
                                              /\ end'[ProcessOf[u]] = end[ProcessOf[u]]
      BY <2>2, Constants DEF Mine
    <3>7. \A u \in Task : ProcessOf[u] = P => Mine(u)' = all /\ Mine(u) = list
      BY <1>23, <2>2 DEF Mine
    <3>8. PlaceInv'
      <4>1. \A p \in Process : Ascending(pages'[p]) /\ \A i \in 1..Len(pages'[p]) : pages'[p][i].slot <= end'[p]
        <5>2. ASSUME NEW p \in Process, p # P
              PROVE  Ascending(pages'[p]) /\ \A i \in 1..Len(pages'[p]) : pages'[p][i].slot <= end'[p]
          BY <2>2, <3>2, <5>2 DEF OrderInv, PlaceInv
        <5>3. Ascending(pages'[P]) /\ \A i \in 1..Len(pages'[P]) : pages'[P][i].slot <= end'[P]
          BY <2>2, <3>2
        <5> QED
          BY <5>2, <5>3
      <4>2. ASSUME NEW u \in Task, life[u] = "live", Shrinking(u)'
            PROVE  \A i \in 1..Len(Mine(u)') : Mine(u)'[i].slot <= end'[ProcessOf[u]] - sbrk'[u].n + sbrk'[u].left
        <5>1. u # t /\ sbrk'[u] = sbrk[u] /\ Shrinking(u) /\ ProcessOf[u] # P
          BY <2>4, <3>4, <3>5, <4>2 DEF Shrinking
        <5> QED
          BY <3>2, <3>6, <4>2, <5>1 DEF OrderInv, PlaceInv
      <4>3. \A u \in Task : \A i \in 1..Len(sbrk'[u].got) : sbrk'[u].got[i].slot = sbrk'[u].base + i
        BY <2>4, <3>2, <3>5 DEF OrderInv, PlaceInv
      <4>4. \A u \in Task : life[u] = "live" /\ sbrk'[u].pc = "allocate" => sbrk'[u].base = end'[ProcessOf[u]]
        BY <2>4, <3>2, <3>4, <3>5, <3>6 DEF OrderInv, PlaceInv
      <4> QED
        BY <2>1, <4>1, <4>2, <4>3, <4>4 DEF PlaceInv
    <3>9. FreedInv'
      <4>1. \A u \in Task : sbrk'[u].freed = sbrk[u].freed
        BY <1>2, <2>4, <3>5
      <4>2. \A u \in Task : \A r \in Ranges(Mine(u)) : r \in Ranges(Mine(u)')
        BY <1>3, <3>6, <3>7, Zenon
      <4>3. FreedInv
        BY <3>2 DEF OrderInv
      <4>4. \A u \in Task : life[u] = "live" /\ sbrk'[u].pc = "unmap" =>
              sbrk'[u] = sbrk[u] /\ Mine(u)' = Mine(u)
        BY <2>4, <3>4, <3>5, <3>6
      <4>5. \A u \in Task : \A r \in Ranges(sbrk'[u].freed) : r \in Ranges(Mine(u)')
        BY <4>1, <4>2, <4>3 DEF FreedInv
      <4>6. \A u \in Task : life[u] = "live" /\ sbrk'[u].pc = "unmap" =>
               /\ Mine(u)' # <<>>
               /\ sbrk'[u].freed = <<Last(Mine(u)')>> /\ sbrk'[u].rest = Front(Mine(u)')
        BY <4>3, <4>4, Zenon DEF FreedInv
      <4>7. \A u, v \in Task : ProcessOf[u] = ProcessOf[v] /\ u # v =>
               \A x \in Ranges(sbrk'[u].freed) : x \notin Ranges(sbrk'[v].freed)
        BY <4>1, <4>3 DEF FreedInv
      <4> QED
        BY <2>1, <4>5, <4>6, <4>7 DEF FreedInv
    <3>10. FullInv'
      <4>1. \A p \in Process : Undisturbed(p)' => Undisturbed(p)
        BY <1>1, <2>1, <2>4 DEF Undisturbed, Calling, Threads
      <4>2. \A u \in Task : life[u] = "live" /\ Shrinking(u)' => sbrk'[u].n <= end'[ProcessOf[u]]
        <5> TAKE u \in Task
        <5>1. life[u] = "live" /\ Shrinking(u)' => u # t /\ sbrk'[u] = sbrk[u] /\ Shrinking(u) /\ ProcessOf[u] # P
          BY <2>4, <3>4, <3>5 DEF Shrinking
        <5> QED
          BY <3>2, <3>6, <5>1 DEF OrderInv, FullInv
      <4>3. ASSUME NEW p \in Process, Undisturbed(p)', p # P
            PROVE  /\ \A i \in 1..Len(pages'[p]) : pages'[p][i].slot = i
                   /\ \A u \in Threads(p) : Shrinking(u)' => Len(pages'[p]) = end'[p] - sbrk'[u].n + sbrk'[u].left
                   /\ (\A u \in Threads(p) : ~Shrinking(u)') => Len(pages'[p]) = end'[p]
        <5>1. \A u \in Threads(p) : sbrk'[u] = sbrk[u]
          BY <2>4, <4>3 DEF Threads
        <5>2. pages'[p] = pages[p] /\ end'[p] = end[p] /\ Undisturbed(p)
          BY <2>2, <4>1, <4>3
        <5> QED
          BY <3>2, <5>1, <5>2 DEF OrderInv, FullInv, Shrinking
      <4>4. ASSUME Undisturbed(P)'
            PROVE  /\ \A i \in 1..Len(all) : all[i].slot = i
                   /\ \A u \in Threads(P) : ~Shrinking(u)'
                   /\ Len(all) = end'[P]
        <5>1. \A u \in Threads(P) : u # t => sbrk[u].pc = "user" /\ sbrk'[u] = sbrk[u]
          BY <1>2, <2>4, <3>4, <4>1, <4>4 DEF Undisturbed, Calling, Threads
        <5>2. \A u \in Threads(P) : ~Shrinking(u) /\ ~Shrinking(u)'
          BY <3>5, <5>1 DEF Shrinking
        <5>3. Len(list) = end[P] /\ \A i \in 1..Len(list) : list[i].slot = i
          BY <1>2, <1>23, <3>2, <4>1, <4>4, <5>2 DEF OrderInv, FullInv
        <5>4. \A i \in 1..Len(all) : all[i].slot = i
          BY <1>4, <3>1, <5>3
        <5>5. Len(all) = end'[P]
          BY <1>4, <2>2, <3>1, <5>3
        <5> QED
          BY <5>2, <5>4, <5>5
      <4>5. ASSUME NEW p \in Process, Undisturbed(p)'
            PROVE  /\ \A i \in 1..Len(pages'[p]) : pages'[p][i].slot = i
                   /\ \A u \in Threads(p) : Shrinking(u)' => Len(pages'[p]) = end'[p] - sbrk'[u].n + sbrk'[u].left
                   /\ (\A u \in Threads(p) : ~Shrinking(u)') => Len(pages'[p]) = end'[p]
        BY <2>2, <4>3, <4>4, <4>5
      <4> QED
        BY <2>1, <4>2, <4>5 DEF FullInv, Threads
    <3>11. PageInv'
      <4>1. \A u \in Task : sbrk'[u].freed = sbrk[u].freed /\ sbrk'[u].got = IF u = t THEN <<>> ELSE sbrk[u].got
        BY <1>2, <2>4, <3>5
      <4>2. \A p \in Process : Stale(p)' = Stale(p)
        BY <4>1 DEF Stale, Threads
      <4>3. ASSUME NEW r \in Ranges(got)
            PROVE  r \notin Stale(P)
        <5>1. r \notin Ranges(list)
          BY <1>4, <3>1
        <5> QED
          BY <3>2, <3>7, <5>1 DEF OrderInv, FreedInv, Stale, Threads
      <4>4. \A p \in Process : Showing(p)' = IF p = P THEN Showing(p) \cup Got(t) ELSE Showing(p)
        <5>1. ASSUME NEW p \in Process, p # P
              PROVE  Showing(p)' = Showing(p)
          BY <2>2, <4>2, <5>1 DEF Showing
        <5>2. Showing(P)' = Showing(P) \cup Got(t)
          <6>1. Showing(P) = Ranges(list) \ Stale(P) /\ Got(t) = Ranges(got)
            BY <1>23 DEF Showing, Got
          <6>2. Showing(P)' = Ranges(all) \ Stale(P)
            BY <1>2, <2>2, <4>2 DEF Showing
          <6> QED
            BY <1>3, <4>3, <6>1, <6>2, Zenon
        <5> QED
          BY <5>1, <5>2
      <4>5. \A u \in Task : Got(u)' = IF u = t THEN {} ELSE Got(u)
        BY <4>1 DEF Got, Ranges, ToSet
      <4> QED
        BY <1>2, <2>1, <3>2, <4>4, <4>5, PagesAreLinked DEF OrderInv
    <3>12. MmuInv'
      <4>1. mmu' = Mapped(all, Empty) /\ running' = t /\ t # NoTask /\ Mine(t)' = all
        BY <1>1, <1>5, <2>1, <3>1, <3>7, Constants
      <4> QED
        BY <4>1 DEF MmuInv, Empty, Mapped
    <3> QED
      BY <3>3, <3>8, <3>9, <3>10, <3>11, <3>12 DEF OrderInv
  <2> QED
    BY <1>1, <2>1, <2>3, <2>4, <2>5, <2>6, GoesOn
<1> QED
  BY <1>6, <1>7

(* What is left when the last range goes.                                  *)
LEMMA Unlinked ==
    ASSUME NEW list \in Seq(Range_), list # <<>>, Ascending(list)
    PROVE  \E rest \in Seq(Range_), last \in Range_ :
             /\ rest = Front(list) /\ last = Last(list) /\ Ascending(rest)
             /\ Len(rest) \in Nat /\ Len(list) = Len(rest) + 1
             /\ Ranges(list) = Ranges(rest) \cup {last} /\ last \notin Ranges(rest)
             /\ \A i \in 1..Len(rest) : i \in 1..Len(list) /\ rest[i] = list[i]
             /\ \A b \in Int : (\A i \in 1..Len(list) : list[i].slot <= b) =>
                   \A i \in 1..Len(rest) : rest[i].slot <= b - 1
<1>1. PICK rest \in Seq(Range_), last \in Range_ :
        /\ rest = Front(list) /\ last = Last(list) /\ Len(list) \in Nat /\ Len(list) > 0
        /\ Len(rest) = Len(list) - 1 /\ last = list[Len(list)]
        /\ \A i \in 1..(Len(list) - 1) : rest[i] = list[i]
        /\ Ranges(list) = Ranges(rest) \cup {last}
  <2>1. /\ Len(list) \in Nat /\ Len(list) > 0 /\ Last(list) = list[Len(list)] /\ Last(list) \in Range_
        /\ Front(list) \in Seq(Range_) /\ Len(Front(list)) = Len(list) - 1
        /\ \A i \in 1..(Len(list) - 1) : Front(list)[i] = list[i]
        /\ Ranges(list) = Ranges(Front(list)) \cup {Last(list)}
    BY Popped
  <2> QED
    BY <2>1, Zenon
<1>2. \A i \in 1..Len(list) : list[i].slot \in Nat
  BY Listed, Constants
<1>3. \A i \in 1..Len(rest) : i \in 1..Len(list) /\ rest[i] = list[i] /\ rest[i].slot < last.slot
  BY <1>1 DEF Ascending
<1>4. Ascending(rest)
  BY <1>1, SMTT(30) DEF Ascending
<1>5. ASSUME last \in Ranges(rest)
      PROVE  FALSE
  <2>1. PICK i \in 1..Len(rest) : rest[i] = last
    BY <1>5, Listed
  <2> QED
    BY <1>1, <1>2, <1>3, <2>1
<1>6. ASSUME NEW b \in Int, \A i \in 1..Len(list) : list[i].slot <= b, NEW i \in 1..Len(rest)
      PROVE  rest[i].slot <= b - 1
  <2>1. last.slot <= b /\ last.slot \in Nat
    BY <1>1, <1>2, <1>6
  <2> QED
    BY <1>2, <1>3, <1>6, <2>1
<1>7. Len(rest) \in Nat /\ Len(list) = Len(rest) + 1
  BY <1>1
<1>8. \A b \in Int : (\A i \in 1..Len(list) : list[i].slot <= b) =>
         \A i \in 1..Len(rest) : rest[i].slot <= b - 1
  BY <1>6
<1> WITNESS rest \in Seq(Range_), last \in Range_
<1> QED
  BY <1>1, <1>3, <1>4, <1>5, <1>7, <1>8

LEMMA OneRange == Ranges(<<>>) = {} /\ \A r : Ranges(<<r>>) = {r}
  BY DEF Ranges, ToSet

LEMMA ShrinkGivesBackKeeps == ASSUME AddressInv, NEW t \in Task, ShrinkGivesBack(t) PROVE AddressInv'
<1> DEFINE P == ProcessOf[t]
<1>1. /\ Sane /\ life[t] = "live" /\ running = t /\ sbrk[t].pc = "shrink" /\ sbrk[t].left > 0
      /\ Mine(t) # <<>> /\ AddressTypeOK /\ CallInv /\ RunInv
  BY DEF ShrinkGivesBack, In, AddressInv
<1>2. PICK list \in Seq(Range_) : list = Mine(t) /\ list = pages[P]
  BY <1>1, Typed DEF Mine
<1>3. PICK rest \in Seq(Range_), r \in Range_ :
         rest = Front(list) /\ r = Last(list) /\ Ranges(list) = Ranges(rest) \cup {r}
  BY <1>1, <1>2, Popped
<1>4. CASE r \in Stale(P)
  <2>1. Abort("gave a page back twice")
    BY <1>2, <1>3, <1>4 DEF ShrinkGivesBack
  <2>2. PICK u \in Task : ProcessOf[u] = P /\ r \in Ranges(sbrk[u].freed)
    BY <1>4 DEF Stale, Threads
  <2>3. sbrk[u].pc = "unmap"
    BY <1>1, <2>2, OneRange DEF CallInv
  <2>4. ~overlapped => life[u] # "live"
    <3>1. u # t
      BY <1>1, <2>3
    <3> QED
      BY <1>1, <2>2, <2>3, <3>1 DEF AddressInv, Orderly, OrderInv, OneCaller, Calling
  <2> QED
    BY <1>1, <2>1, <2>3, <2>4, Aborts
<1>5. CASE r \notin Stale(P)
  <2> DEFINE c == [sbrk[t] EXCEPT !.pc = "unmap", !.freed = <<r>>, !.rest = rest]
  <2>1. /\ sbrk \in [Task -> Call] /\ sbrk[t] \in Call /\ P \in Process
        /\ sbrk[t].freed = <<>> /\ sbrk[t].got = <<>> /\ <<r>> \in Seq(Range_)
        /\ Ranges(<<>>) = {} /\ Ranges(<<r>>) = {r}
    <3>1. /\ sbrk \in [Task -> Call] /\ sbrk[t] \in Call /\ P \in Process
          /\ sbrk[t].freed = <<>> /\ sbrk[t].got = <<>>
      BY <1>1, Typed DEF CallInv
    <3>2. <<r>> \in Seq(Range_)
      OBVIOUS
    <3> QED
      BY <3>1, <3>2, OneRange
  <2>2. /\ c \in Call /\ c.pc = "unmap" /\ c.freed = <<r>> /\ c.rest = rest /\ c.got = <<>>
        /\ c.n = sbrk[t].n /\ c.left = sbrk[t].left /\ c.base = sbrk[t].base
    BY <2>1 DEF Call
  <2>3. /\ given' = given \ {r.page} /\ sbrk' = [sbrk EXCEPT ![t] = c]
        /\ UNCHANGED <<mmu, fault, pages, end, mapVars, running, life, kills, overlapped>>
    BY <1>2, <1>3, <1>5, <2>1 DEF ShrinkGivesBack, CallOnly
  <2> HIDE DEF c
  <2>4. AddressTypeOK'
    <3>1. /\ given' \subseteq Page /\ overlapped' \in BOOLEAN
          /\ mmu' \in [Slot -> Page \cup {NoPage}] /\ pages' \in [Process -> Seq(Range_)]
          /\ end' \in [Process -> Nat]
      BY <1>1, <2>3 DEF AddressTypeOK
    <3> QED
      BY <1>1, <2>2, <2>3, <3>1, CallTyped
  <2>5. CallInv' /\ sbrk'[t] = c /\ \A u \in Task \ {t} : sbrk'[u] = sbrk[u]
    <3>1. Len(c.got) <= c.n
      BY <1>1, <2>1, <2>2 DEF CallInv
    <3> QED
      BY <1>1, <2>2, <2>3, <3>1, CallFacts
  <2>6. RunInv'
    BY <1>1, <2>3 DEF RunInv, mapVars
  <2>7. ASSUME Orderly'
        PROVE  OrderInv'
    <3>1. OrderInv /\ Calling(t)
      BY <1>1, <2>3, <2>7 DEF AddressInv, Orderly, Sane, Calling
    <3>2. OneCaller'
      BY <1>1, <2>2, <2>3, <3>1, CallerStays DEF OrderInv
    <3>3. \A u \in Task : Mine(u)' = Mine(u)
      BY <2>3 DEF Mine
    <3>4. \A u \in Task : /\ Shrinking(u)' <=> Shrinking(u)
                          /\ Calling(u)' <=> Calling(u)
                          /\ sbrk'[u].n = sbrk[u].n /\ sbrk'[u].left = sbrk[u].left /\ sbrk'[u].got = sbrk[u].got
                          /\ sbrk'[u].base = sbrk[u].base
                          /\ sbrk'[u].pc = "allocate" <=> sbrk[u].pc = "allocate"
      BY <1>1, <2>1, <2>2, <2>5 DEF Shrinking, Calling
    <3>5. PlaceInv'
      BY <2>3, <3>1, <3>3, <3>4 DEF OrderInv, PlaceInv
    <3>6. FullInv'
      <4>1. \A p \in Process : Undisturbed(p)' <=> Undisturbed(p)
        BY <2>3, <3>4 DEF Undisturbed, Threads
      <4> QED
        BY <2>3, <3>1, <3>4, <4>1 DEF OrderInv, FullInv, Threads
    <3>7. FreedInv'
      <4>1. FreedInv
        BY <3>1 DEF OrderInv
      <4>2. \A u \in Task : \A x \in Ranges(sbrk'[u].freed) : x \in Ranges(Mine(u))
        BY <1>2, <1>3, <2>1, <2>2, <2>5, <4>1 DEF FreedInv
      <4>3. \A u \in Task : life[u] = "live" /\ sbrk'[u].pc = "unmap" =>
               /\ Mine(u) # <<>>
               /\ sbrk'[u].freed = <<Last(Mine(u))>> /\ sbrk'[u].rest = Front(Mine(u))
        <5> TAKE u \in Task
        <5>1. CASE u = t
          BY <1>1, <1>2, <1>3, <2>2, <2>5, <5>1
        <5>2. CASE u # t
          BY <2>5, <4>1, <5>2 DEF FreedInv
        <5> QED
          BY <5>1, <5>2
      <4>4. \A u \in Task \ {t} : ProcessOf[u] = P => r \notin Ranges(sbrk[u].freed)
        BY <1>5 DEF Stale, Threads
      <4>5. \A u, v \in Task : ProcessOf[u] = ProcessOf[v] /\ u # v =>
               \A x \in Ranges(sbrk'[u].freed) : x \notin Ranges(sbrk'[v].freed)
        <5>1. \A u \in Task : Ranges(sbrk'[u].freed) = IF u = t THEN {r} ELSE Ranges(sbrk[u].freed)
          BY <2>1, <2>2, <2>5
        <5> QED
          BY <4>1, <4>4, <5>1 DEF FreedInv
      <4> QED
        BY <2>3, <3>3, <4>2, <4>3, <4>5 DEF FreedInv
    <3>8. PageInv'
      <4>1. \A p \in Process : Stale(p)' = IF p = P THEN Stale(p) \cup {r} ELSE Stale(p)
        <5> TAKE p \in Process
        <5>1. ASSUME NEW x
              PROVE  x \in Stale(p)' <=> x \in Stale(p) \/ (p = P /\ x = r)
          <6>1. x \in Stale(p)' <=> \E u \in Task : ProcessOf[u] = p /\ x \in Ranges(sbrk'[u].freed)
            BY DEF Stale, Threads
          <6>2. x \in Stale(p) <=> \E u \in Task : ProcessOf[u] = p /\ x \in Ranges(sbrk[u].freed)
            BY DEF Stale, Threads
          <6>3. \A u \in Task : x \in Ranges(sbrk'[u].freed) <=> x \in Ranges(sbrk[u].freed) \/ (u = t /\ x = r)
            BY <2>1, <2>2, <2>5
          <6> QED
            BY <6>1, <6>2, <6>3
        <5> QED
          BY <5>1
      <4>2. \A p \in Process : Showing(p)' = IF p = P THEN Showing(p) \ {r} ELSE Showing(p)
        BY <2>3, <4>1 DEF Showing
      <4>3. r \in Showing(P)
        BY <1>2, <1>3, <1>5 DEF Showing
      <4>4. \A u \in Task : Got(u)' = Got(u)
        BY <3>4 DEF Got
      <4> QED
        BY <2>1, <2>3, <3>1, <4>2, <4>3, <4>4, PageIsReturned, Constants DEF OrderInv
    <3>9. MmuInv'
      BY <2>3, <3>1, <3>3 DEF OrderInv, MmuInv, Mine, Mapped
    <3> QED
      BY <3>2, <3>5, <3>6, <3>7, <3>8, <3>9 DEF OrderInv
  <2> QED
    BY <1>1, <2>3, <2>4, <2>5, <2>6, <2>7, GoesOn
<1> QED
  BY <1>4, <1>5

LEMMA UnmapAndUnlinkKeeps == ASSUME AddressInv, NEW t \in Task, UnmapAndUnlink(t) PROVE AddressInv'
<1> DEFINE P == ProcessOf[t]
           freed == sbrk[t].freed
<1>1. /\ Sane /\ life[t] = "live" /\ running = t /\ sbrk[t].pc = "unmap"
      /\ AddressTypeOK /\ CallInv /\ RunInv /\ sbrk[t].left > 0 /\ sbrk[t].got = <<>>
  BY DEF UnmapAndUnlink, In, AddressInv, CallInv
<1>2. /\ sbrk \in [Task -> Call] /\ sbrk[t] \in Call /\ P \in Process /\ sbrk[t].left \in Nat
      /\ sbrk[t].rest \in Seq(Range_) /\ freed \in Seq(Range_)
      /\ mmu \in [Slot -> Page \cup {NoPage}] /\ pages \in [Process -> Seq(Range_)]
  BY <1>1, Typed DEF AddressTypeOK
<1>3. PICK list \in Seq(Range_) : list = Mine(t) /\ list = pages[P]
  BY <1>1, Typed DEF Mine
<1>4. Orderly => /\ OrderInv /\ list # <<>> /\ Ascending(list) /\ mmu = Mapped(list, Empty)
                 /\ freed = <<Last(list)>> /\ sbrk[t].rest = Front(list)
  <2> SUFFICES ASSUME Orderly
               PROVE  /\ OrderInv /\ list # <<>> /\ Ascending(list) /\ mmu = Mapped(list, Empty)
                      /\ freed = <<Last(list)>> /\ sbrk[t].rest = Front(list)
    OBVIOUS
  <2>1. OrderInv
    BY DEF AddressInv
  <2>2. list # <<>> /\ freed = <<Last(list)>> /\ sbrk[t].rest = Front(list)
    BY <1>1, <1>3, <2>1 DEF OrderInv, FreedInv
  <2>3. Ascending(list)
    BY <1>2, <1>3, <2>1 DEF OrderInv, PlaceInv
  <2>4. mmu = Mapped(list, Empty)
    BY <1>1, <1>3, <2>1, Constants DEF OrderInv, MmuInv, Empty
  <2> QED
    BY <2>1, <2>2, <2>3, <2>4
<1>5. CASE ~Unmappable(freed, mmu)
  <2>1. Abort("was not mapped")
    BY <1>5 DEF UnmapAndUnlink
  <2>2. overlapped
    BY <1>1, <1>4, <1>5, UnmapLast DEF Orderly
  <2> QED
    BY <1>1, <2>1, <2>2, Aborts
<1>6. CASE Unmappable(freed, mmu)
  <2> DEFINE c == [sbrk[t] EXCEPT !.pc = "shrink", !.left = @ - 1, !.freed = <<>>, !.rest = <<>>]
  <2>1. /\ c \in Call /\ c.pc = "shrink" /\ c.freed = <<>> /\ c.got = <<>>
        /\ c.n = sbrk[t].n /\ c.left = sbrk[t].left - 1 /\ c.base = sbrk[t].base
    <3>1. <<>> \in Seq(Range_) /\ sbrk[t].left - 1 \in 0..MaxGrow
      BY <1>1, <1>2, Constants DEF Call
    <3> QED
      BY <1>1, <1>2, <3>1 DEF Call
  <2>2. /\ mmu' = Unmapped(freed, mmu) /\ sbrk' = [sbrk EXCEPT ![t] = c]
        /\ pages' = [pages EXCEPT ![P] = sbrk[t].rest]
        /\ UNCHANGED <<given, fault, end, mapVars, running, life, kills, overlapped>>
    BY <1>2, <1>6 DEF UnmapAndUnlink, CallOnly
  <2> HIDE DEF c
  <2>3. AddressTypeOK'
    <3>1. /\ given' \subseteq Page /\ overlapped' \in BOOLEAN /\ end' \in [Process -> Nat]
      BY <1>1, <2>2 DEF AddressTypeOK
    <3>2. mmu' \in [Slot -> Page \cup {NoPage}]
      BY <1>2, <2>2, MappedType
    <3>3. pages' \in [Process -> Seq(Range_)]
      BY <1>2, <2>2
    <3> QED
      BY <1>1, <2>1, <2>2, <3>1, <3>2, <3>3, CallTyped
  <2>4. CallInv' /\ sbrk'[t] = c /\ \A u \in Task \ {t} : sbrk'[u] = sbrk[u]
    <3>1. Len(c.got) <= c.n
      BY <1>1, <2>1 DEF CallInv
    <3> QED
      BY <1>1, <2>1, <2>2, <3>1, CallFacts
  <2>5. RunInv'
    BY <1>1, <2>2 DEF RunInv, mapVars
  <2>6. ASSUME Orderly'
        PROVE  OrderInv'
    <3>1. Orderly /\ OrderInv /\ Calling(t)
      BY <1>1, <2>2, <2>6 DEF AddressInv, Orderly, Sane, Calling
    <3>2. PICK rest \in Seq(Range_), last \in Range_ :
             /\ rest = Front(list) /\ last = Last(list) /\ Ascending(rest)
             /\ Len(rest) \in Nat /\ Len(list) = Len(rest) + 1
             /\ Ranges(list) = Ranges(rest) \cup {last} /\ last \notin Ranges(rest)
             /\ \A i \in 1..Len(rest) : i \in 1..Len(list) /\ rest[i] = list[i]
             /\ \A b \in Int : (\A i \in 1..Len(list) : list[i].slot <= b) =>
                   \A i \in 1..Len(rest) : rest[i].slot <= b - 1
      BY <1>4, <3>1, Unlinked
    <3>3. /\ pages'[P] = rest /\ pages[P] = list /\ \A p \in Process \ {P} : pages'[p] = pages[p]
          /\ end' = end /\ end \in [Process -> Nat] /\ end[P] \in Nat
      BY <1>1, <1>2, <1>3, <1>4, <2>2, <3>1, <3>2 DEF AddressTypeOK
    <3>4. freed = <<last>> /\ Ranges(freed) = {last} /\ Ranges(c.freed) = {}
      BY <1>4, <2>1, <3>1, <3>2, OneRange
    <3>5. \A u \in Task \ {t} : ProcessOf[u] = P /\ life[u] = "live" => sbrk[u].pc = "user"
      BY <1>1, <3>1, Alone DEF OrderInv
    <3>6. OneCaller'
      BY <1>1, <2>1, <2>2, <3>1, CallerStays DEF OrderInv
    <3>7. /\ \A u \in Task : ProcessOf[u] # P => ProcessOf[u] \in Process /\ Mine(u)' = Mine(u)
          /\ \A u \in Task : ProcessOf[u] = P => Mine(u)' = rest /\ Mine(u) = list
      BY <3>3, Constants DEF Mine
    <3>8. /\ Shrinking(t) /\ Shrinking(t)' /\ t \in Threads(P) /\ Calling(t)'
          /\ \A u \in Task \ {t} : (Shrinking(u)' <=> Shrinking(u)) /\ (Calling(u)' <=> Calling(u))
      BY <1>1, <2>1, <2>4 DEF Shrinking, Threads, Calling
    <3>9. /\ sbrk[t].n \in Nat /\ sbrk[t].left \in Nat
          /\ \A i \in 1..Len(list) : list[i].slot <= end[P] - sbrk[t].n + sbrk[t].left
          /\ \A i \in 1..Len(list) : list[i].slot <= end[P]
      <4>1. \A i \in 1..Len(list) : list[i].slot <= end[P]
        BY <1>2, <3>1, <3>3 DEF OrderInv, PlaceInv
      <4>2. \A i \in 1..Len(list) : list[i].slot <= end[P] - sbrk[t].n + sbrk[t].left
        BY <1>1, <1>3, <3>1, <3>8 DEF OrderInv, PlaceInv
      <4> QED
        BY <1>1, <4>1, <4>2, Typed
    <3>10. /\ \A i \in 1..Len(rest) : rest[i].slot <= end[P] - sbrk[t].n + (sbrk[t].left - 1)
           /\ \A i \in 1..Len(rest) : rest[i].slot <= end[P]
      <4>1. end[P] - sbrk[t].n + sbrk[t].left \in Int
            /\ (end[P] - sbrk[t].n + sbrk[t].left) - 1 = end[P] - sbrk[t].n + (sbrk[t].left - 1)
        <5>1. \A e, n, l \in Nat : e - n + l \in Int /\ (e - n + l) - 1 = e - n + (l - 1)
          OBVIOUS
        <5>2. end[P] \in Nat /\ sbrk[t].n \in Nat /\ sbrk[t].left \in Nat
          BY <3>3, <3>9
        <5> QED
          BY <5>1, <5>2
      <4>2. \A i \in 1..Len(rest) : rest[i].slot <= (end[P] - sbrk[t].n + sbrk[t].left) - 1
        BY <3>2, <3>9, <4>1
      <4> QED
        BY <3>2, <3>9, <4>1, <4>2
    <3>11. PlaceInv'
      <4>1. ASSUME NEW p \in Process
            PROVE  Ascending(pages'[p]) /\ \A i \in 1..Len(pages'[p]) : pages'[p][i].slot <= end'[p]
        <5>1. CASE p # P
          BY <3>1, <3>3, <5>1 DEF OrderInv, PlaceInv
        <5>2. CASE p = P
          BY <3>2, <3>3, <3>10, <5>2
        <5> QED
          BY <5>1, <5>2
      <4>2. ASSUME NEW u \in Task, life[u] = "live", Shrinking(u)'
            PROVE  \A i \in 1..Len(Mine(u)') : Mine(u)'[i].slot <= end'[ProcessOf[u]] - sbrk'[u].n + sbrk'[u].left
        <5>1. CASE u = t
          BY <2>1, <2>4, <3>3, <3>7, <3>10, <5>1
        <5>2. CASE u # t
          <6>1. ProcessOf[u] # P /\ Shrinking(u) /\ sbrk'[u] = sbrk[u]
            BY <2>4, <3>5, <3>8, <4>2, <5>2 DEF Shrinking
          <6> QED
            BY <3>1, <3>3, <3>7, <4>2, <6>1 DEF OrderInv, PlaceInv
        <5> QED
          BY <5>1, <5>2
      <4>3. \A u \in Task : \A i \in 1..Len(sbrk'[u].got) : sbrk'[u].got[i].slot = sbrk'[u].base + i
        BY <1>1, <2>1, <2>4, <3>1 DEF OrderInv, PlaceInv
      <4>4. \A u \in Task : life[u] = "live" /\ sbrk'[u].pc = "allocate" => sbrk'[u].base = end'[ProcessOf[u]]
        BY <2>1, <2>4, <3>1, <3>3 DEF OrderInv, PlaceInv
      <4> QED
        BY <2>2, <4>1, <4>2, <4>3, <4>4 DEF PlaceInv
    <3>12. FreedInv'
      <4>1. FreedInv
        BY <3>1 DEF OrderInv
      <4>2. \A u \in Task : Ranges(sbrk'[u].freed) = IF u = t THEN {} ELSE Ranges(sbrk[u].freed)
        BY <2>4, <3>4
      <4>3. \A u \in Task \ {t} : ProcessOf[u] = P => last \notin Ranges(sbrk[u].freed)
        BY <3>4, <4>1 DEF FreedInv
      <4>4. ASSUME NEW u \in Task, NEW r \in Ranges(sbrk'[u].freed)
            PROVE  r \in Ranges(Mine(u)')
        <5>1. u # t /\ r \in Ranges(sbrk[u].freed)
          BY <4>2, <4>4
        <5>2. r \in Ranges(Mine(u))
          BY <4>1, <5>1 DEF FreedInv
        <5> QED
          BY <3>2, <3>7, <4>3, <5>1, <5>2
      <4>5. ASSUME NEW u \in Task, life[u] = "live", sbrk'[u].pc = "unmap"
            PROVE  /\ Mine(u)' # <<>>
                   /\ sbrk'[u].freed = <<Last(Mine(u)')>> /\ sbrk'[u].rest = Front(Mine(u)')
        <5>1. u # t /\ sbrk'[u] = sbrk[u]
          BY <2>1, <2>4, <4>5
        <5>2. ProcessOf[u] # P
          BY <3>5, <4>5, <5>1
        <5>3. Mine(u)' = Mine(u)
          BY <3>7, <5>2
        <5> QED
          BY <4>1, <4>5, <5>1, <5>3, Zenon DEF FreedInv
      <4>6. \A u, v \in Task : ProcessOf[u] = ProcessOf[v] /\ u # v =>
               \A x \in Ranges(sbrk'[u].freed) : x \notin Ranges(sbrk'[v].freed)
        BY <4>1, <4>2 DEF FreedInv
      <4> QED
        BY <2>2, <4>4, <4>5, <4>6 DEF FreedInv
    <3>13. FullInv'
      <4>1. \A p \in Process : Undisturbed(p)' <=> Undisturbed(p)
        BY <2>2, <3>1, <3>8 DEF Undisturbed, Threads
      <4>2. \A u \in Task : life[u] = "live" /\ Shrinking(u)' => sbrk'[u].n <= end[ProcessOf[u]]
        BY <1>1, <2>1, <2>4, <3>1, <3>8 DEF OrderInv, FullInv
      <4>3. ASSUME NEW p \in Process, Undisturbed(p)
            PROVE  /\ \A i \in 1..Len(pages'[p]) : pages'[p][i].slot = i
                   /\ \A u \in Threads(p) : Shrinking(u)' => Len(pages'[p]) = end[p] - sbrk'[u].n + sbrk'[u].left
                   /\ (\A u \in Threads(p) : ~Shrinking(u)') => Len(pages'[p]) = end[p]
        <5>1. CASE p # P
          <6>1. pages'[p] = pages[p] /\ \A u \in Threads(p) : sbrk'[u] = sbrk[u] /\ (Shrinking(u)' <=> Shrinking(u))
            BY <2>4, <3>3, <3>8, <5>1 DEF Threads
          <6> QED
            BY <3>1, <4>3, <6>1 DEF OrderInv, FullInv
        <5>2. CASE p = P
          <6>1. /\ \A i \in 1..Len(list) : list[i].slot = i
                /\ Len(list) = end[P] - sbrk[t].n + sbrk[t].left
            BY <3>1, <3>3, <3>8, <4>3, <5>2 DEF OrderInv, FullInv
          <6>2. \A u \in Threads(P) : Shrinking(u)' => u = t
            BY <3>5, <3>8, <4>3, <5>2 DEF Threads, Undisturbed, Shrinking, Calling
          <6>3. \A i \in 1..Len(rest) : rest[i].slot = i
            BY <3>2, <6>1
          <6>4. Len(rest) = end[P] - sbrk'[t].n + sbrk'[t].left
            <7>1. sbrk'[t].n = sbrk[t].n /\ sbrk'[t].left = sbrk[t].left - 1
              BY <2>1, <2>4
            <7>2. /\ Len(rest) \in Nat /\ end[P] \in Nat /\ sbrk[t].n \in Nat /\ sbrk[t].left \in Nat
                  /\ Len(rest) + 1 = end[P] - sbrk[t].n + sbrk[t].left
              BY <3>2, <3>3, <3>9, <6>1
            <7>3. PICK k \in Nat, e \in Nat, n \in Nat, l \in Nat :
                    k = Len(rest) /\ e = end[P] /\ n = sbrk[t].n /\ l = sbrk[t].left
              BY <7>2, Zenon
            <7>4. k + 1 = e - n + l
              BY <7>2, <7>3, Zenon
            <7>5. k = e - n + (l - 1)
              BY <7>4
            <7> QED
              BY <7>1, <7>3, <7>5, Zenon
          <6>5. pages'[p] = rest /\ t \in Threads(P)
            BY <3>3, <3>8, <5>2 DEF Threads
          <6>6. Shrinking(t)'
            BY <3>8, <3>9 DEF Shrinking
          <6> QED
            BY <5>2, <6>2, <6>3, <6>4, <6>5, <6>6
        <5> QED
          BY <5>1, <5>2
      <4> QED
        BY <2>2, <4>1, <4>2, <4>3 DEF FullInv, Threads
    <3>14. PageInv'
      <4>1. \A p \in Process : \A x : x \in Stale(p) <=> x \in Stale(p)' \/ (p = P /\ x = last)
        <5> TAKE p \in Process
        <5> TAKE x
        <5>1. x \in Stale(p)' <=> \E u \in Task : ProcessOf[u] = p /\ x \in Ranges(sbrk'[u].freed)
          BY DEF Stale, Threads
        <5>2. x \in Stale(p) <=> \E u \in Task : ProcessOf[u] = p /\ x \in Ranges(sbrk[u].freed)
          BY DEF Stale, Threads
        <5>3. \A u \in Task : x \in Ranges(sbrk[u].freed) <=> x \in Ranges(sbrk'[u].freed) \/ (u = t /\ x = last)
          BY <2>4, <3>4
        <5> QED
          BY <5>1, <5>2, <5>3
      <4>2. \A p \in Process : Showing(p)' = Showing(p)
        <5> TAKE p \in Process
        <5>1. CASE p # P
          <6>1. Stale(p)' = Stale(p)
            BY <4>1, <5>1
          <6> QED
            BY <3>3, <5>1, <6>1 DEF Showing
        <5>2. CASE p = P
          <6>1. Showing(P)' = Ranges(rest) \ Stale(P)'
            BY <3>3 DEF Showing
          <6>2. Showing(P) = Ranges(list) \ Stale(P)
            BY <3>3 DEF Showing
          <6>3. ASSUME NEW x
                PROVE  x \in Ranges(rest) \ Stale(P)' <=> x \in Ranges(list) \ Stale(P)
            BY <1>2, <3>2, <4>1
          <6> QED
            BY <5>2, <6>1, <6>2, <6>3
        <5> QED
          BY <5>1, <5>2
      <4>3. \A u \in Task : Got(u)' = Got(u)
        BY <1>1, <2>1, <2>4 DEF Got
      <4> QED
        BY <2>2, <3>1, <4>2, <4>3, SamePages DEF OrderInv
    <3>15. MmuInv'
      <4>1. mmu' = Mapped(rest, Empty)
        BY <1>4, <2>2, <3>1, <3>2, UnmapLast
      <4>2. running' = t /\ t # NoTask /\ Mine(t)' = rest
        BY <1>1, <2>2, <3>7, Constants
      <4> QED
        BY <4>1, <4>2 DEF MmuInv, Empty, Mapped
    <3> QED
      BY <3>6, <3>11, <3>12, <3>13, <3>14, <3>15 DEF OrderInv
  <2> QED
    BY <1>1, <2>2, <2>3, <2>4, <2>5, <2>6, GoesOn
<1> QED
  BY <1>5, <1>6

-----------------------------------------------------------------------------
(* The context switches, and the ends of tasks.                            *)
LEMMA LivesEnd ==
    ASSUME OrderInv, UNCHANGED <<given, pages, end, sbrk>>,
           \A t \in Task : /\ life'[t] = "live" => life[t] = "live"
                           /\ life[t] = "reaped" => life'[t] = "reaped"
    PROVE  OneCaller' /\ PlaceInv' /\ FreedInv' /\ FullInv' /\ PageInv'
<1>1. OneCaller'
  BY DEF OrderInv, OneCaller, Calling
<1>2. PlaceInv'
  BY DEF OrderInv, PlaceInv, Ascending, Shrinking, Mine
<1>3. FreedInv'
  BY DEF OrderInv, FreedInv, Mine
<1>4. FullInv'
  <2>1. \A p \in Process : Undisturbed(p)' => Undisturbed(p)
    BY DEF Undisturbed, Threads, Calling
  <2> QED
    BY <2>1 DEF OrderInv, FullInv, Shrinking, Threads
<1>5. PageInv'
  <2>1. (\A p \in Process : Showing(p)' = Showing(p)) /\ \A t \in Task : Got(t)' = Got(t)
    BY DEF Showing, Stale, Threads, Got
  <2> QED
    BY <2>1, SamePages DEF OrderInv
<1> QED
  BY <1>1, <1>2, <1>3, <1>4, <1>5

LEMMA LifeKeeps ==
    ASSUME AddressInv, Sane, UNCHANGED <<pageVars, pages, end, mapVars, running, sbrk, overlapped>>,
           kills' \in 0..MaxKills, life' \in [Task -> {"live", "dead", "reaped"}],
           \A t \in Task : /\ life'[t] = "live" => life[t] = "live"
                           /\ life[t] = "reaped" => life'[t] = "reaped"
    PROVE  AddressInv'
<1>1. AddressTypeOK'
  BY DEF AddressInv, AddressTypeOK, pageVars, mapVars
<1>2. CallInv' /\ RunInv' /\ UNCHANGED fault
  BY DEF AddressInv, CallInv, RunInv, pageVars, mapVars
<1>3. ASSUME Orderly'
      PROVE  OrderInv'
  <2>1. OrderInv
    BY <1>3 DEF AddressInv, Orderly, Sane, pageVars
  <2>2. MmuInv'
    BY <2>1 DEF OrderInv, MmuInv, Mine, Mapped, pageVars
  <2> QED
    BY <2>1, <2>2, LivesEnd DEF OrderInv, pageVars
<1> QED
  BY <1>1, <1>2, <1>3, GoesOn

LEMMA LivesKeep ==
    ASSUME AddressInv, NEW t \in Task, Exit(t) \/ Kill(t) \/ HadesReaps(t)
    PROVE  AddressInv'
<1>1. /\ life \in [Task -> {"live", "dead", "reaped"}] /\ kills \in 0..MaxKills /\ MaxKills \in Nat
  BY Constants DEF AddressInv, AddressTypeOK
<1>2. /\ Sane /\ UNCHANGED <<pageVars, pages, end, mapVars, running, sbrk, overlapped>>
      /\ kills' \in 0..MaxKills
      /\ \/ life[t] = "live" /\ life' = [life EXCEPT ![t] = "dead"]
         \/ life[t] = "dead" /\ life' = [life EXCEPT ![t] = "reaped"]
  BY <1>1 DEF Exit, Kill, HadesReaps, In
<1>3. /\ life' \in [Task -> {"live", "dead", "reaped"}]
      /\ \A u \in Task : /\ life'[u] = "live" => life[u] = "live"
                         /\ life[u] = "reaped" => life'[u] = "reaped"
  BY <1>1, <1>2
<1> QED
  BY <1>2, <1>3, LifeKeeps

LEMMA SwitchKeeps ==
    ASSUME AddressInv, Sane, UNCHANGED <<given, fault, restVars>>,
           mmu' \in [Slot -> Page \cup {NoPage}], running' \in Task \cup {NoTask},
           current_mapped_task' = running',
           current_mapped_refs' = IF running' = NoTask THEN 0 ELSE 1,
           Orderly => MmuInv'
    PROVE  AddressInv'
<1>1. UNCHANGED <<pages, end, sbrk, life, kills, overlapped>>
  BY DEF restVars
<1>2. AddressTypeOK'
  BY <1>1, SMTT(60) DEF AddressInv, AddressTypeOK
<1>3. CallInv' /\ RunInv'
  BY <1>1 DEF AddressInv, CallInv, RunInv
<1>4. ASSUME Orderly'
      PROVE  OrderInv'
  <2>1. Orderly /\ OrderInv
    BY <1>1, <1>4 DEF AddressInv, Orderly, Sane
  <2> QED
    BY <1>1, <2>1, LivesEnd DEF OrderInv
<1> QED
  BY <1>2, <1>3, <1>4, GoesOn

LEMMA SwitchInKeeps == ASSUME AddressInv, NEW t \in Task, SwitchIn(t) PROVE AddressInv'
<1>1. /\ Sane /\ running = NoTask /\ current_mapped_task = NoTask /\ t # NoTask /\ AddressTypeOK
  BY Constants DEF SwitchIn, AddressInv, RunInv
<1>2. PICK list \in Seq(Range_) : list = Mine(t)
  BY <1>1, Typed
<1>3. Orderly => Ascending(list) /\ mmu = Empty
  <2>1. Orderly => PlaceInv /\ MmuInv
    BY DEF AddressInv, OrderInv
  <2>2. PlaceInv => Ascending(list)
    BY <1>1, <1>2, Constants DEF PlaceInv, Mine
  <2>3. MmuInv => mmu = Empty
    BY <1>1 DEF MmuInv, Empty
  <2> QED
    BY <2>1, <2>2, <2>3
<1>4. CASE ~Mappable(list, mmu)
  <2>1. Abort("was already mapped")
    BY <1>1, <1>2, <1>4 DEF SwitchIn
  <2>2. \A r \in Ranges(list) : Empty[r.slot] = NoPage
    BY Listed, Constants, EmptyType
  <2>3. Ascending(list) => Mappable(list, Empty)
    BY <2>2, CanMap
  <2>4. overlapped
    BY <1>1, <1>3, <1>4, <2>3 DEF Orderly
  <2> QED
    BY <1>1, <2>1, <2>4, Aborts
<1>5. CASE Mappable(list, mmu)
  <2>1. /\ mmu' = Mapped(list, mmu)
        /\ current_mapped_task' = t /\ current_mapped_refs' = 1 /\ running' = t
        /\ UNCHANGED <<given, fault, restVars>>
    BY <1>1, <1>2, <1>5 DEF SwitchIn
  <2>2. mmu' \in [Slot -> Page \cup {NoPage}]
    BY <1>1, <2>1, MappedType DEF AddressTypeOK
  <2>3. Mine(t)' = list
    BY <1>2, <2>1 DEF Mine, restVars
  <2>4. Orderly => MmuInv'
    BY <1>1, <1>3, <2>1, <2>3 DEF MmuInv, Empty, Mapped
  <2> QED
    BY <1>1, <2>1, <2>2, <2>4, SwitchKeeps
<1> QED
  BY <1>4, <1>5

LEMMA SwitchOutKeeps == ASSUME AddressInv, SwitchOut PROVE AddressInv'
<1>1. /\ Sane /\ running \in Task /\ running # NoTask /\ AddressTypeOK
      /\ current_mapped_task = running /\ current_mapped_refs = 1
  BY DEF SwitchOut, AddressInv, RunInv, AddressTypeOK
<1>2. PICK list \in Seq(Range_) : list = Mine(running)
  BY <1>1, Typed
<1>3. Orderly => Ascending(list) /\ mmu = Mapped(list, Empty)
  <2>1. Orderly => PlaceInv /\ MmuInv
    BY DEF AddressInv, OrderInv
  <2>2. PlaceInv => Ascending(list)
    BY <1>1, <1>2, Constants DEF PlaceInv, Mine
  <2>3. MmuInv => mmu = Mapped(list, Empty)
    BY <1>1, <1>2 DEF MmuInv, Empty
  <2> QED
    BY <2>1, <2>2, <2>3
<1>4. CASE ~Unmappable(list, mmu)
  <2>1. Abort("was not mapped")
    <3>1. ~(current_mapped_refs > 1) /\ ~Unmappable(Mine(running), mmu)
      BY <1>1, <1>2, <1>4
    <3> QED
      BY <1>1, <3>1, Zenon DEF SwitchOut
  <2>2. overlapped
    BY <1>1, <1>3, <1>4, MapAndUnmap DEF Orderly
  <2> QED
    BY <1>1, <2>1, <2>2, Aborts
<1>5. CASE Unmappable(list, mmu)
  <2>1. /\ mmu' = Unmapped(list, mmu)
        /\ current_mapped_task' = NoTask /\ current_mapped_refs' = 0 /\ running' = NoTask
        /\ UNCHANGED <<given, fault, restVars>>
    BY <1>1, <1>2, <1>5 DEF SwitchOut, NothingMapped
  <2>2. mmu' \in [Slot -> Page \cup {NoPage}]
    BY <1>1, <2>1, MappedType DEF AddressTypeOK
  <2>3. Orderly => mmu' = Empty
    BY <1>3, <2>1, MapAndUnmap
  <2>4. Orderly => MmuInv'
    BY <2>1, <2>3 DEF MmuInv, Empty
  <2> QED
    BY <1>1, <2>1, <2>2, <2>4, SwitchKeeps
<1> QED
  BY <1>4, <1>5
-----------------------------------------------------------------------------
(* Hades takes the pages of a process whose threads are all reaped.        *)
LEMMA HadesGivesBackKeeps == ASSUME AddressInv, NEW P \in Process, HadesGivesBack(P) PROVE AddressInv'
<1>1. /\ Sane /\ running = NoTask /\ pages[P] # <<>> /\ AddressTypeOK /\ CallInv /\ RunInv
      /\ \A t \in Threads(P) : life[t] = "reaped"
  BY DEF HadesGivesBack, AddressInv
<1>2. PICK list \in Seq(Range_) : list = pages[P] /\ list # <<>>
  BY <1>1, Typed
<1>3. PICK rest \in Seq(Range_), r \in Range_ :
         rest = Front(list) /\ r = Last(list) /\ Ranges(list) = Ranges(rest) \cup {r}
  BY <1>2, Popped
<1>4. CASE r \in Stale(P)
  <2>1. Abort("gave a page back twice")
    BY <1>2, <1>3, <1>4 DEF HadesGivesBack
  <2>2. PICK t \in Threads(P) : r \in Ranges(sbrk[t].freed)
    BY <1>4 DEF Stale
  <2>3. t \in Task /\ life[t] # "live" /\ sbrk[t].pc = "unmap"
    BY <1>1, <2>2, OneRange DEF CallInv, Threads
  <2> QED
    BY <1>1, <2>1, <2>3, Aborts
<1>5. CASE r \notin Stale(P)
  <2>1. /\ given' = given \ {r.page} /\ pages' = [pages EXCEPT ![P] = rest]
        /\ UNCHANGED <<mmu, fault, end, mapVars, running, sbrk, life, kills, overlapped>>
    BY <1>1, <1>2, <1>3, <1>5 DEF HadesGivesBack, AddressTypeOK
  <2>2. /\ pages' \in [Process -> Seq(Range_)] /\ pages'[P] = rest
        /\ \A p \in Process \ {P} : pages'[p] = pages[p]
    BY <1>1, <2>1 DEF AddressTypeOK
  <2>3. AddressTypeOK'
    BY <1>1, <2>1, <2>2 DEF AddressTypeOK, mapVars
  <2>4. CallInv' /\ RunInv'
    BY <1>1, <2>1 DEF CallInv, RunInv, mapVars
  <2>5. ASSUME Orderly'
        PROVE  OrderInv'
    <3>1. Orderly /\ OrderInv
      BY <1>1, <2>1, <2>5 DEF AddressInv, Orderly, Sane
    <3>2. Ascending(list) /\ \A i \in 1..Len(list) : list[i].slot <= end[P]
      BY <1>2, <3>1 DEF OrderInv, PlaceInv
    <3>3. /\ Ascending(rest) /\ r \notin Ranges(rest)
          /\ \A i \in 1..Len(rest) : i \in 1..Len(list) /\ rest[i] = list[i]
      BY <1>2, <1>3, <3>2, Unlinked
    <3>4. \A t \in Task : /\ ProcessOf[t] # P => ProcessOf[t] \in Process /\ Mine(t)' = Mine(t)
                          /\ ProcessOf[t] = P => Mine(t)' = rest /\ Mine(t) = list /\ life[t] = "reaped"
      BY <1>1, <1>2, <2>2, Constants DEF Mine, Threads
    <3>5. OneCaller'
      BY <2>1, <3>1 DEF OrderInv, OneCaller, Calling
    <3>6. PlaceInv'
      <4>1. ASSUME NEW p \in Process
            PROVE  Ascending(pages'[p]) /\ \A i \in 1..Len(pages'[p]) : pages'[p][i].slot <= end[p]
        <5>1. CASE p # P
          BY <2>2, <3>1, <5>1 DEF OrderInv, PlaceInv
        <5>2. CASE p = P
          BY <2>2, <3>2, <3>3, <5>2
        <5> QED
          BY <5>1, <5>2
      <4>2. ASSUME NEW t \in Task, life[t] = "live", Shrinking(t)
            PROVE  \A i \in 1..Len(Mine(t)') : Mine(t)'[i].slot <= end[ProcessOf[t]] - sbrk[t].n + sbrk[t].left
        <5>1. Mine(t)' = Mine(t)
          BY <3>4, <4>2
        <5> QED
          BY <3>1, <4>2, <5>1 DEF OrderInv, PlaceInv
      <4>3. /\ \A t \in Task : \A i \in 1..Len(sbrk[t].got) : sbrk[t].got[i].slot = sbrk[t].base + i
            /\ \A t \in Task : life[t] = "live" /\ sbrk[t].pc = "allocate" => sbrk[t].base = end[ProcessOf[t]]
        BY <3>1 DEF OrderInv, PlaceInv
      <4> QED
        BY <2>1, <4>1, <4>2, <4>3 DEF PlaceInv, Shrinking
    <3>7. FreedInv'
      <4>1. FreedInv
        BY <3>1 DEF OrderInv
      <4>2. ASSUME NEW t \in Task, NEW x \in Ranges(sbrk[t].freed)
            PROVE  x \in Ranges(Mine(t)')
        <5>1. x \in Ranges(Mine(t))
          BY <4>1, <4>2 DEF FreedInv
        <5>2. ProcessOf[t] = P => x # r
          BY <1>5, <4>2 DEF Stale, Threads
        <5> QED
          BY <1>3, <3>4, <5>1, <5>2
      <4>3. \A t \in Task : life[t] = "live" => Mine(t)' = Mine(t)
        BY <3>4
      <4> QED
        BY <2>1, <4>1, <4>2, <4>3 DEF FreedInv
    <3>8. FullInv'
      <4>1. \A p \in Process : Undisturbed(p)' => p # P /\ Undisturbed(p) /\ pages'[p] = pages[p]
        BY <1>1, <2>1, <2>2 DEF Undisturbed, Threads, Calling
      <4> QED
        BY <2>1, <3>1, <4>1 DEF OrderInv, FullInv, Shrinking, Threads
    <3>9. PageInv'
      <4>1. \A p \in Process : Stale(p)' = Stale(p)
        BY <2>1 DEF Stale, Threads
      <4>2. \A p \in Process : Showing(p)' = IF p = P THEN Showing(p) \ {r} ELSE Showing(p)
        <5> TAKE p \in Process
        <5>1. CASE p # P
          BY <2>2, <4>1, <5>1 DEF Showing
        <5>2. CASE p = P
          <6>1. Ranges(rest) \ Stale(P) = (Ranges(list) \ Stale(P)) \ {r}
            BY <1>3, <3>3
          <6> QED
            BY <1>2, <2>2, <4>1, <5>2, <6>1 DEF Showing
        <5> QED
          BY <5>1, <5>2
      <4>3. r \in Showing(P) /\ r.page \in Page
        BY <1>2, <1>3, <1>5, Constants DEF Showing
      <4>4. \A t \in Task : Got(t)' = Got(t)
        BY <2>1 DEF Got
      <4> QED
        BY <2>1, <3>1, <4>2, <4>3, <4>4, PageIsReturned DEF OrderInv
    <3>10. MmuInv'
      BY <1>1, <2>1, <3>1 DEF OrderInv, MmuInv
    <3> QED
      BY <3>5, <3>6, <3>7, <3>8, <3>9, <3>10 DEF OrderInv
  <2> QED
    BY <1>1, <2>1, <2>3, <2>4, <2>5, GoesOn
<1> QED
  BY <1>4, <1>5
-----------------------------------------------------------------------------
LEMMA StepKeeps == ASSUME AddressInv, [Next]_vars PROVE AddressInv'
<1>1. CASE SwitchOut
  BY <1>1, SwitchOutKeeps
<1>2. ASSUME NEW t \in Task, SwitchIn(t) \/ SbrkStep(t) \/ Kill(t)
      PROVE  AddressInv'
  BY <1>2, SwitchInKeeps, GrowKeeps, AllocatePageKeeps, AllocateFailsKeeps, UndoKeeps,
     MapAndLinkKeeps, ShrinkKeeps, ShrinkGivesBackKeeps, UnmapAndUnlinkKeeps, ShrinkDoneKeeps,
     LivesKeep DEF SbrkStep
<1>3. CASE HadesStep
  BY <1>3, LivesKeep, HadesGivesBackKeeps DEF HadesStep
<1>4. CASE UNCHANGED vars
  <2>1. UNCHANGED <<given, mmu, fault, pages, end, current_mapped_task, current_mapped_refs, running,
                    sbrk, life, kills, overlapped>>
    BY <1>4 DEF vars, pageVars, spaceVars, mapVars
  <2>2. AddressTypeOK' /\ CallInv' /\ (Sane => RunInv')
    BY <2>1 DEF AddressInv, AddressTypeOK, CallInv, RunInv
  <2>3. ASSUME Orderly
        PROVE  OrderInv'
    <3>1. OrderInv
      BY <2>3 DEF AddressInv
    <3>2. MmuInv'
      BY <2>1, <3>1 DEF OrderInv, MmuInv, Mine, Mapped
    <3> QED
      BY <2>1, <3>1, <3>2, LivesEnd DEF OrderInv
  <2>4. AbortsHaveACause'
    BY <2>1 DEF AddressInv, AbortsHaveACause, Sane
  <2> QED
    BY <2>1, <2>2, <2>3, <2>4 DEF AddressInv, Orderly, Sane
<1> QED
  BY <1>1, <1>2, <1>3, <1>4 DEF Next

LEMMA StartIsSound == Init => AddressInv
<1> SUFFICES ASSUME Init PROVE AddressInv
  OBVIOUS
<1>1. /\ given = {} /\ mmu = Empty /\ fault = "none" /\ pages = [p \in Process |-> <<>>]
      /\ end = [p \in Process |-> 0] /\ current_mapped_task = NoTask /\ current_mapped_refs = 0
      /\ running = NoTask /\ sbrk = [t \in Task |-> NoCall] /\ life = [t \in Task |-> "live"]
      /\ kills = 0 /\ overlapped = FALSE
  BY DEF Init, PagesInit, Empty
<1>2. /\ \A t \in Task : /\ sbrk[t].pc = "user" /\ sbrk[t].n = 0 /\ sbrk[t].left = 0
                         /\ sbrk[t].got = <<>> /\ sbrk[t].freed = <<>>
      /\ \A p \in Process : pages[p] = <<>> /\ end[p] = 0
      /\ Len(<<>>) = 0
  BY <1>1 DEF NoCall
<1>3. AddressTypeOK
  <2>1. sbrk \in [Task -> Call] /\ mmu \in [Slot -> Page \cup {NoPage}]
    BY <1>1, Constants, EmptyType
  <2>2. given \subseteq Page /\ pages \in [Process -> Seq(Range_)] /\ end \in [Process -> Nat]
    BY <1>1, Constants
  <2>3. life \in [Task -> {"live", "dead", "reaped"}] /\ kills \in 0..MaxKills
    BY <1>1, Constants
  <2>5. overlapped \in BOOLEAN
    BY <1>1
  <2>4. /\ current_mapped_task \in Task \cup {NoTask} /\ current_mapped_refs \in 0..1
        /\ running \in Task \cup {NoTask}
    BY <1>1
  <2> QED
    BY <2>1, <2>2, <2>3, <2>4, <2>5, Zenon DEF AddressTypeOK, Call
<1>4. CallInv /\ RunInv /\ AbortsHaveACause
  BY <1>1, <1>2 DEF CallInv, RunInv, AbortsHaveACause, Sane
<1>5. OneCaller /\ FreedInv /\ MmuInv
  BY <1>1, <1>2, OneRange DEF OneCaller, FreedInv, MmuInv, Calling, Empty
<1>6. PlaceInv
  <2>1. \A p \in Process : Ascending(pages[p]) /\ \A i \in 1..Len(pages[p]) : pages[p][i].slot <= end[p]
    BY <1>2 DEF Ascending
  <2>2. \A t \in Task : ~Shrinking(t) /\ sbrk[t].pc # "allocate" /\ \A i \in 1..Len(sbrk[t].got) : FALSE
    BY <1>2 DEF Shrinking
  <2> QED
    BY <2>1, <2>2 DEF PlaceInv
<1>7. FullInv
  BY <1>2 DEF FullInv, Shrinking, Threads
<1>8. PageInv
  <2>1. (\A p \in Process : Showing(p) = {}) /\ \A t \in Task : Got(t) = {}
    BY <1>2, OneRange DEF Showing, Got
  <2>2. \A h, q : ~Holds(h, q)
    BY <2>1 DEF Holds
  <2> QED
    BY <1>1, <2>2 DEF PageInv
<1> QED
  BY <1>3, <1>4, <1>5, <1>6, <1>7, <1>8 DEF AddressInv, OrderInv

(* What why_sbrk, the switches and Hades keep up at every step, kills      *)
(* included.                                                               *)
THEOREM AddressInvariance == Spec => []AddressInv
<1>1. Init => AddressInv
  BY StartIsSound
<1>2. AddressInv /\ [Next]_vars => AddressInv'
  BY StepKeeps
<1> QED
  BY <1>1, <1>2, PTL DEF Spec

(* remap_task, unmap_task and the critical sections of why_sbrk: the MMU   *)
(* shows the pages of the process that runs and no others, and between     *)
(* calls they fill the heap up to thread->end.                             *)
THEOREM HeapIsShown == Spec => []MmuShowsTheHeap
<1>1. ASSUME AddressInv
      PROVE  MmuShowsTheHeap
  <2> SUFFICES ASSUME Orderly
               PROVE  /\ MmuInv
                      /\ \A p \in Process :
                           /\ \A t \in Threads(p) : sbrk[t].pc = "user"
                           /\ \E t \in Threads(p) : life[t] # "reaped"
                           => SlotsIn(pages[p]) = 1..end[p]
    BY DEF MmuShowsTheHeap, MmuInv
  <2>1. MmuInv /\ FullInv /\ AddressTypeOK
    BY <1>1 DEF AddressInv, OrderInv
  <2>2. ASSUME NEW p \in Process, \A t \in Threads(p) : sbrk[t].pc = "user",
               \E t \in Threads(p) : life[t] # "reaped"
        PROVE  SlotsIn(pages[p]) = 1..end[p]
    <3>1. Undisturbed(p) /\ \A t \in Threads(p) : ~Shrinking(t)
      BY <2>2 DEF Undisturbed, Calling, Shrinking
    <3>2. PICK list \in Seq(Range_) : list = pages[p]
      BY <2>1, Typed
    <3>3. (\A i \in 1..Len(list) : list[i].slot = i) /\ Len(list) = end[p]
      BY <2>1, <3>1, <3>2 DEF FullInv
    <3>4. ASSUME NEW s
          PROVE  s \in SlotsIn(list) <=> s \in 1..Len(list)
      <4>1. s \in SlotsIn(list) <=> \E r \in Ranges(list) : r.slot = s
        BY DEF SlotsIn
      <4>2. ASSUME NEW r \in Ranges(list), r.slot = s
            PROVE  s \in 1..Len(list)
        BY <3>3, <4>2, Listed
      <4>3. ASSUME s \in 1..Len(list)
            PROVE  list[s] \in Ranges(list) /\ list[s].slot = s
        BY <3>3, <4>3, Listed
      <4> QED
        BY <4>1, <4>2, <4>3
    <3> QED
      BY <3>2, <3>3, <3>4
  <2> QED
    BY <2>1, <2>2
<1> QED
  BY <1>1, AddressInvariance, PTL

(* pages_allocate with its roll-back, why_sbrk and Hades: a page that is   *)
(* given out has one holder and a free one has none.                       *)
THEOREM PagesHeldOnce == Spec => []PagesAreHeldOnce
<1>1. ASSUME AddressInv
      PROVE  PagesAreHeldOnce
  <2>1. ASSUME Orderly, NEW q \in Page \ Gone
        PROVE  Cardinality(Holders(q)) = IF q \in given THEN 1 ELSE 0
    <3>1. PageInv
      BY <1>1, <2>1 DEF AddressInv, OrderInv
    <3> DEFINE At(h, x) == \/ \E p \in Process : \E r : h = <<"space", p, r>> /\ x = <<"space", p>>
                           \/ \E t \in Task : \E r : h = <<"call", t, r>> /\ x = <<"call", t>>
    <3>2. ASSUME NEW x \in Holders(q)
          PROVE  \E h : Holds(h, q) /\ At(h, x)
      <4>1. CASE \E p \in Process : x = <<"space", p>> /\ q \in PagesIn(pages[p])
        <5>1. PICK p \in Process : x = <<"space", p>> /\ q \in PagesIn(pages[p])
          BY <4>1
        <5>2. PICK r \in Ranges(pages[p]) : r.page = q
          BY <5>1 DEF PagesIn
        <5>3. r \notin Stale(p)
          BY <2>1, <5>2 DEF Gone
        <5>4. Holds(<<"space", p, r>>, q)
          BY <5>2, <5>3 DEF Holds, Showing
        <5>5. At(<<"space", p, r>>, x)
          BY <5>1
        <5> HIDE DEF At
        <5> QED
          BY <5>4, <5>5
      <4>2. CASE \E t \in Task : x = <<"call", t>> /\ q \in PagesIn(sbrk[t].got)
        <5>1. PICK t \in Task : x = <<"call", t>> /\ q \in PagesIn(sbrk[t].got)
          BY <4>2
        <5>2. PICK r \in Ranges(sbrk[t].got) : r.page = q
          BY <5>1 DEF PagesIn
        <5>3. Holds(<<"call", t, r>>, q)
          BY <5>2 DEF Holds, Got
        <5>4. At(<<"call", t, r>>, x)
          BY <5>1
        <5> HIDE DEF At
        <5> QED
          BY <5>3, <5>4
      <4> HIDE DEF At
      <4> QED
        BY <3>2, <4>1, <4>2 DEF Holders
    <3>3. ASSUME NEW h, Holds(h, q)
          PROVE  \E x \in Holders(q) : At(h, x)
      <4>1. CASE \E p \in Process : \E r \in Showing(p) : h = <<"space", p, r>> /\ r.page = q
        <5>1. PICK p \in Process : \E r \in Showing(p) : h = <<"space", p, r>> /\ r.page = q
          BY <4>1
        <5>2. PICK r \in Showing(p) : h = <<"space", p, r>> /\ r.page = q
          BY <5>1
        <5>3. q \in PagesIn(pages[p])
          BY <5>2 DEF PagesIn, Showing
        <5>4. <<"space", p>> \in Holders(q) /\ At(h, <<"space", p>>)
          BY <5>2, <5>3 DEF Holders
        <5> QED
          BY <5>4
      <4>2. CASE \E t \in Task : \E r \in Got(t) : h = <<"call", t, r>> /\ r.page = q
        <5>1. PICK t \in Task : \E r \in Got(t) : h = <<"call", t, r>> /\ r.page = q
          BY <4>2
        <5>2. PICK r \in Got(t) : h = <<"call", t, r>> /\ r.page = q
          BY <5>1
        <5>3. q \in PagesIn(sbrk[t].got)
          BY <5>2 DEF PagesIn, Got
        <5>4. <<"call", t>> \in Holders(q) /\ At(h, <<"call", t>>)
          BY <5>2, <5>3 DEF Holders
        <5> QED
          BY <5>4
      <4> QED
        BY <3>3, <4>1, <4>2 DEF Holds
    <3>4. \A h, x, y : At(h, x) /\ At(h, y) => x = y
      OBVIOUS
    <3> HIDE DEF At
    <3>5. CASE q \in given
      <4>1. PICK h : Holds(h, q)
        BY <2>1, <3>1, <3>5 DEF PageInv
      <4>2. PICK x \in Holders(q) : At(h, x)
        BY <3>3, <4>1
      <4>3. \A y \in Holders(q) : y = x
        BY <2>1, <3>1, <3>2, <3>4, <4>1, <4>2 DEF PageInv
      <4>4. Holders(q) = {x}
        BY <4>2, <4>3
      <4> QED
        BY <3>5, <4>4, FS_Singleton
    <3>6. CASE q \notin given
      <4>1. \A h : ~Holds(h, q)
        BY <2>1, <3>1, <3>6 DEF PageInv
      <4>2. Holders(q) = {}
        BY <3>2, <4>1
      <4> QED
        BY <3>6, <4>2, FS_EmptySet
    <3> QED
      BY <3>5, <3>6
  <2> QED
    BY <1>1, <2>1 DEF PagesAreHeldOnce, AddressInv
<1> QED
  BY <1>1, AddressInvariance, PTL

(* remap_task, unmap_task and page_deallocate: their aborts need threads   *)
(* that met in why_sbrk, or a thread killed where it had given a page back *)
(* and not yet unmapped it.                                                *)
THEOREM AbortsAreExplained == Spec => []AbortsHaveACause
<1>1. AddressInv => AbortsHaveACause
  BY DEF AddressInv
<1> QED
  BY <1>1, AddressInvariance, PTL

(* "Each process gets its own isolated virtual address space", but for the *)
(* pages that why_sbrk gives back before it unmaps and unlinks them: no    *)
(* other page is in two lists, or shown by the MMU while it is free.       *)
THEOREM SharedPagesAreReturned == Spec => []SharedOnlyIfReturned
<1>1. ASSUME AddressInv
      PROVE  SharedOnlyIfReturned
  <2> SUFFICES ASSUME Orderly
               PROVE  /\ \A p, r \in Process : p # r =>
                           PagesIn(pages[p]) \cap PagesIn(pages[r]) \subseteq Returned(p) \cup Returned(r)
                      /\ \A s \in Slot : mmu[s] # NoPage =>
                           /\ running # NoTask /\ mmu[s] \in PagesIn(Mine(running))
                           /\ mmu[s] \in given \cup Returned(ProcessOf[running])
    BY DEF SharedOnlyIfReturned
  <2>1. PageInv /\ MmuInv /\ AddressTypeOK
    BY <1>1 DEF AddressInv, OrderInv
  <2>2. ASSUME NEW p \in Process, NEW q \in PagesIn(pages[p]), q \notin Returned(p)
        PROVE  q \in Page /\ \E x \in Showing(p) : x.page = q /\ Holds(<<"space", p, x>>, q)
    <3>1. PICK x \in Ranges(pages[p]) : x.page = q
      BY DEF PagesIn
    <3>2. x \notin Stale(p)
      BY <2>2, <3>1 DEF Returned
    <3>3. pages[p] \in Seq(Range_)
      BY <2>1 DEF AddressTypeOK
    <3>4. x \in Range_
      BY <3>1, <3>3, Listed
    <3>5. q \in Page
      BY <3>1, <3>4 DEF Range_
    <3>6. x \in Showing(p)
      BY <3>1, <3>2 DEF Showing
    <3> QED
      BY <3>1, <3>5, <3>6 DEF Holds
  <2>3. ASSUME NEW p \in Process, NEW r \in Process, p # r,
               NEW q \in PagesIn(pages[p]), q \in PagesIn(pages[r])
        PROVE  q \in Returned(p) \cup Returned(r)
    <3> SUFFICES ASSUME q \notin Returned(p), q \notin Returned(r) PROVE FALSE
      OBVIOUS
    <3>1. PICK x : q \in Page /\ Holds(<<"space", p, x>>, q)
      BY <2>2
    <3>2. PICK y : Holds(<<"space", r, y>>, q)
      BY <2>2, <2>3
    <3>3. <<"space", p, x>> = <<"space", r, y>>
      BY <2>1, <3>1, <3>2 DEF PageInv
    <3> QED
      BY <2>3, <3>3
  <2>4. ASSUME NEW s \in Slot, mmu[s] # NoPage
        PROVE  /\ running # NoTask /\ mmu[s] \in PagesIn(Mine(running))
               /\ mmu[s] \in given \cup Returned(ProcessOf[running])
    <3>1. running # NoTask /\ mmu = Mapped(Mine(running), [z \in Slot |-> NoPage])
      BY <2>1, <2>4 DEF MmuInv
    <3>2. running \in Task /\ ProcessOf[running] \in Process
      BY <2>1, <3>1, SpaceAssumption DEF AddressTypeOK
    <3>3. s \in SlotsIn(Mine(running))
      BY <2>4, <3>1 DEF Mapped
    <3>4. PICK x \in Ranges(Mine(running)) : x.slot = s
      BY <3>3 DEF SlotsIn
    <3> DEFINE y == CHOOSE z \in Ranges(Mine(running)) : z.slot = s
    <3>5. y \in Ranges(Mine(running)) /\ mmu[s] = y.page
      BY <3>1, <3>3, <3>4 DEF Mapped
    <3>6. mmu[s] \in PagesIn(Mine(running))
      BY <3>5 DEF PagesIn
    <3>7. mmu[s] \in given \cup Returned(ProcessOf[running])
      BY <2>1, <2>2, <3>2, <3>6 DEF PageInv, Mine
    <3> QED
      BY <3>1, <3>6, <3>7
  <2> QED
    BY <2>3, <2>4
<1> QED
  BY <1>1, AddressInvariance, PTL
=============================================================================

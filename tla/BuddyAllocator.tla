-------------------------- MODULE BuddyAllocator --------------------------
(***************************************************************************)
(* The buddy allocator of buddy_alloc.c with one pool (page_allocator and  *)
(* framebuffer_allocator have one each), and clients that use it at the    *)
(* same time.                                                              *)
(*                                                                         *)
(* The pool's mutex covers the block lists but not the count of free       *)
(* pages, which is loaded and stored outside it: those are steps of their  *)
(* own.  A block is named by the index of its first page.                  *)
(***************************************************************************)
EXTENDS Integers, SequencesExt, FiniteSetsExt

CONSTANTS Client,           (* tasks that allocate and free                *)
          Totals,           (* sizes of pool to consider, in pages         *)
          MaxRequest,       (* bound: pages of one request                 *)
          MaxRaces          (* bound: updates of free_pages that overlap   *)

ASSUME BuddyAssumption == /\ Totals \subseteq 2..512
                          /\ MaxRequest \in 1..512
                          /\ MaxRaces \in Nat

(* get_order: the exponent of the next power of two.                       *)
GetOrder(n) == CHOOSE o \in 0..9 : 2^o >= n /\ \A k \in 0..9 : 2^k >= n => o <= k

VARIABLES total,            (* pages of the pool, its metadata included    *)
          free_lists,       (* per order, oldest block first               *)
          waste_list,       (* blocks that start in a waste page           *)
          max_order_free, free_pages,
          held,             (* what each client has: [block, order, count] *)
          work,             (* where each client is, and its locals        *)
          refused,          (* pages of the request just refused, or 0     *)
          races             (* overlapping updates of free_pages so far    *)

blockLists == <<free_lists, waste_list, max_order_free>>
vars  == <<total, blockLists, free_pages, held, work, refused, races>>

(* init_pool: the metadata takes the first page, `pages' are left, and the *)
(* pool is rounded up to a power of two with waste.                        *)
MaxOrder == GetOrder(total)
Pages    == total - 1
Waste    == 2^MaxOrder - Pages
Order    == 0..MaxOrder
Index    == 0..(2^MaxOrder - 1)

IsWasteTooFew(i) == i \in (Pages + 1)..(total - 1)

(* is_waste is set from pages - max_order_waste up to total_pages.         *)
IsWaste(i) == i \in (Pages - Waste)..(total - 1)

Idle == [pc |-> "idle", block |-> 0, order |-> 0, count |-> 0, loaded |-> 0]

BuddyInit ==
    /\ total \in Totals
    /\ free_lists = [o \in Order |-> IF o = MaxOrder THEN <<0>> ELSE <<>>]
    /\ waste_list = {}
    /\ max_order_free = MaxOrder
    /\ free_pages = Pages
    /\ held = [c \in Client |-> {}]
    /\ work = [c \in Client |-> Idle]
    /\ refused = 0
    /\ races = 0
-----------------------------------------------------------------------------
(* buddy_allocate, under the mutex *)

PoolAcceptsOnlyLarger(order, count) == /\ max_order_free > order
                                       /\ free_pages >= count
                                       /\ order # MaxOrder

(* find_pool, and the check of the largest order, which compares a size in *)
(* bytes with a number of pages: it refuses every such request.            *)
PoolAccepts(order, count) == /\ max_order_free >= order
                             /\ free_pages >= count
                             /\ order # MaxOrder

(* pool_find_block looks only at the last page of the request.             *)
Fits(o, i, count) == ~IsWaste(free_lists[o][i] + count - 1)

FittingOrders(order, count) ==
    {o \in order..MaxOrder : \E i \in DOMAIN free_lists[o] : Fits(o, i, count)}

(* Each list is scanned from the block pushed last.                        *)
FoundAt(o, count) == Max({i \in DOMAIN free_lists[o] : Fits(o, i, count)})

(* split_block from order o down to order: at each order below o the right *)
(* half is pushed, on the free list or, if it starts in waste, there.      *)
SplitLists(lists, block, o, order) ==
    [p \in Order |-> IF p \in order..(o - 1) /\ ~IsWaste(block + 2^p)
                     THEN Append(lists[p], block + 2^p) ELSE lists[p]]
SplitWaste(block, o, order) ==
    {[block |-> block + 2^p, order |-> p] : p \in {q \in order..(o - 1) : IsWaste(block + 2^q)}}

(* max_order_free goes down while its list is empty.                       *)
Lowered(lists, from) ==
    LET filled == {o \in 0..from : lists[o] # <<>>}
    IN  IF filled = {} THEN 0 ELSE CHOOSE o \in filled : \A p \in filled : p <= o

Allocate(c) ==
    /\ work[c].pc = "idle"
    /\ \E count \in 1..MaxRequest :
         LET order == GetOrder(count)
         IN  /\ PoolAccepts(order, count)
             /\ FittingOrders(order, count) # {}
             /\ LET o     == Min(FittingOrders(order, count))
                    i     == FoundAt(o, count)
                    block == free_lists[o][i]
                    split == SplitLists([free_lists EXCEPT ![o] = RemoveAt(@, i)],
                                        block, o, order)
                IN  /\ free_lists' = split
                    /\ waste_list' = waste_list \cup SplitWaste(block, o, order)
                    /\ max_order_free' = Lowered(split, max_order_free)
                    /\ work' = [work EXCEPT ![c] = [pc |-> "allocated", block |-> block,
                                   order |-> order, count |-> count, loaded |-> 0]]
    /\ refused' = 0
    /\ UNCHANGED <<total, free_pages, held, races>>

AllocateFails(c) ==
    /\ work[c].pc = "idle"
    /\ \E count \in 1..MaxRequest :
         /\ LET order == GetOrder(count)
            IN  ~PoolAccepts(order, count) \/ FittingOrders(order, count) = {}
         /\ refused' = count
    /\ UNCHANGED <<total, blockLists, free_pages, held, work, races>>

(* free_pages -= and += are a load and a store that no lock joins.         *)
Updating == {c \in Client : work[c].pc \in {"subtract", "add"}}
Race     == /\ races' = IF Updating = {} THEN races ELSE races + 1
            /\ races' <= MaxRaces

(* A size_t wraps; any modulus well beyond the pool acts like 2^32.        *)
Wrap(n) == n % 2^16

LoadForSub(c) ==
    /\ work[c].pc = "allocated"
    /\ Race
    /\ work' = [work EXCEPT ![c].pc = "subtract", ![c].loaded = free_pages]
    /\ refused' = 0
    /\ UNCHANGED <<total, blockLists, free_pages, held>>

StoreSub(c) ==
    /\ work[c].pc = "subtract"
    /\ free_pages' = Wrap(work[c].loaded - 2^work[c].order)
    /\ held' = [held EXCEPT ![c] = @ \cup {[block |-> work[c].block, order |-> work[c].order,
                                            count |-> work[c].count]}]
    /\ work' = [work EXCEPT ![c] = Idle]
    /\ refused' = 0
    /\ UNCHANGED <<total, blockLists, races>>
-----------------------------------------------------------------------------
(* buddy_deallocate: free_pages first, then free_block under the mutex *)

LoadForAdd(c) ==
    /\ work[c].pc = "idle"
    /\ Race
    /\ \E h \in held[c] :
         /\ work' = [work EXCEPT ![c] = [pc |-> "add", block |-> h.block, order |-> h.order,
                                         count |-> h.count, loaded |-> free_pages]]
         /\ held' = [held EXCEPT ![c] = @ \ {h}]
    /\ refused' = 0
    /\ UNCHANGED <<total, blockLists, free_pages>>

StoreAddOnePage(c) ==
    /\ work[c].pc = "add"
    /\ free_pages' = Wrap(work[c].loaded + 1)
    /\ work' = [work EXCEPT ![c].pc = "merge", ![c].loaded = 0]
    /\ refused' = 0
    /\ UNCHANGED <<total, blockLists, held, races>>

StoreAdd(c) ==
    /\ work[c].pc = "add"
    /\ free_pages' = Wrap(work[c].loaded + 2^work[c].order)
    /\ work' = [work EXCEPT ![c].pc = "merge", ![c].loaded = 0]
    /\ refused' = 0
    /\ UNCHANGED <<total, blockLists, held, races>>

BlockOfUnmoved(i, o) == i

(* The block of order o that page i belongs to, and its buddy              *)
(* (index ^ (1 << order)).                                                 *)
BlockOf(i, o) == i - (i % 2^o)
BuddyOf(i, o) == IF (i \div 2^o) % 2 = 0 THEN i + 2^o ELSE i - 2^o

Listed(b, o) == \/ \E i \in DOMAIN free_lists[o] : free_lists[o][i] = b
                \/ [block |-> b, order |-> o] \in waste_list

(* try_merge_buddy at order o.  For the whole pool it reads the metadata   *)
(* one past the last block, which is zero: no buddy there.                 *)
CanMerge(i, o) == o < MaxOrder /\ Listed(BuddyOf(BlockOf(i, o), o), o)

MergedOrderOnce(i, order) == IF CanMerge(i, order) THEN order + 1 ELSE order

(* The loop of free_block stops at the first order without a free buddy.   *)
MergedOrder(i, order) == Min({o \in order..MaxOrder : ~CanMerge(i, o)})

FreeBlock(c) ==
    /\ work[c].pc = "merge"
    /\ LET i       == work[c].block
           order   == work[c].order
           o       == MergedOrder(i, order)
           block   == BlockOf(i, o)
           buddies == {[block |-> BuddyOf(BlockOf(i, p), p), order |-> p] : p \in order..(o - 1)}
           kept    == [p \in Order |-> IF p \in order..(o - 1)
                                       THEN RemoveFirst(free_lists[p], BuddyOf(BlockOf(i, p), p))
                                       ELSE free_lists[p]]
           merged  == [block |-> block, order |-> o]
       IN  IF IsWaste(block)
           THEN /\ free_lists' = kept
                /\ waste_list' = (waste_list \ buddies) \cup {merged}
                /\ UNCHANGED max_order_free
           ELSE /\ free_lists' = [kept EXCEPT ![o] = Append(@, block)]
                /\ waste_list' = waste_list \ buddies
                /\ max_order_free' = Max({max_order_free, o})
    /\ work' = [work EXCEPT ![c] = Idle]
    /\ refused' = 0
    /\ UNCHANGED <<total, free_pages, held, races>>
-----------------------------------------------------------------------------
Next == \E c \in Client : \/ Allocate(c) \/ AllocateFails(c) \/ LoadForSub(c) \/ StoreSub(c)
                          \/ LoadForAdd(c) \/ StoreAdd(c) \/ FreeBlock(c)

Spec == BuddyInit /\ [][Next]_vars
-----------------------------------------------------------------------------
Busy == {c \in Client : work[c].pc # "idle"}

(* The blocks that clients have, or are getting or giving back.            *)
Taken == (UNION {held[c] : c \in Client})
         \cup {[block |-> work[c].block, order |-> work[c].order, count |-> work[c].count] :
                 c \in Busy}
FreeListed == UNION {{[block |-> free_lists[o][i], order |-> o] : i \in DOMAIN free_lists[o]} :
                       o \in Order}
Span(b)    == b.block..(b.block + 2^b.order - 1)

BuddyTypeOK ==
    /\ total \in Totals
    /\ DOMAIN free_lists = Order
    /\ FreeListed \cup waste_list \subseteq [block : Index, order : Order]
    /\ max_order_free \in Order
    /\ free_pages \in 0..(2^16 - 1)
    /\ \A c \in Client :
         /\ held[c] \subseteq [block : Index, order : Order, count : 1..MaxRequest]
         /\ work[c].pc \in {"idle", "allocated", "subtract", "add", "merge"}
    /\ refused \in 0..MaxRequest
    /\ races \in 0..MaxRaces

(* Every page of the rounded pool is in exactly one block, which is free,  *)
(* waste, or some client's: none is lost and none is given out twice, over *)
(* any sequence of splits and merges by any clients.                       *)
BlocksPartitionPool ==
    /\ BuddyTypeOK
    /\ \A p \in Index :
        Cardinality({b \in Taken : p \in Span(b)})
          + Cardinality({f \in FreeListed : p \in Span(f)})
          + Cardinality({w \in waste_list : p \in Span(w)}) = 1

(* "any time we have the largest possible allocation available": no two    *)
(* buddies are both free (free_block, try_merge_buddy).                    *)
FullyMerged ==
    \A f \in FreeListed \cup waste_list :
        f.order < MaxOrder => ~Listed(BuddyOf(f.block, f.order), f.order)


(* A request for one page is refused only when every page below the waste  *)
(* is in a block somebody has, whatever the others are doing meanwhile.    *)
Full(limit) == 0..(limit - 1) \subseteq UNION {Span(b) : b \in Taken}
RefusedOnlyWhenFull == refused = 1 /\ races = 0 => Full(Pages - Waste)

Calculated == Pages - Cardinality({p \in Index : \E b \in Taken : p \in Span(b)})
(* find_pool trusts two figures kept by hand: max_order_free is the order  *)
(* of the largest free block, or 0, after every split and merge, and       *)
(* the stored number of free pages is the one that print_allocator         *)
(* calculates from the lists, whenever nobody is between the two, and as   *)
(* long as no two updates overlapped; after that it stays wrong.           *)
CountsAreExact ==
    /\ max_order_free = Max({0} \cup {f.order : f \in FreeListed})
    /\ Busy = {} /\ races = 0 => free_pages = Calculated

(* The allocator is a page store: what it gives are whole runs of pages of *)
(* the pool, none of them waste or beyond the end, that nobody else has.   *)
Store == INSTANCE PageStore WITH
             Page   <- 0..Max(Totals),
             usable <- 0..(Pages - 1),
             given  <- {[first |-> b.block, count |-> b.count] : b \in Taken}
StoreSpec == Store!Spec
-----------------------------------------------------------------------------
(* What the comments say and the code does not keep                        *)

(* Waste is what does "not correspond to usable memory": a page is refused *)
(* only when all the usable ones are in blocks somebody has.               *)
RefusalMeansFull == refused = 1 /\ races = 0 => Full(Pages)
=============================================================================

------------------------ MODULE BuddyAllocatorProofs ------------------------
(***************************************************************************)
(* Proofs about the buddy allocator, for any number of clients, of blocks  *)
(* and of overlapping updates of free_pages.                               *)
(***************************************************************************)
EXTENDS BuddyAllocator, FiniteSetTheorems, SequenceTheorems,
        WellFoundedInduction, TLAPS

(* Least numbers.                                                          *)
LEMMA Least ==
    ASSUME NEW S, S \subseteq Nat, S # {}
    PROVE  \E n \in S : \A k \in S : n <= k
<1> DEFINE R == OpToRel(<, Nat)
<1>1. \A x, y \in Nat : y < x => <<y, x>> \in R
  BY DEF OpToRel
<1>2. IsWellFoundedOn(R, Nat)
  BY NatLessThanWellFounded, Zenon
<1> HIDE DEF R
<1>3. IsWellFoundedOn(R, S)
  BY <1>2, IsWellFoundedOnSubset
<1>4. PICK n \in S : \A y \in S : ~(<<y, n>> \in R)
  BY <1>3, WFMin
<1>5. \A y \in S : ~(y < n)
  BY <1>1, <1>4
<1> QED
  BY <1>5
-----------------------------------------------------------------------------
(* Powers of two, up to the order that GetOrder knows.                     *)
Sizes == {1, 2, 4, 8, 16, 32, 64, 128, 256, 512}

Power(o, s) == s = IF o = 0 THEN 1 ELSE IF o = 1 THEN 2 ELSE IF o = 2 THEN 4 ELSE IF o = 3 THEN 8
                   ELSE IF o = 4 THEN 16 ELSE IF o = 5 THEN 32
                   ELSE IF o = 6 THEN 64 ELSE IF o = 7 THEN 128 ELSE IF o = 8 THEN 256 ELSE 512

LEMMA Powers == ASSUME NEW o \in 0..9 PROVE Power(o, 2^o)
<1>0. o = 0 => 2^o = 1
  OBVIOUS
<1>1. o = 1 => 2^o = 2
  OBVIOUS
<1>2. o = 2 => 2^o = 4
  OBVIOUS
<1>3. o = 3 => 2^o = 8
  OBVIOUS
<1>4. o = 4 => 2^o = 16
  OBVIOUS
<1>5. o = 5 => 2^o = 32
  OBVIOUS
<1>6. o = 6 => 2^o = 64
  OBVIOUS
<1>7. o = 7 => 2^o = 128
  OBVIOUS
<1>8. o = 8 => 2^o = 256
  OBVIOUS
<1>9. o = 9 => 2^o = 512
  OBVIOUS
<1> QED
  BY <1>0, <1>1, <1>2, <1>3, <1>4, <1>5, <1>6, <1>7, <1>8, <1>9 DEF Power

(* What the proofs know of powers of two, one fact at a time: the steps    *)
(* that cite these lemmas need no arithmetic.                              *)
LEMMA Sized == ASSUME NEW o \in 0..9 PROVE 2^o \in Sizes /\ 2^o \in 1..512
<1>1. PICK s : s = 2^o
  OBVIOUS
<1>2. Power(o, s)
  BY <1>1, Powers, Zenon
<1>3. s \in Sizes /\ s \in 1..512
  BY <1>2 DEF Power, Sizes
<1> QED
  BY <1>1, <1>3, Zenon

LEMMA Smaller == ASSUME NEW o \in 0..9, NEW p \in 0..9, p <= o PROVE 2^p <= 2^o
<1>1. PICK s : s = 2^o
  OBVIOUS
<1>2. PICK t : t = 2^p
  OBVIOUS
<1>3. Power(o, s) /\ Power(p, t)
  BY <1>1, <1>2, Powers, Zenon
<1>4. t <= s
  BY <1>3 DEF Power
<1> QED
  BY <1>1, <1>2, <1>4, Zenon

LEMMA HalfFits == ASSUME NEW o \in 0..9, NEW p \in 0..9, p < o PROVE 2 * 2^p <= 2^o
<1>1. PICK s : s = 2^o
  OBVIOUS
<1>2. PICK t : t = 2^p
  OBVIOUS
<1>3. Power(o, s) /\ Power(p, t)
  BY <1>1, <1>2, Powers, Zenon
<1>4. 2 * t <= s
  BY <1>3 DEF Power
<1> QED
  BY <1>1, <1>2, <1>4, Zenon

LEMMA NextSize == ASSUME NEW o \in 0..9, NEW p \in 0..9, p = o + 1 PROVE 2^p = 2 * 2^o
<1>1. PICK s : s = 2^o
  OBVIOUS
<1>2. PICK t : t = 2^p
  OBVIOUS
<1>3. Power(o, s) /\ Power(p, t)
  BY <1>1, <1>2, Powers, Zenon
<1>4. t = 2 * s
  BY <1>3 DEF Power
<1> QED
  BY <1>1, <1>2, <1>4, Zenon

(* Blocks, as block_to_index and try_merge_buddy see them: a page is in    *)
(* one block of each order, and the blocks of the next order are a block   *)
(* and its buddy.                                                          *)
Aligned(b, o) == b \in Nat /\ o \in 0..9 /\ b % 2^o = 0
Covers(b, o, q) == b <= q /\ q < b + 2^o

LEMMA SizeFacts ==
    /\ \A q \in Nat, s \in Sizes : LET b == q - (q % s)
                                   IN  b \in Nat /\ b % s = 0 /\ b <= q /\ q < b + s
    /\ \A b, q \in Nat, s \in Sizes : b % s = 0 =>
         (b <= q /\ q < b + s <=> q - (q % s) = b)
    /\ \A q \in Nat, s, t \in Sizes : t <= s =>
         LET b == q - (q % t) IN b - (b % s) = q - (q % s)
<1>1. \A q \in Nat, s \in Sizes : LET b == q - (q % s)
                                  IN  b \in Nat /\ b % s = 0 /\ b <= q /\ q < b + s
  BY DEF Sizes
<1>2. \A b, q \in Nat, s \in Sizes : b % s = 0 => (b <= q /\ q < b + s <=> q - (q % s) = b)
  BY DEF Sizes
<1>3. \A q \in Nat, s, t \in Sizes : t <= s =>
         LET b == q - (q % t) IN b - (b % s) = q - (q % s)
  BY DEF Sizes
<1> QED
  BY <1>1, <1>2, <1>3

LEMMA InBlock ==
    ASSUME NEW q \in Nat, NEW o \in 0..9
    PROVE  Aligned(BlockOf(q, o), o) /\ Covers(BlockOf(q, o), o, q)
<1>1. 2^o \in Sizes
  BY Sized, Zenon
<1> QED
  BY <1>1, SizeFacts, Zenon DEF Aligned, Covers, BlockOf

LEMMA Owner ==
    ASSUME NEW b, NEW o, Aligned(b, o), NEW q \in Nat
    PROVE  Covers(b, o, q) <=> BlockOf(q, o) = b
<1>1. 2^o \in Sizes /\ b \in Nat /\ b % 2^o = 0
  BY Sized, Zenon DEF Aligned
<1>2. PICK s \in Sizes : s = 2^o
  BY <1>1, Zenon
<1>3. b \in Nat /\ b % s = 0
  BY <1>1, <1>2, Zenon
<1>4. b <= q /\ q < b + s <=> q - (q % s) = b
  <2>1. \A x, y \in Nat, z \in Sizes : x % z = 0 => (x <= y /\ y < x + z <=> y - (y % z) = x)
    BY SizeFacts, Zenon
  <2> QED
    BY <1>3, <2>1, Zenon
<1> QED
  BY <1>2, <1>4, Zenon DEF Covers, BlockOf

LEMMA Coarser ==
    ASSUME NEW q \in Nat, NEW p \in 0..9, NEW o \in 0..9, p <= o
    PROVE  BlockOf(BlockOf(q, p), o) = BlockOf(q, o)
<1>1. 2^o \in Sizes /\ 2^p \in Sizes /\ 2^p <= 2^o
  BY Sized, Smaller, Zenon
<1> QED
  BY <1>1, SizeFacts, Zenon DEF BlockOf

Half(b, s) == IF (b \div s) % 2 = 0 THEN b + s ELSE b - s

LEMMA HalfFacts ==
    \A b \in Nat, s \in Sizes : b % s = 0 =>
      LET d == Half(b, s)
          u == b - (b % (2 * s))
      IN  /\ d \in Nat /\ d % s = 0 /\ d # b
          /\ Half(d, s) = b
          /\ d - (d % (2 * s)) = u
          /\ u <= b /\ u \in {b, d}
          /\ \A q \in Nat : q - (q % (2 * s)) = u <=> q - (q % s) \in {b, d}
<1> SUFFICES ASSUME NEW b \in Nat, NEW s \in Sizes, b % s = 0
             PROVE  LET d == Half(b, s)
                        u == b - (b % (2 * s))
                    IN  /\ d \in Nat /\ d % s = 0 /\ d # b
                        /\ Half(d, s) = b
                        /\ d - (d % (2 * s)) = u
                        /\ u <= b /\ u \in {b, d}
                        /\ \A q \in Nat : q - (q % (2 * s)) = u <=> q - (q % s) \in {b, d}
  OBVIOUS
<1>1. CASE (b \div s) % 2 = 0
  <2>1. /\ b + s \in Nat /\ (b + s) % s = 0 /\ ((b + s) \div s) % 2 # 0 /\ (b + s) - s = b
        /\ b % (2 * s) = 0 /\ (b + s) % (2 * s) = s
    BY <1>1 DEF Sizes
  <2>2. ASSUME NEW q \in Nat
        PROVE  q - (q % (2 * s)) = b <=> q - (q % s) \in {b, b + s}
    BY <2>1 DEF Sizes
  <2>3. Half(b, s) = b + s /\ Half(b + s, s) = b
    BY <1>1, <2>1 DEF Half
  <2>4. b + s # b /\ b - (b % (2 * s)) = b /\ (b + s) - ((b + s) % (2 * s)) = b /\ b <= b
    BY <2>1 DEF Sizes
  <2> QED
    BY <2>1, <2>2, <2>3, <2>4, Zenon
<1>2. CASE (b \div s) % 2 # 0
  <2>1. /\ b - s \in Nat /\ (b - s) % s = 0 /\ ((b - s) \div s) % 2 = 0 /\ (b - s) + s = b
        /\ b % (2 * s) = s /\ (b - s) % (2 * s) = 0
    BY <1>2 DEF Sizes
  <2>2. ASSUME NEW q \in Nat
        PROVE  q - (q % (2 * s)) = b - s <=> q - (q % s) \in {b, b - s}
    BY <2>1 DEF Sizes
  <2>3. Half(b, s) = b - s /\ Half(b - s, s) = b
    BY <1>2, <2>1 DEF Half
  <2>4. /\ b - s # b /\ b - (b % (2 * s)) = b - s
        /\ (b - s) - ((b - s) % (2 * s)) = b - s /\ b - s <= b
    BY <2>1 DEF Sizes
  <2> QED
    BY <2>1, <2>2, <2>3, <2>4, Zenon
<1> QED
  BY <1>1, <1>2

LEMMA Buddies ==
    ASSUME NEW b, NEW o, Aligned(b, o), o < 9
    PROVE  LET d == BuddyOf(b, o)  u == BlockOf(b, o + 1) IN
           /\ Aligned(d, o) /\ d # b /\ BuddyOf(d, o) = b
           /\ Aligned(u, o + 1) /\ BlockOf(d, o + 1) = u
           /\ u <= b /\ u \in {b, d} /\ BlockOf(b, o) = b
           /\ \A q \in Nat : BlockOf(q, o + 1) = u <=> BlockOf(q, o) \in {b, d}
           /\ u = b => d = b + 2^o
<1>1. b \in Nat /\ o \in 0..9 /\ o + 1 \in 0..9 /\ b % 2^o = 0
  BY DEF Aligned
<1>2. 2^o \in Sizes /\ 2^(o + 1) = 2 * 2^o
  BY <1>1, Sized, NextSize, Zenon
<1>3. Aligned(BlockOf(b, o + 1), o + 1)
  BY <1>1, InBlock
<1>4. PICK s \in Sizes : s = 2^o
  BY <1>2
<1>5. LET d == BuddyOf(b, o)  u == BlockOf(b, o + 1) IN
      /\ d \in Nat /\ d % 2^o = 0 /\ d # b /\ BuddyOf(d, o) = b
      /\ BlockOf(d, o + 1) = u
      /\ u <= b /\ u \in {b, d}
      /\ \A q \in Nat : BlockOf(q, o + 1) = u <=> BlockOf(q, o) \in {b, d}
  <2>1. \A x : BuddyOf(x, o) = Half(x, 2^o)
    BY Zenon DEF BuddyOf, Half
  <2>2. \A x : BlockOf(x, o) = x - (x % 2^o) /\ BlockOf(x, o + 1) = x - (x % (2 * 2^o))
    BY <1>2, Zenon DEF BlockOf
  <2>3. LET d == Half(b, s)  u == b - (b % (2 * s)) IN
        /\ d \in Nat /\ d % s = 0 /\ d # b /\ Half(d, s) = b
        /\ d - (d % (2 * s)) = u /\ u <= b /\ u \in {b, d}
        /\ \A q \in Nat : q - (q % (2 * s)) = u <=> q - (q % s) \in {b, d}
    BY <1>1, <1>4, HalfFacts, Zenon
  <2>4. PICK d : d = Half(b, s)
    OBVIOUS
  <2>5. PICK u : u = b - (b % (2 * s))
    OBVIOUS
  <2>6. /\ BuddyOf(b, o) = d /\ BlockOf(b, o + 1) = u
        /\ BuddyOf(d, o) = Half(d, s) /\ BlockOf(d, o + 1) = d - (d % (2 * s))
    BY <1>4, <2>1, <2>2, <2>4, <2>5, Zenon
  <2>7. /\ d \in Nat /\ d % s = 0 /\ d # b /\ Half(d, s) = b
        /\ d - (d % (2 * s)) = u /\ u <= b /\ u \in {b, d}
    BY <2>3, <2>4, <2>5, Zenon
  <2>8. ASSUME NEW q \in Nat
        PROVE  BlockOf(q, o + 1) = u <=> BlockOf(q, o) \in {b, d}
    <3>1. q - (q % (2 * s)) = u <=> q - (q % s) \in {b, d}
      BY <2>3, <2>4, <2>5, Zenon
    <3> QED
      BY <1>4, <2>2, <3>1, Zenon
  <2> QED
    BY <1>4, <2>6, <2>7, <2>8, Zenon
<1>6. BlockOf(b, o) = b /\ (BlockOf(b, o + 1) = b => BuddyOf(b, o) = b + 2^o)
  <2>1. b % s = 0 /\ 2^(o + 1) = 2 * s
    BY <1>1, <1>2, <1>4, Zenon
  <2>2. b - (b % s) = b /\ (b - (b % (2 * s)) = b => (b \div s) % 2 = 0)
    BY <1>1, <2>1 DEF Sizes
  <2>3. BlockOf(b, o) = b - (b % s) /\ BlockOf(b, o + 1) = b - (b % (2 * s))
    BY <1>4, <2>1, Zenon DEF BlockOf
  <2>4. (b \div s) % 2 = 0 => BuddyOf(b, o) = b + s
    BY <1>4 DEF BuddyOf
  <2>5. BlockOf(b, o) = b
    BY <2>2, <2>3
  <2>6. ASSUME BlockOf(b, o + 1) = b PROVE BuddyOf(b, o) = b + 2^o
    <3>1. (b \div s) % 2 = 0
      BY <2>2, <2>3, <2>6, Zenon
    <3> QED
      BY <1>4, <2>4, <3>1, Zenon
  <2> QED
    BY <2>5, <2>6
<1> QED
  BY <1>1, <1>3, <1>5, <1>6, Zenon DEF Aligned
(* A block is its left page with the buddies of every order below: this is *)
(* what splitting makes and what merging puts together again.              *)
LEMMA BlockAndBuddies ==
    ASSUME NEW i \in Nat, NEW order \in 0..9, NEW o \in 0..9, order <= o, NEW q \in Nat
    PROVE  Covers(BlockOf(i, o), o, q) <=>
             \/ Covers(BlockOf(i, order), order, q)
             \/ \E p \in order..(o - 1) : Covers(BuddyOf(BlockOf(i, p), p), p, q)
<1> DEFINE Same(p) == BlockOf(q, p) = BlockOf(i, p)
<1>1. ASSUME NEW p \in 0..9
      PROVE  Covers(BlockOf(i, p), p, q) <=> Same(p)
  BY InBlock, Owner
<1>2. ASSUME NEW p \in 0..9, NEW r \in 0..9, p <= r, Same(p)
      PROVE  Same(r)
  <2>1. BlockOf(BlockOf(q, p), r) = BlockOf(q, r) /\ BlockOf(BlockOf(i, p), r) = BlockOf(i, r)
    BY <1>2, Coarser
  <2> QED
    BY <1>2, <2>1, Zenon
<1>3. ASSUME NEW p \in order..(o - 1)
      PROVE  /\ p \in 0..9 /\ p + 1 \in 0..9 /\ p <= p + 1 /\ p + 1 <= o
             /\ Covers(BuddyOf(BlockOf(i, p), p), p, q) <=> Same(p + 1) /\ ~Same(p)
  <2>1. p \in 0..9 /\ p + 1 \in 0..9 /\ p <= p + 1 /\ p + 1 <= o /\ p < 9
    OBVIOUS
  <2> DEFINE b == BlockOf(i, p)
             d == BuddyOf(b, p)
  <2>2. Aligned(b, p)
    BY <2>1, InBlock
  <2>3. /\ Aligned(d, p) /\ d # b
        /\ BlockOf(q, p + 1) = BlockOf(b, p + 1) <=> BlockOf(q, p) \in {b, d}
    BY <2>1, <2>2, Buddies, Zenon
  <2>4. BlockOf(b, p + 1) = BlockOf(i, p + 1)
    BY <2>1, Coarser, Zenon
  <2>5. Covers(d, p, q) <=> BlockOf(q, p) = d
    BY <2>3, Owner
  <2> QED
    BY <2>1, <2>3, <2>4, <2>5, Zenon
<1> HIDE DEF Same
<1>4. ASSUME Same(o), ~Same(order)
      PROVE  \E p \in order..(o - 1) : Same(p + 1) /\ ~Same(p)
  <2> DEFINE S == {p \in order..o : Same(p)}
  <2>1. S \subseteq Nat /\ o \in S
    BY <1>4
  <2>2. PICK p \in S : \A k \in S : p <= k
    BY <2>1, Least, Zenon
  <2>3. p - 1 \in order..(o - 1) /\ ~Same(p - 1) /\ Same((p - 1) + 1)
    <3>1. p # order /\ p \in order..o /\ Same(p)
      BY <1>4, <2>2
    <3>2. p - 1 \in order..(o - 1) /\ (p - 1) + 1 = p /\ ~(p <= p - 1) /\ p - 1 \in order..o
      BY <3>1
    <3>3. p - 1 \notin S
      BY <2>2, <3>2
    <3> QED
      BY <3>1, <3>2, <3>3
  <2> QED
    BY <2>3, Zenon
<1>5. Same(order) => Same(o)
  BY <1>2
<1>6. ASSUME NEW p \in order..(o - 1), Same(p + 1)
      PROVE  Same(o)
  BY <1>2, <1>3, <1>6
<1> QED
  BY <1>1, <1>3, <1>4, <1>5, <1>6, Zenon

(* No page is in two of these pieces.                                      *)
LEMMA BuddiesApart ==
    ASSUME NEW i \in Nat, NEW order \in 0..9, NEW o \in 0..9, order <= o, NEW q \in Nat,
           NEW p \in order..(o - 1), Covers(BuddyOf(BlockOf(i, p), p), p, q)
    PROVE  /\ ~Covers(BlockOf(i, order), order, q)
           /\ \A r \in order..(o - 1) : Covers(BuddyOf(BlockOf(i, r), r), r, q) => r = p
<1> DEFINE Same(r) == BlockOf(q, r) = BlockOf(i, r)
<1>1. ASSUME NEW r \in order..(o - 1), Covers(BuddyOf(BlockOf(i, r), r), r, q)
      PROVE  Same(r + 1) /\ ~Same(r)
  <2>1. r \in 0..9 /\ r + 1 \in 0..9 /\ r <= r + 1 /\ r + 1 <= o /\ r < 9
    OBVIOUS
  <2> DEFINE b == BlockOf(i, r)
             d == BuddyOf(b, r)
  <2>2. Aligned(b, r)
    BY <2>1, InBlock
  <2>3. /\ Aligned(d, r) /\ d # b
        /\ BlockOf(q, r + 1) = BlockOf(b, r + 1) <=> BlockOf(q, r) \in {b, d}
    BY <2>1, <2>2, Buddies, Zenon
  <2>4. BlockOf(b, r + 1) = BlockOf(i, r + 1)
    BY <2>1, Coarser, Zenon
  <2>5. BlockOf(q, r) = d
    BY <1>1, <2>3, Owner
  <2> QED
    BY <2>3, <2>4, <2>5, Zenon
<1>2. ASSUME NEW r \in 0..9, NEW t \in 0..9, r <= t, Same(r)
      PROVE  Same(t)
  <2>1. BlockOf(BlockOf(q, r), t) = BlockOf(q, t) /\ BlockOf(BlockOf(i, r), t) = BlockOf(i, t)
    BY <1>2, Coarser
  <2> QED
    BY <1>2, <2>1, Zenon
<1>3. Covers(BlockOf(i, order), order, q) <=> Same(order)
  BY InBlock, Owner
<1> HIDE DEF Same
<1>4. p \in 0..9 /\ order <= p /\ p + 1 \in 0..9
  OBVIOUS
<1>5. Same(p + 1) /\ ~Same(p)
  BY <1>1
<1>6. ASSUME NEW r \in order..(o - 1), Covers(BuddyOf(BlockOf(i, r), r), r, q), r # p
      PROVE  FALSE
  <2>1. Same(r + 1) /\ ~Same(r)
    BY <1>1, <1>6
  <2>2. r \in 0..9 /\ r + 1 \in 0..9 /\ (r + 1 <= p \/ p + 1 <= r)
    BY <1>6
  <2> QED
    BY <1>2, <1>4, <1>5, <2>1, <2>2
<1> QED
  BY <1>2, <1>3, <1>4, <1>5, <1>6, Zenon
-----------------------------------------------------------------------------
(* get_order: the smallest order whose block holds the request.            *)
LEMMA Orders ==
    ASSUME NEW n \in 1..512
    PROVE  /\ GetOrder(n) \in 0..9 /\ n <= 2^GetOrder(n)
           /\ 2^GetOrder(n) <= 2 * n - 1
           /\ \A k \in 0..9 : n <= 2^k => GetOrder(n) <= k
<1> DEFINE S == {o \in 0..9 : 2^o >= n}
<1>1. 9 \in S
  <2>1. 2^9 = 512
    OBVIOUS
  <2> QED
    BY <2>1
<1>2. PICK o \in S : \A k \in S : o <= k
  <2>1. S \subseteq 0..9 /\ S # {}
    BY <1>1, Zenon
  <2>2. \A k \in 0..9 : k \in Nat
    OBVIOUS
  <2> HIDE DEF S
  <2>3. S \subseteq Nat
    BY <2>1, <2>2, Zenon
  <2> QED
    BY <2>1, <2>3, Least, Zenon
<1>3. o \in 0..9 /\ 2^o >= n /\ \A k \in 0..9 : 2^k >= n => o <= k
  BY <1>2
<1>4. /\ GetOrder(n) \in 0..9 /\ 2^GetOrder(n) >= n
      /\ \A k \in 0..9 : 2^k >= n => GetOrder(n) <= k
  BY <1>3, Zenon DEF GetOrder
<1> DEFINE g == GetOrder(n)
<1> HIDE DEF g
<1>5. g \in 0..9 /\ 2^g >= n /\ \A k \in 0..9 : 2^k >= n => g <= k
  BY <1>4 DEF g
<1>6. 2^g <= 2 * n - 1
  <2>1. CASE g = 0
    <3>1. 2^0 = 1
      OBVIOUS
    <3> QED
      BY <2>1, <3>1
  <2>2. CASE g # 0
    <3>1. PICK k \in 0..9 : g = k + 1
      <4>1. g - 1 \in 0..9 /\ g = (g - 1) + 1
        BY <1>5, <2>2
      <4> QED
        BY <4>1
    <3>2. 2^g = 2 * 2^k /\ 2^k \in 1..512
      BY <1>5, <3>1, Sized, NextSize, Zenon
    <3>3. ~(g <= k)
      BY <3>1
    <3>4. ~(2^k >= n)
      BY <1>5, <3>3
    <3> QED
      BY <3>2, <3>4
  <2> QED
    BY <2>1, <2>2
<1>7. g = GetOrder(n)
  BY DEF g
<1>8. \A k \in 0..9 : 2^k \in 1..512
  BY Sized, ZenonT(60)
<1> QED
  BY <1>5, <1>6, <1>7, <1>8

(* init_pool: the rounded pool, and where its waste starts.                *)
LEMMA Pool ==
    ASSUME total \in Totals
    PROVE  /\ total \in 2..512 /\ MaxOrder \in 1..9 /\ Order \subseteq 0..9
           /\ 2^MaxOrder \in Sizes /\ Pages \in 1..511 /\ Waste \in 1..512
           /\ Pages - Waste \in Nat /\ Pages + Waste = 2^MaxOrder
           /\ \A i : IsWaste(i) <=> i \in (Pages - Waste)..Pages
<1>1. total \in 2..512 /\ total \in 1..512
  BY BuddyAssumption
<1>2. /\ MaxOrder \in 0..9 /\ total <= 2^MaxOrder
      /\ 2^MaxOrder <= 2 * total - 1
  BY <1>1, Orders DEF MaxOrder
<1>3. ASSUME MaxOrder = 0 PROVE FALSE
  <2>1. 2^0 = 1
    OBVIOUS
  <2>2. total <= 1
    BY <1>2, <1>3, <2>1, Zenon
  <2> QED
    BY <1>1, <2>2
<1>4. PICK k \in 0..9 : MaxOrder = k + 1
  <2>1. MaxOrder - 1 \in 0..9 /\ MaxOrder = (MaxOrder - 1) + 1
    BY <1>2, <1>3
  <2> QED
    BY <2>1
<1>5. 2^MaxOrder = 2 * 2^k /\ 2^k \in 1..512 /\ 2^MaxOrder \in Sizes
  BY <1>2, <1>4, Sized, NextSize, Zenon
<1>6. PICK s : s = 2^MaxOrder
  OBVIOUS
<1>7. /\ Pages \in 1..511 /\ Waste \in 1..512
      /\ Pages - Waste \in Nat /\ Pages + Waste = 2^MaxOrder
  BY <1>1, <1>2, <1>5 DEF Pages, Waste
<1>8. \A i : IsWaste(i) <=> i \in (Pages - Waste)..Pages
  BY <1>1 DEF IsWaste, Pages
<1> QED
  BY <1>1, <1>2, <1>3, <1>5, <1>7, <1>8 DEF Order
-----------------------------------------------------------------------------
(* Lists without duplicates: pushing a block, and taking one out.          *)
In(s, x)  == \E i \in DOMAIN s : s[i] = x
Unique(s) == \A i, j \in DOMAIN s : s[i] = s[j] => i = j

LEMMA Pushed ==
    ASSUME NEW S, NEW s \in Seq(S), NEW e \in S, Unique(s)
    PROVE  /\ Append(s, e) \in Seq(S) /\ Append(s, e) # <<>>
           /\ \A x : In(Append(s, e), x) <=> In(s, x) \/ x = e
           /\ ~In(s, e) => Unique(Append(s, e))
<1>1. /\ Append(s, e) \in Seq(S) /\ Len(s) \in Nat
      /\ Append(s, e) # <<>>
      /\ DOMAIN Append(s, e) = 1..(Len(s) + 1) /\ DOMAIN s = 1..Len(s)
      /\ Append(s, e)[Len(s) + 1] = e
      /\ \A k \in 1..Len(s) : Append(s, e)[k] = s[k]
  BY AppendProperties, LenProperties
<1> DEFINE a == Append(s, e)
<1> HIDE DEF a
<1>2. \A x : In(a, x) <=> In(s, x) \/ x = e
  BY <1>1 DEF In, a
<1>3. ~In(s, e) => Unique(a)
  BY <1>1 DEF In, Unique, a
<1> QED
  BY <1>1, <1>2, <1>3 DEF a

LEMMA TakenOut ==
    ASSUME NEW S, NEW s \in Seq(S), NEW i \in DOMAIN s, Unique(s)
    PROVE  /\ RemoveAt(s, i) \in Seq(S) /\ Unique(RemoveAt(s, i))
           /\ \A x : In(RemoveAt(s, i), x) <=> In(s, x) /\ x # s[i]
<1> DEFINE n == Len(s)
           r == RemoveAt(s, i)
<1>1. n \in Nat /\ DOMAIN s = 1..n /\ i \in 1..n
  BY LenProperties
<1>2. /\ r \in Seq(S) /\ Len(r) = n - 1
      /\ \A j \in 1..(n - 1) : r[j] = IF j < i THEN s[j] ELSE s[j + 1]
  <2>1. \A j \in 1..n : s[j] \in S
    BY <1>1, ElementOfSeq
  <2> DEFINE x == SubSeq(s, 1, i - 1)
             y == SubSeq(s, i + 1, n)
  <2>2. /\ x \in Seq(S) /\ Len(x) = i - 1
        /\ \A j \in 1..(i - 1) : x[j] = s[j]
    BY <1>1, <2>1, SubSeqProperties
  <2>3. /\ y \in Seq(S) /\ Len(y) = n - i
        /\ \A j \in 1..(n - i) : y[j] = s[i + j]
    BY <1>1, <2>1, SubSeqProperties
  <2>4. r = x \o y
    BY DEF RemoveAt
  <2> HIDE DEF x, y, r
  <2>5. /\ x \o y \in Seq(S) /\ Len(x \o y) = Len(x) + Len(y)
        /\ \A j \in 1..(Len(x) + Len(y)) : (x \o y)[j] = IF j <= Len(x) THEN x[j] ELSE y[j - Len(x)]
    BY <2>2, <2>3, ConcatProperties
  <2>6. ASSUME NEW j \in 1..(n - 1)
        PROVE  r[j] = IF j < i THEN s[j] ELSE s[j + 1]
    <3>1. r[j] = IF j <= i - 1 THEN x[j] ELSE y[j - (i - 1)]
      <4>1. Len(x) = i - 1 /\ Len(y) = n - i /\ j \in 1..(Len(x) + Len(y))
        BY <1>1, <2>2, <2>3
      <4> QED
        BY <2>4, <2>5, <4>1, Zenon
    <3>2. CASE j < i
      BY <1>1, <2>2, <3>1, <3>2
    <3>3. CASE ~(j < i)
      <4>1. j - (i - 1) \in 1..(n - i) /\ i + (j - (i - 1)) = j + 1
        BY <1>1, <3>3
      <4>2. r[j] = y[j - (i - 1)]
        BY <1>1, <3>1, <3>3
      <4> QED
        BY <2>3, <3>3, <4>1, <4>2
    <3> QED
      BY <3>2, <3>3
  <2> QED
    BY <1>1, <2>2, <2>3, <2>4, <2>5, <2>6
<1> HIDE DEF r
<1>3. DOMAIN r = 1..(n - 1)
  BY <1>2, LenProperties
<1> DEFINE At(j) == IF j < i THEN j ELSE j + 1
<1>4. \A j \in 1..(n - 1) : At(j) \in 1..n /\ At(j) # i /\ r[j] = s[At(j)]
  BY <1>1, <1>2
<1>5. \A j, k \in 1..(n - 1) : At(j) = At(k) => j = k
  BY <1>1
<1>6. \A k \in 1..n : k # i => \E j \in 1..(n - 1) : At(j) = k
  <2>1. SUFFICES ASSUME NEW k \in 1..n, k # i
                 PROVE  \E j \in 1..(n - 1) : At(j) = k
    OBVIOUS
  <2>2. CASE k < i
    <3>1. k \in 1..(n - 1) /\ At(k) = k
      BY <1>1, <2>2
    <3> QED
      BY <3>1
  <2>3. CASE ~(k < i)
    <3>1. k - 1 \in 1..(n - 1) /\ At(k - 1) = k
      BY <1>1, <2>1, <2>3
    <3> QED
      BY <3>1
  <2> QED
    BY <2>2, <2>3
<1> HIDE DEF At
<1>7. Unique(r)
  <2>1. \A j, k \in 1..n : s[j] = s[k] => j = k
    BY <1>1, Zenon DEF Unique
  <2>2. ASSUME NEW j \in 1..(n - 1), NEW k \in 1..(n - 1), r[j] = r[k]
        PROVE  j = k
    <3>1. s[At(j)] = s[At(k)] /\ At(j) \in 1..n /\ At(k) \in 1..n
      BY <1>4, <2>2, Zenon
    <3>2. At(j) = At(k)
      BY <2>1, <3>1, Zenon
    <3> QED
      BY <1>5, <3>2, Zenon
  <2> QED
    BY <1>3, <2>2, Zenon DEF Unique
<1>8. ASSUME NEW x
      PROVE  In(r, x) <=> In(s, x) /\ x # s[i]
  <2>1. ASSUME In(r, x) PROVE In(s, x) /\ x # s[i]
    <3>1. PICK j \in 1..(n - 1) : r[j] = x
      BY <1>3, <2>1, Zenon DEF In
    <3>2. At(j) \in 1..n /\ At(j) # i /\ s[At(j)] = x
      BY <1>4, <3>1, Zenon
    <3> HIDE DEF At
    <3> QED
      BY <1>1, <3>2, Zenon DEF In, Unique
  <2>2. ASSUME In(s, x), x # s[i] PROVE In(r, x)
    <3>1. PICK k \in 1..n : s[k] = x
      BY <1>1, <2>2, Zenon DEF In
    <3>2. k # i
      BY <2>2, <3>1, Zenon
    <3>3. PICK j \in 1..(n - 1) : At(j) = k
      BY <1>6, <3>1, <3>2, Zenon
    <3>4. r[j] = x
      BY <1>4, <3>1, <3>3, Zenon
    <3> QED
      BY <1>3, <3>4, Zenon DEF In
  <2> QED
    BY <2>1, <2>2
<1> QED
  BY <1>2, <1>7, <1>8 DEF r

LEMMA TakenOutFirst ==
    ASSUME NEW S, NEW s \in Seq(S), NEW e, Unique(s)
    PROVE  /\ RemoveFirst(s, e) \in Seq(S) /\ Unique(RemoveFirst(s, e))
           /\ \A x : In(RemoveFirst(s, e), x) <=> In(s, x) /\ x # e
<1>1. Len(s) \in Nat /\ DOMAIN s = 1..Len(s)
  BY LenProperties
<1>2. CASE ~(\E i \in 1..Len(s) : s[i] = e)
  BY <1>1, <1>2, Zenon DEF RemoveFirst, In
<1>3. CASE \E i \in 1..Len(s) : s[i] = e
  <2> DEFINE I == {i \in 1..Len(s) : s[i] = e}
  <2>1. RemoveFirst(s, e) = RemoveAt(s, Min(I))
    BY <1>3, Zenon DEF RemoveFirst, SelectInSeq
  <2>2. PICK k \in I : \A j \in I : k <= j
    <3>1. I # {} /\ I \subseteq Nat
      BY <1>3
    <3> QED
      BY <3>1, Least, Zenon
  <2>3. Min(I) \in I
    BY <2>2, Zenon DEF Min
  <2>4. Min(I) \in DOMAIN s /\ s[Min(I)] = e
    BY <1>1, <2>3
  <2>5. PICK m : m = Min(I)
    OBVIOUS
  <2>6. m \in DOMAIN s /\ s[m] = e /\ RemoveFirst(s, e) = RemoveAt(s, m)
    BY <2>1, <2>4, <2>5, Zenon
  <2>7. /\ RemoveAt(s, m) \in Seq(S) /\ Unique(RemoveAt(s, m))
        /\ \A x : In(RemoveAt(s, m), x) <=> In(s, x) /\ x # s[m]
    BY <2>6, TakenOut
  <2> QED
    BY <2>6, <2>7, Zenon
<1> QED
  BY <1>2, <1>3
-----------------------------------------------------------------------------
(* The inductive invariant.  A token is a block with the one who has it: a *)
(* free list, the waste list, or a client that holds it, gets it or gives  *)
(* it back.                                                                *)
Token(who, of, b, o, n) == [who |-> who, of |-> of, block |-> b, order |-> o, count |-> n]
FreeTokens  == UNION {{Token("free", 0, free_lists[o][i], o, 0) : i \in DOMAIN free_lists[o]} :
                        o \in Order}
WasteTokens == {Token("waste", 0, w.block, w.order, 0) : w \in waste_list}
HeldTokens  == UNION {{Token("held", c, h.block, h.order, h.count) : h \in held[c]} : c \in Client}
WorkToken(c) == Token("work", c, work[c].block, work[c].order, work[c].count)
WorkTokens  == {WorkToken(c) : c \in Busy}
Tokens      == FreeTokens \cup WasteTokens \cup HeldTokens \cup WorkTokens
On(t, q)    == Covers(t.block, t.order, q)

Ws == Pages - Waste
PC == {"idle", "allocated", "subtract", "add", "merge"}

TypeInv ==
    /\ total \in Totals
    /\ free_lists \in [Order -> Seq(Index)]
    /\ waste_list \in SUBSET [block : Index, order : Order]
    /\ max_order_free \in Order
    /\ free_pages \in 0..(2^16 - 1)
    /\ held \in [Client -> SUBSET [block : Index, order : Order, count : 1..MaxRequest]]
    /\ work \in [Client -> [pc : PC, block : Index, order : Order, count : 0..MaxRequest,
                            loaded : 0..(2^16 - 1)]]
    /\ \A c \in Client : work[c].pc # "idle" => work[c].count # 0
    /\ refused \in 0..MaxRequest
    /\ races \in 0..MaxRaces

UniqueInv == \A o \in Order : Unique(free_lists[o])

(* Blocks are aligned, inside the pool, and on the side of the waste that  *)
(* their list says; only the whole pool may start in waste and be free.    *)
LegalInv == \A t \in Tokens :
    /\ Aligned(t.block, t.order) /\ t.order \in Order /\ t.block \in Index
    /\ t.who = "waste" => IsWaste(t.block)
    /\ t.who # "waste" => t.block < Ws \/ (t.who = "free" /\ t.order = MaxOrder)

(* What a client has is of the order of its request, whose last page was   *)
(* not waste.                                                              *)
RequestInv == \A t \in Tokens : t.who \in {"held", "work"} =>
    /\ t.count \in 1..MaxRequest /\ t.order = GetOrder(t.count)
    /\ ~IsWaste(t.block + t.count - 1)

(* Every page is in exactly one block.                                     *)
Partition(T, I) == \A q \in I : \E t \in T : On(t, q) /\ \A u \in T : On(u, q) => u = t
PartInv == Partition(Tokens, Index)

MergedInv == \A b \in Index : \A o \in Order :
    Listed(b, o) /\ o < MaxOrder => ~Listed(BuddyOf(b, o), o)

TopInv == /\ \A o \in Order : free_lists[o] # <<>> => o <= max_order_free
          /\ max_order_free # 0 => free_lists[max_order_free] # <<>>

BuddyInv == TypeInv /\ UniqueInv /\ LegalInv /\ RequestInv /\ PartInv /\ MergedInv /\ TopInv

(* The count of free pages, for pools whose requests are small beside      *)
(* their waste, as the firmware's are.                                     *)
SmallRequests == MaxRequest <= Waste + 1
Counted(t) == t.who = "held" \/ (t.who = "work" /\ work[t.of].pc = "add")
OutPages   == {q \in Index : \E t \in Tokens : Counted(t) /\ On(t, q)}
CountInv == SmallRequests /\ races = 0 =>
    /\ \A c, d \in Updating : c = d
    /\ \A c \in Updating : work[c].loaded = free_pages
    /\ free_pages = Pages - Cardinality(OutPages)
RefusedInv == SmallRequests => RefusedOnlyWhenFull
-----------------------------------------------------------------------------
LEMMA Fields ==
    /\ \A w, f, b, o, n :
         /\ Token(w, f, b, o, n).who = w /\ Token(w, f, b, o, n).of = f
         /\ Token(w, f, b, o, n).block = b /\ Token(w, f, b, o, n).order = o
         /\ Token(w, f, b, o, n).count = n
    /\ \A w, f, b, o, n, q : On(Token(w, f, b, o, n), q) <=> Covers(b, o, q)
  BY DEF Token, On

IsFree(t)  == \E o \in Order : \E b \in Index : In(free_lists[o], b) /\ t = Token("free", 0, b, o, 0)
IsWasted(t) == \E o \in Order : \E b \in Index : /\ [block |-> b, order |-> o] \in waste_list
                                                 /\ t = Token("waste", 0, b, o, 0)
IsHeld(t)  == \E c \in Client : \E h \in held[c] : t = Token("held", c, h.block, h.order, h.count)
IsWork(t)  == \E c \in Client : work[c].pc # "idle" /\ t = WorkToken(c)

Membership == \A t : t \in Tokens <=> IsFree(t) \/ IsWasted(t) \/ IsHeld(t) \/ IsWork(t)

LEMMA Members == TypeInv => Membership
<1> SUFFICES ASSUME TypeInv, NEW t
             PROVE  t \in Tokens <=> IsFree(t) \/ IsWasted(t) \/ IsHeld(t) \/ IsWork(t)
  BY Zenon DEF Membership
<1>1. t \in FreeTokens <=> IsFree(t)
  <2>1. \A o \in Order : \A i \in DOMAIN free_lists[o] : free_lists[o][i] \in Index
    <3>1. \A o \in Order : free_lists[o] \in Seq(Index)
      BY Zenon DEF TypeInv
    <3> QED
      BY <3>1, LenProperties, ElementOfSeq
  <2>2. t \in FreeTokens <=>
          \E o \in Order : \E i \in DOMAIN free_lists[o] : t = Token("free", 0, free_lists[o][i], o, 0)
    BY DEF FreeTokens
  <2> QED
    BY <2>1, <2>2, Zenon DEF IsFree, In
<1>2. t \in WasteTokens <=> IsWasted(t)
  <2>1. t \in WasteTokens <=> \E w \in waste_list : t = Token("waste", 0, w.block, w.order, 0)
    BY Zenon DEF WasteTokens
  <2>2. \A w \in waste_list : /\ w.block \in Index /\ w.order \in Order
                              /\ w = [block |-> w.block, order |-> w.order]
    <3>1. waste_list \in SUBSET [block : Index, order : Order]
      BY Zenon DEF TypeInv
    <3> QED
      BY <3>1
  <2>3. \A b, o : LET w == [block |-> b, order |-> o] IN w.block = b /\ w.order = o
    OBVIOUS
  <2> QED
    BY <2>1, <2>2, <2>3, Zenon DEF IsWasted
<1>3. t \in HeldTokens <=> IsHeld(t)
  BY DEF HeldTokens, IsHeld
<1>4. t \in WorkTokens <=> IsWork(t)
  BY Zenon DEF WorkTokens, IsWork, Busy
<1> QED
  BY <1>1, <1>2, <1>3, <1>4, Zenon DEF Tokens

LEMMA MembersLater == TypeInv' => Membership'
  BY Members, PTL

(* Giving up some blocks for others that cover the same pages once.        *)
LEMMA Exchange ==
    ASSUME NEW T, NEW I, Partition(T, I), NEW S \in SUBSET T, NEW N,
           \A q \in I : (\E s \in S : On(s, q)) =>
                \E n \in N : On(n, q) /\ \A m \in N : On(m, q) => m = n,
           \A q \in I, n \in N : On(n, q) => \E s \in S : On(s, q)
    PROVE  Partition((T \ S) \cup N, I)
<1> SUFFICES ASSUME NEW q \in I
             PROVE  \E t \in (T \ S) \cup N : On(t, q) /\ \A u \in (T \ S) \cup N : On(u, q) => u = t
  BY Zenon DEF Partition
<1>1. PICK t \in T : On(t, q) /\ \A u \in T : On(u, q) => u = t
  BY Zenon DEF Partition
<1>2. CASE t \in S
  <2>1. PICK n \in N : On(n, q) /\ \A m \in N : On(m, q) => m = n
    BY <1>1, <1>2, Zenon
  <2>2. ASSUME NEW u \in (T \ S) \cup N, On(u, q) PROVE u = n
    <3>1. u \in T \ S => u = t
      BY <1>1, <2>2
    <3> QED
      BY <1>2, <2>1, <2>2, <3>1
  <2> QED
    BY <2>1, <2>2
<1>3. CASE t \notin S
  BY <1>1, <1>3, Zenon
<1> QED
  BY <1>2, <1>3

LEMMA Same ==
    ASSUME total' = total
    PROVE  /\ MaxOrder' = MaxOrder /\ Order' = Order /\ Index' = Index
           /\ Pages' = Pages /\ Waste' = Waste /\ Ws' = Ws
           /\ \A i : IsWaste(i)' <=> IsWaste(i)
  BY Zenon DEF MaxOrder, Order, Index, Pages, Waste, Ws, IsWaste

(* A block in the pool ends in the pool, and so do its halves.             *)
LEMMA SizesNest ==
    /\ \A b \in Nat, s, t \in Sizes : b % s = 0 /\ b < t /\ s <= t => b + s <= t
    /\ \A b \in Nat, s, t \in Sizes : b % s = 0 /\ 2 * t <= s =>
         /\ b % t = 0 /\ (b \div t) % 2 = 0
         /\ (b + t) % t = 0
<1>1. \A b \in Nat, s, t \in Sizes : b % s = 0 /\ b < t /\ s <= t => b + s <= t
  BY DEF Sizes
<1>2. \A b \in Nat, s, t \in Sizes : b % s = 0 /\ 2 * t <= s => b % t = 0
  BY DEF Sizes
<1>3. \A b \in Nat, s, t \in Sizes : b % s = 0 /\ 2 * t <= s => (b \div t) % 2 = 0
  BY DEF Sizes
<1>4. \A b \in Nat, t \in Sizes : b % t = 0 => (b + t) % t = 0
  BY DEF Sizes
<1> QED
  BY <1>1, <1>2, <1>3, <1>4, Zenon

LEMMA EndsInPool ==
    ASSUME total \in Totals, NEW o \in Order, NEW b \in Index, Aligned(b, o)
    PROVE  /\ b \in Nat /\ o \in 0..9 /\ 2^o \in 1..512 /\ b + 2^o <= 2^MaxOrder
           /\ \A q \in Nat : Covers(b, o, q) => q \in Index
           /\ o = MaxOrder => b = 0
<1>1. o \in 0..9 /\ MaxOrder \in 0..9 /\ o <= MaxOrder /\ 2^MaxOrder \in Sizes
  BY Pool DEF Order
<1>2. b \in Nat /\ b % 2^o = 0
  BY DEF Aligned
<1>3. 2^o \in Sizes /\ 2^o \in 1..512 /\ 2^o <= 2^MaxOrder /\ 2^MaxOrder \in 1..512
  BY <1>1, Sized, Smaller, Zenon
<1>4. b < 2^MaxOrder
  BY <1>3 DEF Index
<1>5. b + 2^o <= 2^MaxOrder
  <2>1. PICK s \in Sizes : s = 2^o
    BY <1>3
  <2>2. PICK t \in Sizes : t = 2^MaxOrder
    BY <1>1
  <2>3. b % s = 0 /\ b < t /\ s <= t
    BY <1>2, <1>3, <1>4, <2>1, <2>2, Zenon
  <2>4. b + s <= t
    BY <1>2, <2>3, SizesNest, Zenon
  <2> QED
    BY <2>1, <2>2, <2>4, Zenon
<1>6. ASSUME NEW q \in Nat, Covers(b, o, q) PROVE q \in Index
  <2>1. PICK s \in Nat : s = 2^o
    BY <1>3
  <2>2. PICK t \in Nat : t = 2^MaxOrder
    BY <1>3
  <2>3. q < b + s /\ b + s <= t
    BY <1>5, <1>6, <2>1, <2>2, Zenon DEF Covers
  <2>4. q \in 0..(t - 1)
    BY <1>2, <2>3
  <2> QED
    BY <2>2, <2>4, Zenon DEF Index
<1>7. ASSUME o = MaxOrder PROVE b = 0
  <2>1. b + 2^o <= 2^o
    BY <1>5, <1>7, Zenon
  <2> QED
    BY <1>2, <1>3, <2>1
<1> QED
  BY <1>1, <1>2, <1>3, <1>5, <1>6, <1>7
LEMMA Lefts ==
    ASSUME NEW b, NEW o, Aligned(b, o), NEW p \in 0..9, p <= o
    PROVE  /\ Aligned(b, p) /\ BlockOf(b, p) = b
           /\ p < o => BuddyOf(b, p) = b + 2^p
<1>1. b \in Nat /\ o \in 0..9 /\ b % 2^o = 0
  BY DEF Aligned
<1>2. PICK s \in Sizes : s = 2^o
  BY <1>1, Sized, Zenon
<1>3. PICK t \in Sizes : t = 2^p
  BY Sized, Zenon
<1>4. t \in Nat /\ t > 0 /\ (p < o => 2 * t <= s)
  <2>1. 2^p \in 1..512 /\ (p < o => 2 * 2^p <= 2^o)
    BY <1>1, Sized, HalfFits, Zenon
  <2> QED
    BY <1>2, <1>3, <2>1
<1>5. b % t = 0
  <2>1. CASE p = o
    BY <1>1, <1>3, <2>1, Zenon
  <2>2. CASE p < o
    BY <1>1, <1>2, <1>4, <2>2, SizesNest, Zenon
  <2> QED
    BY <1>1, <2>1, <2>2
<1>6. Aligned(b, p)
  BY <1>1, <1>3, <1>5, Zenon DEF Aligned
<1>7. Covers(b, p, b)
  <2>1. b <= b /\ b < b + t
    BY <1>1, <1>4
  <2> QED
    BY <1>3, <2>1, Zenon DEF Covers
<1>8. ASSUME p < o PROVE BuddyOf(b, p) = b + 2^p
  <2>1. (b \div t) % 2 = 0
    BY <1>1, <1>2, <1>4, <1>8, SizesNest, Zenon
  <2> QED
    BY <1>3, <2>1, Zenon DEF BuddyOf
<1> QED
  BY <1>1, <1>6, <1>7, <1>8, Owner, Zenon

LEMMA RightHalf ==
    ASSUME total \in Totals, NEW o \in Order, NEW b \in Index, Aligned(b, o),
           NEW p \in 0..(o - 1)
    PROVE  /\ p \in Order /\ Aligned(b + 2^p, p) /\ b + 2^p \in Index
           /\ BuddyOf(b, p) = b + 2^p /\ BuddyOf(b + 2^p, p) = b /\ b + 2^p # b
           /\ b < Ws => b + 2^p < Ws \/ IsWaste(b + 2^p)
           /\ \A q \in Nat : Covers(b + 2^p, p, q) => Covers(b, o, q)
           /\ Covers(b + 2^p, p, b + 2^p)
<1>1. /\ b \in Nat /\ o \in 0..9 /\ b + 2^o <= 2^MaxOrder
      /\ \A q \in Nat : Covers(b, o, q) => q \in Index
  BY EndsInPool
<1>2. p \in 0..9 /\ p < o /\ p <= o /\ p < 9 /\ p \in Order
  BY <1>1, Pool DEF Order
<1>3. Aligned(b, p) /\ BlockOf(b, p) = b /\ BuddyOf(b, p) = b + 2^p
  BY <1>2, Lefts
<1>4. PICK d : d = b + 2^p
  OBVIOUS
<1>5. Aligned(d, p) /\ d # b /\ BuddyOf(d, p) = b
  <2>1. /\ Aligned(BuddyOf(b, p), p) /\ BuddyOf(b, p) # b
        /\ BuddyOf(BuddyOf(b, p), p) = b
    BY <1>2, <1>3, Buddies
  <2>2. BuddyOf(b, p) = d
    BY <1>3, <1>4, Zenon
  <2> QED
    BY <2>1, <2>2, Zenon
<1>6. /\ 2^p \in 1..512 /\ 2^o \in 1..512 /\ 2 * 2^p <= 2^o
  BY <1>1, <1>2, Sized, HalfFits, Zenon
<1>7. PICK x \in 1..512 : x = 2^p
  BY <1>6
<1>8. PICK y \in 1..512 : y = 2^o
  BY <1>6
<1>9. 2 * x <= y
  BY <1>6, <1>7, <1>8, Zenon
<1>10. d = b + x
  BY <1>4, <1>7, Zenon
<1>11. ASSUME NEW q \in Nat, Covers(d, p, q) PROVE Covers(b, o, q)
  <2>1. d <= q /\ q < d + x
    BY <1>7, <1>11, Zenon DEF Covers
  <2>2. b <= q /\ q < b + y
    BY <1>1, <1>9, <1>10, <2>1
  <2> QED
    BY <1>8, <2>2, Zenon DEF Covers
<1>12. Covers(d, p, d) /\ d \in Nat
  <2>1. d <= d /\ d < d + x /\ d \in Nat
    BY <1>1, <1>10
  <2> QED
    BY <1>7, <2>1, Zenon DEF Covers
<1>13. d \in Index
  BY <1>1, <1>11, <1>12, Zenon
<1>14. ASSUME b < Ws PROVE d < Ws \/ IsWaste(d)
  <2>1. /\ Pages \in 1..511 /\ Waste \in 1..512 /\ Pages + Waste = 2^MaxOrder
        /\ IsWaste(d) <=> d \in (Pages - Waste)..Pages
    BY Pool
  <2>2. b + y <= Pages + Waste
    BY <1>1, <1>8, <2>1, Zenon
  <2>3. b < Pages - Waste
    BY <1>14 DEF Ws
  <2>4. d < Pages - Waste \/ d \in (Pages - Waste)..Pages
    BY <1>1, <1>9, <1>10, <2>1, <2>2, <2>3
  <2> QED
    BY <2>1, <2>4 DEF Ws
<1> QED
  BY <1>2, <1>3, <1>4, <1>5, <1>11, <1>12, <1>13, <1>14, Zenon
-----------------------------------------------------------------------------
(* Who covers a page covers it alone.                                      *)
LEMMA Alone ==
    ASSUME PartInv, NEW t \in Tokens, NEW u \in Tokens, NEW q \in Index, On(t, q), On(u, q)
    PROVE  t = u
  BY Zenon DEF PartInv, Partition

(* Blocks on a list, and their tokens.                                     *)
LEMMA FreeHasToken ==
    ASSUME TypeInv, LegalInv, NEW o \in Order, NEW b, In(free_lists[o], b)
    PROVE  /\ b \in Index /\ Token("free", 0, b, o, 0) \in Tokens /\ Aligned(b, o)
           /\ b < Ws \/ o = MaxOrder
<1>1. free_lists[o] \in Seq(Index)
  BY Zenon DEF TypeInv
<1>2. b \in Index
  BY <1>1, LenProperties, ElementOfSeq DEF In
<1>3. Token("free", 0, b, o, 0) \in Tokens
  BY <1>2, Members, Zenon DEF Membership, IsFree
<1>4. PICK t : t = Token("free", 0, b, o, 0)
  OBVIOUS
<1>5. t.who = "free" /\ t.block = b /\ t.order = o /\ t \in Tokens
  BY <1>3, <1>4 DEF Token
<1>6. Aligned(b, o) /\ (b < Ws \/ o = MaxOrder)
  BY <1>5 DEF LegalInv
<1> QED
  BY <1>2, <1>3, <1>6

LEMMA WasteHasToken ==
    ASSUME TypeInv, LegalInv, NEW o, NEW b, [block |-> b, order |-> o] \in waste_list
    PROVE  /\ b \in Index /\ o \in Order /\ Token("waste", 0, b, o, 0) \in Tokens /\ Aligned(b, o)
           /\ IsWaste(b)
<1>1. b \in Index /\ o \in Order
  <2>1. [block |-> b, order |-> o] \in [block : Index, order : Order]
    BY Zenon DEF TypeInv
  <2> QED
    BY <2>1
<1>2. Token("waste", 0, b, o, 0) \in Tokens
  BY <1>1, Members, Zenon DEF Membership, IsWasted
<1>4. PICK t : t = Token("waste", 0, b, o, 0)
  OBVIOUS
<1>5. t.who = "waste" /\ t.block = b /\ t.order = o /\ t \in Tokens
  BY <1>2, <1>4 DEF Token
<1>6. Aligned(b, o) /\ IsWaste(b)
  BY <1>5, Zenon DEF LegalInv
<1> QED
  BY <1>1, <1>2, <1>6

LEMMA ListedHasToken ==
    ASSUME TypeInv, LegalInv, NEW o \in Order, NEW b, Listed(b, o)
    PROVE  /\ b \in Index /\ Aligned(b, o)
           /\ \E t \in Tokens : t.who \in {"free", "waste"} /\ t.block = b /\ t.order = o
<1>1. Listed(b, o) <=> In(free_lists[o], b) \/ [block |-> b, order |-> o] \in waste_list
  BY Zenon DEF Listed, In
<1>2. CASE In(free_lists[o], b)
  <2>1. b \in Index /\ Token("free", 0, b, o, 0) \in Tokens /\ Aligned(b, o)
    BY <1>2, FreeHasToken
  <2>2. LET t == Token("free", 0, b, o, 0)
        IN  t.who \in {"free", "waste"} /\ t.block = b /\ t.order = o
    BY DEF Token
  <2> QED
    BY <2>1, <2>2, Zenon
<1>3. CASE [block |-> b, order |-> o] \in waste_list
  <2>1. b \in Index /\ Token("waste", 0, b, o, 0) \in Tokens /\ Aligned(b, o)
    BY <1>3, WasteHasToken
  <2>2. LET t == Token("waste", 0, b, o, 0)
        IN  t.who \in {"free", "waste"} /\ t.block = b /\ t.order = o
    BY DEF Token
  <2> QED
    BY <2>1, <2>2, Zenon
<1> QED
  BY <1>1, <1>2, <1>3
LEMMA Greatest ==
    ASSUME NEW S, NEW n \in Nat, S \subseteq 0..n, S # {}
    PROVE  \E m \in S : \A k \in S : m >= k
<1> DEFINE R == {n - k : k \in S}
<1>1. \A k \in S : k \in 0..n /\ n - k \in Nat
  OBVIOUS
<1>2. R \subseteq Nat /\ R # {}
  BY <1>1
<1>3. PICK r \in R : \A x \in R : r <= x
  BY <1>2, Least
<1>4. PICK m \in S : r = n - m
  BY <1>3
<1>5. ASSUME NEW k \in S PROVE m >= k
  <2>1. n - m <= n - k
    BY <1>3, <1>4
  <2> QED
    BY <1>1, <2>1
<1> QED
  BY <1>5
-----------------------------------------------------------------------------
(* What buddy_allocate does to the lists, block by block.                  *)
Granted(c, count, order, o, b) ==
    /\ work[c].pc = "idle" /\ order = GetOrder(count)
    /\ order \in Order /\ order <= o /\ order < MaxOrder /\ count <= 2^order
    /\ In(free_lists[o], b) /\ Aligned(b, o) /\ b < Ws
    /\ ~IsWaste(b + count - 1)
    /\ free_lists' \in [Order -> Seq(Index)]
    /\ \A p \in Order :
         /\ Unique(free_lists'[p])
         /\ \A x : In(free_lists'[p], x) <=>
              \/ In(free_lists[p], x) /\ ~(p = o /\ x = b)
              \/ p \in order..(o - 1) /\ x = b + 2^p /\ ~IsWaste(x)
    /\ waste_list' = waste_list \cup SplitWaste(b, o, order)
    /\ max_order_free' = Lowered(free_lists', max_order_free)
    /\ work' = [work EXCEPT ![c] = [pc |-> "allocated", block |-> b, order |-> order,
                                    count |-> count, loaded |-> 0]]

LEMMA AllocateGrants ==
    ASSUME BuddyInv, NEW c \in Client, Allocate(c)
    PROVE  \E count \in 1..MaxRequest, order \in Order, o \in Order, b \in Index :
             Granted(c, count, order, o, b)
<1> USE DEF BuddyInv
<1>1. /\ total \in Totals /\ MaxOrder \in 1..9 /\ Order = 0..MaxOrder
      /\ MaxRequest \in 1..512 /\ max_order_free \in Order
      /\ free_lists \in [Order -> Seq(Index)]
  BY Pool, BuddyAssumption, Zenon DEF TypeInv, Order
<1>2. PICK count \in 1..MaxRequest :
        LET order == GetOrder(count)
            o     == Min(FittingOrders(order, count))
            i     == FoundAt(o, count)
            block == free_lists[o][i]
            split == SplitLists([free_lists EXCEPT ![o] = RemoveAt(@, i)], block, o, order)
        IN  /\ PoolAccepts(order, count) /\ FittingOrders(order, count) # {}
            /\ free_lists' = split
            /\ waste_list' = waste_list \cup SplitWaste(block, o, order)
            /\ max_order_free' = Lowered(split, max_order_free)
            /\ work' = [work EXCEPT ![c] = [pc |-> "allocated", block |-> block,
                           order |-> order, count |-> count, loaded |-> 0]]
  BY Zenon DEF Allocate
<1> DEFINE order == GetOrder(count)
           o     == Min(FittingOrders(order, count))
           i     == FoundAt(o, count)
           b     == free_lists[o][i]
           left  == [free_lists EXCEPT ![o] = RemoveAt(@, i)]
<1>3. /\ PoolAccepts(order, count) /\ FittingOrders(order, count) # {}
      /\ free_lists' = SplitLists(left, b, o, order)
      /\ waste_list' = waste_list \cup SplitWaste(b, o, order)
      /\ max_order_free' = Lowered(free_lists', max_order_free)
      /\ work' = [work EXCEPT ![c] = [pc |-> "allocated", block |-> b,
                     order |-> order, count |-> count, loaded |-> 0]]
  BY <1>2, Zenon
<1>4. /\ count \in 1..512 /\ order \in 0..9 /\ count <= 2^order
      /\ order \in Order /\ order < MaxOrder
  <2>1. count \in 1..512
    BY <1>1
  <2>2. order \in 0..9 /\ count <= 2^order
    BY <2>1, Orders
  <2>3. max_order_free >= order /\ order # MaxOrder
    BY <1>3, Zenon DEF PoolAccepts
  <2> HIDE DEF order
  <2> QED
    BY <1>1, <2>1, <2>2, <2>3
<1> HIDE DEF order
<1>5. /\ o \in order..MaxOrder
      /\ \E k \in DOMAIN free_lists[o] : Fits(o, k, count)
  <2> DEFINE S == FittingOrders(order, count)
  <2>1. \A k \in S : k \in order..MaxOrder /\ \E j \in DOMAIN free_lists[k] : Fits(k, j, count)
    BY Zenon DEF FittingOrders
  <2>2. S \subseteq Nat /\ S # {}
    BY <1>1, <1>3, <1>4, <2>1
  <2> HIDE DEF S
  <2>3. PICK m \in S : \A k \in S : m <= k
    BY <2>2, Least
  <2>4. Min(S) \in S
    BY <2>3, Zenon DEF Min
  <2>5. o = Min(S)
    BY DEF S
  <2> QED
    BY <2>1, <2>4, <2>5, Zenon
<1> HIDE DEF o
<1>6. o \in Order /\ order <= o /\ free_lists[o] \in Seq(Index)
  BY <1>1, <1>4, <1>5
<1>7. i \in DOMAIN free_lists[o] /\ Fits(o, i, count)
  <2> DEFINE S == {k \in DOMAIN free_lists[o] : Fits(o, k, count)}
  <2>1. DOMAIN free_lists[o] = 1..Len(free_lists[o]) /\ Len(free_lists[o]) \in Nat
    BY <1>6, LenProperties
  <2>2. S # {} /\ S \subseteq 0..Len(free_lists[o])
    BY <1>5, <2>1
  <2>3. i = Max(S)
    BY DEF FoundAt
  <2> HIDE DEF i
  <2>4. PICK m \in S : \A k \in S : m >= k
    BY <2>1, <2>2, Greatest, Zenon
  <2>5. Max(S) \in S
    BY <2>4, Zenon DEF Max
  <2> QED
    BY <2>3, <2>5, Zenon
<1> HIDE DEF i
<1>8. /\ In(free_lists[o], b) /\ ~IsWaste(b + count - 1)
      /\ b \in Index /\ Aligned(b, o) /\ (b < Ws \/ o = MaxOrder)
  <2>1. In(free_lists[o], b) /\ ~IsWaste(b + count - 1)
    BY <1>7, Zenon DEF In, Fits
  <2> QED
    BY <1>6, <2>1, FreeHasToken
<1>9. b < Ws
  <2>1. CASE b < Ws
    BY <2>1
  <2>2. CASE o = MaxOrder
    <3>1. b = 0
      BY <1>1, <1>6, <1>8, <2>2, EndsInPool
    <3>2. /\ Pages \in 1..511 /\ Ws \in Nat /\ Pages + Waste = 2^MaxOrder /\ Waste \in 1..512
          /\ IsWaste(b + count - 1) <=> b + count - 1 \in Ws..Pages
      BY <1>1, Pool, Zenon DEF Ws
    <3>3. 2 * 2^order <= 2^MaxOrder /\ 2^order \in 1..512
      <4>1. order \in 0..9 /\ MaxOrder \in 0..9 /\ order < MaxOrder
        BY <1>1, <1>4
      <4> QED
        BY <4>1, Sized, HalfFits, Zenon
    <3>4. PICK x \in 1..512 : x = 2^order
      BY <3>3
    <3>5. 2 * x <= Pages + Waste /\ count <= x
      BY <1>4, <3>2, <3>3, <3>4, Zenon
    <3>6. Waste <= Pages
      BY <3>2 DEF Ws
    <3>7. b + count - 1 = count - 1
      BY <1>4, <3>1
    <3>8. count - 1 \notin Ws..Pages
      BY <1>8, <3>2, <3>7, Zenon
    <3>9. /\ count \in 1..512 /\ Ws \in Nat /\ Pages \in Nat /\ Waste \in Nat
          /\ x \in Nat /\ 2 * x <= Pages + Waste /\ count <= x
      BY <1>4, <3>2, <3>5
    <3>10. 0 < Ws
      BY <3>6, <3>8, <3>9
    <3> QED
      BY <3>1, <3>10, Zenon
  <2> QED
    BY <1>8, <2>1, <2>2
<1> DEFINE bb == b
<1>10. left \in [Order -> Seq(Index)] /\ \A p \in Order :
         /\ Unique(left[p])
         /\ \A x : In(left[p], x) <=> In(free_lists[p], x) /\ ~(p = o /\ x = b)
  <2>1. /\ RemoveAt(free_lists[o], i) \in Seq(Index) /\ Unique(RemoveAt(free_lists[o], i))
        /\ \A x : In(RemoveAt(free_lists[o], i), x) <=> In(free_lists[o], x) /\ x # b
    BY <1>6, <1>7, TakenOut DEF UniqueInv
  <2>2. left \in [Order -> Seq(Index)]
    BY <1>1, <1>6, <2>1
  <2>3. \A p \in Order : left[p] = IF p = o THEN RemoveAt(free_lists[o], i) ELSE free_lists[p]
    BY <1>1
  <2> HIDE DEF left, b
  <2>4. \A p \in Order : Unique(free_lists[p])
    BY Zenon DEF UniqueInv
  <2> QED
    BY <2>1, <2>2, <2>3, <2>4, Zenon
<1> HIDE DEF left, b
<1>11. ASSUME NEW p \in order..(o - 1)
       PROVE  p \in Order /\ b + 2^p \in Index /\ ~In(free_lists[p], b + 2^p)
  <2>1. p \in 0..(o - 1) /\ p # o
    BY <1>1, <1>4, <1>6
  <2> DEFINE d == b + 2^p
  <2>2. /\ p \in Order /\ d \in Index
        /\ Covers(d, p, d) /\ Covers(b, o, d)
    <3>1. d \in Index => d \in Nat
      BY DEF Index
    <3> QED
      BY <1>1, <1>6, <1>8, <2>1, <3>1, RightHalf, Zenon
  <2> HIDE DEF d
  <2>3. ASSUME In(free_lists[p], d) PROVE FALSE
    <3>1. Token("free", 0, d, p, 0) \in Tokens
      BY <2>2, <2>3, FreeHasToken
    <3>2. Token("free", 0, b, o, 0) \in Tokens
      BY <1>6, <1>8, FreeHasToken
    <3>3. Token("free", 0, d, p, 0) = Token("free", 0, b, o, 0)
      BY <2>2, <3>1, <3>2, Alone, Fields, Zenon
    <3> QED
      BY <2>1, <3>3 DEF Token
  <2> QED
    BY <2>2, <2>3 DEF d
<1>12. free_lists' \in [Order -> Seq(Index)] /\ \A p \in Order :
         /\ Unique(free_lists'[p])
         /\ \A x : In(free_lists'[p], x) <=>
              \/ In(free_lists[p], x) /\ ~(p = o /\ x = b)
              \/ p \in order..(o - 1) /\ x = b + 2^p /\ ~IsWaste(x)
  <2>1. free_lists' = [p \in Order |-> IF p \in order..(o - 1) /\ ~IsWaste(b + 2^p)
                                       THEN Append(left[p], b + 2^p) ELSE left[p]]
    BY <1>3, Zenon DEF SplitLists
  <2>2. ASSUME NEW p \in Order
        PROVE  /\ free_lists'[p] \in Seq(Index)
               /\ Unique(free_lists'[p])
               /\ \A x : In(free_lists'[p], x) <=>
                    \/ In(free_lists[p], x) /\ ~(p = o /\ x = b)
                    \/ p \in order..(o - 1) /\ x = b + 2^p /\ ~IsWaste(x)
    <3>1. left[p] \in Seq(Index) /\ Unique(left[p])
      BY <1>10
    <3>2. CASE p \in order..(o - 1) /\ ~IsWaste(b + 2^p)
      <4>1. free_lists'[p] = Append(left[p], b + 2^p)
        BY <2>1, <3>2, Zenon
      <4>2. b + 2^p \in Index /\ ~In(left[p], b + 2^p)
        BY <1>10, <1>11, <3>2, Zenon
      <4>3. PICK d : d = b + 2^p
        OBVIOUS
      <4>4. /\ Append(left[p], d) \in Seq(Index) /\ Unique(Append(left[p], d))
            /\ \A x : In(Append(left[p], d), x) <=> In(left[p], x) \/ x = d
        BY <3>1, <4>2, <4>3, Pushed
      <4>5. \A x : In(free_lists'[p], x) <=> In(left[p], x) \/ x = b + 2^p
        BY <4>1, <4>3, <4>4, Zenon
      <4>6. free_lists'[p] \in Seq(Index) /\ Unique(free_lists'[p])
        BY <4>1, <4>3, <4>4, Zenon
      <4> QED
        BY <1>10, <3>2, <4>5, <4>6, Zenon
    <3>3. CASE ~(p \in order..(o - 1) /\ ~IsWaste(b + 2^p))
      <4>1. free_lists'[p] = left[p]
        BY <2>1, <3>3, Zenon
      <4> QED
        BY <1>10, <3>1, <3>3, <4>1, Zenon
    <3> QED
      BY <3>2, <3>3
  <2>3. free_lists' \in [Order -> Seq(Index)]
    <3>1. \A p \in Order : free_lists'[p] \in Seq(Index)
      BY <2>2
    <3>2. \E f : free_lists' = [p \in Order |-> f[p]]
      <4> DEFINE f == [p \in Order |-> IF p \in order..(o - 1) /\ ~IsWaste(b + 2^p)
                                       THEN Append(left[p], b + 2^p) ELSE left[p]]
      <4>1. free_lists' = [p \in Order |-> f[p]]
        BY <2>1
      <4> QED
        BY <4>1
    <3> QED
      BY <3>1, <3>2
  <2> QED
    BY <2>2, <2>3
<1>13. work[c].pc = "idle" /\ order = GetOrder(count)
  BY Zenon DEF Allocate, order
<1>14. Granted(c, count, order, o, b)
  BY <1>3, <1>4, <1>6, <1>8, <1>9, <1>12, <1>13, Zenon DEF Granted
<1> QED
  BY <1>4, <1>6, <1>8, <1>14, Zenon
-----------------------------------------------------------------------------
(* What free_block does to the lists.  A client never has a block that     *)
(* starts in waste, so the merged block never goes to the waste list.      *)
Bud(i, p) == BuddyOf(BlockOf(i, p), p)

Returned(c, i, order, o, b) ==
    /\ work[c].pc = "merge" /\ i = work[c].block /\ order = work[c].order
    /\ order \in Order /\ order <= o
    /\ i \in Index /\ Aligned(i, order) /\ i < Ws
    /\ b = BlockOf(i, o) /\ b <= i /\ Aligned(b, o)
    /\ \A p \in order..(o - 1) : p \in Order /\ Listed(Bud(i, p), p)
    /\ o < MaxOrder => ~Listed(BuddyOf(b, o), o)
    /\ free_lists' \in [Order -> Seq(Index)]
    /\ \A p \in Order :
         /\ Unique(free_lists'[p])
         /\ \A x : In(free_lists'[p], x) <=>
              \/ In(free_lists[p], x) /\ ~(p \in order..(o - 1) /\ x = Bud(i, p))
              \/ p = o /\ x = b
    /\ \A w : w \in waste_list' <=>
         w \in waste_list /\ ~(\E p \in order..(o - 1) : w = [block |-> Bud(i, p), order |-> p])
    /\ max_order_free' = Max({max_order_free, o})
    /\ work' = [work EXCEPT ![c] = Idle]

LEMMA WorkHasToken ==
    ASSUME TypeInv, LegalInv, RequestInv, NEW c \in Client, work[c].pc # "idle"
    PROVE  /\ WorkToken(c) \in Tokens /\ WorkToken(c).who = "work"
           /\ work[c].block \in Index /\ work[c].order \in Order /\ work[c].count \in 1..MaxRequest
           /\ Aligned(work[c].block, work[c].order) /\ work[c].block < Ws
           /\ work[c].order = GetOrder(work[c].count)
           /\ ~IsWaste(work[c].block + work[c].count - 1)
<1>1. WorkToken(c) \in Tokens
  BY Members, Zenon DEF Membership, IsWork
<1>2. PICK t : t = WorkToken(c)
  OBVIOUS
<1>3. /\ t.who = "work" /\ t.block = work[c].block /\ t.order = work[c].order
      /\ t.count = work[c].count /\ t \in Tokens
  BY <1>1, <1>2 DEF WorkToken, Token
<1>4. t.who # "waste" /\ t.who # "free" /\ t.who \in {"held", "work"}
  BY <1>3
<1>5. Aligned(t.block, t.order) /\ t.order \in Order /\ t.block \in Index /\ t.block < Ws
  BY <1>3, <1>4, Zenon DEF LegalInv
<1>6. t.count \in 1..MaxRequest /\ t.order = GetOrder(t.count) /\ ~IsWaste(t.block + t.count - 1)
  BY <1>3, <1>4, Zenon DEF RequestInv
<1> QED
  BY <1>1, <1>2, <1>3, <1>5, <1>6, Zenon

LEMMA FreeBlockReturns ==
    ASSUME BuddyInv, NEW c \in Client, FreeBlock(c)
    PROVE  \E i \in Index, order \in Order, o \in Order, b \in Index : Returned(c, i, order, o, b)
<1> USE DEF BuddyInv
<1>1. /\ total \in Totals /\ MaxOrder \in 1..9 /\ Order = 0..MaxOrder
      /\ free_lists \in [Order -> Seq(Index)]
      /\ waste_list \in SUBSET [block : Index, order : Order]
      /\ \A i : IsWaste(i) <=> i \in Ws..Pages
  BY Pool, Zenon DEF TypeInv, Order, Ws
<1> DEFINE i     == work[c].block
           order == work[c].order
           o     == MergedOrder(i, order)
           b     == BlockOf(i, o)
           kept  == [p \in Order |-> IF p \in order..(o - 1)
                                     THEN RemoveFirst(free_lists[p], Bud(i, p)) ELSE free_lists[p]]
           buddies == {[block |-> Bud(i, p), order |-> p] : p \in order..(o - 1)}
<1>2. work[c].pc = "merge" /\ work[c].pc # "idle" /\ work' = [work EXCEPT ![c] = Idle]
  BY DEF FreeBlock
<1>3. /\ WorkToken(c) \in Tokens
      /\ i \in Index /\ order \in Order /\ Aligned(i, order) /\ i < Ws
  BY <1>2, WorkHasToken
<1>4. \/ /\ IsWaste(b)
      \/ /\ ~IsWaste(b)
         /\ free_lists' = [kept EXCEPT ![o] = Append(@, b)]
         /\ waste_list' = waste_list \ buddies
         /\ max_order_free' = Max({max_order_free, o})
  BY Zenon DEF FreeBlock, Bud
<1> HIDE DEF i, order
<1>5. /\ o \in order..MaxOrder /\ ~CanMerge(i, o)
      /\ \A p \in order..(o - 1) : CanMerge(i, p)
  <2> DEFINE S == {p \in order..MaxOrder : ~CanMerge(i, p)}
  <2>1. MaxOrder \in S /\ S \subseteq Nat
    <3>1. ~(MaxOrder < MaxOrder)
      BY <1>1
    <3>2. MaxOrder \in order..MaxOrder /\ order..MaxOrder \subseteq Nat
      BY <1>1, <1>3
    <3> QED
      BY <3>1, <3>2, Zenon DEF CanMerge
  <2>2. PICK m \in S : \A k \in S : m <= k
    BY <2>1, Least, Zenon
  <2>3. Min(S) \in S /\ \A k \in S : Min(S) <= k
    BY <2>2, Zenon DEF Min
  <2>4. o = Min(S)
    BY Zenon DEF MergedOrder
  <2> HIDE DEF o
  <2>5. o \in order..MaxOrder /\ ~CanMerge(i, o)
    BY <2>3, <2>4, Zenon
  <2>6. ASSUME NEW p \in order..(o - 1) PROVE CanMerge(i, p)
    <3>1. p \in order..MaxOrder /\ ~(o <= p)
      BY <1>1, <1>3, <2>5
    <3>2. p \notin S
      BY <2>3, <2>4, <3>1, Zenon
    <3> QED
      BY <3>1, <3>2, Zenon
  <2> QED
    BY <2>5, <2>6
<1> HIDE DEF o
<1>6. /\ o \in Order /\ o \in 0..9 /\ order \in 0..9 /\ order <= o /\ i \in Nat
      /\ \A p \in order..(o - 1) : p \in Order /\ p \in 0..9
  BY <1>1, <1>3, <1>5 DEF Index
<1>7. Aligned(b, o) /\ Covers(b, o, i) /\ b <= i /\ b \in Nat
  <2>1. Aligned(b, o) /\ Covers(b, o, i)
    BY <1>6, InBlock
  <2> QED
    BY <2>1, Zenon DEF Covers, Aligned
<1> HIDE DEF b
<1>8. b \in Index
  <2>1. PICK n : n = 2^MaxOrder - 1
    OBVIOUS
  <2>2. n \in Nat
    <3>1. 2^MaxOrder \in 1..512
      <4>1. MaxOrder \in 0..9
        BY <1>1
      <4> QED
        BY <4>1, Sized, Zenon
    <3> QED
      BY <2>1, <3>1
  <2>3. Index = 0..n
    BY <2>1, Zenon DEF Index
  <2> QED
    BY <1>3, <1>6, <1>7, <2>2, <2>3
<1>9. ~IsWaste(b)
  <2>1. b < Ws /\ Ws \in Nat
    <3>1. Ws \in Nat
      BY <1>1, Pool DEF Ws
    <3> QED
      BY <1>3, <1>6, <1>7, <3>1
  <2> QED
    BY <1>1, <1>7, <2>1
<1>10. /\ free_lists' = [kept EXCEPT ![o] = Append(@, b)]
       /\ waste_list' = waste_list \ buddies
       /\ max_order_free' = Max({max_order_free, o})
  BY <1>4, <1>9, Zenon
<1>11. \A p \in order..(o - 1) : p \in Order /\ Listed(Bud(i, p), p)
  BY <1>5, <1>6, Zenon DEF CanMerge, Bud
<1>12. o < MaxOrder => ~Listed(BuddyOf(b, o), o)
  BY <1>5, Zenon DEF CanMerge, b
<1>13. ~In(free_lists[o], b)
  <2> SUFFICES ASSUME In(free_lists[o], b) PROVE FALSE
    OBVIOUS
  <2>1. Token("free", 0, b, o, 0) \in Tokens
    BY <1>6, FreeHasToken
  <2>2. On(Token("free", 0, b, o, 0), i)
    BY <1>7, Fields, Zenon
  <2>3. On(WorkToken(c), i)
    <3>1. Covers(i, order, i)
      <4>1. BlockOf(i, order) = i
        BY <1>3, <1>6, Lefts
      <4> QED
        BY <1>3, <1>6, <4>1, Owner
    <3> QED
      BY <3>1, Fields, Zenon DEF WorkToken, i, order
  <2>4. Token("free", 0, b, o, 0) = WorkToken(c)
    BY <1>3, <2>1, <2>2, <2>3, Alone
  <2> QED
    BY <2>4 DEF WorkToken, Token
<1>14. \A p \in Order :
         /\ kept[p] \in Seq(Index) /\ Unique(kept[p])
         /\ \A x : In(kept[p], x) <=>
              In(free_lists[p], x) /\ ~(p \in order..(o - 1) /\ x = Bud(i, p))
  <2> SUFFICES ASSUME NEW p \in Order
               PROVE  /\ kept[p] \in Seq(Index) /\ Unique(kept[p])
                      /\ \A x : In(kept[p], x) <=>
                           In(free_lists[p], x) /\ ~(p \in order..(o - 1) /\ x = Bud(i, p))
    OBVIOUS
  <2>1. free_lists[p] \in Seq(Index) /\ Unique(free_lists[p])
    BY <1>1 DEF UniqueInv
  <2>2. CASE p \in order..(o - 1)
    <3>1. kept[p] = RemoveFirst(free_lists[p], Bud(i, p))
      BY <2>2
    <3>2. /\ RemoveFirst(free_lists[p], Bud(i, p)) \in Seq(Index)
          /\ Unique(RemoveFirst(free_lists[p], Bud(i, p)))
          /\ \A x : In(RemoveFirst(free_lists[p], Bud(i, p)), x) <=>
                      In(free_lists[p], x) /\ x # Bud(i, p)
      BY <2>1, TakenOutFirst
    <3> HIDE DEF kept
    <3> QED
      BY <2>2, <3>1, <3>2, Zenon
  <2>3. CASE p \notin order..(o - 1)
    <3>1. kept[p] = free_lists[p]
      BY <2>3
    <3> HIDE DEF kept
    <3> QED
      BY <2>1, <2>3, <3>1, Zenon
  <2> QED
    BY <2>2, <2>3
<1>15. DOMAIN kept = Order
  OBVIOUS
<1> HIDE DEF kept
<1>16. /\ Append(kept[o], b) \in Seq(Index) /\ Unique(Append(kept[o], b))
       /\ \A x : In(Append(kept[o], b), x) <=> In(kept[o], x) \/ x = b
  <2>1. kept[o] \in Seq(Index) /\ Unique(kept[o]) /\ ~In(kept[o], b)
    BY <1>6, <1>13, <1>14, Zenon
  <2> QED
    BY <1>8, <2>1, Pushed
<1>17. kept \in [Order -> Seq(Index)]
  <2>1. kept = [p \in Order |-> kept[p]]
    BY DEF kept
  <2> QED
    BY <1>14, <2>1
<1>18. free_lists' \in [Order -> Seq(Index)]
  BY <1>6, <1>10, <1>16, <1>17
<1>19. \A p \in Order :
         /\ Unique(free_lists'[p])
         /\ \A x : In(free_lists'[p], x) <=>
              \/ In(free_lists[p], x) /\ ~(p \in order..(o - 1) /\ x = Bud(i, p))
              \/ p = o /\ x = b
  <2>1. \A p \in Order : free_lists'[p] = IF p = o THEN Append(kept[o], b) ELSE kept[p]
    BY <1>10, <1>17
  <2> QED
    BY <1>14, <1>16, <2>1, Zenon
<1>20. \A w : w \in waste_list' <=>
         w \in waste_list /\ ~(\E p \in order..(o - 1) : w = [block |-> Bud(i, p), order |-> p])
  BY <1>10
<1>21. work[c].pc = "merge" /\ i = work[c].block /\ order = work[c].order
  BY <1>2 DEF i, order
<1>22. Returned(c, i, order, o, b)
  <2>1. b = BlockOf(i, o) /\ b <= i
    BY <1>7 DEF b
  <2> QED
    BY <1>2, <1>3, <1>6, <1>7, <1>10, <1>11, <1>12, <1>18, <1>19, <1>20, <1>21, <2>1, Zenon
    DEF Returned
<1> QED
  BY <1>3, <1>6, <1>8, <1>22, Zenon
-----------------------------------------------------------------------------
(* The types.                                                              *)
Sub16 == 0..(2^16 - 1)

(* The width of a count, of which only that it exceeds a pool is needed.   *)
LEMMA WordSize ==
    \E w \in Nat : 512 < w /\ Sub16 = 0..(w - 1) /\ \A n : Wrap(n) = n % w
<1>1. 2^16 \in Nat /\ 512 < 2^16
  OBVIOUS
<1>2. Sub16 = 0..(2^16 - 1) /\ \A n : Wrap(n) = n % 2^16
  BY Zenon DEF Sub16, Wrap
<1> QED
  BY <1>1, <1>2, Zenon

LEMMA Wrapped == ASSUME NEW n \in Int PROVE Wrap(n) \in Sub16
<1>1. PICK w \in Nat : 512 < w /\ Sub16 = 0..(w - 1) /\ Wrap(n) = n % w
  BY WordSize, Zenon
<1>2. n % w \in 0..(w - 1)
  BY <1>1
<1> QED
  BY <1>1, <1>2, Zenon

LEMMA SmallCounts ==
    /\ \A n \in 0..512 : n \in Sub16 /\ Wrap(n) = n
    /\ \A n \in Sub16 : n \in Int
<1>1. PICK w \in Nat : 512 < w /\ Sub16 = 0..(w - 1) /\ \A n : Wrap(n) = n % w
  BY WordSize, Zenon
<1>2. \A n \in 0..512 : n \in 0..(w - 1) /\ n % w = n
  BY <1>1
<1>3. \A n \in 0..(w - 1) : n \in Int
  OBVIOUS
<1> QED
  BY <1>1, <1>2, <1>3, Zenon

LEMMA OneIdle ==
    ASSUME TypeInv, total \in Totals
    PROVE  0 \in Sub16 /\ 0 \in Index /\ 0 \in Order /\ Idle \in [pc : PC, block : Index, order : Order,
                                                   count : 0..MaxRequest, loaded : Sub16]
<1>1. MaxOrder \in 0..9 /\ MaxOrder \in 1..9 /\ MaxRequest \in 1..512
  BY Pool, BuddyAssumption
<1>2. 2^MaxOrder \in 1..512
  BY <1>1, Sized, Zenon
<1>3. 0 \in Index
  BY <1>2 DEF Index
<1>4. 0 \in Order /\ 0 \in 0..MaxRequest /\ 0 \in Sub16
  <2>1. 0 \in 0..512 /\ 0 \in Order /\ 0 \in 0..MaxRequest
    BY <1>1 DEF Order
  <2> QED
    BY <2>1, SmallCounts, Zenon
<1>5. "idle" \in PC
  BY DEF PC
<1> QED
  BY <1>3, <1>4, <1>5 DEF Idle

LEMMA TypesKept ==
    ASSUME BuddyInv, [Next]_vars
    PROVE  TypeInv'
<1> USE DEF BuddyInv
<1> DEFINE WorkType == [pc : PC, block : Index, order : Order, count : 0..MaxRequest,
                        loaded : Sub16]
           HeldType == [block : Index, order : Order, count : 1..MaxRequest]
<1>1. /\ total \in Totals /\ free_lists \in [Order -> Seq(Index)]
      /\ waste_list \in SUBSET [block : Index, order : Order]
      /\ max_order_free \in Order /\ free_pages \in Sub16
      /\ held \in [Client -> SUBSET HeldType]
      /\ work \in [Client -> WorkType]
      /\ \A c \in Client : work[c].pc # "idle" => work[c].count # 0
      /\ refused \in 0..MaxRequest /\ races \in 0..MaxRaces
  BY Zenon DEF TypeInv, Sub16
<1>2. MaxOrder \in 1..9 /\ Order = 0..MaxOrder /\ MaxRequest \in 1..512 /\ MaxRaces \in Nat
  BY <1>1, Pool, BuddyAssumption DEF Order
<1>3. Idle \in WorkType /\ 0 \in 0..MaxRequest /\ 0 \in Sub16
  BY <1>1, <1>2, OneIdle
<1>4. Idle.pc = "idle"
  BY DEF Idle
<1> DEFINE Steady == /\ total' = total
           Types == /\ free_lists' \in [Order -> Seq(Index)]
                    /\ waste_list' \in SUBSET [block : Index, order : Order]
                    /\ max_order_free' \in Order /\ free_pages' \in Sub16
                    /\ held' \in [Client -> SUBSET HeldType]
                    /\ work' \in [Client -> WorkType]
                    /\ \A c \in Client : work'[c].pc # "idle" => work'[c].count # 0
                    /\ refused' \in 0..MaxRequest /\ races' \in 0..MaxRaces
<1>5. ASSUME total' = total, Types PROVE TypeInv'
  <2>1. Order' = Order /\ Index' = Index
    BY <1>5, Same
  <2> QED
    BY <1>1, <1>5, <2>1, Zenon DEF TypeInv, Sub16
<1> HIDE DEF WorkType, HeldType
<1>6. ASSUME NEW c \in Client, NEW w \in WorkType, work' = [work EXCEPT ![c] = w],
             w.pc # "idle" => w.count # 0
      PROVE  /\ work' \in [Client -> WorkType]
             /\ \A d \in Client : work'[d].pc # "idle" => work'[d].count # 0
  <2>1. \A d \in Client : work'[d] = IF d = c THEN w ELSE work[d]
    BY <1>1, <1>6
  <2>2. work' \in [Client -> WorkType]
    BY <1>1, <1>6
  <2> QED
    BY <1>1, <1>6, <2>1, <2>2, Zenon
<1>7. ASSUME Race PROVE races' \in 0..MaxRaces
  BY <1>1, <1>2, <1>7 DEF Race
<1>8. \A c \in Client : work[c] \in WorkType
  BY <1>1
<1>9. CASE UNCHANGED vars
  BY <1>1, <1>5, <1>9, Zenon DEF vars, blockLists
<1>10. ASSUME NEW c \in Client, Allocate(c) PROVE TypeInv'
  <2>1. PICK count \in 1..MaxRequest, order \in Order, o \in Order, b \in Index :
          Granted(c, count, order, o, b)
    BY <1>10, AllocateGrants
  <2> DEFINE w == [pc |-> "allocated", block |-> b, order |-> order, count |-> count, loaded |-> 0]
  <2>2. /\ free_lists' \in [Order -> Seq(Index)]
        /\ waste_list' = waste_list \cup SplitWaste(b, o, order)
        /\ max_order_free' = Lowered(free_lists', max_order_free)
        /\ work' = [work EXCEPT ![c] = w] /\ Aligned(b, o)
    BY <2>1 DEF Granted
  <2>3. w \in WorkType /\ w.count # 0
    <3>1. "allocated" \in PC /\ count \in 0..MaxRequest /\ 0 \in Sub16 /\ count # 0
      BY <1>2, <1>3 DEF PC
    <3> QED
      BY <3>1 DEF WorkType
  <2> HIDE DEF w
  <2>4. SplitWaste(b, o, order) \in SUBSET [block : Index, order : Order]
    <3>1. ASSUME NEW p \in order..(o - 1) PROVE p \in Order /\ b + 2^p \in Index
      <4>1. p \in 0..(o - 1)
        BY <1>2
      <4> QED
        BY <1>1, <2>2, <4>1, RightHalf
    <3> QED
      BY <3>1 DEF SplitWaste
  <2>5. max_order_free' \in Order
    <3> DEFINE S == {p \in 0..max_order_free : free_lists'[p] # <<>>}
    <3>1. max_order_free' = IF S = {} THEN 0 ELSE CHOOSE p \in S : \A q \in S : q <= p
      BY <2>2, Zenon DEF Lowered
    <3> HIDE DEF S
    <3>2. CASE S = {}
      BY <1>2, <3>1, <3>2
    <3>3. CASE S # {}
      <4>1. S \subseteq 0..max_order_free /\ max_order_free \in Nat
        BY <1>1, <1>2 DEF S
      <4>2. PICK m \in S : \A q \in S : m >= q
        BY <3>3, <4>1, Greatest
      <4>3. ASSUME NEW q \in S PROVE q <= m
        <5>1. m \in Nat /\ q \in Nat /\ m >= q
          BY <4>1, <4>2, <4>3
        <5> QED
          BY <5>1
      <4>4. max_order_free' \in S
        BY <3>1, <3>3, <4>2, <4>3, Zenon
      <4> QED
        <5>1. max_order_free' \in 0..max_order_free
          BY <4>1, <4>4
        <5>2. max_order_free \in 0..MaxOrder /\ MaxOrder \in Nat /\ Order = 0..MaxOrder
          BY <1>1, <1>2
        <5> QED
          BY <5>1, <5>2
    <3> QED
      BY <3>2, <3>3
  <2>6. UNCHANGED <<total, free_pages, held, races>> /\ refused' = 0
    BY <1>10 DEF Allocate
  <2> QED
    BY <1>1, <1>3, <1>5, <1>6, <2>2, <2>3, <2>4, <2>5, <2>6
<1>11. ASSUME NEW c \in Client, AllocateFails(c) PROVE TypeInv'
  <2>1. refused' \in 0..MaxRequest
    BY <1>2, <1>11 DEF AllocateFails
  <2>2. UNCHANGED <<total, blockLists, free_pages, held, work, races>>
    BY <1>11 DEF AllocateFails
  <2> QED
    BY <1>1, <1>5, <2>1, <2>2 DEF blockLists
<1>12. ASSUME NEW c \in Client, LoadForSub(c) PROVE TypeInv'
  <2> DEFINE w == [work[c] EXCEPT !.pc = "subtract", !.loaded = free_pages]
  <2>1. /\ work' = [work EXCEPT ![c] = w] /\ work[c].pc # "idle" /\ Race /\ refused' = 0
        /\ UNCHANGED <<total, free_lists, waste_list, max_order_free, free_pages, held>>
    BY <1>12 DEF LoadForSub, blockLists
  <2>2. w \in WorkType /\ w.count = work[c].count
    BY <1>1, <1>8 DEF WorkType, PC
  <2> QED
    BY <1>1, <1>3, <1>5, <1>6, <1>7, <2>1, <2>2, Zenon
<1>13. ASSUME NEW c \in Client, StoreSub(c) PROVE TypeInv'
  <2> DEFINE h == [block |-> work[c].block, order |-> work[c].order, count |-> work[c].count]
  <2>1. /\ work' = [work EXCEPT ![c] = Idle] /\ work[c].pc # "idle" /\ refused' = 0
        /\ held' = [held EXCEPT ![c] = @ \cup {h}]
        /\ UNCHANGED <<total, free_lists, waste_list, max_order_free, races>>
        /\ free_pages' = Wrap(work[c].loaded - 2^work[c].order)
    BY <1>13 DEF StoreSub, blockLists
  <2>2. h \in HeldType
    BY <1>1, <1>2, <1>8, <2>1 DEF WorkType, HeldType
  <2>3. held' \in [Client -> SUBSET HeldType]
    <3> HIDE DEF h
    <3> QED
      BY <1>1, <2>1, <2>2
  <2>4. free_pages' \in Sub16
    <3>1. work[c].loaded \in Int /\ 2^work[c].order \in Int
      <4>1. work[c].loaded \in Sub16 /\ work[c].order \in Order
        BY <1>8 DEF WorkType
      <4>2. work[c].order \in 0..9
        BY <1>2, <4>1
      <4>3. 2^work[c].order \in 1..512
        BY <4>2, Sized, Zenon
      <4>4. work[c].loaded \in Int
        BY <4>1, SmallCounts, Zenon
      <4> QED
        BY <4>3, <4>4
    <3> QED
      BY <2>1, <3>1, Wrapped
  <2> QED
    BY <1>1, <1>3, <1>4, <1>5, <1>6, <2>1, <2>3, <2>4, Zenon
<1>14. ASSUME NEW c \in Client, LoadForAdd(c) PROVE TypeInv'
  <2>1. PICK h \in held[c] :
          /\ work' = [work EXCEPT ![c] = [pc |-> "add", block |-> h.block, order |-> h.order,
                                          count |-> h.count, loaded |-> free_pages]]
          /\ held' = [held EXCEPT ![c] = @ \ {h}]
    BY <1>14 DEF LoadForAdd
  <2>2. UNCHANGED <<total, free_lists, waste_list, max_order_free, free_pages>> /\ Race /\ refused' = 0
    BY <1>14 DEF LoadForAdd, blockLists
  <2> DEFINE w == [pc |-> "add", block |-> h.block, order |-> h.order,
                   count |-> h.count, loaded |-> free_pages]
  <2>3. w \in WorkType /\ w.count # 0
    <3>1. h \in HeldType
      BY <1>1
    <3> QED
      BY <1>1, <1>2, <3>1 DEF WorkType, HeldType, PC
  <2> HIDE DEF w
  <2>4. held' \in [Client -> SUBSET HeldType]
    BY <1>1, <2>1
  <2>5. work' = [work EXCEPT ![c] = w]
    BY <2>1 DEF w
  <2> QED
    BY <1>1, <1>3, <1>5, <1>6, <1>7, <2>2, <2>3, <2>4, <2>5, Zenon
<1>15. ASSUME NEW c \in Client, StoreAdd(c) PROVE TypeInv'
  <2> DEFINE w == [work[c] EXCEPT !.pc = "merge", !.loaded = 0]
  <2>1. /\ work' = [work EXCEPT ![c] = w] /\ work[c].pc # "idle" /\ refused' = 0
        /\ UNCHANGED <<total, free_lists, waste_list, max_order_free, held, races>>
        /\ free_pages' = Wrap(work[c].loaded + 2^work[c].order)
    BY <1>15 DEF StoreAdd, blockLists
  <2>2. w \in WorkType /\ w.count = work[c].count
    <3> QED
      BY <1>3, <1>8 DEF WorkType, PC
  <2>3. free_pages' \in Sub16
    <3>1. work[c].loaded \in Int /\ 2^work[c].order \in Int
      <4>1. work[c].loaded \in Sub16 /\ work[c].order \in Order
        BY <1>8 DEF WorkType
      <4>2. work[c].order \in 0..9
        BY <1>2, <4>1
      <4>3. 2^work[c].order \in 1..512
        BY <4>2, Sized, Zenon
      <4>4. work[c].loaded \in Int
        BY <4>1, SmallCounts, Zenon
      <4> QED
        BY <4>3, <4>4
    <3> QED
      BY <2>1, <3>1, Wrapped
  <2> QED
    BY <1>1, <1>3, <1>5, <1>6, <2>1, <2>2, <2>3, Zenon
<1>16. ASSUME NEW c \in Client, FreeBlock(c) PROVE TypeInv'
  <2>1. PICK i \in Index, order \in Order, o \in Order, b \in Index : Returned(c, i, order, o, b)
    BY <1>16, FreeBlockReturns
  <2>2. /\ free_lists' \in [Order -> Seq(Index)]
        /\ \A w : w \in waste_list' => w \in waste_list
        /\ max_order_free' = Max({max_order_free, o})
        /\ work' = [work EXCEPT ![c] = Idle]
    BY <2>1 DEF Returned
  <2>3. UNCHANGED <<total, free_pages, held, races>> /\ refused' = 0
    BY <1>16 DEF FreeBlock
  <2>4. max_order_free' \in Order
    <3> DEFINE S == {max_order_free, o}
    <3>1. \E m \in S : \A k \in S : m >= k
      BY <1>1, <1>2
    <3>2. max_order_free' \in S
      BY <2>2, <3>1, Zenon DEF Max
    <3> QED
      BY <1>1, <3>2
  <2>5. waste_list' \in SUBSET [block : Index, order : Order]
    BY <1>1, <2>2
  <2> QED
    BY <1>1, <1>3, <1>4, <1>5, <1>6, <2>2, <2>3, <2>4, <2>5
<1> QED
  BY <1>9, <1>10, <1>11, <1>12, <1>13, <1>14, <1>15, <1>16 DEF Next
-----------------------------------------------------------------------------
(* What the operations do to the tokens.                                   *)
FreeTok(b, o)  == Token("free", 0, b, o, 0)
HalfTok(b, p)  == Token(IF IsWaste(b + 2^p) THEN "waste" ELSE "free", 0, b + 2^p, p, 0)
NewTokens(c, count, order, o, b) ==
    {Token("work", c, b, order, count)} \cup {HalfTok(b, p) : p \in order..(o - 1)}
GoneTokens(c, i, order, o) ==
    {WorkToken(c)} \cup {t \in Tokens : /\ t.who \in {"free", "waste"}
                                        /\ \E p \in order..(o - 1) : t.block = Bud(i, p) /\ t.order = p}
HeldTok(c, h)  == Token("held", c, h.block, h.order, h.count)

LEMMA TokenKinds ==
    /\ \A w, f, b, o, n, x, g, d, p, m :
         Token(w, f, b, o, n) = Token(x, g, d, p, m) => w = x /\ f = g /\ b = d /\ o = p /\ n = m
    /\ \A t : (IsFree(t) => t.who = "free") /\ (IsWasted(t) => t.who = "waste")
    /\ \A t : (IsHeld(t) => t.who = "held") /\ (IsWork(t) => t.who = "work")
<1>1. \A w, f, b, o, n, x, g, d, p, m :
         Token(w, f, b, o, n) = Token(x, g, d, p, m) => w = x /\ f = g /\ b = d /\ o = p /\ n = m
  BY DEF Token
<1>2. \A t : (IsFree(t) => t.who = "free") /\ (IsWasted(t) => t.who = "waste")
  <2>1. \A b, o : Token("free", 0, b, o, 0).who = "free" /\ Token("waste", 0, b, o, 0).who = "waste"
    BY DEF Token
  <2> QED
    BY <2>1, Zenon DEF IsFree, IsWasted
<1>3. \A t : (IsHeld(t) => t.who = "held") /\ (IsWork(t) => t.who = "work")
  BY DEF IsHeld, IsWork, WorkToken, Token
<1> QED
  BY <1>1, <1>2, <1>3, Zenon

LEMMA TokensAllocated ==
    ASSUME TypeInv, LegalInv, TypeInv', total' = total, held' = held, NEW c \in Client,
           NEW count, NEW order \in Order, NEW o \in Order, NEW b \in Index,
           Granted(c, count, order, o, b)
    PROVE  Tokens' = (Tokens \ {FreeTok(b, o)}) \cup NewTokens(c, count, order, o, b)
<1>1. Order' = Order /\ Index' = Index
  BY Same
<1>2. /\ \A p \in Order : \A x : In(free_lists'[p], x) <=>
              \/ In(free_lists[p], x) /\ ~(p = o /\ x = b)
              \/ p \in order..(o - 1) /\ x = b + 2^p /\ ~IsWaste(x)
      /\ waste_list' = waste_list \cup SplitWaste(b, o, order)
      /\ work[c].pc = "idle" /\ Aligned(b, o)
      /\ work' = [work EXCEPT ![c] = [pc |-> "allocated", block |-> b, order |-> order,
                                      count |-> count, loaded |-> 0]]
  BY Zenon DEF Granted
<1>3. ASSUME NEW p \in order..(o - 1) PROVE p \in Order /\ b + 2^p \in Index
  <2>1. p \in 0..(o - 1) /\ total \in Totals
    <3>1. total \in Totals
      BY Zenon DEF TypeInv
    <3>2. order \in 0..9 /\ o \in 0..9
      BY <3>1, Pool
    <3> QED
      BY <3>1, <3>2
  <2> QED
    BY <1>2, <2>1, RightHalf
<1> SUFFICES ASSUME NEW t
             PROVE  t \in Tokens' <=>
                      \/ t \in Tokens /\ t # FreeTok(b, o)
                      \/ t = Token("work", c, b, order, count)
                      \/ \E p \in order..(o - 1) : t = HalfTok(b, p)
  BY Zenon DEF NewTokens
<1>4. IsFree(t)' <=> \/ IsFree(t) /\ t # FreeTok(b, o)
                     \/ \E p \in order..(o - 1) : /\ ~IsWaste(b + 2^p)
                                                  /\ t = Token("free", 0, b + 2^p, p, 0)
  <2>1. IsFree(t)' <=> \E p \in Order : \E x \in Index : In(free_lists'[p], x) /\ t = FreeTok(x, p)
    BY <1>1, Zenon DEF IsFree, In, FreeTok
  <2>2. IsFree(t) <=> \E p \in Order : \E x \in Index : In(free_lists[p], x) /\ t = FreeTok(x, p)
    BY Zenon DEF IsFree, FreeTok
  <2>3. ASSUME NEW p \in Order, NEW x \in Index
        PROVE  FreeTok(x, p) = FreeTok(b, o) <=> p = o /\ x = b
    BY DEF FreeTok, Token
  <2>4. ASSUME IsFree(t)'
        PROVE  \/ IsFree(t) /\ t # FreeTok(b, o)
               \/ \E p \in order..(o - 1) : ~IsWaste(b + 2^p) /\ t = FreeTok(b + 2^p, p)
    <3>1. PICK p \in Order, x \in Index : In(free_lists'[p], x) /\ t = FreeTok(x, p)
      BY <2>1, <2>4, Zenon
    <3>2. \/ In(free_lists[p], x) /\ ~(p = o /\ x = b)
          \/ p \in order..(o - 1) /\ x = b + 2^p /\ ~IsWaste(x)
      BY <1>2, <3>1, Zenon
    <3> QED
      BY <2>2, <2>3, <3>1, <3>2, Zenon
  <2>5. ASSUME IsFree(t), t # FreeTok(b, o) PROVE IsFree(t)'
    <3>1. PICK p \in Order, x \in Index : In(free_lists[p], x) /\ t = FreeTok(x, p)
      BY <2>2, <2>5, Zenon
    <3>2. In(free_lists'[p], x)
      BY <1>2, <2>3, <2>5, <3>1, Zenon
    <3> QED
      BY <2>1, <3>1, <3>2, Zenon
  <2>6. ASSUME NEW p \in order..(o - 1), ~IsWaste(b + 2^p), t = FreeTok(b + 2^p, p) PROVE IsFree(t)'
    <3>1. p \in Order /\ b + 2^p \in Index
      BY <1>3
    <3>2. In(free_lists'[p], b + 2^p)
      BY <1>2, <2>6, <3>1, Zenon
    <3> QED
      BY <2>1, <2>6, <3>1, <3>2, Zenon
  <2> QED
    BY <2>4, <2>5, <2>6, Zenon DEF FreeTok
<1>5. IsWasted(t)' <=> \/ IsWasted(t)
                       \/ \E p \in order..(o - 1) : /\ IsWaste(b + 2^p)
                                                    /\ t = Token("waste", 0, b + 2^p, p, 0)
  <2>1. IsWasted(t)' <=> \E p \in Order : \E x \in Index : /\ [block |-> x, order |-> p] \in waste_list'
                                                           /\ t = Token("waste", 0, x, p, 0)
    BY <1>1, Zenon DEF IsWasted
  <2>2. ASSUME NEW p \in Order, NEW x \in Index
        PROVE  [block |-> x, order |-> p] \in waste_list' <=>
                 \/ [block |-> x, order |-> p] \in waste_list
                 \/ p \in order..(o - 1) /\ x = b + 2^p /\ IsWaste(x)
    <3>1. [block |-> x, order |-> p] \in SplitWaste(b, o, order) <=>
            p \in order..(o - 1) /\ x = b + 2^p /\ IsWaste(x)
      <4>1. [block |-> x, order |-> p] \in SplitWaste(b, o, order) <=>
              \E q \in order..(o - 1) : /\ IsWaste(b + 2^q)
                                        /\ [block |-> x, order |-> p] = [block |-> b + 2^q, order |-> q]
        BY Zenon DEF SplitWaste
      <4>2. \A q, y : [block |-> x, order |-> p] = [block |-> y, order |-> q] <=> x = y /\ p = q
        OBVIOUS
      <4> QED
        BY <4>1, <4>2, Zenon
    <3> QED
      BY <1>2, <3>1, Zenon
  <2>3. ASSUME IsWasted(t)'
        PROVE  \/ IsWasted(t)
               \/ \E p \in order..(o - 1) : IsWaste(b + 2^p) /\ t = Token("waste", 0, b + 2^p, p, 0)
    BY <2>1, <2>2, <2>3, Zenon DEF IsWasted
  <2>4. ASSUME IsWasted(t) PROVE IsWasted(t)'
    BY <2>1, <2>2, <2>4, Zenon DEF IsWasted
  <2>5. ASSUME NEW p \in order..(o - 1), IsWaste(b + 2^p), t = Token("waste", 0, b + 2^p, p, 0)
        PROVE  IsWasted(t)'
    BY <1>3, <2>1, <2>2, <2>5, Zenon
  <2> QED
    BY <2>3, <2>4, <2>5, Zenon
<1>6. IsHeld(t)' <=> IsHeld(t)
  BY Zenon DEF IsHeld
<1>7. IsWork(t)' <=> IsWork(t) \/ t = Token("work", c, b, order, count)
  <2>1. \A d \in Client : d # c => work'[d] = work[d]
    BY <1>2, Zenon DEF TypeInv
  <2>2. /\ work'[c].pc = "allocated" /\ work'[c].block = b /\ work'[c].order = order
        /\ work'[c].count = count
    BY <1>2, Zenon DEF TypeInv
  <2>3. work'[c].pc # "idle" /\ work[c].pc = "idle"
    BY <1>2, <2>2
  <2>4. WorkToken(c)' = Token("work", c, b, order, count)
    BY <2>2, Zenon DEF WorkToken
  <2>5. IsWork(t)' <=> \E d \in Client : work'[d].pc # "idle" /\ t = WorkToken(d)'
    BY Zenon DEF IsWork
  <2>6. \A d \in Client : d # c => WorkToken(d)' = WorkToken(d)
    BY <2>1, Zenon DEF WorkToken
  <2> QED
    BY <2>1, <2>3, <2>4, <2>5, <2>6, Zenon DEF IsWork
<1>8. FreeTok(b, o).who = "free"
  BY DEF FreeTok, Token
<1>9. t \in Tokens' <=> IsFree(t)' \/ IsWasted(t)' \/ IsHeld(t)' \/ IsWork(t)'
  BY MembersLater, Zenon DEF Membership
<1>10. t \in Tokens <=> IsFree(t) \/ IsWasted(t) \/ IsHeld(t) \/ IsWork(t)
  BY Members, Zenon DEF Membership
<1>11. "free" # "waste" /\ "free" # "held" /\ "free" # "work"
  OBVIOUS
<1>12. IsWasted(t) \/ IsHeld(t) \/ IsWork(t) => t # FreeTok(b, o)
  BY <1>8, <1>11, TokenKinds, Zenon
<1>13. (\E p \in order..(o - 1) : t = HalfTok(b, p)) <=>
         \/ \E p \in order..(o - 1) : ~IsWaste(b + 2^p) /\ t = Token("free", 0, b + 2^p, p, 0)
         \/ \E p \in order..(o - 1) : IsWaste(b + 2^p) /\ t = Token("waste", 0, b + 2^p, p, 0)
  BY Zenon DEF HalfTok
<1> QED
  BY <1>4, <1>5, <1>6, <1>7, <1>9, <1>10, <1>12, <1>13, Zenon

LEMMA TokensReturned ==
    ASSUME TypeInv, LegalInv, TypeInv', total' = total, held' = held, NEW c \in Client,
           NEW i \in Index, NEW order \in Order, NEW o \in Order, NEW b \in Index,
           Returned(c, i, order, o, b)
    PROVE  Tokens' = (Tokens \ GoneTokens(c, i, order, o)) \cup {FreeTok(b, o)}
<1>1. Order' = Order /\ Index' = Index
  BY Same
<1>2. /\ \A p \in Order : \A x : In(free_lists'[p], x) <=>
              \/ In(free_lists[p], x) /\ ~(p \in order..(o - 1) /\ x = Bud(i, p))
              \/ p = o /\ x = b
      /\ \A w : w \in waste_list' <=>
           w \in waste_list /\ ~(\E p \in order..(o - 1) : w = [block |-> Bud(i, p), order |-> p])
      /\ work[c].pc = "merge"
      /\ work' = [work EXCEPT ![c] = Idle]
  BY Zenon DEF Returned
<1> DEFINE Buddy(t) == \E p \in order..(o - 1) : t.block = Bud(i, p) /\ t.order = p
<1> SUFFICES ASSUME NEW t
             PROVE  t \in Tokens' <=>
                      \/ /\ t \in Tokens /\ t # WorkToken(c)
                         /\ ~(t.who \in {"free", "waste"} /\ Buddy(t))
                      \/ t = FreeTok(b, o)
  BY Zenon DEF GoneTokens
<1>4. IsFree(t)' <=> \/ IsFree(t) /\ ~Buddy(t)
                     \/ t = FreeTok(b, o)
  <2>1. IsFree(t)' <=> \E p \in Order : \E x \in Index : In(free_lists'[p], x) /\ t = FreeTok(x, p)
    BY <1>1, Zenon DEF IsFree, In, FreeTok
  <2>2. IsFree(t) <=> \E p \in Order : \E x \in Index : In(free_lists[p], x) /\ t = FreeTok(x, p)
    BY Zenon DEF IsFree, FreeTok
  <2>3. ASSUME NEW p \in Order, NEW x \in Index, t = FreeTok(x, p)
        PROVE  Buddy(t) <=> p \in order..(o - 1) /\ x = Bud(i, p)
    <3>1. t.block = x /\ t.order = p
      BY <2>3 DEF FreeTok, Token
    <3> QED
      BY <3>1, Zenon
  <2>4. ASSUME IsFree(t)' PROVE (IsFree(t) /\ ~Buddy(t)) \/ t = FreeTok(b, o)
    <3>1. PICK p \in Order, x \in Index : In(free_lists'[p], x) /\ t = FreeTok(x, p)
      BY <2>1, <2>4, Zenon
    <3>2. \/ In(free_lists[p], x) /\ ~(p \in order..(o - 1) /\ x = Bud(i, p))
          \/ p = o /\ x = b
      BY <1>2, <3>1, Zenon
    <3> HIDE DEF Buddy
    <3> QED
      BY <2>2, <2>3, <3>1, <3>2, Zenon
  <2>5. ASSUME IsFree(t), ~Buddy(t) PROVE IsFree(t)'
    <3>1. PICK p \in Order, x \in Index : In(free_lists[p], x) /\ t = FreeTok(x, p)
      BY <2>2, <2>5, Zenon
    <3> HIDE DEF Buddy
    <3>2. In(free_lists'[p], x)
      BY <1>2, <2>3, <2>5, <3>1, Zenon
    <3> QED
      BY <2>1, <3>1, <3>2, Zenon
  <2>6. ASSUME t = FreeTok(b, o) PROVE IsFree(t)'
    BY <1>2, <2>1, <2>6, Zenon
  <2> QED
    BY <2>4, <2>5, <2>6, Zenon
<1>5. IsWasted(t)' <=> IsWasted(t) /\ ~Buddy(t)
  <2>1. IsWasted(t)' <=> \E p \in Order : \E x \in Index : /\ [block |-> x, order |-> p] \in waste_list'
                                                           /\ t = Token("waste", 0, x, p, 0)
    BY <1>1, Zenon DEF IsWasted
  <2>2. ASSUME NEW p \in Order, NEW x \in Index, t = Token("waste", 0, x, p, 0)
        PROVE  /\ Buddy(t) <=> p \in order..(o - 1) /\ x = Bud(i, p)
               /\ [block |-> x, order |-> p] \in waste_list' <=>
                    /\ [block |-> x, order |-> p] \in waste_list
                    /\ ~(p \in order..(o - 1) /\ x = Bud(i, p))
    <3>1. t.block = x /\ t.order = p
      BY <2>2 DEF Token
    <3>2. \A q, y : [block |-> x, order |-> p] = [block |-> y, order |-> q] <=> x = y /\ p = q
      OBVIOUS
    <3>3. (\E q \in order..(o - 1) : [block |-> x, order |-> p] = [block |-> Bud(i, q), order |-> q])
            <=> p \in order..(o - 1) /\ x = Bud(i, p)
      BY <3>2, Zenon
    <3> QED
      BY <1>2, <3>1, <3>3, Zenon
  <2> HIDE DEF Buddy
  <2> QED
    BY <2>1, <2>2, Zenon DEF IsWasted
<1>6. IsHeld(t)' <=> IsHeld(t)
  BY Zenon DEF IsHeld
<1>7. IsWork(t)' <=> IsWork(t) /\ t # WorkToken(c)
  <2>1. \A d \in Client : d # c => work'[d] = work[d]
    BY <1>2, Zenon DEF TypeInv
  <2>2. work'[c].pc = "idle" /\ work[c].pc # "idle"
    BY <1>2, Zenon DEF TypeInv, Idle
  <2>3. IsWork(t)' <=> \E d \in Client : work'[d].pc # "idle" /\ t = WorkToken(d)'
    BY Zenon DEF IsWork
  <2>4. \A d \in Client : d # c => WorkToken(d)' = WorkToken(d)
    BY <2>1, Zenon DEF WorkToken
  <2>5. \A d \in Client : WorkToken(d) = WorkToken(c) => d = c
    BY DEF WorkToken, Token
  <2> QED
    BY <2>1, <2>2, <2>3, <2>4, <2>5, Zenon DEF IsWork
<1>8. FreeTok(b, o).who = "free" /\ WorkToken(c).who = "work"
  BY DEF FreeTok, WorkToken, Token
<1>9. t \in Tokens' <=> IsFree(t)' \/ IsWasted(t)' \/ IsHeld(t)' \/ IsWork(t)'
  BY MembersLater, Zenon DEF Membership
<1>10. t \in Tokens <=> IsFree(t) \/ IsWasted(t) \/ IsHeld(t) \/ IsWork(t)
  BY Members, Zenon DEF Membership
<1>11. "free" # "held" /\ "free" # "work" /\ "waste" # "held" /\ "waste" # "work" /\ "held" # "work"
  OBVIOUS
<1>12. /\ IsFree(t) \/ IsWasted(t) => t.who \in {"free", "waste"} /\ t # WorkToken(c)
       /\ IsHeld(t) \/ IsWork(t) => t.who \notin {"free", "waste"}
       /\ IsHeld(t) => t # WorkToken(c)
  BY <1>8, <1>11, TokenKinds, Zenon
<1> HIDE DEF Buddy
<1> QED
  BY <1>4, <1>5, <1>6, <1>7, <1>9, <1>10, <1>12, Zenon

(* Between the lists and free_pages a block only changes hands.            *)
LEMMA TokensSteady ==
    ASSUME TypeInv, TypeInv', total' = total, held' = held,
           free_lists' = free_lists, waste_list' = waste_list, NEW c \in Client,
           work[c].pc # "idle", work'[c].pc # "idle",
           work'[c].block = work[c].block, work'[c].order = work[c].order,
           work'[c].count = work[c].count, \A d \in Client : d # c => work'[d] = work[d]
    PROVE  Tokens' = Tokens /\ \A d \in Client : WorkToken(d)' = WorkToken(d)
<1>1. Order' = Order /\ Index' = Index
  BY Same
<1>2. \A d \in Client : WorkToken(d)' = WorkToken(d)
  BY Zenon DEF WorkToken
<1>3. ASSUME NEW t PROVE t \in Tokens' <=> t \in Tokens
  <2>1. IsFree(t)' <=> IsFree(t)
    BY <1>1, Zenon DEF IsFree, In
  <2>2. (IsWasted(t)' <=> IsWasted(t)) /\ (IsHeld(t)' <=> IsHeld(t))
    BY <1>1, Zenon DEF IsWasted, IsHeld
  <2>3. IsWork(t)' <=> IsWork(t)
    <3>1. IsWork(t)' <=> \E d \in Client : work'[d].pc # "idle" /\ t = WorkToken(d)'
      BY Zenon DEF IsWork
    <3> QED
      BY <1>2, <3>1, Zenon DEF IsWork
  <2>4. t \in Tokens' <=> IsFree(t)' \/ IsWasted(t)' \/ IsHeld(t)' \/ IsWork(t)'
    BY MembersLater, Zenon DEF Membership
  <2> QED
    BY <2>1, <2>2, <2>3, <2>4, Members, Zenon DEF Membership
<1> QED
  BY <1>2, <1>3, Zenon

LEMMA TokensHandedOver ==
    ASSUME TypeInv, TypeInv', total' = total, NEW c \in Client, StoreSub(c)
    PROVE  LET h == [block |-> work[c].block, order |-> work[c].order, count |-> work[c].count]
           IN  Tokens' = (Tokens \ {WorkToken(c)}) \cup {HeldTok(c, h)}
<1> DEFINE h == [block |-> work[c].block, order |-> work[c].order, count |-> work[c].count]
<1>1. /\ Order' = Order /\ Index' = Index
      /\ free_lists' = free_lists /\ waste_list' = waste_list
      /\ held' = [held EXCEPT ![c] = @ \cup {h}] /\ work' = [work EXCEPT ![c] = Idle]
      /\ work[c].pc # "idle"
  BY Same DEF StoreSub, blockLists
<1> HIDE DEF h
<1>2. \A d \in Client : /\ held'[d] = IF d = c THEN held[c] \cup {h} ELSE held[d]
                        /\ work'[d] = IF d = c THEN Idle ELSE work[d]
  BY <1>1, Zenon DEF TypeInv
<1>3. work'[c].pc = "idle"
  BY <1>2 DEF Idle
<1>4. ASSUME NEW t PROVE t \in Tokens' <=> (t \in Tokens /\ t # WorkToken(c)) \/ t = HeldTok(c, h)
  <2>1. IsFree(t)' <=> IsFree(t)
    BY <1>1, Zenon DEF IsFree, In
  <2>2. IsWasted(t)' <=> IsWasted(t)
    BY <1>1, Zenon DEF IsWasted
  <2>3. IsHeld(t)' <=> IsHeld(t) \/ t = HeldTok(c, h)
    <3>1. IsHeld(t)' <=> \E d \in Client : \E g \in held'[d] : t = HeldTok(d, g)
      BY Zenon DEF IsHeld, HeldTok
    <3>2. IsHeld(t) <=> \E d \in Client : \E g \in held[d] : t = HeldTok(d, g)
      BY Zenon DEF IsHeld, HeldTok
    <3> QED
      BY <1>2, <3>1, <3>2, Zenon
  <2>4. IsWork(t)' <=> IsWork(t) /\ t # WorkToken(c)
    <3>1. IsWork(t)' <=> \E d \in Client : work'[d].pc # "idle" /\ t = WorkToken(d)'
      BY Zenon DEF IsWork
    <3>2. \A d \in Client : d # c => WorkToken(d)' = WorkToken(d)
      BY <1>2, Zenon DEF WorkToken
    <3>3. \A d \in Client : WorkToken(d) = WorkToken(c) => d = c
      BY DEF WorkToken, Token
    <3> QED
      BY <1>1, <1>2, <1>3, <3>1, <3>2, <3>3, Zenon DEF IsWork
  <2>5. t \in Tokens' <=> IsFree(t)' \/ IsWasted(t)' \/ IsHeld(t)' \/ IsWork(t)'
    BY MembersLater, Zenon DEF Membership
  <2>6. t \in Tokens <=> IsFree(t) \/ IsWasted(t) \/ IsHeld(t) \/ IsWork(t)
    BY Members, Zenon DEF Membership
  <2>7. "work" # "free" /\ "work" # "waste" /\ "work" # "held" /\ WorkToken(c).who = "work"
    BY DEF WorkToken, Token
  <2>8. IsFree(t) \/ IsWasted(t) \/ IsHeld(t) => t # WorkToken(c)
    BY <2>7, TokenKinds, Zenon
  <2> QED
    BY <2>1, <2>2, <2>3, <2>4, <2>5, <2>6, <2>8, Zenon
<1> QED
  BY <1>4, Zenon DEF h

LEMMA TokensTakenBack ==
    ASSUME TypeInv, TypeInv', total' = total, PartInv, NEW c \in Client, LoadForAdd(c), LegalInv
    PROVE  \E h \in held[c] : /\ Tokens' = (Tokens \ {HeldTok(c, h)}) \cup {WorkToken(c)'}
                              /\ WorkToken(c)' = Token("work", c, h.block, h.order, h.count)
                              /\ HeldTok(c, h) \in Tokens
                              /\ work'[c].pc = "add" /\ work'[c].loaded = free_pages
                              /\ \A d \in Client : d # c => work'[d] = work[d]
<1>1. PICK h \in held[c] :
        /\ work' = [work EXCEPT ![c] = [pc |-> "add", block |-> h.block, order |-> h.order,
                                        count |-> h.count, loaded |-> free_pages]]
        /\ held' = [held EXCEPT ![c] = @ \ {h}]
  BY Zenon DEF LoadForAdd
<1>2. /\ Order' = Order /\ Index' = Index
      /\ free_lists' = free_lists /\ waste_list' = waste_list /\ work[c].pc = "idle"
  BY Same DEF LoadForAdd, blockLists
<1>3. \A d \in Client : /\ held'[d] = IF d = c THEN held[c] \ {h} ELSE held[d]
                        /\ d # c => work'[d] = work[d]
  BY <1>1, Zenon DEF TypeInv
<1>4. /\ work'[c].pc = "add" /\ work'[c].block = h.block /\ work'[c].order = h.order
      /\ work'[c].count = h.count /\ work'[c].loaded = free_pages
  BY <1>1, Zenon DEF TypeInv
<1>5. WorkToken(c)' = Token("work", c, h.block, h.order, h.count)
  BY <1>4, Zenon DEF WorkToken
<1>6. work'[c].pc # "idle"
  BY <1>4
<1>7. \A d \in Client : \A g \in held[d] : HeldTok(d, g) = HeldTok(c, h) => d = c /\ g = h
  <2> SUFFICES ASSUME NEW d \in Client, NEW g \in held[d], HeldTok(d, g) = HeldTok(c, h)
               PROVE  d = c /\ g = h
    OBVIOUS
  <2>1. d = c /\ g.block = h.block /\ g.order = h.order /\ g.count = h.count
    BY DEF HeldTok, Token
  <2>2. /\ g \in [block : Index, order : Order, count : 1..MaxRequest]
        /\ h \in [block : Index, order : Order, count : 1..MaxRequest]
    BY Zenon DEF TypeInv
  <2> QED
    BY <2>1, <2>2
<1>8. ASSUME NEW t
      PROVE  t \in Tokens' <=> (t \in Tokens /\ t # HeldTok(c, h)) \/ t = WorkToken(c)'
  <2>1. IsFree(t)' <=> IsFree(t)
    BY <1>2, Zenon DEF IsFree, In
  <2>2. IsWasted(t)' <=> IsWasted(t)
    BY <1>2, Zenon DEF IsWasted
  <2>3. IsHeld(t)' <=> IsHeld(t) /\ t # HeldTok(c, h)
    <3>1. IsHeld(t)' <=> \E d \in Client : \E g \in held'[d] : t = HeldTok(d, g)
      BY Zenon DEF IsHeld, HeldTok
    <3>2. IsHeld(t) <=> \E d \in Client : \E g \in held[d] : t = HeldTok(d, g)
      BY Zenon DEF IsHeld, HeldTok
    <3>3. \A d \in Client : \A g : g \in held'[d] <=> g \in held[d] /\ ~(d = c /\ g = h)
      BY <1>3, Zenon
    <3> QED
      BY <1>7, <3>1, <3>2, <3>3, Zenon
  <2>4. IsWork(t)' <=> IsWork(t) \/ t = WorkToken(c)'
    <3>1. IsWork(t)' <=> \E d \in Client : work'[d].pc # "idle" /\ t = WorkToken(d)'
      BY Zenon DEF IsWork
    <3>2. \A d \in Client : d # c => WorkToken(d)' = WorkToken(d)
      BY <1>3, Zenon DEF WorkToken
    <3>3. ASSUME IsWork(t) PROVE IsWork(t)'
      <4>1. PICK d \in Client : work[d].pc # "idle" /\ t = WorkToken(d)
        BY <3>3, Zenon DEF IsWork
      <4>2. d # c
        BY <1>2, <4>1, Zenon
      <4>3. work'[d].pc # "idle" /\ t = WorkToken(d)'
        BY <1>3, <3>2, <4>1, <4>2, Zenon
      <4> QED
        BY <3>1, <4>3, Zenon
    <3>4. ASSUME IsWork(t)', t # WorkToken(c)' PROVE IsWork(t)
      <4>1. PICK d \in Client : work'[d].pc # "idle" /\ t = WorkToken(d)'
        BY <3>1, <3>4, Zenon
      <4>2. d # c
        BY <3>4, <4>1, Zenon
      <4> QED
        BY <1>3, <3>2, <4>1, <4>2, Zenon DEF IsWork
    <3>5. ASSUME t = WorkToken(c)' PROVE IsWork(t)'
      BY <1>6, <3>1, <3>5, Zenon
    <3> QED
      BY <3>3, <3>4, <3>5
  <2>5. t \in Tokens' <=> IsFree(t)' \/ IsWasted(t)' \/ IsHeld(t)' \/ IsWork(t)'
    BY MembersLater, Zenon DEF Membership
  <2>6. t \in Tokens <=> IsFree(t) \/ IsWasted(t) \/ IsHeld(t) \/ IsWork(t)
    BY Members, Zenon DEF Membership
  <2>7. "held" # "free" /\ "held" # "waste" /\ "held" # "work" /\ HeldTok(c, h).who = "held"
    BY DEF HeldTok, Token
  <2>8. IsFree(t) \/ IsWasted(t) \/ IsWork(t) => t # HeldTok(c, h)
    BY <2>7, TokenKinds, Zenon
  <2> QED
    BY <2>1, <2>2, <2>3, <2>4, <2>5, <2>6, <2>8, Zenon
<1>9. HeldTok(c, h) \in Tokens
  BY Members, Zenon DEF Membership, IsHeld, HeldTok
<1> QED
  BY <1>3, <1>4, <1>5, <1>8, <1>9, Zenon
-----------------------------------------------------------------------------
(* Who covers what, before and after.                                      *)
LEMMA SplitCovers ==
    ASSUME total \in Totals, NEW order \in Order, NEW o \in Order, order <= o,
           NEW b \in Index, Aligned(b, o)
    PROVE  /\ Aligned(b, order) /\ Covers(b, order, b) /\ Covers(b, o, b) /\ b \in Nat
           /\ \A q \in Nat : Covers(b, o, q) <=>
                \/ Covers(b, order, q)
                \/ \E p \in order..(o - 1) : Covers(b + 2^p, p, q)
           /\ \A q \in Nat : \A p \in order..(o - 1) : Covers(b + 2^p, p, q) =>
                /\ ~Covers(b, order, q)
                /\ \A r \in order..(o - 1) : Covers(b + 2^r, r, q) => r = p
<1>1. b \in Nat /\ order \in 0..9 /\ o \in 0..9
  <2>1. b \in Nat /\ Order \subseteq 0..9
    BY EndsInPool, Pool
  <2> QED
    BY <2>1
<1>2. Aligned(b, order) /\ BlockOf(b, order) = b /\ Aligned(b, o) /\ BlockOf(b, o) = b
  BY <1>1, Lefts
<1>3. ASSUME NEW p \in order..(o - 1) PROVE BuddyOf(BlockOf(b, p), p) = b + 2^p
  <2>1. p \in 0..9 /\ p <= o /\ p < o
    BY <1>1
  <2> QED
    BY <1>1, <2>1, Lefts, Zenon
<1>4. Covers(b, order, b) /\ Covers(b, o, b)
  BY <1>1, <1>2, Owner
<1>5. ASSUME NEW q \in Nat
      PROVE  Covers(b, o, q) <=>
                \/ Covers(b, order, q)
                \/ \E p \in order..(o - 1) : Covers(b + 2^p, p, q)
  <2>1. Covers(BlockOf(b, o), o, q) <=>
             \/ Covers(BlockOf(b, order), order, q)
             \/ \E p \in order..(o - 1) : Covers(BuddyOf(BlockOf(b, p), p), p, q)
    BY <1>1, BlockAndBuddies
  <2> QED
    BY <1>2, <1>3, <2>1, Zenon
<1>6. ASSUME NEW q \in Nat, NEW p \in order..(o - 1), Covers(b + 2^p, p, q)
      PROVE  /\ ~Covers(b, order, q)
             /\ \A r \in order..(o - 1) : Covers(b + 2^r, r, q) => r = p
  <2>1. Covers(BuddyOf(BlockOf(b, p), p), p, q)
    BY <1>3, <1>6, Zenon
  <2>2. /\ ~Covers(BlockOf(b, order), order, q)
        /\ \A r \in order..(o - 1) : Covers(BuddyOf(BlockOf(b, r), r), r, q) => r = p
    BY <1>1, <2>1, BuddiesApart
  <2> QED
    BY <1>2, <1>3, <2>2, Zenon
<1> QED
  BY <1>1, <1>2, <1>4, <1>5, <1>6

LEMMA PagesAreNumbers == ASSUME total \in Totals PROVE Index \subseteq Nat
  BY DEF Index

LEMMA PartAllocated ==
    ASSUME BuddyInv, TypeInv', total' = total, held' = held, NEW c \in Client,
           NEW count, NEW order \in Order, NEW o \in Order, NEW b \in Index,
           Granted(c, count, order, o, b)
    PROVE  PartInv'
<1> USE DEF BuddyInv
<1>1. Aligned(b, o) /\ order <= o /\ In(free_lists[o], b) /\ total \in Totals
  BY Zenon DEF Granted, TypeInv
<1> DEFINE N == NewTokens(c, count, order, o, b)
           S == {FreeTok(b, o)}
<1>2. Tokens' = (Tokens \ S) \cup N
  BY TokensAllocated
<1>3. S \in SUBSET Tokens
  BY <1>1, FreeHasToken DEF FreeTok
<1>4. \A q : On(FreeTok(b, o), q) <=> Covers(b, o, q)
  BY Fields, Zenon DEF FreeTok
<1>5. \A q : On(Token("work", c, b, order, count), q) <=> Covers(b, order, q)
  BY Fields, Zenon
<1>6. \A p, q : On(HalfTok(b, p), q) <=> Covers(b + 2^p, p, q)
  BY Fields, Zenon DEF HalfTok
<1>7. ASSUME NEW q \in Index, \E s \in S : On(s, q)
      PROVE  \E n \in N : On(n, q) /\ \A m \in N : On(m, q) => m = n
  <2>1. Covers(b, o, q) /\ q \in Nat
    BY <1>1, <1>4, <1>7, PagesAreNumbers
  <2>2. \A m \in N : m = Token("work", c, b, order, count) \/ \E p \in order..(o - 1) : m = HalfTok(b, p)
    BY Zenon DEF NewTokens
  <2>3. Token("work", c, b, order, count) \in N /\ \A p \in order..(o - 1) : HalfTok(b, p) \in N
    BY Zenon DEF NewTokens
  <2> HIDE DEF N
  <2>4. CASE Covers(b, order, q)
    <3>1. \A p \in order..(o - 1) : ~Covers(b + 2^p, p, q)
      BY <1>1, <2>1, <2>4, SplitCovers, Zenon
    <3>2. On(Token("work", c, b, order, count), q)
      BY <1>5, <2>4, Zenon
    <3>3. ASSUME NEW m \in N, On(m, q) PROVE m = Token("work", c, b, order, count)
      BY <1>6, <2>2, <3>1, <3>3, Zenon
    <3> QED
      BY <2>3, <3>2, <3>3, Zenon
  <2>5. CASE \E p \in order..(o - 1) : Covers(b + 2^p, p, q)
    <3>1. PICK p \in order..(o - 1) : Covers(b + 2^p, p, q)
      BY <2>5
    <3>2. ~Covers(b, order, q) /\ \A r \in order..(o - 1) : Covers(b + 2^r, r, q) => r = p
      <4>1. \A x \in Nat : \A k \in order..(o - 1) : Covers(b + 2^k, k, x) =>
              /\ ~Covers(b, order, x)
              /\ \A r \in order..(o - 1) : Covers(b + 2^r, r, x) => r = k
        BY <1>1, SplitCovers
      <4> QED
        BY <2>1, <3>1, <4>1, Zenon
    <3>3. On(HalfTok(b, p), q) /\ HalfTok(b, p) \in N
      BY <1>6, <2>3, <3>1, Zenon
    <3>4. ASSUME NEW m \in N, On(m, q) PROVE m = HalfTok(b, p)
      BY <1>5, <1>6, <2>2, <3>2, <3>4, Zenon
    <3> QED
      BY <3>3, <3>4, Zenon
  <2> QED
    BY <1>1, <2>1, <2>4, <2>5, SplitCovers, Zenon
<1>8. ASSUME NEW q \in Index, NEW n \in N, On(n, q) PROVE \E s \in S : On(s, q)
  <2>1. q \in Nat
    BY <1>1, PagesAreNumbers
  <2>2. n = Token("work", c, b, order, count) \/ \E p \in order..(o - 1) : n = HalfTok(b, p)
    BY Zenon DEF NewTokens
  <2>3. Covers(b, order, q) \/ \E p \in order..(o - 1) : Covers(b + 2^p, p, q)
    BY <1>5, <1>6, <1>8, <2>2, Zenon
  <2>4. Covers(b, o, q)
    BY <1>1, <2>1, <2>3, SplitCovers, Zenon
  <2> QED
    BY <1>4, <2>4, Zenon
<1>9. Partition(Tokens, Index)
  BY DEF PartInv
<1> HIDE DEF N, S
<1>10. Partition((Tokens \ S) \cup N, Index)
  BY <1>3, <1>7, <1>8, <1>9, Exchange
<1>11. Index' = Index
  BY Same
<1> QED
  BY <1>2, <1>10, <1>11, Zenon DEF PartInv, Partition

LEMMA PartReturned ==
    ASSUME BuddyInv, TypeInv', total' = total, held' = held, NEW c \in Client,
           NEW i \in Index, NEW order \in Order, NEW o \in Order, NEW b \in Index,
           Returned(c, i, order, o, b)
    PROVE  PartInv'
<1> USE DEF BuddyInv
<1>1. /\ Aligned(i, order) /\ order <= o /\ total \in Totals /\ b = BlockOf(i, o)
      /\ work[c].pc # "idle" /\ i = work[c].block /\ order = work[c].order
      /\ \A p \in order..(o - 1) : p \in Order /\ Listed(Bud(i, p), p)
  BY Zenon DEF Granted, TypeInv, Returned
<1> DEFINE N == {FreeTok(b, o)}
           S == GoneTokens(c, i, order, o)
<1>2. Tokens' = (Tokens \ S) \cup N
  BY TokensReturned
<1>3. S \in SUBSET Tokens
  <2>1. WorkToken(c) \in Tokens
    BY <1>1, WorkHasToken
  <2> QED
    BY <2>1 DEF GoneTokens
<1>4. \A q : On(FreeTok(b, o), q) <=> Covers(b, o, q)
  BY Fields, Zenon DEF FreeTok
<1>5. \A q : On(WorkToken(c), q) <=> Covers(i, order, q)
  BY <1>1, Fields, Zenon DEF WorkToken
<1>6. ASSUME NEW q \in Nat
      PROVE  Covers(b, o, q) <=> \/ Covers(i, order, q)
                                 \/ \E p \in order..(o - 1) : Covers(Bud(i, p), p, q)
  <2>1. i \in Nat /\ order \in 0..9 /\ o \in 0..9 /\ order <= order
    BY <1>1, Pool, PagesAreNumbers
  <2>2. BlockOf(i, order) = i
    BY <1>1, <2>1, Lefts
  <2>3. Covers(BlockOf(i, o), o, q) <=>
             \/ Covers(BlockOf(i, order), order, q)
             \/ \E p \in order..(o - 1) : Covers(BuddyOf(BlockOf(i, p), p), p, q)
    BY <1>1, <2>1, BlockAndBuddies
  <2> QED
    BY <1>1, <2>2, <2>3, Zenon DEF Bud
<1>7. ASSUME NEW q \in Index, \E s \in S : On(s, q)
      PROVE  \E n \in N : On(n, q) /\ \A m \in N : On(m, q) => m = n
  <2>1. q \in Nat
    BY <1>1, PagesAreNumbers
  <2>2. PICK s \in S : On(s, q)
    BY <1>7
  <2>3. \/ s = WorkToken(c)
        \/ \E p \in order..(o - 1) : s.block = Bud(i, p) /\ s.order = p
    BY Zenon DEF GoneTokens
  <2>4. Covers(i, order, q) \/ \E p \in order..(o - 1) : Covers(Bud(i, p), p, q)
    BY <1>5, <2>2, <2>3, Zenon DEF On
  <2> QED
    BY <1>4, <1>6, <2>1, <2>4, Zenon
<1>8. ASSUME NEW q \in Index, NEW n \in N, On(n, q) PROVE \E s \in S : On(s, q)
  <2>1. q \in Nat
    BY <1>1, PagesAreNumbers
  <2>2. Covers(i, order, q) \/ \E p \in order..(o - 1) : Covers(Bud(i, p), p, q)
    BY <1>4, <1>6, <1>8, <2>1, Zenon
  <2>3. CASE Covers(i, order, q)
    BY <1>5, <2>3, Zenon DEF GoneTokens
  <2>4. CASE \E p \in order..(o - 1) : Covers(Bud(i, p), p, q)
    <3>1. PICK p \in order..(o - 1) : Covers(Bud(i, p), p, q)
      BY <2>4
    <3>2. PICK t \in Tokens : t.who \in {"free", "waste"} /\ t.block = Bud(i, p) /\ t.order = p
      BY <1>1, ListedHasToken
    <3>3. t \in S
      BY <3>2, Zenon DEF GoneTokens
    <3>4. On(t, q)
      BY <3>1, <3>2, Zenon DEF On
    <3> QED
      BY <3>3, <3>4, Zenon
  <2> QED
    BY <2>2, <2>3, <2>4
<1>9. Partition(Tokens, Index)
  BY DEF PartInv
<1> HIDE DEF N, S
<1>10. Partition((Tokens \ S) \cup N, Index)
  BY <1>3, <1>7, <1>8, <1>9, Exchange
<1>11. Index' = Index
  BY Same
<1> QED
  BY <1>2, <1>10, <1>11, Zenon DEF PartInv, Partition

(* A client that takes over its own block.                                 *)
LEMMA Swapped ==
    ASSUME TypeInv, LegalInv, RequestInv, PartInv, total' = total,
           NEW t \in Tokens, NEW u, Tokens' = (Tokens \ {t}) \cup {u},
           t.who \in {"held", "work"}, u.who \in {"held", "work"},
           u.block = t.block, u.order = t.order, u.count = t.count
    PROVE  LegalInv' /\ RequestInv' /\ PartInv'
<1>1. /\ MaxOrder' = MaxOrder /\ Order' = Order /\ Index' = Index /\ Ws' = Ws
      /\ \A i : IsWaste(i)' <=> IsWaste(i)
  BY Same
<1>2. t.who # "waste" /\ t.who # "free" /\ u.who # "waste"
  OBVIOUS
<1>3. ASSUME NEW x \in Tokens'
      PROVE  /\ Aligned(x.block, x.order) /\ x.order \in Order /\ x.block \in Index
             /\ x.who = "waste" => IsWaste(x.block)
             /\ x.who # "waste" => x.block < Ws \/ (x.who = "free" /\ x.order = MaxOrder)
  <2>1. CASE x \in Tokens
    BY <2>1, Zenon DEF LegalInv
  <2>2. CASE x = u
    BY <1>2, <2>2, Zenon DEF LegalInv
  <2> QED
    BY <2>1, <2>2
<1>4. LegalInv'
  BY <1>1, <1>3, Zenon DEF LegalInv
<1>5. ASSUME NEW x \in Tokens', x.who \in {"held", "work"}
      PROVE  /\ x.count \in 1..MaxRequest /\ x.order = GetOrder(x.count)
             /\ ~IsWaste(x.block + x.count - 1)
  <2>1. CASE x \in Tokens
    BY <1>5, <2>1, Zenon DEF RequestInv
  <2>2. CASE x = u
    BY <2>2, Zenon DEF RequestInv
  <2> QED
    BY <2>1, <2>2
<1>6. RequestInv'
  BY <1>1, <1>5, Zenon DEF RequestInv
<1>7. Partition((Tokens \ {t}) \cup {u}, Index)
  <2>1. \A q : On(u, q) <=> On(t, q)
    BY Zenon DEF On
  <2>2. Partition(Tokens, Index) /\ {t} \in SUBSET Tokens
    BY DEF PartInv
  <2>3. \A q \in Index : (\E s \in {t} : On(s, q)) =>
                \E n \in {u} : On(n, q) /\ \A m \in {u} : On(m, q) => m = n
    BY <2>1, Zenon
  <2>4. \A q \in Index, n \in {u} : On(n, q) => \E s \in {t} : On(s, q)
    BY <2>1, Zenon
  <2> QED
    BY <2>2, <2>3, <2>4, Exchange
<1> QED
  BY <1>1, <1>4, <1>6, <1>7, Zenon DEF PartInv, Partition
-----------------------------------------------------------------------------
(* buddy_allocate keeps the books.                                         *)
LEMMA NonEmpty ==
    ASSUME NEW S, NEW s \in Seq(S)
    PROVE  s # <<>> <=> \E x : In(s, x)
<1>1. Len(s) \in Nat /\ DOMAIN s = 1..Len(s)
  BY LenProperties
<1>2. ASSUME s # <<>> PROVE In(s, s[1])
  <2>1. 1 \in DOMAIN s
    BY <1>1, <1>2, EmptySeq
  <2> QED
    BY <2>1 DEF In
<1>3. ASSUME s = <<>>, NEW x, In(s, x) PROVE FALSE
  BY <1>3 DEF In
<1> QED
  BY <1>2, <1>3

LEMMA BooksAllocated ==
    ASSUME BuddyInv, TypeInv', total' = total, held' = held, NEW c \in Client,
           NEW count \in 1..MaxRequest, NEW order \in Order, NEW o \in Order, NEW b \in Index,
           Granted(c, count, order, o, b)
    PROVE  UniqueInv' /\ LegalInv' /\ RequestInv' /\ MergedInv' /\ TopInv'
<1> USE DEF BuddyInv
<1>1. /\ Aligned(b, o) /\ order <= o /\ In(free_lists[o], b) /\ total \in Totals /\ b < Ws
      /\ order = GetOrder(count) /\ ~IsWaste(b + count - 1)
      /\ MaxOrder \in 1..9 /\ Order = 0..MaxOrder
      /\ free_lists \in [Order -> Seq(Index)] /\ free_lists' \in [Order -> Seq(Index)]
  BY Pool, Zenon DEF Granted, TypeInv, Order
<1>2. /\ \A p \in Order :
           /\ Unique(free_lists'[p])
           /\ \A x : In(free_lists'[p], x) <=>
                \/ In(free_lists[p], x) /\ ~(p = o /\ x = b)
                \/ p \in order..(o - 1) /\ x = b + 2^p /\ ~IsWaste(x)
      /\ waste_list' = waste_list \cup SplitWaste(b, o, order)
      /\ max_order_free' = Lowered(free_lists', max_order_free)
  BY Zenon DEF Granted
<1>3. /\ MaxOrder' = MaxOrder /\ Order' = Order /\ Index' = Index /\ Ws' = Ws
      /\ \A i : IsWaste(i)' <=> IsWaste(i)
  BY Same
<1>4. Tokens' = (Tokens \ {FreeTok(b, o)}) \cup NewTokens(c, count, order, o, b)
  BY TokensAllocated
<1>5. UniqueInv'
  BY <1>2, <1>3, Zenon DEF UniqueInv
<1>6. ASSUME NEW p \in order..(o - 1)
      PROVE  /\ p \in Order /\ p # o /\ p < MaxOrder /\ Aligned(b + 2^p, p) /\ b + 2^p \in Index
             /\ b + 2^p < Ws \/ IsWaste(b + 2^p)
             /\ BuddyOf(b + 2^p, p) = b /\ b + 2^p # b
             /\ Covers(b, p, b)
  <2>1. p \in 0..(o - 1) /\ p # o /\ p < MaxOrder /\ p \in 0..9 /\ p <= o
    BY <1>1
  <2>2. /\ p \in Order /\ Aligned(b + 2^p, p) /\ b + 2^p \in Index
        /\ b + 2^p < Ws \/ IsWaste(b + 2^p)
        /\ BuddyOf(b + 2^p, p) = b /\ b + 2^p # b
    BY <1>1, <2>1, RightHalf, SMTT(30)
  <2>3. Covers(b, p, b)
    BY <1>1, <2>1, <2>2, SplitCovers
  <2> QED
    BY <2>1, <2>2, <2>3
<1>7. ASSUME NEW t \in Tokens'
      PROVE  \/ t \in Tokens
             \/ /\ t.who = "work" /\ t.block = b /\ t.order = order /\ t.count = count
             \/ \E p \in order..(o - 1) : /\ t.who = IF IsWaste(b + 2^p) THEN "waste" ELSE "free"
                                          /\ t.block = b + 2^p /\ t.order = p
  <2>1. \/ t \in Tokens
        \/ t = Token("work", c, b, order, count)
        \/ \E p \in order..(o - 1) : t = HalfTok(b, p)
    BY <1>4, Zenon DEF NewTokens
  <2>2. CASE t = Token("work", c, b, order, count)
    BY <2>2 DEF Token
  <2>3. CASE \E p \in order..(o - 1) : t = HalfTok(b, p)
    <3>1. PICK p \in order..(o - 1) : t = HalfTok(b, p)
      BY <2>3
    <3>2. t.who = (IF IsWaste(b + 2^p) THEN "waste" ELSE "free") /\ t.block = b + 2^p /\ t.order = p
      BY <3>1 DEF HalfTok, Token
    <3> QED
      BY <3>2, Zenon
  <2> QED
    BY <2>1, <2>2, <2>3
<1>8. LegalInv'
  <2>1. ASSUME NEW x \in Tokens'
        PROVE  /\ Aligned(x.block, x.order) /\ x.order \in Order /\ x.block \in Index
               /\ x.who = "waste" => IsWaste(x.block)
               /\ x.who # "waste" => x.block < Ws \/ (x.who = "free" /\ x.order = MaxOrder)
    <3>1. CASE x \in Tokens
      BY <3>1, Zenon DEF LegalInv
    <3>2. CASE x.who = "work" /\ x.block = b /\ x.order = order /\ x.count = count
      <4>1. Aligned(b, order)
        BY <1>1, SplitCovers
      <4>2. x.who # "waste"
        BY <3>2
      <4> QED
        BY <1>1, <3>2, <4>1, <4>2, Zenon
    <3>3. CASE \E p \in order..(o - 1) : /\ x.who = IF IsWaste(b + 2^p) THEN "waste" ELSE "free"
                                         /\ x.block = b + 2^p /\ x.order = p
      <4>1. PICK p \in order..(o - 1) : /\ x.who = IF IsWaste(b + 2^p) THEN "waste" ELSE "free"
                                        /\ x.block = b + 2^p /\ x.order = p
        BY <3>3
      <4>2. x.who = "waste" <=> IsWaste(b + 2^p)
        BY <4>1
      <4> QED
        BY <1>6, <4>1, <4>2, Zenon
    <3> QED
      BY <1>7, <3>1, <3>2, <3>3
  <2> QED
    BY <1>3, <2>1, Zenon DEF LegalInv
<1>9. RequestInv'
  <2>1. ASSUME NEW x \in Tokens', x.who \in {"held", "work"}
        PROVE  /\ x.count \in 1..MaxRequest /\ x.order = GetOrder(x.count)
               /\ ~IsWaste(x.block + x.count - 1)
    <3>1. CASE x \in Tokens
      BY <2>1, <3>1, Zenon DEF RequestInv
    <3>2. CASE x.who = "work" /\ x.block = b /\ x.order = order /\ x.count = count
      BY <1>1, <3>2, Zenon
    <3>3. ~(\E p \in order..(o - 1) : x.who = IF IsWaste(b + 2^p) THEN "waste" ELSE "free")
      BY <2>1
    <3> QED
      BY <1>7, <3>1, <3>2, <3>3
  <2> QED
    BY <1>3, <2>1, Zenon DEF RequestInv
<1>10. ASSUME NEW p \in Order, NEW x
       PROVE  Listed(x, p)' => Listed(x, p) \/ (p \in order..(o - 1) /\ x = b + 2^p)
  <2>1. Listed(x, p) <=> In(free_lists[p], x) \/ [block |-> x, order |-> p] \in waste_list
    BY Zenon DEF Listed, In
  <2>2. Listed(x, p)' <=> In(free_lists'[p], x) \/ [block |-> x, order |-> p] \in waste_list'
    BY Zenon DEF Listed, In
  <2>3. [block |-> x, order |-> p] \in SplitWaste(b, o, order) => p \in order..(o - 1) /\ x = b + 2^p
    BY DEF SplitWaste
  <2> QED
    BY <1>2, <2>1, <2>2, <2>3, Zenon
<1>11. ASSUME NEW p \in order..(o - 1), Listed(b, p) PROVE FALSE
  <2>1. PICK t \in Tokens : t.block = b /\ t.order = p
    BY <1>6, <1>11, ListedHasToken
  <2>2. On(t, b)
    BY <1>6, <2>1, Zenon DEF On
  <2>3. FreeTok(b, o) \in Tokens
    BY <1>1, FreeHasToken DEF FreeTok
  <2>4. FreeTok(b, o).block = b /\ FreeTok(b, o).order = o
    BY DEF FreeTok, Token
  <2>5. On(FreeTok(b, o), b)
    BY <1>1, <2>4, SplitCovers DEF On
  <2>6. t = FreeTok(b, o)
    BY <2>1, <2>2, <2>3, <2>5, Alone
  <2> QED
    BY <1>6, <2>1, <2>4, <2>6
<1>12. MergedInv'
  <2>1. ASSUME NEW x \in Index, NEW p \in Order, Listed(x, p)', p < MaxOrder, Listed(BuddyOf(x, p), p)'
        PROVE  FALSE
    <3>1. CASE p \in order..(o - 1) /\ x = b + 2^p
      <4>1. BuddyOf(x, p) = b /\ b # b + 2^p
        BY <1>6, <3>1
      <4>2. Listed(b, p)
        BY <1>10, <2>1, <4>1, Zenon
      <4> QED
        BY <1>11, <3>1, <4>2
    <3>2. CASE Listed(x, p)
      <4>1. Aligned(x, p) /\ p < 9
        BY <1>1, <2>1, <3>2, ListedHasToken
      <4>2. BuddyOf(BuddyOf(x, p), p) = x
        BY <4>1, Buddies
      <4>3. CASE Listed(BuddyOf(x, p), p)
        BY <2>1, <3>2, <4>3, Zenon DEF MergedInv
      <4>4. CASE p \in order..(o - 1) /\ BuddyOf(x, p) = b + 2^p
        <5>1. x = b
          BY <1>6, <4>2, <4>4
        <5> QED
          BY <1>11, <3>2, <4>4, <5>1
      <4> QED
        BY <1>10, <2>1, <4>3, <4>4
    <3> QED
      BY <1>10, <2>1, <3>1, <3>2
  <2>2. \A x, p : BuddyOf(x, p)' = BuddyOf(x, p)
    OBVIOUS
  <2> QED
    BY <1>3, <2>1, Zenon DEF MergedInv
<1>13. TopInv'
  <2>1. /\ max_order_free \in 0..9 /\ \A p \in Order : free_lists[p] # <<>> => p <= max_order_free
    <3>1. max_order_free \in Order
      BY Zenon DEF TypeInv
    <3>2. \A p \in Order : free_lists[p] # <<>> => p <= max_order_free
      BY Zenon DEF TopInv
    <3> QED
      BY <1>1, <3>1, <3>2
  <2>2. ASSUME NEW p \in Order, free_lists'[p] # <<>> PROVE p <= max_order_free
    <3>1. PICK x : In(free_lists'[p], x)
      BY <1>1, <2>2, NonEmpty
    <3>2. CASE In(free_lists[p], x)
      <4>1. free_lists[p] # <<>>
        BY <1>1, <3>2, NonEmpty
      <4> QED
        BY <2>1, <4>1
    <3>3. CASE p \in order..(o - 1)
      <4>1. free_lists[o] # <<>>
        BY <1>1, NonEmpty
      <4> QED
        BY <1>1, <2>1, <3>3, <4>1
    <3> QED
      BY <1>2, <3>1, <3>2, <3>3
  <2> DEFINE S == {p \in 0..max_order_free : free_lists'[p] # <<>>}
  <2>3. max_order_free' = IF S = {} THEN 0 ELSE CHOOSE p \in S : \A q \in S : q <= p
    BY <1>2, Zenon DEF Lowered
  <2>4. \A p \in Order : free_lists'[p] # <<>> => p \in S
    BY <1>1, <2>1, <2>2
  <2>5. S \subseteq 0..max_order_free /\ S \subseteq Nat
    BY <2>1
  <2>6. \A p \in S : free_lists'[p] # <<>>
    OBVIOUS
  <2> HIDE DEF S
  <2>7. CASE S = {}
    BY <1>3, <2>3, <2>4, <2>7, Zenon DEF TopInv
  <2>8. CASE S # {}
    <3>1. PICK m \in S : \A q \in S : m >= q
      <4>1. max_order_free \in Nat
        BY <2>1
      <4> QED
        BY <2>5, <2>8, <4>1, Greatest, Zenon
    <3>2. \A q \in S : q <= m
      BY <2>5, <3>1
    <3>3. max_order_free' \in S /\ \A q \in S : q <= max_order_free'
      BY <2>3, <2>8, <3>2, Zenon
    <3> QED
      BY <1>3, <2>4, <2>6, <3>3, Zenon DEF TopInv
  <2> QED
    BY <2>7, <2>8
<1> QED
  BY <1>5, <1>8, <1>9, <1>12, <1>13

(* buddy_deallocate keeps the books.                                       *)
LEMMA BooksReturned ==
    ASSUME BuddyInv, TypeInv', total' = total, held' = held, NEW c \in Client,
           NEW i \in Index, NEW order \in Order, NEW o \in Order, NEW b \in Index,
           Returned(c, i, order, o, b)
    PROVE  UniqueInv' /\ LegalInv' /\ RequestInv' /\ MergedInv' /\ TopInv'
<1> USE DEF BuddyInv
<1>1. /\ Aligned(b, o) /\ order <= o /\ total \in Totals /\ i < Ws /\ b <= i
      /\ MaxOrder \in 1..9 /\ Order = 0..MaxOrder
      /\ free_lists \in [Order -> Seq(Index)] /\ free_lists' \in [Order -> Seq(Index)]
  BY Pool, Zenon DEF Returned, TypeInv, Order
<1>2. /\ \A p \in Order :
           /\ Unique(free_lists'[p])
           /\ \A x : In(free_lists'[p], x) <=>
                \/ In(free_lists[p], x) /\ ~(p \in order..(o - 1) /\ x = Bud(i, p))
                \/ p = o /\ x = b
      /\ \A w : w \in waste_list' => w \in waste_list
      /\ max_order_free' = Max({max_order_free, o})
      /\ o < MaxOrder => ~Listed(BuddyOf(b, o), o)
  BY Zenon DEF Returned
<1>3. /\ MaxOrder' = MaxOrder /\ Order' = Order /\ Index' = Index /\ Ws' = Ws
      /\ \A x : IsWaste(x)' <=> IsWaste(x)
  BY Same
<1>4. Tokens' = (Tokens \ GoneTokens(c, i, order, o)) \cup {FreeTok(b, o)}
  BY TokensReturned
<1>5. UniqueInv'
  BY <1>2, <1>3, Zenon DEF UniqueInv
<1>6. FreeTok(b, o).who = "free" /\ FreeTok(b, o).block = b /\ FreeTok(b, o).order = o
  BY DEF FreeTok, Token
<1>7. b < Ws
  <2>1. Ws \in Nat /\ i \in Nat /\ b \in Nat
    BY <1>1, Pool, PagesAreNumbers DEF Ws
  <2> QED
    BY <1>1, <2>1
<1>8. LegalInv'
  <2>1. ASSUME NEW x \in Tokens'
        PROVE  /\ Aligned(x.block, x.order) /\ x.order \in Order /\ x.block \in Index
               /\ x.who = "waste" => IsWaste(x.block)
               /\ x.who # "waste" => x.block < Ws \/ (x.who = "free" /\ x.order = MaxOrder)
    <3>1. CASE x \in Tokens
      BY <3>1, Zenon DEF LegalInv
    <3>2. CASE x = FreeTok(b, o)
      BY <1>1, <1>6, <1>7, <3>2
    <3> QED
      BY <1>4, <3>1, <3>2
  <2> QED
    BY <1>3, <2>1, Zenon DEF LegalInv
<1>9. RequestInv'
  <2>1. ASSUME NEW x \in Tokens', x.who \in {"held", "work"}
        PROVE  x \in Tokens
    BY <1>4, <1>6, <2>1
  <2> QED
    BY <1>3, <2>1, Zenon DEF RequestInv
<1>10. ASSUME NEW p \in Order, NEW x
       PROVE  Listed(x, p)' => Listed(x, p) \/ (p = o /\ x = b)
  <2>1. Listed(x, p) <=> In(free_lists[p], x) \/ [block |-> x, order |-> p] \in waste_list
    BY Zenon DEF Listed, In
  <2>2. Listed(x, p)' <=> In(free_lists'[p], x) \/ [block |-> x, order |-> p] \in waste_list'
    BY Zenon DEF Listed, In
  <2> QED
    BY <1>2, <2>1, <2>2
<1>11. MergedInv'
  <2>1. ASSUME NEW x \in Index, NEW p \in Order, Listed(x, p)', p < MaxOrder, Listed(BuddyOf(x, p), p)'
        PROVE  FALSE
    <3>1. p < 9 /\ p \in 0..9
      BY <1>1, <2>1, SMTT(60)
    <3>2. CASE p = o /\ x = b
      <4>1. BuddyOf(b, o) # b
        BY <1>1, <3>1, <3>2, Buddies
      <4>2. Listed(BuddyOf(b, o), o)
        BY <1>10, <2>1, <3>2, <4>1, Zenon
      <4> QED
        BY <1>2, <2>1, <3>2, <4>2, Zenon
    <3>3. CASE Listed(x, p)
      <4>1. Aligned(x, p)
        BY <3>3, ListedHasToken
      <4>2. BuddyOf(BuddyOf(x, p), p) = x
        BY <3>1, <4>1, Buddies
      <4>3. CASE Listed(BuddyOf(x, p), p)
        BY <2>1, <3>3, <4>3, Zenon DEF MergedInv
      <4>4. CASE p = o /\ BuddyOf(x, p) = b
        BY <1>2, <2>1, <3>3, <4>2, <4>4, Zenon
      <4> QED
        BY <1>10, <2>1, <4>3, <4>4
    <3> QED
      BY <1>10, <2>1, <3>2, <3>3
  <2>2. \A x, p : BuddyOf(x, p)' = BuddyOf(x, p)
    OBVIOUS
  <2> QED
    BY <1>3, <2>1, Zenon DEF MergedInv
<1>12. TopInv'
  <2>1. /\ max_order_free \in Order
        /\ \A p \in Order : free_lists[p] # <<>> => p <= max_order_free
        /\ max_order_free # 0 => free_lists[max_order_free] # <<>>
    BY Zenon DEF TypeInv, TopInv
  <2>2. /\ max_order_free' \in {max_order_free, o}
        /\ max_order_free <= max_order_free' /\ o <= max_order_free'
    <3> DEFINE S == {max_order_free, o}
    <3>1. \E m \in S : \A k \in S : m >= k
      BY <1>1, <2>1
    <3>2. Max(S) \in S /\ \A k \in S : Max(S) >= k
      BY <3>1, Zenon DEF Max
    <3> QED
      BY <1>1, <1>2, <2>1, <3>2
  <2>3. ASSUME NEW p \in Order, free_lists'[p] # <<>> PROVE p <= max_order_free'
    <3>1. PICK x : In(free_lists'[p], x)
      BY <1>1, <2>3, NonEmpty
    <3>2. CASE In(free_lists[p], x)
      <4>1. free_lists[p] # <<>>
        BY <1>1, <3>2, NonEmpty
      <4> QED
        BY <1>1, <2>1, <2>2, <4>1
    <3> QED
      BY <1>2, <2>2, <3>1, <3>2
  <2>4. ASSUME max_order_free' # 0 PROVE free_lists'[max_order_free'] # <<>>
    <3>1. CASE max_order_free' = o
      <4>1. In(free_lists'[o], b)
        BY <1>2
      <4> QED
        BY <1>1, <3>1, <4>1, NonEmpty
    <3>2. CASE max_order_free' = max_order_free /\ max_order_free # o
      <4>1. free_lists[max_order_free] # <<>> /\ max_order_free \notin order..(o - 1)
        BY <1>1, <2>1, <2>2, <2>4, <3>2
      <4>2. PICK x : In(free_lists[max_order_free], x)
        BY <1>1, <2>1, <4>1, NonEmpty
      <4>3. In(free_lists'[max_order_free], x)
        BY <1>2, <2>1, <4>1, <4>2, Zenon
      <4> QED
        BY <1>1, <2>1, <3>2, <4>3, NonEmpty
    <3> QED
      BY <2>2, <3>1, <3>2
  <2> QED
    BY <1>3, <2>3, <2>4, Zenon DEF TopInv
<1> QED
  BY <1>5, <1>8, <1>9, <1>11, <1>12
-----------------------------------------------------------------------------
(* The invariant of the block lists.                                       *)
LEMMA TokensUntouched ==
    ASSUME UNCHANGED <<total, free_lists, waste_list, held, work>>
    PROVE  Tokens' = Tokens
<1>1. Order' = Order /\ Busy' = Busy
  BY Same DEF Busy
<1>2. FreeTokens' = FreeTokens
  BY <1>1 DEF FreeTokens
<1>3. WasteTokens' = WasteTokens /\ HeldTokens' = HeldTokens
  BY DEF WasteTokens, HeldTokens
<1>4. WorkTokens' = WorkTokens
  BY <1>1, Zenon DEF WorkTokens, WorkToken
<1> QED
  BY <1>2, <1>3, <1>4, Zenon DEF Tokens

(* Lists that nobody touches stay as they are.                             *)
LEMMA ListsUntouched ==
    ASSUME UniqueInv, MergedInv, TopInv, UNCHANGED <<total, free_lists, waste_list, max_order_free>>
    PROVE  UniqueInv' /\ MergedInv' /\ TopInv'
<1>1. MaxOrder' = MaxOrder /\ Order' = Order /\ Index' = Index
  BY Same
<1>2. \A b, o : Listed(b, o)' <=> Listed(b, o)
  BY Zenon DEF Listed
<1>3. UniqueInv'
  BY <1>1, Zenon DEF UniqueInv
<1>4. MergedInv'
  BY <1>1, <1>2, Zenon DEF MergedInv
<1>5. TopInv'
  BY <1>1, Zenon DEF TopInv
<1> QED
  BY <1>3, <1>4, <1>5

LEMMA TokensSame ==
    ASSUME LegalInv, RequestInv, PartInv, total' = total, Tokens' = Tokens
    PROVE  LegalInv' /\ RequestInv' /\ PartInv'
<1>1. /\ MaxOrder' = MaxOrder /\ Order' = Order /\ Index' = Index /\ Ws' = Ws
      /\ \A x : IsWaste(x)' <=> IsWaste(x)
  BY Same
<1>2. LegalInv'
  BY <1>1, Zenon DEF LegalInv
<1>3. RequestInv'
  BY <1>1, Zenon DEF RequestInv
<1>4. PartInv'
  BY <1>1, Zenon DEF PartInv, Partition
<1> QED
  BY <1>2, <1>3, <1>4

LEMMA BuddyInvNext == BuddyInv /\ [Next]_vars => BuddyInv'
<1> SUFFICES ASSUME BuddyInv, [Next]_vars PROVE BuddyInv'
  OBVIOUS
<1>1. TypeInv'
  BY TypesKept
<1>2. TypeInv /\ UniqueInv /\ LegalInv /\ RequestInv /\ PartInv /\ MergedInv /\ TopInv
  BY DEF BuddyInv
<1> DEFINE Rest == UniqueInv' /\ LegalInv' /\ RequestInv' /\ PartInv' /\ MergedInv' /\ TopInv'
<1> SUFFICES Rest
  BY <1>1 DEF BuddyInv
<1>3. CASE UNCHANGED vars
  <2>1. UNCHANGED <<total, free_lists, waste_list, max_order_free, held, work>>
    BY <1>3 DEF vars, blockLists
  <2>2. Tokens' = Tokens
    BY <2>1, TokensUntouched
  <2> QED
    BY <1>2, <2>1, <2>2, ListsUntouched, TokensSame
<1>4. ASSUME NEW c \in Client, Allocate(c) PROVE Rest
  <2>1. PICK count \in 1..MaxRequest, order \in Order, o \in Order, b \in Index :
          Granted(c, count, order, o, b)
    BY <1>4, AllocateGrants
  <2>2. total' = total /\ held' = held
    BY <1>4 DEF Allocate
  <2> QED
    BY <1>1, <2>1, <2>2, BooksAllocated, PartAllocated
<1>5. ASSUME NEW c \in Client, AllocateFails(c) PROVE Rest
  <2>1. UNCHANGED <<total, free_lists, waste_list, max_order_free, held, work>>
    BY <1>5 DEF AllocateFails, blockLists
  <2>2. Tokens' = Tokens
    BY <2>1, TokensUntouched
  <2> QED
    BY <1>2, <2>1, <2>2, ListsUntouched, TokensSame
<1>6. ASSUME NEW c \in Client, LoadForSub(c) PROVE Rest
  <2>1. /\ UNCHANGED <<total, free_lists, waste_list, max_order_free, held>>
        /\ work[c].pc = "allocated"
        /\ work' = [work EXCEPT ![c].pc = "subtract", ![c].loaded = free_pages]
    BY <1>6 DEF LoadForSub, blockLists
  <2>2. /\ work'[c].pc = "subtract" /\ work'[c].block = work[c].block
        /\ work'[c].order = work[c].order /\ work'[c].count = work[c].count
        /\ \A d \in Client : d # c => work'[d] = work[d]
    BY <1>2, <2>1, Zenon DEF TypeInv
  <2>3. Tokens' = Tokens
    BY <1>1, <1>2, <2>1, <2>2, TokensSteady
  <2> QED
    BY <1>2, <2>1, <2>3, ListsUntouched, TokensSame
<1>7. ASSUME NEW c \in Client, StoreSub(c) PROVE Rest
  <2> DEFINE h == [block |-> work[c].block, order |-> work[c].order, count |-> work[c].count]
  <2>1. UNCHANGED <<total, free_lists, waste_list, max_order_free>> /\ work[c].pc # "idle"
    BY <1>7 DEF StoreSub, blockLists
  <2>2. Tokens' = (Tokens \ {WorkToken(c)}) \cup {HeldTok(c, h)}
    BY <1>1, <1>2, <1>7, <2>1, TokensHandedOver
  <2>3. WorkToken(c) \in Tokens
    BY <1>2, <2>1, WorkHasToken
  <2>4. /\ WorkToken(c).who = "work" /\ HeldTok(c, h).who = "held"
        /\ HeldTok(c, h).block = WorkToken(c).block /\ HeldTok(c, h).order = WorkToken(c).order
        /\ HeldTok(c, h).count = WorkToken(c).count
    BY DEF WorkToken, HeldTok, Token
  <2> HIDE DEF h
  <2>5. LegalInv' /\ RequestInv' /\ PartInv'
    BY <1>2, <2>1, <2>2, <2>3, <2>4, Swapped
  <2> QED
    BY <1>2, <2>1, <2>5, ListsUntouched
<1>8. ASSUME NEW c \in Client, LoadForAdd(c) PROVE Rest
  <2>1. UNCHANGED <<total, free_lists, waste_list, max_order_free>>
    BY <1>8 DEF LoadForAdd, blockLists
  <2>2. PICK h \in held[c] : /\ Tokens' = (Tokens \ {HeldTok(c, h)}) \cup {WorkToken(c)'}
                             /\ WorkToken(c)' = Token("work", c, h.block, h.order, h.count)
                             /\ HeldTok(c, h) \in Tokens
    BY <1>1, <1>2, <1>8, <2>1, TokensTakenBack
  <2> DEFINE u == Token("work", c, h.block, h.order, h.count)
  <2>3. /\ u.who = "work" /\ HeldTok(c, h).who = "held"
        /\ u.block = HeldTok(c, h).block /\ u.order = HeldTok(c, h).order
        /\ u.count = HeldTok(c, h).count
    BY DEF HeldTok, Token
  <2>4. Tokens' = (Tokens \ {HeldTok(c, h)}) \cup {u}
    BY <2>2
  <2> HIDE DEF u
  <2>5. LegalInv' /\ RequestInv' /\ PartInv'
    BY <1>2, <2>1, <2>2, <2>3, <2>4, Swapped
  <2> QED
    BY <1>2, <2>1, <2>5, ListsUntouched
<1>9. ASSUME NEW c \in Client, StoreAdd(c) PROVE Rest
  <2>1. /\ UNCHANGED <<total, free_lists, waste_list, max_order_free, held>>
        /\ work[c].pc = "add"
        /\ work' = [work EXCEPT ![c].pc = "merge", ![c].loaded = 0]
    BY <1>9 DEF StoreAdd, blockLists
  <2>2. /\ work'[c].pc = "merge" /\ work'[c].block = work[c].block
        /\ work'[c].order = work[c].order /\ work'[c].count = work[c].count
        /\ \A d \in Client : d # c => work'[d] = work[d]
    BY <1>2, <2>1, Zenon DEF TypeInv
  <2>3. Tokens' = Tokens
    BY <1>1, <1>2, <2>1, <2>2, TokensSteady
  <2> QED
    BY <1>2, <2>1, <2>3, ListsUntouched, TokensSame
<1>10. ASSUME NEW c \in Client, FreeBlock(c) PROVE Rest
  <2>1. PICK i \in Index, order \in Order, o \in Order, b \in Index : Returned(c, i, order, o, b)
    BY <1>10, FreeBlockReturns
  <2>2. total' = total /\ held' = held
    BY <1>10 DEF FreeBlock
  <2> QED
    BY <1>1, <2>1, <2>2, BooksReturned, PartReturned
<1> QED
  BY <1>3, <1>4, <1>5, <1>6, <1>7, <1>8, <1>9, <1>10 DEF Next

LEMMA BuddyInvInit == BuddyInit => BuddyInv
<1> SUFFICES ASSUME BuddyInit PROVE BuddyInv
  OBVIOUS
<1>1. /\ total \in Totals
      /\ free_lists = [o \in Order |-> IF o = MaxOrder THEN <<0>> ELSE <<>>]
      /\ waste_list = {} /\ max_order_free = MaxOrder /\ free_pages = Pages
      /\ held = [c \in Client |-> {}] /\ work = [c \in Client |-> Idle]
      /\ refused = 0 /\ races = 0
  BY DEF BuddyInit
<1>2. /\ MaxOrder \in 1..9 /\ MaxOrder \in 0..9 /\ MaxOrder \in Order /\ MaxOrder # 0
      /\ Pages \in 1..511 /\ MaxRequest \in 1..512 /\ MaxRaces \in Nat
      /\ Order = 0..MaxOrder /\ Order \subseteq 0..9
  <2>1. MaxOrder \in 1..9 /\ Pages \in 1..511 /\ Order \subseteq 0..9
    BY <1>1, Pool
  <2> QED
    BY <2>1, BuddyAssumption DEF Order
<1>3. 2^MaxOrder \in Sizes /\ 2^MaxOrder \in 1..512
  <2>1. MaxOrder \in 0..9
    BY <1>2
  <2> QED
    BY <2>1, Sized, Zenon
<1>4. 0 \in Index
  BY <1>3 DEF Index
<1>5. \A o \in Order : /\ free_lists[o] \in Seq(Index) /\ Unique(free_lists[o])
                       /\ \A x : In(free_lists[o], x) <=> o = MaxOrder /\ x = 0
                       /\ free_lists[o] # <<>> <=> o = MaxOrder
  <2> SUFFICES ASSUME NEW o \in Order
               PROVE  /\ free_lists[o] \in Seq(Index) /\ Unique(free_lists[o])
                      /\ \A x : In(free_lists[o], x) <=> o = MaxOrder /\ x = 0
                      /\ free_lists[o] # <<>> <=> o = MaxOrder
    OBVIOUS
  <2>1. CASE o = MaxOrder
    <3>1. free_lists[o] = <<0>>
      BY <1>1, <2>1
    <3>2. <<0>> \in Seq(Index) /\ DOMAIN <<0>> = {1} /\ <<0>>[1] = 0 /\ <<0>> # <<>>
      BY <1>4
    <3>3. Unique(<<0>>) /\ \A x : In(<<0>>, x) <=> x = 0
      BY <3>2 DEF Unique, In
    <3> QED
      BY <2>1, <3>1, <3>2, <3>3, Zenon
  <2>2. CASE o # MaxOrder
    <3>1. free_lists[o] = <<>>
      BY <1>1, <2>2
    <3>2. <<>> \in Seq(Index) /\ DOMAIN <<>> = {}
      OBVIOUS
    <3>3. Unique(<<>>) /\ \A x : ~In(<<>>, x)
      BY <3>2, Zenon DEF Unique, In
    <3> QED
      BY <2>2, <3>1, <3>2, <3>3, Zenon
  <2> QED
    BY <2>1, <2>2
<1>6. TypeInv
  <2>1. free_lists \in [Order -> Seq(Index)]
    <3>1. \E f : free_lists = [o \in Order |-> f[o]]
      <4> DEFINE f == [o \in Order |-> IF o = MaxOrder THEN <<0>> ELSE <<>>]
      <4>1. free_lists = [o \in Order |-> f[o]]
        BY <1>1
      <4> QED
        BY <4>1
    <3> QED
      BY <1>5, <3>1
  <2>2. free_pages \in 0..(2^16 - 1)
    <3>1. free_pages \in 0..512
      BY <1>1, <1>2
    <3> QED
      BY <3>1, SmallCounts, ZenonT(60) DEF Sub16
  <2>3. held \in [Client -> SUBSET [block : Index, order : Order, count : 1..MaxRequest]]
    BY <1>1
  <2>4. /\ work \in [Client -> [pc : PC, block : Index, order : Order, count : 0..MaxRequest,
                                loaded : 0..(2^16 - 1)]]
        /\ \A c \in Client : work[c].pc = "idle"
    <3>1. Sub16 = 0..(2^16 - 1)
      BY Zenon DEF Sub16
    <3>2. Idle \in [pc : PC, block : Index, order : Order, count : 0..MaxRequest,
                    loaded : 0..(2^16 - 1)]
      <4>1. 0 \in Sub16 /\ 0 \in Order /\ 0 \in 0..MaxRequest /\ "idle" \in PC
        <5>1. 0 \in 0..512 /\ 0 \in Order /\ 0 \in 0..MaxRequest /\ "idle" \in PC
          BY <1>2 DEF PC
        <5> QED
          BY <5>1, SmallCounts, Zenon
      <4> QED
        BY <1>4, <3>1, <4>1 DEF Idle
    <3>3. Idle.pc = "idle"
      BY DEF Idle
    <3> QED
      BY <1>1, <3>2, <3>3, Zenon
  <2>5. refused \in 0..MaxRequest /\ races \in 0..MaxRaces
    BY <1>1, <1>2
  <2> QED
    BY <1>1, <1>2, <2>1, <2>2, <2>3, <2>4, <2>5, Zenon DEF TypeInv
<1>7. UniqueInv /\ TopInv
  BY <1>1, <1>2, <1>5 DEF UniqueInv, TopInv
<1>8. \A t : t \in Tokens <=> t = FreeTok(0, MaxOrder)
  <2>1. \A t : IsFree(t) <=> t = FreeTok(0, MaxOrder)
    BY <1>2, <1>4, <1>5, Zenon DEF IsFree, FreeTok
  <2>2. \A t : ~IsWasted(t)
    BY <1>1, Zenon DEF IsWasted
  <2>3. \A t : ~IsHeld(t)
    BY <1>1 DEF IsHeld
  <2>4. \A t : ~IsWork(t)
    BY <1>1 DEF IsWork, Idle
  <2> QED
    BY <1>6, <2>1, <2>2, <2>3, <2>4, Members, Zenon DEF Membership
<1>9. /\ FreeTok(0, MaxOrder).who = "free" /\ FreeTok(0, MaxOrder).block = 0
      /\ FreeTok(0, MaxOrder).order = MaxOrder
  BY DEF FreeTok, Token
<1>10. Aligned(0, MaxOrder)
  <2>1. \A s \in Sizes : 0 % s = 0
    BY DEF Sizes
  <2> QED
    BY <1>2, <1>3, <2>1 DEF Aligned
<1>11. LegalInv /\ RequestInv
  BY <1>2, <1>4, <1>8, <1>9, <1>10 DEF LegalInv, RequestInv
<1>12. PartInv
  <2>1. ASSUME NEW q \in Index PROVE On(FreeTok(0, MaxOrder), q)
    <3>1. PICK n \in Nat : n = 2^MaxOrder
      BY <1>3
    <3>2. q \in 0..(n - 1)
      BY <3>1, Zenon DEF Index
    <3>3. 0 <= q /\ q < 0 + n
      BY <3>2
    <3> QED
      BY <1>9, <3>1, <3>3, Zenon DEF On, Covers
  <2>2. PICK t : t = FreeTok(0, MaxOrder)
    OBVIOUS
  <2>3. t \in Tokens /\ \A u \in Tokens : u = t
    BY <1>8, <2>2, Zenon
  <2>4. \A q \in Index : On(t, q)
    BY <2>1, <2>2, Zenon
  <2> QED
    BY <2>3, <2>4 DEF PartInv, Partition
<1>13. MergedInv
  <2>1. \A b, o : o \in Order => (Listed(b, o) => o = MaxOrder)
    BY <1>1, <1>5, Zenon DEF Listed, In
  <2> QED
    BY <1>2, <2>1 DEF MergedInv
<1> QED
  BY <1>6, <1>7, <1>11, <1>12, <1>13 DEF BuddyInv

(* Every reachable state keeps the invariant of the block lists.           *)
THEOREM BooksHold == Spec => []BuddyInv
  BY BuddyInvInit, BuddyInvNext, PTL DEF Spec
-----------------------------------------------------------------------------
(* What the tokens stand for.                                              *)
ListView(t)  == [block |-> t.block, order |-> t.order]
TakenView(t) == [block |-> t.block, order |-> t.order, count |-> t.count]
Out(t)       == t.who \in {"held", "work"}

LEMMA TokenFacts ==
    ASSUME TypeInv, LegalInv, NEW t \in Tokens
    PROVE  /\ t.who \in {"free", "waste", "held", "work"}
           /\ t.block \in Index /\ t.order \in Order /\ Aligned(t.block, t.order)
           /\ t.block \in Nat /\ t.order \in 0..9
<1>1. t.who \in {"free", "waste", "held", "work"}
  <2>1. IsFree(t) \/ IsWasted(t) \/ IsHeld(t) \/ IsWork(t)
    BY Members, Zenon DEF Membership
  <2> QED
    BY <2>1, TokenKinds
<1>2. t.block \in Index /\ t.order \in Order /\ Aligned(t.block, t.order)
  BY Zenon DEF LegalInv
<1> QED
  BY <1>1, <1>2, Zenon DEF Aligned

LEMMA SpanIsOn ==
    ASSUME TypeInv, LegalInv, NEW t \in Tokens, NEW q \in Index
    PROVE  /\ q \in Span(ListView(t)) <=> On(t, q)
           /\ q \in Span(TakenView(t)) <=> On(t, q)
<1>1. t.block \in Nat /\ t.order \in 0..9 /\ q \in Nat
  <2>1. Index \subseteq Nat
    BY PagesAreNumbers, Zenon DEF TypeInv
  <2> QED
    BY <2>1, TokenFacts
<1>2. PICK s : s = 2^t.order
  OBVIOUS
<1>3. s \in 1..512
  BY <1>1, <1>2, Sized, Zenon
<1>4. q \in t.block..(t.block + s - 1) <=> t.block <= q /\ q < t.block + s
  BY <1>1, <1>3
<1>5. /\ Span(ListView(t)) = t.block..(t.block + 2^t.order - 1)
      /\ Span(TakenView(t)) = t.block..(t.block + 2^t.order - 1)
  BY DEF Span, ListView, TakenView
<1> QED
  BY <1>2, <1>4, <1>5, Zenon DEF On, Covers

LEMMA Views ==
    ASSUME TypeInv, LegalInv
    PROVE  /\ \A x : x \in FreeListed <=> \E t \in Tokens : t.who = "free" /\ x = ListView(t)
           /\ \A x : x \in waste_list <=> \E t \in Tokens : t.who = "waste" /\ x = ListView(t)
           /\ \A x : x \in Taken <=> \E t \in Tokens : Out(t) /\ x = TakenView(t)
<1>1. ASSUME NEW x PROVE x \in FreeListed <=> \E t \in Tokens : t.who = "free" /\ x = ListView(t)
  <2>1. x \in FreeListed <=> \E o \in Order : \E b : In(free_lists[o], b) /\ x = [block |-> b, order |-> o]
    <3>1. x \in FreeListed <=> \E o \in Order : \E i \in DOMAIN free_lists[o] :
                                 x = [block |-> free_lists[o][i], order |-> o]
      BY DEF FreeListed
    <3> QED
      BY <3>1, Zenon DEF In
  <2>2. ASSUME NEW o \in Order, NEW b, In(free_lists[o], b), x = [block |-> b, order |-> o]
        PROVE  \E t \in Tokens : t.who = "free" /\ x = ListView(t)
    <3>1. Token("free", 0, b, o, 0) \in Tokens
      BY <2>2, FreeHasToken
    <3>2. LET t == Token("free", 0, b, o, 0) IN t.who = "free" /\ x = ListView(t)
      BY <2>2 DEF Token, ListView
    <3> QED
      BY <3>1, <3>2, Zenon
  <2>3. ASSUME NEW t \in Tokens, t.who = "free", x = ListView(t)
        PROVE  \E o \in Order : \E b : In(free_lists[o], b) /\ x = [block |-> b, order |-> o]
    <3>1. IsFree(t)
      <4>1. IsFree(t) \/ IsWasted(t) \/ IsHeld(t) \/ IsWork(t)
        BY Members, Zenon DEF Membership
      <4> QED
        BY <2>3, <4>1, TokenKinds
    <3>2. PICK o \in Order, b \in Index : In(free_lists[o], b) /\ t = Token("free", 0, b, o, 0)
      BY <3>1, Zenon DEF IsFree
    <3>3. t.block = b /\ t.order = o
      BY <3>2 DEF Token
    <3> QED
      BY <2>3, <3>2, <3>3, Zenon DEF ListView
  <2> QED
    BY <2>1, <2>2, <2>3, Zenon
<1>2. ASSUME NEW x PROVE x \in waste_list <=> \E t \in Tokens : t.who = "waste" /\ x = ListView(t)
  <2>1. ASSUME x \in waste_list PROVE \E t \in Tokens : t.who = "waste" /\ x = ListView(t)
    <3>1. x = [block |-> x.block, order |-> x.order]
      <4>1. waste_list \in SUBSET [block : Index, order : Order]
        BY Zenon DEF TypeInv
      <4> QED
        BY <2>1, <4>1
    <3>2. [block |-> x.block, order |-> x.order] \in waste_list
      BY <2>1, <3>1, Zenon
    <3>3. Token("waste", 0, x.block, x.order, 0) \in Tokens
      BY <3>2, WasteHasToken
    <3>4. LET t == Token("waste", 0, x.block, x.order, 0) IN t.who = "waste" /\ x = ListView(t)
      BY <3>1 DEF Token, ListView
    <3> QED
      BY <3>3, <3>4, Zenon
  <2>2. ASSUME NEW t \in Tokens, t.who = "waste", x = ListView(t) PROVE x \in waste_list
    <3>1. IsWasted(t)
      <4>1. IsFree(t) \/ IsWasted(t) \/ IsHeld(t) \/ IsWork(t)
        BY Members, Zenon DEF Membership
      <4> QED
        BY <2>2, <4>1, TokenKinds
    <3>2. PICK o \in Order, b \in Index : /\ [block |-> b, order |-> o] \in waste_list
                                          /\ t = Token("waste", 0, b, o, 0)
      BY <3>1, Zenon DEF IsWasted
    <3>3. t.block = b /\ t.order = o
      BY <3>2 DEF Token
    <3> QED
      BY <2>2, <3>2, <3>3, Zenon DEF ListView
  <2> QED
    BY <2>1, <2>2, Zenon
<1>3. ASSUME NEW x PROVE x \in Taken <=> \E t \in Tokens : Out(t) /\ x = TakenView(t)
  <2>1. x \in Taken <=> \/ \E c \in Client : x \in held[c]
                        \/ \E c \in Client : /\ work[c].pc # "idle"
                                             /\ x = [block |-> work[c].block, order |-> work[c].order,
                                                     count |-> work[c].count]
    BY DEF Taken, Busy
  <2>2. ASSUME NEW c \in Client, x \in held[c] PROVE \E t \in Tokens : Out(t) /\ x = TakenView(t)
    <3>1. x = [block |-> x.block, order |-> x.order, count |-> x.count]
      <4>1. held[c] \subseteq [block : Index, order : Order, count : 1..MaxRequest]
        BY Zenon DEF TypeInv
      <4> QED
        BY <2>2, <4>1
    <3>2. Token("held", c, x.block, x.order, x.count) \in Tokens
      BY <2>2, Members, Zenon DEF Membership, IsHeld
    <3>3. LET t == Token("held", c, x.block, x.order, x.count) IN Out(t) /\ x = TakenView(t)
      BY <3>1 DEF Token, TakenView, Out
    <3> QED
      BY <3>2, <3>3, Zenon
  <2>3. ASSUME NEW c \in Client, work[c].pc # "idle",
               x = [block |-> work[c].block, order |-> work[c].order, count |-> work[c].count]
        PROVE  \E t \in Tokens : Out(t) /\ x = TakenView(t)
    <3>1. WorkToken(c) \in Tokens
      BY <2>3, Members, Zenon DEF Membership, IsWork
    <3>2. Out(WorkToken(c)) /\ x = TakenView(WorkToken(c))
      BY <2>3 DEF Token, WorkToken, TakenView, Out
    <3> QED
      BY <3>1, <3>2, Zenon
  <2>4. ASSUME NEW t \in Tokens, Out(t), x = TakenView(t)
        PROVE  \/ \E c \in Client : x \in held[c]
               \/ \E c \in Client : /\ work[c].pc # "idle"
                                    /\ x = [block |-> work[c].block, order |-> work[c].order,
                                            count |-> work[c].count]
    <3>1. IsHeld(t) \/ IsWork(t)
      <4>1. IsFree(t) \/ IsWasted(t) \/ IsHeld(t) \/ IsWork(t)
        BY Members, Zenon DEF Membership
      <4> QED
        BY <2>4, <4>1, TokenKinds DEF Out
    <3>2. CASE IsHeld(t)
      <4>1. PICK c \in Client : \E h \in held[c] : t = Token("held", c, h.block, h.order, h.count)
        BY <3>2 DEF IsHeld
      <4>2. PICK h \in held[c] : t = Token("held", c, h.block, h.order, h.count)
        BY <4>1
      <4>3. h = [block |-> h.block, order |-> h.order, count |-> h.count]
        <5>1. held[c] \subseteq [block : Index, order : Order, count : 1..MaxRequest]
          BY Zenon DEF TypeInv
        <5> QED
          BY <5>1
      <4>4. t.block = h.block /\ t.order = h.order /\ t.count = h.count
        BY <4>2 DEF Token
      <4>5. x = h
        BY <2>4, <4>3, <4>4, Zenon DEF TakenView
      <4> QED
        BY <4>5
    <3>3. CASE IsWork(t)
      <4>1. PICK c \in Client : work[c].pc # "idle" /\ t = WorkToken(c)
        BY <3>3 DEF IsWork
      <4>2. t.block = work[c].block /\ t.order = work[c].order /\ t.count = work[c].count
        BY <4>1 DEF WorkToken, Token
      <4> QED
        BY <2>4, <4>1, <4>2, Zenon DEF TakenView
    <3> QED
      BY <3>1, <3>2, <3>3
  <2> QED
    BY <2>1, <2>2, <2>3, <2>4, Zenon
<1> QED
  BY <1>1, <1>2, <1>3

LEMMA OnePageOneBlock == BuddyInv => BlocksPartitionPool
<1> SUFFICES ASSUME BuddyInv PROVE BlocksPartitionPool
  OBVIOUS
<1>1. TypeInv /\ LegalInv /\ PartInv
  BY DEF BuddyInv
<1>2. BuddyTypeOK
  <2>1. /\ total \in Totals /\ DOMAIN free_lists = Order /\ max_order_free \in Order
        /\ free_pages \in 0..(2^16 - 1) /\ refused \in 0..MaxRequest /\ races \in 0..MaxRaces
    BY <1>1, Zenon DEF TypeInv
  <2>2. FreeListed \cup waste_list \subseteq [block : Index, order : Order]
    <3>1. ASSUME NEW x \in FreeListed \cup waste_list PROVE x \in [block : Index, order : Order]
      <4>1. PICK t \in Tokens : x = ListView(t)
        BY <1>1, <3>1, Views, Zenon
      <4> QED
        BY <1>1, <4>1, TokenFacts DEF ListView
    <3> QED
      BY <3>1
  <2>3. ASSUME NEW c \in Client
        PROVE  /\ held[c] \subseteq [block : Index, order : Order, count : 1..MaxRequest]
               /\ work[c].pc \in {"idle", "allocated", "subtract", "add", "merge"}
    BY <1>1, Zenon DEF TypeInv, PC
  <2> QED
    BY <2>1, <2>2, <2>3, Zenon DEF BuddyTypeOK
<1>3. ASSUME NEW p \in Index
      PROVE  Cardinality({b \in Taken : p \in Span(b)})
               + Cardinality({f \in FreeListed : p \in Span(f)})
               + Cardinality({w \in waste_list : p \in Span(w)}) = 1
  <2> DEFINE T == {b \in Taken : p \in Span(b)}
             F == {f \in FreeListed : p \in Span(f)}
             W == {w \in waste_list : p \in Span(w)}
  <2>1. PICK t \in Tokens : On(t, p) /\ \A u \in Tokens : On(u, p) => u = t
    BY <1>1, Zenon DEF PartInv, Partition
  <2>2. t.who \in {"free", "waste", "held", "work"}
    BY <1>1, TokenFacts
  <2>3. \A x : x \in T <=> Out(t) /\ x = TakenView(t)
    BY <1>1, <2>1, Views, SpanIsOn, Zenon
  <2> DEFINE L(u) == p \in Span(ListView(u))
  <2>10. \A u \in Tokens : L(u) <=> u = t
    BY <1>1, <2>1, SpanIsOn, Zenon
  <2>4. \A x : x \in F <=> t.who = "free" /\ x = ListView(t)
    <3>1. \A x : x \in F <=> x \in FreeListed /\ p \in Span(x)
      BY Zenon
    <3>2. \A x : x \in FreeListed <=> \E u \in Tokens : u.who = "free" /\ x = ListView(u)
      BY <1>1, Views
    <3> HIDE DEF F
    <3> QED
      BY <2>10, <3>1, <3>2, Zenon
  <2>5. \A x : x \in W <=> t.who = "waste" /\ x = ListView(t)
    <3>1. \A x : x \in W <=> x \in waste_list /\ p \in Span(x)
      BY Zenon
    <3>2. \A x : x \in waste_list <=> \E u \in Tokens : u.who = "waste" /\ x = ListView(u)
      BY <1>1, Views
    <3> HIDE DEF W
    <3> QED
      BY <2>10, <3>1, <3>2, Zenon
  <2> HIDE DEF T, F, W
  <2>6. \A x : Cardinality({x}) = 1
    BY FS_Singleton
  <2>7. Cardinality({}) = 0
    BY FS_EmptySet
  <2>8. CASE Out(t)
    <3>1. T = {TakenView(t)} /\ F = {} /\ W = {}
      BY <2>3, <2>4, <2>5, <2>8 DEF Out
    <3>2. Cardinality(T) = 1 /\ Cardinality(F) = 0 /\ Cardinality(W) = 0
      BY <2>6, <2>7, <3>1, Zenon
    <3>3. Cardinality(T) + Cardinality(F) + Cardinality(W) = 1
      BY <3>2
    <3> QED
      BY <3>3 DEF T, F, W
  <2>9. CASE t.who = "free"
    <3>1. T = {} /\ F = {ListView(t)} /\ W = {}
      BY <2>3, <2>4, <2>5, <2>9 DEF Out
    <3>2. Cardinality(T) = 0 /\ Cardinality(F) = 1 /\ Cardinality(W) = 0
      BY <2>6, <2>7, <3>1, Zenon
    <3>3. Cardinality(T) + Cardinality(F) + Cardinality(W) = 1
      BY <3>2
    <3> QED
      BY <3>3 DEF T, F, W
  <2>11. CASE t.who = "waste"
    <3>1. T = {} /\ F = {} /\ W = {ListView(t)}
      BY <2>3, <2>4, <2>5, <2>11 DEF Out
    <3>2. Cardinality(T) = 0 /\ Cardinality(F) = 0 /\ Cardinality(W) = 1
      BY <2>6, <2>7, <3>1, Zenon
    <3>3. Cardinality(T) + Cardinality(F) + Cardinality(W) = 1
      BY <3>2
    <3> QED
      BY <3>3 DEF T, F, W
  <2> QED
    BY <2>2, <2>8, <2>9, <2>11 DEF Out
<1> QED
  BY <1>2, <1>3, Zenon DEF BlocksPartitionPool

(* Every page of the rounded pool is in exactly one block, which is free,  *)
(* waste, or some client's, for every pool and any number of clients: over *)
(* no sequence of buddy_allocate and buddy_deallocate is a page lost or    *)
(* given out twice.                                                        *)
THEOREM BlocksPartitionPoolHolds == Spec => []BlocksPartitionPool
  BY BooksHold, OnePageOneBlock, PTL

LEMMA NoBuddiesFree == BuddyInv => FullyMerged
<1> SUFFICES ASSUME BuddyInv, NEW f \in FreeListed \cup waste_list, f.order < MaxOrder
             PROVE  ~Listed(BuddyOf(f.block, f.order), f.order)
  BY Zenon DEF FullyMerged
<1>1. TypeInv /\ LegalInv /\ MergedInv
  BY DEF BuddyInv
<1>2. f \in [block : Index, order : Order]
  BY OnePageOneBlock, Zenon DEF BlocksPartitionPool, BuddyTypeOK
<1>3. f.block \in Index /\ f.order \in Order /\ f = [block |-> f.block, order |-> f.order]
  BY <1>2
<1>4. Listed(f.block, f.order)
  <2>1. CASE f \in waste_list
    BY <1>3, <2>1, Zenon DEF Listed
  <2>2. CASE f \in FreeListed
    <3>1. PICK o \in Order : \E i \in DOMAIN free_lists[o] : f = [block |-> free_lists[o][i], order |-> o]
      BY <2>2 DEF FreeListed
    <3> QED
      BY <3>1 DEF Listed
  <2> QED
    BY <2>1, <2>2
<1> QED
  BY <1>1, <1>3, <1>4, Zenon DEF MergedInv

(* No two buddies are both free: free_block and try_merge_buddy join all   *)
(* that can be joined, so that the largest block possible is on a list.    *)
THEOREM FullyMergedHolds == Spec => []FullyMerged
  BY BooksHold, NoBuddiesFree, PTL
-----------------------------------------------------------------------------
(* The count of free pages.                                                *)
HeldOn(q) == \E c \in Client : \E h \in held[c] : Covers(h.block, h.order, q)
WorkOn(c, q) == Covers(work[c].block, work[c].order, q)
AddOn(q)  == \E c \in Client : work[c].pc = "add" /\ WorkOn(c, q)
OutMeans  == \A q : q \in OutPages <=> q \in Index /\ (HeldOn(q) \/ AddOn(q))

LEMMA OutByClient == TypeInv => OutMeans
<1> SUFFICES ASSUME TypeInv, NEW q \in Index
             PROVE  (\E t \in Tokens : Counted(t) /\ On(t, q)) <=> HeldOn(q) \/ AddOn(q)
  BY Zenon DEF OutMeans, OutPages
<1>1. ASSUME NEW t \in Tokens, Counted(t), On(t, q) PROVE HeldOn(q) \/ AddOn(q)
  <2>1. IsHeld(t) \/ IsWork(t)
    <3>1. IsFree(t) \/ IsWasted(t) \/ IsHeld(t) \/ IsWork(t)
      BY Members, Zenon DEF Membership
    <3> QED
      BY <1>1, <3>1, TokenKinds DEF Counted
  <2>2. CASE IsHeld(t)
    <3>1. PICK c \in Client : \E h \in held[c] : t = Token("held", c, h.block, h.order, h.count)
      BY <2>2 DEF IsHeld
    <3>2. PICK h \in held[c] : t = Token("held", c, h.block, h.order, h.count)
      BY <3>1
    <3>3. t.block = h.block /\ t.order = h.order
      BY <3>2 DEF Token
    <3> QED
      BY <1>1, <3>2, <3>3, Zenon DEF HeldOn, On
  <2>3. CASE IsWork(t)
    <3>1. PICK c \in Client : work[c].pc # "idle" /\ t = WorkToken(c)
      BY <2>3 DEF IsWork
    <3>2. t.block = work[c].block /\ t.order = work[c].order /\ t.of = c /\ t.who = "work"
      BY <3>1 DEF WorkToken, Token
    <3>3. work[c].pc = "add"
      BY <1>1, <3>2 DEF Counted
    <3> QED
      BY <1>1, <3>2, <3>3, Zenon DEF AddOn, WorkOn, On
  <2> QED
    BY <2>1, <2>2, <2>3
<1>2. ASSUME HeldOn(q) PROVE \E t \in Tokens : Counted(t) /\ On(t, q)
  <2>1. PICK c \in Client : \E h \in held[c] : Covers(h.block, h.order, q)
    BY <1>2, Zenon DEF HeldOn
  <2>2. PICK h \in held[c] : Covers(h.block, h.order, q)
    BY <2>1
  <2>3. PICK t : t = Token("held", c, h.block, h.order, h.count)
    OBVIOUS
  <2>4. t \in Tokens
    BY <2>2, <2>3, Members, Zenon DEF Membership, IsHeld
  <2>5. t.who = "held" /\ t.block = h.block /\ t.order = h.order
    BY <2>3 DEF Token
  <2> QED
    BY <2>2, <2>4, <2>5, Zenon DEF Counted, On
<1>3. ASSUME AddOn(q) PROVE \E t \in Tokens : Counted(t) /\ On(t, q)
  <2>1. PICK c \in Client : work[c].pc = "add" /\ WorkOn(c, q)
    BY <1>3, Zenon DEF AddOn
  <2>2. WorkToken(c) \in Tokens
    <3>1. work[c].pc # "idle"
      BY <2>1
    <3> QED
      BY <3>1, Members, Zenon DEF Membership, IsWork
  <2>3. PICK t : t = WorkToken(c)
    OBVIOUS
  <2>4. t.who = "work" /\ t.of = c /\ t.block = work[c].block /\ t.order = work[c].order
    BY <2>3 DEF WorkToken, Token
  <2> QED
    BY <2>1, <2>2, <2>3, <2>4, Zenon DEF Counted, On, WorkOn
<1> QED
  BY <1>1, <1>2, <1>3, Zenon

LEMMA OutByClientLater == TypeInv' => OutMeans'
  BY OutByClient, PTL

(* No page of the block a client works on is in another block.             *)
LEMMA OwnAlone ==
    ASSUME TypeInv, PartInv, NEW c \in Client, work[c].pc # "idle", NEW q \in Index, WorkOn(c, q)
    PROVE  /\ ~HeldOn(q)
           /\ \A d \in Client : work[d].pc # "idle" /\ WorkOn(d, q) => d = c
<1>1. \A d \in Client : work[d].pc # "idle" => WorkToken(d) \in Tokens
  BY Members, Zenon DEF Membership, IsWork
<1>2. \A d \in Client : /\ WorkToken(d).who = "work" /\ WorkToken(d).of = d
                        /\ WorkToken(d).block = work[d].block /\ WorkToken(d).order = work[d].order
  BY DEF WorkToken, Token
<1>3. \A d \in Client : WorkOn(d, q) => On(WorkToken(d), q)
  BY <1>2, Zenon DEF WorkOn, On
<1>4. ~HeldOn(q)
  <2> SUFFICES ASSUME HeldOn(q) PROVE FALSE
    OBVIOUS
  <2>1. PICK d \in Client : \E h \in held[d] : Covers(h.block, h.order, q)
    BY Zenon DEF HeldOn
  <2>2. PICK h \in held[d] : Covers(h.block, h.order, q)
    BY <2>1
  <2>3. PICK t : t = Token("held", d, h.block, h.order, h.count)
    OBVIOUS
  <2>4. t \in Tokens
    BY <2>2, <2>3, Members, Zenon DEF Membership, IsHeld
  <2>5. t.who = "held" /\ t.block = h.block /\ t.order = h.order
    BY <2>3 DEF Token
  <2>6. On(t, q)
    BY <2>2, <2>5, Zenon DEF On
  <2>7. t = WorkToken(c)
    BY <1>1, <1>3, <2>4, <2>6, Alone
  <2>8. WorkToken(c).who = "work"
    BY <1>2
  <2> QED
    BY <2>5, <2>7, <2>8
<1>5. ASSUME NEW d \in Client, work[d].pc # "idle", WorkOn(d, q) PROVE d = c
  <2>1. WorkToken(d) = WorkToken(c)
    BY <1>1, <1>3, <1>5, Alone
  <2> QED
    BY <2>1 DEF WorkToken, Token
<1> QED
  BY <1>4, <1>5

(* A run that is allocated does not reach beyond the pages of the pool.    *)
LEMMA RunsFit ==
    ASSUME TypeInv, LegalInv, RequestInv, SmallRequests, NEW t \in Tokens, Out(t)
    PROVE  t.block \in Nat /\ 2^t.order \in 1..512 /\ t.block + 2^t.order <= Pages
           /\ t.block + t.count - 1 < Ws
<1>1. /\ t.count \in 1..MaxRequest /\ t.order = GetOrder(t.count)
      /\ ~IsWaste(t.block + t.count - 1)
  BY DEF RequestInv, Out
<1>2. t.block \in Nat /\ t.block < Ws /\ t.order \in 0..9
  <2>1. t.who # "waste" /\ t.who # "free"
    BY DEF Out
  <2> QED
    BY <2>1, TokenFacts DEF LegalInv
<1>3. /\ Pages \in 1..511 /\ Waste \in 1..512 /\ Pages - Waste \in Nat /\ Ws = Pages - Waste
      /\ \A i : IsWaste(i) <=> i \in (Pages - Waste)..Pages
  BY Pool, Zenon DEF TypeInv, Ws
<1>4. MaxRequest \in 1..512 /\ MaxRequest <= Waste + 1
  BY BuddyAssumption DEF SmallRequests
<1>5. t.block + t.count - 1 \notin Ws..Pages
  BY <1>1, <1>3
<1>6. t.block + t.count - 1 < Ws
  BY <1>1, <1>2, <1>3, <1>4, <1>5
<1>7. PICK s : s = 2^t.order
  OBVIOUS
<1>8. s \in 1..512 /\ s <= 2 * t.count - 1
  <2>1. t.count \in 1..512
    <3>1. t.count \in 1..MaxRequest /\ MaxRequest \in 1..512
      BY <1>1, <1>4, Zenon
    <3> QED
      BY <3>1
  <2>2. 2^GetOrder(t.count) <= 2 * t.count - 1
    BY <2>1, Orders, Zenon
  <2>3. s \in 1..512
    BY <1>2, <1>7, Sized, Zenon
  <2>4. s <= 2 * t.count - 1
    BY <1>1, <1>7, <2>2, Zenon
  <2> QED
    BY <2>3, <2>4
<1>9. t.block + s <= Pages
  <2>1. PICK b \in Nat, n \in Nat, w \in Nat, m \in Nat, p \in Nat :
          b = t.block /\ n = t.count /\ w = Waste /\ m = MaxRequest /\ p = Pages
    BY <1>1, <1>2, <1>3, <1>4
  <2>2. b + n - 1 < p - w /\ n <= m /\ m <= w + 1 /\ s \in Nat /\ s <= 2 * n - 1
    BY <1>1, <1>3, <1>4, <1>6, <1>8, <2>1
  <2>3. b + s <= p
    BY <2>2
  <2> QED
    BY <2>1, <2>3
<1> QED
  BY <1>2, <1>6, <1>7, <1>8, <1>9, Zenon

LEMMA OutPagesFit ==
    ASSUME TypeInv, LegalInv, RequestInv, SmallRequests
    PROVE  /\ OutPages \subseteq 0..(Pages - 1) /\ IsFiniteSet(OutPages)
           /\ Cardinality(OutPages) \in 0..Pages
<1>1. Pages \in 1..511
  BY Pool, Zenon DEF TypeInv
<1>2. ASSUME NEW q \in OutPages PROVE q \in 0..(Pages - 1)
  <2>1. PICK t \in Tokens : Counted(t) /\ On(t, q)
    BY Zenon DEF OutPages
  <2>2. Out(t)
    BY <2>1 DEF Counted, Out
  <2>3. q \in Nat
    <3>1. q \in Index /\ Index \subseteq Nat
      BY PagesAreNumbers, Zenon DEF OutPages, TypeInv
    <3> QED
      BY <3>1
  <2>4. PICK s : s = 2^t.order
    OBVIOUS
  <2>5. t.block \in Nat /\ s \in 1..512 /\ t.block + s <= Pages
    BY <2>2, <2>4, RunsFit
  <2>6. t.block <= q /\ q < t.block + s
    BY <2>1, <2>4, Zenon DEF On, Covers
  <2> QED
    BY <1>1, <2>3, <2>5, <2>6
<1>3. OutPages \subseteq 0..(Pages - 1)
  BY <1>2
<1>4. IsFiniteSet(0..(Pages - 1)) /\ Cardinality(0..(Pages - 1)) = Pages
  BY <1>1, FS_Interval
<1>5. /\ IsFiniteSet(OutPages) /\ Cardinality(OutPages) <= Pages
  BY <1>3, <1>4, FS_Subset
<1>6. Cardinality(OutPages) \in Nat
  BY <1>5, FS_CardinalityType
<1> QED
  BY <1>1, <1>3, <1>5, <1>6

OutFits == TypeInv /\ LegalInv /\ RequestInv /\ SmallRequests =>
    IsFiniteSet(OutPages) /\ Cardinality(OutPages) \in 0..Pages

LEMMA OutFitsAlways == OutFits
  BY OutPagesFit DEF OutFits

LEMMA OutPagesFitLater == OutFits'
  BY OutFitsAlways, PTL

LEMMA RunSize ==
    ASSUME NEW b \in Nat, NEW s \in 1..512
    PROVE  IsFiniteSet(b..(b + s - 1)) /\ Cardinality(b..(b + s - 1)) = s
<1>1. b \in Int /\ b + s - 1 \in Int /\ ~(b > b + s - 1) /\ (b + s - 1) - b + 1 = s
  OBVIOUS
<1> QED
  BY <1>1, FS_Interval

LEMMA RunAdded ==
    ASSUME NEW S, IsFiniteSet(S), NEW R, IsFiniteSet(R), S \cap R = {}
    PROVE  Cardinality(S \cup R) = Cardinality(S) + Cardinality(R)
<1>1. Cardinality(S \cup R) = Cardinality(S) + Cardinality(R) - Cardinality(S \cap R)
  BY FS_Union
<1>2. Cardinality(S \cap R) = 0
  BY FS_EmptySet
<1>3. Cardinality(S) \in Nat /\ Cardinality(R) \in Nat
  BY FS_CardinalityType
<1> QED
  BY <1>1, <1>2, <1>3

(* An update that does not touch the pages that are out.                   *)
LEMMA CountKept ==
    ASSUME TypeInv, TypeInv', CountInv, total' = total, free_pages' = free_pages,
           \A q : HeldOn(q)' \/ AddOn(q)' <=> HeldOn(q) \/ AddOn(q),
           SmallRequests /\ races' = 0 =>
             /\ races = 0
             /\ \A c, d \in Updating' : c = d
             /\ \A c \in Updating' : work'[c].loaded = free_pages
    PROVE  CountInv'
<1>1. /\ Pages' = Pages /\ Index' = Index /\ (SmallRequests' <=> SmallRequests)
  BY Same DEF SmallRequests
<1>2. OutPages' = OutPages
  <2>1. OutMeans /\ OutMeans'
    BY OutByClient, OutByClientLater
  <2>2. \A q : q \in OutPages' <=> q \in OutPages
    BY <1>1, <2>1, Zenon DEF OutMeans
  <2> QED
    BY <2>2, Zenon
<1> QED
  BY <1>1, <1>2, Zenon DEF CountInv

LEMMA CountInvNext == BuddyInv /\ BuddyInv' /\ CountInv /\ [Next]_vars => CountInv'
<1> SUFFICES ASSUME BuddyInv, BuddyInv', CountInv, [Next]_vars PROVE CountInv'
  OBVIOUS
<1>1. /\ TypeInv /\ LegalInv /\ RequestInv /\ PartInv
      /\ TypeInv' /\ LegalInv' /\ RequestInv' /\ PartInv'
  BY DEF BuddyInv
<1>2. DOMAIN work = Client /\ DOMAIN held = Client /\ races \in Nat
  <2>1. races \in 0..MaxRaces /\ MaxRaces \in Nat
    BY <1>1, BuddyAssumption, Zenon DEF TypeInv
  <2>2. DOMAIN work = Client /\ DOMAIN held = Client
    BY <1>1, Zenon DEF TypeInv
  <2> QED
    BY <2>1, <2>2
<1>3. Updating = {c \in Client : work[c].pc \in {"subtract", "add"}}
  BY DEF Updating
<1>4. Updating' = {c \in Client : work'[c].pc \in {"subtract", "add"}}
  BY DEF Updating
<1>5. SmallRequests /\ races = 0 => /\ \A c, d \in Updating : c = d
                                    /\ \A c \in Updating : work[c].loaded = free_pages
                                    /\ free_pages = Pages - Cardinality(OutPages)
  BY DEF CountInv
<1>6. ASSUME UNCHANGED <<total, free_pages, held, work, races>> PROVE CountInv'
  <2>1. \A q : (HeldOn(q)' <=> HeldOn(q)) /\ (AddOn(q)' <=> AddOn(q))
    BY <1>6, Zenon DEF HeldOn, AddOn, WorkOn
  <2>2. Updating' = Updating
    BY <1>6, <1>3, <1>4
  <2> QED
    BY <1>1, <1>5, <1>6, <2>1, <2>2, CountKept
<1>7. ASSUME NEW c \in Client, UNCHANGED <<total, free_pages, held, races>>,
             work[c].pc \notin {"subtract", "add"}, work'[c].pc \notin {"subtract", "add"},
             \A d \in Client : d # c => work'[d] = work[d]
      PROVE  CountInv'
  <2>1. \A q : HeldOn(q)' <=> HeldOn(q)
    BY <1>7, Zenon DEF HeldOn
  <2>2. \A q : AddOn(q)' <=> AddOn(q)
    <3>1. \A d \in Client : work'[d].pc = "add" => d # c
      BY <1>7
    <3>2. \A d \in Client : work[d].pc = "add" => d # c
      BY <1>7
    <3>3. \A q : AddOn(q)' <=> \E d \in Client : /\ work'[d].pc = "add"
                                                 /\ Covers(work'[d].block, work'[d].order, q)
      BY Zenon DEF AddOn, WorkOn
    <3> QED
      BY <1>7, <3>1, <3>2, <3>3, Zenon DEF AddOn, WorkOn
  <2>3. Updating' = Updating /\ c \notin Updating
    BY <1>3, <1>4, <1>7
  <2>4. \A d \in Updating : work'[d] = work[d]
    BY <1>3, <1>7, <2>3
  <2> QED
    BY <1>1, <1>5, <1>7, <2>1, <2>2, <2>3, <2>4, CountKept
(* The first step of an update: with no other under way it loads what is   *)
(* there.                                                                  *)
<1>8. ASSUME NEW c \in Client, Race, UNCHANGED <<total, free_pages>>,
             work'[c].loaded = free_pages, work[c].pc \notin {"subtract", "add"},
             \A d \in Client : d # c => work'[d] = work[d],
             \A q : HeldOn(q)' \/ AddOn(q)' <=> HeldOn(q) \/ AddOn(q)
      PROVE  CountInv'
  <2>1. ASSUME races' = 0
        PROVE  /\ races = 0 /\ \A a, b \in Updating' : a = b
               /\ \A a \in Updating' : work'[a].loaded = free_pages
    <3>1. Updating = {} /\ races = 0
      BY <1>2, <1>8, <2>1 DEF Race
    <3>2. Updating' \subseteq {c}
      BY <1>3, <1>4, <1>8, <3>1
    <3> QED
      BY <1>8, <3>1, <3>2
  <2> QED
    BY <1>1, <1>8, <2>1, CountKept
<1>9. CASE UNCHANGED vars
  BY <1>6, <1>9 DEF vars
<1>10. ASSUME NEW c \in Client, Allocate(c) PROVE CountInv'
  <2>1. PICK count \in 1..MaxRequest, order \in Order, o \in Order, b \in Index :
          Granted(c, count, order, o, b)
    BY <1>10, AllocateGrants
  <2>2. /\ work[c].pc = "idle"
        /\ work' = [work EXCEPT ![c] = [pc |-> "allocated", block |-> b, order |-> order,
                                        count |-> count, loaded |-> 0]]
    BY <2>1, Zenon DEF Granted
  <2>3. /\ work[c].pc \notin {"subtract", "add"} /\ work'[c].pc \notin {"subtract", "add"}
        /\ \A d \in Client : d # c => work'[d] = work[d]
    BY <1>2, <2>2
  <2>4. UNCHANGED <<total, free_pages, held, races>>
    BY <1>10 DEF Allocate
  <2> QED
    BY <1>7, <2>3, <2>4
<1>11. ASSUME NEW c \in Client, AllocateFails(c) PROVE CountInv'
  BY <1>6, <1>11 DEF AllocateFails
<1>12. ASSUME NEW c \in Client, LoadForSub(c) PROVE CountInv'
  <2>1. /\ UNCHANGED <<total, free_pages, held>> /\ Race /\ work[c].pc = "allocated"
        /\ work' = [work EXCEPT ![c].pc = "subtract", ![c].loaded = free_pages]
    BY <1>12 DEF LoadForSub
  <2>2. /\ work'[c].pc = "subtract" /\ work'[c].loaded = free_pages
        /\ \A d \in Client : d # c => work'[d] = work[d]
    BY <1>1, <2>1, Zenon DEF TypeInv
  <2>3. \A q : HeldOn(q)' <=> HeldOn(q)
    BY <2>1, Zenon DEF HeldOn
  <2>4. \A q : AddOn(q)' <=> AddOn(q)
    <3>1. \A d \in Client : (work'[d].pc = "add" => d # c) /\ (work[d].pc = "add" => d # c)
      BY <2>1, <2>2
    <3>2. \A q : AddOn(q)' <=> \E d \in Client : /\ work'[d].pc = "add"
                                                 /\ Covers(work'[d].block, work'[d].order, q)
      BY Zenon DEF AddOn, WorkOn
    <3> QED
      BY <2>2, <3>1, <3>2, Zenon DEF AddOn, WorkOn
  <2>5. work[c].pc \notin {"subtract", "add"}
    BY <2>1
  <2> QED
    BY <1>8, <2>1, <2>2, <2>3, <2>4, <2>5, Zenon
<1>13. ASSUME NEW c \in Client, LoadForAdd(c) PROVE CountInv'
  <2>1. PICK h \in held[c] :
          /\ work' = [work EXCEPT ![c] = [pc |-> "add", block |-> h.block, order |-> h.order,
                                          count |-> h.count, loaded |-> free_pages]]
          /\ held' = [held EXCEPT ![c] = @ \ {h}]
    BY <1>13 DEF LoadForAdd
  <2>2. UNCHANGED <<total, free_pages>> /\ Race /\ work[c].pc = "idle"
    BY <1>13 DEF LoadForAdd
  <2>3. /\ work'[c].pc = "add" /\ work'[c].loaded = free_pages
        /\ work'[c].block = h.block /\ work'[c].order = h.order
        /\ \A d \in Client : d # c => work'[d] = work[d] /\ held'[d] = held[d]
        /\ held'[c] = held[c] \ {h}
    BY <1>2, <2>1
  <2>4. \A q : HeldOn(q)' \/ AddOn(q)' <=> HeldOn(q) \/ AddOn(q)
    <3> SUFFICES ASSUME NEW q PROVE HeldOn(q)' \/ AddOn(q)' <=> HeldOn(q) \/ AddOn(q)
      OBVIOUS
    <3>1. AddOn(q)' <=> \E d \in Client : /\ work'[d].pc = "add"
                                          /\ Covers(work'[d].block, work'[d].order, q)
      BY Zenon DEF AddOn, WorkOn
    <3>2. HeldOn(q)' <=> \E d \in Client : \E k \in held'[d] : Covers(k.block, k.order, q)
      BY Zenon DEF HeldOn
    <3>3. \A d \in Client : work[d].pc = "add" => d # c
      BY <2>2
    <3>4. AddOn(q)' <=> AddOn(q) \/ Covers(h.block, h.order, q)
      BY <2>3, <3>1, <3>3, Zenon DEF AddOn, WorkOn
    <3>5. HeldOn(q) <=> HeldOn(q)' \/ Covers(h.block, h.order, q)
      <4>1. \A k : k \in held[c] <=> k \in held'[c] \/ k = h
        BY <2>3
      <4>2. ASSUME HeldOn(q) PROVE HeldOn(q)' \/ Covers(h.block, h.order, q)
        <5>1. PICK d \in Client : \E k \in held[d] : Covers(k.block, k.order, q)
          BY <4>2, Zenon DEF HeldOn
        <5>2. PICK k \in held[d] : Covers(k.block, k.order, q)
          BY <5>1
        <5>3. k \in held'[d] \/ k = h
          BY <2>3, <4>1, <5>2
        <5> QED
          BY <3>2, <5>2, <5>3, Zenon
      <4>3. ASSUME HeldOn(q)' PROVE HeldOn(q)
        <5>1. PICK d \in Client : \E k \in held'[d] : Covers(k.block, k.order, q)
          BY <3>2, <4>3, Zenon
        <5>2. PICK k \in held'[d] : Covers(k.block, k.order, q)
          BY <5>1
        <5>3. k \in held[d]
          BY <2>3, <4>1, <5>2
        <5> QED
          BY <5>2, <5>3, Zenon DEF HeldOn
      <4>4. ASSUME Covers(h.block, h.order, q) PROVE HeldOn(q)
        BY <4>4, Zenon DEF HeldOn
      <4> QED
        BY <4>2, <4>3, <4>4
    <3> QED
      BY <3>4, <3>5
  <2>5. work[c].pc \notin {"subtract", "add"}
    BY <2>2
  <2> QED
    BY <1>8, <2>2, <2>3, <2>4, <2>5
(* The store of an update, which adds or removes the run of one client.    *)
<1>14. ASSUME NEW c \in Client, work[c].pc \in {"subtract", "add"}
       PROVE  /\ WorkToken(c) \in Tokens /\ Out(WorkToken(c))
              /\ WorkToken(c).block = work[c].block /\ WorkToken(c).order = work[c].order
  <2>1. work[c].pc # "idle"
    BY <1>14
  <2>2. WorkToken(c) \in Tokens
    BY <1>1, <2>1, WorkHasToken
  <2> QED
    BY <2>2 DEF WorkToken, Token, Out
<1>15. Pages' = Pages /\ Index' = Index /\ (SmallRequests' <=> SmallRequests)
  <2>1. total' = total
    BY Zenon DEF Next, vars, Allocate, AllocateFails, LoadForSub, StoreSub, LoadForAdd, StoreAdd, FreeBlock
  <2> QED
    BY <2>1, Same DEF SmallRequests
<1>16. ASSUME NEW c \in Client, work[c].pc \in {"subtract", "add"}, races' = races,
              work'[c].pc \notin {"subtract", "add"},
              \A d \in Client : d # c => work'[d] = work[d],
              SmallRequests, races = 0
       PROVE  /\ Updating' = {} /\ work[c].loaded = free_pages
              /\ free_pages = Pages - Cardinality(OutPages)
              /\ \E b \in Nat, s \in 1..512 :
                   /\ b = work[c].block /\ s = 2^work[c].order /\ b + s <= Pages
                   /\ \A q : WorkOn(c, q) /\ q \in Index <=> q \in b..(b + s - 1)
  <2>1. c \in Updating /\ Updating = {c}
    BY <1>3, <1>5, <1>16
  <2>2. Updating' = {}
    BY <1>3, <1>4, <1>16, <2>1
  <2>3. PICK b, s : b = work[c].block /\ s = 2^work[c].order
    OBVIOUS
  <2>4. b \in Nat /\ s \in 1..512 /\ b + s <= Pages
    <3>1. PICK t : t = WorkToken(c)
      OBVIOUS
    <3>2. t \in Tokens /\ Out(t) /\ t.block = b /\ t.order = work[c].order
      BY <1>14, <1>16, <2>3, <3>1
    <3>3. t.block \in Nat /\ 2^t.order \in 1..512 /\ t.block + 2^t.order <= Pages
      BY <1>1, <1>16, <3>2, RunsFit
    <3> QED
      BY <2>3, <3>2, <3>3, Zenon
  <2>5. \A q : WorkOn(c, q) <=> b <= q /\ q < b + s
    BY <2>3, Zenon DEF WorkOn, Covers
  <2>6. PICK m \in Nat : m = 2^MaxOrder /\ Pages < m
    <3>1. Pages \in 1..511 /\ Waste \in 1..512 /\ Pages + Waste = 2^MaxOrder
      BY <1>1, Pool, Zenon DEF TypeInv
    <3> QED
      BY <3>1
  <2>7. Index = 0..(m - 1)
    BY <2>6, Zenon DEF Index
  <2>8. Pages \in 1..511
    BY <1>1, Pool, Zenon DEF TypeInv
  <2>9. \A q : WorkOn(c, q) /\ q \in Index <=> q \in b..(b + s - 1)
    BY <2>4, <2>5, <2>6, <2>7, <2>8
  <2> QED
    BY <1>5, <1>16, <2>1, <2>2, <2>3, <2>4, <2>9, Zenon
<1>17. ASSUME NEW n \in 0..511 PROVE Wrap(n) = n
  <2>1. n \in 0..512
    OBVIOUS
  <2> QED
    BY <2>1, SmallCounts, Zenon
<1>18. OutMeans /\ OutMeans'
  BY <1>1, OutByClient, OutByClientLater
<1>19. Pages \in 1..511
  BY <1>1, Pool, Zenon DEF TypeInv
<1>20. SmallRequests => /\ IsFiniteSet(OutPages) /\ Cardinality(OutPages) \in 0..Pages
                        /\ IsFiniteSet(OutPages') /\ Cardinality(OutPages') \in 0..Pages
  <2>1. SmallRequests => IsFiniteSet(OutPages) /\ Cardinality(OutPages) \in 0..Pages
    BY <1>1, OutPagesFit
  <2>2. SmallRequests' => IsFiniteSet(OutPages') /\ Cardinality(OutPages') \in 0..Pages'
    BY <1>1, OutPagesFitLater DEF OutFits
  <2> QED
    BY <1>15, <2>1, <2>2
<1>21. ASSUME NEW c \in Client, StoreSub(c) PROVE CountInv'
  <2> DEFINE h == [block |-> work[c].block, order |-> work[c].order, count |-> work[c].count]
  <2>1. /\ work[c].pc = "subtract" /\ races' = races /\ total' = total
        /\ free_pages' = Wrap(work[c].loaded - 2^work[c].order)
        /\ held' = [held EXCEPT ![c] = @ \cup {h}]
        /\ work' = [work EXCEPT ![c] = Idle]
    BY <1>21 DEF StoreSub
  <2>2. /\ work'[c].pc = "idle" /\ held'[c] = held[c] \cup {h}
        /\ \A d \in Client : d # c => work'[d] = work[d] /\ held'[d] = held[d]
    BY <1>2, <2>1 DEF Idle
  <2>3. h.block = work[c].block /\ h.order = work[c].order
    OBVIOUS
  <2> HIDE DEF h
  <2>4. \A q : HeldOn(q)' <=> HeldOn(q) \/ WorkOn(c, q)
    <3> SUFFICES ASSUME NEW q PROVE HeldOn(q)' <=> HeldOn(q) \/ WorkOn(c, q)
      OBVIOUS
    <3>1. HeldOn(q)' <=> \E d \in Client : \E k \in held'[d] : Covers(k.block, k.order, q)
      BY Zenon DEF HeldOn
    <3>2. WorkOn(c, q) <=> Covers(h.block, h.order, q)
      BY <2>3, Zenon DEF WorkOn
    <3>3. \A k : k \in held'[c] <=> k \in held[c] \/ k = h
      BY <2>2
    <3> QED
      BY <2>2, <3>1, <3>2, <3>3, Zenon DEF HeldOn
  <2>5. \A q : AddOn(q)' <=> AddOn(q)
    <3>1. \A d \in Client : (work'[d].pc = "add" => d # c) /\ (work[d].pc = "add" => d # c)
      BY <2>1, <2>2
    <3>2. \A q : AddOn(q)' <=> \E d \in Client : /\ work'[d].pc = "add"
                                                 /\ Covers(work'[d].block, work'[d].order, q)
      BY Zenon DEF AddOn, WorkOn
    <3> QED
      BY <2>2, <3>1, <3>2, ZenonT(40) DEF AddOn, WorkOn
  <2>6. ASSUME SmallRequests, races = 0
        PROVE  Updating' = {} /\ free_pages' = Pages - Cardinality(OutPages')
    <3>1. /\ work[c].pc \in {"subtract", "add"} /\ work'[c].pc \notin {"subtract", "add"}
          /\ work[c].pc # "idle"
      BY <2>1, <2>2
    <3>2. /\ Updating' = {} /\ work[c].loaded = free_pages
          /\ free_pages = Pages - Cardinality(OutPages)
          /\ \E b \in Nat, s \in 1..512 :
               /\ b = work[c].block /\ s = 2^work[c].order /\ b + s <= Pages
               /\ \A q : WorkOn(c, q) /\ q \in Index <=> q \in b..(b + s - 1)
      BY <1>16, <2>1, <2>2, <2>6, <3>1, ZenonT(60)
    <3>3. PICK b \in Nat, s \in 1..512 :
               /\ b = work[c].block /\ s = 2^work[c].order /\ b + s <= Pages
               /\ \A q : WorkOn(c, q) /\ q \in Index <=> q \in b..(b + s - 1)
      BY <3>2, Zenon
    <3>4. \A q : q \in OutPages' <=> q \in OutPages \/ q \in b..(b + s - 1)
      BY <1>15, <1>18, <2>4, <2>5, <3>3, Zenon DEF OutMeans
    <3>5. \A q \in OutPages : q \notin b..(b + s - 1)
      <4>1. ASSUME NEW q \in OutPages, q \in b..(b + s - 1) PROVE FALSE
        <5>1. WorkOn(c, q) /\ q \in Index
          BY <3>3, <4>1
        <5>2. ~HeldOn(q) /\ \A d \in Client : work[d].pc # "idle" /\ WorkOn(d, q) => d = c
          BY <1>1, <3>1, <5>1, OwnAlone
        <5>3. AddOn(q)
          BY <1>18, <4>1, <5>2, Zenon DEF OutMeans
        <5>4. PICK d \in Client : work[d].pc = "add" /\ WorkOn(d, q)
          BY <5>3, Zenon DEF AddOn
        <5>5. d = c
          BY <5>2, <5>4
        <5> QED
          BY <2>1, <5>4, <5>5
      <4> QED
        BY <4>1
    <3>9. /\ IsFiniteSet(OutPages) /\ Cardinality(OutPages) \in 0..Pages
          /\ Cardinality(OutPages') \in 0..Pages
      BY <1>20, <2>6
    <3>6. Cardinality(OutPages') = Cardinality(OutPages) + s
      <4>1. PICK S, T : S = OutPages /\ T = OutPages'
        OBVIOUS
      <4>2. PICK R : R = b..(b + s - 1)
        OBVIOUS
      <4>3. IsFiniteSet(S) /\ T = S \cup R /\ S \cap R = {}
        <5>1. IsFiniteSet(S) /\ (\A q : q \in T <=> q \in S \/ q \in R) /\ \A q \in S : q \notin R
          BY <3>4, <3>5, <3>9, <4>1, <4>2, ZenonT(60)
        <5> QED
          BY <5>1
      <4>4. Cardinality(T) = Cardinality(S) + s
        <5>1. IsFiniteSet(R) /\ Cardinality(R) = s
          BY <4>2, RunSize, Zenon
        <5>2. Cardinality(S \cup R) = Cardinality(S) + Cardinality(R)
          BY <4>3, <5>1, RunAdded
        <5> QED
          BY <4>3, <5>1, <5>2, Zenon
      <4> QED
        BY <4>1, <4>4, Zenon
    <3>7. free_pages' = Wrap(free_pages - s)
      BY <2>1, <3>2, <3>3
    <3>8. free_pages - s = Pages - Cardinality(OutPages') /\ free_pages - s \in 0..511
      <4>1. PICK m \in 0..Pages, n \in 0..Pages : m = Cardinality(OutPages) /\ n = Cardinality(OutPages')
        BY <3>9
      <4>2. free_pages = Pages - m /\ n = m + s
        BY <3>2, <3>6, <4>1, Zenon
      <4>3. free_pages - s = Pages - n /\ Pages - n \in 0..511
        BY <1>19, <4>2
      <4> QED
        BY <4>1, <4>3
    <3> QED
      BY <1>17, <3>2, <3>7, <3>8
  <2> QED
    BY <1>15, <2>1, <2>6 DEF CountInv
<1>22. ASSUME NEW c \in Client, StoreAdd(c) PROVE CountInv'
  <2>1. /\ work[c].pc = "add" /\ races' = races /\ total' = total /\ held' = held
        /\ free_pages' = Wrap(work[c].loaded + 2^work[c].order)
        /\ work' = [work EXCEPT ![c].pc = "merge", ![c].loaded = 0]
    BY <1>22 DEF StoreAdd
  <2>2. /\ work'[c].pc = "merge"
        /\ \A d \in Client : d # c => work'[d] = work[d]
    BY <1>1, <2>1, Zenon DEF TypeInv
  <2>3. \A q : HeldOn(q)' <=> HeldOn(q)
    BY <2>1, Zenon DEF HeldOn
  <2>4. \A q : AddOn(q)' <=> \E d \in Client : d # c /\ work[d].pc = "add" /\ WorkOn(d, q)
    <3>1. \A d \in Client : work'[d].pc = "add" => d # c
      BY <2>2
    <3>2. \A q : AddOn(q)' <=> \E d \in Client : /\ work'[d].pc = "add"
                                                 /\ Covers(work'[d].block, work'[d].order, q)
      BY Zenon DEF AddOn, WorkOn
    <3> QED
      BY <2>2, <3>1, <3>2, Zenon DEF WorkOn
  <2>5. \A q : AddOn(q) <=> AddOn(q)' \/ WorkOn(c, q)
    BY <2>1, <2>4, Zenon DEF AddOn
  <2>6. ASSUME SmallRequests, races = 0
        PROVE  Updating' = {} /\ free_pages' = Pages - Cardinality(OutPages')
    <3>1. /\ work[c].pc \in {"subtract", "add"} /\ work'[c].pc \notin {"subtract", "add"}
          /\ work[c].pc # "idle"
      BY <2>1, <2>2
    <3>2. /\ Updating' = {} /\ work[c].loaded = free_pages
          /\ free_pages = Pages - Cardinality(OutPages)
          /\ \E b \in Nat, s \in 1..512 :
               /\ b = work[c].block /\ s = 2^work[c].order /\ b + s <= Pages
               /\ \A q : WorkOn(c, q) /\ q \in Index <=> q \in b..(b + s - 1)
      BY <1>16, <2>1, <2>2, <2>6, <3>1, Zenon
    <3>3. PICK b \in Nat, s \in 1..512 :
               /\ b = work[c].block /\ s = 2^work[c].order /\ b + s <= Pages
               /\ \A q : WorkOn(c, q) /\ q \in Index <=> q \in b..(b + s - 1)
      BY <3>2, Zenon
    <3>4. \A q : q \in OutPages <=> q \in OutPages' \/ q \in b..(b + s - 1)
      BY <1>15, <1>18, <2>3, <2>5, <3>3, Zenon DEF OutMeans
    <3>5. \A q \in OutPages' : q \notin b..(b + s - 1)
      <4>1. ASSUME NEW q \in OutPages', q \in b..(b + s - 1) PROVE FALSE
        <5>1. WorkOn(c, q) /\ q \in Index
          BY <3>3, <4>1
        <5>2. ~HeldOn(q) /\ \A d \in Client : work[d].pc # "idle" /\ WorkOn(d, q) => d = c
          BY <1>1, <3>1, <5>1, OwnAlone
        <5>3. AddOn(q)'
          BY <1>18, <2>3, <4>1, <5>2, Zenon DEF OutMeans
        <5>4. PICK d \in Client : d # c /\ work[d].pc = "add" /\ WorkOn(d, q)
          BY <2>4, <5>3
        <5>5. work[d].pc # "idle"
          BY <5>4
        <5> QED
          BY <5>2, <5>4, <5>5
      <4> QED
        BY <4>1
    <3>9. /\ IsFiniteSet(OutPages') /\ Cardinality(OutPages) \in 0..Pages
          /\ Cardinality(OutPages') \in 0..Pages
      BY <1>20, <2>6
    <3>6. Cardinality(OutPages) = Cardinality(OutPages') + s
      <4>1. PICK S, T : S = OutPages' /\ T = OutPages
        OBVIOUS
      <4>2. PICK R : R = b..(b + s - 1)
        OBVIOUS
      <4>3. IsFiniteSet(S) /\ T = S \cup R /\ S \cap R = {}
        <5>1. IsFiniteSet(S) /\ (\A q : q \in T <=> q \in S \/ q \in R) /\ \A q \in S : q \notin R
          BY <3>4, <3>5, <3>9, <4>1, <4>2, ZenonT(60)
        <5> QED
          BY <5>1
      <4>4. Cardinality(T) = Cardinality(S) + s
        <5>1. IsFiniteSet(R) /\ Cardinality(R) = s
          BY <4>2, RunSize, Zenon
        <5>2. Cardinality(S \cup R) = Cardinality(S) + Cardinality(R)
          BY <4>3, <5>1, RunAdded
        <5> QED
          BY <4>3, <5>1, <5>2, Zenon
      <4> QED
        BY <4>1, <4>4, Zenon
    <3>7. free_pages' = Wrap(free_pages + s)
      BY <2>1, <3>2, <3>3
    <3>8. free_pages + s = Pages - Cardinality(OutPages') /\ free_pages + s \in 0..511
      <4>1. PICK m \in 0..Pages, n \in 0..Pages : m = Cardinality(OutPages) /\ n = Cardinality(OutPages')
        BY <3>9
      <4>2. free_pages = Pages - m /\ m = n + s
        BY <3>2, <3>6, <4>1, Zenon
      <4>3. free_pages + s = Pages - n /\ Pages - n \in 0..511
        BY <1>19, <4>2
      <4> QED
        BY <4>1, <4>3
    <3> QED
      BY <1>17, <3>2, <3>7, <3>8
  <2> QED
    BY <1>15, <2>1, <2>6 DEF CountInv
<1>23. ASSUME NEW c \in Client, FreeBlock(c) PROVE CountInv'
  <2>1. /\ UNCHANGED <<total, free_pages, held, races>> /\ work[c].pc = "merge"
        /\ work' = [work EXCEPT ![c] = Idle]
    BY <1>23 DEF FreeBlock
  <2>2. /\ work[c].pc \notin {"subtract", "add"} /\ work'[c].pc \notin {"subtract", "add"}
        /\ \A d \in Client : d # c => work'[d] = work[d]
    BY <1>2, <2>1 DEF Idle
  <2> QED
    BY <1>7, <2>1, <2>2
<1> QED
  BY <1>9, <1>10, <1>11, <1>12, <1>13, <1>21, <1>22, <1>23 DEF Next

LEMMA CountInvInit == BuddyInit => CountInv
<1> SUFFICES ASSUME BuddyInit PROVE CountInv
  OBVIOUS
<1>1. /\ work = [c \in Client |-> Idle] /\ held = [c \in Client |-> {}] /\ free_pages = Pages
      /\ total \in Totals
  BY DEF BuddyInit
<1>2. Updating = {}
  BY <1>1 DEF Updating, Idle
<1>3. OutPages = {}
  <2>1. OutMeans
    BY BuddyInvInit, OutByClient DEF BuddyInv
  <2>2. \A q : ~HeldOn(q) /\ ~AddOn(q)
    BY <1>1 DEF HeldOn, AddOn, Idle
  <2> QED
    BY <2>1, <2>2, Zenon DEF OutMeans
<1>4. Cardinality(OutPages) = 0 /\ Pages \in 1..511
  BY <1>1, <1>3, FS_EmptySet, Pool
<1> QED
  BY <1>1, <1>2, <1>4 DEF CountInv

(* Every reachable state keeps the count of free pages, too.               *)
THEOREM CountsHold == Spec => []CountInv
<1>1. BuddyInv /\ BuddyInv' /\ CountInv /\ [Next]_vars => CountInv'
  BY CountInvNext
<1> QED
  BY <1>1, CountInvInit, BooksHold, PTL DEF Spec
-----------------------------------------------------------------------------
(* Requests as small beside the waste as the firmware's are: page_allocator*)
(* has 512 pages, 511 of them left, and is asked for one page at a time;   *)
(* framebuffer_allocator has 400, 112 short of 512, and is asked for 33.   *)
RequestsAreSmall == \A n \in Totals : MaxRequest <= 2^GetOrder(n) - (n - 1) + 1

LEMMA SmallOnes == RequestsAreSmall /\ BuddyInv => SmallRequests
<1> SUFFICES ASSUME RequestsAreSmall, BuddyInv PROVE SmallRequests
  OBVIOUS
<1>1. total \in Totals
  BY Zenon DEF BuddyInv, TypeInv
<1>2. MaxRequest <= 2^GetOrder(total) - (total - 1) + 1
  BY <1>1, Zenon DEF RequestsAreSmall
<1> QED
  BY <1>2, Zenon DEF SmallRequests, Waste, MaxOrder, Pages

LEMMA TopIsExact == BuddyInv => max_order_free = Max({0} \cup {f.order : f \in FreeListed})
<1> SUFFICES ASSUME BuddyInv PROVE max_order_free = Max({0} \cup {f.order : f \in FreeListed})
  OBVIOUS
<1> DEFINE S == {0} \cup {f.order : f \in FreeListed}
<1>1. TypeInv /\ TopInv
  BY DEF BuddyInv
<1>2. max_order_free \in Order /\ Order \subseteq Nat
  <2>1. total \in Totals /\ max_order_free \in Order
    BY <1>1, Zenon DEF TypeInv
  <2>2. Order \subseteq 0..9
    BY <2>1, Pool
  <2>3. 0..9 \subseteq Nat
    OBVIOUS
  <2> QED
    BY <2>1, <2>2, <2>3, Zenon
<1>3. ASSUME NEW f \in FreeListed PROVE f.order \in Order /\ f.order <= max_order_free
  <2>1. PICK o \in Order : \E i \in DOMAIN free_lists[o] : f = [block |-> free_lists[o][i], order |-> o]
    BY DEF FreeListed
  <2>2. PICK i \in DOMAIN free_lists[o] : f = [block |-> free_lists[o][i], order |-> o]
    BY <2>1
  <2>3. f.order = o /\ In(free_lists[o], free_lists[o][i])
    BY <2>2 DEF In
  <2>4. free_lists[o] # <<>>
    <3>1. free_lists[o] \in Seq(Index)
      BY <1>1, Zenon DEF TypeInv
    <3> QED
      BY <2>3, <3>1, NonEmpty
  <2> QED
    BY <1>1, <2>3, <2>4 DEF TopInv
<1>4. max_order_free \in S
  <2>1. CASE max_order_free = 0
    BY <2>1
  <2>2. CASE max_order_free # 0
    <3>1. free_lists[max_order_free] # <<>> /\ free_lists[max_order_free] \in Seq(Index)
      BY <1>1, <1>2, <2>2, Zenon DEF TopInv, TypeInv
    <3>2. PICK x : In(free_lists[max_order_free], x)
      BY <3>1, NonEmpty
    <3>3. PICK i \in DOMAIN free_lists[max_order_free] : free_lists[max_order_free][i] = x
      BY <3>2 DEF In
    <3>4. [block |-> x, order |-> max_order_free] \in FreeListed
      BY <1>2, <3>3 DEF FreeListed
    <3>5. [block |-> x, order |-> max_order_free].order = max_order_free
      OBVIOUS
    <3> QED
      BY <3>4, <3>5
  <2> QED
    BY <2>1, <2>2
<1>5. \A y \in S : y \in Nat /\ max_order_free >= y
  BY <1>2, <1>3
<1> HIDE DEF S
<1>6. Max(S) \in S /\ \A y \in S : Max(S) >= y
  BY <1>4, <1>5, Zenon DEF Max
<1>7. max_order_free = Max(S)
  <2>1. PICK m \in Nat : m = Max(S) /\ m >= max_order_free /\ max_order_free >= m
    BY <1>4, <1>5, <1>6
  <2> QED
    BY <1>2, <2>1
<1> QED
  BY <1>7 DEF S

LEMMA CountIsExact == BuddyInv /\ CountInv /\ SmallRequests => CountsAreExact
<1> SUFFICES ASSUME BuddyInv, CountInv, SmallRequests, Busy = {}, races = 0
             PROVE  free_pages = Calculated
  BY TopIsExact DEF CountsAreExact
<1>1. TypeInv /\ LegalInv
  BY DEF BuddyInv
<1>2. free_pages = Pages - Cardinality(OutPages)
  BY DEF CountInv
<1>3. \A t \in Tokens : Out(t) <=> Counted(t)
  <2> SUFFICES ASSUME NEW t \in Tokens, t.who = "work" PROVE FALSE
    BY DEF Out, Counted
  <2>1. IsFree(t) \/ IsWasted(t) \/ IsHeld(t) \/ IsWork(t)
    BY <1>1, Members, Zenon DEF Membership
  <2>2. IsWork(t)
    BY <2>1, TokenKinds
  <2> QED
    BY <2>2 DEF IsWork, Busy
<1>4. \A p : p \in OutPages <=> p \in {q \in Index : \E b \in Taken : q \in Span(b)}
  <2>1. ASSUME NEW p \in Index
        PROVE  (\E t \in Tokens : Counted(t) /\ On(t, p)) <=> \E b \in Taken : p \in Span(b)
    <3> DEFINE C(t) == p \in Span(TakenView(t))
    <3>1. \A t \in Tokens : C(t) <=> On(t, p)
      BY <1>1, SpanIsOn
    <3>2. \A x : x \in Taken <=> \E t \in Tokens : Out(t) /\ x = TakenView(t)
      BY <1>1, Views
    <3> QED
      BY <1>3, <3>1, <3>2, Zenon
  <2> QED
    BY <2>1, Zenon DEF OutPages
<1>5. OutPages = {q \in Index : \E b \in Taken : q \in Span(b)}
  BY <1>4, Zenon
<1> QED
  BY <1>2, <1>5, Zenon DEF Calculated

(* The two figures find_pool trusts: max_order_free is the order of the    *)
(* largest free block after every split and merge, and free_pages is what  *)
(* print_allocator calculates whenever nobody is between the two and no    *)
(* two updates overlapped, for requests as small as the firmware's.        *)
THEOREM CountsAreExactHolds == RequestsAreSmall => (Spec => []CountsAreExact)
<1> SUFFICES ASSUME RequestsAreSmall PROVE Spec => []CountsAreExact
  OBVIOUS
<1>1. BuddyInv /\ CountInv => CountsAreExact
  BY SmallOnes, CountIsExact
<1> QED
  BY <1>1, BooksHold, CountsHold, PTL
-----------------------------------------------------------------------------
(* Refusals: while a page below the waste is in nobody's block, it is in a *)
(* free block, which buddy_allocate finds for a request for one page.      *)
LEMMA FreePageIsFound ==
    ASSUME BuddyInv, CountInv, SmallRequests, races = 0, ~Full(Ws)
    PROVE  PoolAccepts(0, 1) /\ FittingOrders(0, 1) # {}
<1>1. TypeInv /\ LegalInv /\ PartInv /\ RequestInv
  BY DEF BuddyInv
<1>2. /\ MaxOrder \in 1..9 /\ Order = 0..MaxOrder /\ Pages \in 1..511 /\ Waste \in 1..512
      /\ Ws \in Nat /\ Ws < Pages /\ Pages + Waste = 2^MaxOrder
      /\ \A i : IsWaste(i) <=> i \in Ws..Pages
  <2>1. total \in Totals
    BY <1>1, Zenon DEF TypeInv
  <2>2. /\ MaxOrder \in 1..9 /\ Pages \in 1..511 /\ Waste \in 1..512
        /\ Pages - Waste \in Nat /\ Pages + Waste = 2^MaxOrder
        /\ \A i : IsWaste(i) <=> i \in (Pages - Waste)..Pages
    BY <2>1, Pool
  <2>3. Pages - Waste < Pages
    BY <2>2
  <2> QED
    BY <2>2, <2>3, Zenon DEF Ws, Order
<1>3. PICK q \in 0..(Ws - 1) : \A b \in Taken : q \notin Span(b)
  BY DEF Full
<1>4. q \in Index
  <2>1. PICK m \in Nat : m = 2^MaxOrder /\ Pages < m
    BY <1>2
  <2>2. Index = 0..(m - 1)
    BY <2>1, Zenon DEF Index
  <2> QED
    BY <1>2, <2>1, <2>2
<1>5. PICK t \in Tokens : On(t, q)
  BY <1>1, <1>4, Zenon DEF PartInv, Partition
<1>6. ~Out(t)
  <2> SUFFICES ASSUME Out(t) PROVE FALSE
    OBVIOUS
  <2>1. TakenView(t) \in Taken
    BY <1>1, Views, Zenon
  <2>2. q \in Span(TakenView(t))
    BY <1>1, <1>4, <1>5, SpanIsOn
  <2> QED
    BY <1>3, <2>1, <2>2
<1>7. t.block \in Nat /\ t.block < Ws
  <2>1. t.block \in Nat
    BY <1>1, TokenFacts
  <2>2. t.block <= q
    BY <1>5, Zenon DEF On, Covers
  <2> QED
    BY <1>2, <2>1, <2>2
<1>8. ~IsWaste(t.block)
  BY <1>2, <1>7
<1>9. t.who = "free"
  <2>1. t.who # "waste"
    BY <1>1, <1>8, Zenon DEF LegalInv
  <2>2. t.who \in {"free", "waste", "held", "work"}
    BY <1>1, TokenFacts
  <2> QED
    BY <1>6, <2>1, <2>2 DEF Out
<1>10. PICK o \in Order, b \in Index : In(free_lists[o], b) /\ b = t.block
  <2>1. IsFree(t)
    <3>1. IsFree(t) \/ IsWasted(t) \/ IsHeld(t) \/ IsWork(t)
      BY <1>1, Members, Zenon DEF Membership
    <3> QED
      BY <1>9, <3>1, TokenKinds
  <2>2. PICK o \in Order, b \in Index : In(free_lists[o], b) /\ t = Token("free", 0, b, o, 0)
    BY <2>1, Zenon DEF IsFree
  <2>3. t.block = b
    BY <2>2 DEF Token
  <2> QED
    BY <2>2, <2>3
<1>11. FittingOrders(0, 1) # {}
  <2>1. PICK i \in DOMAIN free_lists[o] : free_lists[o][i] = b
    BY <1>10, Zenon DEF In
  <2>2. b + 1 - 1 = b
    BY <1>7, <1>10
  <2>3. ~IsWaste(free_lists[o][i] + 1 - 1)
    BY <1>8, <1>10, <2>1, <2>2, Zenon
  <2>4. Fits(o, i, 1)
    BY <2>3, Zenon DEF Fits
  <2>5. o \in FittingOrders(0, 1)
    BY <1>2, <2>4 DEF FittingOrders
  <2> QED
    BY <2>5
<1>12. q \notin OutPages
  <2> SUFFICES ASSUME q \in OutPages PROVE FALSE
    OBVIOUS
  <2>1. PICK u \in Tokens : Counted(u) /\ On(u, q)
    BY Zenon DEF OutPages
  <2>2. u = t
    BY <1>1, <1>4, <1>5, <2>1, Alone
  <2> QED
    BY <1>9, <2>1, <2>2 DEF Counted
<1>13. Cardinality(OutPages) \in 0..(Pages - 1)
  <2>1. /\ OutPages \subseteq 0..(Pages - 1) /\ IsFiniteSet(OutPages)
        /\ Cardinality(OutPages) \in 0..Pages
    BY <1>1, OutPagesFit
  <2>2. IsFiniteSet(0..(Pages - 1)) /\ Cardinality(0..(Pages - 1)) = Pages
    <3>1. Pages \in 1..511
      BY <1>2
    <3> QED
      BY <3>1, FS_Interval
  <2>3. q \in 0..(Pages - 1)
    BY <1>2
  <2>4. Cardinality(OutPages) # Pages
    <3>1. Cardinality(OutPages) = Pages => 0..(Pages - 1) = OutPages
      BY <2>1, <2>2, FS_Subset
    <3> QED
      BY <1>12, <2>3, <3>1
  <2> QED
    BY <1>2, <2>1, <2>4
<1>14. free_pages >= 1
  <2>1. free_pages = Pages - Cardinality(OutPages)
    BY DEF CountInv
  <2>2. PICK m \in 0..(Pages - 1) : m = Cardinality(OutPages)
    BY <1>13
  <2>3. free_pages = Pages - m
    BY <2>1, <2>2, Zenon
  <2> QED
    BY <1>2, <2>3
<1>15. max_order_free >= 0 /\ 0 # MaxOrder
  <2>1. max_order_free \in Order
    BY <1>1, Zenon DEF TypeInv
  <2> QED
    BY <1>2, <2>1
<1> QED
  BY <1>11, <1>14, <1>15 DEF PoolAccepts

LEMMA RefusedInvNext == BuddyInv /\ CountInv /\ RefusedInv /\ [Next]_vars => RefusedInv'
<1> SUFFICES ASSUME BuddyInv, CountInv, RefusedInv, [Next]_vars,
                    SmallRequests', (refused = 1)', (races = 0)'
             PROVE  Full(Pages - Waste)'
  BY DEF RefusedInv, RefusedOnlyWhenFull
<1>1. total' = total
  BY DEF Next, vars, Allocate, AllocateFails, LoadForSub, StoreSub, LoadForAdd, StoreAdd, FreeBlock
<1>2. Pages' = Pages /\ Waste' = Waste /\ Ws' = Ws /\ SmallRequests
  BY <1>1, Same DEF SmallRequests
<1>3. UNCHANGED vars \/ \E c \in Client : AllocateFails(c)
  BY DEF Next, Allocate, LoadForSub, StoreSub, LoadForAdd, StoreAdd, FreeBlock
<1>4. UNCHANGED <<held, work>> /\ races = 0
  BY <1>3 DEF vars, AllocateFails
<1>5. Taken' = Taken
  BY <1>4 DEF Taken, Busy
<1>6. Full(Ws)
  <2>1. CASE UNCHANGED vars
    <3>1. refused = 1
      BY <2>1 DEF vars
    <3> QED
      BY <1>2, <1>4, <3>1 DEF RefusedInv, RefusedOnlyWhenFull, Ws
  <2>2. ASSUME NEW c \in Client, AllocateFails(c) PROVE Full(Ws)
    <3>1. ~PoolAccepts(GetOrder(1), 1) \/ FittingOrders(GetOrder(1), 1) = {}
      <4>1. PICK count \in 1..MaxRequest :
              /\ LET order == GetOrder(count)
                 IN  ~PoolAccepts(order, count) \/ FittingOrders(order, count) = {}
              /\ refused' = count
        BY <2>2, Zenon DEF AllocateFails
      <4>2. count = 1
        BY <4>1
      <4> QED
        BY <4>1, <4>2, Zenon
    <3>2. GetOrder(1) = 0
      <4>1. GetOrder(1) \in 0..9 /\ \A k \in 0..9 : 1 <= 2^k => GetOrder(1) <= k
        BY Orders
      <4>2. 1 <= 2^0
        OBVIOUS
      <4>3. GetOrder(1) <= 0
        BY <4>1, <4>2
      <4> QED
        BY <4>1, <4>3
    <3> QED
      BY <1>2, <1>4, <3>1, <3>2, FreePageIsFound, Zenon
  <2> QED
    BY <1>3, <2>1, <2>2
<1>7. Full(Ws)' <=> Full(Ws)
  BY <1>2, <1>5, Zenon DEF Full, Span
<1> QED
  BY <1>2, <1>5, <1>6, Zenon DEF Full, Span, Ws

(* A request for one page is refused only when every page below the waste  *)
(* is in a block somebody has, whatever others are doing meanwhile, for    *)
(* requests as small as the firmware's: PoolAccepts and the search miss no *)
(* free block.                                                             *)
THEOREM RefusedOnlyWhenFullHolds == RequestsAreSmall => (Spec => []RefusedOnlyWhenFull)
<1> SUFFICES ASSUME RequestsAreSmall PROVE Spec => []RefusedOnlyWhenFull
  OBVIOUS
<1>1. BuddyInit => RefusedInv
  BY DEF BuddyInit, RefusedInv, RefusedOnlyWhenFull
<1>2. BuddyInv /\ CountInv /\ RefusedInv /\ [Next]_vars => RefusedInv'
  BY RefusedInvNext
<1>3. BuddyInv /\ RefusedInv => RefusedOnlyWhenFull
  BY SmallOnes DEF RefusedInv
<1> QED
  BY <1>1, <1>2, <1>3, BooksHold, CountsHold, PTL DEF Spec
-----------------------------------------------------------------------------
(* The page store that the allocator implements.                           *)
RunOf(x) == [first |-> x.block, count |-> x.count]
Runs     == {[first |-> b.block, count |-> b.count] : b \in Taken}

TakenMeans == \A x : x \in Taken <=>
    (\E c \in Client : x \in held[c]) \/ (\E c \in Client : work[c].pc # "idle" /\ x = TakenView(work[c]))

LEMMA TakenByClient == TakenMeans
  BY DEF TakenMeans, Taken, Busy, TakenView

LEMMA TakenByClientLater == TakenMeans'
  BY TakenByClient, PTL

LEMMA LargestPool == total \in Totals => Max(Totals) \in Nat /\ total <= Max(Totals)
<1> SUFFICES ASSUME total \in Totals PROVE Max(Totals) \in Nat /\ total <= Max(Totals)
  OBVIOUS
<1>1. Totals \subseteq 0..512 /\ 512 \in Nat /\ \A n \in Totals : n \in Nat
  BY BuddyAssumption
<1>2. PICK m \in Totals : \A k \in Totals : m >= k
  BY <1>1, Greatest, Zenon
<1>3. Max(Totals) \in Totals /\ \A k \in Totals : Max(Totals) >= k
  BY <1>2, Zenon DEF Max
<1> QED
  BY <1>1, <1>3

LEMMA AllocateGives ==
    ASSUME BuddyInv, SmallRequests, NEW c \in Client, Allocate(c)
    PROVE  \E r \in Store!Run : Store!Give(r)
<1>1. TypeInv /\ LegalInv /\ RequestInv /\ PartInv
  BY DEF BuddyInv
<1>2. PICK count \in 1..MaxRequest, order \in Order, o \in Order, b \in Index :
        Granted(c, count, order, o, b)
  BY AllocateGrants
<1>3. /\ work[c].pc = "idle" /\ order <= o /\ count <= 2^order
      /\ In(free_lists[o], b) /\ b < Ws /\ ~IsWaste(b + count - 1)
      /\ work' = [work EXCEPT ![c] = [pc |-> "allocated", block |-> b, order |-> order,
                                      count |-> count, loaded |-> 0]]
  BY <1>2, Zenon DEF Granted
<1>4. total \in Totals /\ held' = held /\ total' = total
  BY <1>1, Zenon DEF TypeInv, Allocate
<1>5. /\ Pages \in 1..511 /\ Waste \in 1..512 /\ Pages - Waste \in Nat /\ Ws = Pages - Waste
      /\ Order \subseteq 0..9 /\ Pages + Waste = 2^MaxOrder
      /\ \A i : IsWaste(i) <=> i \in (Pages - Waste)..Pages
  BY <1>4, Pool, Zenon DEF Ws
<1>6. b \in Nat
  <2>1. Index \subseteq Nat
    BY <1>4, PagesAreNumbers
  <2> QED
    BY <2>1
<1>7. b + count <= Ws /\ Ws <= Pages
  <2>1. MaxRequest \in 1..512 /\ MaxRequest <= Waste + 1
    BY BuddyAssumption DEF SmallRequests
  <2>2. b + count - 1 \notin (Pages - Waste)..Pages
    BY <1>3, <1>5
  <2> QED
    BY <1>3, <1>5, <1>6, <2>1, <2>2
<1>8. Pages <= Max(Totals) /\ Max(Totals) \in Nat
  BY <1>4, <1>5, LargestPool, BuddyAssumption DEF Pages
<1> DEFINE r == [first |-> b, count |-> count]
<1>9. r \in Store!Run
  <2>1. b \in 0..Max(Totals) /\ count \in 0..Max(Totals)
    BY <1>5, <1>6, <1>7, <1>8
  <2> QED
    BY <2>1 DEF Store!Run
<1>10. r.count > 0 /\ r.first = b /\ r.count = count
  OBVIOUS
<1>11. b..(b + count - 1) \subseteq 0..(Pages - 1)
  BY <1>5, <1>6, <1>7
<1>12. ASSUME NEW x \in Taken, NEW q \in x.block..(x.block + x.count - 1), q \in b..(b + count - 1)
       PROVE  FALSE
  <2>1. PICK u \in Tokens : Out(u) /\ x = TakenView(u)
    BY <1>1, Views
  <2>2. x.block = u.block /\ x.count = u.count
    BY <2>1 DEF TakenView
  <2>3. u.block \in Nat /\ u.order \in 0..9 /\ u.count \in 1..MaxRequest /\ u.order = GetOrder(u.count)
    BY <1>1, <2>1, TokenFacts DEF RequestInv, Out
  <2>4. PICK s : s = 2^u.order
    OBVIOUS
  <2>5. s \in 1..512 /\ u.count <= s
    <3>1. u.count \in 1..512
      <4>1. u.count \in 1..MaxRequest
        BY <2>3
      <4>2. MaxRequest \in 1..512
        BY BuddyAssumption
      <4> QED
        BY <4>1, <4>2
    <3>2. u.count <= 2^GetOrder(u.count)
      BY <3>1, Orders
    <3>3. s \in 1..512
      BY <2>3, <2>4, Sized, Zenon
    <3> QED
      BY <2>3, <2>4, <3>2, <3>3, Zenon
  <2>6. q \in Nat /\ u.block <= q /\ q < u.block + s
    BY <1>12, <2>2, <2>3, <2>5
  <2>7. On(u, q)
    BY <2>4, <2>6, Zenon DEF On, Covers
  <2>8. PICK t : t = Token("free", 0, b, o, 0)
    OBVIOUS
  <2>9. t \in Tokens /\ t.who = "free" /\ t.block = b /\ t.order = o
    BY <1>1, <1>3, <2>8, FreeHasToken DEF Token
  <2>10. PICK n, m : n = 2^o /\ m = 2^order
    OBVIOUS
  <2>11. m <= n /\ m \in 1..512 /\ n \in 1..512 /\ count <= m
    <3>1. o \in 0..9 /\ order \in 0..9
      BY <1>5
    <3>2. 2^order <= 2^o /\ 2^order \in 1..512 /\ 2^o \in 1..512
      BY <1>3, <3>1, Sized, Smaller, Zenon
    <3> QED
      BY <1>3, <2>10, <3>2, Zenon
  <2>12. b <= q /\ q < b + n
    BY <1>6, <1>12, <2>6, <2>11
  <2>13. On(t, q)
    BY <2>9, <2>10, <2>12, Zenon DEF On, Covers
  <2>14. q \in Index
    <3>1. PICK k \in Nat : k = 2^MaxOrder /\ Pages < k
      BY <1>5
    <3>2. Index = 0..(k - 1)
      BY <3>1, Zenon DEF Index
    <3> QED
      BY <1>5, <1>6, <1>7, <1>12, <2>6, <3>1, <3>2
  <2>15. u = t
    BY <1>1, <2>7, <2>9, <2>13, <2>14, Alone
  <2> QED
    BY <2>1, <2>9, <2>15 DEF Out
<1>13. Runs' = Runs \cup {r}
  <2> DEFINE z == [block |-> b, order |-> order, count |-> count]
  <2>1. \A x : x \in Taken' <=> x \in Taken \/ x = z
    <3>1. work'[c].pc # "idle" /\ z = TakenView(work'[c])
      BY <1>1, <1>3, Zenon DEF TypeInv, TakenView
    <3>2. \A d \in Client : d # c => work'[d] = work[d]
      BY <1>1, <1>3, Zenon DEF TypeInv
    <3> HIDE DEF z
    <3>3. \A x : x \in Taken' <=> \/ \E d \in Client : x \in held[d]
                                  \/ \E d \in Client : work'[d].pc # "idle" /\ x = TakenView(work'[d])
      BY <1>4, TakenByClientLater, Zenon DEF TakenMeans, TakenView
    <3>4. \A x : (\E d \in Client : work'[d].pc # "idle" /\ x = TakenView(work'[d]))
                   <=> (\E d \in Client : work[d].pc # "idle" /\ x = TakenView(work[d])) \/ x = z
      BY <1>3, <3>1, <3>2, Zenon
    <3> QED
      BY <3>3, <3>4, TakenByClient, Zenon DEF TakenMeans
  <2>2. RunOf(z) = r
    BY DEF RunOf
  <2>3. Runs' = {RunOf(x) : x \in Taken'} /\ Runs = {RunOf(x) : x \in Taken}
    BY Zenon DEF Runs, RunOf
  <2> HIDE DEF z, r
  <2> QED
    BY <2>1, <2>2, <2>3
<1>14. (0..(Pages - 1))' = 0..(Pages - 1)
  BY <1>4, Same
<1> HIDE DEF r
<1>15. Store!Give(r)
  <2>1. \A g \in Runs : g.first..(g.first + g.count - 1) \cap b..(b + count - 1) = {}
    BY <1>12 DEF Runs
  <2> QED
    BY <1>10, <1>11, <1>13, <1>14, <2>1 DEF Store!Give, Store!PagesOf, Runs
<1> QED
  BY <1>9, <1>15

LEMMA FreeBlockTakesBack ==
    ASSUME BuddyInv, NEW c \in Client, FreeBlock(c), SmallRequests
    PROVE  \E r \in Store!Run : Store!TakeBack(r)
<1>1. TypeInv /\ LegalInv /\ RequestInv /\ PartInv
  BY DEF BuddyInv
<1>2. /\ work[c].pc = "merge" /\ work[c].pc # "idle" /\ work' = [work EXCEPT ![c] = Idle]
      /\ total' = total /\ held' = held
  BY DEF FreeBlock
<1>3. work'[c].pc = "idle" /\ \A d \in Client : d # c => work'[d] = work[d]
  BY <1>1, <1>2, Zenon DEF TypeInv, Idle
<1> DEFINE z == TakenView(work[c])
           r == RunOf(z)
<1>4. \A x : x \in Taken <=> x \in Taken' \/ x = z
  <2>1. \A x : x \in Taken' <=> \/ \E d \in Client : x \in held[d]
                                \/ \E d \in Client : work'[d].pc # "idle" /\ x = TakenView(work'[d])
    BY <1>2, TakenByClientLater, Zenon DEF TakenMeans, TakenView
  <2>2. \A d \in Client : work'[d].pc # "idle" => d # c
    BY <1>3
  <2>3. \A x : (\E d \in Client : work[d].pc # "idle" /\ x = TakenView(work[d]))
                 <=> (\E d \in Client : work'[d].pc # "idle" /\ x = TakenView(work'[d])) \/ x = z
    BY <1>2, <1>3, <2>2, Zenon
  <2> QED
    BY <2>1, <2>3, TakenByClient, Zenon DEF TakenMeans
<1>5. /\ WorkToken(c) \in Tokens /\ Aligned(work[c].block, work[c].order)
      /\ work[c].block \in Index /\ work[c].count \in 1..MaxRequest
  BY <1>1, <1>2, WorkHasToken
<1>6. WorkOn(c, work[c].block)
  <2>1. work[c].block \in Nat /\ work[c].order \in 0..9
    BY <1>5, Zenon DEF Aligned
  <2>2. PICK s : s = 2^work[c].order
    OBVIOUS
  <2>3. s \in 1..512
    BY <2>1, <2>2, Sized, Zenon
  <2>4. work[c].block <= work[c].block /\ work[c].block < work[c].block + s
    BY <2>1, <2>3
  <2> QED
    BY <2>2, <2>4, Zenon DEF WorkOn, Covers
<1>7. /\ ~HeldOn(work[c].block)
      /\ \A d \in Client : work[d].pc # "idle" /\ WorkOn(d, work[c].block) => d = c
  BY <1>1, <1>2, <1>5, <1>6, OwnAlone
<1>8. ASSUME NEW x \in Taken', RunOf(x) = r PROVE FALSE
  <2>1. x.block = work[c].block
    BY <1>8 DEF RunOf, TakenView
  <2>2. PICK u \in Tokens : Out(u) /\ x = TakenView(u)
    <3>1. x \in Taken
      BY <1>4, <1>8
    <3> QED
      BY <1>1, <3>1, Views
  <2>3. u.block = work[c].block /\ u.order \in 0..9 /\ u.block \in Nat
    BY <1>1, <2>1, <2>2, TokenFacts DEF TakenView
  <2>4. x.order = u.order
    BY <2>2 DEF TakenView
  <2>5. PICK s : s = 2^x.order
    OBVIOUS
  <2>6. s \in 1..512
    BY <2>3, <2>4, <2>5, Sized, Zenon
  <2>7. x.block <= work[c].block /\ work[c].block < x.block + s
    BY <2>1, <2>3, <2>6
  <2>8. Covers(x.block, x.order, work[c].block)
    BY <2>5, <2>7, Zenon DEF Covers
  <2>9. \A d \in Client : x \notin held[d]
    BY <1>7, <2>8, Zenon DEF HeldOn
  <2>10. PICK d \in Client : work'[d].pc # "idle" /\ x = TakenView(work'[d])
    BY <1>2, <1>8, <2>9, TakenByClientLater, Zenon DEF TakenMeans, TakenView
  <2>11. d # c /\ work'[d] = work[d]
    BY <1>3, <2>10
  <2>12. WorkOn(d, work[c].block)
    <3>1. x.block = work[d].block /\ x.order = work[d].order
      BY <2>10, <2>11 DEF TakenView
    <3> QED
      BY <2>8, <3>1, Zenon DEF WorkOn
  <2> QED
    BY <1>7, <2>10, <2>11, <2>12, Zenon
<1>9. Runs' = {RunOf(x) : x \in Taken'} /\ Runs = {RunOf(x) : x \in Taken}
  BY Zenon DEF Runs, RunOf
<1>10. r \in Store!Run
  <2>1. Max(Totals) \in Nat /\ Pages <= Max(Totals) /\ Pages \in 1..511
    <3>1. total \in Totals
      BY <1>1, Zenon DEF TypeInv
    <3>2. Max(Totals) \in Nat /\ total <= Max(Totals) /\ Pages \in 1..511 /\ total \in 2..512
      BY <3>1, LargestPool, Pool
    <3> QED
      BY <3>2 DEF Pages
  <2>2. PICK t : t = WorkToken(c)
    OBVIOUS
  <2>3. /\ t.block = work[c].block /\ t.order = work[c].order /\ t.count = work[c].count
        /\ Out(t) /\ t \in Tokens
    BY <1>5, <2>2 DEF WorkToken, Token, Out
  <2>4. t.block \in Nat /\ t.block + t.count - 1 < Ws
    BY <1>1, <2>3, RunsFit
  <2>5. Ws <= Pages /\ Ws \in Int
    <3>1. total \in Totals
      BY <1>1, Zenon DEF TypeInv
    <3>2. Pages \in 1..511 /\ Waste \in 1..512
      BY <3>1, Pool
    <3> QED
      BY <3>2 DEF Ws
  <2>6. t.count \in 1..512
    <3>1. t.count \in 1..MaxRequest
      BY <1>5, <2>3, Zenon
    <3>2. MaxRequest \in 1..512
      BY BuddyAssumption
    <3> QED
      BY <3>1, <3>2
  <2>7. PICK x, n, w, p, m : x = t.block /\ n = t.count /\ w = Ws /\ p = Pages /\ m = Max(Totals)
    OBVIOUS
  <2>8. x \in 0..m /\ n \in 0..m
    <3>1. /\ x \in Nat /\ n \in 1..512 /\ x + n - 1 < w /\ w <= p /\ w \in Int
          /\ p \in 1..511 /\ p <= m /\ m \in Nat
      BY <2>1, <2>4, <2>5, <2>6, <2>7, Zenon
    <3> QED
      BY <3>1
  <2>9. r = [first |-> x, count |-> n]
    BY <2>3, <2>7 DEF RunOf, TakenView
  <2>10. Store!Run = [first : 0..m, count : 0..m]
    BY <2>7, Zenon DEF Store!Run
  <2> QED
    BY <2>8, <2>9, <2>10
<1> HIDE DEF z, r
<1>11. r = RunOf(z)
  BY DEF r
<1>12. r \in Runs /\ Runs' = Runs \ {r}
  BY <1>4, <1>8, <1>9, <1>11
<1>13. PICK g : g = r
  OBVIOUS
<1>14. g \in Store!Run /\ g \in Runs /\ Runs' = Runs \ {g}
  BY <1>10, <1>12, <1>13
<1>15. Store!TakeBack(g)
  <2>1. (0..(Pages - 1))' = 0..(Pages - 1)
    BY <1>2, Same
  <2> QED
    BY <1>14, <2>1 DEF Store!TakeBack, Runs
<1> QED
  BY <1>14, <1>15

(* Between the lists and free_pages nothing changes in the store.          *)
LEMMA SameTaken ==
    ASSUME \A c \in Client : held'[c] = held[c], NEW c \in Client,
           work[c].pc # "idle", work'[c].pc # "idle", TakenView(work'[c]) = TakenView(work[c]),
           \A d \in Client : d # c => work'[d] = work[d]
    PROVE  Taken' = Taken
<1>1. \A x : x \in Taken' <=> \/ \E d \in Client : x \in held'[d]
                              \/ \E d \in Client : work'[d].pc # "idle" /\ x = TakenView(work'[d])
  BY TakenByClientLater, Zenon DEF TakenMeans, TakenView
<1>2. \A x : (\E d \in Client : work'[d].pc # "idle" /\ x = TakenView(work'[d]))
               <=> (\E d \in Client : work[d].pc # "idle" /\ x = TakenView(work[d]))
  BY Zenon
<1>3. \A x : x \in Taken' <=> x \in Taken
  BY <1>1, <1>2, TakenByClient, Zenon DEF TakenMeans
<1> QED
  BY <1>3, Zenon

LEMMA StoreSteps ==
    ASSUME BuddyInv, SmallRequests, [Next]_vars
    PROVE  Store!Next \/ ((0..(Pages - 1))' = 0..(Pages - 1) /\ Runs' = Runs)
<1>1. TypeInv
  BY DEF BuddyInv
<1>2. total' = total
  BY Zenon DEF Next, vars, Allocate, AllocateFails, LoadForSub, StoreSub, LoadForAdd, StoreAdd, FreeBlock
<1>3. (0..(Pages - 1))' = 0..(Pages - 1)
  BY <1>2, Same
<1>4. SUFFICES ASSUME ~Store!Next PROVE Taken' = Taken
  BY <1>3, Zenon DEF Runs
<1>5. CASE UNCHANGED vars
  BY <1>5 DEF vars, Taken, Busy
<1>6. ASSUME NEW c \in Client, Allocate(c) PROVE FALSE
  BY <1>4, <1>6, AllocateGives DEF Store!Next
<1>7. ASSUME NEW c \in Client, FreeBlock(c) PROVE FALSE
  BY <1>4, <1>7, FreeBlockTakesBack DEF Store!Next
<1>8. ASSUME NEW c \in Client, AllocateFails(c) PROVE Taken' = Taken
  BY <1>8 DEF AllocateFails, Taken, Busy
<1>9. ASSUME NEW c \in Client, LoadForSub(c) PROVE Taken' = Taken
  <2>1. /\ held' = held /\ work[c].pc = "allocated"
        /\ work' = [work EXCEPT ![c].pc = "subtract", ![c].loaded = free_pages]
    BY <1>9 DEF LoadForSub
  <2>2. /\ work[c].pc # "idle" /\ work'[c].pc # "idle" /\ TakenView(work'[c]) = TakenView(work[c])
        /\ \A d \in Client : d # c => work'[d] = work[d]
    BY <1>1, <2>1, Zenon DEF TypeInv, TakenView
  <2> QED
    BY <2>1, <2>2, SameTaken, Zenon
<1>10. ASSUME NEW c \in Client, StoreAdd(c) PROVE Taken' = Taken
  <2>1. /\ held' = held /\ work[c].pc = "add"
        /\ work' = [work EXCEPT ![c].pc = "merge", ![c].loaded = 0]
    BY <1>10 DEF StoreAdd
  <2>2. /\ work[c].pc # "idle" /\ work'[c].pc # "idle" /\ TakenView(work'[c]) = TakenView(work[c])
        /\ \A d \in Client : d # c => work'[d] = work[d]
    BY <1>1, <2>1, Zenon DEF TypeInv, TakenView
  <2> QED
    BY <2>1, <2>2, SameTaken
<1>11. ASSUME NEW c \in Client, StoreSub(c) PROVE Taken' = Taken
  <2>1. /\ work[c].pc = "subtract"
        /\ held' = [held EXCEPT ![c] = @ \cup {TakenView(work[c])}]
        /\ work' = [work EXCEPT ![c] = Idle]
    BY <1>11 DEF StoreSub, TakenView
  <2>2. /\ work[c].pc # "idle" /\ work'[c].pc = "idle" /\ held'[c] = held[c] \cup {TakenView(work[c])}
        /\ \A d \in Client : d # c => work'[d] = work[d] /\ held'[d] = held[d]
    BY <1>1, <2>1, Zenon DEF TypeInv, Idle
  <2>3. \A x : x \in Taken' <=> \/ \E d \in Client : x \in held'[d]
                                \/ \E d \in Client : work'[d].pc # "idle" /\ x = TakenView(work'[d])
    BY TakenByClientLater, Zenon DEF TakenMeans, TakenView
  <2>4. PICK z : z = TakenView(work[c])
    OBVIOUS
  <2>5. \A x : x \in held'[c] <=> x \in held[c] \/ x = z
    BY <2>2, <2>4
  <2>6. \A x : (\E d \in Client : x \in held'[d]) <=> (\E d \in Client : x \in held[d]) \/ x = z
    BY <2>2, <2>5, Zenon
  <2>7. \A d \in Client : work'[d].pc # "idle" => d # c
    BY <2>2
  <2>8. \A x : (\E d \in Client : work[d].pc # "idle" /\ x = TakenView(work[d]))
                 <=> (\E d \in Client : work'[d].pc # "idle" /\ x = TakenView(work'[d])) \/ x = z
    BY <2>2, <2>4, <2>7, Zenon
  <2>9. \A x : x \in Taken' <=> x \in Taken
    BY <2>3, <2>6, <2>8, TakenByClient, Zenon DEF TakenMeans
  <2> QED
    BY <2>9, Zenon
<1>12. ASSUME NEW c \in Client, LoadForAdd(c) PROVE Taken' = Taken
  <2>1. PICK h \in held[c] :
          /\ work' = [work EXCEPT ![c] = [pc |-> "add", block |-> h.block, order |-> h.order,
                                          count |-> h.count, loaded |-> free_pages]]
          /\ held' = [held EXCEPT ![c] = @ \ {h}]
    BY <1>12, Zenon DEF LoadForAdd
  <2>2. work[c].pc = "idle"
    BY <1>12 DEF LoadForAdd
  <2>3. h = [block |-> h.block, order |-> h.order, count |-> h.count]
    <3>1. held[c] \subseteq [block : Index, order : Order, count : 1..MaxRequest]
      BY <1>1, Zenon DEF TypeInv
    <3> QED
      BY <3>1
  <2>4. /\ work'[c].pc # "idle" /\ h = TakenView(work'[c]) /\ held'[c] = held[c] \ {h}
        /\ \A d \in Client : d # c => work'[d] = work[d] /\ held'[d] = held[d]
    BY <1>1, <2>1, <2>3, Zenon DEF TypeInv, TakenView
  <2>5. \A x : x \in Taken' <=> \/ \E d \in Client : x \in held'[d]
                                \/ \E d \in Client : work'[d].pc # "idle" /\ x = TakenView(work'[d])
    BY TakenByClientLater, Zenon DEF TakenMeans, TakenView
  <2>6. \A x : x \in held[c] <=> x \in held'[c] \/ x = h
    BY <2>4
  <2>7. \A x : (\E d \in Client : x \in held[d]) <=> (\E d \in Client : x \in held'[d]) \/ x = h
    BY <2>4, <2>6, Zenon
  <2>8. \A d \in Client : work[d].pc # "idle" => d # c
    BY <2>2
  <2>9. \A x : (\E d \in Client : work'[d].pc # "idle" /\ x = TakenView(work'[d]))
                 <=> (\E d \in Client : work[d].pc # "idle" /\ x = TakenView(work[d])) \/ x = h
    BY <2>4, <2>8, Zenon
  <2>10. \A x : x \in Taken' <=> x \in Taken
    BY <2>5, <2>7, <2>9, TakenByClient, Zenon DEF TakenMeans
  <2> QED
    BY <2>10, Zenon
<1> QED
  BY <1>5, <1>6, <1>7, <1>8, <1>9, <1>10, <1>11, <1>12 DEF Next

LEMMA StoreStart == BuddyInit => Store!Init
<1> SUFFICES ASSUME BuddyInit PROVE Store!Init
  OBVIOUS
<1>1. total \in Totals /\ work = [c \in Client |-> Idle] /\ held = [c \in Client |-> {}]
  BY DEF BuddyInit
<1>2. Pages \in 1..511 /\ total \in 2..512 /\ Max(Totals) \in Nat /\ total <= Max(Totals)
  BY <1>1, Pool, LargestPool
<1>3. 0..(Pages - 1) \subseteq 0..Max(Totals)
  BY <1>2 DEF Pages
<1>4. Taken = {}
  BY <1>1 DEF Taken, Busy, Idle
<1> QED
  BY <1>3, <1>4 DEF Store!Init

(* The allocator implements the page store: buddy_allocate gives a run of  *)
(* whole pages of the pool, none of them waste or somebody else's, and     *)
(* buddy_deallocate takes back a run that was given; every other step is   *)
(* invisible, for requests as small as the firmware's.                     *)
THEOREM AllocatorIsPageStore == RequestsAreSmall => (Spec => StoreSpec)
<1> SUFFICES ASSUME RequestsAreSmall PROVE Spec => StoreSpec
  OBVIOUS
<1>1. BuddyInit => Store!Init
  BY StoreStart
<1>2. BuddyInv /\ [Next]_vars => [Store!Next]_<<0..(Pages - 1), Runs>>
  BY SmallOnes, StoreSteps
<1> QED
  BY <1>1, <1>2, BooksHold, PTL DEF Spec, StoreSpec, Store!Spec, Store!vars, Runs
(* The two pools the firmware makes: page_allocator, 512 pages asked for   *)
(* one at a time (map_regions, memory_init), and framebuffer_allocator,    *)
(* the 400 pages of FRAMEBUFFER_HEAP_SIZE, asked for 33 at most.           *)
FirmwarePool == \/ Totals = {512} /\ MaxRequest = 1
                \/ Totals = {400} /\ MaxRequest <= 33

LEMMA FirmwareRequestsAreSmall == FirmwarePool => RequestsAreSmall
<1> SUFFICES ASSUME FirmwarePool, NEW n \in Totals
             PROVE  MaxRequest <= 2^GetOrder(n) - (n - 1) + 1
  BY Zenon DEF RequestsAreSmall
<1>1. n \in {400, 512} /\ MaxRequest \in Nat
  BY BuddyAssumption DEF FirmwarePool
<1>2. GetOrder(n) \in 0..9 /\ n <= 2^GetOrder(n)
  BY <1>1, Orders
<1>3. 2^9 = 512 /\ 2^8 = 256
  OBVIOUS
<1>4. GetOrder(n) = 9
  <2>1. ~(GetOrder(n) <= 8)
    <3> SUFFICES ASSUME GetOrder(n) <= 8 PROVE FALSE
      OBVIOUS
    <3>1. 8 \in 0..9
      OBVIOUS
    <3>2. 2^GetOrder(n) <= 2^8
      BY <1>2, <3>1, Smaller, Zenon
    <3>3. 2^GetOrder(n) \in 1..512
      BY <1>2, Sized, Zenon
    <3> QED
      BY <1>1, <1>2, <1>3, <3>2, <3>3
  <2> QED
    BY <1>2, <2>1
<1>5. 2^GetOrder(n) = 512
  BY <1>3, <1>4
<1>6. MaxRequest <= 512 - (n - 1) + 1
  BY <1>1 DEF FirmwarePool
<1> QED
  BY <1>5, <1>6, Zenon

(* Both allocators of the firmware keep their promise, any number of tasks *)
(* using them: the count of free pages is right until two updates overlap, *)
(* only then may a page be refused that is free and below the waste, and   *)
(* no page is given twice.                                                 *)
THEOREM FirmwareAllocatorsAreSound ==
    FirmwarePool => (Spec => []CountsAreExact /\ []RefusedOnlyWhenFull /\ StoreSpec)
<1>1. FirmwarePool => RequestsAreSmall
  BY FirmwareRequestsAreSmall
<1> QED
  BY <1>1, CountsAreExactHolds, RefusedOnlyWhenFullHolds, AllocatorIsPageStore
=============================================================================

--------------------------- MODULE MCAddressSpace ---------------------------
(* A process with two threads and one with one.                            *)
EXTENDS AddressSpace, TLC

CONSTANTS p1, p2, t1, t2, t3

MCProcessOf == t1 :> p1 @@ t2 :> p1 @@ t3 :> p2

(* Pages are alike; so are the threads of p1.                              *)
PageSymmetry == Permutations(Page) \cup Permutations({t1, t2})
=============================================================================

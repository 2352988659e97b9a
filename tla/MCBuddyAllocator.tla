-------------------------- MODULE MCBuddyAllocator --------------------------
(* A pool of 8 pages that two clients share, and pools of 7 and 11 pages,  *)
(* whose last blocks are waste or straddle it.                             *)
EXTENDS BuddyAllocator, TLC

(* The clients run the same code and their names occur nowhere in it.      *)
ClientSymmetry == Permutations(Client)
=============================================================================

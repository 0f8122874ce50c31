----------------------------- MODULE MCLruCache -----------------------------
(***************************************************************************)
(* The instance of LruCache that TLC checks: one key and one item more     *)
(* than the largest capacity, which is enough to move and to evict an item *)
(* from the middle of the queue.  Addresses, keys and values are           *)
(* interchangeable.                                                        *)
(***************************************************************************)
EXTENDS LruCache, TLC

CONSTANTS i1, i2, i3, i4, k1, k2, k3, k4, v1, v2

MCSymmetry ==
  Permutations({i1, i2, i3, i4}) \cup Permutations({k1, k2, k3, k4}) \cup Permutations({v1, v2})

\* The cache and the caller's list share nothing: one is used while the other is
\* as new.
MCNext ==
  \/ list = NewList /\ CacheNext /\ UNCHANGED list
  \/ queue = NewList /\ ListNext /\ UNCHANGED cacheVars

MCSpec == Init /\ [][MCNext]_vars
=============================================================================

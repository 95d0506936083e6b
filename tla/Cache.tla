-------------------------------- MODULE Cache --------------------------------
(***************************************************************************)
(* One set of a cache: what mem-system/cache.c does to the tag, the        *)
(* transient tag and the validity of a block, and to the list of ways that *)
(* orders the blocks of the set for replacement.                           *)
(*                                                                         *)
(* The doubly linked list way_head..way_tail is a ranking of the ways: the *)
(* head has rank 0, the tail rank Assoc - 1.                               *)
(***************************************************************************)
EXTENDS Naturals

CONSTANTS
  Assoc,     \* ways per set (cache->assoc)
  Policy     \* cache->policy: "lru", "fifo" or "random"

ASSUME AssocAssumption == Assoc \in Nat \ {0}
ASSUME PolicyAssumption == Policy \in {"lru", "fifo", "random"}

Way == 0 .. Assoc - 1

\* cache_create links block w - 1 to block w: way 0 is the head.
InitialOrder == [w \in Way |-> w]

\* cache_update_waylist(set, blk, cache_waylist_head)
MoveToHead(order, w) ==
  [v \in Way |-> IF v = w THEN 0
                 ELSE IF order[v] < order[w] THEN order[v] + 1
                 ELSE order[v]]

\* set->way_tail
TailOf(order) == CHOOSE w \in Way : order[w] = Assoc - 1

\* cache_replace_block: the tail, whatever its state, unless replacement is
\* random.  The search for an invalid block is commented out in the source.
Victims(order) ==
  IF Policy = "random" THEN Way ELSE {TailOf(order)}

\* The list after cache_replace_block returned one of Victims(order).
OrderAfterReplace(order) ==
  IF Policy = "random" THEN order ELSE MoveToHead(order, TailOf(order))

\* The list after cache_access_block: LRU always promotes the block, FIFO only
\* an invalid one.
OrderAfterAccess(order, w, isValid) ==
  IF Policy = "lru" \/ (Policy = "fifo" /\ ~isValid)
  THEN MoveToHead(order, w) ELSE order

\* The list after cache_set_block: FIFO promotes a block that gets a new tag.
OrderAfterSet(order, w, newTag) ==
  IF Policy = "fifo" /\ newTag THEN MoveToHead(order, w) ELSE order

\* order ranks the ways 0 .. Assoc - 1 without gap: the linked list is whole.
IsOrder(order) ==
  /\ order \in [Way -> 0 .. Assoc - 1]
  /\ \A r \in 0 .. Assoc - 1 : \E w \in Way : order[w] = r
==============================================================================

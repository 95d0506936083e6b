------------------------------ MODULE Coherence ------------------------------
(***************************************************************************)
(* What the coherence protocol promises the processors, whatever lies      *)
(* between the first-level caches: which cache may do what with a block.   *)
(* A cache obtains a permission in one step, and only when those the       *)
(* others have at that moment allow it.  Directories, requests, replies    *)
(* and evictions do not exist here; module Nmoesi implements this one.     *)
(***************************************************************************)
EXTENDS FiniteSets

CONSTANTS
  Cache,  \* first-level caches
  Block   \* blocks of memory

VARIABLE perm  \* perm[c][b]: the state in which cache c has block b

State == {"I", "N", "M", "O", "E", "S"}

Others(c, b, S) == {d \in Cache \ {c} : perm[d][b] \in S}

Become(c, b, s) == perm' = [perm EXCEPT ![c][b] = s]

Init == perm = [c \in Cache |-> [b \in Block |-> "I"]]

\* A load that misses: the block comes shared, or exclusive if nobody has it.
Fetch(c, b) ==
  /\ perm[c][b] = "I"
  /\ \/ Others(c, b, {"M", "E"}) = {} /\ Become(c, b, "S")
     \/ Others(c, b, State \ {"I"}) = {} /\ Become(c, b, "E")

\* A store: nobody else has the block.
Store(c, b) ==
  /\ Others(c, b, State \ {"I"}) = {}
  /\ Become(c, b, "M")

\* A non-coherent store: others may keep copies, but none that can be written.
NcStore(c, b) ==
  /\ Others(c, b, {"M", "E"}) = {}
  /\ Become(c, b, "N")

\* Another cache reads the block, or this one gives up the ownership.
Share(c, b) ==
  \/ perm[c][b] = "M" /\ Become(c, b, "O")
  \/ perm[c][b] \in {"M", "E", "O"} /\ Become(c, b, "S")

\* Eviction or invalidation
Drop(c, b) == perm[c][b] # "I" /\ Become(c, b, "I")

\* A step that changes no permission is a stutter.
Next ==
  \E c \in Cache, b \in Block :
    /\ perm[c][b] # perm'[c][b]
    /\ Fetch(c, b) \/ Store(c, b) \/ NcStore(c, b) \/ Share(c, b) \/ Drop(c, b)

Spec == Init /\ [][Next]_perm

TypeOK == perm \in [Cache -> [Block -> State]]

\* While a cache may write a block, no other cache can read it; and at most one
\* cache answers for modified data.
Coherent ==
  \A c, d \in Cache, b \in Block : c # d =>
    /\ perm[c][b] \in {"M", "E"} => perm[d][b] = "I"
    /\ perm[c][b] = "O" => perm[d][b] # "O"
==============================================================================

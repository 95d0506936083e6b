------------------------------ MODULE MCNmoesi -------------------------------
(***************************************************************************)
(* Instances of Nmoesi for TLC.                                            *)
(***************************************************************************)
EXTENDS Nmoesi, TLC

CONSTANTS l1a, l1b, l2a, l2b, mm, a1, a2

\* Two first-level caches over main memory.
FlatLow == (l1a :> mm) @@ (l1b :> mm) @@ (mm :> None)

\* Two first-level caches that share a second-level cache.
SharedLow == (l1a :> l2a) @@ (l1b :> l2a) @@ (l2a :> mm) @@ (mm :> None)

\* Two first-level caches, each with its second-level cache.
PrivateLow == (l1a :> l2a) @@ (l1b :> l2b) @@ (l2a :> mm) @@ (l2b :> mm)
              @@ (mm :> None)

OneWay == [m \in Mod |-> 1]
TwoWaysInMemory == [m \in Mod |-> IF m = mm THEN 2 ELSE 1]

Interchangeable == Permutations(Tag)

OneAccessEach == (a1 :> l1a) @@ (a2 :> l1b)
==============================================================================

---------------------------- MODULE MCFindAndLock ----------------------------
(***************************************************************************)
(* Instances of FindAndLock for TLC.                                       *)
(***************************************************************************)
EXTENDS FindAndLock, TLC

CONSTANTS s1, s2, s3

\* A first-level cache: accesses of a processor and a down-up request.
FirstLevelKind ==
  [s \in Stack |-> IF s = s3 THEN "downup" ELSE "access"]

\* Main memory: requests from above only.
MemoryKind == [s \in Stack |-> "updown"]

Interchangeable == Permutations(Tag)
==============================================================================

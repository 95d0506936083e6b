------------------------- MODULE NmoesiSystem_proofs -------------------------
(***************************************************************************)
(* Nmoesi as a whole, without non-coherent stores: what holds between two  *)
(* modules wherever they are in the tree.  A block that a module has is in *)
(* all those below it, so that two first-level modules that have it meet   *)
(* in a module whose directory knows both.  From that, the first-level     *)
(* modules implement the coherent memory of module Coherence.  Frames that *)
(* wait for an entry are woken, and no frames wait for each other.         *)
(***************************************************************************)
EXTENDS NmoesiLevels_proofs

-----------------------------------------------------------------------------
(***************************************************************************)
(* Induction over the natural numbers, in terms of sets.                   *)
(***************************************************************************)

\* A set that has 0 and, with a number, the next one has every number: otherwise
\* adding one is an injection of its part below n into that part without 0.
LEMMA Reaches ==
  ASSUME NEW T, 0 \in T, \A x \in T \cap Nat : x + 1 \in T, NEW n \in Nat
  PROVE  n \in T
<1> DEFINE S == T \cap 0 .. n
<1> DEFINE R == S \ {0}
<1> SUFFICES ASSUME n \notin T  PROVE FALSE
  OBVIOUS
<1>1. IsFiniteSet(S) /\ 0 \in S
  <2>1. IsFiniteSet(0 .. n)  BY FS_Interval
  <2>2. S \subseteq 0 .. n /\ 0 \in 0 .. n  OBVIOUS
  <2>3. IsFiniteSet(S)
    <3> HIDE DEF S
    <3> QED  BY <2>1, <2>2, FS_Subset
  <2> QED  BY <2>2, <2>3
<1>2. IsFiniteSet(R) /\ Cardinality(R) = Cardinality(S) - 1
  <2> HIDE DEF S
  <2> QED  BY <1>1, FS_RemoveElement
<1>3. Cardinality(R) < Cardinality(S)
  <2> HIDE DEF S, R
  <2> QED  BY <1>1, <1>2, FS_CardinalityType
<1> DEFINE f == [x \in S |-> x + 1]
<1>4. f \in [S -> R]
  OBVIOUS
<1>5. \E x, y \in S : x # y /\ f[x] = f[y]
  <2> HIDE DEF S, R, f
  <2> QED  BY <1>1, <1>2, <1>3, <1>4, FS_PigeonHole
<1> QED  BY <1>5

\* A set of numbers that has one has a least one.
LEMMA Least ==
  ASSUME NEW T \in SUBSET Nat, NEW t \in T
  PROVE  \E x \in T : \A y \in T : x <= y
<1> SUFFICES ASSUME \A x \in T : \E y \in T : y < x  PROVE FALSE
  OBVIOUS
<1> DEFINE B == {n \in Nat : \A y \in T : n <= y}
<1>1. 0 \in B  OBVIOUS
<1>2. \A x \in B \cap Nat : x + 1 \in B
  OBVIOUS
<1>3. t + 1 \in B
  <2> HIDE DEF B
  <2> QED BY <1>1, <1>2, Reaches
<1> QED  BY <1>3

-----------------------------------------------------------------------------
(***************************************************************************)
(* The tree of modules.                                                    *)
(***************************************************************************)

\* The distance of every module from main memory
IsLevel(level) ==
  /\ level \in [Mod -> Nat]
  /\ \A m \in Mod : level[m] = IF Low[m] = None THEN 0 ELSE level[Low[m]] + 1

LEMMA LevelExists == \E level : IsLevel(level)
<1>1. PICK level \in [Mod -> 0 .. Cardinality(Mod)] :
        \A m \in Mod : level[m] = IF Low[m] = None THEN 0 ELSE level[Low[m]] + 1
  BY LevelAssumption
<1>2. level \in [Mod -> Nat]
  <2>1. \A x \in 0 .. Cardinality(Mod) : x \in Nat  OBVIOUS
  <2> QED  BY <1>1, <2>1
<1> QED  BY <1>1, <1>2 DEF IsLevel

\* Processors access caches that no module is above, and not main memory itself.
AtTheTop == \A m \in FirstLevel : Low[m] # None /\ \A n \in Mod : Low[n] # m

OneMemory == \A m, n \in Mod : MainMemory(m) /\ MainMemory(n) => m = n

LEMMA FirstLevelMod == FirstLevel \subseteq Mod
BY TreeAssumption DEF FirstLevel

-----------------------------------------------------------------------------
(***************************************************************************)
(* A block on its way down.                                                *)
(***************************************************************************)

\* A frame that evicts entry x, and is told that the block has gone, was called by
\* the holder of the entry; nobody is taking the block away any more.
LEMMA GoneUnclaimed ==
  ASSUME LevelsInv, NEW x \in Entry, NEW j \in InFlight, Gone(j, x),
         NEW t \in Tag, Matches(x, t), NEW m, Low[m] = x[1]
  PROVE  ~Claimed(m, t)
<1>1. IInv /\ Entries /\ Plain  BY DEF LevelsInv, Entries
<1>2. SUFFICES ASSUME NEW d \in InFlight, Claims(d, m, t)  PROVE FALSE
  BY DEF Claimed
<1>3. PICK i : i = frames[d].ret  OBVIOUS
<1>4. PICK e : e = Locked(i)  OBVIOUS
<1>5. /\ i \in InFlight /\ frames[i].kind = "invalidate"
      /\ e \in Entry /\ e[1] = Low[m] /\ CountsOn(i, e) /\ Matches(e, t)
  BY <1>1, <1>2, <1>3, <1>4, ClaimEntry
<1>6. e = x  BY <1>1, <1>5, SameEntry
<1>7. PICK h \in InFlight :
        /\ Holds(h, x)
        /\ \/ h = i
           \/ frames[i].ret = h /\ frames[h].ev = "exclusive"
           \/ /\ frames[i].ret \in InFlight
              /\ frames[frames[i].ret].kind = "evict"
              /\ frames[frames[i].ret].ret = h /\ frames[h].ev = "evicting"
              /\ Source(frames[i].ret) = x
  <2>1. PICK h \in InFlight :
           /\ Holds(h, x)
           /\ \/ h = i
              \/ /\ frames[i].kind = "evict" /\ Source(i) = x
                 /\ frames[i].ret = h /\ frames[h].ev = "evicting"
              \/ frames[i].kind = "invalidate" /\ frames[i].ret = h /\ frames[h].ev = "exclusive"
              \/ /\ frames[i].kind = "invalidate" /\ frames[i].ret \in InFlight
                 /\ frames[frames[i].ret].kind = "evict"
                 /\ frames[frames[i].ret].ret = h /\ frames[h].ev = "evicting"
                 /\ Source(frames[i].ret) = x
    BY <1>1, <1>5, <1>6, Counting
  <2> QED  BY <1>5, <2>1
<1>8. PICK q : q = frames[j].ret  OBVIOUS
<1>9. q \in InFlight /\ Holds(q, x) /\ frames[j].kind = "evict" /\ frames[j].ev = "reply"
  BY <1>1, <1>8, CallerHolds DEF Gone
<1>10. h = q  BY <1>1, <1>7, <1>9 DEF IInv, HeldOnce
<1>11. CallOK(j) /\ CallOK(i) /\ FrameOK(i) /\ PlainFrame(j) /\ PlainFrame(q) /\ CalledFor(j)
  BY <1>1, <1>5, <1>9 DEF IInv, Entries, Plain
<1>12. frames[q].ev = "evicting"
  BY <1>8, <1>9, <1>11 DEF CallOK, PlainFrame, AccessKind
<1>13. CASE h = i
  BY <1>5, <1>10, <1>11, <1>12, <1>13 DEF FrameOK
<1>14. CASE frames[i].ret = h /\ frames[h].ev = "exclusive"
  BY <1>10, <1>12, <1>14
<1>15. CASE /\ frames[i].ret \in InFlight
            /\ frames[frames[i].ret].kind = "evict"
            /\ frames[frames[i].ret].ret = h
            /\ Source(frames[i].ret) = x
  <2>1. PICK r : r = frames[i].ret  OBVIOUS
  <2>2. r \in InFlight /\ frames[r].kind = "evict" /\ frames[r].ret = q /\ Source(r) = x
    BY <1>10, <1>15, <2>1
  <2>3. CallOK(r) /\ CalledFor(r)  BY <1>1, <2>2 DEF IInv, Entries
  <2>4. r = <<r[1], q, "evict", r[4]>> /\ j = <<j[1], q, "evict", j[4]>>
    BY <1>1, <1>8, <1>9, <2>2 DEF IInv, TypeOK
  <2>5. r[1] = q[1] /\ j[1] = q[1]
    BY <1>8, <1>9, <1>11, <2>2, <2>3 DEF CallOK, AccessKind
  <2>6. r[4] = frames[r].from /\ j[4] = frames[j].from
    BY <1>9, <1>11, <2>2, <2>3 DEF CalledFor
  <2>7. frames[r].from = frames[j].from
    BY <2>2 DEF Source, Gone
  <2>8. r = j  BY ONLY <2>4, <2>5, <2>6, <2>7
  <2>9. frames[r].ev = "invalid"
    BY <1>5, <1>11, <2>1, <2>2 DEF CallOK, AccessKind
  <2> QED  BY <1>9, <2>8, <2>9
<1> QED  BY <1>7, <1>13, <1>14, <1>15

\* A block that a module has is in the module below, and for itself if the module
\* above may write it or answers for it.
LEMMA OneDown ==
  ASSUME LevelsInv, NEW m \in Mod, Low[m] # None, NEW t \in Tag, HasCopy(m, t, Valid)
  PROVE  /\ Low[m] \in Mod /\ HasCopy(Low[m], t, Valid)
         /\ HasCopy(m, t, Owned) => HasCopy(Low[m], t, Exclusive)
<1>1. IInv /\ Entries /\ Levels  BY DEF LevelsInv
<1>2. Low[m] \in Mod  BY TreeAssumption
<1>3. PICK e \in Entry : Covers(e, m, t)
  BY <1>1, <1>2 DEF Levels, Family, Covered
<1>4. /\ e[1] = Low[m] /\ blk[e].tag = t /\ blk[e].state # "I" /\ Matches(e, t)
      /\ HasCopy(m, t, Owned) => blk[e].state \in Exclusive
      /\ Claimed(m, t) \/ m \in dir[e].sharers
  BY <1>3 DEF Covers, Present, Matches
<1>5. ~ \E j \in InFlight : Gone(j, e)
  <2>1. SUFFICES ASSUME NEW j \in InFlight, Gone(j, e)  PROVE FALSE
    OBVIOUS
  <2>2. ReliesOn(j)  BY <1>1 DEF IInv
  <2>3. dir[e].sharers = {}  BY <2>1, <2>2 DEF ReliesOn, Gone
  <2>4. ~Claimed(m, t)  BY <1>4, <2>1, GoneUnclaimed
  <2> QED  BY <1>4, <2>3, <2>4
<1>6. blk[e].state \in Valid
  BY <1>1, <1>4 DEF IInv, TypeOK, Valid
<1>7. Copy(e, t, Valid) /\ (HasCopy(m, t, Owned) => Copy(e, t, Exclusive))
  BY <1>4, <1>5, <1>6 DEF Copy
<1> QED  BY <1>2, <1>4, <1>7 DEF HasCopy

\* Modules m and n, neither of which is below the other, have block t in states that do
\* not go together.
Clash(m, n, t) ==
  \/ HasCopy(m, t, Exclusive) /\ HasCopy(n, t, Valid)
  \/ HasCopy(m, t, Valid) /\ HasCopy(n, t, Exclusive)
  \/ HasCopy(m, t, Owned) /\ HasCopy(n, t, Owned)

\* What module b has is no worse for the others than what module a has.
Stronger(b, a, t) ==
  \A S \in {Valid, Owned, Exclusive} : HasCopy(a, t, S) => HasCopy(b, t, S)

LEMMA StrongerDown ==
  ASSUME LevelsInv, NEW a \in Mod, Low[a] # None, NEW t \in Tag, HasCopy(a, t, Valid)
  PROVE  Stronger(Low[a], a, t)
<1>1. /\ HasCopy(Low[a], t, Valid)
      /\ HasCopy(a, t, Owned) => HasCopy(Low[a], t, Exclusive)
  BY OneDown
<1>2. HasCopy(a, t, Exclusive) => HasCopy(a, t, Owned)  BY Rights, CopyMonotone
<1>3. HasCopy(Low[a], t, Exclusive) => HasCopy(Low[a], t, Owned)  BY Rights, CopyMonotone
<1> QED  BY <1>1, <1>2, <1>3 DEF Stronger

\* A block on its way down from module a passes the level of a module n that nothing is
\* above, in another module.
LEMMA DownTo ==
  ASSUME LevelsInv, NEW level, IsLevel(level), NEW n \in Mod, \A x \in Mod : Low[x] # n,
         NEW t \in Tag, NEW a \in Mod, a # n, level[a] >= level[n], HasCopy(a, t, Valid)
  PROVE  \E b \in Mod : b # n /\ level[b] = level[n] /\ Stronger(b, a, t)
<1> DEFINE Q(x) == \E b \in Mod : b # n /\ level[b] = level[n] /\ Stronger(b, x, t)
<1> DEFINE T == {i \in Nat : \A x \in Mod :
                   x # n /\ level[x] = level[n] + i /\ HasCopy(x, t, Valid) => Q(x)}
<1>1. 0 \in T
  <2>1. ASSUME NEW x \in Mod, x # n, level[x] = level[n] + 0  PROVE Q(x)
    <3>1. Stronger(x, x, t)  BY DEF Stronger
    <3>2. level[x] = level[n]  BY <2>1 DEF IsLevel
    <3> QED  BY <2>1, <3>1, <3>2
  <2> HIDE DEF Q
  <2> QED  BY <2>1
<1>2. ASSUME NEW i \in Nat, i \in T  PROVE i + 1 \in T
  <2>1. ASSUME NEW x \in Mod, x # n, level[x] = level[n] + (i + 1), HasCopy(x, t, Valid)
        PROVE  Q(x)
    <3>1. level[x] \in Nat /\ level[n] \in Nat  BY DEF IsLevel
    <3>2. level[x] # 0  BY <2>1, <3>1
    <3>3. Low[x] # None  BY <3>2 DEF IsLevel
    <3>4. Low[x] \in Mod /\ HasCopy(Low[x], t, Valid)  BY <2>1, <3>3, OneDown
    <3>5. level[x] = level[Low[x]] + 1 /\ level[Low[x]] \in Nat  BY <3>3, <3>4 DEF IsLevel
    <3>6. level[Low[x]] = level[n] + i  BY <2>1, <3>1, <3>5
    <3>7. Q(Low[x])
      <4> HIDE DEF Q
      <4> QED  BY <1>2, <3>4, <3>6
    <3>8. PICK b \in Mod : b # n /\ level[b] = level[n] /\ Stronger(b, Low[x], t)
      BY <3>7
    <3>9. Stronger(b, x, t)  BY <2>1, <3>3, <3>8, StrongerDown DEF Stronger
    <3> QED  BY <3>8, <3>9
  <2> HIDE DEF Q
  <2> QED  BY <2>1
<1>3. PICK i \in Nat : level[a] = level[n] + i
  <2>1. level[a] \in Nat /\ level[n] \in Nat  BY DEF IsLevel
  <2>2. level[a] - level[n] \in Nat /\ level[a] = level[n] + (level[a] - level[n])
    BY <2>1
  <2> QED  BY <2>2
<1>4. i \in T
  <2> HIDE DEF T
  <2> QED  BY <1>1, <1>2, Reaches
<1> QED  BY <1>3, <1>4

\* Two modules at the same distance from main memory: below them is a module that knows
\* what both have.
LEMMA SameDistance ==
  ASSUME LevelsInv, OneMemory, NEW level, IsLevel(level), NEW t \in Tag,
         NEW a \in Mod, NEW b \in Mod, a # b, level[a] = level[b]
  PROVE  ~Clash(a, b, t)
<1> DEFINE T == {i \in Nat : \A x, y \in Mod :
                   x # y /\ level[x] = i /\ level[y] = i => ~Clash(x, y, t)}
<1>1. 0 \in T
  <2>1. ASSUME NEW x \in Mod, NEW y \in Mod, level[x] = 0, level[y] = 0  PROVE x = y
    <3>1. MainMemory(x)
      <4>1. ASSUME Low[x] # None  PROVE FALSE
        <5>1. Low[x] \in Mod  BY <4>1, TreeAssumption
        <5> QED  BY <2>1, <4>1, <5>1 DEF IsLevel
      <4> QED  BY <4>1 DEF MainMemory
    <3>2. MainMemory(y)
      <4>1. ASSUME Low[y] # None  PROVE FALSE
        <5>1. Low[y] \in Mod  BY <4>1, TreeAssumption
        <5> QED  BY <2>1, <4>1, <5>1 DEF IsLevel
      <4> QED  BY <4>1 DEF MainMemory
    <3> QED  BY <3>1, <3>2 DEF OneMemory
  <2> QED  BY <2>1
<1>2. ASSUME NEW i \in Nat, i \in T  PROVE i + 1 \in T
  <2>1. ASSUME NEW x \in Mod, NEW y \in Mod, x # y, level[x] = i + 1, level[y] = i + 1,
               Clash(x, y, t)
        PROVE  FALSE
    <3>1. HasCopy(x, t, Valid) /\ HasCopy(y, t, Valid)
      BY <2>1, Rights, CopyMonotone DEF Clash
    <3>2. Low[x] # None /\ Low[y] # None  BY <2>1 DEF IsLevel
    <3>3. Low[x] \in Mod /\ Low[y] \in Mod  BY <3>2, TreeAssumption
    <3>4. level[Low[x]] = i /\ level[Low[y]] = i  BY <2>1, <3>2, <3>3 DEF IsLevel
    <3>5. CASE Low[x] = Low[y]
      <4>1. Together(Low[x], t)  BY <3>3 DEF LevelsInv, Levels, Family
      <4> QED  BY <2>1, <3>5, <4>1 DEF Together, Clash
    <3>6. CASE Low[x] # Low[y]
      <4>1. Stronger(Low[x], x, t) /\ Stronger(Low[y], y, t)
        BY <3>1, <3>2, StrongerDown
      <4>2. Clash(Low[x], Low[y], t)  BY <2>1, <4>1 DEF Stronger, Clash
      <4> QED  BY <1>2, <3>3, <3>4, <3>6, <4>2
    <3> QED  BY <3>5, <3>6
  <2> QED  BY <2>1
<1>3. level[a] \in Nat  BY DEF IsLevel
<1>4. level[a] \in T
  <2> HIDE DEF T
  <2> QED  BY <1>1, <1>2, <1>3, Reaches
<1> QED  BY <1>4

\* Two modules that nothing is above, wherever they are: when one may write a block the
\* other does not have it, and only one answers for modified data.
LEMMA Apart ==
  ASSUME LevelsInv, OneMemory, NEW t \in Tag, NEW m \in Mod, NEW n \in Mod, m # n,
         \A x \in Mod : Low[x] # m /\ Low[x] # n
  PROVE  ~Clash(m, n, t)
<1>1. SUFFICES ASSUME Clash(m, n, t)  PROVE FALSE  OBVIOUS
<1>2. PICK level : IsLevel(level)  BY LevelExists
<1>3. HasCopy(m, t, Valid) /\ HasCopy(n, t, Valid)
  BY <1>1, Rights, CopyMonotone DEF Clash
<1>4. level[m] \in Nat /\ level[n] \in Nat  BY <1>2 DEF IsLevel
<1>5. CASE level[m] >= level[n]
  <2>1. PICK b \in Mod : b # n /\ level[b] = level[n] /\ Stronger(b, m, t)
    BY <1>2, <1>3, <1>5, DownTo
  <2>2. Clash(b, n, t)  BY <1>1, <2>1 DEF Clash, Stronger
  <2> QED  BY <1>2, <2>1, <2>2, SameDistance
<1>6. CASE level[n] >= level[m]
  <2>1. PICK b \in Mod : b # m /\ level[b] = level[m] /\ Stronger(b, n, t)
    BY <1>2, <1>3, <1>6, DownTo
  <2>2. Clash(m, b, t)  BY <1>1, <2>1 DEF Clash, Stronger
  <2> QED  BY <1>2, <2>1, <2>2, SameDistance
<1> QED  BY <1>4, <1>5, <1>6

-----------------------------------------------------------------------------
(***************************************************************************)
(* Read requests to the owner, at a first-level module.                    *)
(***************************************************************************)

\* Nobody above has told a read request down-up at the first level anything.
Unasked ==
  \A j \in InFlight :
    frames[j].kind = "readDU" /\ frames[j].at \in FirstLevel => frames[j].reply = "none"

\* A request down-up that goes on leaves its reply as it is.
LEMMA OwnReply ==
  ASSUME NEW k, NEW p, Step(k, p), k \in InFlight', frames[k].kind = "readDU",
         frames'[k].ev \in {"finish", "reply"}
  PROVE  frames'[k].reply = frames[k].reply
<1>1. PICK f : f = frames[k]  OBVIOUS
<1>2. PICK g : g = frames'[k]  OBVIOUS
<1>3. ~Received(k) /\ ~Looks(k) /\ ~ \E e \in Entry : Gets(k, e) \/ Replaces(k, e)
  BY <1>2 DEF Received, Ended, Looks, Gets, Replaces, Called
<1>4. AsksOwner(k) \/ \E q : GivesData(k, q)
  BY <1>3, StepFacts DEF Does, GivesUp, Settles,
     InvalidationEnds, SendsDown, Accepts, Refuses, EvictionFails, EvictionEnds, Returns,
     Passes, Fills, GivesBlock, Takes, AsksExclusive, GivesExclusive, Yields, AccessKind
<1>5. CASE AsksOwner(k)
  BY <1>5 DEF AsksOwner, Called, Goes, Results
<1>6. CASE \E q : GivesData(k, q)
  BY <1>6 DEF GivesData, Told, Goes, Results
<1> QED  BY <1>4, <1>5, <1>6

LEMMA UnaskedStep ==
  ASSUME AtTheTop, LevelsInv', Unasked, NEW k, NEW p, Step(k, p)
  PROVE  Unasked'
<1>1. SUFFICES ASSUME NEW j \in InFlight', frames'[j].kind = "readDU",
                      frames'[j].at \in FirstLevel
               PROVE  frames'[j].reply = "none"
  BY DEF Unasked, FirstLevel
<1>2. ASSUME frames'[j].ev \notin {"finish", "reply"}  PROVE frames'[j].reply = "none"
  <2>1. Answer(j)'  BY DEF LevelsInv, Levels
  <2> QED  BY <1>1, <1>2, <2>1 DEF Answer
<1>3. CASE j \notin InFlight
  <2>1. NewOK(j, k)  BY <1>3, StepFacts DEF Shape
  <2> QED  BY <1>1, <1>2, <2>1 DEF NewOK
<1>4. ASSUME j \in InFlight  PROVE Like(frames[j], frames'[j])
  BY <1>4, StepFacts, StillLike
<1>5. ASSUME j \in InFlight  PROVE frames[j].kind = "readDU" /\ frames[j].reply = "none"
  BY <1>1, <1>4, <1>5 DEF Unasked, Like
<1>6. CASE j \in InFlight /\ j = k
  BY <1>2, <1>5, <1>6, OwnReply
<1>7. CASE j \in InFlight /\ j # k
  <2>1. CASE Same(j) \/ (Passes(k) /\ j = frames[k].ret) \/ GivesBlock(k, j)
             \/ EvictionFails(k, j) \/ EvictionEnds(k, j)
    BY <1>5, <1>7, <2>1 DEF Same, Results, Passes, ToldError, GivesBlock, EvictionFails,
       EvictionEnds, Returns
  <2>2. CASE GivesData(k, j)
    <3>1. frames[k].kind = "readDU" /\ frames[k].ev # "reply" /\ j = frames[k].ret
      BY <2>2 DEF GivesData
    <3>2. PICK x : x = Locked(j)  OBVIOUS
    <3>3. Low[frames[k].at] = frames[j].at /\ frames[k].at \in Mod
      BY <3>1, <3>2, DataCaller DEF Locked
    <3>4. frames[j].at \in FirstLevel  BY <1>1, <1>4, <1>7 DEF Like
    <3> QED  BY <3>3, <3>4 DEF AtTheTop
  <2>3. CASE Yields(k, j)
    <3>1. CallOK(k) /\ frames[k].kind = "writeDU" /\ j = frames[k].ret
      BY <2>3, StepFacts DEF Yields
    <3> QED  BY <1>5, <1>7, <3>1 DEF CallOK, AccessKind
  <2> QED  BY <1>7, <2>1, <2>2, <2>3, Hears
<1> QED  BY <1>3, <1>6, <1>7

-----------------------------------------------------------------------------
(***************************************************************************)
(* What the processors see.                                                *)
(***************************************************************************)

\* Entry e has block t in state s, and nobody has accepted its eviction.
Shown(e, t, s) == blk[e].tag = t /\ blk[e].state = s /\ ~Leaving(e)

\* A module shows a block in one state, that of its entry.
LEMMA PermissionShown ==
  ASSUME IInv, Entries, NEW m, NEW t \in Tag
  PROVE  /\ \A s \in Valid : Permission(m, t) = s <=>
              \E e \in Entry : e[1] = m /\ Shown(e, t, s)
         /\ Permission(m, t) \in State
<1>1. CASE ~Has(m, t, Valid)
  <2>1. Permission(m, t) = "I"  BY <1>1 DEF Permission
  <2>2. \A s \in Valid : ~ \E e \in Entry : e[1] = m /\ Shown(e, t, s)
    BY <1>1 DEF Has, Shown
  <2> QED  BY <2>1, <2>2 DEF Valid, State
<1>2. CASE Has(m, t, Valid)
  <2>1. PICK d \in Entry : d[1] = m /\ blk[d].tag = t /\ blk[d].state \in Valid /\ ~Leaving(d)
    BY <1>2 DEF Has
  <2>2. PICK e : e = CHOOSE x \in Entry : x[1] = m /\ blk[x].tag = t /\ blk[x].state # "I"
    OBVIOUS
  <2>3. e \in Entry /\ e[1] = m /\ blk[e].tag = t /\ blk[e].state # "I"
    BY <2>1, <2>2 DEF Valid
  <2>4. \A x \in Entry : x[1] = m /\ blk[x].tag = t /\ blk[x].state # "I" => x = d
    BY <2>1, SameEntry DEF Matches, Valid
  <2>5. e = d  BY <2>3, <2>4
  <2>6. ~GivingUp(e)  BY DEF GivingUp, Entries, Plain, PlainFrame
  <2>7. Permission(m, t) = blk[d].state
    BY <1>2, <2>2, <2>5, <2>6 DEF Permission
  <2>8. \A s \in Valid : blk[d].state = s <=> \E x \in Entry : x[1] = m /\ Shown(x, t, s)
    BY <2>1, <2>4 DEF Shown, Valid
  <2>9. blk[d].state \in State  BY <2>1 DEF Valid
  <2> QED  BY <2>7, <2>8, <2>9
<1> QED  BY <1>1, <1>2

\* What a module shows, it has a copy of.
LEMMA ShownCopy ==
  ASSUME IInv, Entries, NEW m, NEW t \in Tag, NEW S \in {Valid, Owned, Exclusive},
         Permission(m, t) \in S
  PROVE  HasCopy(m, t, S)
<1>1. Permission(m, t) \in Valid  BY Rights
<1>2. PICK e \in Entry : e[1] = m /\ Shown(e, t, Permission(m, t))
  BY <1>1, PermissionShown
<1>3. Has(m, t, S)  BY <1>2 DEF Shown, Has
<1> QED  BY <1>3, HasIsCopy

\* Two first-level modules show a block in states that go together.
LEMMA FirstLevelApart ==
  ASSUME LevelsInv, AtTheTop, OneMemory, NEW m \in FirstLevel, NEW n \in FirstLevel, m # n,
         NEW t \in Tag
  PROVE  /\ Permission(m, t) \in Exclusive => Permission(n, t) = "I"
         /\ Permission(m, t) \in Owned => Permission(n, t) \notin Owned
<1>1. m \in Mod /\ n \in Mod /\ \A x \in Mod : Low[x] # m /\ Low[x] # n
  BY FirstLevelMod DEF AtTheTop
<1>2. ~Clash(m, n, t)  BY <1>1, Apart
<1>3. IInv /\ Entries  BY DEF LevelsInv
<1>4. Permission(n, t) \in State  BY <1>3, PermissionShown
<1>5. Permission(n, t) # "I" => Permission(n, t) \in Valid  BY <1>4 DEF Valid
<1> QED  BY <1>2, <1>3, <1>5, ShownCopy DEF Clash

LEMMA LevelsCoherent ==
  ASSUME AtTheTop, OneMemory
  PROVE  LevelsInv => C!Coherent
<1>1. SUFFICES ASSUME LevelsInv, NEW c \in FirstLevel, NEW d \in FirstLevel, NEW b \in Tag, c # d
               PROVE  /\ Permission(c, b) \in {"M", "E"} => Permission(d, b) = "I"
                      /\ Permission(c, b) = "O" => Permission(d, b) # "O"
  BY DEF C!Coherent
<1> QED  BY <1>1, FirstLevelApart DEF Exclusive, Owned

\* Without non-coherent stores, when no module is above those that the processors access
\* and there is one main memory: while a first-level module may write a block no other
\* one can read it, and at most one answers for modified data, however many levels are
\* between them.
THEOREM FirstLevelCoherent ==
  ASSUME "nc" \notin Ops, AtTheTop, OneMemory
  PROVE  Spec => []C!Coherent
BY LevelsInvariant, LevelsCoherent, PTL

-----------------------------------------------------------------------------
(***************************************************************************)
(* The first-level modules implement the coherent memory.                  *)
(***************************************************************************)
View == [m \in FirstLevel |-> [t \in Tag |-> Permission(m, t)]]

\* The same in the next state
LEMMA ShownAlways ==
  IInv /\ Entries => \A m \in FirstLevel, t \in Tag :
    /\ \A s \in Valid : Permission(m, t) = s <=>
         \E e \in Entry : e[1] = m /\ Shown(e, t, s)
    /\ Permission(m, t) \in State
BY PermissionShown

LEMMA ShownNext ==
  (IInv /\ Entries => \A m \in FirstLevel, t \in Tag :
    /\ \A s \in Valid : Permission(m, t) = s <=>
         \E e \in Entry : e[1] = m /\ Shown(e, t, s)
    /\ Permission(m, t) \in State)'
BY ShownAlways, PTL

LEMMA ApartAlways ==
  ASSUME AtTheTop, OneMemory
  PROVE  LevelsInv => \A m, n \in FirstLevel, t \in Tag : m # n =>
           /\ Permission(m, t) \in Exclusive => Permission(n, t) = "I"
           /\ Permission(m, t) \in Owned => Permission(n, t) \notin Owned
BY FirstLevelApart

LEMMA ApartNext ==
  ASSUME AtTheTop, OneMemory
  PROVE  (LevelsInv => \A m, n \in FirstLevel, t \in Tag : m # n =>
           /\ Permission(m, t) \in Exclusive => Permission(n, t) = "I"
           /\ Permission(m, t) \in Owned => Permission(n, t) \notin Owned)'
BY ApartAlways, PTL

\* The ways in which a module may come from showing a block in state s to showing it in
\* state r, if the others allow it
MayBecome(s, r) ==
  \/ r \in {"I", "M"}
  \/ r = "E" /\ s = "I"
  \/ r = "S" /\ s # "N"
  \/ r = "O" /\ s = "M"

\* A step that changes what one module shows of one block implements a step of the
\* memory: what the others show goes together with it afterwards, and has not changed.
LEMMA OneChanges ==
  ASSUME LevelsInv, LevelsInv', AtTheTop, OneMemory,
         NEW m \in FirstLevel, NEW t \in Tag,
         \A n \in FirstLevel, u \in Tag :
           ~(n = m /\ u = t) => Permission(n, u)' = Permission(n, u),
         Permission(m, t)' = Permission(m, t) \/ MayBecome(Permission(m, t), Permission(m, t)')
  PROVE  [C!Next]_View
<1>1. PICK s : s = Permission(m, t)  OBVIOUS
<1>2. PICK r : r = Permission(m, t)'  OBVIOUS
<1>3. s \in State  BY <1>1, PermissionShown DEF LevelsInv
<1>4. r \in State  BY <1>2, ShownNext DEF LevelsInv
<1>5. \A n \in FirstLevel, u \in Tag :
        Permission(n, u)' = IF n = m /\ u = t THEN r ELSE Permission(n, u)
  BY <1>2
<1>6. \A n \in FirstLevel \ {m} :
        /\ r \in Exclusive => Permission(n, t) = "I"
        /\ r \in Valid => Permission(n, t) \notin Exclusive
        /\ r \in Owned => Permission(n, t) \notin Owned
  <2>1. SUFFICES ASSUME NEW n \in FirstLevel \ {m}
                 PROVE  /\ r \in Exclusive => Permission(n, t)' = "I"
                        /\ Permission(n, t)' \in Exclusive => r = "I"
                        /\ r \in Owned => Permission(n, t)' \notin Owned
    BY <1>5 DEF Valid
  <2> QED  BY <1>2, ApartNext
<1>7. CASE r = s
  <2>1. View' = View  BY <1>1, <1>5, <1>7 DEF View, FirstLevel
  <2> QED  BY <2>1 DEF View
<1>8. CASE r # s
  <2>1. MayBecome(s, r)  BY <1>1, <1>2, <1>8
  <2>2. View[m][t] = s /\ View'[m][t] = r  BY <1>1, <1>2 DEF View, FirstLevel
  <2>3. View' = [View EXCEPT ![m][t] = r]  BY <1>5 DEF View, FirstLevel
  <2>4. C!Fetch(m, t) \/ C!Store(m, t) \/ C!Share(m, t) \/ C!Drop(m, t)
    <3>1. CASE r = "I"
      BY <1>8, <2>2, <2>3, <3>1 DEF C!Drop, C!Become, View
    <3>2. CASE r = "M"
      BY <1>6, <2>3, <3>2 DEF C!Store, C!Become, C!Others, C!State, View, Exclusive
    <3>3. CASE r = "E" /\ s = "I"
      BY <1>6, <2>2, <2>3, <3>3 DEF C!Fetch, C!Become, C!Others, C!State, View, Exclusive
    <3>4. CASE r = "S" /\ s = "I"
      BY <1>6, <2>2, <2>3, <3>4 DEF C!Fetch, C!Become, C!Others, C!State, View, Exclusive, Valid, State
    <3>5. CASE (r = "S" /\ s \notin {"I", "N"}) \/ (r = "O" /\ s = "M")
      BY <1>3, <1>8, <2>2, <2>3, <3>5 DEF C!Share, C!Become, View, State
    <3> QED  BY <2>1, <3>1, <3>2, <3>3, <3>4, <3>5 DEF MayBecome
  <2> QED  BY <1>8, <2>2, <2>4 DEF C!Next, View
<1> QED  BY <1>7, <1>8

\* An entry is on its way out for frame k, or for another one.
LEMMA LeavingParts ==
  ASSUME NEW k, NEW x
  PROVE  /\ Leaving(x) <=> OwnGone(k, x) \/ Outbound(k, x)
         /\ Leaving(x)' <=> OwnGone(k, x)' \/ Outbound(k, x)'
BY DEF Leaving, OwnGone, Outbound, Gone

\* Frame k does nothing to entry e.
LEMMA ShownSame ==
  ASSUME NEW k, NEW p, Step(k, p), NEW e, blk'[e] = blk[e],
         ~OwnGone(k, e), ~OwnGone(k, e)', NEW u, NEW s
  PROVE  Shown(e, u, s)' <=> Shown(e, u, s)
<1>1. Outbound(k, e)' <=> Outbound(k, e)  BY StepFacts, OutboundKept
<1> QED  BY <1>1, LeavingParts DEF Shown

\* The steps that change what a first-level module shows
Shows(k) ==
  Accepts(k) \/ Settles(k) \/ \E q : GivesData(k, q) \/ Yields(k, q)

LEMMA NoneShows ==
  ASSUME AtTheTop, NEW k, NEW p, Step(k, p), ~Shows(k),
         NEW e \in Entry, e[1] \in FirstLevel, NEW u, NEW s \in Valid
  PROVE  Shown(e, u, s)' <=> Shown(e, u, s)
<1>1. ~MainMemory(e[1]) /\ \A n \in Mod : Low[n] # e[1]
  BY DEF AtTheTop, MainMemory
<1>2. CASE \E q : EvictionEnds(k, q)
  <2>1. PICK q : EvictionEnds(k, q)  BY <1>2
  <2>2. /\ frames[k].kind = "evict" /\ k \in InFlight /\ k \notin InFlight'
        /\ Source(k) \in Entry /\ \A x \in Entry \ {Source(k)} : blk'[x] = blk[x]
    BY <2>1 DEF EvictionEnds, Returns, Idle
  <2>3. CASE e # Source(k)
    <3>1. ~OwnGone(k, e) /\ ~OwnGone(k, e)'  BY <2>2, <2>3 DEF OwnGone, Gone
    <3> QED  BY <2>2, <2>3, <3>1, ShownSame
  <2>4. CASE e = Source(k)
    <3>1. blk'[e].state = "I"  BY <1>1, <2>1, <2>4 DEF EvictionEnds
    <3>2. Leaving(e) \/ blk[e].state = "I"
      BY <1>1, <2>1, <2>2, <2>4 DEF EvictionEnds, Leaving
    <3> QED  BY <3>1, <3>2 DEF Shown, Valid
  <2> QED  BY <2>3, <2>4
<1>3. CASE ~ \E q : EvictionEnds(k, q)
  <2>1. ~OwnGone(k, e) /\ ~OwnGone(k, e)'
    BY <1>3, StepFacts, GoneOwn DEF Shows
  <2>2. blk'[e] = blk[e]
    <3>1. CASE \E d \in Entry : Gets(k, d)
      <4>1. PICK d \in Entry : Gets(k, d)  BY <3>1
      <4>2. CASE blk' = blk  BY <4>2
      <4>3. CASE MainMemory(d[1]) /\ Writes(d, frames[k].tag, "E")
        <5>1. e # d  BY <1>1, <4>3
        <5> QED  BY <4>3, <5>1, StepFacts, WritesAt
      <4> QED  BY <4>1, <4>2, <4>3 DEF Gets
    <3>2. CASE Fills(k) \/ GivesExclusive(k)
      <4>1. PICK d : d = Locked(k)  OBVIOUS
      <4>2. frames[k].kind \in {"readUD", "writeUD"} /\ Locks(k) /\ d \in Entry
        BY <3>2, <4>1, StepFacts DEF Fills, GivesExclusive, FrameOK
      <4>3. \E s2 : Writes(d, frames[k].tag, s2)
        BY <3>2, <4>1 DEF Fills, GivesExclusive
      <4>4. d[1] = Low[frames[k].from] /\ frames[k].from \in Mod
        BY <4>1, <4>2, StepFacts DEF FrameOK, Locked, Frame
      <4>5. e # d  BY <1>1, <4>4
      <4> QED  BY <4>2, <4>3, <4>5, StepFacts, WritesAt
    <3>3. CASE InvalidationEnds(k)
      BY <3>3, StepFacts, InvalidationSame
    <3>4. CASE ~(\E d \in Entry : Gets(k, d)) /\ ~Fills(k) /\ ~GivesExclusive(k)
               /\ ~InvalidationEnds(k)
      <4>1. blk' = blk
        BY <1>3, <3>4, StepFacts DEF Does, Shows, NoEntry, Replaces, GivesUp, SendsDown,
           Refuses, EvictionFails, Received, Passes, AsksOwner, GivesBlock, Takes,
           AsksExclusive, CallsUp
      <4> QED  BY <4>1
    <3> QED  BY <3>1, <3>2, <3>3, <3>4
  <2> QED  BY <2>1, <2>2, ShownSame
<1> QED  BY <1>2, <1>3

\* Entry x, which may have block t and no other, is the only one of the first level that
\* a step changes.
LEMMA EntryChanges ==
  ASSUME IInv, Entries, IInv', Entries', NEW x \in Entry, NEW m \in FirstLevel, m = x[1],
         NEW t \in Tag, Matches(x, t),
         \A e \in Entry : e # x /\ e[1] \in FirstLevel =>
           \A u \in Tag, s \in Valid : Shown(e, u, s)' <=> Shown(e, u, s),
         blk[x].state # "I" => blk[x].tag = t,
         blk'[x].state # "I" => blk'[x].tag = t
  PROVE  /\ \A n \in FirstLevel, u \in Tag :
              ~(n = m /\ u = t) => Permission(n, u)' = Permission(n, u)
         /\ Permission(m, t) = IF Leaving(x) THEN "I" ELSE blk[x].state
         /\ Permission(m, t)' = IF Leaving(x)' THEN "I" ELSE blk'[x].state
<1>1. \A n \in FirstLevel, u \in Tag :
        /\ \A s \in Valid : Permission(n, u) = s <=>
             \E e \in Entry : e[1] = n /\ Shown(e, u, s)
        /\ Permission(n, u) \in State
  BY PermissionShown
<1>2. \A n \in FirstLevel, u \in Tag :
        /\ \A s \in Valid : Permission(n, u)' = s <=>
             \E e \in Entry : e[1] = n /\ Shown(e, u, s)'
        /\ Permission(n, u)' \in State
  BY ShownNext
<1>3. ASSUME NEW n \in FirstLevel, NEW u \in Tag, ~(n = m /\ u = t)
      PROVE  Permission(n, u)' = Permission(n, u)
  <2>1. \A e \in Entry, s \in Valid : e[1] = n => (Shown(e, u, s)' <=> Shown(e, u, s))
    <3>1. SUFFICES ASSUME NEW e \in Entry, NEW s \in Valid, e[1] = n
                   PROVE  Shown(e, u, s)' <=> Shown(e, u, s)
      OBVIOUS
    <3>2. CASE e = x
      <4>1. u # t  BY <1>3, <3>1, <3>2
      <4> QED  BY <3>2, <4>1 DEF Shown, Valid
    <3> QED  BY <3>1, <3>2
  <2>2. \A s \in Valid : Permission(n, u)' = s <=> Permission(n, u) = s
    BY <1>1, <1>2, <2>1
  <2> QED  BY <1>1, <1>2, <2>2 DEF Valid
<1>4. \A e \in Entry, s \in Valid : e[1] = m /\ Shown(e, t, s) => e = x
  BY SameEntry DEF Shown, Valid, Matches
<1>5. \A e \in Entry, s \in Valid : e[1] = m /\ Shown(e, t, s)' => e = x
  BY <1>4
<1>6. \A s \in Valid : Permission(m, t) = s <=> Shown(x, t, s)
  BY <1>1, <1>4
<1>7. \A s \in Valid : Permission(m, t)' = s <=> Shown(x, t, s)'
  BY <1>2, <1>5
<1>8. blk[x].state \in State /\ blk'[x].state \in State
  BY DEF IInv, TypeOK
<1>9. Permission(m, t) = IF Leaving(x) THEN "I" ELSE blk[x].state
  BY <1>1, <1>6, <1>8 DEF Shown, Valid
<1>10. Permission(m, t)' = IF Leaving(x)' THEN "I" ELSE blk'[x].state
  BY <1>2, <1>7, <1>8 DEF Shown, Valid
<1> QED  BY <1>3, <1>9, <1>10

\* Nothing changes for the processors.
LEMMA NothingShows ==
  ASSUME IInv, Entries, IInv', Entries',
         \A e \in Entry : e[1] \in FirstLevel =>
           \A u \in Tag, s \in Valid : Shown(e, u, s)' <=> Shown(e, u, s)
  PROVE  View' = View
<1>1. ASSUME NEW n \in FirstLevel, NEW u \in Tag  PROVE Permission(n, u)' = Permission(n, u)
  <2>1. /\ \A s \in Valid : Permission(n, u) = s <=>
             \E e \in Entry : e[1] = n /\ Shown(e, u, s)
        /\ Permission(n, u) \in State
    BY PermissionShown
  <2>2. /\ \A s \in Valid : Permission(n, u)' = s <=>
             \E e \in Entry : e[1] = n /\ Shown(e, u, s)'
        /\ Permission(n, u)' \in State
    BY ShownNext
  <2>3. \A e \in Entry, s \in Valid : e[1] = n => (Shown(e, u, s)' <=> Shown(e, u, s))
    OBVIOUS
  <2>4. \A s \in Valid : Permission(n, u)' = s <=> Permission(n, u) = s
    BY <2>1, <2>2, <2>3
  <2> QED  BY <2>1, <2>2, <2>4 DEF Valid
<1> QED  BY <1>1 DEF View, FirstLevel

\* The lower level has accepted the eviction of a block: its module no longer shows it.
LEMMA AcceptsShows ==
  ASSUME LevelsInv', AtTheTop, OneMemory, NEW k, NEW p, Step(k, p), Accepts(k)
  PROVE  [C!Next]_View
<1>1. /\ LevelsInv /\ IInv /\ Entries /\ IInv' /\ Entries'
  BY StepFacts DEF LevelsInv
<1>2. PICK x : x = Source(k)  OBVIOUS
<1>3. PICK t : t = frames[k].tag  OBVIOUS
<1>4. PICK m : m = x[1]  OBVIOUS
<1>5. /\ x \in Entry /\ blk'[x] = blk[x] /\ Locked(k) \in Entry
      /\ Locked(k) # x /\ Locked(k)[1] = Low[m]
  BY <1>1, <1>2, <1>4, StepFacts, AcceptsStill
<1>6. m \in Mod  BY <1>4, <1>5, EntryPair
<1>7. blk[x].tag = t /\ blk[x].state # "I" /\ t \in Tag
  BY <1>2, <1>3, StepFacts DEF Accepts, Current, Frame
<1>8. ASSUME NEW e \in Entry, e # x, e[1] \in FirstLevel, NEW u \in Tag, NEW s \in Valid
      PROVE  Shown(e, u, s)' <=> Shown(e, u, s)
  <2>1. e # Locked(k)  BY <1>5, <1>6, <1>8 DEF AtTheTop
  <2>2. blk'[e] = blk[e]
    BY <1>5, <2>1, StepFacts, WritesAt DEF Accepts
  <2>3. ~OwnGone(k, e) /\ ~OwnGone(k, e)'
    <3>1. ~ \E q : EvictionEnds(k, q)
      BY StepFacts DEF EvictionEnds, Returns, Accepts
    <3> QED  BY <1>2, <1>8, <3>1, StepFacts, GoneOwn
  <2> QED  BY <2>2, <2>3, ShownSame
<1>9. CASE m \notin FirstLevel
  <2>1. \A e \in Entry : e[1] \in FirstLevel => e # x  BY <1>4, <1>9
  <2>2. View' = View  BY <1>1, <1>8, <2>1, NothingShows
  <2> QED  BY <2>2 DEF View
<1>10. CASE m \in FirstLevel
  <2>1. Leaving(x)'
    <3>1. k \in InFlight' /\ frames'[k].ev = "reply" /\ ~frames'[k].err
          /\ frames'[k].kind = "evict" /\ Source(k)' = x
      BY <1>2, StepFacts DEF Accepts, Alone, Goes, Like, Placed, Results, Source
    <3> QED  BY <3>1 DEF Leaving
  <2>2. /\ \A n \in FirstLevel, u \in Tag :
              ~(n = m /\ u = t) => Permission(n, u)' = Permission(n, u)
        /\ Permission(m, t)' = "I"
    BY <1>1, <1>4, <1>5, <1>7, <1>8, <1>10, <2>1, EntryChanges DEF Matches
  <2>3. MayBecome(Permission(m, t), Permission(m, t)')  BY <2>2 DEF MayBecome
  <2> QED  BY <1>1, <1>7, <1>10, <2>2, <2>3, OneChanges
<1> QED  BY <1>9, <1>10

\* An access gets its block, or a request down-up takes it or its data: the states before
\* and after
LEMMA WriteStates ==
  ASSUME AtTheTop, Unasked, NEW k, NEW p, Step(k, p),
         Settles(k) \/ \E q : GivesData(k, q) \/ Yields(k, q),
         NEW x, x = Locked(k), x[1] \in FirstLevel, NEW t, t = frames[k].tag
  PROVE  /\ \A e \in Entry \ {x} : blk'[e] = blk[e]
         /\ blk[x].state # "I" => blk[x].tag = t
         /\ blk'[x].state # "I" => blk'[x].tag = t
         /\ MayBecome(blk[x].state, blk'[x].state) \/ blk'[x].state = blk[x].state
<1>1. Locks(k)  BY DEF Settles, GivesData, Yields
<1>2. x \in Entry /\ x[1] = frames[k].at  BY <1>1, StepFacts DEF FrameOK, Locked
<1>3. /\ frames[k].kind # "readUD"
      /\ blk[x].state = frames[k].state /\ (frames[k].state # "I" => blk[x].tag = t)
      /\ frames[k].ev = "miss" => frames[k].state = "I"
  BY <1>1, StepFacts DEF Settles, GivesData, Yields, Current, AccessKind
<1>4. CASE Settles(k)
  <2>1. PICK s : /\ Writes(x, t, s)
                 /\ s = "M" \/ (s \in {"S", "E"} /\ frames[k].ev = "miss")
    BY <1>4 DEF Settles
  <2>2. /\ blk'[x].tag = t /\ blk'[x].state = s
        /\ \A e \in Entry \ {x} : blk'[e] = blk[e]
    BY <1>2, <2>1, StepFacts, WritesAt
  <2> QED  BY <1>3, <2>1, <2>2 DEF MayBecome
<1>5. CASE \E q : GivesData(k, q)
  <2>1. frames[k].kind = "readDU" /\ Writes(x, t, StateAfterRead(frames[k]))
    BY <1>5 DEF GivesData
  <2>2. /\ blk'[x].tag = t /\ blk'[x].state = StateAfterRead(frames[k])
        /\ \A e \in Entry \ {x} : blk'[e] = blk[e]
    BY <1>2, <2>1, StepFacts, WritesAt
  <2>3. frames[k].reply = "none"  BY <1>2, <2>1, StepFacts DEF Unasked
  <2>4. frames[k].state \in Owned  BY <1>1, <2>1, StepFacts DEF DownUp
  <2>5. \/ StateAfterRead(frames[k]) = "S"
        \/ StateAfterRead(frames[k]) = "O" /\ frames[k].state \in {"M", "O"}
    BY <2>3 DEF StateAfterRead
  <2> QED  BY <1>3, <2>2, <2>4, <2>5 DEF MayBecome, Owned
<1>6. CASE \E q : Yields(k, q)
  <2>1. IInv /\ Writes(x, None, "I")  BY <1>6, StepFacts DEF Yields
  <2>2. blk'[x].state = "I" /\ \A e \in Entry \ {x} : blk'[e] = blk[e]
    BY ONLY <1>2, <2>1, WritesAt
  <2> QED  BY <1>3, <2>2 DEF MayBecome
<1> QED  BY <1>4, <1>5, <1>6

LEMMA WritesShows ==
  ASSUME LevelsInv', AtTheTop, OneMemory, Unasked, NEW k, NEW p, Step(k, p),
         Settles(k) \/ \E q : GivesData(k, q) \/ Yields(k, q)
  PROVE  [C!Next]_View
<1>1. /\ LevelsInv /\ IInv /\ Entries /\ IInv' /\ Entries'
  BY StepFacts DEF LevelsInv
<1>2. PICK x : x = Locked(k)  OBVIOUS
<1>3. PICK t : t = frames[k].tag  OBVIOUS
<1>4. PICK m : m = x[1]  OBVIOUS
<1>5. Locks(k) /\ frames[k].kind # "evict"
  BY DEF Settles, GivesData, Yields, AccessKind
<1>6. x \in Entry /\ Matches(x, t) /\ Private(k, x) /\ Holds(k, x) /\ t \in Tag
  BY <1>1, <1>2, <1>3, <1>5, StepFacts, LockedOwn DEF Frame
<1>7. \A e \in Entry : ~OwnGone(k, e) /\ ~OwnGone(k, e)'
  <2>1. ~ \E q : EvictionEnds(k, q)  BY <1>5 DEF EvictionEnds, Returns
  <2>2. ~Accepts(k)  BY <1>5 DEF Accepts
  <2> QED  BY <2>1, <2>2, StepFacts, GoneOwn
<1>8. ASSUME NEW e \in Entry, blk'[e] = blk[e], NEW u \in Tag, NEW s \in Valid
      PROVE  Shown(e, u, s)' <=> Shown(e, u, s)
  BY <1>7, <1>8, ShownSame
<1>9. CASE m \notin FirstLevel
  <2>1. \E v, s : Writes(x, v, s)  BY <1>2 DEF Settles, GivesData, Yields
  <2>2. \A e \in Entry \ {x} : blk'[e] = blk[e]  BY <1>1, <1>6, <2>1, WritesAt
  <2>3. \A e \in Entry : e[1] \in FirstLevel => e # x  BY <1>4, <1>9
  <2>4. View' = View  BY <1>1, <1>8, <2>2, <2>3, NothingShows
  <2> QED  BY <2>4 DEF View
<1>10. CASE m \in FirstLevel
  <2>1. /\ \A e \in Entry \ {x} : blk'[e] = blk[e]
        /\ blk[x].state # "I" => blk[x].tag = t
        /\ blk'[x].state # "I" => blk'[x].tag = t
        /\ MayBecome(blk[x].state, blk'[x].state) \/ blk'[x].state = blk[x].state
    BY <1>2, <1>3, <1>4, <1>10, WriteStates
  <2>2. /\ \A n \in FirstLevel, u \in Tag :
              ~(n = m /\ u = t) => Permission(n, u)' = Permission(n, u)
        /\ Permission(m, t) = IF Leaving(x) THEN "I" ELSE blk[x].state
        /\ Permission(m, t)' = IF Leaving(x)' THEN "I" ELSE blk'[x].state
    BY <1>1, <1>4, <1>6, <1>8, <1>10, <2>1, EntryChanges
  <2>3. ~Leaving(x)
    <3>1. ~Outbound(k, x)  BY <1>1, <1>5, <1>6, MineOnly DEF Entries
    <3> QED  BY <1>6, <1>7, <3>1, LeavingParts
  <2>4. ~Leaving(x)'
    <3>1. Outbound(k, x)' <=> Outbound(k, x)  BY StepFacts, OutboundKept
    <3> QED  BY <1>6, <1>7, <2>3, <3>1, LeavingParts
  <2> QED  BY <1>1, <1>6, <1>10, <2>1, <2>2, <2>3, <2>4, OneChanges
<1> QED  BY <1>9, <1>10

\* Every step of the protocol changes what one first-level module shows of one block, as
\* the memory may change it, or nothing.
LEMMA StepImplements ==
  ASSUME LevelsInv, LevelsInv', AtTheTop, OneMemory, Unasked, "nc" \notin Ops, [Next]_vars
  PROVE  [C!Next]_View
<1>1. /\ IInv /\ Entries /\ Levels /\ Plain /\ DownUpSucceeds /\ IInv' /\ Entries'
  BY LevelsDownUp DEF LevelsInv, Entries
<1>2. CASE UNCHANGED vars
  <2>1. \A e \in Entry : \A u \in Tag, s \in Valid : Shown(e, u, s)' <=> Shown(e, u, s)
    BY <1>2 DEF vars, Shown, Leaving, InFlight, Source
  <2>2. View' = View  BY <1>1, <2>1, NothingShows
  <2> QED  BY <2>2 DEF View
<1>3. ASSUME NEW k, Starts(k)  PROVE [C!Next]_View
  <2>1. blk' = blk /\ InFlight' = InFlight \cup {k} /\ k \notin InFlight
        /\ frames'[k].kind # "evict"
    BY <1>3 DEF Starts, NoEntry, AccessKind
  <2>2. \A j \in InFlight : Same(j)  BY <1>3, <2>1 DEF Starts, Others
  <2>3. ASSUME NEW e \in Entry  PROVE Leaving(e)' <=> Leaving(e)
    <3>1. \A j \in InFlight : /\ frames'[j].kind = frames[j].kind /\ Source(j)' = Source(j)
                              /\ frames'[j].ev = "reply" <=> frames[j].ev = "reply"
                              /\ frames'[j].err = frames[j].err
      BY <2>2 DEF Same, Like, Results, Source
    <3> QED  BY <2>1, <3>1 DEF Leaving
  <2>4. \A e \in Entry : \A u \in Tag, s \in Valid : Shown(e, u, s)' <=> Shown(e, u, s)
    BY <2>1, <2>3 DEF Shown
  <2>5. View' = View  BY <1>1, <2>4, NothingShows
  <2> QED  BY <2>5 DEF View
<1>4. ASSUME NEW k \in InFlight, Event(k)  PROVE [C!Next]_View
  <2>1. Idle(k) /\ Does(k)  BY <1>1, <1>4, Effects
  <2>2. PICK p : Shape(k, p)  BY <1>1, <2>1, DoesShape
  <2>3. Step(k, p)  BY <1>1, <2>1, <2>2 DEF Step
  <2>4. CASE Accepts(k)  BY <2>3, <2>4, AcceptsShows
  <2>5. CASE Settles(k) \/ \E q : GivesData(k, q) \/ Yields(k, q)
    BY <2>3, <2>5, WritesShows
  <2>6. CASE ~Shows(k)
    <3>1. View' = View  BY <1>1, <2>3, <2>6, NoneShows, NothingShows
    <3> QED  BY <3>1 DEF View
  <2> QED  BY <2>4, <2>5, <2>6 DEF Shows
<1>5. CASE \E a \in Access, op \in Ops, t \in Tag : Start(a, op, t)
  BY <1>1, <1>3, <1>5, StartEffect
<1> QED  BY <1>2, <1>4, <1>5 DEF Next

\* At first nobody has anything.
LEMMA InitImplements ==
  ASSUME Init
  PROVE  C!Init /\ Unasked
<1>1. \A m, t : ~Has(m, t, Valid)
  BY DEF Init, Has, Valid
<1>2. \A m, t : Permission(m, t) = "I"
  BY <1>1 DEF Permission
<1>3. InFlight = {}  BY DEF Init, InFlight
<1> QED  BY <1>2, <1>3 DEF C!Init, Unasked

LEMMA UnaskedNext ==
  ASSUME LevelsInv, LevelsInv', AtTheTop, Unasked, "nc" \notin Ops, [Next]_vars
  PROVE  Unasked'
<1>1. IInv /\ Entries /\ Levels /\ Plain /\ DownUpSucceeds
  BY LevelsDownUp DEF LevelsInv, Entries
<1>2. CASE UNCHANGED vars
  BY <1>2 DEF vars, Unasked, InFlight, FirstLevel
<1>3. ASSUME NEW k, Starts(k)  PROVE Unasked'
  <2>1. frames'[k].kind # "readDU"  BY <1>3 DEF Starts, AccessKind
  <2>2. \A j \in InFlight : Same(j)  BY <1>3 DEF Starts, Others
  <2> QED  BY <1>3, <2>1, <2>2 DEF Starts, Same, Like, Results, Unasked, FirstLevel
<1>4. ASSUME NEW k \in InFlight, Event(k)  PROVE Unasked'
  <2>1. Idle(k) /\ Does(k)  BY <1>1, <1>4, Effects
  <2>2. PICK p : Shape(k, p)  BY <1>1, <2>1, DoesShape
  <2>3. Step(k, p)  BY <1>1, <2>1, <2>2 DEF Step
  <2> QED  BY <2>3, UnaskedStep
<1>5. CASE \E a \in Access, op \in Ops, t \in Tag : Start(a, op, t)
  BY <1>1, <1>3, <1>5, StartEffect
<1> QED  BY <1>2, <1>4, <1>5 DEF Next

\* Without non-coherent stores, when no module is above those that the processors access
\* and there is one main memory below them: the first-level modules behave as one coherent
\* memory.  A step changes what one of them shows of one block, and a permission is taken
\* when those of all the others, however far in the tree, allow it.
THEOREM FirstLevelMemory ==
  ASSUME "nc" \notin Ops, AtTheTop, OneMemory
  PROVE  Spec => ImplementsCoherence
<1>1. Init => C!Init /\ Unasked  BY InitImplements
<1>2. LevelsInv /\ LevelsInv' /\ Unasked /\ [Next]_vars => Unasked'  BY UnaskedNext
<1>3. LevelsInv /\ LevelsInv' /\ Unasked /\ [Next]_vars => [C!Next]_View
  BY StepImplements
<1>4. Spec => []LevelsInv  BY LevelsInvariant
<1> QED  BY <1>1, <1>2, <1>3, <1>4, PTL DEF Spec, ImplementsCoherence, C!Spec, View

-----------------------------------------------------------------------------
(***************************************************************************)
(* The entries that frames wait for.                                       *)
(***************************************************************************)
DownKind == {"readDU", "writeDU"}

\* What is known of every frame
LEMMA FramesKnown ==
  ASSUME LevelsInv, NEW j \in InFlight
  PROVE  /\ FrameOK(j) /\ CallOK(j) /\ ReliesOn(j) /\ CalledFor(j) /\ Tagged(j) /\ Current(j)
         /\ DownUp(j) /\ Answer(j) /\ PlainFrame(j) /\ frames[j] \in Frame(frames[j].ret)
         /\ frames[j].kind \notin AccessKind =>
              /\ frames[j].ret \in InFlight /\ j \in Children(frames[j].ret)
              /\ frames[j].kind \in {"readUD", "readDU", "writeUD", "writeDU",
                                     "evict", "invalidate"}
<1>1. IInv /\ Entries /\ Levels /\ Plain  BY DEF LevelsInv, Entries
<1>2. /\ FrameOK(j) /\ CallOK(j) /\ ReliesOn(j) /\ CalledFor(j) /\ Tagged(j) /\ Current(j)
      /\ DownUp(j) /\ Answer(j) /\ PlainFrame(j) /\ frames[j] \in Frame(frames[j].ret)
  BY <1>1, FrameFacts DEF Entries, Levels, Plain
<1>3. ASSUME frames[j].kind \notin AccessKind
      PROVE  frames[j].ret \in InFlight /\ j \in Children(frames[j].ret)
  BY <1>1, <1>3 DEF IInv, TypeOK, Children
<1>4. frames[j].kind \notin AccessKind =>
        frames[j].kind \in {"readUD", "readDU", "writeUD", "writeDU", "evict", "invalidate"}
  BY <1>1, KindsPlain
<1> QED  BY <1>2, <1>3, <1>4

\* Who has sent a read request to the owner of a block, and for which entry
LEMMA DataAsked ==
  ASSUME LevelsInv, NEW k \in InFlight, frames[k].kind = "readDU", frames[k].ev # "reply",
         NEW q, q = frames[k].ret, NEW x, x = Locked(q)
  PROVE  /\ q \in InFlight /\ k \in Children(q)
         /\ frames[q].ev = "finish" /\ frames[q].kind \in {"readUD", "readDU"}
         /\ Locks(q) /\ Holds(q, x) /\ x \in Entry /\ x[1] = frames[q].at
         /\ frames[k].tag = frames[q].tag /\ lock[x] = frames[k].tag
         /\ dir[x].owner = frames[k].at /\ Low[frames[k].at] = x[1] /\ frames[k].at \in Mod
<1>1. PICK f : f = frames[k]  OBVIOUS
<1>2. /\ q \in InFlight /\ k \in Children(q)
      /\ CallOK(k) /\ CalledFor(k) /\ DownUp(k)
  BY FramesKnown DEF AccessKind
<1>3. /\ frames[q].ev = "finish" /\ frames[q].kind \in {"readUD", "readDU"}
      /\ f.tag = frames[q].tag /\ f.from = frames[q].at
  BY <1>1, <1>2 DEF CallOK, CalledFor, AccessKind
<1>4. Locks(q)  BY <1>3 DEF Locks
<1>5. FrameOK(q) /\ Tagged(q)  BY <1>2, FramesKnown
<1>6. Holds(q, x) /\ x \in Entry /\ x[1] = frames[q].at
  BY <1>4, <1>5 DEF FrameOK, Holds, Locked
<1>7. lock[x] = f.tag  BY <1>3, <1>5, <1>6 DEF Tagged
<1>8. dir[x].owner = f.at /\ f.at # None  BY <1>1, <1>2 DEF DownUp
<1>9. IInv  BY DEF LevelsInv
<1>10. f.at \in Mod
  <2>1. dir[x].owner \in Mod \cup {None}
    BY <1>6, <1>9 DEF IInv, TypeOK
  <2> QED  BY <1>8, <2>1
<1>11. Low[f.at] = x[1]
  <2>1. EntryOK(x)  BY <1>6, <1>9 DEF IInv
  <2> QED  BY <1>8, <1>10, <2>1, TreeAssumption DEF EntryOK
<1> QED  BY <1>1, <1>2, <1>3, <1>4, <1>6, <1>7, <1>8, <1>10, <1>11

\* A request down-up that is not answered yet finds its block.
LEMMA DownFinds ==
  ASSUME LevelsInv, NEW k \in InFlight, frames[k].kind \in DownKind, frames[k].ev # "reply",
         NEW m, m = frames[k].at, NEW t, t = frames[k].tag
  PROVE  /\ m \in Mod /\ t \in Tag /\ HasCopy(m, t, Valid)
         /\ \E y \in Entry : y[1] = m /\ Copy(y, t, Valid) /\ Matches(y, t)
<1>1. IInv /\ Entries /\ Levels  BY DEF LevelsInv
<1>2. /\ frames[k] \in Frame(frames[k].ret) /\ FrameOK(k) /\ DownUp(k)
  BY FramesKnown
<1>3. t \in Tag  BY <1>2 DEF Frame
<1>4. m \in Mod /\ HasCopy(m, t, Valid)
  <2>1. CASE frames[k].kind = "writeDU"
    BY <1>2, <2>1 DEF FrameOK, DownUp
  <2>2. CASE frames[k].kind = "readDU"
    <3>1. PICK q : q = frames[k].ret  OBVIOUS
    <3>2. PICK x : x = Locked(q)  OBVIOUS
    <3>3. /\ q \in InFlight /\ k \in Children(q)
          /\ frames[q].ev = "finish" /\ frames[q].kind \in {"readUD", "readDU"}
          /\ Locks(q) /\ Holds(q, x) /\ x \in Entry
          /\ t = frames[q].tag /\ dir[x].owner = m /\ m \in Mod
      BY <2>2, <3>1, <3>2, DataAsked
    <3>4. EntryOK(x) /\ Current(q)  BY <1>1, <3>3, FramesKnown DEF IInv
    <3>5. blk[x].state # "I"  BY <3>3, <3>4, TreeAssumption DEF EntryOK
    <3>6. blk[x].tag = t  BY <3>2, <3>3, <3>4, <3>5 DEF Current
    <3>7. x[1] \in Mod  BY <3>3, EntryPair
    <3>8. OwnerHasIt(x, t)  BY <1>1, <1>3, <3>3, <3>6, <3>7 DEF Levels, Family
    <3>9. ~ \E j \in InFlight : Awaits(j, x)
      <4>1. SUFFICES ASSUME NEW j \in InFlight, Awaits(j, x)  PROVE FALSE  OBVIOUS
      <4>2. j = q  BY <1>1, <3>3, <4>1 DEF IInv, HeldOnce, Awaits
      <4> QED  BY <3>3, <4>1, <4>2 DEF Awaits, Answered
    <3>10. HasCopy(m, t, Owned)
      BY <3>3, <3>8, <3>9, TreeAssumption DEF OwnerHasIt
    <3> QED  BY <3>3, <3>10, Rights, CopyMonotone
  <2> QED  BY <2>1, <2>2 DEF DownKind
<1>5. PICK y \in Entry : y[1] = m /\ Copy(y, t, Valid)  BY <1>4 DEF HasCopy
<1>6. Matches(y, t)  BY <1>1, <1>5, CopyMatches, Rights
<1> QED  BY <1>3, <1>4, <1>5, <1>6

\* The entry that frame k has waited for, whose way it keeps, is the one that it needs:
\* the block is in no other.
OnlyAt(k) ==
  \A y \in Entry : y[1] = frames[k].at /\ Matches(y, frames[k].tag) => y = Locked(k)

Keeps(k) == frames[k].ev # "reply" /\ frames[k].way # 0 => OnlyAt(k)

\* A block gets into an entry when a frame locks it that has found the block nowhere.
LEMMA NewMatch ==
  ASSUME NEW k, NEW p, Step(k, p), NEW d \in Entry, NEW t \in Tag,
         Matches(d, t)', ~Matches(d, t)
  PROVE  /\ frames[k].ev = "lock" /\ t = frames[k].tag
         /\ d \in Candidates(frames[k]) /\ d[1] = frames[k].at
         /\ \A y \in Entry : y[1] = d[1] => ~Matches(y, t)
<1>1. Footprint(k)  BY StepFacts, FootprintOne
<1>2. ~NoEntry  BY DEF NoEntry, Matches
<1>3. PICK e \in Entry :
        /\ AtMost(e)
        /\ \A u \in Tag : Matches(e, u)' =>
             \/ Matches(e, u)
             \/ e \in Candidates(frames[k]) /\ u = frames[k].tag /\ frames[k].ev = "lock"
  BY <1>1, <1>2 DEF Footprint
<1>4. d = e  BY <1>3 DEF AtMost, Matches
<1>5. d \in Candidates(frames[k]) /\ t = frames[k].tag /\ frames[k].ev = "lock"
  BY <1>3, <1>4
<1>6. d[1] = frames[k].at  BY <1>5 DEF Candidates
<1>7. ASSUME NEW y \in Entry, y[1] = d[1], Matches(y, t)  PROVE FALSE
  <2>1. y \in {e_1 \in {x \in Entry : x[1] = frames[k].at} : Matches(e_1, frames[k].tag)}
    BY <1>5, <1>6, <1>7
  <2> QED  BY <1>5, <2>1 DEF Candidates
<1> QED  BY <1>5, <1>6, <1>7

\* A frame that looks for an entry gets one, or waits for one, or has none.
LEMMA LockEvents ==
  ASSUME NEW k \in InFlight, Event(k), frames[k].ev = "lock"
  PROVE  LockBusy(k) \/ LockFree(k) \/ LockEvict(k)
BY DEF Event, Scheduled, LockError, InvalidateFinish, EvictAction, EvictProcess,
       EvictReplyReceive, ReadUpdown, ReadUpdownMiss, ReadUpdownFinish, ReadDownup,
       ReadDownupFinish, WriteAction, WriteUpdown, WriteUpdownFinish, WriteDownup,
       MessageAction, Reply, LoadAction, LoadMiss, StoreAction, StoreUnlock, NcWriteback,
       NcAction, NcMiss

\* The frames that may wait
WaitKind == {"load", "store"} \cup DownKind

\* A frame has another way when it has looked for an entry, or when its victim is gone.
LEMMA WayStays ==
  ASSUME NEW k, NEW p, Step(k, p), NEW j \in InFlight, j \in InFlight',
         frames[j].kind \in WaitKind, j # k \/ frames[k].ev # "lock"
  PROVE  frames'[j].way = frames[j].way \/ EvictionEnds(k, j)
<1>1. k \in InFlight /\ Idle(k) /\ Does(k)  BY StepFacts
<1>2. frames[j].kind # "evict" /\ frames[j].kind # "invalidate"
  BY DEF WaitKind, DownKind
<1>3. CASE Others(k, k)
  <2>1. CASE j # k  BY <1>3, <2>1 DEF Others, Same, Placed
  <2>2. CASE j = k
    <3>1. CASE GivesUp(k)
      BY <1>1, <2>2, <3>1 DEF GivesUp, Looks, Ended, Locks
    <3>2. ASSUME NEW v, Goes(k, v)  PROVE frames'[k].way = frames[k].way
      BY <3>2 DEF Goes, Placed
    <3>3. ASSUME NEW v, NEW N, Called(k, v, N)  PROVE frames'[k].way = frames[k].way
      BY <3>3 DEF Called, Placed
    <3>4. ASSUME Ended(k)  PROVE FALSE  BY <2>2, <3>4 DEF Ended
    <3>5. CASE \E e \in Entry : Gets(k, e) \/ Replaces(k, e)
      BY <2>2, <3>5 DEF Gets, Replaces
    <3>6. CASE Settles(k) \/ InvalidationEnds(k) \/ Received(k)
      BY <3>4, <3>6 DEF Settles, InvalidationEnds, Received
    <3>7. CASE SendsDown(k) \/ Accepts(k) \/ Refuses(k) \/ \E q : EvictionFails(k, q) \/ EvictionEnds(k, q)
      BY <1>2, <2>2, <3>7 DEF SendsDown, Accepts, Refuses, EvictionFails, EvictionEnds, Returns
    <3>8. CASE Passes(k) \/ \E q : GivesBlock(k, q) \/ GivesData(k, q) \/ Yields(k, q)
      BY <2>2, <3>2, <3>8 DEF Passes, ToldError, Told, GivesBlock, GivesData, Yields
    <3>9. CASE AsksOwner(k) \/ Fills(k) \/ Takes(k) \/ AsksExclusive(k) \/ GivesExclusive(k)
      BY <2>2, <3>2, <3>3, <3>9 DEF AsksOwner, Fills, Takes, AsksExclusive, GivesExclusive, CallsUp
    <3>10. CASE \/ CallsUp(k, "miss", ReadUp(k)) \/ CallsUp(k, "unlock", WriteUp(k))
                \/ Goes(k, "unlock")
      BY <2>2, <3>2, <3>3, <3>10 DEF CallsUp
    <3> QED  BY <1>1, <2>2, <3>1, <3>5, <3>6, <3>7, <3>8, <3>9, <3>10 DEF Does
  <2> QED  BY <2>1, <2>2
<1>4. ASSUME NEW q, Told(k, q)
      PROVE  frames'[j].way = frames[j].way
  <2>1. CASE j = k  BY <1>4, <2>1 DEF Told, Goes, Placed
  <2>2. CASE j = q  BY <1>4, <2>2 DEF Told, Placed
  <2>3. CASE j # k /\ j # q  BY <1>4, <2>3 DEF Told, Alone, Others, Same, Placed
  <2> QED  BY <2>1, <2>2, <2>3
<1>5. ASSUME NEW q, EvictionFails(k, q) \/ EvictionEnds(k, q)
      PROVE  frames'[j].way = frames[j].way \/ EvictionEnds(k, j)
  <2>1. Others(k, q) /\ frames[k].kind = "evict"
    BY <1>5 DEF EvictionFails, EvictionEnds, Returns
  <2>2. CASE j = q  BY <1>5, <2>2 DEF EvictionFails
  <2>3. CASE j # q  BY <1>2, <2>1, <2>3 DEF Others, Same, Placed
  <2> QED  BY <2>2, <2>3
<1>6. \/ Others(k, k)
      \/ \E q : Told(k, q)
      \/ \E q : EvictionFails(k, q) \/ EvictionEnds(k, q)
  BY <1>1 DEF Does, Looks, Gets, Replaces, GivesUp, Settles, InvalidationEnds, SendsDown,
       Accepts, Refuses, Received, Passes, ToldError, AsksOwner, Fills, GivesBlock, GivesData,
       Takes, AsksExclusive, GivesExclusive, Yields, CallsUp, Called, Alone, Ended
<1> QED  BY <1>3, <1>4, <1>5, <1>6

\* A frame that is over, or has replied, does not come back.
LEMMA RepliedBefore ==
  ASSUME NEW k, NEW p, Step(k, p), NEW j \in InFlight, j \in InFlight', frames[j].ev = "reply"
  PROVE  frames'[j].ev = "reply"
<1>1. IInv /\ k \in InFlight /\ Idle(k) /\ Shape(k, p)  BY StepFacts
<1>2. CASE j = k  BY <1>2, <1>1 DEF Shape
<1>3. CASE j # k /\ j = p  BY <1>1, <1>3, CallerEvents
<1>4. CASE j # k /\ j # p  BY <1>1, <1>4 DEF Shape, Others, Same
<1> QED  BY <1>2, <1>3, <1>4

\* A frame that may wait keeps to the entry that it needs, unless another frame puts the
\* block into an entry of the module.
LEMMA KeepsStep ==
  ASSUME NEW k, NEW p, Step(k, p), Event(k), Entries', NEW j \in InFlight, j \in InFlight',
         frames[j].kind \in WaitKind, Keeps(j),
         NEW m, m = frames[j].at, NEW t, t = frames[j].tag,
         \A d \in Entry : d[1] = m /\ Matches(d, t)' /\ ~Matches(d, t) /\ frames[j].ev # "reply"
           => k = j
  PROVE  Keeps(j)'
<1>1. /\ IInv /\ Entries /\ k \in InFlight /\ Idle(k) /\ Does(k) /\ Shape(k, p)
      /\ Tagged(j) /\ frames[j] \in Frame(frames[j].ret)
  BY StepFacts, FrameFacts DEF Entries
<1>2. frames'[j].at = m /\ frames'[j].tag = t /\ t \in Tag
  BY <1>1, StillLike DEF Like, Frame
<1>3. SUFFICES ASSUME frames[j].ev # "reply", frames'[j].way # 0,
                      NEW y \in Entry, y[1] = m, Matches(y, t)'
               PROVE  y = Locked(j)'
  BY <1>2, RepliedBefore DEF Keeps, OnlyAt, Matches
<1>4. \A d, e \in Entry : d[1] = e[1] /\ Matches(d, t)' /\ Matches(e, t)' => d = e
  BY <1>2 DEF Entries, OneEntry
<1>5. Locked(j)' = <<m, frames'[j].way>>  BY <1>2 DEF Locked
<1>6. CASE j = k /\ frames[k].ev = "lock"
  <2>1. CASE LockBusy(k)
    <3>1. Blocking(frames[k])  BY <1>6 DEF Blocking, WaitKind, DownKind
    <3>2. PICK e \in Candidates(frames[k]) :
            frames' = [frames EXCEPT ![k].way = e[2], ![k].ev = "lockWait"]
      BY <2>1, <3>1 DEF LockBusy
    <3>3. frames'[k].way = e[2]  BY <1>1, <1>6, <3>2 DEF InFlight, Frame
    <3>4. Matches(y, t)
      BY <1>3, <2>1 DEF LockBusy, Matches
    <3>5. e \in Entry /\ e[1] = m /\ Matches(e, t)
      BY <1>3, <1>6, <3>4 DEF Candidates
    <3>6. e = y  BY <1>1, <1>2, <1>3, <3>4, <3>5, SameEntry
    <3>7. e = <<e[1], e[2]>>  BY <3>5, EntryPair
    <3> QED  BY <1>5, <1>6, <3>3, <3>5, <3>6, <3>7
  <2>2. CASE LockFree(k)
    <3>1. PICK e \in Entry : Gets(k, e)  BY <1>1, <2>2, LockFreeEffect
    <3>2. Locked(k)' = e /\ lock'[e] = t
      BY <1>1, <1>6, <3>1 DEF Gets, IInv, TypeOK
    <3>3. e[1] = m  BY <1>5, <1>6, <3>2
    <3>4. Matches(e, t)'  BY <3>2 DEF Matches
    <3> QED  BY <1>3, <1>4, <1>6, <3>2, <3>3, <3>4
  <2>3. CASE LockEvict(k)
    <3>1. PICK e \in Entry : Replaces(k, e)  BY <1>1, <2>3, LockEvictEffect
    <3>2. /\ e \in Candidates(frames[k]) /\ lock[e] = None /\ blk[e].state # "I"
          /\ blk[e].tag # t /\ frames'[k].way = frames[k].way
          /\ lock' = [lock EXCEPT ![e] = t] /\ blk' = blk
      BY <1>6, <3>1 DEF Replaces, Called, Placed
    <3>3. ~Matches(e, t)  BY <1>2, <3>2, TreeAssumption DEF Matches
    <3>4. e[1] = m /\ (\A d \in Entry : d[1] = m => ~Matches(d, t)) /\ e[2] = frames[k].way
      BY <1>3, <1>6, <3>2, <3>3 DEF Candidates
    <3>5. y = e
      BY <1>1, <1>3, <3>2, <3>4 DEF Matches, IInv, TypeOK
    <3>6. e = <<e[1], e[2]>>  BY EntryPair
    <3> QED  BY <1>5, <1>6, <3>2, <3>4, <3>5, <3>6
  <2> QED  BY <1>6, <2>1, <2>2, <2>3, LockEvents
<1>7. CASE j # k \/ frames[k].ev # "lock"
  <2>1. Matches(y, t)
    <3>1. CASE j = k  BY <1>2, <1>3, <1>7, <3>1, NewMatch
    <3>2. CASE j # k  BY <1>3, <3>2
    <3> QED  BY <3>1, <3>2
  <2>2. CASE frames'[j].way = frames[j].way
    BY <1>3, <1>5, <2>1, <2>2 DEF Keeps, OnlyAt, Locked
  <2>3. CASE EvictionEnds(k, j)
    <3>1. PICK d : d = Source(k)  OBVIOUS
    <3>2. Locked(j)' = d /\ d \in Entry /\ Holds(j, d)
      BY <2>3, <3>1 DEF EvictionEnds, Returns
    <3>3. d[1] = m /\ Matches(d, t)
      BY <1>1, <1>5, <3>2 DEF Tagged, Matches
    <3> QED  BY <1>1, <1>2, <1>3, <2>1, <3>2, <3>3, SameEntry
  <2> QED  BY <1>7, <2>2, <2>3, WayStays
<1> QED  BY <1>6, <1>7

-----------------------------------------------------------------------------
(***************************************************************************)
(* Who waits, and for which entry.                                         *)
(***************************************************************************)

\* The three kinds of steps
LEMMA NextCases ==
  ASSUME LevelsInv, "nc" \notin Ops, [Next]_vars
  PROVE  \/ UNCHANGED vars
         \/ \E k : Starts(k) /\ queue' = queue
         \/ \E k \in InFlight : \E p : Step(k, p) /\ Event(k)
<1>1. IInv /\ Entries /\ Levels /\ Plain /\ DownUpSucceeds
  BY LevelsDownUp DEF LevelsInv, Entries
<1>2. CASE \E a \in Access, op \in Ops, t \in Tag : Start(a, op, t)
  BY <1>1, <1>2, StartEffect DEF Start
<1>3. ASSUME NEW k \in InFlight, Event(k)  PROVE \E p : Step(k, p)
  <2>1. Idle(k) /\ Does(k)  BY <1>1, <1>3, Effects
  <2>2. PICK p : Shape(k, p)  BY <1>1, <2>1, DoesShape
  <2> QED  BY <1>1, <2>1, <2>2 DEF Step
<1> QED  BY <1>2, <1>3 DEF Next

\* Accesses are where they come from; a module has one access in flight for a block.
Rooted(k) ==
  frames[k].kind \in AccessKind =>
    frames[k].at = frames[k].from /\ frames[k].from \in FirstLevel

Serial ==
  \A j, k \in InFlight :
    /\ frames[j].kind \in AccessKind /\ frames[k].kind \in AccessKind
    /\ frames[j].from = frames[k].from /\ frames[j].tag = frames[k].tag
    => j = k

\* Only those that may wait do.
WaitsRight(k) == frames[k].ev = "lockWait" => frames[k].kind \in WaitKind

Orderly == Serial /\ \A k \in InFlight : Rooted(k) /\ WaitsRight(k)

\* What an event does to the queues and the locks
LEMMA QueueEffect ==
  ASSUME NEW k \in InFlight, Event(k)
  PROVE  \/ queue' = queue /\ lock' = lock
         \/ \E d : Unlock(d)
         \/ LockBusy(k) \/ LockFree(k) \/ LockEvict(k)
<1>1. CASE EvictAction(k) \/ EvictProcess(k) \/ EvictReplyReceive(k)
  BY <1>1 DEF EvictAction, EvictProcess, EvictReplyReceive, EvictFinish
<1>2. CASE \/ InvalidateFinish(k) \/ ReadUpdown(k) \/ ReadUpdownMiss(k)
           \/ ReadUpdownFinish(k) \/ ReadDownup(k) \/ ReadDownupFinish(k)
  BY <1>2 DEF InvalidateFinish, ReadUpdown, ReadUpdownMiss, ReadUpdownFinish, ReadDownup,
       ReadDownupFinish
<1>3. CASE WriteAction(k) \/ WriteUpdown(k) \/ WriteUpdownFinish(k) \/ WriteDownup(k)
           \/ MessageAction(k) \/ Reply(k)
  BY <1>3 DEF WriteAction, WriteUpdown, WriteUpdownFinish, WriteDownup, MessageAction, Reply
<1>4. CASE LockError(k) \/ LoadAction(k) \/ LoadMiss(k) \/ StoreAction(k) \/ StoreUnlock(k)
  BY <1>4 DEF LockError, LoadAction, LoadMiss, StoreAction, StoreUnlock, Done, Fail
<1>5. CASE NcWriteback(k) \/ NcAction(k) \/ NcMiss(k)
  BY <1>5 DEF NcWriteback, NcAction, NcMiss, NcUnlock, Done, Fail
<1> QED  BY <1>1, <1>2, <1>3, <1>4, <1>5 DEF Event

\* A frame that begins to wait was looking for an entry.
LEMMA BeginsToWait ==
  ASSUME NEW k, NEW p, Step(k, p), IInv', Event(k), k \in InFlight', frames'[k].ev = "lockWait"
  PROVE  LockBusy(k) /\ Blocking(frames[k])
<1>1. IInv /\ Idle(k)  BY StepFacts
<1>2. PICK e : e = Locked(k)'  OBVIOUS
<1>3. e \in Entry /\ QueueOK(e)'
  <2>1. FrameOK(k)'  BY DEF IInv
  <2>2. Entry' = Entry  OBVIOUS
  <2> QED  BY <1>2, <2>1, <2>2 DEF IInv, FrameOK
<1>4. PICK i \in 1 .. Len(queue'[e]) : queue'[e][i] = k
  BY <1>2, <1>3 DEF QueueOK
<1>5. ASSUME queue'[e] = queue[e]  PROVE FALSE
  BY <1>1, <1>3, <1>4, <1>5 DEF IInv, QueueOK, Idle
<1>6. queue[e] \in Seq(InFlight) /\ queue \in [Entry -> Seq(InFlight)]
  BY <1>1, <1>3 DEF IInv, TypeOK
<1>7. ASSUME queue[e] # <<>>, queue'[e] = Tail(queue[e])  PROVE FALSE
  <2>1. queue[e][i + 1] = k /\ i + 1 \in 1 .. Len(queue[e])
    BY <1>4, <1>6, <1>7
  <2> QED  BY <1>1, <1>3, <2>1 DEF IInv, QueueOK, Idle
<1>8. CASE \E d : Unlock(d)
  <2>1. PICK d : queue' = [queue EXCEPT ![d] = IF queue[d] = <<>> THEN queue[d] ELSE Tail(queue[d])]
    BY <1>8 DEF Unlock
  <2> QED  BY <1>3, <1>5, <1>6, <1>7, <2>1
<1>9. CASE LockBusy(k)
  BY <1>5, <1>9 DEF LockBusy
<1>10. CASE LockFree(k) \/ LockEvict(k)
  BY <1>5, <1>10 DEF LockFree, LockEvict
<1>11. k \in InFlight  BY StepFacts
<1> QED  BY <1>5, <1>8, <1>9, <1>10, <1>11, QueueEffect

LEMMA OrderlyStep ==
  ASSUME Orderly, IInv', NEW k, NEW p, Step(k, p), Event(k)
  PROVE  Orderly'
<1>1. /\ IInv /\ Plain /\ k \in InFlight /\ Idle(k) /\ Shape(k, p)
  BY StepFacts
<1>2. ASSUME NEW j \in InFlight, j \in InFlight'  PROVE Like(frames[j], frames'[j])
  BY <1>1, <1>2, StillLike
<1>3. ASSUME NEW j \in InFlight', frames'[j].kind \in AccessKind
      PROVE  j \in InFlight /\ frames[j].kind \in AccessKind /\ Like(frames[j], frames'[j])
  BY <1>1, <1>2, <1>3 DEF Shape, NewOK, Like
<1>4. Serial'
  BY <1>3 DEF Orderly, Serial, Like
<1>5. ASSUME NEW j \in InFlight'  PROVE Rooted(j)'
  <2>1. FirstLevel' = FirstLevel  BY DEF FirstLevel
  <2> QED  BY <1>3, <2>1 DEF Orderly, Rooted, Like
<1>6. ASSUME NEW j \in InFlight', frames'[j].ev = "lockWait"  PROVE frames'[j].kind \in WaitKind
  <2>1. CASE j \notin InFlight  BY <1>1, <1>6, <2>1 DEF Shape, NewOK
  <2>2. CASE j = k
    <3>1. Blocking(frames[k])  BY <1>6, <2>2, BeginsToWait
    <3>2. PlainFrame(k)  BY <1>1 DEF Plain
    <3> QED  BY <1>1, <1>2, <2>2, <3>1, <3>2
          DEF Like, Blocking, WaitKind, DownKind, PlainFrame
  <2>3. CASE j = p /\ p # k  BY <1>1, <1>6, <2>3, CallerEvents
  <2>4. CASE j \in InFlight /\ j # k /\ j # p
    <3>1. Same(j)  BY <1>1, <2>4 DEF Shape, Others
    <3> QED  BY <1>6, <2>4, <3>1 DEF Same, Like, Orderly, WaitsRight
  <2> QED  BY <2>1, <2>2, <2>3, <2>4
<1> QED  BY <1>4, <1>5, <1>6 DEF Orderly, WaitsRight

LEMMA OrderlyNext ==
  ASSUME LevelsInv, LevelsInv', "nc" \notin Ops, Orderly, [Next]_vars
  PROVE  Orderly'
<1>1. CASE UNCHANGED vars
  BY <1>1 DEF vars, Orderly, Serial, Rooted, WaitsRight, InFlight, FirstLevel
<1>2. ASSUME NEW k, Starts(k)  PROVE Orderly'
  <2>1. /\ InFlight' = InFlight \cup {k} /\ FirstLevel' = FirstLevel
        /\ \A j \in InFlight : Same(j)
        /\ frames'[k].ev = "lock" /\ frames'[k].at = frames'[k].from
        /\ frames'[k].from \in FirstLevel
        /\ \A j \in InFlight :
             frames[j].kind \in AccessKind /\ frames[j].from = frames'[k].from
               => frames[j].tag # frames'[k].tag
    BY <1>2 DEF Starts, Others, FirstLevel
  <2>2. Serial'  BY <2>1 DEF Orderly, Serial, Same, Like
  <2>3. ASSUME NEW j \in InFlight'  PROVE Rooted(j)' /\ WaitsRight(j)'
    BY <2>1 DEF Orderly, Rooted, WaitsRight, Same, Like
  <2> QED  BY <2>2, <2>3 DEF Orderly
<1>3. ASSUME NEW k \in InFlight, NEW p, Step(k, p), Event(k)  PROVE Orderly'
  BY <1>3, OrderlyStep DEF LevelsInv
<1> QED  BY <1>1, <1>2, <1>3, NextCases

\* A request down-up waits for the entry of its block.  So does an access, when nothing
\* is above the modules that processors access.
Keeping(K) == \A k \in InFlight : frames[k].kind \in K => Keeps(k)

Keep(K) == K = DownKind \/ (K = WaitKind /\ AtTheTop)

LEMMA KeepingStep ==
  ASSUME LevelsInv, Entries', Orderly, NEW K, Keep(K), Keeping(K),
         NEW k, NEW p, Step(k, p), Event(k)
  PROVE  Keeping(K)'
<1>1. /\ IInv /\ Entries /\ Plain /\ k \in InFlight /\ Idle(k) /\ Shape(k, p)
  BY StepFacts
<1>2. SUFFICES ASSUME NEW j \in InFlight', frames'[j].kind \in K  PROVE Keeps(j)'
  BY DEF Keeping
<1>3. K \subseteq WaitKind  BY DEF Keep, WaitKind
<1>4. CASE j \notin InFlight
  <2>1. frames'[j].way = 0
    BY <1>1, <1>2, <1>3, <1>4 DEF Shape, NewOK, WaitKind, DownKind
  <2> QED  BY <2>1 DEF Keeps
<1>5. CASE j \in InFlight
  <2>1. Like(frames[j], frames'[j])  BY <1>1, <1>2, <1>5, StillLike
  <2>2. frames[j].kind \in K /\ Keeps(j)  BY <1>2, <1>5, <2>1 DEF Keeping, Like
  <2>3. PICK m : m = frames[j].at  OBVIOUS
  <2>4. PICK t : t = frames[j].tag  OBVIOUS
  <2>5. t \in Tag  BY <1>1, <1>5, <2>4, FrameFacts DEF Frame
  <2>6. ASSUME NEW d \in Entry, d[1] = m, Matches(d, t)', ~Matches(d, t), frames[j].ev # "reply",
               k # j
        PROVE  FALSE
    <3>1. /\ frames[k].ev = "lock" /\ t = frames[k].tag /\ m = frames[k].at
          /\ \A y \in Entry : y[1] = m => ~Matches(y, t)
      BY <2>5, <2>6, NewMatch
    <3>2. frames[j].kind \notin DownKind
      BY <1>5, <2>3, <2>4, <2>6, <3>1, DownFinds
    <3>3. AtTheTop /\ frames[j].kind \in {"load", "store"}
      BY <2>2, <3>2 DEF Keep, WaitKind
    <3>4. frames[j].from = m /\ m \in FirstLevel
      BY <1>5, <2>3, <3>3 DEF Orderly, Rooted, AccessKind
    <3>5. CASE frames[k].kind \in AccessKind
      BY <1>1, <1>5, <2>4, <2>6, <3>1, <3>3, <3>4, <3>5 DEF Orderly, Rooted, Serial, AccessKind
    <3>6. CASE frames[k].kind \in DownKind
      BY <1>1, <3>1, <3>6, DownFinds
    <3>7. CASE frames[k].kind \in {"readUD", "writeUD", "evict"}
      <4>1. frames[k].at = Low[frames[k].from] /\ frames[k].from \in Mod
        BY <1>1, <3>7, FramesKnown DEF FrameOK, CalledFor, Frame
      <4> QED  BY <3>1, <3>3, <3>4, <4>1 DEF AtTheTop
    <3>8. CASE frames[k].kind = "invalidate"
      BY <1>1, <3>1, <3>8, FramesKnown DEF FrameOK
    <3> QED  BY <1>1, <3>5, <3>6, <3>7, <3>8, FramesKnown DEF DownKind
  <2>7. frames[j].kind \in WaitKind  BY <1>3, <2>2
  <2> QED  BY <1>2, <1>5, <2>2, <2>3, <2>4, <2>6, <2>7, KeepsStep
<1> QED  BY <1>4, <1>5

LEMMA KeepingNext ==
  ASSUME LevelsInv, LevelsInv', "nc" \notin Ops, Orderly, NEW K, Keep(K), Keeping(K), [Next]_vars
  PROVE  Keeping(K)'
<1>1. CASE UNCHANGED vars
  BY <1>1 DEF vars, Keeping, Keeps, OnlyAt, Matches, Locked, InFlight
<1>2. ASSUME NEW k, Starts(k)  PROVE Keeping(K)'
  <2>1. /\ InFlight' = InFlight \cup {k} /\ frames'[k].way = 0
        /\ \A j \in InFlight : Same(j)
        /\ blk' = blk /\ lock' = lock
    BY <1>2 DEF Starts, Others, NoEntry
  <2>2. ASSUME NEW j \in InFlight', frames'[j].kind \in K  PROVE Keeps(j)'
    <3>1. CASE j = k  BY <2>1, <3>1 DEF Keeps
    <3>2. CASE j \in InFlight
      <4>1. /\ frames'[j].ev = "reply" <=> frames[j].ev = "reply"
            /\ frames'[j].way = frames[j].way /\ frames'[j].at = frames[j].at
            /\ frames'[j].tag = frames[j].tag /\ Keeps(j)
        BY <2>1, <2>2, <3>2 DEF Same, Like, Placed, Keeping
      <4> QED  BY <2>1, <4>1 DEF Keeps, OnlyAt, Matches, Locked
    <3> QED  BY <2>1, <2>2, <3>1, <3>2
  <2> QED  BY <2>2 DEF Keeping
<1>3. ASSUME NEW k \in InFlight, NEW p, Step(k, p), Event(k)  PROVE Keeping(K)'
  BY <1>3, KeepingStep DEF LevelsInv
<1> QED  BY <1>1, <1>2, <1>3, NextCases

-----------------------------------------------------------------------------
(***************************************************************************)
(* No wakeup is lost.                                                      *)
(***************************************************************************)

\* A frame that was woken is on its way to entry e.
Waker(w, e) == frames[w].ev = "lock" /\ Locked(w) = e /\ Blocking(frames[w])

Woken(e) == queue[e] # <<>> => lock[e] # None \/ \E w \in InFlight : Waker(w, e)

\* What happens to the queue of an entry that is free after the event
LEMMA QueueAt ==
  ASSUME IInv, NEW k \in InFlight, Event(k), NEW e \in Entry, lock'[e] = None
  PROVE  \/ queue'[e] = queue[e] /\ lock[e] = None
         \/ queue[e] # <<>> /\ queue'[e] = Tail(queue[e])
         \/ queue'[e] = <<>>
<1>1. queue \in [Entry -> Seq(InFlight)] /\ lock \in [Entry -> Tag \cup {None}]
  BY DEF IInv, TypeOK
<1>2. CASE queue' = queue /\ lock' = lock
  BY <1>2
<1>3. CASE \E d : Unlock(d)
  <2>1. PICK d : /\ queue' = [queue EXCEPT ![d] = IF queue[d] = <<>> THEN queue[d] ELSE Tail(queue[d])]
                 /\ lock' = [lock EXCEPT ![d] = None]
    BY <1>3 DEF Unlock
  <2>2. CASE d # e  BY <1>1, <2>1, <2>2
  <2>3. CASE d = e  BY <1>1, <2>1, <2>3
  <2> QED  BY <2>2, <2>3
<1>4. CASE LockBusy(k)
  <2>1. PICK d : /\ lock[d] # None /\ lock' = lock
                 /\ queue' = queue \/ queue' = [queue EXCEPT ![d] = Append(@, k)]
    BY <1>4 DEF LockBusy
  <2>2. d # e  BY <2>1
  <2> QED  BY <1>1, <2>1, <2>2
<1>5. CASE LockFree(k) \/ LockEvict(k)
  <2>1. PICK d : queue' = queue /\ lock' = [lock EXCEPT ![d] = frames[k].tag]
    BY <1>5 DEF LockFree, LockEvict
  <2>2. frames[k].tag \in Tag  BY FrameFacts DEF Frame
  <2>3. d # e  BY <1>1, <2>1, <2>2, TreeAssumption
  <2> QED  BY <1>1, <2>1, <2>3
<1> QED  BY <1>2, <1>3, <1>4, <1>5, QueueEffect

\* The first frame in the queue of an entry that is unlocked is woken.
LEMMA FirstIsWoken ==
  ASSUME Orderly, IInv', NEW k, NEW p, Step(k, p), NEW e \in Entry, queue[e] # <<>>,
         queue'[e] = Tail(queue[e])
  PROVE  \E w \in InFlight' : Waker(w, e)'
<1>1. IInv /\ Idle(k) /\ Shape(k, p) /\ k \in InFlight  BY StepFacts
<1>2. PICK w : w = Head(queue[e])  OBVIOUS
<1>3. w \in InFlight /\ frames[w].ev = "lockWait" /\ Locked(w) = e
  BY <1>1, <1>2, FirstWaiter
<1>4. w # k /\ w # p
  BY <1>1, <1>3, CallerEvents DEF Idle
<1>5. Same(w)  BY <1>1, <1>3, <1>4 DEF Shape, Others
<1>6. w \in InFlight' /\ Locked(w)' = e /\ Blocking(frames'[w])
  BY <1>3, <1>5 DEF Same, Like, Placed, Locked, Orderly, WaitsRight, Blocking, WaitKind, DownKind
<1>7. ASSUME frames'[w].ev = "lockWait"  PROVE FALSE
  <2>1. QueueOK(e)'
    <3>1. Entry' = Entry  OBVIOUS
    <3> QED  BY <3>1 DEF IInv
  <2>2. PICK i \in 1 .. Len(queue'[e]) : queue'[e][i] = w
    BY <1>6, <1>7, <2>1 DEF QueueOK
  <2>3. queue[e] \in Seq(InFlight)  BY <1>1 DEF IInv, TypeOK
  <2>4. i + 1 \in 1 .. Len(queue[e]) /\ queue[e][i + 1] = w /\ 1 \in 1 .. Len(queue[e])
        /\ queue[e][1] = w /\ i + 1 # 1
    BY <1>2, <2>2, <2>3
  <2> QED  BY <1>1, <2>4 DEF IInv, QueueOK
<1>8. frames'[w].ev = "lock"  BY <1>3, <1>5, <1>7 DEF Same
<1> QED  BY <1>6, <1>8 DEF Waker

\* Frame w that was woken for an entry that is free gets there.
LEMMA WakerGoes ==
  ASSUME Orderly, NEW k, NEW p, Step(k, p), Event(k), NEW e \in Entry, lock[e] = None,
         NEW w \in InFlight, Waker(w, e), Keeps(w)
  PROVE  lock'[e] # None \/ (w \in InFlight' /\ Waker(w, e)')
<1>1. IInv /\ Idle(k) /\ Shape(k, p) /\ k \in InFlight /\ Entries  BY StepFacts
<1>2. CASE w # k
  <2>1. w # p  BY <1>1, <1>2, CallerEvents DEF Waker
  <2>2. Same(w)  BY <1>1, <1>2, <2>1 DEF Shape, Others
  <2> QED  BY <2>2 DEF Same, Like, Placed, Waker, Locked, Blocking
<1>3. CASE w = k
  <2>1. frames[k].way # 0 /\ e[1] = frames[k].at /\ e[2] = frames[k].way
    BY <1>3 DEF Waker, Locked, Entry
  <2>2. Candidates(frames[k]) \subseteq {e}
    <3>1. ASSUME NEW d \in Entry, d[1] = frames[k].at, Matches(d, frames[k].tag)  PROVE d = e
      BY <1>3, <2>1, <3>1 DEF Waker, Keeps, OnlyAt
    <3>2. ASSUME NEW d \in Entry, d[1] = frames[k].at, d[2] = frames[k].way  PROVE d = e
      BY <2>1, <3>2, EntryPair
    <3> QED  BY <2>1, <3>1, <3>2 DEF Candidates
  <2>3. lock \in [Entry -> Tag \cup {None}] /\ frames[k].tag \in Tag
    BY <1>1, FrameFacts DEF IInv, TypeOK, Frame
  <2>4. CASE LockBusy(k)
    <3>1. PICK d \in Candidates(frames[k]) : lock[d] # None
      BY <2>4 DEF LockBusy
    <3> QED  BY <2>2, <3>1
  <2>5. CASE LockFree(k) \/ LockEvict(k)
    <3>1. PICK d \in Candidates(frames[k]) : lock' = [lock EXCEPT ![d] = frames[k].tag]
      BY <2>5 DEF LockFree, LockEvict
    <3> QED  BY <2>2, <2>3, <3>1, TreeAssumption
  <2> QED  BY <1>1, <1>3, <2>4, <2>5, LockEvents DEF Waker
<1> QED  BY <1>2, <1>3

LEMMA WokenStep ==
  ASSUME Orderly, Keeping(WaitKind), IInv', NEW k, NEW p, Step(k, p), Event(k),
         NEW e \in Entry, Woken(e)
  PROVE  Woken(e)'
<1>1. IInv /\ Plain /\ k \in InFlight  BY StepFacts
<1>2. SUFFICES ASSUME queue'[e] # <<>>, lock'[e] = None
               PROVE  \E w \in InFlight' : Waker(w, e)'
  BY DEF Woken
<1>3. CASE queue'[e] = queue[e] /\ lock[e] = None
  <2>1. PICK w \in InFlight : Waker(w, e)  BY <1>2, <1>3 DEF Woken
  <2>2. Keeps(w)
    BY <1>1, <2>1 DEF Keeping, WaitKind, DownKind, Waker, Blocking, Plain, PlainFrame
  <2> QED  BY <1>2, <1>3, <2>1, <2>2, WakerGoes
<1>4. CASE queue[e] # <<>> /\ queue'[e] = Tail(queue[e])
  BY <1>4, FirstIsWoken
<1> QED  BY <1>1, <1>2, <1>3, <1>4, QueueAt

LEMMA WokenNext ==
  ASSUME LevelsInv, LevelsInv', "nc" \notin Ops, Orderly, Keeping(WaitKind),
         \A e \in Entry : Woken(e), [Next]_vars, NEW e \in Entry
  PROVE  Woken(e)'
<1>1. CASE UNCHANGED vars
  BY <1>1 DEF vars, Woken, Waker, Locked, InFlight
<1>2. ASSUME NEW k, Starts(k), queue' = queue  PROVE Woken(e)'
  <2>1. InFlight \subseteq InFlight' /\ lock' = lock /\ \A j \in InFlight : Same(j)
    BY <1>2 DEF Starts, Others, NoEntry
  <2>2. ASSUME NEW w \in InFlight, Waker(w, e)  PROVE Waker(w, e)'
    BY <2>1, <2>2 DEF Same, Like, Placed, Waker, Locked, Blocking
  <2> QED  BY <1>2, <2>1, <2>2 DEF Woken
<1>3. ASSUME NEW k \in InFlight, NEW p, Step(k, p), Event(k)  PROVE Woken(e)'
  BY <1>3, WokenStep DEF LevelsInv
<1> QED  BY <1>1, <1>2, <1>3, NextCases

\* Nobody waits at the beginning.
LEMMA OrderlyInit == Init => Orderly /\ Keeping(WaitKind) /\ Keeping(DownKind)
                             /\ \A e \in Entry : Woken(e)
BY DEF Init, Orderly, Serial, Keeping, Woken, InFlight

LEMMA OrderlyInvariant == ASSUME "nc" \notin Ops  PROVE Spec => []Orderly
<1>1. LevelsInv /\ LevelsInv' /\ Orderly /\ [Next]_vars => Orderly'
  BY OrderlyNext
<1>2. Spec => []LevelsInv  BY LevelsInvariant
<1>3. Init => Orderly  BY OrderlyInit
<1> QED  BY <1>1, <1>2, <1>3, PTL DEF Spec

Attentive == Orderly /\ Keeping(WaitKind) /\ \A e \in Entry : Woken(e)

\* Without non-coherent stores, when no module is above those that the processors access:
\* a frame that waits for an entry is in its queue, and while there is a queue the entry is
\* locked or a frame that was woken is on its way to it.  A frame that is woken keeps the
\* way it waited for, and its block is in no other entry, so that it does not go past the
\* entry whose queue it must pass on to the next.
THEOREM NothingIsMissed ==
  ASSUME "nc" \notin Ops, AtTheTop
  PROVE  Spec => []NoLostWakeup
<1>1. LevelsInv /\ LevelsInv' /\ Attentive /\ [Next]_vars => Attentive'
  <2>1. Keep(WaitKind)  BY DEF Keep
  <2>2. Entry' = Entry  OBVIOUS
  <2> QED  BY <2>1, <2>2, OrderlyNext, KeepingNext, WokenNext DEF Attentive
<1>2. Init => Attentive  BY OrderlyInit DEF Attentive
<1>3. Spec => []LevelsInv  BY LevelsInvariant
<1>4. LevelsInv /\ Attentive => NoLostWakeup
  <2>1. SUFFICES ASSUME LevelsInv, Attentive  PROVE NoLostWakeup
    OBVIOUS
  <2>2. IInv  BY <2>1 DEF LevelsInv
  <2>3. ASSUME NEW k \in Waiting
        PROVE  \E i \in DOMAIN queue[Locked(k)] : queue[Locked(k)][i] = k
    <3>1. PICK e : e = Locked(k)  OBVIOUS
    <3>2. k \in InFlight /\ frames[k].ev = "lockWait"  BY <2>3 DEF Waiting
    <3>3. e \in Entry /\ QueueOK(e) /\ queue[e] \in Seq(InFlight)
      BY <2>2, <3>1, <3>2 DEF IInv, FrameOK, TypeOK
    <3>4. DOMAIN queue[e] = 1 .. Len(queue[e])  BY <3>3
    <3> QED  BY <3>1, <3>2, <3>3, <3>4 DEF QueueOK
  <2>4. ASSUME NEW e \in Entry, queue[e] # <<>>
        PROVE  \/ lock[e] # None
               \/ \E k \in InFlight :
                    frames[k].ev = "lock" /\ Locked(k) = e /\ Blocking(frames[k])
    BY <2>1, <2>4 DEF Attentive, Woken, Waker
  <2> QED  BY <2>3, <2>4 DEF NoLostWakeup
<1> QED  BY <1>1, <1>2, <1>3, <1>4, PTL DEF Spec

-----------------------------------------------------------------------------
(***************************************************************************)
(* What nobody asks for.                                                   *)
(***************************************************************************)

\* The block that is evicted for a frame is not the one that the frame needs.
Victim(k) ==
  frames[k].ev = "evicting" => blk[Source(EvictKey(k))].tag # frames[k].tag

\* A write request up-down does not take the block away from its requester.
Spared(d) ==
  LET i == frames[d].ret
      q == frames[i].ret
  IN
  frames[d].kind = "writeDU" /\ frames[q].kind = "writeUD" => frames[d].at # frames[q].from

Considerate == \A k \in InFlight : Victim(k) /\ Spared(k)

\* Who begins to evict has chosen a victim.
LEMMA BeginsEvicting ==
  ASSUME NEW k, NEW p, Step(k, p), k \in InFlight', frames'[k].ev = "evicting"
  PROVE  \E e \in Entry : Replaces(k, e)
<1>1. k \in InFlight /\ Idle(k) /\ Does(k) /\ frames[k].ev # "evicting"
  BY StepFacts, NotEvicting
<1>2. ASSUME Looks(k)  PROVE FALSE  BY <1>2 DEF Looks
<1>3. ASSUME Ended(k)  PROVE FALSE  BY <1>3 DEF Ended
<1>4. ASSUME NEW v, Goes(k, v), v # "evicting"  PROVE FALSE  BY <1>4 DEF Goes
<1>5. ASSUME NEW v, NEW N, Called(k, v, N), v # "evicting"  PROVE FALSE  BY <1>5 DEF Called
<1>6. ~ (GivesUp(k) \/ Settles(k) \/ InvalidationEnds(k) \/ Received(k))
  BY <1>2, <1>3 DEF GivesUp, Settles, InvalidationEnds, Received
<1>7. ~ (SendsDown(k) \/ Accepts(k) \/ Refuses(k) \/ Passes(k) \/ Fills(k) \/ GivesExclusive(k))
  BY <1>4 DEF SendsDown, Accepts, Refuses, Passes, ToldError, Told, Fills, GivesExclusive
<1>8. ~ \E q : \/ EvictionFails(k, q) \/ EvictionEnds(k, q) \/ GivesBlock(k, q)
               \/ GivesData(k, q) \/ Yields(k, q)
  BY <1>1, <1>4 DEF EvictionFails, EvictionEnds, Returns, GivesBlock, GivesData, Yields, Told
<1>9. ~ (AsksOwner(k) \/ Takes(k))  BY <1>4, <1>5 DEF AsksOwner, Takes
<1>10. ~AsksExclusive(k)  BY <1>4, <1>5 DEF AsksExclusive, CallsUp
<1>11. ~ \E e \in Entry : Gets(k, e)  BY DEF Gets
<1>12. /\ ~CallsUp(k, "miss", ReadUp(k)) /\ ~CallsUp(k, "unlock", WriteUp(k))
       /\ ~Goes(k, "unlock")
  BY <1>4, <1>5 DEF CallsUp
<1> QED  BY <1>1, <1>2, <1>6, <1>7, <1>8, <1>9, <1>10, <1>11, <1>12 DEF Does

\* The victim of a frame
LEMMA VictimStep ==
  ASSUME NEW k, NEW p, Step(k, p), IInv', NEW j \in InFlight', j \in InFlight => Victim(j)
  PROVE  Victim(j)'
<1>1. IInv /\ Plain /\ k \in InFlight /\ Idle(k) /\ Shape(k, p)  BY StepFacts
<1>2. SUFFICES ASSUME frames'[j].ev = "evicting"
               PROVE  blk'[Source(EvictKey(j))'].tag # frames'[j].tag
  BY DEF Victim
<1>3. CASE j \notin InFlight  BY <1>1, <1>2, <1>3 DEF Shape, NewOK
<1>4. CASE j = k
  <2>1. PICK e \in Entry : Replaces(k, e)  BY <1>2, <1>4, BeginsEvicting
  <2>2. PICK N : Called(k, "evicting", N) /\ Evicts(N, k, e)  BY <2>1 DEF Replaces
  <2>3. frames'[k].at = frames[k].at /\ frames'[k].tag = frames[k].tag
    BY <2>2 DEF Called, Like
  <2>4. EvictKey(k)' = EvictKey(k)  BY <2>3 DEF EvictKey
  <2>5. frames'[EvictKey(k)].from = e[1] /\ frames'[EvictKey(k)].src = e[2]
    BY <2>2 DEF Called, Evicts, IsEviction
  <2>6. Source(EvictKey(k))' = e  BY <2>4, <2>5, EntryPair DEF Source
  <2>7. blk' = blk /\ blk[e].tag # frames[k].tag  BY <2>1 DEF Replaces
  <2> QED  BY <1>4, <2>3, <2>6, <2>7
<1>5. CASE j \in InFlight /\ j # k
  <2>1. Like(frames[j], frames'[j])  BY <1>1, <1>5, StillLike
  <2>2. frames[j].ev = "evicting"
    BY <1>1, <1>2, <1>5, CallerEvents DEF Shape, Others, Same
  <2>3. PICK c : c = EvictKey(j)  OBVIOUS
  <2>4. EvictKey(j)' = c  BY <2>1, <2>3 DEF EvictKey, Like
  <2>5. c \in InFlight'
    <3>1. FrameOK(j)'  BY DEF IInv
    <3> QED  BY <1>2, <2>4, <3>1 DEF FrameOK
  <2>6. /\ c \in InFlight /\ frames[c].kind = "evict" /\ frames[c].ret = j
        /\ Source(c) \in Entry
    BY <1>1, <1>5, <2>2, <2>3, Evictor
  <2>7. Source(c)' = Source(c)  BY <1>1, <2>5, <2>6, StillLike DEF Like, Source
  <2>8. PICK e : e = Source(c)  OBVIOUS
  <2>9. CountsOn(j, e)  BY <2>2, <2>3, <2>8 DEF CountsOn, Holds
  <2>10. j # frames[k].ret \/ frames[k].kind # "evict" \/ k \in InFlight'
    <3>1. SUFFICES ASSUME j = frames[k].ret, frames[k].kind = "evict"  PROVE k = c
      BY <2>5
    <3> QED  BY <1>1, <1>5, <2>2, <2>3, <3>1, OnlyEvictor DEF AccessKind
  <2>11. blk'[e] = blk[e]  BY <1>5, <2>6, <2>8, <2>9, <2>10, EntryHeld
  <2>12. blk[e].tag # frames[j].tag  BY <1>5, <2>2, <2>3, <2>8 DEF Victim
  <2> QED  BY <2>1, <2>4, <2>7, <2>8, <2>11, <2>12 DEF Like
<1> QED  BY <1>3, <1>4, <1>5

\* The invalidation of an entry, called by q, and its requests
LEMMA NewVictims ==
  ASSUME NEW e \in Entry, NEW except, NEW I, NEW q, Invalidates(I, q, e, except),
         \A n \in DOMAIN I : frames'[n] = I[n],
         NEW n \in DOMAIN I, frames'[n].kind = "writeDU"
  PROVE  \E i : frames'[n].ret = i /\ frames'[i].ret = q /\ frames'[n].at # except
<1>1. PICK i : i = Call(q, "invalidate", e[1])  OBVIOUS
<1>2. n # i \/ ~IsInvalidation(I[n], q, e)  BY DEF IsInvalidation
<1>3. PICK m \in Victims(e, except) : n = Call(i, "writeDU", m) /\ IsTaking(I[n], i, e, m)
  BY <1>1, <1>2 DEF Invalidates
<1>4. i \in DOMAIN I /\ \A x : i # Call(i, "writeDU", x)
  BY <1>1, <1>3 DEF Invalidates, Call
<1>5. IsInvalidation(I[i], q, e)  BY <1>1, <1>4 DEF Invalidates
<1>6. frames'[n].ret = i /\ frames'[i].ret = q /\ frames'[n].at = m
  BY <1>3, <1>4, <1>5 DEF IsTaking, IsInvalidation
<1>7. m # except  BY <1>3 DEF Victims
<1> QED  BY <1>6, <1>7

\* The requests that are new
LEMMA NewSpared ==
  ASSUME NEW k, NEW p, Step(k, p), NEW n \in InFlight' \ InFlight
  PROVE  Spared(n)'
<1>1. SUFFICES ASSUME frames'[n].kind = "writeDU"  PROVE Spared(n)'
  BY DEF Spared
<1>2. ~ (InFlight' \subseteq InFlight)  OBVIOUS
<1>3. ~ \E v : \/ Called(k, v, ReadUp(k)) \/ Called(k, v, WriteUp(k))
               \/ \E owner, peer : Called(k, v, ReadDown(k, owner, peer))
  <2>1. ~ \E v : Called(k, v, ReadUp(k)) \/ Called(k, v, WriteUp(k))
    BY <1>1 DEF Called, ReadUp, WriteUp, NewFrame
  <2>2. ASSUME NEW v, NEW owner, NEW peer, Called(k, v, ReadDown(k, owner, peer))  PROVE FALSE
    <3>1. n \in DOMAIN ReadDown(k, owner, peer) /\ frames'[n] = ReadDown(k, owner, peer)[n]
      BY <2>2 DEF Called
    <3>2. ReadDown(k, owner, peer)[n].kind = "readDU"  BY <3>1 DEF ReadDown, NewFrame
    <3> QED  BY <1>1, <3>1, <3>2
  <2> QED  BY <2>1, <2>2
<1>4. ASSUME NEW e \in Entry, Replaces(k, e)  PROVE Spared(n)'
  <2>1. PICK N : Called(k, "evicting", N) /\ Evicts(N, k, e)
    BY <1>4 DEF Replaces
  <2>2. PICK q : q = EvictKey(k)  OBVIOUS
  <2>3. PICK I : /\ Invalidates(I, q, e, None)
                 /\ DOMAIN N = DOMAIN I \cup {q}
                 /\ \A x \in DOMAIN I : N[x] = I[x]
    BY <2>1, <2>2 DEF Evicts
  <2>4. frames'[q].kind = "evict" /\ \A x \in DOMAIN I : frames'[x] = I[x]
    BY <2>1, <2>2, <2>3 DEF Called, Evicts, IsEviction
  <2>5. n \in DOMAIN I  BY <1>1, <2>1, <2>3, <2>4 DEF Called
  <2>6. PICK i : frames'[n].ret = i /\ frames'[i].ret = q
    BY <1>1, <2>3, <2>4, <2>5, NewVictims
  <2> QED  BY <2>4, <2>6 DEF Spared
<1>5. ASSUME Takes(k)  PROVE Spared(n)'
  <2>1. PICK e \in Entry : e = Locked(k)  BY <1>5, StepFacts DEF Takes, FrameOK
  <2>2. PICK N : Called(k, "exclusive", N) /\ Invalidates(N, k, e, frames[k].from)
    BY <1>5, <2>1 DEF Takes
  <2>3. n \in DOMAIN N /\ (\A x \in DOMAIN N : frames'[x] = N[x])
        /\ frames'[k].from = frames[k].from
    BY <2>2 DEF Called, Like
  <2>4. PICK i : frames'[n].ret = i /\ frames'[i].ret = k /\ frames'[n].at # frames[k].from
    BY <1>1, <2>2, <2>3, NewVictims
  <2> QED  BY <2>3, <2>4 DEF Spared
<1>6. ~AsksOwner(k)  BY <1>2, <1>3 DEF AsksOwner, Alone
<1>7. ~ (Looks(k) \/ GivesUp(k) \/ Settles(k) \/ InvalidationEnds(k) \/ SendsDown(k)
         \/ Accepts(k) \/ Refuses(k) \/ Received(k) \/ Passes(k) \/ Fills(k)
         \/ GivesExclusive(k) \/ \E e \in Entry : Gets(k, e))
  BY <1>2 DEF Looks, GivesUp, Settles, InvalidationEnds, SendsDown, Accepts, Refuses,
       Received, Passes, Fills, GivesExclusive, Gets, Alone, Ended, ToldError, Told
<1>8. ~ \E x : EvictionFails(k, x) \/ EvictionEnds(k, x) \/ GivesBlock(k, x)
               \/ GivesData(k, x) \/ Yields(k, x)
  BY <1>2 DEF EvictionFails, EvictionEnds, GivesBlock, GivesData, Yields, Returns,
       Alone, Told
<1>9. ~ \E v : Alone(k, k) /\ Goes(k, v)  BY <1>2 DEF Alone
<1>10. ~AsksExclusive(k)  BY <1>3, <1>9 DEF AsksExclusive, CallsUp
<1> QED
  BY <1>3, <1>4, <1>5, <1>6, <1>7, <1>8, <1>9, <1>10, StepFacts DEF Does, CallsUp

\* Who asks for a block, and who has called it, stay the same.
LEMMA SparedStep ==
  ASSUME NEW k, NEW p, Step(k, p), IInv', NEW j \in InFlight', j \in InFlight => Spared(j)
  PROVE  Spared(j)'
<1>1. CASE j \notin InFlight  BY <1>1, NewSpared
<1>2. CASE j \in InFlight
  <2>1. SUFFICES ASSUME frames'[j].kind = "writeDU"  PROVE Spared(j)'
    BY DEF Spared
  <2>2. IInv /\ Plain /\ Shape(k, p)  BY StepFacts
  <2>3. Like(frames[j], frames'[j])  BY <1>2, <2>2, StillLike
  <2>4. PICK i : i = frames[j].ret  OBVIOUS
  <2>5. /\ i \in InFlight /\ i \in InFlight' /\ frames'[j].ret = i
        /\ frames[i].kind = "invalidate"
    <3>1. frames[j].kind \notin AccessKind /\ frames'[j].kind \notin AccessKind
      BY <2>1, <2>3 DEF Like, AccessKind
    <3>2. i \in InFlight /\ CallOK(j)  BY <1>2, <2>2, <2>4, <3>1 DEF IInv, TypeOK
    <3>3. frames'[j].ret \in InFlight'  BY <3>1 DEF IInv, TypeOK
    <3> QED  BY <2>1, <2>3, <2>4, <3>1, <3>2, <3>3 DEF Like, CallOK
  <2>6. Like(frames[i], frames'[i])  BY <2>2, <2>5, StillLike
  <2>7. PICK q : q = frames[i].ret  OBVIOUS
  <2>8. q \in InFlight /\ q \in InFlight' /\ frames'[i].ret = q
    <3>1. frames'[i].kind \notin AccessKind /\ frames[i].kind \notin AccessKind
      BY <2>5, <2>6 DEF Like, AccessKind
    <3>2. frames'[i].ret \in InFlight'  BY <2>5, <3>1 DEF IInv, TypeOK
    <3> QED  BY <2>2, <2>5, <2>6, <2>7, <3>1, <3>2 DEF IInv, TypeOK, Like
  <2>9. Like(frames[q], frames'[q])  BY <2>2, <2>8, StillLike
  <2> QED  BY <1>2, <2>3, <2>4, <2>5, <2>7, <2>8, <2>9 DEF Spared, Like
<1> QED  BY <1>1, <1>2

LEMMA ConsiderateNext ==
  ASSUME LevelsInv, LevelsInv', "nc" \notin Ops, Considerate, [Next]_vars
  PROVE  Considerate'
<1>1. CASE UNCHANGED vars
  BY <1>1 DEF vars, Considerate, Victim, Spared, EvictKey, Source, InFlight
<1>2. ASSUME NEW k, Starts(k)  PROVE Considerate'
  <2>1. /\ InFlight' = InFlight \cup {k} /\ k \notin InFlight
        /\ \A j \in InFlight : Same(j)
        /\ frames'[k].kind \in AccessKind /\ frames'[k].ev = "lock"
        /\ blk' = blk
    BY <1>2 DEF Starts, Others, NoEntry
  <2>2. IInv /\ IInv'  BY DEF LevelsInv
  <2>3. ASSUME NEW j \in InFlight, frames'[j].ev = "evicting"  PROVE Victim(j)'
    <3>1. PICK c : c = EvictKey(j)  OBVIOUS
    <3>2. frames[j].ev = "evicting" /\ Like(frames[j], frames'[j])
      BY <2>1, <2>3 DEF Same
    <3>3. c \in InFlight  BY <2>2, <3>1, <3>2, Evictor
    <3>4. EvictKey(j)' = c  BY <3>1, <3>2 DEF EvictKey, Like
    <3>5. Source(c)' = Source(c)  BY <2>1, <3>3 DEF Same, Like, Source
    <3> QED  BY <2>1, <3>1, <3>2, <3>4, <3>5 DEF Considerate, Victim, Like
  <2>4. ASSUME NEW j \in InFlight, frames'[j].kind = "writeDU"  PROVE Spared(j)'
    <3>1. frames[j].kind = "writeDU" /\ Like(frames[j], frames'[j])
      BY <2>1, <2>4 DEF Same, Like
    <3>2. PICK i : i = frames[j].ret  OBVIOUS
    <3>3. i \in InFlight /\ frames[i].kind = "invalidate"
      <4>1. CallOK(j) /\ i \in InFlight
        BY <2>2, <3>1, <3>2 DEF IInv, TypeOK, AccessKind
      <4> QED  BY <3>1, <3>2, <4>1 DEF CallOK, AccessKind
    <3>4. PICK q : q = frames[i].ret  OBVIOUS
    <3>5. q \in InFlight  BY <2>2, <3>3, <3>4 DEF IInv, TypeOK, AccessKind
    <3>6. Like(frames[i], frames'[i]) /\ Like(frames[q], frames'[q])
      BY <2>1, <3>3, <3>5 DEF Same
    <3>7. frames[q].kind = "writeUD" => frames[j].at # frames[q].from
      BY <3>1, <3>2, <3>4 DEF Considerate, Spared
    <3>8. frames'[j].ret = i /\ frames'[i].ret = q
      BY <3>1, <3>2, <3>4, <3>6 DEF Like
    <3>9. frames'[q].kind = "writeUD" => frames'[j].at # frames'[q].from
      BY <3>1, <3>6, <3>7 DEF Like
    <3> QED  BY <3>8, <3>9 DEF Spared
  <2>5. Victim(k)' /\ Spared(k)'
    BY <2>1 DEF Victim, Spared, AccessKind
  <2> QED  BY <2>1, <2>3, <2>4, <2>5 DEF Considerate, Victim, Spared
<1>3. ASSUME NEW k \in InFlight, NEW p, Step(k, p), Event(k)  PROVE Considerate'
  <2>1. IInv'  BY DEF LevelsInv
  <2> QED  BY <1>3, <2>1, VictimStep, SparedStep DEF Considerate
<1> QED  BY <1>1, <1>2, <1>3, NextCases

-----------------------------------------------------------------------------
(***************************************************************************)
(* Frames that wait for each other.                                        *)
(***************************************************************************)

\* Who called frame c, and why it waits for it
Asks(k, c) ==
  LET f == frames[c] IN
  \/ /\ f.kind \in {"readUD", "writeUD"} /\ Locks(k)
     /\ frames[k].kind \in {"load", "prefetch", "store", "readUD", "writeUD"}
     /\ f.tag = frames[k].tag /\ f.from = frames[k].at /\ f.at = Low[f.from]
     /\ f.kind = "readUD" => frames[k].ev = "miss"
  \/ f.kind = "readDU" /\ frames[k].kind \in {"readUD", "readDU"} /\ Locks(k)
  \/ /\ f.kind = "writeDU" /\ frames[k].kind = "invalidate" /\ frames[k].ev = "finish"
     /\ Low[f.at] = frames[k].at
  \/ /\ f.kind = "evict" /\ frames[k].ev = "evicting" /\ c = EvictKey(k)
     /\ f.from = frames[k].at /\ f.at = Low[f.from]
  \/ f.kind = "invalidate" /\ frames[k].kind = "evict" /\ frames[k].ev = "invalid"
     /\ Source(k) = Locked(c)
  \/ f.kind = "invalidate" /\ frames[k].kind \in {"writeUD", "writeDU"} /\ Locks(k)
     /\ frames[k].ev = "exclusive" /\ Locked(k) = Locked(c)

LEMMA WhyCalled ==
  ASSUME LevelsInv, NEW k \in InFlight, NEW c \in Children(k)
  PROVE  c \in InFlight /\ Asks(k, c) /\ frames[k].ev \notin {"reply", "lockWait"}
<1>1. /\ c \in InFlight /\ frames[c].kind \notin AccessKind /\ frames[c].ret = k
  BY DEF Children
<1>2. /\ CallOK(c) /\ CalledFor(c) /\ FrameOK(c) /\ FrameOK(k)
      /\ PlainFrame(k)
      /\ frames[c].kind \in {"readUD", "readDU", "writeUD", "writeDU", "evict", "invalidate"}
  BY <1>1, FramesKnown
<1>3. CASE frames[c].kind = "readUD"
  BY <1>1, <1>2, <1>3 DEF CallOK, CalledFor, FrameOK, PlainFrame, Asks, Locks, AccessKind
<1>4. CASE frames[c].kind = "writeUD"
  BY <1>1, <1>2, <1>4 DEF CallOK, CalledFor, FrameOK, PlainFrame, Asks, Locks, AccessKind
<1>5. CASE frames[c].kind = "readDU"
  BY <1>1, <1>2, <1>5 DEF CallOK, CalledFor, Asks, Locks
<1>6. CASE frames[c].kind = "writeDU"
  BY <1>1, <1>2, <1>6 DEF CallOK, CalledFor, FrameOK, Asks
<1>7. CASE frames[c].kind = "evict"
  <2>1. frames[k].ev = "evicting"
    BY <1>1, <1>2, <1>7 DEF CallOK, PlainFrame
  <2>2. c = EvictKey(k)
    <3>1. IInv  BY DEF LevelsInv
    <3> QED  BY <1>1, <2>1, <3>1, OnlyEvictor
  <2> QED  BY <1>1, <1>2, <1>7, <2>1, <2>2 DEF CallOK, CalledFor, Asks
<1>8. CASE frames[c].kind = "invalidate"
  BY <1>1, <1>2, <1>8 DEF CallOK, Asks, Locks
<1> QED  BY <1>1, <1>2, <1>3, <1>4, <1>5, <1>6, <1>7, <1>8

\* Frames none of which can go on before another of them has
Circle(W) ==
  /\ W # {} /\ W \subseteq InFlight
  /\ \A k \in W : \E j \in W :
       IF frames[k].ev = "lockWait" THEN Holds(j, Locked(k)) ELSE j \in Children(k)

\* What is known when frames wait for each other
Settled == LevelsInv /\ Orderly /\ Keeping(DownKind) /\ Considerate

\* A frame of a circle that does not wait for an entry waits for one that it has called.
LEMMA NextCalled ==
  ASSUME Settled, NEW W, Circle(W), NEW k \in W, frames[k].ev # "lockWait"
  PROVE  /\ k \in InFlight
         /\ \E c \in W : c \in InFlight /\ c \in Children(k) /\ Asks(k, c) /\ frames[c].ev # "reply"
<1>1. LevelsInv  BY DEF Settled
<1>2. k \in InFlight /\ W \subseteq InFlight  BY DEF Circle
<1>3. PICK c \in W : c \in Children(k)  BY DEF Circle
<1>4. c \in InFlight  BY <1>2
<1>5. PICK j \in W : frames[c].ev = "lockWait" \/ j \in Children(c)  BY DEF Circle
<1>6. frames[c].ev # "reply"  BY <1>1, <1>4, <1>5, WhyCalled
<1> QED  BY <1>1, <1>2, <1>3, <1>4, <1>6, WhyCalled

\* The block that an invalidation takes away is in a module above.
LEMMA TakenAbove ==
  ASSUME Settled, NEW W, Circle(W), NEW i \in W, frames[i].kind = "invalidate"
  PROVE  \E n \in W : frames[n].kind \in DownKind /\ Low[frames[n].at] = frames[i].at
<1>1. frames[i].ev = "finish"
  BY FramesKnown DEF Settled, Circle, FrameOK
<1>2. PICK c \in W : Asks(i, c)  BY <1>1, NextCalled
<1>3. frames[c].kind = "writeDU" /\ Low[frames[c].at] = frames[i].at
  BY <1>1, <1>2 DEF Asks, Locks
<1> QED  BY <1>3 DEF DownKind

\* The owner of a block is above the module that asks for it.
LEMMA OwnerAbove ==
  ASSUME Settled, NEW W, Circle(W), NEW k \in W, NEW c \in W, c \in Children(k),
         frames[c].kind = "readDU", frames[c].ev # "reply"
  PROVE  Low[frames[c].at] = frames[k].at
<1>1. LevelsInv /\ c \in InFlight /\ frames[c].ret = k
  BY DEF Settled, Children
<1> QED  BY <1>1, DataAsked

\* Frame k has locked the entry of its block at its level.
LEMMA EntryOf ==
  ASSUME LevelsInv, NEW k \in InFlight, Locks(k) \/ frames[k].ev = "evicting"
  PROVE  \E e \in Entry : /\ Holds(k, e) /\ e[1] = frames[k].at /\ lock[e] = frames[k].tag
                          /\ Matches(e, frames[k].tag)
<1>1. IInv /\ FrameOK(k) /\ Tagged(k)  BY FramesKnown DEF LevelsInv
<1>2. CASE Locks(k)
  BY <1>1, <1>2 DEF FrameOK, Holds, Tagged, Locked, Matches
<1>3. CASE frames[k].ev = "evicting"
  <2>1. PICK c : c = EvictKey(k)  OBVIOUS
  <2>2. PICK e : e = Source(c)  OBVIOUS
  <2>3. c \in InFlight /\ frames[c].kind = "evict" /\ frames[c].ret = k /\ e \in Entry
    BY <1>1, <1>3, <2>1, <2>2, Evictor
  <2>4. frames[c].from = frames[k].at
    BY <1>1, <2>3 DEF IInv, CallOK, AccessKind
  <2>5. e[1] = frames[k].at  BY <2>2, <2>4 DEF Source
  <2>6. Holds(k, e)  BY <1>3, <2>1, <2>2 DEF Holds
  <2> QED  BY <1>1, <2>3, <2>5, <2>6 DEF Tagged, Matches
<1> QED  BY <1>2, <1>3

\* A request down-up for block t of module m, which is not answered yet, and a frame that
\* has asked the lower level about the same block for m, are not both in an entry there.
LEMMA NotBoth ==
  ASSUME Settled, NEW j \in InFlight, frames[j].kind \in DownKind, frames[j].ev # "reply",
         NEW c \in InFlight, frames[c].at = Low[frames[c].from],
         frames[c].from = frames[j].at, frames[c].tag = frames[j].tag,
         \/ frames[c].kind = "writeUD" /\ (Locks(c) \/ frames[c].ev = "evicting")
         \/ frames[c].kind = "evict" /\ frames[c].ev = "evicting"
  PROVE  FALSE
<1>1. LevelsInv /\ Considerate  BY DEF Settled
<1>2. IInv /\ Entries /\ Plain /\ HeldOnce  BY <1>1 DEF LevelsInv, Entries, IInv
<1>3. PICK m : m = frames[j].at  OBVIOUS
<1>4. PICK t \in Tag : t = frames[j].tag
  BY <1>2, FrameFacts DEF Frame
<1>5. PICK e \in Entry : Holds(c, e) /\ e[1] = Low[m] /\ lock[e] = t /\ Matches(e, t)
  BY <1>1, <1>3, <1>4, EntryOf
<1>6. CASE frames[j].kind = "readDU"
  <2>1. PICK q : q = frames[j].ret  OBVIOUS
  <2>2. PICK x : x = Locked(q)  OBVIOUS
  <2>3. /\ q \in InFlight /\ Holds(q, x) /\ x \in Entry /\ x[1] = Low[m] /\ lock[x] = t
        /\ frames[q].kind \in {"readUD", "readDU"}
    BY <1>1, <1>3, <1>4, <1>6, <2>1, <2>2, DataAsked
  <2>4. x = e  BY <1>2, <1>5, <2>3, SameEntry DEF Matches
  <2>5. q = c  BY <1>2, <1>5, <2>3, <2>4 DEF HeldOnce
  <2> QED  BY <2>3, <2>5
<1>7. CASE frames[j].kind = "writeDU"
  <2>1. Claims(j, m, t)  BY <1>3, <1>4, <1>7 DEF Claims
  <2>2. PICK i : i = frames[j].ret  OBVIOUS
  <2>3. PICK x : x = Locked(i)  OBVIOUS
  <2>4. /\ i \in InFlight /\ frames[i].kind = "invalidate" /\ x \in Entry /\ x[1] = Low[m]
        /\ Present(x, t) /\ CountsOn(i, x) /\ Matches(x, t)
    BY <1>2, <2>1, <2>2, <2>3, ClaimEntry
  <2>5. x = e  BY <1>2, <1>5, <2>4, SameEntry
  <2>6. PICK h \in InFlight :
           /\ Holds(h, x)
           /\ \/ h = i
              \/ frames[i].ret = h /\ frames[h].ev = "exclusive"
              \/ /\ frames[i].ret \in InFlight
                 /\ frames[frames[i].ret].kind = "evict"
                 /\ frames[frames[i].ret].ret = h /\ frames[h].ev = "evicting"
                 /\ Source(frames[i].ret) = x
    BY <1>2, <2>4, Counting
  <2>7. h = c  BY <1>2, <1>5, <2>5, <2>6 DEF HeldOnce
  <2>8. h # i  BY <2>4, <2>7
  <2>9. CASE frames[i].ret = c /\ frames[c].ev = "exclusive"
    BY <1>1, <1>7, <2>2, <2>9 DEF Considerate, Spared
  <2>10. CASE /\ frames[i].ret \in InFlight /\ frames[frames[i].ret].kind = "evict"
              /\ frames[frames[i].ret].ret = c /\ frames[c].ev = "evicting"
              /\ Source(frames[i].ret) = x
    <3>1. frames[i].ret = EvictKey(c)
      BY <1>2, <2>10, OnlyEvictor DEF AccessKind
    <3>2. blk[x].tag # t  BY <1>1, <1>4, <2>10, <3>1 DEF Considerate, Victim
    <3> QED  BY <2>4, <3>2 DEF Present
  <2> QED  BY <2>6, <2>7, <2>8, <2>9, <2>10
<1> QED  BY <1>6, <1>7 DEF DownKind

\* What holds the entry that a request down-up waits for
LEMMA EntryAwaited ==
  ASSUME Settled, NEW j \in InFlight, frames[j].kind \in DownKind, frames[j].ev = "lockWait",
         NEW h \in InFlight, NEW x, x = Locked(j), Holds(h, x), ~Answered(h),
         NEW m, m = frames[j].at, NEW t, t = frames[j].tag
  PROVE  /\ x \in Entry /\ x[1] = m /\ m \in Mod
         /\ blk[x].tag = t /\ blk[x].state # "I"
<1>1. LevelsInv /\ Keeping(DownKind)  BY DEF Settled
<1>2. IInv /\ Entries /\ HeldOnce  BY <1>1 DEF LevelsInv, IInv
<1>3. x \in Entry /\ x[1] = m /\ frames[j].way # 0
  <2>1. FrameOK(j)  BY <1>1, FramesKnown
  <2>2. x \in Entry  BY <2>1 DEF FrameOK
  <2>3. x[2] \in 1 .. Assoc[x[1]]  BY <2>2, EntryPair DEF Entry
  <2> QED  BY <2>2, <2>3 DEF Locked
<1>4. m \in Mod /\ \E y \in Entry : y[1] = m /\ Copy(y, t, Valid) /\ Matches(y, t)
  BY <1>1, DownFinds
<1>5. PICK y \in Entry : y[1] = m /\ Copy(y, t, Valid) /\ Matches(y, t)  BY <1>4
<1>6. y = x  BY <1>1, <1>3, <1>5 DEF Keeping, Keeps, OnlyAt
<1>7. ~ \E g \in InFlight : Grants(g, x, t, Valid)
  <2>1. SUFFICES ASSUME NEW g \in InFlight, Grants(g, x, t, Valid)  PROVE FALSE
    OBVIOUS
  <2>2. Holds(g, x)  BY <1>2, <2>1, GrantsHolds
  <2>3. g = h  BY <1>2, <1>3, <2>2 DEF HeldOnce
  <2> QED  BY <2>1, <2>3 DEF Grants, Granted
<1>8. blk[x].tag = t /\ blk[x].state \in Valid  BY <1>5, <1>6, <1>7 DEF Copy
<1> QED  BY <1>3, <1>4, <1>8, Rights

\* A request down-up waits for what modules above the one it was sent to have to do.
LEMMA WaitsAbove ==
  ASSUME Settled, NEW W, Circle(W), NEW j \in W, frames[j].kind \in DownKind
  PROVE  /\ frames[j].at \in Mod
         /\ \E n \in W : frames[n].kind \in DownKind /\ Low[frames[n].at] = frames[j].at
<1>1. LevelsInv /\ Orderly /\ Considerate  BY DEF Settled
<1>2. W \subseteq InFlight /\ j \in InFlight  BY DEF Circle
<1>3. IInv /\ Plain  BY <1>1 DEF LevelsInv, Entries
<1>4. frames[j].ev # "reply"
  <2>1. CASE frames[j].ev = "lockWait"  BY <2>1
  <2>2. CASE frames[j].ev # "lockWait"
    <3>1. PICK c \in W : c \in Children(j)  BY <2>2, NextCalled
    <3> QED  BY <1>1, <1>2, <3>1, WhyCalled
  <2> QED  BY <2>1, <2>2
<1>5. PICK m : m = frames[j].at  OBVIOUS
<1>6. PICK t : t = frames[j].tag  OBVIOUS
<1>7. m \in Mod /\ t \in Tag  BY <1>1, <1>2, <1>4, <1>5, <1>6, DownFinds
<1>8. frames[j].ev # "evicting"
  BY <1>1, <1>2, FramesKnown DEF DownUp, DownKind
<1>9. ASSUME NEW c \in W, NEW k \in W, c \in Children(k), frames[k].at = m,
             frames[c].kind \in {"readDU", "invalidate"}, frames[c].ev # "reply",
             frames[c].kind = "invalidate" => frames[c].at = m
      PROVE  \E n \in W : frames[n].kind \in DownKind /\ Low[frames[n].at] = m
  <2>1. CASE frames[c].kind = "readDU"  BY <1>9, <2>1, OwnerAbove DEF DownKind
  <2>2. CASE frames[c].kind = "invalidate"  BY <1>9, <2>2, TakenAbove
  <2> QED  BY <1>9, <2>1, <2>2
<1>10. CASE frames[j].ev # "lockWait"
  <2>1. PICK c \in W : c \in Children(j) /\ Asks(j, c) /\ frames[c].ev # "reply"
    BY <1>10, NextCalled
  <2>2. \/ frames[c].kind = "readDU"
        \/ frames[c].kind = "invalidate" /\ Locked(j) = Locked(c)
    BY <1>8, <2>1 DEF Asks, DownKind
  <2>3. frames[c].kind = "invalidate" => frames[c].at = m
    BY <1>5, <2>2 DEF Locked
  <2> QED  BY <1>5, <1>7, <1>9, <2>1, <2>2, <2>3
<1>11. CASE frames[j].ev = "lockWait"
  <2>1. PICK x : x = Locked(j)  OBVIOUS
  <2>2. PICK h \in W : Holds(h, x)  BY <1>11, <2>1 DEF Circle
  <2>3. h \in InFlight /\ frames[h].ev # "lockWait"
    BY <1>2, <2>2 DEF Holds, Locks
  <2>4. PICK c \in W : c \in Children(h) /\ Asks(h, c) /\ frames[c].ev # "reply" /\ c \in InFlight
    BY <2>3, NextCalled
  <2>5. ~Answered(h)  BY <2>4 DEF Answered
  <2>6. /\ x \in Entry /\ x[1] = m /\ blk[x].tag = t /\ blk[x].state # "I"
    BY <1>2, <1>5, <1>6, <1>11, <2>1, <2>2, <2>3, <2>5, EntryAwaited
  <2>7. CASE Locks(h) /\ x = Locked(h)
    <3>1. frames[h].at = m /\ frames[h].tag = t /\ frames[h].ev # "miss"
      <4>1. Current(h) /\ frames[h] \in Frame(frames[h].ret)  BY <1>1, <2>3, FramesKnown
      <4>2. frames[h].at = m  BY <2>6, <2>7 DEF Locked
      <4>3. frames[h].tag = t
        BY <2>6, <2>7, <4>1 DEF Current
      <4>4. frames[h].ev # "miss"
        BY <2>6, <2>7, <4>1 DEF Current
      <4> QED  BY <4>2, <4>3, <4>4
    <3>2. frames[c].kind # "readUD" /\ frames[c].kind # "writeDU" /\ frames[c].kind # "evict"
      BY <2>4, <2>7, <3>1 DEF Asks, Locks
    <3>3. frames[c].kind # "writeUD"
      <4>1. SUFFICES ASSUME frames[c].kind = "writeUD"  PROVE FALSE  OBVIOUS
      <4>2. frames[c].tag = t /\ frames[c].from = m /\ frames[c].at = Low[frames[c].from]
        BY <2>4, <3>1, <4>1 DEF Asks
      <4>3. frames[c].ev # "lockWait"
        BY <1>1, <2>4, <4>1 DEF Orderly, WaitsRight, WaitKind, DownKind
      <4>4. PICK g \in W : Asks(c, g)  BY <4>3, NextCalled
      <4>5. Locks(c) \/ frames[c].ev = "evicting"
        BY <4>1, <4>4 DEF Asks
      <4> QED  BY <1>2, <1>4, <1>5, <1>6, <2>4, <4>1, <4>2, <4>5, NotBoth
    <3>4. frames[c].kind \in {"readDU", "invalidate"}
      BY <2>4, <3>2, <3>3 DEF Asks
    <3>5. frames[c].kind = "invalidate" => frames[c].at = m
      BY <2>4, <2>7, <3>1 DEF Asks, Locks, Locked
    <3> QED  BY <1>5, <1>7, <1>9, <2>4, <3>1, <3>4, <3>5
  <2>8. CASE frames[h].ev = "evicting" /\ x = Source(EvictKey(h))
    <3>1. /\ frames[c].kind = "evict" /\ c = EvictKey(h) /\ frames[c].at = Low[frames[c].from]
      <4>1. frames[c].kind = "evict"
        BY <1>3, <2>3, <2>4, <2>8, OnlyEvictor DEF Children
      <4> QED  BY <2>4, <4>1 DEF Asks
    <3>2. x = Source(c) /\ frames[c].from = m  BY <2>6, <2>8, <3>1 DEF Source
    <3>3. frames[c].tag = t
      <4>1. Current(c)  BY <1>1, <2>4, FramesKnown
      <4> QED  BY <2>6, <3>1, <3>2, <4>1 DEF Current
    <3>4. frames[c].ev # "lockWait"
      BY <1>1, <2>4, <3>1 DEF Orderly, WaitsRight, WaitKind, DownKind
    <3>5. PICK g \in W : g \in Children(c) /\ Asks(c, g)  BY <3>4, NextCalled
    <3>6. frames[c].ev # "evicting"
      BY <1>2, <1>4, <1>5, <1>6, <2>4, <3>1, <3>2, <3>3, NotBoth
    <3>7. frames[g].kind = "invalidate" /\ Source(c) = Locked(g)
      BY <3>1, <3>5, <3>6 DEF Asks
    <3>8. frames[g].at = m  BY <2>6, <3>2, <3>7 DEF Locked
    <3> QED  BY <1>5, <1>7, <3>7, <3>8, TakenAbove
  <2> QED  BY <2>2, <2>7, <2>8 DEF Holds
<1> QED  BY <1>10, <1>11

\* The requests that go down, and the level of their requester
UpKind == {"readUD", "writeUD", "evict"}

\* Without requests down-up, who does not wait for an entry waits for a request that it
\* has sent to the next level.
LEMMA AsksBelow ==
  ASSUME Settled, NEW W, Circle(W), \A d \in W : frames[d].kind \notin DownKind,
         NEW k \in W, frames[k].ev # "lockWait"
  PROVE  \E c \in W : /\ frames[c].kind \in UpKind /\ frames[c].ev # "lockWait"
                      /\ frames[c].from = frames[k].at /\ frames[c].from \in Mod
                      /\ frames[c].at = Low[frames[c].from]
<1>1. LevelsInv /\ Orderly  BY DEF Settled
<1>2. PICK c \in W : c \in InFlight /\ c \in Children(k) /\ Asks(k, c)
  BY NextCalled
<1>3. frames[c].kind # "invalidate"  BY TakenAbove
<1>4. /\ frames[c].kind \in UpKind /\ frames[c].from = frames[k].at
      /\ frames[c].at = Low[frames[c].from]
  BY <1>2, <1>3 DEF Asks, UpKind, DownKind
<1>5. frames[c].from \in Mod
  BY <1>1, <1>2, FramesKnown DEF Frame
<1>6. frames[c].ev # "lockWait"
  BY <1>1, <1>2, <1>4 DEF Orderly, WaitsRight, WaitKind, DownKind, UpKind
<1> QED  BY <1>4, <1>5, <1>6

\* Requests up-down alone make no circle: each of them waits for one of a lower level.
LEMMA DownInvolved ==
  ASSUME Settled, NEW W, Circle(W)
  PROVE  \E d \in W : frames[d].kind \in DownKind
<1> SUFFICES ASSUME \A d \in W : frames[d].kind \notin DownKind  PROVE FALSE
  OBVIOUS
<1>1. W # {} /\ W \subseteq InFlight  BY DEF Circle
<1>2. PICK level \in [Mod -> 0 .. Cardinality(Mod)] :
        \A m \in Mod : level[m] = IF Low[m] = None THEN 0 ELSE level[Low[m]] + 1
  BY LevelAssumption
<1>3. Cardinality(Mod) \in Nat  BY LevelAssumption, FS_CardinalityType
<1> DEFINE Up(k) == /\ frames[k].kind \in UpKind /\ frames[k].ev # "lockWait"
                    /\ frames[k].from \in Mod /\ frames[k].at = Low[frames[k].from]
           T == {level[frames[k].from] : k \in {k \in W : Up(k)}}
<1>4. \E k \in W : frames[k].ev # "lockWait"
  <2>1. PICK k \in W : TRUE  BY <1>1
  <2>2. CASE frames[k].ev = "lockWait"
    <3>1. PICK h \in W : Holds(h, Locked(k))  BY <2>2 DEF Circle
    <3> QED  BY <3>1 DEF Holds, Locks
  <2> QED  BY <2>1, <2>2
<1>5. PICK k0 \in W : Up(k0)
  <2>1. PICK k \in W : frames[k].ev # "lockWait"  BY <1>4
  <2> QED  BY <2>1, AsksBelow
<1>6. T \subseteq Nat
  <2> SUFFICES ASSUME NEW k \in W, Up(k)  PROVE level[frames[k].from] \in Nat
    OBVIOUS
  <2> QED  BY <1>2, <1>3
<1>7. level[frames[k0].from] \in T  BY <1>5
<1>8. \E x \in T : \A y \in T : x <= y
  <2> HIDE DEF T
  <2> QED  BY <1>6, <1>7, Least
<1>9. PICK k \in W : Up(k) /\ \A y \in T : level[frames[k].from] <= y  BY <1>8
<1>10. PICK c \in W : Up(c) /\ frames[c].from = frames[k].at
  BY <1>9, AsksBelow
<1>11. level[frames[k].from] <= level[frames[c].from]  BY <1>9, <1>10
<1>12. PICK m \in Mod : m = frames[k].from  BY <1>9
<1>13. PICK n \in Mod : n = frames[c].from  BY <1>10
<1>14. Low[m] = n /\ n # None
  BY <1>9, <1>10, <1>12, <1>13, TreeAssumption
<1>15. level[m] = level[n] + 1  BY <1>2, <1>14
<1>16. level[m] \in Nat /\ level[n] \in Nat  BY <1>2, <1>3
<1> QED  BY <1>11, <1>12, <1>13, <1>15, <1>16

\* Frames never wait for each other: what a request down-up waits for is in a module
\* above, and there is a highest.
LEMMA NoCircle ==
  ASSUME Settled, NEW W  PROVE ~Circle(W)
<1> SUFFICES ASSUME Circle(W)  PROVE FALSE
  OBVIOUS
<1>1. PICK level \in [Mod -> 0 .. Cardinality(Mod)] :
        \A m \in Mod : level[m] = IF Low[m] = None THEN 0 ELSE level[Low[m]] + 1
  BY LevelAssumption
<1>2. PICK N : N = Cardinality(Mod)  OBVIOUS
<1>3. N \in Nat  BY <1>2, LevelAssumption, FS_CardinalityType
<1> DEFINE D == {d \in W : frames[d].kind \in DownKind}
           T == {N - level[frames[d].at] : d \in D}
<1>4. \A d \in D : frames[d].at \in Mod  BY WaitsAbove
<1>5. T \subseteq Nat
  <2> SUFFICES ASSUME NEW d \in D  PROVE N - level[frames[d].at] \in Nat
    OBVIOUS
  <2>1. level[frames[d].at] \in 0 .. N  BY <1>1, <1>2, <1>4
  <2> QED  BY <2>1, <1>3
<1>6. PICK d0 \in D : TRUE  BY DownInvolved
<1>7. N - level[frames[d0].at] \in T  BY <1>6
<1>8. \E x \in T : \A y \in T : x <= y
  <2> HIDE DEF T
  <2> QED  BY <1>5, <1>7, Least
<1>9. PICK d \in D : \A y \in T : N - level[frames[d].at] <= y  BY <1>8
<1>10. PICK n \in D : Low[frames[n].at] = frames[d].at  BY <1>9, WaitsAbove
<1>11. N - level[frames[d].at] <= N - level[frames[n].at]  BY <1>9, <1>10
<1>12. PICK a \in Mod : a = frames[d].at  BY <1>4, <1>9
<1>13. PICK b \in Mod : b = frames[n].at  BY <1>4, <1>10
<1>14. Low[b] = a /\ a # None  BY <1>10, <1>12, <1>13, TreeAssumption
<1>15. level[b] = level[a] + 1  BY <1>1, <1>14
<1>16. level[a] \in 0 .. N /\ level[b] \in 0 .. N  BY <1>1, <1>2
<1> QED  BY <1>3, <1>11, <1>12, <1>13, <1>15, <1>16

LEMMA SettledIsFree ==
  ASSUME Settled  PROVE NoCircularWait
<1>1. IInv  BY DEF Settled, LevelsInv
<1>2. SUFFICES ASSUME NEW W \in SUBSET {k \in InFlight : WaitsFor(k) # {}},
                      W # {}, \A k \in W : WaitsFor(k) \cap W # {}
               PROVE  FALSE
  BY DEF NoCircularWait
<1>3. W \subseteq InFlight  OBVIOUS
<1>4. ASSUME NEW k \in W
      PROVE  \E j \in W :
               IF frames[k].ev = "lockWait" THEN Holds(j, Locked(k)) ELSE j \in Children(k)
  <2>1. PICK j \in W : j \in WaitsFor(k)  BY <1>2, <1>4
  <2>2. k \in InFlight /\ j \in InFlight  BY <1>3, <1>4, <2>1
  <2>3. CASE frames[k].ev = "lockWait"
    <3>1. k \in Waiting  BY <2>2, <2>3 DEF Waiting
    <3>2. Locked(k) \in Held(j)  BY <2>1, <3>1 DEF WaitsFor, Holders
    <3>3. Holds(j, Locked(k))  BY <1>1, <2>2, <3>2, HeldIsHolds
    <3> QED  BY <2>1, <2>3, <3>3
  <2>4. CASE frames[k].ev # "lockWait"
    <3>1. k \notin Waiting  BY <2>4 DEF Waiting
    <3> QED  BY <2>1, <2>4, <3>1 DEF WaitsFor
  <2> QED  BY <2>3, <2>4
<1>5. Circle(W)  BY <1>2, <1>3, <1>4 DEF Circle
<1> QED  BY <1>5, NoCircle

\* Without non-coherent stores, for every tree of modules, blocks and ways: no frames wait
\* for each other in a circle, through the entries that they wait for, the frames that
\* hold these and those that the holders have called.
THEOREM NobodyWaitsInCircles ==
  ASSUME "nc" \notin Ops
  PROVE  Spec => []NoCircularWait
<1> DEFINE Patient == Orderly /\ Keeping(DownKind) /\ Considerate
<1>1. LevelsInv /\ LevelsInv' /\ Patient /\ [Next]_vars => Patient'
  <2>1. Keep(DownKind)  BY DEF Keep
  <2> QED  BY <2>1, OrderlyNext, KeepingNext, ConsiderateNext
<1>2. Init => Patient  BY OrderlyInit DEF Init, Considerate, InFlight
<1>3. Spec => []LevelsInv  BY LevelsInvariant
<1>4. LevelsInv /\ Patient => NoCircularWait  BY SettledIsFree DEF Settled
<1> QED  BY <1>1, <1>2, <1>3, <1>4, PTL DEF Spec
=============================================================================

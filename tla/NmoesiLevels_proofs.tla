------------------------- MODULE NmoesiLevels_proofs -------------------------
(***************************************************************************)
(* Nmoesi without non-coherent stores, across the levels of the tree: a    *)
(* block of a module is in the lower level, whose directory entry knows    *)
(* about it, one module at most may write it, and requests to modules      *)
(* above find the block where they were sent.  A module also has a block   *)
(* that the lower level has granted and that is on its way, and no longer  *)
(* one that the lower level has taken back.                                *)
(***************************************************************************)
EXTENDS Nmoesi_proofs

Exclusive == {"M", "E"}
Owned == {"M", "O", "E"}

\* The frames that frame k has called have done what they were called for.
Answered(k) == \A c \in Children(k) : frames[c].ev = "reply"

\* The lower level has granted frame k the block, which is not yet in its entry.
Granted(k) ==
  /\ ~frames[k].err /\ Answered(k)
  /\ \/ frames[k].ev \in {"miss", "unlock"}
     \/ frames[k].kind \in {"store", "writeUD"} /\ frames[k].ev = "finish"

GrantedState(k) ==
  IF frames[k].kind \in {"store", "writeUD"} \/ ~frames[k].shared THEN "E" ELSE "S"

Grants(k, x, t, S) ==
  Granted(k) /\ Locked(k) = x /\ frames[k].tag = t /\ GrantedState(k) \in S

\* The lower level has accepted the eviction of entry x by frame k.
Gone(k, x) ==
  /\ frames[k].kind = "evict" /\ Source(k) = x
  /\ frames[k].ev = "reply" /\ ~frames[k].err

\* Entry x has block t in one of the states S, or will have it.
Copy(x, t, S) ==
  \/ blk[x].tag = t /\ blk[x].state \in S /\ ~ \E j \in InFlight : Gone(j, x)
  \/ \E j \in InFlight : Grants(j, x, t, S)

-----------------------------------------------------------------------------
\* Frame k has done what it was called for.
Answers(k) ==
  /\ frames[k].kind \notin AccessKind /\ frames[k].ev # "reply"
  /\ k \notin InFlight' \/ frames'[k].ev = "reply"

\* The event of a caller is one with which it waits.
LEMMA CallerEvents ==
  ASSUME IInv, NEW k \in InFlight, Idle(k), NEW p, Shape(k, p), p # k
  PROVE  /\ frames[p].ev \notin {"reply", "lockWait", "lock", "action"}
         /\ frames'[p].ev \notin {"reply", "lockWait", "lock"}
<1>1. p = frames[k].ret /\ frames[k].kind \notin AccessKind
      /\ frames'[p].ev \in {frames[p].ev, "action"}
  BY DEF Shape
<1>2. frames[p].ev \in {"evicting", "invalid", "exclusive", "miss", "finish",
                        "unlock", "ncAction", "ncMiss"}
  BY <1>1, CallerWaits
<1> QED  BY <1>1, <1>2

\* A frame gets an answer only from a frame that it has called.
LEMMA SameAnswered ==
  ASSUME IInv, NEW k, NEW p, Steps(k, p), NEW j \in InFlight, j # k,
         k \in InFlight => j # frames[k].ret \/ ~Answers(k)
  PROVE  Answered(j)' <=> Answered(j)
<1>1. ASSUME NEW c \in InFlight', frames'[c].kind \notin AccessKind, frames'[c].ret = j
      PROVE  c \in InFlight
  BY <1>1 DEF Steps, Shape, NewOK
<1>2. ASSUME NEW c \in InFlight, c \in InFlight', c # k
      PROVE  /\ frames'[c].kind = frames[c].kind /\ frames'[c].ret = frames[c].ret
             /\ frames'[c].ev = "reply" <=> frames[c].ev = "reply"
  <2>1. CASE c # p  BY <1>2, <2>1 DEF Steps, Shape, Others, Same, Like
  <2>2. CASE c = p
    <3>1. k \in InFlight /\ Idle(k) /\ Shape(k, p) /\ p # k
      BY <1>2, <2>2 DEF Steps, Shape
    <3> QED  BY <2>2, <3>1, CallerEvents DEF Shape, Like
  <2> QED  BY <2>1, <2>2
<1>3. ASSUME NEW c \in InFlight, c \notin InFlight'  PROVE c = k
  BY <1>3 DEF Steps, Shape, Others, Same
<1>4. ASSUME k \in InFlight, frames[k].kind \notin AccessKind, frames[k].ret = j
      PROVE  /\ k \notin InFlight' => frames[k].ev = "reply"
             /\ k \in InFlight' =>
                  /\ frames'[k].kind = frames[k].kind /\ frames'[k].ret = frames[k].ret
                  /\ frames'[k].ev = "reply" <=> frames[k].ev = "reply"
  <2>1. ~Answers(k)  BY <1>4
  <2> QED  BY <1>4, <2>1 DEF Answers, Steps, Shape, Like
<1>5. ASSUME k \in InFlight, k \in InFlight', frames'[k].kind \notin AccessKind, frames'[k].ret = j
      PROVE  frames[k].kind \notin AccessKind /\ frames[k].ret = j
  BY <1>5 DEF Steps, Shape, Like
<1>6. ASSUME Answered(j), NEW c \in Children(j)'  PROVE frames'[c].ev = "reply"
  <2>1. c \in InFlight' /\ frames'[c].kind \notin AccessKind /\ frames'[c].ret = j
    BY <1>6 DEF Children
  <2>2. c \in InFlight  BY <1>1, <2>1
  <2>3. frames[c].kind \notin AccessKind /\ frames[c].ret = j
    BY <1>2, <1>5, <2>1, <2>2
  <2>4. frames[c].ev = "reply"  BY <1>6, <2>2, <2>3 DEF Answered, Children
  <2> QED  BY <1>2, <1>4, <2>1, <2>2, <2>3, <2>4
<1>7. ASSUME Answered(j)', NEW c \in Children(j)  PROVE frames[c].ev = "reply"
  <2>1. c \in InFlight /\ frames[c].kind \notin AccessKind /\ frames[c].ret = j
    BY <1>7 DEF Children
  <2>2. CASE c \in InFlight'
    <3>1. frames'[c].kind \notin AccessKind /\ frames'[c].ret = j
      BY <1>2, <1>4, <2>1, <2>2
    <3>2. frames'[c].ev = "reply"  BY <1>7, <2>2, <3>1 DEF Answered, Children
    <3> QED  BY <1>2, <1>4, <2>1, <2>2, <3>2
  <2>3. CASE c \notin InFlight'  BY <1>3, <1>4, <2>1, <2>3
  <2> QED  BY <2>2, <2>3
<1> QED  BY <1>6, <1>7 DEF Answered

\* A frame that stays the same has been granted the same.
LEMMA SameGrants ==
  ASSUME NEW j \in InFlight, Same(j), Answered(j)' <=> Answered(j), NEW x, NEW t, NEW S
  PROVE  Grants(j, x, t, S)' <=> Grants(j, x, t, S)
BY DEF Same, Like, Placed, Results, Grants, Granted, GrantedState, Locked

\* The steps in which a frame has done what it was called for
LEMMA WhoAnswers ==
  ASSUME NEW k \in InFlight, Does(k), Answers(k)
  PROVE  \/ InvalidationEnds(k) \/ Accepts(k) \/ Refuses(k) \/ Passes(k)
         \/ GivesExclusive(k)
         \/ \E x : \/ EvictionFails(k, x) \/ EvictionEnds(k, x)
                   \/ GivesBlock(k, x) \/ GivesData(k, x) \/ Yields(k, x)
<1>1. ASSUME \/ Looks(k) \/ SendsDown(k) \/ AsksOwner(k) \/ Fills(k) \/ Takes(k)
             \/ AsksExclusive(k)
             \/ \E e \in Entry : Gets(k, e) \/ Replaces(k, e)
             \/ \E v : Alone(k, k) /\ Goes(k, v) /\ v # "reply"
             \/ \E v, N : CallsUp(k, v, N) /\ v # "reply"
      PROVE  FALSE
  <2>1. k \in InFlight' /\ frames'[k].ev # "reply"
    BY <1>1 DEF Looks, SendsDown, AsksOwner, Fills, Takes, AsksExclusive, Gets, Replaces,
       CallsUp, Called, Alone, Goes
  <2> QED  BY <2>1 DEF Answers
<1>2. ~(GivesUp(k) \/ Settles(k) \/ Received(k))
  BY DEF Answers, GivesUp, Settles, Received
<1> QED  BY <1>1, <1>2 DEF Does

\* The kinds of the frames that are called
LEMMA KindsPlain ==
  ASSUME IInv, Plain, NEW k \in InFlight, frames[k].kind \notin AccessKind
  PROVE  frames[k].kind \in {"readUD", "readDU", "writeUD", "writeDU", "evict", "invalidate"}
<1>1. frames[k].kind \in Kind /\ frames[k].kind # "message"
  BY DEF IInv, TypeOK, Frame, Plain, PlainFrame
<1> QED  BY <1>1, TreeAssumption DEF Kind, AccessKind

\* A frame that is not told of the block keeps what it has.
LEMMA GrantsKept ==
  ASSUME IInv, Entries, NEW k \in InFlight, Idle(k), Does(k), NEW p, Shape(k, p),
         NEW j \in InFlight, j # k,
         ~GivesBlock(k, j), ~(GivesExclusive(k) /\ j = frames[k].ret),
         NEW x, NEW t, NEW S
  PROVE  Grants(j, x, t, S)' <=> Grants(j, x, t, S)
<1>1. CASE ~Same(j)
  <2>1. /\ j = p /\ j = frames[k].ret /\ Like(frames[j], frames'[j]) /\ frames[k].kind \notin AccessKind
        /\ frames'[j].ev \in {frames[j].ev, "action"}
        /\ frames'[k].ev = "reply" \/ k \notin InFlight'
    BY <1>1 DEF Shape, Others
  <2>2. CallOK(k) /\ CalledFor(k) /\ k \in Children(j)
    BY <2>1, FrameFacts DEF Entries, Children
  <2>3. ASSUME frames[k].kind \notin {"readUD", "writeUD"}  PROVE ~Granted(j) /\ ~Granted(j)'
    <3>1. frames[k].kind \in {"readDU", "writeDU", "evict", "invalidate"}
      BY <2>1, <2>3, KindsPlain DEF Entries
    <3>2. /\ frames[j].ev \notin {"miss", "unlock"}
          /\ frames[j].ev = "finish" => frames[j].kind \notin {"store", "writeUD"}
      <4>1. frames[k].kind = "evict" => frames[j].ev \in {"evicting", "ncAction"}
        BY <2>1, <2>2 DEF CallOK, AccessKind
      <4>2. frames[k].kind = "invalidate" => frames[j].ev \in {"invalid", "exclusive"}
        BY <2>1, <2>2 DEF CallOK, AccessKind
      <4>3. frames[k].kind = "readDU" => frames[j].ev = "finish" /\ frames[j].kind \notin {"store", "writeUD"}
        BY <2>1, <2>2 DEF CallOK, CalledFor, AccessKind
      <4>4. frames[k].kind = "writeDU" => frames[j].ev = "finish" /\ frames[j].kind \notin {"store", "writeUD"}
        BY <2>1, <2>2, FrameFacts DEF CallOK, AccessKind, FrameOK
      <4> QED  BY <3>1, <4>1, <4>2, <4>3, <4>4
    <3> QED  BY <2>1, <3>2 DEF Granted, Like
  <2>4. ASSUME frames[k].kind \in {"readUD", "writeUD"}, frames[k].ev # "reply"
        PROVE  ~Granted(j) /\ ~Granted(j)'
    <3>1. ~Granted(j)  BY <2>2, <2>4 DEF Granted, Answered
    <3>2. frames'[j].err
      <4>1. Answers(k)  BY <2>1, <2>4 DEF Answers
      <4>2. ~(InvalidationEnds(k) \/ Accepts(k) \/ Refuses(k)
              \/ \E q : \/ EvictionFails(k, q) \/ EvictionEnds(k, q)
                       \/ GivesData(k, q) \/ Yields(k, q))
        BY <2>4 DEF InvalidationEnds, Accepts, Refuses, EvictionFails, EvictionEnds, Returns,
           GivesData, Yields
      <4>3. ~ (\E q : GivesBlock(k, q)) /\ ~GivesExclusive(k)
        BY <2>1 DEF GivesBlock
      <4>4. Passes(k)  BY <4>1, <4>2, <4>3, WhoAnswers
      <4> QED  BY <2>1, <4>4 DEF Passes, ToldError
    <3> QED  BY <3>1, <3>2 DEF Granted
  <2>5. frames[k].ev # "reply" \/ frames[k].kind \notin {"readUD", "writeUD"}
    <3>1. SUFFICES ASSUME frames[k].ev = "reply", frames[k].kind \in {"readUD", "writeUD"}
                   PROVE  FALSE
      OBVIOUS
    <3>2. Received(k)
      <4>1. ~(Looks(k) /\ frames[k].ev = "lock" /\ NoEntry)
            /\ ~ \E e \in Entry : Gets(k, e) \/ Replaces(k, e)
        BY <3>1 DEF Gets, Replaces
      <4>2. ~(GivesUp(k) \/ Settles(k))
        BY <3>1 DEF GivesUp, Settles, AccessKind
      <4>3. ~(InvalidationEnds(k) \/ SendsDown(k) \/ Accepts(k) \/ Refuses(k)
              \/ \E q : EvictionFails(k, q) \/ EvictionEnds(k, q))
        BY <3>1 DEF InvalidationEnds, SendsDown, Accepts, Refuses, EvictionFails,
           EvictionEnds, Returns
      <4>4. ~Locks(k)  BY <3>1 DEF Locks
      <4>5. ~(Passes(k) \/ AsksOwner(k) \/ Fills(k) \/ Takes(k) \/ AsksExclusive(k)
              \/ GivesExclusive(k)
              \/ \E q : GivesBlock(k, q) \/ GivesData(k, q) \/ Yields(k, q))
        BY <3>1, <4>4 DEF Passes, AsksOwner, Fills, Takes, AsksExclusive, GivesExclusive,
           GivesBlock, GivesData, Yields
      <4> QED  BY <3>1, <4>1, <4>2, <4>3, <4>5 DEF Does
    <3>3. FALSE  BY <1>1, <3>2 DEF Received, Ended, Others
    <3> QED  BY <3>3
  <2> QED  BY <2>3, <2>4, <2>5 DEF Grants
<1>2. CASE Same(j)
  <2>1. Same(j)  BY <1>2
  <2>2. CASE j # frames[k].ret \/ ~Answers(k)
    <3>1. Steps(k, p)  BY DEF Steps
    <3> QED  BY <2>1, <2>2, <3>1, SameAnswered, SameGrants
  <2>3. CASE j = frames[k].ret /\ Answers(k)
    <3>1. CallOK(k) /\ CalledFor(k) /\ k \in Children(j) /\ frames[k].ev # "reply"
          /\ frames[k].kind \notin AccessKind
      BY <2>3, FrameFacts DEF Entries, Children, Answers
    <3>2. frames[k].kind = "invalidate" => frames[j].ev \in {"invalid", "exclusive"}
      BY <2>3, <3>1 DEF CallOK, AccessKind
    <3>3. frames[k].kind = "evict" => frames[j].ev \in {"evicting", "ncAction"}
      BY <2>3, <3>1 DEF CallOK, AccessKind
    <3>4. frames[k].kind = "readDU" => frames[j].ev = "finish" /\ frames[j].kind \notin {"store", "writeUD"}
      BY <2>3, <3>1 DEF CallOK, CalledFor, AccessKind
    <3>5. frames[k].kind = "writeDU" => frames[j].ev = "finish" /\ frames[j].kind \notin {"store", "writeUD"}
      BY <2>3, <3>1, FrameFacts DEF CallOK, AccessKind, FrameOK
    <3>6. frames[k].kind \in {"invalidate", "evict", "readDU", "writeDU"}
          => ~Granted(j) /\ ~Granted(j)'
      BY <2>1, <3>2, <3>3, <3>4, <3>5 DEF Granted, Same, Like
    <3>7. ASSUME Passes(k)  PROVE ~Granted(j) /\ ~Granted(j)'
      <4>1. frames'[j].err  BY <2>3, <3>7 DEF Passes, ToldError
      <4> QED  BY <3>1, <4>1 DEF Granted, Answered
    <3>8. \/ frames[k].kind \in {"invalidate", "evict", "readDU", "writeDU"}
          \/ Passes(k)
      <4>1. ~\E x_1 : GivesBlock(k, x_1)
        BY <2>3 DEF GivesBlock
      <4> QED
        BY <2>3, <4>1, WhoAnswers DEF InvalidationEnds, Accepts, Refuses, EvictionFails,
           EvictionEnds, Returns, GivesData, Yields
    <3> QED  BY <3>6, <3>7, <3>8 DEF Grants
  <2> QED  BY <2>2, <2>3
<1> QED  BY <1>1, <1>2

\* The evictions of other frames are where they were.
LEMMA GoneKept ==
  ASSUME IInv, NEW k \in InFlight, Idle(k), NEW p, Shape(k, p),
         NEW j \in InFlight, j # k, NEW x
  PROVE  Gone(j, x)' <=> Gone(j, x)
<1>1. CASE j = p  BY <1>1, CallerEvents DEF Shape, Gone
<1>2. CASE j # p  BY <1>2 DEF Shape, Others, Same, Like, Results, Gone, Source
<1> QED  BY <1>1, <1>2

\* A new frame has been granted nothing.
LEMMA NewNothing ==
  ASSUME NEW k, NEW n, NewOK(n, k), NEW x, NEW t, NEW S
  PROVE  ~Grants(n, x, t, S)' /\ ~Gone(n, x)'
BY DEF NewOK, Grants, Granted, Gone

-----------------------------------------------------------------------------
(***************************************************************************)
(* Copies, and what a step does to them.                                   *)
(***************************************************************************)
Elsewhere(k, x, t, S) == \E j \in InFlight \ {k} : Grants(j, x, t, S)
Outbound(k, x) == \E j \in InFlight \ {k} : Gone(j, x)
OwnGrants(k, x, t, S) == k \in InFlight /\ Grants(k, x, t, S)
OwnGone(k, x) == k \in InFlight /\ Gone(k, x)

\* Copies, with the part of frame k apart
LEMMA CopyParts ==
  ASSUME NEW k, NEW x, NEW t, NEW S
  PROVE  Copy(x, t, S) <=>
           \/ /\ blk[x].tag = t /\ blk[x].state \in S
              /\ ~OwnGone(k, x) /\ ~Outbound(k, x)
           \/ OwnGrants(k, x, t, S)
           \/ Elsewhere(k, x, t, S)
BY DEF Copy, Elsewhere, Outbound, OwnGrants, OwnGone

\* The same after the step
LEMMA CopyPartsNext ==
  ASSUME NEW k, NEW x, NEW t, NEW S
  PROVE  Copy(x, t, S)' <=>
           \/ /\ blk'[x].tag = t /\ blk'[x].state \in S
              /\ ~OwnGone(k, x)' /\ ~Outbound(k, x)'
           \/ OwnGrants(k, x, t, S)'
           \/ Elsewhere(k, x, t, S)'
BY DEF Copy, Elsewhere, Outbound, OwnGrants, OwnGone

\* A frame that has been granted a block has locked an entry for it.
LEMMA GrantedLocks ==
  ASSUME IInv, NEW j \in InFlight, Granted(j)
  PROVE  Locks(j) /\ Locked(j) \in Entry
<1>1. FrameOK(j)  BY FrameFacts
<1>2. Locks(j)  BY <1>1 DEF FrameOK, Granted, Locks
<1> QED  BY <1>1, <1>2 DEF FrameOK

\* No other eviction is accepted.
LEMMA OutboundKept ==
  ASSUME IInv, NEW k \in InFlight, Idle(k), NEW p, Shape(k, p), NEW x
  PROVE  Outbound(k, x)' <=> Outbound(k, x)
<1>1. ASSUME NEW j \in InFlight \ {k}  PROVE j \in InFlight' /\ (Gone(j, x)' <=> Gone(j, x))
  <2>1. j \in InFlight'  BY <1>1 DEF Shape, Others, Same
  <2> QED  BY <1>1, <2>1, GoneKept
<1>2. ASSUME NEW n \in InFlight' \ InFlight  PROVE ~Gone(n, x)'
  <2>1. NewOK(n, k)  BY <1>2 DEF Shape
  <2> QED  BY <2>1, NewNothing
<1> QED  BY <1>1, <1>2 DEF Outbound

\* Only a frame that is told of the block has a new one.
LEMMA ElsewhereBut ==
  ASSUME IInv, Entries, NEW k \in InFlight, Idle(k), Does(k), NEW p, Shape(k, p),
         NEW q \in InFlight, q # k, ~Granted(q),
         \A j : GivesBlock(k, j) => j = q,
         GivesExclusive(k) => q = frames[k].ret,
         NEW x, NEW t, NEW S
  PROVE  Elsewhere(k, x, t, S)' <=> Elsewhere(k, x, t, S) \/ Grants(q, x, t, S)'
<1>1. ASSUME NEW j \in InFlight \ {k}, j # q
      PROVE  j \in InFlight' /\ (Grants(j, x, t, S)' <=> Grants(j, x, t, S))
  <2>1. j \in InFlight'  BY <1>1 DEF Shape, Others, Same
  <2> QED  BY <1>1, <2>1, GrantsKept
<1>2. ASSUME NEW n \in InFlight' \ InFlight  PROVE ~Grants(n, x, t, S)'
  <2>1. NewOK(n, k)  BY <1>2 DEF Shape
  <2> QED  BY <2>1, NewNothing
<1>3. q \in InFlight' /\ ~Grants(q, x, t, S)  BY DEF Shape, Others, Same, Grants
<1> QED  BY <1>1, <1>2, <1>3 DEF Elsewhere

\* Nobody else is granted a block.
LEMMA ElsewhereKept ==
  ASSUME IInv, Entries, NEW k \in InFlight, Idle(k), Does(k), NEW p, Shape(k, p),
         ~GivesExclusive(k), ~ \E j : GivesBlock(k, j),
         NEW x, NEW t, NEW S
  PROVE  Elsewhere(k, x, t, S)' <=> Elsewhere(k, x, t, S)
<1>1. ASSUME NEW j \in InFlight \ {k}
      PROVE  j \in InFlight' /\ (Grants(j, x, t, S)' <=> Grants(j, x, t, S))
  <2>1. j \in InFlight'  BY <1>1 DEF Shape, Others, Same
  <2> QED  BY <1>1, <2>1, GrantsKept
<1>2. ASSUME NEW n \in InFlight' \ InFlight  PROVE ~Grants(n, x, t, S)'
  <2>1. NewOK(n, k)  BY <1>2 DEF Shape
  <2> QED  BY <2>1, NewNothing
<1> QED  BY <1>1, <1>2 DEF Elsewhere

\* The entry that frame k has locked is its own.
LEMMA MineOnly ==
  ASSUME IInv, Plain, NEW k, NEW d \in Entry, Private(k, d),
         frames[k].kind # "evict" \/ k \in InFlight', NEW t, NEW S
  PROVE  ~Elsewhere(k, d, t, S) /\ ~Outbound(k, d)
<1>1. ASSUME NEW j \in InFlight, j # k  PROVE ~CountsOn(j, d)
  BY <1>1, Untouched
<1>2. ASSUME NEW j \in InFlight, Grants(j, d, t, S)  PROVE CountsOn(j, d)
  BY <1>2, GrantedLocks DEF Grants, CountsOn, Holds
<1> QED  BY <1>1, <1>2 DEF Elsewhere, Outbound, Gone, CountsOn

\* A copy stays if all its parts do.
LEMMA CopyKept ==
  ASSUME NEW k, NEW x, NEW t, NEW S,
         Elsewhere(k, x, t, S)' <=> Elsewhere(k, x, t, S), Outbound(k, x)' <=> Outbound(k, x),
         blk'[x] = blk[x], OwnGone(k, x)' <=> OwnGone(k, x),
         OwnGrants(k, x, t, S)' <=> OwnGrants(k, x, t, S)
  PROVE  Copy(x, t, S)' <=> Copy(x, t, S)
BY CopyParts, CopyPartsNext

\* A frame that has just sent a request to the lower level is not granted.
LEMMA UpUnanswered ==
  ASSUME NEW k, NEW v, CallsUp(k, v, ReadUp(k)) \/ CallsUp(k, v, WriteUp(k))
  PROVE  ~Answered(k)' /\ k \in InFlight'
<1>1. PICK N : CallsUp(k, v, N) /\ (N = ReadUp(k) \/ N = WriteUp(k))  OBVIOUS
<1>2. PICK c : c \in DOMAIN N /\ N[c].ret = k /\ N[c].ev = "lock" /\ N[c].kind \notin AccessKind
  <2>1. CASE N = ReadUp(k)
    <3>1. PICK c : c = Call(k, "readUD", frames[k].at)  OBVIOUS
    <3>2. c \in DOMAIN N /\ N[c].ret = k /\ N[c].ev = "lock" /\ N[c].kind = "readUD"
      BY <2>1, <3>1 DEF ReadUp, NewFrame
    <3> QED  BY <3>2 DEF AccessKind
  <2>2. CASE N = WriteUp(k)
    <3>1. PICK c : c = Call(k, "writeUD", frames[k].at)  OBVIOUS
    <3>2. c \in DOMAIN N /\ N[c].ret = k /\ N[c].ev = "lock" /\ N[c].kind = "writeUD"
      BY <2>2, <3>1 DEF WriteUp, NewFrame
    <3> QED  BY <3>2 DEF AccessKind
  <2> QED  BY <1>1, <2>1, <2>2
<1>3. c \in InFlight' /\ frames'[c] = N[c]  BY <1>1, <1>2 DEF CallsUp, Called
<1> QED  BY <1>1, <1>2, <1>3 DEF Answered, Children, CallsUp, Called, Idle

\* Frame k is not granted the block before the step, nor after it.
NotGranted(k) == ~Granted(k) /\ (k \in InFlight' => ~Granted(k)')

\* The events in which frame k is not granted anything
LEMMA NotGrantedOnes ==
  ASSUME IInv, NEW k \in InFlight, Idle(k), NEW p, Shape(k, p),
         \/ Looks(k) /\ frames[k].ev = "lock" /\ NoEntry
         \/ \E e \in Entry : Gets(k, e) \/ Replaces(k, e)
         \/ GivesUp(k) \/ InvalidationEnds(k) \/ SendsDown(k) \/ Accepts(k) \/ Refuses(k)
         \/ \E q : \/ EvictionFails(k, q) \/ EvictionEnds(k, q)
                   \/ GivesBlock(k, q) \/ GivesData(k, q) \/ Yields(k, q)
         \/ Received(k) \/ Passes(k) \/ AsksOwner(k) \/ Takes(k)
         \/ /\ frames[k].ev \in {"action", "exclusive"}
            /\ \E v : CallsUp(k, v, ReadUp(k)) \/ CallsUp(k, v, WriteUp(k))
  PROVE  NotGranted(k)
<1>1. k \in InFlight' => frames'[k].kind = frames[k].kind  BY DEF Shape, Like
<1>2. CASE \/ Looks(k) /\ frames[k].ev = "lock" /\ NoEntry
           \/ \E e \in Entry : Gets(k, e) \/ Replaces(k, e)
  <2>1. frames[k].ev = "lock" /\ frames'[k].ev \in {"lock", "lockWait", "action", "evicting"}
    BY <1>2 DEF Looks, Gets, Replaces, Called
  <2> QED  BY <2>1 DEF NotGranted, Granted
<1>3. CASE GivesUp(k)
  <2>1. /\ frames[k].ev = "action" \/ frames[k].err
        /\ k \in InFlight' => frames'[k].ev \in {"lock", "lockWait", "action"}
    BY <1>3 DEF GivesUp, Looks, Ended
  <2> QED  BY <2>1 DEF NotGranted, Granted
<1>4. CASE \/ InvalidationEnds(k) \/ Received(k)
           \/ \E q : EvictionFails(k, q) \/ EvictionEnds(k, q)
  <2>1. /\ k \notin InFlight'
        /\ \/ frames[k].kind = "invalidate"
           \/ frames[k].ev \in {"reply", "invalid"}
    BY <1>4 DEF InvalidationEnds, Received, EvictionFails, EvictionEnds, Returns, Ended
  <2>2. frames[k].kind = "invalidate" => frames[k].ev = "finish"
    BY FrameFacts DEF FrameOK
  <2> QED  BY <2>1, <2>2 DEF NotGranted, Granted
<1>5. CASE SendsDown(k) \/ Accepts(k) \/ Refuses(k)
  <2>1. frames[k].ev \in {"invalid", "action"} /\ frames'[k].ev \in {"lock", "reply"}
    BY <1>5 DEF SendsDown, Accepts, Refuses, Goes
  <2> QED  BY <2>1 DEF NotGranted, Granted
<1>6. CASE Passes(k)
  <2>1. frames[k].err /\ frames'[k].ev = "reply"
    BY <1>6 DEF Passes, ToldError, Told, Goes
  <2> QED  BY <2>1 DEF NotGranted, Granted
<1>7. CASE AsksOwner(k)
  <2>1. /\ frames[k].kind \in {"readUD", "readDU"} /\ frames[k].ev = "action"
        /\ frames'[k].ev = "finish"
    BY <1>7 DEF AsksOwner, Goes, Called
  <2> QED  BY <1>1, <2>1 DEF NotGranted, Granted
<1>8. CASE Takes(k)
  <2>1. frames[k].ev = "action" /\ frames'[k].ev = "exclusive"
    BY <1>8 DEF Takes, Called
  <2> QED  BY <2>1 DEF NotGranted, Granted
<1>9. CASE \E q : GivesBlock(k, q) \/ GivesData(k, q) \/ Yields(k, q)
  <2>1. /\ \/ frames[k].kind \in {"readUD", "readDU"} /\ frames[k].ev = "finish"
           \/ frames[k].ev = "exclusive"
        /\ frames'[k].ev = "reply"
    BY <1>9 DEF GivesBlock, GivesData, Yields, Told, Goes
  <2> QED  BY <2>1 DEF NotGranted, Granted
<1>10. CASE /\ frames[k].ev \in {"action", "exclusive"}
            /\ \E v : CallsUp(k, v, ReadUp(k)) \/ CallsUp(k, v, WriteUp(k))
  BY <1>10, UpUnanswered DEF NotGranted, Granted
<1> QED  BY <1>2, <1>3, <1>4, <1>5, <1>6, <1>7, <1>8, <1>9, <1>10

\* An eviction is accepted, or ends.
LEMMA GoneOwn ==
  ASSUME IInv, Entries, NEW k \in InFlight, Idle(k), Does(k), NEW p, Shape(k, p), NEW x
  PROVE  /\ OwnGone(k, x)' => Accepts(k) /\ x = Source(k)
         /\ OwnGone(k, x) =>
              /\ x = Source(k) /\ frames[k].kind = "evict"
              /\ \E q : EvictionEnds(k, q) /\ q = frames[k].ret
<1>1. k \in InFlight' => frames'[k].kind = frames[k].kind /\ Source(k)' = Source(k)
  BY DEF Shape, Like, Source
<1>2. ASSUME frames[k].kind = "evict"
      PROVE  \/ Looks(k) /\ frames[k].ev = "lock" /\ NoEntry
             \/ \E e \in Entry : Gets(k, e) \/ Replaces(k, e)
             \/ SendsDown(k) \/ Accepts(k) \/ Refuses(k)
             \/ \E q : EvictionFails(k, q) \/ EvictionEnds(k, q)
  BY <1>2 DEF Does, GivesUp, Settles, InvalidationEnds, Received, Passes, AsksOwner, Fills,
     GivesBlock, GivesData, Takes, AsksExclusive, GivesExclusive, Yields, AccessKind
<1>3. ASSUME \/ Looks(k) /\ frames[k].ev = "lock"
             \/ \E e \in Entry : Gets(k, e) \/ Replaces(k, e)
             \/ SendsDown(k)
      PROVE  frames[k].ev # "reply" /\ frames'[k].ev # "reply"
  BY <1>3 DEF Looks, Gets, Replaces, Called, SendsDown
<1>4. ASSUME Refuses(k)  PROVE frames[k].ev # "reply" /\ frames'[k].err
  BY <1>4 DEF Refuses, Goes, Results
<1>5. ASSUME Accepts(k)  PROVE frames[k].ev # "reply"
  BY <1>5 DEF Accepts
<1>6. ASSUME NEW q, EvictionFails(k, q)  PROVE frames[k].err /\ k \notin InFlight'
  BY <1>6 DEF EvictionFails, Returns
<1>7. ASSUME NEW q, EvictionEnds(k, q)  PROVE q = frames[k].ret /\ k \notin InFlight'
  BY <1>7 DEF EvictionEnds, Returns
<1> QED  BY <1>1, <1>2, <1>3, <1>4, <1>5, <1>6, <1>7 DEF OwnGone, Gone

\* Steps that leave the copies as they are
Quiet(k) ==
  \/ Looks(k) /\ frames[k].ev = "lock" /\ NoEntry
  \/ \E e \in Entry : Gets(k, e) \/ Replaces(k, e)
  \/ GivesUp(k) \/ InvalidationEnds(k) \/ SendsDown(k) \/ Refuses(k)
  \/ \E q : EvictionFails(k, q)
  \/ Received(k) \/ Passes(k) \/ AsksOwner(k) \/ Takes(k)
  \/ /\ frames[k].ev \in {"action", "exclusive"} /\ frames[k].kind # "evict"
     /\ \E v : CallsUp(k, v, ReadUp(k)) \/ CallsUp(k, v, WriteUp(k))

\* An invalidation that ends leaves the blocks as they are: only a block that is
\* modified already takes data.
LEMMA InvalidationSame ==
  ASSUME IInv, Entries, DownUpSucceeds, NEW k \in InFlight, InvalidationEnds(k)
  PROVE  blk' = blk
<1>1. PICK f : f = frames[k]  OBVIOUS
<1>2. PICK e : e = Locked(k)  OBVIOUS
<1>3. f.kind = "invalidate" /\ e \in Entry
  BY <1>1, <1>2, FrameFacts DEF InvalidationEnds, FrameOK
<1>4. blk[e].tag = f.tag /\ blk[e].state = f.state
  BY <1>1, <1>2, <1>3 DEF Entries, Current
<1>5. f.reply = "ack_data" => f.state \in {"M", "E"}
  BY <1>1, <1>3 DEF DownUpSucceeds
<1>6. CASE f.reply = "ack_data" /\ f.state = "M"
  <2>1. Writes(e, f.tag, "M")  BY <1>1, <1>2, <1>6 DEF InvalidationEnds
  <2> QED  BY <1>3, <1>4, <1>6, <2>1, SameBlock
<1>7. CASE f.reply # "ack_data" \/ f.state = "E"
  BY <1>1, <1>7 DEF InvalidationEnds
<1> QED  BY <1>5, <1>6, <1>7

\* Quiet steps grant nothing.
LEMMA QuietGives ==
  ASSUME IInv, Entries, NEW k \in InFlight, Quiet(k)
  PROVE  ~GivesExclusive(k) /\ ~ \E q : GivesBlock(k, q)
<1>1. SUFFICES ASSUME frames[k].kind \in {"readUD", "writeUD"}, frames[k].ev = "finish",
                      GivesExclusive(k) \/ \E q : GivesBlock(k, q)
               PROVE  FALSE
  BY DEF GivesExclusive, GivesBlock
<1>2. ~frames'[frames[k].ret].err
  <2>1. ~frames[frames[k].ret].err  BY <1>1 DEF Entries, CalledFor
  <2>2. CASE \E q : GivesBlock(k, q)  BY <2>1, <2>2 DEF GivesBlock
  <2>3. CASE GivesExclusive(k)
    <3>1. frames[k].kind \notin AccessKind  BY <1>1 DEF AccessKind
    <3>2. Idle(k)  BY <2>3 DEF GivesExclusive
    <3>3. frames[k].ret \in InFlight /\ frames[k].ret # k  BY <3>1, <3>2, CallerWaits
    <3>4. Same(frames[k].ret)  BY <2>3, <3>3 DEF GivesExclusive, Alone, Others
    <3> QED  BY <2>1, <3>4 DEF Same, Results
  <2> QED  BY <1>1, <2>2, <2>3
<1>3. ~Passes(k)  BY <1>2 DEF Passes, ToldError
<1> QED
  BY <1>1, <1>3 DEF Quiet, Looks, Gets, Replaces, GivesUp, InvalidationEnds, SendsDown,
     Refuses, EvictionFails, Returns, Received, AsksOwner, Takes, AccessKind

\* Quiet steps are not those of accepted evictions.
LEMMA QuietGone ==
  ASSUME IInv, NEW k \in InFlight, Idle(k), NEW p, Shape(k, p), Quiet(k), NEW x
  PROVE  ~OwnGone(k, x) /\ ~OwnGone(k, x)'
<1>1. k \in InFlight' => frames'[k].kind = frames[k].kind  BY DEF Shape, Like
<1>2. CASE frames[k].kind # "evict"  BY <1>1, <1>2 DEF OwnGone, Gone
<1>3. CASE frames[k].kind = "evict"
  <2>1. \/ Looks(k) /\ frames[k].ev = "lock" /\ NoEntry
        \/ \E e \in Entry : Gets(k, e) \/ Replaces(k, e)
        \/ SendsDown(k) \/ Refuses(k)
        \/ \E q : EvictionFails(k, q)
    BY <1>3 DEF Quiet, GivesUp, InvalidationEnds, Received, Passes, AsksOwner, Takes, AccessKind
  <2>2. CASE Looks(k) /\ frames[k].ev = "lock" /\ NoEntry
    BY <2>2 DEF Looks, OwnGone, Gone
  <2>3. CASE \E e \in Entry : Gets(k, e) \/ Replaces(k, e)
    BY <2>3 DEF Gets, Replaces, Called, OwnGone, Gone
  <2>4. CASE SendsDown(k)  BY <2>4 DEF SendsDown, OwnGone, Gone
  <2>5. CASE Refuses(k)  BY <2>5 DEF Refuses, Goes, Results, OwnGone, Gone
  <2>6. CASE \E q : EvictionFails(k, q)
    BY <2>6 DEF EvictionFails, Returns, OwnGone, Gone
  <2> QED  BY <2>1, <2>2, <2>3, <2>4, <2>5, <2>6
<1> QED  BY <1>2, <1>3

\* Quiet steps change no copy.
LEMMA QuietCopy ==
  ASSUME IInv, Entries, DownUpSucceeds, NEW k \in InFlight, Idle(k), Does(k),
         NEW p, Shape(k, p), Quiet(k),
         NEW x \in Entry, Low[x[1]] # None, NEW t, NEW S
  PROVE  Copy(x, t, S)' <=> Copy(x, t, S)
<1>1. Elsewhere(k, x, t, S)' <=> Elsewhere(k, x, t, S)
  BY QuietGives, ElsewhereKept
<1>2. Outbound(k, x)' <=> Outbound(k, x)  BY OutboundKept
<1>3. ~OwnGone(k, x) /\ ~OwnGone(k, x)'  BY QuietGone
<1>4. ~OwnGrants(k, x, t, S) /\ ~OwnGrants(k, x, t, S)'
  <2>1. NotGranted(k)
    <3>1. \/ Looks(k) /\ frames[k].ev = "lock" /\ NoEntry
          \/ \E e \in Entry : Gets(k, e) \/ Replaces(k, e)
          \/ GivesUp(k) \/ InvalidationEnds(k) \/ SendsDown(k) \/ Accepts(k) \/ Refuses(k)
          \/ \E q : \/ EvictionFails(k, q) \/ EvictionEnds(k, q)
                    \/ GivesBlock(k, q) \/ GivesData(k, q) \/ Yields(k, q)
          \/ Received(k) \/ Passes(k) \/ AsksOwner(k) \/ Takes(k)
          \/ /\ frames[k].ev \in {"action", "exclusive"}
             /\ \E v : CallsUp(k, v, ReadUp(k)) \/ CallsUp(k, v, WriteUp(k))
      BY DEF Quiet
    <3> QED  BY ONLY IInv, k \in InFlight, Idle(k), Shape(k, p), <3>1, NotGrantedOnes
  <2> QED  BY <2>1 DEF NotGranted, OwnGrants, Grants
<1>5. blk'[x] = blk[x]
  <2>1. CASE \E e \in Entry : Gets(k, e)
    <3>1. PICK e \in Entry : Gets(k, e)  BY <2>1
    <3>2. CASE blk' = blk  BY <3>2
    <3>3. CASE MainMemory(e[1]) /\ Writes(e, frames[k].tag, "E")
      <4>1. e # x  BY <3>3 DEF MainMemory
      <4> QED  BY <3>3, <4>1, WritesAt
    <3> QED  BY <3>1, <3>2, <3>3 DEF Gets
  <2>2. CASE InvalidationEnds(k)  BY <2>2, InvalidationSame
  <2>3. CASE ~InvalidationEnds(k) /\ ~ \E e \in Entry : Gets(k, e)
    BY <2>3 DEF Quiet, NoEntry, Replaces, GivesUp, SendsDown, Refuses, EvictionFails,
       Received, Passes, AsksOwner, Takes, CallsUp
  <2> QED  BY <2>1, <2>2, <2>3
<1> QED  BY <1>1, <1>2, <1>3, <1>4, <1>5, CopyKept

-----------------------------------------------------------------------------
(***************************************************************************)
(* The levels: a block of a module is in the lower level, whose directory  *)
(* knows about it.                                                         *)
(***************************************************************************)

\* Module m has block t in one of the states S, or will have it.
HasCopy(m, t, S) == \E x \in Entry : x[1] = m /\ Copy(x, t, S)

\* Request down-up d, which has not been there yet, takes block t from module m.
Claims(d, m, t) ==
  /\ frames[d].kind = "writeDU" /\ frames[d].ev # "reply"
  /\ frames[d].at = m /\ frames[d].tag = t

Claimed(m, t) == \E d \in InFlight : Claims(d, m, t)

Present(e, t) == blk[e].tag = t /\ blk[e].state # "I"

\* Entry e has block t, and counts module m as a sharer, and as the owner of a
\* block that m may write or must answer for, or has sent for the block.
Covers(e, m, t) ==
  /\ e[1] = Low[m] /\ Present(e, t)
  /\ HasCopy(m, t, Owned) => blk[e].state \in Exclusive
  /\ \/ Claimed(m, t)
     \/ m \in dir[e].sharers /\ (HasCopy(m, t, Owned) => dir[e].owner = m)

\* Request k has entry e and what it has asked the owner for.
Awaits(k, e) ==
  /\ Holds(k, e) /\ frames[k].ev = "finish" /\ frames[k].kind \in {"readUD", "readDU"}
  /\ Answered(k)

\* Copies are in the lower level; they go together; sharers and owners have them.
Covered(M, t) ==
  \A m \in Mod : Low[m] = M /\ HasCopy(m, t, Valid) => \E e \in Entry : Covers(e, m, t)

Together(M, t) ==
  \A m, n \in Mod : m # n /\ Low[m] = M /\ Low[n] = M =>
    /\ HasCopy(m, t, Exclusive) => ~HasCopy(n, t, Valid)
    /\ HasCopy(m, t, Owned) => ~HasCopy(n, t, Owned)

SharersHave(e, t) == \A m \in dir[e].sharers : HasCopy(m, t, Valid)

OwnerHasIt(e, t) ==
  dir[e].owner # None =>
    HasCopy(dir[e].owner, t, Owned) \/ \E k \in InFlight : Awaits(k, e)

Family(M, t) ==
  /\ Covered(M, t) /\ Together(M, t)
  /\ \A e \in Entry : e[1] = M /\ blk[e].tag = t => SharersHave(e, t) /\ OwnerHasIt(e, t)

\* A request down-up finds the block where it was sent, and nothing has changed
\* below.
DownUp(d) ==
  LET f == frames[d]
      e == Locked(f.ret)
  IN
  /\ f.kind \in {"readDU", "writeDU"} => ~f.err /\ f.ev # "evicting"
  /\ f.kind = "readDU" /\ Locks(d) => f.state \in Owned
  /\ f.kind = "writeDU" /\ Locks(d) => f.state # "I"
  /\ f.kind = "readDU" /\ f.ev # "reply" => f.at # None /\ dir[e].owner = f.at
  /\ f.kind = "writeDU" /\ f.ev # "reply" =>
       f.at \notin dir[e].sharers /\ HasCopy(f.at, f.tag, Valid)
  /\ f.kind = "invalidate" /\ f.reply = "ack_data" => f.state \in Exclusive

\* When the owner has answered a read request, no module above has more of the
\* block than the answer says.
Answer(k) ==
  LET f == frames[k]
      e == Locked(k)
      Above == {m \in Mod : Low[m] = f.at}
  IN
  /\ f.kind = "readDU" /\ (f.ev \notin {"finish", "reply"} \/ ~Answered(k)) => f.reply = "none"
  /\ f.kind = "readUD" /\ (f.ev \notin {"finish", "reply"} \/ ~Answered(k)) => ~f.retain
  /\ f.kind = "readUD" /\ f.ev = "finish" => dir[e].owner # f.from
  /\ f.kind = "readUD" /\ f.ev = "finish" /\ Answered(k) =>
       /\ \A m \in Above : ~HasCopy(m, f.tag, Exclusive)
       /\ IF f.retain THEN HasCopy(dir[e].owner, f.tag, Owned)
          ELSE \A m \in Above : ~HasCopy(m, f.tag, Owned)
  /\ f.kind = "readDU" /\ f.ev = "finish" /\ Answered(k) =>
       /\ \A m \in Above : ~HasCopy(m, f.tag, Owned)
       /\ f.reply = "none" => dir[e].owner = None

Levels ==
  /\ \A M \in Mod, t \in Tag : Family(M, t)
  /\ \A k \in InFlight : DownUp(k) /\ Answer(k)

-----------------------------------------------------------------------------
(***************************************************************************)
(* One copy, one entry below.                                              *)
(***************************************************************************)
\* The entries need no more of the levels than this.
LEMMA LevelsDownUp ==
  ASSUME Levels  PROVE DownUpSucceeds
BY DEF Levels, DownUp, DownUpSucceeds, Exclusive

\* Who is granted a block has locked the entry for it.
LEMMA GrantsHolds ==
  ASSUME IInv, Entries, NEW j \in InFlight, NEW x, NEW t, NEW S, Grants(j, x, t, S)
  PROVE  Holds(j, x) /\ x \in Entry /\ lock[x] = t /\ Matches(x, t)
<1>1. Holds(j, x) /\ x \in Entry  BY GrantedLocks DEF Grants, Holds
<1>2. lock[x] = frames[j].tag  BY <1>1 DEF Entries, Tagged
<1> QED  BY <1>1, <1>2 DEF Grants, Matches

\* An entry with a copy of a block matches it.
LEMMA CopyMatches ==
  ASSUME IInv, Entries, NEW x \in Entry, NEW t, NEW S, "I" \notin S, Copy(x, t, S)
  PROVE  Matches(x, t)
BY GrantsHolds DEF Copy, Matches

\* One entry of a module matches a block.
LEMMA SameEntry ==
  ASSUME Entries, NEW x \in Entry, NEW y \in Entry, x[1] = y[1], NEW t \in Tag,
         Matches(x, t), Matches(y, t)
  PROVE  x = y
BY DEF Entries, OneEntry

\* Who may write has data to answer with, and who has data has a copy.
LEMMA Rights ==
  /\ "I" \notin Valid /\ "I" \notin Owned /\ "I" \notin Exclusive
  /\ Exclusive \subseteq Owned /\ Owned \subseteq Valid
BY DEF Valid, Owned, Exclusive, State

\* A module has a block in one entry: the entry that matches it.
LEMMA HasCopyAt ==
  ASSUME IInv, Entries, NEW x \in Entry, NEW m, x[1] = m, NEW t \in Tag, Matches(x, t),
         NEW S, "I" \notin S
  PROVE  HasCopy(m, t, S) <=> Copy(x, t, S)
<1>1. ASSUME HasCopy(m, t, S)  PROVE Copy(x, t, S)
  <2>1. PICK y \in Entry : y[1] = m /\ Copy(y, t, S)  BY <1>1 DEF HasCopy
  <2>2. Matches(y, t)  BY <2>1, CopyMatches
  <2>3. y = x  BY <2>1, <2>2, SameEntry
  <2> QED  BY <2>1, <2>3
<1> QED  BY <1>1 DEF HasCopy

\* More states, more copies
LEMMA CopyMonotone ==
  ASSUME NEW m, NEW t, NEW S, NEW T, S \subseteq T, HasCopy(m, t, S)
  PROVE  HasCopy(m, t, T)
BY DEF HasCopy, Copy, Grants

\* The block that is taken from a module, and who asks for it
LEMMA ClaimEntry ==
  ASSUME IInv, Entries, NEW d \in InFlight, NEW m, NEW t, Claims(d, m, t),
         NEW i, i = frames[d].ret, NEW e, e = Locked(i)
  PROVE  /\ i \in InFlight /\ frames[i].kind = "invalidate" /\ frames[i].ev = "finish"
         /\ d \in Children(i) /\ d = Call(i, "writeDU", m)
         /\ e \in Entry /\ e[1] = Low[m] /\ Present(e, t) /\ CountsOn(i, e)
         /\ Matches(e, t)
<1>1. PICK f : f = frames[d]  OBVIOUS
<1>2. f.kind = "writeDU" /\ f.kind \notin AccessKind /\ f.at = m /\ f.tag = t
  BY <1>1 DEF Claims, AccessKind
<1>3. /\ d = <<d[1], i, "writeDU", d[4]>> /\ i \in InFlight
  BY <1>1, <1>2 DEF IInv, TypeOK
<1>4. /\ frames[i].kind = "invalidate" /\ d[1] = i[1]
      /\ f.tag = frames[i].tag /\ f.from = frames[i].at /\ d[4] = f.at /\ Low[f.at] = f.from
  BY <1>1, <1>2, FrameFacts DEF CallOK, FrameOK, Entries, CalledFor
<1>5. frames[i].ev = "finish" /\ e \in Entry /\ e[1] = frames[i].at
  BY <1>3, <1>4, FrameFacts DEF FrameOK, Locked
<1>6. Present(e, t)
  BY <1>2, <1>3, <1>4 DEF Entries, Current, Present
<1>7. CountsOn(i, e)  BY <1>4 DEF CountsOn
<1> QED
  BY <1>1, <1>2, <1>3, <1>4, <1>5, <1>6, <1>7 DEF Children, Call, Present, Matches

\* Nobody takes a block away from above an entry that frame k may change.
LEMMA NoClaim ==
  ASSUME IInv, Entries, NEW k, NEW e \in Entry, Private(k, e), Idle(k), NEW t \in Tag, Matches(e, t),
         NEW m, Low[m] = e[1]
  PROVE  ~Claimed(m, t)
<1>1. SUFFICES ASSUME NEW d \in InFlight, Claims(d, m, t)  PROVE FALSE
  BY DEF Claimed
<1>2. PICK i : i = frames[d].ret  OBVIOUS
<1>3. PICK c : c = Locked(i)  OBVIOUS
<1>4. /\ i \in InFlight /\ frames[i].kind = "invalidate" /\ frames[i].ev = "finish"
      /\ d \in Children(i) /\ c \in Entry /\ c[1] = Low[m] /\ CountsOn(i, c) /\ Matches(c, t)
  BY <1>1, <1>2, <1>3, ClaimEntry
<1>5. c = e  BY <1>4, SameEntry
<1>6. i # k  BY <1>4 DEF Idle
<1>7. i # frames[k].ret \/ frames[k].kind # "evict"
  <2>1. frames[k].kind = "evict" => frames[frames[k].ret].ev \in {"evicting", "ncAction"}
    BY FrameFacts DEF Idle, CallOK, AccessKind
  <2> QED  BY <1>4, <2>1
<1> QED  BY <1>4, <1>5, <1>6, <1>7, Untouched DEF Entries

\* An entry that frame k may change knows every module above that has its block.
LEMMA CoverAt ==
  ASSUME IInv, Entries, NEW k, NEW e \in Entry, Private(k, e), Idle(k),
         NEW t \in Tag, Matches(e, t), Covered(e[1], t),
         NEW m \in Mod, Low[m] = e[1], HasCopy(m, t, Valid)
  PROVE  /\ Present(e, t) /\ m \in dir[e].sharers
         /\ HasCopy(m, t, Owned) => dir[e].owner = m /\ blk[e].state \in Exclusive
<1>1. PICK c \in Entry : Covers(c, m, t)  BY DEF Covered
<1>2. c = e
  <2>1. Matches(c, t) /\ c[1] = e[1]  BY <1>1 DEF Covers, Present, Matches
  <2> QED  BY <2>1, SameEntry
<1>3. ~Claimed(m, t)  BY NoClaim
<1> QED  BY <1>1, <1>2, <1>3 DEF Covers

\* Nobody has a block above an entry that does not know about it.
LEMMA NobodyAbove ==
  ASSUME IInv, Entries, NEW k, NEW e \in Entry, Private(k, e), Idle(k),
         NEW t \in Tag, Matches(e, t), Covered(e[1], t),
         NEW m \in Mod, Low[m] = e[1], ~Present(e, t) \/ m \notin dir[e].sharers,
         NEW S, S \subseteq Valid
  PROVE  ~HasCopy(m, t, S)
BY CoverAt, CopyMonotone

\* One request down-up at most takes a block from a module.
LEMMA OneClaim ==
  ASSUME IInv, Entries, NEW c \in InFlight, NEW d \in InFlight, NEW m, NEW t \in Tag,
         Claims(c, m, t), Claims(d, m, t)
  PROVE  c = d
<1>1. PICK i : i = frames[c].ret  OBVIOUS
<1>2. PICK j : j = frames[d].ret  OBVIOUS
<1>3. PICK e : e = Locked(i)  OBVIOUS
<1>4. /\ i \in InFlight /\ frames[i].kind = "invalidate"
      /\ c = Call(i, "writeDU", m)
      /\ e \in Entry /\ e[1] = Low[m] /\ CountsOn(i, e) /\ Matches(e, t)
  BY <1>1, <1>3, ClaimEntry
<1>5. /\ j \in InFlight /\ frames[j].kind = "invalidate"
      /\ d = Call(j, "writeDU", m)
      /\ Locked(j) = e /\ CountsOn(j, e)
  <2>1. PICK b : b = Locked(j)  OBVIOUS
  <2>2. /\ j \in InFlight /\ frames[j].kind = "invalidate"
        /\ d = Call(j, "writeDU", m)
        /\ b \in Entry /\ b[1] = Low[m] /\ CountsOn(j, b) /\ Matches(b, t)
    BY <1>2, <2>1, ClaimEntry
  <2>3. b = e  BY <1>4, <2>2, SameEntry
  <2> QED  BY <2>1, <2>2, <2>3
<1>6. Plain  BY DEF Entries
<1>7. ~Locks(i) /\ frames[i].ev # "evicting" /\ ~Locks(j) /\ frames[j].ev # "evicting"
  BY <1>4, <1>5, FrameFacts DEF Locks, FrameOK
<1>8. PICK h \in InFlight : /\ Holds(h, e)
           /\ \/ frames[i].ret = h /\ frames[h].ev = "exclusive"
              \/ /\ frames[i].ret \in InFlight /\ frames[frames[i].ret].kind = "evict"
                 /\ frames[frames[i].ret].ret = h /\ frames[h].ev = "evicting"
  BY <1>4, <1>6, <1>7, Counting DEF Holds
<1>9. PICK g \in InFlight : /\ Holds(g, e)
           /\ \/ frames[j].ret = g /\ frames[g].ev = "exclusive"
              \/ /\ frames[j].ret \in InFlight /\ frames[frames[j].ret].kind = "evict"
                 /\ frames[frames[j].ret].ret = g /\ frames[g].ev = "evicting"
  BY <1>5, <1>6, <1>7, Counting DEF Holds
<1>10. g = h  BY <1>4, <1>8, <1>9 DEF IInv, HeldOnce
<1>11. i = Call(frames[i].ret, "invalidate", e[1]) /\ j = Call(frames[j].ret, "invalidate", e[1])
  <2>1. /\ i = <<i[1], frames[i].ret, "invalidate", i[4]>>
        /\ j = <<j[1], frames[j].ret, "invalidate", j[4]>>
    BY <1>4, <1>5 DEF IInv, TypeOK
  <2>2. /\ i[1] = frames[i].ret[1] /\ i[4] = frames[i].at
        /\ j[1] = frames[j].ret[1] /\ j[4] = frames[j].at
    BY <1>4, <1>5, FrameFacts DEF CallOK, Entries, CalledFor, AccessKind
  <2>3. frames[i].at = e[1] /\ frames[j].at = e[1]
    BY <1>3, <1>5 DEF Locked
  <2> QED  BY <2>1, <2>2, <2>3 DEF Call
<1>12. frames[i].ret = frames[j].ret
  <2>1. ASSUME NEW q \in InFlight, frames[q].kind = "evict", frames[q].ret = h, frames[q].from = e[1]
        PROVE  q = Call(h, "evict", e[1])
    <3>1. q = <<q[1], h, "evict", q[4]>>  BY <2>1 DEF IInv, TypeOK
    <3>2. q[1] = h[1] /\ q[4] = frames[q].from
      BY <2>1, FrameFacts DEF CallOK, Entries, CalledFor, AccessKind
    <3> QED  BY <2>1, <3>1, <3>2 DEF Call
  <2>2. ASSUME NEW n \in InFlight, frames[n].kind = "invalidate", Locked(n) = e,
               NEW q \in InFlight, frames[q].kind = "evict", frames[n].ret = q
        PROVE  frames[q].from = e[1]
    BY <2>2, FrameFacts DEF CallOK, AccessKind, Source
  <2> QED  BY <1>3, <1>4, <1>5, <1>8, <1>9, <1>10, <2>1, <2>2
<1> QED  BY <1>4, <1>5, <1>11, <1>12

-----------------------------------------------------------------------------
(***************************************************************************)
(* What a step leaves as it is.                                            *)
(***************************************************************************)
\* After its reply, a request only returns.
LEMMA AfterReply ==
  ASSUME IInv, NEW k \in InFlight, Does(k), frames[k].ev = "reply",
         frames[k].kind \notin AccessKind \cup {"evict"}
  PROVE  Received(k)
<1>1. ~(Looks(k) /\ frames[k].ev = "lock" /\ NoEntry)
      /\ ~ \E e \in Entry : Gets(k, e) \/ Replaces(k, e)
  BY DEF Gets, Replaces
<1>2. ~(GivesUp(k) \/ Settles(k))  BY DEF GivesUp, Settles
<1>3. ~(InvalidationEnds(k) \/ SendsDown(k) \/ Accepts(k) \/ Refuses(k)
        \/ \E q : EvictionFails(k, q) \/ EvictionEnds(k, q))
  BY FrameFacts DEF FrameOK, InvalidationEnds, SendsDown, Accepts, Refuses, EvictionFails,
     EvictionEnds, Returns
<1>4. ~Locks(k)  BY DEF Locks
<1>5. ~(Passes(k) \/ AsksOwner(k) \/ Fills(k) \/ Takes(k) \/ AsksExclusive(k)
        \/ GivesExclusive(k)
        \/ \E q : GivesBlock(k, q) \/ GivesData(k, q) \/ Yields(k, q))
  BY <1>4 DEF Passes, AsksOwner, Fills, Takes, AsksExclusive, GivesExclusive,
     GivesBlock, GivesData, Yields
<1> QED  BY <1>1, <1>2, <1>3, <1>5 DEF Does

\* A frame that has its answers, and does not act, stays as it is.
LEMMA AnsweredSame ==
  ASSUME IInv, NEW k \in InFlight, Idle(k), Does(k), NEW p, Shape(k, p),
         NEW j \in InFlight, j # k, Answered(j), frames[j].ev \notin {"evicting", "ncAction"}
  PROVE  Same(j) /\ Answered(j)' /\ (j # frames[k].ret \/ ~Answers(k))
<1>1. j # frames[k].ret \/ ~Answers(k)
  BY DEF Answers, Answered, Children
<1>2. Same(j)
  <2>1. SUFFICES ASSUME ~Same(j)  PROVE FALSE  OBVIOUS
  <2>2. j = p /\ p = frames[k].ret /\ frames[k].kind \notin AccessKind
    BY <2>1 DEF Shape, Others
  <2>3. frames[k].ev = "reply"  BY <2>2 DEF Answered, Children
  <2>4. frames[k].kind # "evict"  BY <2>2, FrameFacts DEF CallOK
  <2>5. Received(k)  BY <2>2, <2>3, <2>4, AfterReply
  <2> QED  BY <2>1, <2>5 DEF Received, Ended, Others
<1>3. Answered(j)'
  <2>1. Steps(k, p)  BY DEF Steps
  <2> QED  BY <1>1, <2>1, SameAnswered
<1> QED  BY <1>1, <1>2, <1>3

\* A frame that has what it asked the owner for waits for its own event.
LEMMA AwaitsStay ==
  ASSUME IInv, NEW k \in InFlight, Idle(k), Does(k), NEW p, Shape(k, p),
         NEW j \in InFlight, j # k, NEW e, Awaits(j, e)
  PROVE  j \in InFlight' /\ Awaits(j, e)'
<1>1. Same(j) /\ Answered(j)'  BY AnsweredSame DEF Awaits
<1>2. e = Locked(j)  BY DEF Awaits, Holds
<1>3. Locked(j)' = Locked(j)  BY <1>1 DEF Same, Like, Placed, Locked
<1>4. Locks(j)'  BY <1>1 DEF Same, Like, Locks, Awaits
<1> QED  BY <1>1, <1>2, <1>3, <1>4 DEF Awaits, Holds, Same, Like

\* A block is claimed until it has been taken.
LEMMA ClaimStays ==
  ASSUME IInv, DownUpSucceeds, NEW k \in InFlight, Idle(k), Does(k), NEW p, Shape(k, p),
         NEW d \in InFlight, NEW m, NEW t, Claims(d, m, t),
         d # k \/ ~ \E q : Yields(k, q)
  PROVE  d \in InFlight' /\ Claims(d, m, t)'
<1>1. CASE d # k
  <2>1. CASE Same(d)  BY <2>1 DEF Same, Like, Claims
  <2>2. CASE ~Same(d)
    <3>1. d = p /\ p # k  BY <1>1, <2>2 DEF Shape, Others
    <3> QED  BY <3>1, CallerEvents DEF Shape, Like, Claims
  <2> QED  BY <2>1, <2>2
<1>2. CASE d = k
  <2>1. ~Answers(k)
    <3>1. ~frames[k].err  BY <1>2 DEF DownUpSucceeds, Claims
    <3>2. ~(\/ InvalidationEnds(k) \/ Accepts(k) \/ Refuses(k) \/ Passes(k)
            \/ GivesExclusive(k)
            \/ \E x : \/ EvictionFails(k, x) \/ EvictionEnds(k, x)
                      \/ GivesBlock(k, x) \/ GivesData(k, x))
      BY <1>2, <3>1 DEF InvalidationEnds, Accepts, Refuses, EvictionFails, EvictionEnds, Returns,
         Passes, GivesExclusive, GivesBlock, GivesData, Claims
    <3> QED  BY <1>2, <3>2, WhoAnswers
  <2>2. k \in InFlight' /\ frames'[k].ev # "reply"
    BY <1>2, <2>1 DEF Answers, Claims, AccessKind
  <2> QED  BY <1>2, <2>2 DEF Shape, Like, Claims
<1> QED  BY <1>1, <1>2

\* The entry that frame k has locked, where it acts on it
LEMMA LockedOwn ==
  ASSUME IInv, Entries, NEW k, Idle(k), Locks(k),
         NEW d, d = Locked(k)
  PROVE  /\ d \in Entry /\ Holds(k, d) /\ Private(k, d) /\ lock[d] = frames[k].tag
         /\ Matches(d, frames[k].tag)
<1>1. k \in InFlight /\ d \in Entry  BY FrameFacts DEF Idle, FrameOK
<1>2. Holds(k, d) /\ Private(k, d)  BY DEF Holds, Private
<1>3. lock[d] = frames[k].tag  BY <1>1, <1>2 DEF Entries, Tagged
<1> QED  BY <1>1, <1>2, <1>3 DEF Matches

\* Frame k gets the block for itself: it was granted before.
LEMMA KeepsGrant ==
  ASSUME IInv, Entries, NEW k \in InFlight, Idle(k), Does(k), NEW p, Shape(k, p),
         Settles(k) \/ Fills(k),
         NEW x \in Entry, NEW t \in Tag, NEW S \in {Valid, Owned, Exclusive}
  PROVE  Copy(x, t, S)' <=> Copy(x, t, S)
<1>1. PICK f : f = frames[k]  OBVIOUS
<1>2. PICK d : d = Locked(k)  OBVIOUS
<1>3. Locks(k) /\ ~f.err /\ f.kind # "evict" /\ f.ev \in {"miss", "unlock"}
  BY <1>1 DEF Settles, Fills, AccessKind
<1>4. d \in Entry /\ Private(k, d) /\ Plain
  BY <1>1, <1>2, <1>3, LockedOwn DEF Entries
<1>5. Elsewhere(k, x, t, S)' <=> Elsewhere(k, x, t, S)
  <2>1. ~GivesExclusive(k) /\ ~ \E q : GivesBlock(k, q)
    BY <1>1, <1>3 DEF GivesExclusive, GivesBlock
  <2> QED  BY <2>1, ElsewhereKept
<1>6. Outbound(k, x)' <=> Outbound(k, x)  BY OutboundKept
<1>7. ~OwnGone(k, x) /\ ~OwnGone(k, x)'
  BY <1>1, <1>3, GoneOwn DEF Accepts
<1>8. CASE x # d
  <2>1. blk'[x] = blk[x]
    BY <1>1, <1>2, <1>4, <1>8, WritesAt DEF Settles, Fills
  <2>2. ~OwnGrants(k, x, t, S)  BY <1>2, <1>8 DEF OwnGrants, Grants
  <2>3. ~OwnGrants(k, x, t, S)'
    BY <1>2, <1>8 DEF OwnGrants, Grants, Settles, Fills, Ended, Goes, Placed, Like, Locked
  <2> QED  BY <1>5, <1>6, <1>7, <2>1, <2>2, <2>3, CopyKept
<1>9. CASE x = d
  <2>1. ~Elsewhere(k, x, t, S) /\ ~Outbound(k, x)
    BY <1>1, <1>3, <1>4, <1>9, MineOnly
  <2>2. Granted(k)
    BY <1>1, <1>3 DEF Granted, Answered, Idle
  <2>3. ~OwnGrants(k, x, t, S)'
    <3>1. k \in InFlight' => frames'[k].ev = "finish" /\ frames'[k].kind = "readUD"
      BY DEF Settles, Fills, Ended, Goes, Like
    <3> QED  BY <3>1 DEF OwnGrants, Grants, Granted
  <2>4. blk[d].state # "I" => blk[d].tag = f.tag
    BY <1>1, <1>2, <1>3 DEF Entries, Current
  <2>5. f.ev = "miss" => blk[d].state = "I"
    BY <1>1, <1>2, <1>3 DEF Entries, Current
  <2>6. "I" \notin S  BY Rights
  <2>8. "E" \in S /\ "M" \in S  BY DEF Valid, Owned, Exclusive, State
  <2>9. PICK s : /\ blk'[d] = [tag |-> f.tag, state |-> s]
                 /\ s \in S <=> GrantedState(k) \in S
                 /\ f.ev = "miss" => s = GrantedState(k)
    <3>1. CASE f.ev = "miss" /\ Writes(d, f.tag, IF f.shared THEN "S" ELSE "E") /\ f.kind # "store"
      <4>1. f.kind # "writeUD"
        BY <1>1, <3>1 DEF Settles, Fills, AccessKind
      <4> QED  BY <1>1, <1>4, <3>1, <4>1, WritesAt DEF GrantedState
    <3>2. CASE f.kind = "store" /\ Writes(d, f.tag, "M") /\ f.ev = "unlock"
      BY <1>1, <1>4, <2>8, <3>2, WritesAt DEF GrantedState
    <3> QED  BY <1>1, <1>2, <3>1, <3>2 DEF Settles, Fills, AccessKind
  <2>10. Copy(x, t, S)' <=> f.tag = t /\ s \in S
    BY <1>6, <1>5, <1>7, <1>9, <2>1, <2>3, <2>9, CopyPartsNext
  <2>11. OwnGrants(k, x, t, S) <=> f.tag = t /\ GrantedState(k) \in S
    BY <1>1, <1>2, <1>9, <2>2 DEF OwnGrants, Grants
  <2>12. blk[x].state \in S /\ blk[x].tag = t => f.tag = t /\ GrantedState(k) \in S
    <3>1. SUFFICES ASSUME blk[x].state \in S, blk[x].tag = t
                   PROVE  f.tag = t /\ GrantedState(k) \in S
      OBVIOUS
    <3>2. f.ev # "miss" /\ f.tag = t  BY <1>9, <2>4, <2>5, <2>6, <3>1
    <3>3. f.kind = "store"  BY <1>1, <3>2 DEF Settles, Fills
    <3> QED  BY <1>1, <2>8, <3>2, <3>3 DEF GrantedState
  <2> QED  BY <1>7, <2>1, <2>9, <2>10, <2>11, <2>12, CopyParts
<1> QED  BY <1>8, <1>9

\* Frame k has the block for itself already.
HasExclusive(k) ==
  /\ frames[k].kind \in {"store", "writeUD"} /\ frames[k].ev \in {"action", "exclusive"}
  /\ Locks(k) /\ frames[k].state \in {"M", "E"}
  /\ Alone(k, k) /\ NoEntry
  /\ \E v : Goes(k, v) /\ v # "reply"

\* A block that is modified or exclusive already stays so.
LEMMA HasExclusiveCopy ==
  ASSUME IInv, Entries, NEW k \in InFlight, Idle(k), Does(k), NEW p, Shape(k, p),
         HasExclusive(k),
         NEW x \in Entry, NEW t \in Tag, NEW S \in {Valid, Owned, Exclusive}
  PROVE  Copy(x, t, S)' <=> Copy(x, t, S)
<1>1. PICK f : f = frames[k]  OBVIOUS
<1>2. PICK d : d = Locked(k)  OBVIOUS
<1>3. Locks(k) /\ f.kind \notin {"evict", "readUD"} /\ f.ev \in {"action", "exclusive"}
      /\ f.state \in {"M", "E"}
  BY <1>1 DEF HasExclusive
<1>4. d \in Entry /\ Private(k, d) /\ Plain
  BY <1>1, <1>2, <1>3, LockedOwn DEF Entries
<1>5. Elsewhere(k, x, t, S)' <=> Elsewhere(k, x, t, S)
  <2>1. ~GivesExclusive(k) /\ ~ \E q : GivesBlock(k, q)
    BY <1>1, <1>3 DEF GivesExclusive, GivesBlock
  <2> QED  BY <2>1, ElsewhereKept
<1>6. Outbound(k, x)' <=> Outbound(k, x)  BY OutboundKept
<1>7. ~OwnGone(k, x) /\ ~OwnGone(k, x)'
  BY <1>1, <1>3, GoneOwn DEF Accepts
<1>8. ~OwnGrants(k, x, t, S)
  BY <1>1, <1>3 DEF OwnGrants, Grants, Granted
<1>9. blk'[x] = blk[x]  BY DEF HasExclusive, NoEntry
<1>10. OwnGrants(k, x, t, S)' => x = d /\ f.tag = t
  BY <1>1, <1>2 DEF OwnGrants, Grants, HasExclusive, Goes, Like, Placed, Locked
<1>11. ASSUME x = d, f.tag = t  PROVE Copy(x, t, S)
  <2>1. ~Outbound(k, x)  BY <1>1, <1>3, <1>4, <1>11, MineOnly
  <2>2. blk[x].tag = t /\ blk[x].state \in {"M", "E"}
    BY <1>1, <1>2, <1>3, <1>11 DEF Entries, Current
  <2>3. "M" \in S /\ "E" \in S  BY DEF Valid, Owned, Exclusive, State
  <2> QED  BY <1>7, <2>1, <2>2, <2>3, CopyParts
<1> QED  BY <1>5, <1>6, <1>7, <1>8, <1>9, <1>10, <1>11, CopyParts, CopyPartsNext

\* The entry is free: its block was gone before.
LEMMA EvictionEndsCopy ==
  ASSUME IInv, Entries, NEW k \in InFlight, Idle(k), Does(k), NEW p, Shape(k, p),
         NEW q, EvictionEnds(k, q),
         NEW x \in Entry, Low[x[1]] # None, NEW t \in Tag, NEW S, "I" \notin S
  PROVE  Copy(x, t, S)' <=> Copy(x, t, S)
<1>1. PICK d : d = Source(k)  OBVIOUS
<1>2. frames[k].kind = "evict" /\ k \notin InFlight' /\ frames[k].ev \in {"invalid", "reply"}
  BY DEF EvictionEnds, Returns
<1>3. Elsewhere(k, x, t, S)' <=> Elsewhere(k, x, t, S)
  <2>1. ~GivesExclusive(k) /\ ~ \E j : GivesBlock(k, j)
    BY <1>2 DEF GivesExclusive, GivesBlock
  <2> QED  BY <2>1, ElsewhereKept
<1>4. Outbound(k, x)' <=> Outbound(k, x)  BY OutboundKept
<1>5. ~OwnGone(k, x)' /\ ~OwnGrants(k, x, t, S)' /\ ~OwnGrants(k, x, t, S)
  BY <1>2 DEF OwnGone, OwnGrants, Grants, Granted
<1>6. CASE x # d
  <2>1. blk'[x] = blk[x]  BY <1>1, <1>6 DEF EvictionEnds
  <2>2. ~OwnGone(k, x)  BY <1>1, <1>6 DEF OwnGone, Gone
  <2> QED  BY <1>3, <1>4, <1>5, <2>1, <2>2, CopyParts, CopyPartsNext
<1>7. CASE x = d
  <2>1. blk'[x].state = "I"  BY <1>1, <1>7 DEF EvictionEnds, MainMemory
  <2>2. blk[x].state = "I" \/ OwnGone(k, x)
    BY <1>1, <1>2, <1>7 DEF EvictionEnds, MainMemory, OwnGone, Gone
  <2> QED  BY <1>3, <1>4, <1>5, <2>1, <2>2, CopyParts, CopyPartsNext
<1> QED  BY <1>6, <1>7

\* The block leaves entry Source(k), and no other.
LEMMA AcceptsCopy ==
  ASSUME IInv, Entries, NEW k \in InFlight, Idle(k), Does(k), NEW p, Shape(k, p), Accepts(k),
         NEW x \in Entry, NEW t \in Tag, NEW S \in {Valid, Owned, Exclusive}
  PROVE  IF x = Source(k) /\ t = frames[k].tag THEN ~Copy(x, t, S)'
         ELSE Copy(x, t, S)' <=> Copy(x, t, S)
<1>1. PICK f : f = frames[k]  OBVIOUS
<1>2. PICK d : d = Locked(k)  OBVIOUS
<1>3. PICK s : s = Source(k)  OBVIOUS
<1>4. f.kind = "evict" /\ f.ev = "action" /\ ~f.err /\ Locks(k) /\ k \in InFlight'
      /\ frames'[k].ev = "reply" /\ frames'[k].kind = "evict" /\ ~frames'[k].err
      /\ Source(k)' = s
  BY <1>1, <1>3 DEF Accepts, Goes, Like, Results, Locks, Alone, Source
<1>5. d \in Entry /\ Private(k, d) /\ Plain
  BY <1>2, <1>4, LockedOwn DEF Entries
<1>6. s \in Entry /\ d # s  BY <1>2, <1>3, AcceptsStill
<1>7. Elsewhere(k, x, t, S)' <=> Elsewhere(k, x, t, S)
  <2>1. ~GivesExclusive(k) /\ ~ \E j : GivesBlock(k, j)
    BY <1>1, <1>4 DEF GivesExclusive, GivesBlock
  <2> QED  BY <2>1, ElsewhereKept
<1>8. Outbound(k, x)' <=> Outbound(k, x)  BY OutboundKept
<1>9. ~OwnGrants(k, x, t, S)' /\ ~OwnGrants(k, x, t, S) /\ ~OwnGone(k, x)
      /\ (OwnGone(k, x)' <=> x = s)
  BY <1>1, <1>4 DEF OwnGone, OwnGrants, Grants, Granted, Gone
<1>10. CASE x = s
  <2>1. blk[x].tag = f.tag
    BY <1>1, <1>3, <1>4, <1>10 DEF Entries, Current
  <2>2. ASSUME t = f.tag  PROVE ~Elsewhere(k, x, t, S)
    <3>1. PICK h : h = f.ret  OBVIOUS
    <3>2. h \in InFlight /\ frames[h].ev = "evicting" /\ Holds(h, s)
      BY <1>1, <1>3, <1>4, <1>5, <3>1, EvictionCaller
    <3>3. SUFFICES ASSUME NEW j \in InFlight, Grants(j, x, t, S)  PROVE FALSE
      BY DEF Elsewhere
    <3>4. Holds(j, x)  BY <3>3, GrantsHolds
    <3>5. j = h  BY <1>10, <3>2, <3>4 DEF IInv, HeldOnce
    <3> QED  BY <3>2, <3>3, <3>5 DEF Grants, Granted
  <2>3. blk'[x] = blk[x]  BY <1>3, <1>10, AcceptsStill
  <2> QED  BY <1>1, <1>3, <1>7, <1>8, <1>9, <1>10, <2>1, <2>2, <2>3, CopyParts, CopyPartsNext
<1>11. CASE x # s /\ x # d
  <2>1. blk'[x] = blk[x]
    BY <1>1, <1>2, <1>5, <1>11, WritesAt DEF Accepts
  <2> QED  BY <1>3, <1>7, <1>8, <1>9, <1>11, <2>1, CopyParts, CopyPartsNext
<1>12. CASE x = d
  <2>1. blk[d].state = f.state /\ (f.state # "I" => blk[d].tag = f.tag)
    BY <1>1, <1>2, <1>4 DEF Entries, Current
  <2>2. \/ blk'[d] = blk[d]
        \/ blk'[d] = [tag |-> f.tag, state |-> StateAfterData(f)]
    BY <1>1, <1>2, <1>5, WritesAt DEF Accepts
  <2>3. ~f.nc  BY <1>1 DEF Entries, Plain, PlainFrame
  <2>4. StateAfterData(f) \in S <=> f.state \in S
    BY <2>3 DEF StateAfterData, Valid, Owned, Exclusive, State
  <2>5. "I" \notin S  BY Rights
  <2>6. blk'[d].tag = t /\ blk'[d].state \in S <=> blk[d].tag = t /\ blk[d].state \in S
    BY <2>1, <2>2, <2>4, <2>5
  <2> QED  BY <1>3, <1>6, <1>7, <1>8, <1>9, <1>12, <2>6, CopyParts, CopyPartsNext
<1> QED  BY <1>3, <1>10, <1>11, <1>12

\* Frame k, a request up-down that succeeds, and its caller q, which gets the block in
\* entry y.
Gives(k) == GivesExclusive(k) \/ \E q : GivesBlock(k, q)

\* Who gets the block that request k gives, and where
LEMMA GivesTo ==
  ASSUME IInv, Entries, NEW k \in InFlight, Idle(k), Does(k), NEW p, Shape(k, p), Gives(k),
         NEW q, q = frames[k].ret, NEW y, y = Locked(q)
  PROVE  /\ frames[k].kind \in {"readUD", "writeUD"} /\ frames[k].ev = "finish"
         /\ Locks(k) /\ k \in InFlight' /\ frames'[k].ev = "reply"
         /\ q \in InFlight /\ q # k /\ ~Granted(q) /\ q \in InFlight' /\ Granted(q)'
         /\ y \in Entry /\ Holds(q, y) /\ y[1] = frames[k].from /\ Matches(y, frames[k].tag)
         /\ Locked(q)' = y /\ frames[q].tag = frames[k].tag /\ frames'[q].tag = frames[k].tag
         /\ \A j : GivesBlock(k, j) => j = q /\ frames[k].kind = "readUD"
         /\ frames[k].kind = "writeUD" => frames'[q].kind \in {"store", "writeUD"}
         /\ frames[k].kind = "readUD" =>
              frames'[q].kind \notin {"store", "writeUD"} /\ frames[q].ev = "miss"
<1>1. PICK f : f = frames[k]  OBVIOUS
<1>2. f.kind \in {"readUD", "writeUD"} /\ f.ev = "finish" /\ Locks(k) /\ f.kind \notin AccessKind
  BY <1>1 DEF Gives, GivesExclusive, GivesBlock, AccessKind
<1>3. q \in InFlight /\ q # k /\ k \in Children(q)
  BY <1>1, <1>2, CallerWaits DEF Children
<1>4. /\ f.kind = "readUD" => frames[q].ev = "miss" /\ frames[q].kind \in {"load", "prefetch", "readUD"}
      /\ f.kind = "writeUD" =>
           frames[q].ev \in {"unlock", "finish"} /\ frames[q].kind \in {"store", "writeUD"}
      /\ f.tag = frames[q].tag /\ f.from = frames[q].at /\ ~frames[q].err
  <2>1. frames[q].ev # "ncMiss"  BY <1>3 DEF Entries, Plain, PlainFrame
  <2> QED  BY <1>1, <1>2, <2>1, FrameFacts DEF CallOK, Entries, CalledFor
<1>5. Locks(q)  BY <1>2, <1>4 DEF Locks
<1>6. y \in Entry /\ Holds(q, y) /\ y[1] = f.from
  BY <1>3, <1>4, <1>5, FrameFacts DEF FrameOK, Holds, Locked
<1>7. lock[y] = f.tag  BY <1>3, <1>4, <1>6 DEF Entries, Tagged
<1>8. ~Granted(q)  BY <1>1, <1>2, <1>3 DEF Granted, Answered
<1>9. /\ InFlight' = InFlight /\ Others(k, q) /\ k \in InFlight' /\ frames'[k].ev = "reply"
      /\ Like(frames[k], frames'[k])
      /\ q \in InFlight' /\ Like(frames[q], frames'[q]) /\ Placed(frames[q], frames'[q])
      /\ frames'[q].ev = frames[q].ev /\ ~frames'[q].err
  <2>1. CASE GivesExclusive(k)
    <3>1. Alone(k, k) /\ Goes(k, "reply")  BY <2>1 DEF GivesExclusive
    <3>2. Same(q)  BY <1>3, <3>1 DEF Alone, Others
    <3>3. frames[q].ev # "lockWait"  BY <1>2, <1>4
    <3> QED  BY <1>4, <3>1, <3>2, <3>3 DEF Alone, Others, Goes, Same, Results
  <2>2. CASE \E j : GivesBlock(k, j)
    BY <1>4, <2>2 DEF GivesBlock, Told, Alone, Goes
  <2> QED  BY <2>1, <2>2 DEF Gives
<1>10. Answered(q)'
  <2>1. SUFFICES ASSUME NEW c \in Children(q)'  PROVE frames'[c].ev = "reply"
    BY DEF Answered
  <2>2. c \in InFlight' /\ c \in InFlight /\ frames'[c].kind \notin AccessKind /\ frames'[c].ret = q
    BY <1>9, <2>1 DEF Children
  <2>3. frames[c].kind = frames'[c].kind /\ frames[c].ret = q
    BY <1>9, <2>2 DEF Others, Same, Like
  <2>4. frames[c].kind \in {"readUD", "readDU", "writeUD", "writeDU", "evict", "invalidate"}
    BY <2>2, <2>3, KindsPlain DEF Entries
  <2>5. k = c
    <3>1. \A j \in InFlight : CalledFor(j)  BY DEF Entries
    <3> QED  BY <1>1, <1>2, <2>2, <2>3, <2>4, <3>1, OneRequestUp
  <2> QED  BY <1>9, <2>5
<1>11. Granted(q)'
  BY <1>2, <1>4, <1>9, <1>10 DEF Granted, Like
<1>12. \A j : GivesBlock(k, j) => j = q /\ f.kind = "readUD"
  BY <1>1 DEF GivesBlock
<1>13. Locked(q)' = y /\ frames'[q].tag = f.tag /\ frames'[q].kind = frames[q].kind
  BY <1>4, <1>9 DEF Like, Placed, Locked
<1> QED
  BY ONLY <1>1, <1>2, <1>3, <1>4, <1>6, <1>7, <1>8, <1>9, <1>11, <1>12, <1>13 DEF Matches

\* The copies when request k gives a block
LEMMA GivesCopy ==
  ASSUME IInv, Entries, NEW k \in InFlight, Idle(k), Does(k), NEW p, Shape(k, p), Gives(k),
         NEW q, q = frames[k].ret, NEW y, y = Locked(q),
         NEW x \in Entry, NEW t \in Tag, NEW S \in {Valid, Owned, Exclusive}
  PROVE  Copy(x, t, S)' <=>
           \/ Copy(x, t, S)
           \/ x = y /\ t = frames[k].tag /\ (IF frames[k].kind = "readUD" /\ frames'[q].shared THEN "S" ELSE "E") \in S
<1>1. PICK f : f = frames[k]  OBVIOUS
<1>2. PICK d : d = Locked(k)  OBVIOUS
<1>3. PICK s : s = IF f.kind = "readUD" /\ frames'[q].shared THEN "S" ELSE "E"  OBVIOUS
<1>4. /\ f.kind \in {"readUD", "writeUD"} /\ f.ev = "finish"
      /\ Locks(k) /\ k \in InFlight' /\ frames'[k].ev = "reply"
      /\ q \in InFlight /\ q # k /\ ~Granted(q) /\ q \in InFlight' /\ Granted(q)'
      /\ y \in Entry /\ Holds(q, y)
      /\ Locked(q)' = y /\ frames'[q].tag = f.tag
      /\ \A j : GivesBlock(k, j) => j = q /\ f.kind = "readUD"
      /\ f.kind = "writeUD" => frames'[q].kind \in {"store", "writeUD"}
      /\ f.kind = "readUD" => frames'[q].kind \notin {"store", "writeUD"}
  BY <1>1, GivesTo
<1>5. Grants(q, x, t, S)' <=> x = y /\ t = f.tag /\ s \in S
  BY <1>3, <1>4 DEF Grants, GrantedState
<1>6. Elsewhere(k, x, t, S)' <=> Elsewhere(k, x, t, S) \/ Grants(q, x, t, S)'
  BY ONLY IInv, Entries, k \in InFlight, Idle(k), Does(k), Shape(k, p), q = frames[k].ret,
     <1>1, <1>4, ElsewhereBut
<1>7. Outbound(k, x)' <=> Outbound(k, x)  BY OutboundKept
<1>8. ~OwnGone(k, x) /\ ~OwnGone(k, x)' /\ ~OwnGrants(k, x, t, S)'
  <2>1. frames[k].kind # "evict" /\ k \in InFlight' /\ frames'[k].kind # "evict"
    BY <1>1, <1>4 DEF Shape, Like
  <2> QED  BY <1>4, <2>1 DEF OwnGone, Gone, OwnGrants, Grants, Granted
<1>9. d \in Entry /\ Private(k, d) /\ Plain /\ Holds(k, d)
  BY <1>1, <1>2, <1>4, LockedOwn DEF Entries
<1>10. CASE x # d
  <2>1. blk'[x] = blk[x]
    BY <1>2, <1>9, <1>10, WritesAt DEF Gives, GivesExclusive, GivesBlock
  <2>2. ~OwnGrants(k, x, t, S)  BY <1>2, <1>10 DEF OwnGrants, Grants
  <2> QED
    BY ONLY <1>1, <1>3, <1>5, <1>6, <1>7, <1>8, <2>1, <2>2, CopyParts, CopyPartsNext
<1>11. CASE x = d
  <2>1. x # y  BY <1>4, <1>9, <1>11 DEF IInv, HeldOnce
  <2>2. ~Elsewhere(k, x, t, S) /\ ~Outbound(k, x)  BY <1>4, <1>9, <1>11, MineOnly
  <2>3. CASE f.kind = "readUD"
    <3>1. blk' = blk  BY <1>1, <2>3 DEF Gives, GivesExclusive, GivesBlock
    <3>2. ~OwnGrants(k, x, t, S)
      BY <1>1, <1>4, <2>3 DEF OwnGrants, Grants, Granted
    <3> QED
      BY ONLY <1>5, <1>6, <1>7, <1>8, <2>1, <3>1, <3>2, <1>1, <1>3, CopyParts, CopyPartsNext
  <2>4. CASE f.kind = "writeUD"
    <3>1. ~f.err /\ Writes(d, f.tag, "E")
      BY <1>1, <1>2, <1>4, <2>4 DEF Gives, GivesExclusive
    <3>2. blk'[d].tag = f.tag /\ blk'[d].state = "E"  BY <1>9, <3>1, WritesAt
    <3>3. "E" \in S  BY DEF Valid, Owned, Exclusive, State
    <3>4. OwnGrants(k, x, t, S) <=> t = f.tag
      <4>1. Granted(k)  BY <1>1, <1>4, <2>4, <3>1 DEF Granted, Answered, Idle
      <4>2. GrantedState(k) = "E"  BY <1>1, <2>4 DEF GrantedState
      <4> QED  BY <1>1, <1>2, <1>11, <3>3, <4>1, <4>2 DEF OwnGrants, Grants
    <3>5. blk[d].tag = t /\ blk[d].state \in S => t = f.tag
      <4>1. blk[d].state = f.state /\ (f.state # "I" => blk[d].tag = f.tag)
        BY <1>1, <1>2, <1>4, <2>4 DEF Entries, Current
      <4>2. "I" \notin S  BY Rights
      <4> QED  BY <4>1, <4>2
    <3> QED
      BY <1>1, <1>3, <1>5, <1>6, <1>7, <1>8, <1>11, <2>1, <2>2, <3>2, <3>3, <3>4, <3>5,
         CopyParts, CopyPartsNext
  <2> QED  BY <1>4, <2>3, <2>4
<1> QED  BY <1>10, <1>11

\* The block of the entry that request down-up k has locked changes, and no other.
LEMMA DataCopy ==
  ASSUME IInv, Entries, NEW k \in InFlight, Idle(k), Does(k), NEW p, Shape(k, p),
         NEW q, GivesData(k, q) \/ Yields(k, q),
         NEW x \in Entry, NEW t \in Tag, NEW S \in {Valid, Owned, Exclusive}
  PROVE  IF x = Locked(k) /\ t = frames[k].tag
         THEN Copy(x, t, S)' <=> GivesData(k, q) /\ StateAfterRead(frames[k]) \in S
         ELSE Copy(x, t, S)' <=> Copy(x, t, S)
<1>1. PICK f : f = frames[k]  OBVIOUS
<1>2. PICK d : d = Locked(k)  OBVIOUS
<1>3. /\ f.kind \in {"readDU", "writeDU"} /\ f.ev \in {"finish", "exclusive"} /\ Locks(k)
      /\ k \in InFlight' /\ frames'[k].ev = "reply" /\ frames'[k].kind # "evict"
  BY <1>1 DEF GivesData, Yields, Told, Alone, Goes, Like
<1>4. d \in Entry /\ Private(k, d) /\ Plain
  BY <1>1, <1>2, <1>3, LockedOwn DEF Entries
<1>5. Elsewhere(k, x, t, S)' <=> Elsewhere(k, x, t, S)
  <2>1. ~GivesExclusive(k) /\ ~ \E j : GivesBlock(k, j)
    BY <1>1, <1>3 DEF GivesExclusive, GivesBlock
  <2> QED  BY <2>1, ElsewhereKept
<1>6. Outbound(k, x)' <=> Outbound(k, x)  BY OutboundKept
<1>7. /\ ~OwnGone(k, x) /\ ~OwnGone(k, x)'
      /\ ~OwnGrants(k, x, t, S) /\ ~OwnGrants(k, x, t, S)'
  BY <1>1, <1>3 DEF OwnGone, Gone, OwnGrants, Grants, Granted
<1>8. \/ GivesData(k, q) /\ blk'[d] = [tag |-> f.tag, state |-> StateAfterRead(f)]
      \/ ~GivesData(k, q) /\ blk'[d].state = "I"
  <2>1. CASE GivesData(k, q)
    <3>1. Writes(d, f.tag, StateAfterRead(f))  BY <1>1, <1>2, <2>1 DEF GivesData
    <3>2. d \in Entry  BY <1>4
    <3>3. blk'[d] = [tag |-> f.tag, state |-> StateAfterRead(f)]
      BY ONLY IInv, <3>1, <3>2, WritesAt
    <3> QED  BY <2>1, <3>3
  <2>2. CASE ~GivesData(k, q)
    <3>1. Writes(d, None, "I")  BY <1>2, <2>2 DEF Yields
    <3>2. d \in Entry  BY <1>4
    <3>3. blk'[d].state = "I"  BY ONLY IInv, <3>1, <3>2, WritesAt
    <3> QED  BY <2>2, <3>3
  <2> QED  BY <2>1, <2>2
<1>9. CASE x # d
  <2>1. blk'[x] = blk[x]  BY <1>2, <1>4, <1>9, WritesAt DEF GivesData, Yields
  <2> QED  BY <1>2, <1>5, <1>6, <1>7, <1>9, <2>1, CopyParts, CopyPartsNext
<1>10. CASE x = d
  <2>1. ~Elsewhere(k, x, t, S) /\ ~Outbound(k, x)  BY <1>3, <1>4, <1>10, MineOnly
  <2>2. blk[d].state = f.state /\ (f.state # "I" => blk[d].tag = f.tag)
    BY <1>1, <1>2, <1>3 DEF Entries, Current
  <2>3. "I" \notin S  BY Rights
  <2> QED
    BY <1>1, <1>2, <1>5, <1>6, <1>7, <1>8, <1>10, <2>1, <2>2, <2>3, CopyParts, CopyPartsNext
<1> QED  BY <1>9, <1>10

\* Where a step changes the copies of a block.
Transfers(k, x, t) ==
  /\ t = frames[k].tag
  /\ \/ Accepts(k) /\ x = Source(k)
     \/ Gives(k) /\ x = Locked(frames[k].ret)
     \/ (\E q : GivesData(k, q) \/ Yields(k, q)) /\ x = Locked(k)

\* The copies that a step does not transfer stay.
LEMMA CopyStays ==
  ASSUME IInv, Entries, DownUpSucceeds, NEW k \in InFlight, Idle(k), Does(k), NEW p, Shape(k, p),
         NEW x \in Entry, Low[x[1]] # None, NEW t \in Tag, NEW S \in {Valid, Owned, Exclusive},
         ~Transfers(k, x, t)
  PROVE  Copy(x, t, S)' <=> Copy(x, t, S)
<1>1. CASE Quiet(k)  BY <1>1, QuietCopy
<1>2. CASE Settles(k) \/ Fills(k)  BY <1>2, KeepsGrant
<1>3. CASE HasExclusive(k)  BY <1>3, HasExclusiveCopy
<1>4. CASE \E q : EvictionEnds(k, q)
  <2>1. "I" \notin S  BY Rights
  <2> QED  BY <1>4, <2>1, EvictionEndsCopy
<1>5. CASE Accepts(k)  BY <1>5, AcceptsCopy DEF Transfers
<1>6. CASE Gives(k)
  <2>1. ~(x = Locked(frames[k].ret) /\ t = frames[k].tag)
    BY <1>6 DEF Transfers
  <2> QED  BY <1>6, <2>1, GivesCopy
<1>7. CASE \E q : GivesData(k, q) \/ Yields(k, q)
  <2>1. ~(x = Locked(k) /\ t = frames[k].tag)
    BY <1>7 DEF Transfers
  <2> QED  BY <1>7, <2>1, DataCopy
<1>8. \/ Quiet(k) \/ Settles(k) \/ Fills(k) \/ HasExclusive(k)
      \/ (\E q : EvictionEnds(k, q)) \/ Accepts(k) \/ Gives(k)
      \/ \E q : GivesData(k, q) \/ Yields(k, q)
  <2>1. AsksExclusive(k) => Quiet(k) \/ HasExclusive(k)
    <3>1. CASE CallsUp(k, "finish", WriteUp(k)) /\ frames[k].kind = "writeUD"
               /\ frames[k].ev = "exclusive"
      BY <3>1 DEF Quiet
    <3>2. CASE /\ frames[k].kind = "writeUD" /\ Locks(k) /\ frames[k].ev = "exclusive"
               /\ frames[k].state \in {"M", "E"} /\ Alone(k, k) /\ Goes(k, "finish") /\ NoEntry
      BY <3>2 DEF HasExclusive
    <3> QED  BY <3>1, <3>2 DEF AsksExclusive
  <2>2. ASSUME frames[k].kind \in {"load", "prefetch", "readUD"}, frames[k].ev = "action",
               CallsUp(k, "miss", ReadUp(k))
        PROVE  Quiet(k)
    BY <2>2 DEF Quiet
  <2>3. ASSUME frames[k].kind = "store", frames[k].ev = "action", Locks(k),
               \/ frames[k].state \in {"M", "E"} /\ ~frames[k].err
                  /\ Alone(k, k) /\ Goes(k, "unlock") /\ NoEntry
               \/ CallsUp(k, "unlock", WriteUp(k))
        PROVE  Quiet(k) \/ HasExclusive(k)
    <3>1. CASE CallsUp(k, "unlock", WriteUp(k))  BY <2>3, <3>1 DEF Quiet
    <3>2. CASE ~CallsUp(k, "unlock", WriteUp(k))
      BY <2>3, <3>2 DEF HasExclusive
    <3> QED  BY <3>1, <3>2
  <2>4. CASE \/ Looks(k) /\ frames[k].ev = "lock" /\ NoEntry
             \/ \E e \in Entry : Gets(k, e) \/ Replaces(k, e)
             \/ GivesUp(k) \/ InvalidationEnds(k) \/ SendsDown(k) \/ Refuses(k)
             \/ \E q : EvictionFails(k, q)
             \/ Received(k) \/ Passes(k) \/ AsksOwner(k) \/ Takes(k)
    BY <2>4 DEF Quiet
  <2>5. CASE \/ Settles(k) \/ Accepts(k) \/ Fills(k) \/ GivesExclusive(k)
             \/ \E q : EvictionEnds(k, q) \/ GivesBlock(k, q) \/ GivesData(k, q) \/ Yields(k, q)
    BY <2>5 DEF Gives
  <2>6. CASE AsksExclusive(k)  BY <2>1, <2>6
  <2>7. CASE /\ frames[k].kind \in {"load", "prefetch", "readUD"} /\ frames[k].ev = "action"
             /\ CallsUp(k, "miss", ReadUp(k))
    BY <2>2, <2>7
  <2>8. CASE /\ frames[k].kind = "store" /\ frames[k].ev = "action" /\ Locks(k)
             /\ \/ frames[k].state \in {"M", "E"} /\ ~frames[k].err
                   /\ Alone(k, k) /\ Goes(k, "unlock") /\ NoEntry
                \/ CallsUp(k, "unlock", WriteUp(k))
    BY <2>3, <2>8
  <2> QED  BY <2>4, <2>5, <2>6, <2>7, <2>8 DEF Does
<1> QED  BY <1>1, <1>2, <1>3, <1>4, <1>5, <1>6, <1>7, <1>8

-----------------------------------------------------------------------------
(***************************************************************************)
(* What a module has, after a step.                                        *)
(***************************************************************************)
\* Frame k, whose step is shaped by p, acts where everything is in order.
Step(k, p) ==
  /\ IInv /\ Entries /\ Levels
  /\ k \in InFlight /\ Idle(k) /\ Does(k) /\ Shape(k, p)

\* A step changes what module m has of block t.
Moved(k, m, t) ==
  /\ t = frames[k].tag
  /\ \/ (Accepts(k) \/ Gives(k)) /\ m = frames[k].from
     \/ (\E q : GivesData(k, q) \/ Yields(k, q)) /\ m = frames[k].at

\* What is known in a step
LEMMA StepFacts ==
  ASSUME NEW k, NEW p, Step(k, p)
  PROVE  /\ IInv /\ Entries /\ Levels /\ DownUpSucceeds /\ Plain
         /\ k \in InFlight /\ Idle(k) /\ Does(k) /\ Shape(k, p)
         /\ frames[k] \in Frame(frames[k].ret)
         /\ FrameOK(k) /\ CallOK(k) /\ ReliesOn(k) /\ CalledFor(k) /\ Tagged(k) /\ Current(k)
         /\ DownUp(k) /\ Answer(k)
BY FrameFacts, LevelsDownUp DEF Step, Entries, Levels

\* A module keeps what a step does not move.
LEMMA HasCopyStays ==
  ASSUME NEW k, NEW p, Step(k, p), NEW m, Low[m] # None,
         NEW t \in Tag, NEW S \in {Valid, Owned, Exclusive}, ~Moved(k, m, t)
  PROVE  HasCopy(m, t, S)' <=> HasCopy(m, t, S)
<1>1. ASSUME NEW x \in Entry, x[1] = m  PROVE Copy(x, t, S)' <=> Copy(x, t, S)
  <2>1. ~Transfers(k, x, t)
    <3>1. SUFFICES ASSUME Transfers(k, x, t)  PROVE FALSE  OBVIOUS
    <3>2. CASE Accepts(k) /\ x = Source(k)
      <4>1. m = frames[k].from  BY <1>1, <3>2 DEF Source
      <4> QED  BY <3>1, <3>2, <4>1 DEF Moved, Transfers
    <3>3. CASE Gives(k) /\ x = Locked(frames[k].ret)
      <4>1. m = frames[k].from
        BY ONLY Step(k, p), <1>1, <3>3, GivesTo, StepFacts
      <4> QED  BY <3>1, <3>3, <4>1 DEF Moved, Transfers
    <3>4. CASE (\E q : GivesData(k, q) \/ Yields(k, q)) /\ x = Locked(k)
      <4>1. m = frames[k].at  BY <1>1, <3>4 DEF Locked
      <4> QED  BY <3>1, <3>4, <4>1 DEF Moved, Transfers
    <3> QED  BY <3>1, <3>2, <3>3, <3>4 DEF Transfers
  <2> QED  BY <1>1, <2>1, StepFacts, CopyStays
<1> QED  BY <1>1 DEF HasCopy

\* The block has left module from.
LEMMA AcceptsHas ==
  ASSUME NEW k, NEW p, Step(k, p), Accepts(k), NEW S \in {Valid, Owned, Exclusive},
         NEW m, m = frames[k].from, NEW t, t = frames[k].tag
  PROVE  ~HasCopy(m, t, S)'
<1>1. PICK f : f = frames[k]  OBVIOUS
<1>2. PICK s : s = Source(k)  OBVIOUS
<1>3. f.kind = "evict" /\ f.tag \in Tag /\ s \in Entry /\ s[1] = f.from
  BY <1>1, <1>2, StepFacts DEF Accepts, FrameOK, Frame, Source
<1>4. Matches(s, f.tag)
  BY <1>1, <1>2, <1>3, StepFacts DEF Current, Matches
<1>5. SUFFICES ASSUME NEW x \in Entry, x[1] = m, Copy(x, t, S)'  PROVE FALSE
  BY DEF HasCopy
<1>6. Copy(x, t, S) /\ x # s
  BY <1>1, <1>2, <1>3, <1>5, StepFacts, AcceptsCopy
<1>7. "I" \notin S  BY Rights
<1>8. Matches(x, t)  BY <1>6, <1>7, StepFacts, CopyMatches
<1> QED  BY <1>1, <1>3, <1>4, <1>5, <1>6, <1>8, StepFacts, SameEntry

\* The caller of request k has the block.
LEMMA GivesHas ==
  ASSUME NEW k, NEW p, Step(k, p), Gives(k), NEW S \in {Valid, Owned, Exclusive},
         NEW m, m = frames[k].from, NEW t, t = frames[k].tag
  PROVE  HasCopy(m, t, S)' <=>
           \/ HasCopy(m, t, S)
           \/ (IF frames[k].kind = "readUD" /\ frames'[frames[k].ret].shared
               THEN "S" ELSE "E") \in S
<1>1. PICK f : f = frames[k]  OBVIOUS
<1>2. PICK q : q = f.ret  OBVIOUS
<1>3. PICK y : y = Locked(q)  OBVIOUS
<1>4. PICK s : s = IF f.kind = "readUD" /\ frames'[q].shared THEN "S" ELSE "E"  OBVIOUS
<1>5. f.tag \in Tag /\ y \in Entry /\ y[1] = f.from
  <2>1. y \in Entry /\ y[1] = f.from  BY <1>1, <1>2, <1>3, StepFacts, GivesTo
  <2> QED  BY <1>1, <2>1, StepFacts DEF Frame
<1>6. \A x \in Entry : Copy(x, t, S)' <=> Copy(x, t, S) \/ (x = y /\ s \in S)
  BY <1>1, <1>2, <1>3, <1>4, <1>5, StepFacts, GivesCopy
<1> QED  BY <1>1, <1>2, <1>4, <1>5, <1>6 DEF HasCopy

\* The module that request down-up k was sent to has what it says.
LEMMA DataHas ==
  ASSUME NEW k, NEW p, Step(k, p), NEW q, GivesData(k, q) \/ Yields(k, q),
         NEW S \in {Valid, Owned, Exclusive}, NEW m, m = frames[k].at, NEW t, t = frames[k].tag
  PROVE  HasCopy(m, t, S)' <=>
           GivesData(k, q) /\ StateAfterRead(frames[k]) \in S
<1>1. PICK f : f = frames[k]  OBVIOUS
<1>2. PICK d : d = Locked(k)  OBVIOUS
<1>3. f.tag \in Tag  BY <1>1, StepFacts DEF Frame
<1>4. d \in Entry /\ Matches(d, f.tag) /\ d[1] = f.at
  <2>1. Locks(k) /\ f.kind # "evict"  BY <1>1 DEF GivesData, Yields
  <2> QED  BY <1>1, <1>2, <2>1, StepFacts, LockedOwn DEF Locked
<1>5. ASSUME NEW x \in Entry, x[1] = m, x # d  PROVE ~Copy(x, t, S)'
  <2>1. SUFFICES ASSUME Copy(x, t, S)'  PROVE FALSE  OBVIOUS
  <2>2. Copy(x, t, S)  BY <1>1, <1>2, <1>3, <1>5, <2>1, StepFacts, DataCopy
  <2>3. "I" \notin S  BY Rights
  <2>4. Matches(x, t)  BY <2>2, <2>3, StepFacts, CopyMatches
  <2> QED  BY <1>1, <1>3, <1>4, <1>5, <2>4, StepFacts, SameEntry
<1>6. Copy(d, t, S)' <=> GivesData(k, q) /\ StateAfterRead(f) \in S
  BY <1>1, <1>2, <1>3, <1>4, StepFacts, DataCopy
<1> QED  BY <1>1, <1>4, <1>5, <1>6 DEF HasCopy

-----------------------------------------------------------------------------
(***************************************************************************)
(* A block and the modules that share a lower level.                       *)
(***************************************************************************)
\* Entry e goes on knowing what it knows of block t.
Lasts(e, t) ==
  /\ Present(e, t) =>
       /\ Present(e, t)'
       /\ \A m \in Mod : Low[m] = e[1] /\ HasCopy(m, t, Owned)' /\ blk[e].state \in Exclusive =>
            blk'[e].state \in Exclusive
       /\ \A m \in dir[e].sharers : HasCopy(m, t, Valid)' =>
            \/ Claimed(m, t)'
            \/ /\ m \in dir'[e].sharers
               /\ dir[e].owner = m /\ HasCopy(m, t, Owned)' => dir'[e].owner = m
  /\ blk'[e].tag = t =>
       /\ dir'[e].sharers = {} \/ (blk[e].tag = t /\ dir'[e].sharers \subseteq dir[e].sharers)
       /\ \/ dir'[e].owner = None
          \/ /\ blk[e].tag = t /\ dir'[e].owner = dir[e].owner
             /\ \A j \in InFlight : Awaits(j, e) => j \in InFlight' /\ Awaits(j, e)'

\* Nobody gets the block, and those that lose it are not in the directory.
LEMMA FamilyStays ==
  ASSUME IInv, IInv', NEW M \in Mod, NEW t \in Tag, Family(M, t),
         \A m \in Mod : Low[m] = M =>
           /\ HasCopy(m, t, Valid)' => HasCopy(m, t, Valid)
           /\ HasCopy(m, t, Owned)' => HasCopy(m, t, Owned)
           /\ HasCopy(m, t, Exclusive)' => HasCopy(m, t, Exclusive)
           /\ Claimed(m, t) /\ HasCopy(m, t, Valid)' => Claimed(m, t)',
         \A m \in Mod, e \in Entry : Low[m] = M /\ e[1] = M /\ blk'[e].tag = t =>
           /\ HasCopy(m, t, Valid) /\ m \in dir'[e].sharers => HasCopy(m, t, Valid)'
           /\ HasCopy(m, t, Owned) /\ m = dir'[e].owner =>
                HasCopy(m, t, Owned)' \/ \E j \in InFlight' : Awaits(j, e)',
         \A e \in Entry : e[1] = M => Lasts(e, t)
  PROVE  Family(M, t)'
<1>1. Covered(M, t)'
  <2>1. SUFFICES ASSUME NEW m \in Mod, Low[m] = M, HasCopy(m, t, Valid)'
                 PROVE  \E e \in Entry : Covers(e, m, t)'
    BY DEF Covered
  <2>2. PICK e \in Entry : Covers(e, m, t)  BY <2>1 DEF Family, Covered
  <2>3. Lasts(e, t) /\ e[1] = M /\ Present(e, t)  BY <2>1, <2>2 DEF Covers
  <2>4. Present(e, t)' /\ (HasCopy(m, t, Owned)' => blk'[e].state \in Exclusive)
    BY <2>1, <2>2, <2>3 DEF Lasts, Covers
  <2>5. \/ Claimed(m, t)'
        \/ m \in dir'[e].sharers /\ (HasCopy(m, t, Owned)' => dir'[e].owner = m)
    BY <2>1, <2>2, <2>3 DEF Lasts, Covers
  <2>6. Covers(e, m, t)'  BY <2>1, <2>3, <2>4, <2>5 DEF Covers
  <2> QED  BY <2>6
<1>2. Together(M, t)'
  <2>1. SUFFICES ASSUME NEW m \in Mod, NEW n \in Mod, m # n, Low[m] = M, Low[n] = M
                 PROVE  /\ HasCopy(m, t, Exclusive)' => ~HasCopy(n, t, Valid)'
                        /\ HasCopy(m, t, Owned)' => ~HasCopy(n, t, Owned)'
    BY DEF Together
  <2> QED  BY <2>1 DEF Family, Together
<1>3. ASSUME NEW e \in Entry, e[1] = M, blk'[e].tag = t
      PROVE  SharersHave(e, t)' /\ OwnerHasIt(e, t)'
  <2>1. Lasts(e, t)  BY <1>3
  <2>2. EntryOK(e) /\ EntryOK(e)'  BY DEF IInv
  <2>3. dir[e].sharers \subseteq Mod /\ dir'[e].sharers \subseteq Mod
    BY DEF IInv, TypeOK
  <2>4. ASSUME NEW m \in dir'[e].sharers  PROVE HasCopy(m, t, Valid)'
    <3>1. blk[e].tag = t /\ m \in dir[e].sharers  BY <1>3, <2>1, <2>4 DEF Lasts
    <3>2. m \in Mod /\ Low[m] = M  BY <1>3, <2>2, <2>3, <2>4, <3>1 DEF EntryOK
    <3>3. HasCopy(m, t, Valid)  BY <1>3, <3>1 DEF Family, SharersHave
    <3> QED  BY <1>3, <2>4, <3>2, <3>3
  <2>5. ASSUME NEW m, m = dir'[e].owner, m # None
        PROVE  HasCopy(m, t, Owned)' \/ \E j \in InFlight' : Awaits(j, e)'
    <3>1. /\ blk[e].tag = t /\ m = dir[e].owner
          /\ \A j \in InFlight : Awaits(j, e) => j \in InFlight' /\ Awaits(j, e)'
      BY <1>3, <2>1, <2>5 DEF Lasts
    <3>2. m \in Mod /\ Low[m] = M  BY <1>3, <2>2, <2>3, <2>5, <3>1 DEF EntryOK
    <3>3. HasCopy(m, t, Owned) \/ \E j \in InFlight : Awaits(j, e)
      BY <1>3, <2>5, <3>1 DEF Family, OwnerHasIt
    <3> QED  BY <1>3, <2>5, <3>1, <3>2, <3>3
  <2>6. OwnerHasIt(e, t)'
    <3>1. PICK m : m = dir'[e].owner  OBVIOUS
    <3> QED  BY <2>5, <3>1 DEF OwnerHasIt
  <2> QED  BY <2>4, <2>6 DEF SharersHave
<1> QED  BY <1>1, <1>2, <1>3 DEF Family

\* Nobody has the block any longer, and the directory says so.
LEMMA FamilyLeaves ==
  ASSUME NEW M \in Mod, NEW t \in Tag,
         \A m \in Mod : Low[m] = M => ~HasCopy(m, t, Valid)',
         \A e \in Entry : e[1] = M /\ blk'[e].tag = t =>
           dir'[e].sharers = {} /\ dir'[e].owner = None
  PROVE  Family(M, t)'
<1>1. \A m \in Mod : Low[m] = M => ~HasCopy(m, t, Exclusive)' /\ ~HasCopy(m, t, Owned)'
  <2>1. ASSUME NEW m \in Mod, Low[m] = M, NEW S, S \subseteq Valid  PROVE ~HasCopy(m, t, S)'
    BY <2>1 DEF HasCopy, Copy, Grants
  <2> QED  BY <2>1, Rights
<1>2. Covered(M, t)'  BY DEF Covered
<1>3. Together(M, t)'  BY <1>1 DEF Together
<1>4. \A e \in Entry : e[1] = M /\ blk'[e].tag = t => SharersHave(e, t)' /\ OwnerHasIt(e, t)'
  BY DEF SharersHave, OwnerHasIt
<1> QED  BY <1>2, <1>3, <1>4 DEF Family

\* Frame k goes on with what it has asked an owner for.
Resumes(k, e) == e = Locked(k) /\ \E q : GivesBlock(k, q) \/ GivesData(k, q)

\* Nobody else goes on with what he has asked an owner for.
LEMMA AwaitsLast ==
  ASSUME NEW k, NEW p, Step(k, p), NEW e, ~Resumes(k, e), NEW j \in InFlight, Awaits(j, e)
  PROVE  j \in InFlight' /\ Awaits(j, e)'
<1>1. CASE j # k  BY <1>1, StepFacts, AwaitsStay
<1>2. CASE j = k
  <2>1. PICK f : f = frames[k]  OBVIOUS
  <2>2. Locks(k) /\ f.ev = "finish" /\ f.kind \in {"readUD", "readDU"} /\ e = Locked(k)
    BY <1>2, <2>1 DEF Awaits, Holds
  <2>3. \E q : GivesBlock(k, q) \/ GivesData(k, q)
    <3>1. ~ (\/ Looks(k) /\ frames[k].ev = "lock" /\ NoEntry
             \/ \E x \in Entry : Gets(k, x) \/ Replaces(k, x)
             \/ GivesUp(k) \/ Settles(k) \/ InvalidationEnds(k)
             \/ SendsDown(k) \/ Accepts(k) \/ Refuses(k)
             \/ \E q : EvictionFails(k, q) \/ EvictionEnds(k, q))
      BY <2>1, <2>2 DEF Gets, Replaces, GivesUp, Settles, InvalidationEnds, SendsDown, Accepts,
         Refuses, EvictionFails, EvictionEnds, Returns, AccessKind
    <3>2. ~ (\/ Received(k) \/ Passes(k) \/ AsksOwner(k) \/ Fills(k) \/ Takes(k)
             \/ AsksExclusive(k) \/ GivesExclusive(k) \/ \E q : Yields(k, q))
      BY <2>1, <2>2 DEF Received, Passes, AsksOwner, Fills, Takes, AsksExclusive,
         GivesExclusive, Yields
    <3>3. Does(k)  BY StepFacts
    <3> QED  BY <2>1, <2>2, <3>1, <3>2, <3>3 DEF Does
  <2> QED  BY <2>2, <2>3 DEF Resumes
<1> QED  BY <1>1, <1>2

\* An entry that does not change
LEMMA LastsSame ==
  ASSUME NEW k, NEW p, Step(k, p), NEW e, ~Resumes(k, e), NEW t,
         blk'[e] = blk[e], dir'[e] = dir[e]
  PROVE  Lasts(e, t)
BY AwaitsLast DEF Lasts, Present

\* Entry e, which may get block t, is not in use by the modules above.
LEMMA LastsNew ==
  ASSUME IInv', NEW e \in Entry, NEW t, ~Present(e, t),
         dir'[e] = [owner |-> None, sharers |-> {}]
  PROVE  Lasts(e, t)
BY DEF Lasts

\* Entry e has another block.
LEMMA LastsOther ==
  ASSUME IInv', NEW e \in Entry, NEW t, ~Present(e, t), ~Present(e, t)'
  PROVE  Lasts(e, t)
<1>1. blk'[e].tag = t => dir'[e].sharers = {} /\ dir'[e].owner = None
  BY DEF IInv, EntryOK, Present
<1> QED  BY <1>1 DEF Lasts

\* A block stays claimed until it is taken.
LEMMA ClaimedStays ==
  ASSUME NEW k, NEW p, Step(k, p), NEW m, NEW t, Claimed(m, t),
         ~ (m = frames[k].at /\ t = frames[k].tag /\ \E q : Yields(k, q))
  PROVE  Claimed(m, t)'
<1>1. PICK d \in InFlight : Claims(d, m, t)  BY DEF Claimed
<1>2. d # k \/ ~ \E q : Yields(k, q)  BY <1>1 DEF Claims
<1>3. d \in InFlight' /\ Claims(d, m, t)'  BY <1>1, <1>2, StepFacts, ClaimStays
<1> QED  BY <1>3 DEF Claimed

\* A copy of a block changes hands.
Transfer(k) ==
  Accepts(k) \/ Gives(k) \/ \E q : GivesData(k, q) \/ Yields(k, q)

\* A family of which nothing is moved
LEMMA FamilyApart ==
  ASSUME NEW k, NEW p, Step(k, p), IInv', NEW M \in Mod, NEW t \in Tag,
         \A m \in Mod : Low[m] = M => ~Moved(k, m, t),
         \A e \in Entry : e[1] = M => Lasts(e, t)
  PROVE  Family(M, t)'
<1>1. ASSUME NEW m \in Mod, Low[m] = M
      PROVE  /\ HasCopy(m, t, Valid)' <=> HasCopy(m, t, Valid)
             /\ HasCopy(m, t, Owned)' <=> HasCopy(m, t, Owned)
             /\ HasCopy(m, t, Exclusive)' <=> HasCopy(m, t, Exclusive)
             /\ Claimed(m, t) => Claimed(m, t)'
  <2>1. ~Moved(k, m, t) /\ Low[m] # None  BY <1>1, TreeAssumption
  <2>2. Claimed(m, t) => Claimed(m, t)'
    <3>1. ~ (m = frames[k].at /\ t = frames[k].tag /\ \E q : Yields(k, q))
      BY <2>1 DEF Moved
    <3> QED  BY <3>1, ClaimedStays
  <2> QED  BY <2>1, <2>2, HasCopyStays
<1>2. Family(M, t) /\ IInv  BY DEF Step, Levels
<1> QED  BY <1>1, <1>2, FamilyStays

\* Steps that move nothing
LEMMA FamilySmall ==
  ASSUME NEW k, NEW p, Step(k, p), IInv', ~Transfer(k), NEW M \in Mod, NEW t \in Tag,
         \A e \in Entry : e[1] = M => Lasts(e, t)
  PROVE  Family(M, t)'
<1>1. \A m \in Mod : ~Moved(k, m, t)  BY DEF Moved, Transfer
<1> QED  BY <1>1, FamilyApart

\* A block that gets another state, and not fewer rights
LEMMA LastsWritten ==
  ASSUME NEW k, NEW p, Step(k, p), NEW d \in Entry, ~Resumes(k, d), dir'[d] = dir[d],
         NEW u, NEW s, blk'[d].tag = u, blk'[d].state = s, s # "I",
         blk[d].state # "I" => blk[d].tag = u,
         blk[d].state \in Exclusive => s \in Exclusive, NEW t
  PROVE  Lasts(d, t)
<1>1. \A j \in InFlight : Awaits(j, d) => j \in InFlight' /\ Awaits(j, d)'
  BY AwaitsLast
<1>2. EntryOK(d)  BY StepFacts DEF IInv
<1>3. blk[d].state = "I" => dir[d].sharers = {} /\ dir[d].owner = None
  BY <1>2 DEF EntryOK
<1>4. Present(d, t) => Present(d, t)'  BY DEF Present
<1> QED  BY <1>1, <1>3, <1>4 DEF Lasts

\* The modules that the directory no longer counts are asked for the block.
LEMMA LastsCleared ==
  ASSUME NEW k, NEW p, Step(k, p), NEW e \in Entry, ~Resumes(k, e), blk'[e] = blk[e],
         NEW except, ClearSharers(e, except), NEW t,
         Present(e, t) => \A m \in Victims(e, except) : Claimed(m, t)'
  PROVE  Lasts(e, t)
<1>1. \A j \in InFlight : Awaits(j, e) => j \in InFlight' /\ Awaits(j, e)'
  BY AwaitsLast
<1>2. /\ dir'[e].sharers = dir[e].sharers \ Victims(e, except)
      /\ dir'[e].owner = IF dir[e].owner \in Victims(e, except) THEN None ELSE dir[e].owner
  BY StepFacts DEF IInv, TypeOK, ClearSharers
<1>3. Present(e, t)' <=> Present(e, t)  BY DEF Present
<1>4. ASSUME Present(e, t), NEW m \in dir[e].sharers
      PROVE  \/ Claimed(m, t)'
             \/ m \in dir'[e].sharers /\ (dir[e].owner = m => dir'[e].owner = m)
  BY <1>2, <1>4
<1>5. /\ dir'[e].sharers \subseteq dir[e].sharers
      /\ dir'[e].owner = None \/ dir'[e].owner = dir[e].owner
  BY <1>2
<1> QED  BY <1>1, <1>3, <1>4, <1>5 DEF Lasts

\* Clearing the sharers of one entry leaves the others as they are.
LEMMA ClearedElsewhere ==
  ASSUME IInv, NEW e \in Entry, NEW except, ClearSharers(e, except), NEW x \in Entry, x # e
  PROVE  dir'[x] = dir[x]
BY DEF IInv, TypeOK, ClearSharers

\* Those that lose the block are asked for it at once.
LEMMA VictimsClaimed ==
  ASSUME NEW k, NEW v, NEW N, Called(k, v, N), NEW I, NEW q, NEW e, NEW except,
         Invalidates(I, q, e, except), \A n \in DOMAIN I : n \in DOMAIN N /\ N[n] = I[n],
         NEW m \in Victims(e, except), NEW t, t = blk[e].tag
  PROVE  Claimed(m, t)'
<1>1. PICK i : i = Call(q, "invalidate", e[1])  OBVIOUS
<1>2. PICK n : n = Call(i, "writeDU", m)  OBVIOUS
<1>3. n \in DOMAIN I /\ n # i
  BY <1>1, <1>2 DEF Invalidates, Call
<1>4. PICK a \in Victims(e, except) : n = Call(i, "writeDU", a) /\ IsTaking(I[n], i, e, a)
  BY <1>1, <1>3 DEF Invalidates
<1>5. a = m  BY <1>2, <1>4 DEF Call
<1>6. n \in InFlight' /\ frames'[n] = I[n]  BY <1>3 DEF Called
<1>7. Claims(n, m, t)'  BY <1>4, <1>5, <1>6 DEF Claims, IsTaking
<1> QED  BY <1>6, <1>7 DEF Claimed

\* An entry that nobody shares has no owner either.
LEMMA EmptyEntry ==
  ASSUME IInv, NEW e \in Entry, dir[e].sharers = {} \/ blk[e].state = "I"
  PROVE  dir[e].sharers = {} /\ dir[e].owner = None
         /\ dir[e] = [owner |-> None, sharers |-> {}]
<1>1. dir[e] \in [owner : Mod \cup {None}, sharers : SUBSET Mod]  BY DEF IInv, TypeOK
<1>2. EntryOK(e)  BY DEF IInv
<1>3. dir[e].sharers = {} /\ dir[e].owner = None  BY <1>2 DEF EntryOK
<1> QED  BY <1>1, <1>3

\* The eviction of entry Source(k) ends: nobody above has its block.
LEMMA EvictionFamily ==
  ASSUME NEW k, NEW p, Step(k, p), IInv', ~Transfer(k), NEW q, EvictionEnds(k, q),
         NEW M \in Mod, NEW t \in Tag
  PROVE  Family(M, t)'
<1>1. PICK f : f = frames[k]  OBVIOUS
<1>2. PICK d : d = Source(k)  OBVIOUS
<1>3. /\ f.kind = "evict" /\ d \in Entry /\ dir' = dir /\ Private(k, d)
      /\ \A e \in Entry \ {d} : blk'[e] = blk[e]
  <2>1. /\ f.kind = "evict" /\ Idle(k) /\ q = f.ret /\ frames[q].ev = "evicting"
        /\ d \in Entry /\ dir' = dir /\ InFlight' = InFlight \ {k}
    BY <1>1, <1>2 DEF EvictionEnds, Returns
  <2>2. \A e \in Entry \ {d} : blk'[e] = blk[e]  BY <1>2 DEF EvictionEnds
  <2> QED  BY <1>1, <1>2, <2>1, <2>2 DEF Private
<1>4. blk[d].tag = f.tag /\ blk[d].state # "I" /\ dir[d].sharers = {}
  BY <1>1, <1>2, <1>3, StepFacts DEF Current, ReliesOn
<1>5. dir[d] = [owner |-> None, sharers |-> {}] /\ IInv  BY <1>3, <1>4, StepFacts, EmptyEntry
<1>6. CASE M = d[1] /\ t = f.tag
  <2>1. Matches(d, t) /\ Covered(d[1], t)
    BY <1>4, <1>6, StepFacts DEF Matches, Levels, Family
  <2>2. ASSUME NEW m \in Mod, Low[m] = M  PROVE ~HasCopy(m, t, Valid)'
    <3>1. ~HasCopy(m, t, Valid)
      BY <1>3, <1>4, <1>6, <2>1, <2>2, StepFacts, NobodyAbove
    <3>2. ~Moved(k, m, t) /\ Low[m] # None  BY <2>2, TreeAssumption DEF Moved, Transfer
    <3> QED  BY <3>1, <3>2, HasCopyStays
  <2>3. ASSUME NEW e \in Entry, e[1] = M, blk'[e].tag = t
        PROVE  dir'[e].sharers = {} /\ dir'[e].owner = None
    <3>1. CASE e = d  BY <1>3, <1>5, <3>1
    <3>2. CASE e # d
      <4>1. blk[e].tag = t  BY <1>3, <2>3, <3>2
      <4>2. blk[e].state = "I"
        <5>1. ~Matches(e, t)  BY <1>3, <1>6, <2>1, <2>3, <3>2, StepFacts, SameEntry
        <5> QED  BY <4>1, <5>1 DEF Matches
      <4> QED  BY <1>3, <1>5, <4>2, EmptyEntry
    <3> QED  BY <3>1, <3>2
  <2> QED  BY <2>2, <2>3, FamilyLeaves
<1>7. CASE ~(M = d[1] /\ t = f.tag)
  <2>1. ASSUME NEW e \in Entry, e[1] = M  PROVE Lasts(e, t)
    <3>1. ~Resumes(k, e)  BY DEF Resumes, Transfer, Gives
    <3>2. CASE e # d  BY <1>3, <3>1, <3>2, LastsSame
    <3>3. CASE e = d
      <4>1. ~Present(e, t)  BY <1>4, <1>7, <2>1, <3>3 DEF Present
      <4> QED  BY <1>3, <1>5, <3>3, <4>1, LastsNew
    <3> QED  BY <3>2, <3>3
  <2> QED  BY <2>1, FamilySmall
<1> QED  BY <1>6, <1>7

\* A frame gets its entry, or writes the block it was granted.
LEMMA WritesFamily ==
  ASSUME NEW k, NEW p, Step(k, p), IInv', ~Transfer(k),
         (\E d \in Entry : Gets(k, d)) \/ Settles(k) \/ Fills(k),
         NEW M \in Mod, NEW t \in Tag
  PROVE  Family(M, t)'
<1>1. PICK f : f = frames[k]  OBVIOUS
<1>2. dir' = dir
  BY DEF Gets, Settles, Fills
<1>3. \/ blk' = blk
      \/ \E d \in Entry, s \in {"E", "S", "M"} :
           /\ blk'[d].tag = f.tag /\ blk'[d].state = s
           /\ \A e \in Entry \ {d} : blk'[e] = blk[e]
           /\ blk[d].state # "I" => blk[d].tag = f.tag
           /\ blk[d].state \in Exclusive => s \in Exclusive
  <2>1. ASSUME NEW d \in Entry, Gets(k, d), blk' # blk
        PROVE  /\ blk'[d].tag = f.tag /\ blk'[d].state = "E" /\ blk[d].state = "I"
               /\ \A e \in Entry \ {d} : blk'[e] = blk[e]
    <3>1. Writes(d, f.tag, "E") /\ blk[d].state = "I"  BY <1>1, <2>1 DEF Gets
    <3> QED  BY <3>1, StepFacts, WritesAt
  <2>2. ASSUME Settles(k) \/ Fills(k), NEW d, d = Locked(k)
        PROVE  /\ d \in Entry
               /\ \E s \in {"E", "S", "M"} :
                   /\ blk'[d].tag = f.tag /\ blk'[d].state = s
                   /\ f.kind = "store" => s = "M"
                   /\ f.kind # "store" => f.ev = "miss"
               /\ \A e \in Entry \ {d} : blk'[e] = blk[e]
               /\ blk[d].state = f.state /\ (f.state # "I" => blk[d].tag = f.tag)
               /\ f.ev = "miss" => f.state = "I"
    <3>1. Locks(k) /\ f.ev # "finish"  BY <1>1, <2>2 DEF Settles, Fills
    <3>2. d \in Entry  BY <2>2, <3>1, StepFacts DEF FrameOK
    <3>3. PICK s \in {"E", "S", "M"} :
            /\ Writes(d, f.tag, s)
            /\ f.kind = "store" => s = "M"
            /\ f.kind # "store" => f.ev = "miss"
      BY <1>1, <2>2 DEF Settles, Fills
    <3>4. /\ blk'[d].tag = f.tag /\ blk'[d].state = s
          /\ \A e \in Entry \ {d} : blk'[e] = blk[e]
      BY <3>2, <3>3, StepFacts, WritesAt
    <3>5. /\ blk[d].state = f.state /\ (f.state # "I" => blk[d].tag = f.tag)
          /\ f.ev = "miss" => f.state = "I"
      BY <1>1, <2>2, <3>1, StepFacts DEF Current
    <3> QED  BY <3>2, <3>3, <3>4, <3>5
  <2>3. "I" \notin Exclusive /\ "M" \in Exclusive  BY DEF Exclusive
  <2>4. CASE \E d \in Entry : Gets(k, d)  BY <2>1, <2>3, <2>4
  <2>5. CASE Settles(k) \/ Fills(k)
    <3>1. PICK d : d = Locked(k)  OBVIOUS
    <3>2. /\ d \in Entry
          /\ \E s \in {"E", "S", "M"} :
              /\ blk'[d].tag = f.tag /\ blk'[d].state = s
              /\ f.kind = "store" => s = "M"
              /\ f.kind # "store" => f.ev = "miss"
          /\ \A e \in Entry \ {d} : blk'[e] = blk[e]
          /\ blk[d].state = f.state /\ (f.state # "I" => blk[d].tag = f.tag)
          /\ f.ev = "miss" => f.state = "I"
      BY <2>2, <2>5, <3>1
    <3> QED  BY <2>3, <3>2
  <2> QED  BY <2>4, <2>5
<1>4. ASSUME NEW e \in Entry  PROVE Lasts(e, t)
  <2>1. ~Resumes(k, e)  BY DEF Resumes, Transfer, Gives
  <2>2. CASE blk'[e] = blk[e]  BY <1>2, <2>1, <2>2, LastsSame
  <2>3. CASE blk'[e] # blk[e]
    <3>1. PICK s \in {"E", "S", "M"} :
           /\ blk'[e].tag = f.tag /\ blk'[e].state = s
           /\ blk[e].state # "I" => blk[e].tag = f.tag
           /\ blk[e].state \in Exclusive => s \in Exclusive
      BY <1>3, <1>4, <2>3
    <3> QED  BY <1>2, <2>1, <3>1, LastsWritten
  <2> QED  BY <2>2, <2>3
<1> QED  BY <1>4, FamilySmall

\* The sharers of an entry are cleared, and asked for the block.
LEMMA ClearsFamily ==
  ASSUME NEW k, NEW p, Step(k, p), IInv', ~Transfer(k),
         (\E e \in Entry : Replaces(k, e)) \/ Takes(k),
         NEW M \in Mod, NEW t \in Tag
  PROVE  Family(M, t)'
<1>0. \E e \in Entry : \E except, v, N, q, I :
        /\ blk' = blk /\ ClearSharers(e, except) /\ Called(k, v, N)
        /\ Invalidates(I, q, e, except)
        /\ \A n \in DOMAIN I : n \in DOMAIN N /\ N[n] = I[n]
  <2>1. CASE \E d \in Entry : Replaces(k, d)
    <3>1. PICK d \in Entry : Replaces(k, d)  BY <2>1
    <3>2. PICK N : Called(k, "evicting", N) /\ Evicts(N, k, d)  BY <3>1 DEF Replaces
    <3>3. PICK I : /\ Invalidates(I, EvictKey(k), d, None)
                   /\ DOMAIN N = DOMAIN I \cup {EvictKey(k)}
                   /\ \A n \in DOMAIN I : N[n] = I[n]
      BY <3>2 DEF Evicts
    <3> QED  BY <3>1, <3>2, <3>3 DEF Replaces
  <2>2. CASE Takes(k)
    <3>1. PICK d : d = Locked(k)  OBVIOUS
    <3>2. d \in Entry  BY <2>2, <3>1, StepFacts DEF FrameOK, Takes
    <3>3. PICK N : Called(k, "exclusive", N) /\ Invalidates(N, k, d, frames[k].from)
      BY <2>2, <3>1 DEF Takes
    <3> QED  BY <2>2, <3>1, <3>2, <3>3 DEF Takes
  <2> QED  BY <2>1, <2>2
<1>9. PICK e \in Entry : \E except, v, N, q, I :
        /\ blk' = blk /\ ClearSharers(e, except) /\ Called(k, v, N)
        /\ Invalidates(I, q, e, except)
        /\ \A n \in DOMAIN I : n \in DOMAIN N /\ N[n] = I[n]
  BY <1>0
<1>1. PICK except, v, N, q, I :
        /\ blk' = blk /\ ClearSharers(e, except) /\ Called(k, v, N)
        /\ Invalidates(I, q, e, except)
        /\ \A n \in DOMAIN I : n \in DOMAIN N /\ N[n] = I[n]
  BY <1>9
<1>2. ASSUME NEW x \in Entry  PROVE Lasts(x, t)
  <2>1. ~Resumes(k, x)  BY DEF Resumes, Transfer, Gives
  <2>2. CASE x = e
    <3>1. Present(e, t) => \A m \in Victims(e, except) : Claimed(m, t)'
      <4>1. SUFFICES ASSUME Present(e, t), NEW m \in Victims(e, except)  PROVE Claimed(m, t)'
        OBVIOUS
      <4>2. t = blk[e].tag  BY <4>1 DEF Present
      <4> QED  BY ONLY <1>1, <4>1, <4>2, VictimsClaimed
    <3> QED  BY <1>1, <2>1, <2>2, <3>1, LastsCleared
  <2>3. CASE x # e
    <3>1. dir'[x] = dir[x]  BY <1>1, <2>3, StepFacts, ClearedElsewhere
    <3> QED  BY <1>1, <2>1, <3>1, LastsSame
  <2> QED  BY <2>2, <2>3
<1> QED  BY <1>2, FamilySmall

\* All steps that move nothing
LEMMA SmallFamily ==
  ASSUME NEW k, NEW p, Step(k, p), IInv', ~Transfer(k), NEW M \in Mod, NEW t \in Tag
  PROVE  Family(M, t)'
<1>1. CASE blk' = blk /\ dir' = dir
  <2>1. \A e \in Entry : ~Resumes(k, e)  BY DEF Resumes, Transfer, Gives
  <2>2. \A e \in Entry : Lasts(e, t)  BY <1>1, <2>1, LastsSame
  <2> QED  BY <2>2, FamilySmall
<1>2. CASE (\E d \in Entry : Gets(k, d)) \/ Settles(k) \/ Fills(k)
  BY <1>2, WritesFamily
<1>3. CASE (\E e \in Entry : Replaces(k, e)) \/ Takes(k)
  BY <1>3, ClearsFamily
<1>4. CASE \E q : EvictionEnds(k, q)
  BY <1>4, EvictionFamily
<1>5. CASE \/ Looks(k) /\ frames[k].ev = "lock" /\ NoEntry
           \/ GivesUp(k) \/ SendsDown(k) \/ Refuses(k) \/ InvalidationEnds(k)
           \/ \E q : EvictionFails(k, q)
           \/ Received(k) \/ Passes(k) \/ AsksOwner(k) \/ AsksExclusive(k)
  <2>1. InvalidationEnds(k) => blk' = blk  BY StepFacts, InvalidationSame
  <2>2. blk' = blk /\ dir' = dir
    BY <1>5, <2>1 DEF NoEntry, GivesUp, SendsDown, Refuses, InvalidationEnds, EvictionFails, Returns,
       Received, Passes, AsksOwner, AsksExclusive, CallsUp
  <2> QED  BY <1>1, <2>2
<1>6. CASE \/ CallsUp(k, "miss", ReadUp(k)) \/ CallsUp(k, "unlock", WriteUp(k))
           \/ Alone(k, k) /\ Goes(k, "unlock") /\ NoEntry
  <2>1. blk' = blk /\ dir' = dir  BY <1>6 DEF CallsUp, NoEntry
  <2> QED  BY <1>1, <2>1
<1> QED  BY <1>2, <1>3, <1>4, <1>5, <1>6, StepFacts DEF Does, Transfer, Gives

-----------------------------------------------------------------------------
(***************************************************************************)
(* Evictions and answers of the modules above.                             *)
(***************************************************************************)
\* Another entry that seems to have the block is not in use.
LEMMA NotInUse ==
  ASSUME IInv, Entries, NEW d \in Entry, NEW t \in Tag, Matches(d, t),
         NEW e \in Entry, e[1] = d[1], e # d, blk'[e] = blk[e], dir'[e] = dir[e], blk'[e].tag = t
  PROVE  dir'[e].sharers = {} /\ dir'[e].owner = None
<1>1. ~Matches(e, t)  BY SameEntry
<1>2. blk[e].state = "I"  BY <1>1 DEF Matches
<1> QED  BY <1>2, EmptyEntry

\* The lower level accepts an eviction: the module has no copy, and is forgotten.
LEMMA AcceptsFamily ==
  ASSUME NEW k, NEW p, Step(k, p), IInv', Accepts(k), NEW M \in Mod, NEW t \in Tag
  PROVE  Family(M, t)'
<1>1. PICK f : f = frames[k]  OBVIOUS
<1>2. PICK d : d = Locked(k)  OBVIOUS
<1>3. /\ f.kind = "evict" /\ f.ev = "action" /\ ~f.err /\ Locks(k) /\ k \in InFlight'
      /\ f.tag \in Tag /\ f.from \in Mod
  BY <1>1, StepFacts DEF Accepts, Locks, Alone, Frame
<1>4. d \in Entry /\ Matches(d, f.tag) /\ d[1] = f.at
  BY <1>1, <1>2, <1>3, StepFacts, LockedOwn DEF Locked
<1>5. Low[f.from] = f.at
  BY <1>1, <1>3, StepFacts DEF CalledFor
<1>6. /\ dir'[d].sharers = dir[d].sharers \ {f.from}
      /\ dir'[d].owner = IF dir[d].owner = f.from THEN None ELSE dir[d].owner
      /\ \A e \in Entry \ {d} : dir'[e] = dir[e]
  <2>1. dir' = [dir EXCEPT ![d] = Forget(@, f.from)]  BY <1>1, <1>2 DEF Accepts
  <2> QED  BY <1>4, <2>1, StepFacts DEF IInv, TypeOK, Forget
<1>7. \A e \in Entry \ {d} : blk'[e] = blk[e]
  BY <1>1, <1>2, <1>4, StepFacts, WritesAt DEF Accepts
<1>8. blk[d].state = f.state /\ (f.state # "I" => blk[d].tag = f.tag)
  BY <1>1, <1>2, <1>3, StepFacts DEF Current
<1>9. \/ blk'[d] = blk[d]
      \/ /\ blk'[d].tag = f.tag
         /\ blk'[d].state = f.state \/ (f.state = "E" /\ blk'[d].state = "M")
  <2>1. CASE f.reply = "ack_data"
    <3>1. blk'[d].tag = f.tag /\ blk'[d].state = StateAfterData(f)
      BY <1>1, <1>2, <1>4, <2>1, StepFacts, WritesAt DEF Accepts
    <3>2. ~f.nc  BY <1>1, StepFacts DEF Plain, PlainFrame
    <3> QED  BY <3>1, <3>2 DEF StateAfterData
  <2>2. CASE f.reply # "ack_data"  BY <1>1, <2>2 DEF Accepts
  <2> QED  BY <2>1, <2>2
<1>10. \A e \in Entry : ~Resumes(k, e)
  BY <1>1, <1>3 DEF Resumes, GivesBlock, GivesData
<1>11. ASSUME NEW S \in {Valid, Owned, Exclusive}  PROVE ~HasCopy(f.from, f.tag, S)'
  <2>1. PICK m, u : m = f.from /\ u = f.tag  OBVIOUS
  <2>2. ~HasCopy(m, u, S)'  BY <1>1, <2>1, AcceptsHas
  <2> QED  BY <2>1, <2>2
<1>12. Lasts(d, t)
  <2>1. Present(d, t) => t = f.tag /\ Present(d, t)'
    BY <1>8, <1>9 DEF Present
  <2>2. blk[d].state \in Exclusive => blk'[d].state \in Exclusive
    BY <1>8, <1>9 DEF Exclusive
  <2>3. ASSUME NEW m \in dir[d].sharers, HasCopy(m, t, Valid)', t = f.tag
        PROVE  m \in dir'[d].sharers /\ (dir[d].owner = m => dir'[d].owner = m)
    <3>1. m # f.from  BY <1>11, <2>3
    <3> QED  BY <1>6, <2>3, <3>1
  <2>4. blk'[d].tag = t => blk[d].tag = t \/ (dir[d].sharers = {} /\ dir[d].owner = None)
    <3>1. CASE blk[d].state = "I"  BY <1>4, <3>1, StepFacts, EmptyEntry
    <3>2. CASE blk[d].state # "I"  BY <1>8, <1>9, <3>2
    <3> QED  BY <3>1, <3>2
  <2>5. \A j \in InFlight : Awaits(j, d) => j \in InFlight' /\ Awaits(j, d)'
    BY <1>4, <1>10, AwaitsLast
  <2> QED  BY <1>6, <2>1, <2>2, <2>3, <2>4, <2>5 DEF Lasts
<1>13. ASSUME NEW e \in Entry  PROVE Lasts(e, t)
  <2>1. CASE e = d  BY <1>12, <2>1
  <2>2. CASE e # d  BY <1>6, <1>7, <1>10, <2>2, LastsSame
  <2> QED  BY <2>1, <2>2
<1>14. ASSUME NEW m \in Mod, Low[m] = M, NEW S \in {Valid, Owned, Exclusive}
       PROVE  IF m = f.from /\ t = f.tag THEN ~HasCopy(m, t, S)'
              ELSE HasCopy(m, t, S)' <=> HasCopy(m, t, S)
  <2>1. CASE m = f.from /\ t = f.tag  BY <1>1, <2>1, AcceptsHas
  <2>2. CASE ~(m = f.from /\ t = f.tag)
    <3>1. ~ \E q : GivesData(k, q) \/ Yields(k, q)
      BY <1>1, <1>3 DEF GivesData, Yields
    <3>2. ~Moved(k, m, t) /\ Low[m] # None  BY <1>1, <1>14, <2>2, <3>1, TreeAssumption DEF Moved
    <3> QED  BY <2>2, <3>2, HasCopyStays
  <2> QED  BY <2>1, <2>2
<1>15. ASSUME NEW m \in Mod, NEW e \in Entry, Low[m] = M, e[1] = M, blk'[e].tag = t,
              m = f.from, t = f.tag
       PROVE  m \notin dir'[e].sharers /\ m # dir'[e].owner
  <2>1. CASE e = d  BY <1>6, <1>15, <2>1, TreeAssumption
  <2>2. CASE e # d
    <3>1. dir'[e].sharers = {} /\ dir'[e].owner = None
      BY <1>4, <1>5, <1>6, <1>7, <1>15, <2>2, StepFacts, NotInUse
    <3> QED  BY <3>1, TreeAssumption
  <2> QED  BY <2>1, <2>2
<1>16. ASSUME NEW m, Claimed(m, t)  PROVE Claimed(m, t)'
  <2>1. ~ \E q : Yields(k, q)  BY <1>1, <1>3 DEF Yields
  <2> QED  BY <1>16, <2>1, ClaimedStays
<1>17. Family(M, t) /\ IInv  BY DEF Step, Levels
<1>18. \A m \in Mod : Low[m] = M =>
           /\ HasCopy(m, t, Valid)' => HasCopy(m, t, Valid)
           /\ HasCopy(m, t, Owned)' => HasCopy(m, t, Owned)
           /\ HasCopy(m, t, Exclusive)' => HasCopy(m, t, Exclusive)
           /\ Claimed(m, t) /\ HasCopy(m, t, Valid)' => Claimed(m, t)'
  BY <1>14, <1>16
<1>19. \A m \in Mod, e \in Entry : Low[m] = M /\ e[1] = M /\ blk'[e].tag = t =>
           /\ HasCopy(m, t, Valid) /\ m \in dir'[e].sharers => HasCopy(m, t, Valid)'
           /\ HasCopy(m, t, Owned) /\ m = dir'[e].owner =>
                HasCopy(m, t, Owned)' \/ \E j \in InFlight' : Awaits(j, e)'
  BY <1>14, <1>15
<1> QED  BY <1>13, <1>17, <1>18, <1>19, FamilyStays

\* What request down-up k has found is what the module has.
LEMMA FoundHas ==
  ASSUME NEW k, NEW p, Step(k, p), frames[k].kind \in {"readDU", "writeDU"}, Locks(k),
         NEW m, m = frames[k].at, NEW t, t = frames[k].tag,
         NEW S, "I" \notin S, frames[k].state \in S
  PROVE  HasCopy(m, t, S)
<1>1. PICK d : d = Locked(k)  OBVIOUS
<1>2. d \in Entry /\ d[1] = m /\ Private(k, d)
  BY <1>1, StepFacts, LockedOwn DEF Locked
<1>3. blk[d].tag = t /\ blk[d].state \in S
  BY <1>1, StepFacts DEF Current
<1>4. ~Outbound(k, d)  BY <1>2, StepFacts, MineOnly
<1>5. ~OwnGone(k, d)  BY DEF OwnGone, Gone
<1>6. Copy(d, t, S)  BY <1>3, <1>4, <1>5, CopyParts
<1> QED  BY <1>2, <1>6 DEF HasCopy

\* No module is its own lower level.
LEMMA NotSelf ==
  ASSUME NEW m \in Mod, Low[m] \in Mod  PROVE Low[m] # m
BY TreeAssumption

\* The caller of read request down-up k: its entry says that the block is sought
\* where k was sent.
LEMMA DataCaller ==
  ASSUME NEW k, NEW p, Step(k, p), frames[k].kind = "readDU", frames[k].ev # "reply",
         NEW q, q = frames[k].ret, NEW x, x = Locked(q)
  PROVE  /\ q \in InFlight /\ q # k /\ k \in Children(q)
         /\ frames[q].ev = "finish" /\ frames[q].kind \in {"readUD", "readDU"}
         /\ Holds(q, x) /\ x \in Entry /\ x[1] = frames[q].at /\ frames[q].at = frames[k].from
         /\ frames[k].tag = frames[q].tag /\ Matches(x, frames[k].tag)
         /\ dir[x].owner = frames[k].at /\ frames[k].at \in dir[x].sharers
         /\ Low[frames[k].at] = x[1] /\ frames[k].at \in Mod
<1>1. PICK f : f = frames[k]  OBVIOUS
<1>2. q \in InFlight /\ q # k /\ k \in Children(q)
  BY <1>1, StepFacts, CallerWaits DEF Children, AccessKind
<1>3. /\ frames[q].ev = "finish" /\ frames[q].kind \in {"readUD", "readDU"}
      /\ f.tag = frames[q].tag /\ f.from = frames[q].at
  BY <1>1, StepFacts DEF CallOK, CalledFor, AccessKind
<1>4. Locks(q)  BY <1>3 DEF Locks
<1>5. Holds(q, x) /\ x \in Entry /\ x[1] = frames[q].at
  BY <1>2, <1>4, StepFacts, FrameFacts DEF FrameOK, Holds, Locked
<1>6. lock[x] = f.tag  BY <1>2, <1>3, <1>5, StepFacts DEF Entries, Tagged
<1>7. dir[x].owner = f.at /\ f.at # None  BY <1>1, StepFacts DEF DownUp
<1>8. f.at \in Mod
  <2>1. x \in Entry /\ dir[x].owner \in Mod \cup {None}
    BY <1>5, StepFacts DEF IInv, TypeOK
  <2> QED  BY <1>7, <2>1
<1>9. f.at \in dir[x].sharers /\ Low[f.at] = x[1]
  <2>1. EntryOK(x)  BY <1>5, StepFacts DEF IInv
  <2> QED  BY <1>7, <1>8, <2>1, TreeAssumption DEF EntryOK
<1> QED  BY <1>1, <1>2, <1>3, <1>5, <1>6, <1>7, <1>8, <1>9 DEF Matches

\* When request down-up k answers, its caller has all that it has asked for.
LEMMA OneRequestDown ==
  ASSUME NEW k, NEW p, Step(k, p), frames[k].kind = "readDU", frames[k].ev # "reply",
         NEW q, q = frames[k].ret, NEW c \in Children(q), frames[c].ev # "reply"
  PROVE  c = k
<1>1. PICK x : x = Locked(q)  OBVIOUS
<1>2. /\ q \in InFlight /\ frames[q].ev = "finish" /\ frames[q].kind \in {"readUD", "readDU"}
      /\ dir[x].owner = frames[k].at /\ k \in Children(q)
  BY <1>1, DataCaller
<1>3. c \in InFlight /\ frames[c].ret = q /\ frames[c].kind \notin AccessKind
  BY DEF Children
<1>4. /\ CallOK(c) /\ CalledFor(c) /\ DownUp(c)
      /\ frames[c].kind \in {"readUD", "readDU", "writeUD", "writeDU", "evict", "invalidate"}
  BY <1>3, StepFacts, FrameFacts, KindsPlain DEF Entries, Levels
<1>5. frames[c].kind = "readDU"
  BY <1>2, <1>3, <1>4 DEF CallOK, CalledFor
<1>6. frames[c].at = frames[k].at
  BY <1>1, <1>2, <1>3, <1>4, <1>5 DEF DownUp
<1>7. /\ c = <<c[1], q, "readDU", c[4]>> /\ c[1] = q[1] /\ c[4] = frames[c].at
      /\ k = <<k[1], q, "readDU", k[4]>> /\ k[1] = q[1] /\ k[4] = frames[k].at
  <2>1. k = <<k[1], q, "readDU", k[4]>> /\ c = <<c[1], q, "readDU", c[4]>>
    BY <1>3, <1>5, StepFacts DEF IInv, TypeOK
  <2> QED  BY <1>3, <1>4, <1>5, <2>1, StepFacts DEF CallOK, CalledFor
<1> QED  BY <1>6, <1>7

\* The caller of the request that gives data awaits nothing else.
LEMMA DataAwaited ==
  ASSUME NEW k, NEW p, Step(k, p), NEW q, GivesData(k, q), NEW x, x = Locked(q)
  PROVE  q \in InFlight' /\ Awaits(q, x)'
<1>1. /\ frames[k].kind = "readDU" /\ frames[k].ev = "finish" /\ q = frames[k].ret
      /\ Told(k, q)
  BY DEF GivesData
<1>2. /\ q \in InFlight /\ q # k /\ k \in Children(q)
      /\ frames[q].ev = "finish" /\ frames[q].kind \in {"readUD", "readDU"}
  BY <1>1, DataCaller
<1>3. /\ InFlight' = InFlight /\ Others(k, q) /\ Like(frames[k], frames'[k])
      /\ frames'[k].ev = "reply"
      /\ Like(frames[q], frames'[q]) /\ Placed(frames[q], frames'[q]) /\ frames'[q].ev = "finish"
  BY <1>1, <1>2 DEF Told, Alone, Goes
<1>4. Answered(q)'
  <2>1. SUFFICES ASSUME NEW c \in Children(q)', c # k  PROVE frames'[c].ev = "reply"
    BY <1>3 DEF Answered
  <2>2. c \in InFlight /\ c \in InFlight' /\ frames'[c].kind \notin AccessKind
        /\ frames'[c].ret = q
    BY <1>3, <2>1 DEF Children
  <2>3. frames[c].kind = frames'[c].kind /\ frames[c].ret = q
        /\ (frames[c].ev = "reply" => frames'[c].ev = "reply")
    BY <1>2, <1>3, <2>1, <2>2 DEF Others, Same, Like
  <2>4. c \in Children(q)  BY <2>2, <2>3 DEF Children
  <2>5. frames[c].ev = "reply"  BY <1>1, <2>1, <2>4, OneRequestDown
  <2> QED  BY <2>3, <2>5
<1>5. Locked(q)' = x  BY <1>3 DEF Locked, Like, Placed
<1>6. Locks(q)'  BY <1>2, <1>3 DEF Locks, Like
<1> QED  BY <1>2, <1>3, <1>4, <1>5, <1>6 DEF Awaits, Holds, Like

\* The owner gives the data: it is no longer exclusive, and stays the owner only if
\* it keeps the block owned.
LEMMA GivesDataFamily ==
  ASSUME NEW k, NEW p, Step(k, p), IInv', NEW q, GivesData(k, q), NEW M \in Mod, NEW t \in Tag
  PROVE  Family(M, t)'
<1>1. PICK f : f = frames[k]  OBVIOUS
<1>2. PICK d : d = Locked(k)  OBVIOUS
<1>3. PICK x : x = Locked(q)  OBVIOUS
<1>4. /\ f.kind = "readDU" /\ f.ev = "finish" /\ Locks(k) /\ q = f.ret /\ f.tag \in Tag
      /\ f.state \in Owned /\ Answered(k)
  BY <1>1, StepFacts DEF GivesData, Frame, DownUp, Answered, Idle
<1>5. d \in Entry /\ Matches(d, f.tag) /\ d[1] = f.at /\ Private(k, d)
  BY <1>1, <1>2, <1>4, StepFacts, LockedOwn DEF Locked
<1>6. /\ x \in Entry /\ x[1] = Low[f.at] /\ Matches(x, f.tag) /\ f.at \in Mod /\ Low[f.at] \in Mod
      /\ Low[f.at] # f.at
  <2>1. x \in Entry /\ x[1] = Low[f.at] /\ Matches(x, f.tag) /\ f.at \in Mod
    BY <1>1, <1>3, <1>4, DataCaller
  <2>2. x[1] \in Mod  BY <2>1 DEF Entry
  <2> QED  BY <2>1, <2>2, NotSelf
<1>7. blk[d].tag = f.tag /\ blk[d].state \in Owned
  <2>1. "I" \notin Owned  BY Rights
  <2> QED  BY <1>1, <1>2, <1>4, <2>1, StepFacts DEF Current
<1>8. PICK s : s = StateAfterRead(f)  OBVIOUS
<1>9. s \in {"O", "S"}
  <2>1. f.reply \in {"none", "ack", "ack_data"}  BY <1>1, <1>4, StepFacts DEF FrameOK
  <2> QED  BY <1>8, <2>1 DEF StateAfterRead
<1>10. /\ blk'[d].tag = f.tag /\ blk'[d].state = s
       /\ \A e \in Entry \ {d} : blk'[e] = blk[e]
  <2>1. Writes(d, f.tag, StateAfterRead(f))  BY <1>1, <1>2 DEF GivesData
  <2>2. Writes(d, f.tag, s)  BY ONLY <1>8, <2>1
  <2>3. IInv /\ d \in Entry  BY <1>5, StepFacts
  <2> QED  BY ONLY <2>2, <2>3, WritesAt
<1>11. /\ dir'[d].sharers = dir[d].sharers /\ dir'[d].owner = None
       /\ \A e \in Entry \ {d} : dir'[e] = dir[e]
  <2>1. PICK o : /\ dir' = [dir EXCEPT ![d].owner = o]
                 /\ o = IF f.reply = "none" THEN dir[d].owner ELSE None
    BY <1>1, <1>2 DEF GivesData
  <2>2. f.reply = "none" => dir[d].owner = None
    BY <1>1, <1>2, <1>4, StepFacts DEF Answer
  <2> QED  BY <1>5, <2>1, <2>2, StepFacts, OwnerAt
<1>12. ASSUME NEW S \in {Valid, Owned, Exclusive}, NEW m, m = f.at, NEW u, u = f.tag
       PROVE  /\ HasCopy(m, u, S)' <=> s \in S
              /\ S # Exclusive => HasCopy(m, u, S)
  <2>1. HasCopy(m, u, S)' <=> s \in S
    BY <1>1, <1>8, <1>12, DataHas
  <2>2. S # Exclusive => f.state \in S /\ "I" \notin S  BY <1>4, Rights
  <2> QED  BY <1>1, <1>4, <1>12, <2>1, <2>2, FoundHas
<1>13. ASSUME NEW m \in Mod, Low[m] = M, NEW S \in {Valid, Owned, Exclusive},
              ~(m = f.at /\ t = f.tag)
       PROVE  HasCopy(m, t, S)' <=> HasCopy(m, t, S)
  <2>1. ~Accepts(k) /\ ~Gives(k)
    BY <1>1, <1>4 DEF Accepts, Gives, GivesExclusive, GivesBlock
  <2>2. ~Moved(k, m, t) /\ Low[m] # None  BY <1>1, <1>13, <2>1, TreeAssumption DEF Moved
  <2> QED  BY <2>2, HasCopyStays
<1>14. \A m \in Mod : Low[m] = M =>
           /\ HasCopy(m, t, Valid)' <=> HasCopy(m, t, Valid)
           /\ HasCopy(m, t, Owned)' => HasCopy(m, t, Owned)
           /\ HasCopy(m, t, Exclusive)' => HasCopy(m, t, Exclusive)
           /\ Claimed(m, t) /\ HasCopy(m, t, Valid)' => Claimed(m, t)'
  <2>1. SUFFICES ASSUME NEW m \in Mod, Low[m] = M
        PROVE  /\ HasCopy(m, t, Valid)' <=> HasCopy(m, t, Valid)
               /\ HasCopy(m, t, Owned)' => HasCopy(m, t, Owned)
               /\ HasCopy(m, t, Exclusive)' => HasCopy(m, t, Exclusive)
               /\ Claimed(m, t) => Claimed(m, t)'
    OBVIOUS
  <2>2. Claimed(m, t) => Claimed(m, t)'
    <3>1. ~ \E y : Yields(k, y)  BY <1>1, <1>4 DEF Yields
    <3> QED  BY <3>1, ClaimedStays
  <2>3. CASE m = f.at /\ t = f.tag
    <3>1. "O" \in Valid /\ "S" \in Valid /\ "O" \notin Exclusive /\ "S" \notin Exclusive
          /\ Valid # Exclusive /\ Owned # Exclusive
      BY DEF Valid, Owned, Exclusive, State
    <3>2. HasCopy(m, t, Valid)' /\ HasCopy(m, t, Valid)
      BY <1>9, <1>12, <2>3, <3>1
    <3>3. HasCopy(m, t, Owned)  BY <1>12, <2>3, <3>1
    <3>4. ~HasCopy(m, t, Exclusive)'  BY <1>9, <1>12, <2>3, <3>1
    <3> QED  BY <2>2, <3>2, <3>3, <3>4
  <2>4. CASE ~(m = f.at /\ t = f.tag)
    BY <1>13, <2>1, <2>2, <2>4
  <2> QED  BY <2>3, <2>4
<1>15. \A m \in Mod, e \in Entry : Low[m] = M /\ e[1] = M /\ blk'[e].tag = t =>
           /\ HasCopy(m, t, Valid) /\ m \in dir'[e].sharers => HasCopy(m, t, Valid)'
           /\ HasCopy(m, t, Owned) /\ m = dir'[e].owner =>
                HasCopy(m, t, Owned)' \/ \E j \in InFlight' : Awaits(j, e)'
  <2>1. SUFFICES ASSUME NEW m \in Mod, NEW e \in Entry, Low[m] = M, e[1] = M, blk'[e].tag = t,
                        m = f.at, t = f.tag, m = dir'[e].owner
                 PROVE  \E j \in InFlight' : Awaits(j, e)'
    BY <1>13, <1>14
  <2>2. e # d  BY <1>5, <1>6, <2>1
  <2>3. blk'[e] = blk[e] /\ dir'[e] = dir[e]  BY <1>10, <1>11, <2>2
  <2>4. e = x
    <3>1. SUFFICES ASSUME e # x  PROVE FALSE  OBVIOUS
    <3>2. dir'[e].owner = None  BY <1>6, <2>1, <2>3, <3>1, StepFacts, NotInUse
    <3> QED  BY <2>1, <3>2, TreeAssumption
  <2> QED  BY <1>3, <2>4, DataAwaited
<1>16. ASSUME NEW e \in Entry, e[1] = M  PROVE Lasts(e, t)
  <2>1. CASE e # d
    <3>1. ~Resumes(k, e)  BY <1>2, <2>1 DEF Resumes
    <3> QED  BY <1>10, <1>11, <2>1, <3>1, LastsSame
  <2>2. CASE e = d /\ t # f.tag
    <3>1. ~Present(e, t) /\ ~Present(e, t)'  BY <1>7, <1>10, <2>2 DEF Present
    <3> QED  BY <3>1, LastsOther
  <2>3. CASE e = d /\ t = f.tag
    <3>1. ASSUME NEW m \in Mod, Low[m] = M  PROVE ~HasCopy(m, t, Owned)'
      <4>1. ~HasCopy(m, t, Owned)
        BY <1>1, <1>4, <1>5, <1>16, <2>3, <3>1, StepFacts DEF Answer
      <4> QED  BY <1>14, <3>1, <4>1
    <3>2. Present(e, t)'  BY <1>9, <1>10, <2>3 DEF Present
    <3>3. ASSUME NEW m \in dir[e].sharers  PROVE m \in Mod /\ Low[m] = M
      BY <1>16, <3>3, StepFacts DEF IInv, TypeOK, EntryOK
    <3> QED  BY <1>7, <1>11, <1>16, <2>3, <3>1, <3>2, <3>3 DEF Lasts
  <2> QED  BY <2>1, <2>2, <2>3
<1>17. Family(M, t) /\ IInv  BY DEF Step, Levels
<1> QED  BY <1>14, <1>15, <1>16, <1>17, FamilyStays

\* A module gives its block up: it is not a sharer any more.
LEMMA YieldsFamily ==
  ASSUME NEW k, NEW p, Step(k, p), IInv', NEW q, Yields(k, q), NEW M \in Mod, NEW t \in Tag
  PROVE  Family(M, t)'
<1>1. PICK f : f = frames[k]  OBVIOUS
<1>2. PICK d : d = Locked(k)  OBVIOUS
<1>3. PICK x : x = Locked(q)  OBVIOUS
<1>4. /\ f.kind = "writeDU" /\ f.ev = "exclusive" /\ Locks(k) /\ q = f.ret /\ f.tag \in Tag
      /\ f.state # "I" /\ dir[d].sharers = {} /\ dir' = dir
      /\ ~GivesData(k, q) /\ k \in InFlight
  BY <1>1, <1>2, StepFacts DEF Yields, GivesData, Frame
<1>5. d \in Entry /\ Matches(d, f.tag) /\ d[1] = f.at /\ Private(k, d)
  BY <1>1, <1>2, <1>4, StepFacts, LockedOwn DEF Locked
<1>6. Claims(k, f.at, f.tag)  BY <1>1, <1>4 DEF Claims
<1>7. /\ x \in Entry /\ x[1] = Low[f.at] /\ Matches(x, f.tag) /\ f.at \in Mod /\ Low[f.at] \in Mod
      /\ Low[f.at] # f.at
  <2>1. x \in Entry /\ x[1] = Low[f.at] /\ Matches(x, f.tag)
    <3>1. q = frames[k].ret /\ k \in InFlight  BY <1>1, <1>4
    <3> QED  BY <1>3, <1>6, <3>1, StepFacts, ClaimEntry
  <2>2. x[1] \in Mod /\ d[1] \in Mod  BY <1>5, <2>1 DEF Entry
  <2> QED  BY <1>5, <2>1, <2>2, NotSelf
<1>8. f.at \notin dir[x].sharers
  BY <1>1, <1>3, <1>4, StepFacts DEF DownUp
<1>9. blk[d].tag = f.tag  BY <1>1, <1>2, <1>4, StepFacts DEF Current
<1>10. /\ blk'[d].tag = None /\ blk'[d].state = "I"
       /\ \A e \in Entry \ {d} : blk'[e] = blk[e]
  <2>1. Writes(d, None, "I")  BY <1>1, <1>2 DEF Yields
  <2>2. IInv /\ d \in Entry  BY <1>5, StepFacts
  <2> QED  BY ONLY <2>1, <2>2, WritesAt
<1>11. ASSUME NEW m, m = f.at, NEW u, u = f.tag, NEW S \in {Valid, Owned, Exclusive}
       PROVE  ~HasCopy(m, u, S)'
  BY <1>1, <1>4, <1>11, DataHas
<1>12. ASSUME NEW m \in Mod, Low[m] = M, NEW S \in {Valid, Owned, Exclusive},
              ~(m = f.at /\ t = f.tag)
       PROVE  HasCopy(m, t, S)' <=> HasCopy(m, t, S)
  <2>1. ~Accepts(k) /\ ~Gives(k)
    BY <1>1, <1>4 DEF Accepts, Gives, GivesExclusive, GivesBlock
  <2>2. ~Moved(k, m, t) /\ Low[m] # None  BY <1>1, <1>12, <2>1, TreeAssumption DEF Moved
  <2> QED  BY <2>2, HasCopyStays
<1>13. CASE M = f.at /\ t = f.tag
  <2>1. ASSUME NEW m \in Mod, Low[m] = M  PROVE ~HasCopy(m, t, Valid)'
    <3>1. m # f.at  BY <1>7, <1>13, <2>1
    <3>2. m \notin dir[d].sharers /\ Low[m] = d[1]  BY <1>4, <1>5, <1>13, <2>1
    <3>3. Covered(d[1], t)  BY <1>5, <1>13, StepFacts DEF Levels, Family
    <3>4. ~HasCopy(m, t, Valid)
      BY <1>5, <1>13, <2>1, <3>2, <3>3, StepFacts, NobodyAbove
    <3> QED  BY <1>12, <2>1, <3>1, <3>4
  <2>2. ASSUME NEW e \in Entry, e[1] = M, blk'[e].tag = t
        PROVE  dir'[e].sharers = {} /\ dir'[e].owner = None
    <3>1. e # d  BY <1>10, <2>2, TreeAssumption
    <3>2. blk'[e] = blk[e] /\ dir'[e] = dir[e]  BY <1>4, <1>10, <3>1
    <3> QED  BY <1>5, <1>13, <2>2, <3>1, <3>2, StepFacts, NotInUse
  <2> QED  BY <2>1, <2>2, FamilyLeaves
<1>14. CASE ~(M = f.at /\ t = f.tag)
  <2>1. \A m \in Mod : Low[m] = M =>
           /\ HasCopy(m, t, Valid)' => HasCopy(m, t, Valid)
           /\ HasCopy(m, t, Owned)' => HasCopy(m, t, Owned)
           /\ HasCopy(m, t, Exclusive)' => HasCopy(m, t, Exclusive)
           /\ Claimed(m, t) /\ HasCopy(m, t, Valid)' => Claimed(m, t)'
    <3>1. SUFFICES ASSUME NEW m \in Mod, Low[m] = M
                   PROVE  /\ HasCopy(m, t, Valid)' => HasCopy(m, t, Valid)
                          /\ HasCopy(m, t, Owned)' => HasCopy(m, t, Owned)
                          /\ HasCopy(m, t, Exclusive)' => HasCopy(m, t, Exclusive)
                          /\ Claimed(m, t) /\ HasCopy(m, t, Valid)' => Claimed(m, t)'
      OBVIOUS
    <3>2. CASE m = f.at /\ t = f.tag  BY <1>11, <3>2
    <3>3. CASE ~(m = f.at /\ t = f.tag)
      <4>1. Claimed(m, t) => Claimed(m, t)'  BY <1>1, <3>3, ClaimedStays
      <4> QED  BY <1>12, <3>1, <3>3, <4>1
    <3> QED  BY <3>2, <3>3
  <2>2. \A m \in Mod, e \in Entry : Low[m] = M /\ e[1] = M /\ blk'[e].tag = t =>
           /\ HasCopy(m, t, Valid) /\ m \in dir'[e].sharers => HasCopy(m, t, Valid)'
           /\ HasCopy(m, t, Owned) /\ m = dir'[e].owner =>
                HasCopy(m, t, Owned)' \/ \E j \in InFlight' : Awaits(j, e)'
    <3>1. SUFFICES ASSUME NEW m \in Mod, NEW e \in Entry, Low[m] = M, e[1] = M, blk'[e].tag = t,
                          m = f.at, t = f.tag
                   PROVE  m \notin dir'[e].sharers /\ m # dir'[e].owner
      BY <1>12
    <3>2. e # d  BY <1>5, <1>7, <3>1
    <3>3. blk'[e] = blk[e] /\ dir'[e] = dir[e]  BY <1>4, <1>10, <3>2
    <3>4. m \notin dir[e].sharers
      <4>1. CASE e = x  BY <1>8, <3>1, <4>1
      <4>2. CASE e # x  BY <1>7, <3>1, <3>3, <4>2, StepFacts, NotInUse
      <4> QED  BY <4>1, <4>2
    <3>5. dir[e].owner # None => dir[e].owner \in dir[e].sharers
      BY StepFacts DEF IInv, EntryOK
    <3> QED  BY <3>3, <3>4, <3>5, TreeAssumption
  <2>3. ASSUME NEW e \in Entry, e[1] = M  PROVE Lasts(e, t)
    <3>1. CASE e # d
      <4>1. ~Resumes(k, e)  BY <1>2, <3>1 DEF Resumes
      <4> QED  BY <1>4, <1>10, <3>1, <4>1, LastsSame
    <3>2. CASE e = d
      <4>1. t # f.tag  BY <1>5, <1>14, <2>3, <3>2
      <4>2. ~Present(e, t) /\ ~Present(e, t)'  BY <1>9, <1>10, <3>2, <4>1 DEF Present
      <4> QED  BY <4>2, LastsOther
    <3> QED  BY <3>1, <3>2
  <2>4. Family(M, t) /\ IInv  BY DEF Step, Levels
  <2> QED  BY <2>1, <2>2, <2>3, <2>4, FamilyStays
<1> QED  BY <1>13, <1>14

\* One module above has the block, and the entry says so.
LEMMA SoleFamily ==
  ASSUME NEW d \in Entry, NEW M, M = d[1], NEW t \in Tag, NEW m \in Mod, Low[m] = M,
         HasCopy(m, t, Valid)', HasCopy(m, t, Owned)',
         \A n \in Mod : Low[n] = M /\ n # m =>
           ~HasCopy(n, t, Valid)' /\ ~HasCopy(n, t, Owned)' /\ ~HasCopy(n, t, Exclusive)',
         Present(d, t)', blk'[d].state \in Exclusive,
         dir'[d].owner = m, dir'[d].sharers = {m},
         \A e \in Entry : e[1] = M /\ e # d /\ blk'[e].tag = t =>
           dir'[e].sharers = {} /\ dir'[e].owner = None
  PROVE  Family(M, t)'
<1>1. ASSUME NEW n \in Mod, Low[n] = M, HasCopy(n, t, Valid)'  PROVE Covers(d, n, t)'
  <2>1. n = m  BY <1>1
  <2> QED  BY <2>1 DEF Covers
<1>2. Covered(M, t)'  BY <1>1 DEF Covered
<1>3. Together(M, t)'  BY DEF Together
<1>4. ASSUME NEW e \in Entry, e[1] = M, blk'[e].tag = t
      PROVE  SharersHave(e, t)' /\ OwnerHasIt(e, t)'
  <2>1. CASE e = d  BY <2>1 DEF SharersHave, OwnerHasIt
  <2>2. CASE e # d  BY <1>4, <2>2 DEF SharersHave, OwnerHasIt
  <2> QED  BY <2>1, <2>2
<1> QED  BY <1>2, <1>3, <1>4 DEF Family

\* Request k, which succeeds, and the entry it has.
LEMMA GivesAt ==
  ASSUME NEW k, NEW p, Step(k, p), Gives(k), NEW d, d = Locked(k),
         NEW m, m = frames[k].from, NEW t, t = frames[k].tag
  PROVE  /\ d \in Entry /\ Private(k, d) /\ Matches(d, t) /\ t \in Tag
         /\ d[1] = frames[k].at /\ m \in Mod /\ Low[m] = d[1] /\ d[1] \in Mod
         /\ blk[d].state # "I" => blk[d].tag = t
         /\ blk'[d].tag = t /\ blk'[d].state # "I"
         /\ \A e \in Entry \ {d} : blk'[e] = blk[e] /\ dir'[e] = dir[e]
<1>1. /\ frames[k].kind \in {"readUD", "writeUD"} /\ frames[k].ev = "finish" /\ Locks(k)
      /\ t \in Tag /\ m \in Mod
  BY StepFacts DEF Gives, GivesExclusive, GivesBlock, Frame
<1>2. d \in Entry /\ Matches(d, t) /\ d[1] = frames[k].at /\ Private(k, d)
  BY <1>1, StepFacts, LockedOwn DEF Locked
<1>3. Low[m] = d[1] /\ d[1] \in Mod  BY <1>1, <1>2, StepFacts DEF FrameOK, Entry
<1>4. blk[d].state # "I" => blk[d].tag = t
  <2>1. Current(k)  BY StepFacts
  <2> QED  BY <1>1, <2>1 DEF Current
<1>5. CASE GivesExclusive(k)
  <2>1. Writes(d, t, "E")  BY <1>5 DEF GivesExclusive
  <2>2. IInv  BY StepFacts
  <2>3. blk'[d].tag = t /\ blk'[d].state = "E" /\ \A e \in Entry \ {d} : blk'[e] = blk[e]
    BY ONLY <1>2, <2>1, <2>2, WritesAt
  <2>4. PICK o : dir' = [dir EXCEPT ![d] = o]  BY <1>5 DEF GivesExclusive
  <2>5. \A e \in Entry \ {d} : dir'[e] = dir[e]  BY <1>2, <2>2, <2>4, DirAt
  <2> QED  BY <1>1, <1>2, <1>3, <1>4, <2>3, <2>5
<1>6. CASE \E q : GivesBlock(k, q)
  <2>1. PICK q : GivesBlock(k, q)  BY <1>6
  <2>2. blk' = blk  BY <2>1 DEF GivesBlock
  <2>3. PICK o : dir' = [dir EXCEPT ![d] = o]  BY <2>1 DEF GivesBlock
  <2>4. \A e \in Entry \ {d} : dir'[e] = dir[e]  BY <1>2, <2>3, StepFacts, DirAt
  <2>5. blk[d].state # "I"
    <3>1. frames[k].kind = "readUD"  BY <2>1 DEF GivesBlock
    <3> QED  BY <1>1, <3>1, StepFacts DEF ReliesOn
  <2> QED  BY <1>1, <1>2, <1>3, <1>4, <2>2, <2>4, <2>5
<1> QED  BY <1>5, <1>6 DEF Gives

\* A block that is given changes nothing elsewhere.
LEMMA GivesApart ==
  ASSUME NEW k, NEW p, Step(k, p), IInv', Gives(k), NEW M \in Mod, NEW t \in Tag,
         ~(M = frames[k].at /\ t = frames[k].tag)
  PROVE  Family(M, t)'
<1>1. PICK d : d = Locked(k)  OBVIOUS
<1>2. /\ d \in Entry /\ d[1] = frames[k].at /\ Low[frames[k].from] = d[1]
      /\ blk[d].state # "I" => blk[d].tag = frames[k].tag
      /\ blk'[d].tag = frames[k].tag
      /\ \A e \in Entry \ {d} : blk'[e] = blk[e] /\ dir'[e] = dir[e]
  BY <1>1, GivesAt
<1>3. ASSUME NEW m \in Mod, Low[m] = M  PROVE ~Moved(k, m, t)
  <2>1. ~ \E q : GivesData(k, q) \/ Yields(k, q)
    BY DEF Gives, GivesExclusive, GivesBlock, GivesData, Yields
  <2> QED  BY <1>2, <1>3, <2>1 DEF Moved
<1>4. ASSUME NEW e \in Entry, e[1] = M  PROVE Lasts(e, t)
  <2>1. CASE e # d
    <3>1. ~Resumes(k, e)  BY <1>1, <2>1 DEF Resumes
    <3> QED  BY <1>2, <2>1, <3>1, LastsSame
  <2>2. CASE e = d
    <3>1. t # frames[k].tag  BY <1>2, <1>4, <2>2
    <3>2. ~Present(e, t) /\ ~Present(e, t)'  BY <1>2, <2>2, <3>1 DEF Present
    <3> QED  BY <3>2, LastsOther
  <2> QED  BY <2>1, <2>2
<1> QED  BY <1>3, <1>4, FamilyApart

\* The other modules above, where the block is given
LEMMA GivesOthers ==
  ASSUME NEW k, NEW p, Step(k, p), Gives(k), NEW n, Low[n] # None, n # frames[k].from,
         NEW t \in Tag, NEW S \in {Valid, Owned, Exclusive}
  PROVE  HasCopy(n, t, S)' <=> HasCopy(n, t, S)
<1>1. ~ \E q : GivesData(k, q) \/ Yields(k, q)
  BY DEF Gives, GivesExclusive, GivesBlock, GivesData, Yields
<1>2. ~Moved(k, n, t)  BY <1>1 DEF Moved
<1> QED  BY <1>2, HasCopyStays

\* Nobody else above had the block.
LEMMA GivesSole ==
  ASSUME NEW k, NEW p, Step(k, p), IInv', Gives(k), NEW d, d = Locked(k),
         NEW M \in Mod, M = frames[k].at, NEW t \in Tag, t = frames[k].tag,
         dir[d].sharers \subseteq {frames[k].from}, blk'[d].state \in Exclusive,
         dir'[d].owner = frames[k].from, dir'[d].sharers = {frames[k].from},
         frames[k].kind = "readUD" => ~frames'[frames[k].ret].shared
  PROVE  Family(M, t)'
<1>1. PICK m : m = frames[k].from  OBVIOUS
<1>2. /\ d \in Entry /\ Private(k, d) /\ Matches(d, t)
      /\ d[1] = M /\ m \in Mod /\ Low[m] = M
      /\ blk'[d].tag = t /\ blk'[d].state # "I"
      /\ \A e \in Entry \ {d} : blk'[e] = blk[e] /\ dir'[e] = dir[e]
  BY <1>1, GivesAt
<1>3. HasCopy(m, t, Valid)' /\ HasCopy(m, t, Owned)'
  <2>1. "E" \in Valid /\ "E" \in Owned  BY DEF Valid, Owned, State
  <2> QED  BY <1>1, <2>1, GivesHas
<1>4. ASSUME NEW n \in Mod, Low[n] = M, n # m
      PROVE  ~HasCopy(n, t, Valid)' /\ ~HasCopy(n, t, Owned)' /\ ~HasCopy(n, t, Exclusive)'
  <2>1. Covered(M, t)  BY StepFacts DEF Levels, Family
  <2>2. n \notin dir[d].sharers  BY <1>1, <1>4
  <2>3. Owned \subseteq Valid /\ Exclusive \subseteq Valid  BY Rights
  <2>4. ~HasCopy(n, t, Valid) /\ ~HasCopy(n, t, Owned) /\ ~HasCopy(n, t, Exclusive)
    BY <1>2, <1>4, <2>1, <2>2, <2>3, StepFacts, NobodyAbove
  <2> QED  BY <1>1, <1>4, <2>4, GivesOthers, TreeAssumption
<1>5. ASSUME NEW e \in Entry, e[1] = M, e # d, blk'[e].tag = t
      PROVE  dir'[e].sharers = {} /\ dir'[e].owner = None
  BY <1>2, <1>5, StepFacts, NotInUse
<1>6. Present(d, t)'  BY <1>2 DEF Present
<1> QED  BY <1>1, <1>2, <1>3, <1>4, <1>5, <1>6, SoleFamily

\* Others have the block as well, or had it.
LEMMA GivesShared ==
  ASSUME NEW k, NEW p, Step(k, p), IInv', NEW q, GivesBlock(k, q), frames'[q].shared,
         NEW d, d = Locked(k),
         NEW M \in Mod, M = frames[k].at, NEW t \in Tag, t = frames[k].tag
  PROVE  Family(M, t)'
<1>1. PICK f : f = frames[k]  OBVIOUS
<1>2. PICK m : m = f.from  OBVIOUS
<1>3. /\ Gives(k) /\ f.kind = "readUD" /\ f.ev = "finish" /\ Answered(k) /\ Locks(k)
      /\ q = f.ret /\ blk' = blk
  BY <1>1, StepFacts DEF Gives, GivesBlock, Answered, Idle
<1>4. /\ d \in Entry /\ Private(k, d) /\ Matches(d, t)
      /\ d[1] = M /\ m \in Mod /\ Low[m] = M
      /\ blk'[d].tag = t /\ blk'[d].state # "I" /\ blk[d] = blk'[d] /\ blk[d].tag = t
      /\ \A e \in Entry \ {d} : blk'[e] = blk[e] /\ dir'[e] = dir[e]
  BY <1>1, <1>2, <1>3, GivesAt
<1>5. /\ dir'[d].sharers = dir[d].sharers \cup {m}
      /\ dir'[d].owner = OwnerAfterRead(f, dir[d].owner)
  <2>1. PICK s : s = SharedAfterRead(f, dir[d].sharers \cup {m})  OBVIOUS
  <2>2. s  BY <1>1, <1>2, <2>1 DEF GivesBlock
  <2>3. PICK o : o = [sharers |-> dir[d].sharers \cup {m},
                      owner |-> IF s THEN OwnerAfterRead(f, dir[d].owner) ELSE m]
    OBVIOUS
  <2>4. dir' = [dir EXCEPT ![d] = o]  BY <1>1, <1>2, <2>1, <2>3 DEF GivesBlock
  <2>5. dir'[d] = o  BY <1>4, <2>4, StepFacts, DirAt
  <2>6. o.sharers = dir[d].sharers \cup {m} /\ o.owner = OwnerAfterRead(f, dir[d].owner)
    BY ONLY <2>2, <2>3
  <2> QED  BY ONLY <2>5, <2>6
<1>6. Family(M, t)  BY StepFacts DEF Levels
<1>7. /\ dir[d].owner # m
      /\ \A n \in Mod : Low[n] = M => ~HasCopy(n, t, Exclusive)
      /\ IF f.retain THEN HasCopy(dir[d].owner, t, Owned)
         ELSE \A n \in Mod : Low[n] = M => ~HasCopy(n, t, Owned)
  <2>1. Answer(k)  BY StepFacts
  <2> QED  BY <1>1, <1>2, <1>3, <2>1 DEF Answer
<1>8. ASSUME NEW n \in Mod, Low[n] = M, HasCopy(n, t, Valid)
      PROVE  /\ Present(d, t) /\ n \in dir[d].sharers
             /\ HasCopy(n, t, Owned) => dir[d].owner = n /\ blk[d].state \in Exclusive
  BY <1>4, <1>6, <1>8, StepFacts, CoverAt DEF Family
<1>9. Owned \subseteq Valid /\ Exclusive \subseteq Valid  BY Rights
<1>10. ASSUME NEW n \in Mod, Low[n] = M, HasCopy(n, t, Owned)  PROVE HasCopy(n, t, Valid)
  BY <1>9, <1>10, CopyMonotone
<1>11. HasCopy(m, t, Valid)' /\ ~HasCopy(m, t, Owned)' /\ ~HasCopy(m, t, Exclusive)'
  <2>1. "S" \in Valid /\ "S" \notin Owned /\ "S" \notin Exclusive
    BY DEF Valid, Owned, Exclusive, State
  <2>2. ~HasCopy(m, t, Owned) /\ ~HasCopy(m, t, Exclusive)  BY <1>4, <1>7, <1>8, <1>10
  <2> QED  BY <1>1, <1>2, <1>3, <2>1, <2>2, GivesHas
<1>12. ASSUME NEW n \in Mod, Low[n] = M, n # m, NEW S \in {Valid, Owned, Exclusive}
       PROVE  HasCopy(n, t, S)' <=> HasCopy(n, t, S)
  BY <1>1, <1>2, <1>3, <1>12, GivesOthers, TreeAssumption
<1>13. ASSUME NEW n \in Mod, Low[n] = M, HasCopy(n, t, Valid)'  PROVE Covers(d, n, t)'
  <2>1. Present(d, t)'  BY <1>4 DEF Present
  <2>2. CASE n = m
    <3>1. n \in dir'[d].sharers /\ ~HasCopy(n, t, Owned)'  BY <1>5, <1>11, <2>2
    <3> QED  BY <1>4, <1>13, <2>1, <3>1 DEF Covers
  <2>3. CASE n # m
    <3>1. HasCopy(n, t, Valid) /\ (HasCopy(n, t, Owned)' <=> HasCopy(n, t, Owned))
      BY <1>12, <1>13, <2>3
    <3>2. n \in dir'[d].sharers  BY <1>5, <1>8, <1>13, <3>1
    <3>3. ASSUME HasCopy(n, t, Owned)'
          PROVE  dir'[d].owner = n /\ blk'[d].state \in Exclusive
      <4>1. dir[d].owner = n /\ blk[d].state \in Exclusive  BY <1>8, <1>13, <3>1, <3>3
      <4>2. f.retain  BY <1>7, <1>13, <3>1, <3>3
      <4> QED  BY <1>4, <1>5, <4>1, <4>2 DEF OwnerAfterRead
    <3> QED  BY <1>4, <1>13, <2>1, <3>2, <3>3 DEF Covers
  <2> QED  BY <2>2, <2>3
<1>14. Covered(M, t)'  BY <1>4, <1>13 DEF Covered
<1>15. ASSUME NEW n \in Mod, NEW i \in Mod, n # i, Low[n] = M, Low[i] = M
       PROVE  /\ ~HasCopy(n, t, Exclusive)'
              /\ HasCopy(n, t, Owned)' => ~HasCopy(i, t, Owned)'
  <2>1. ~HasCopy(n, t, Exclusive)'  BY <1>7, <1>11, <1>12, <1>15
  <2>2. ASSUME HasCopy(n, t, Owned)', HasCopy(i, t, Owned)'  PROVE FALSE
    <3>1. HasCopy(n, t, Owned) /\ HasCopy(i, t, Owned)  BY <1>11, <1>12, <1>15, <2>2
    <3> QED  BY <1>6, <1>15, <3>1 DEF Family, Together
  <2> QED  BY <2>1, <2>2
<1>16. Together(M, t)'  BY <1>15 DEF Together
<1>17. ASSUME NEW n \in dir[d].sharers  PROVE n \in Mod /\ Low[n] = M /\ HasCopy(n, t, Valid)
  <2>1. n \in Mod /\ Low[n] = M  BY <1>4, StepFacts DEF IInv, TypeOK, EntryOK
  <2> QED  BY <1>4, <1>6, <2>1 DEF Family, SharersHave
<1>18. ASSUME NEW e \in Entry, e[1] = M, blk'[e].tag = t
       PROVE  SharersHave(e, t)' /\ OwnerHasIt(e, t)'
  <2>1. CASE e # d
    <3>1. dir'[e].sharers = {} /\ dir'[e].owner = None
      BY <1>4, <1>18, <2>1, StepFacts, NotInUse
    <3> QED  BY <3>1 DEF SharersHave, OwnerHasIt
  <2>2. CASE e = d
    <3>1. ASSUME NEW n \in dir'[d].sharers  PROVE HasCopy(n, t, Valid)'
      <4>1. CASE n = m  BY <1>11, <4>1
      <4>2. CASE n # m  BY <1>5, <1>12, <1>17, <3>1, <4>2
      <4> QED  BY <4>1, <4>2
    <3>2. PICK o : o = dir'[d].owner  OBVIOUS
    <3>3. ASSUME o # None  PROVE HasCopy(o, t, Owned)'
      <4>1. o # m /\ f.retain /\ o = dir[d].owner
        BY <1>1, <1>2, <1>5, <1>7, <3>2, <3>3 DEF OwnerAfterRead
      <4>2. o \in dir[d].sharers  BY <1>4, <3>3, <4>1, StepFacts DEF IInv, EntryOK
      <4>3. HasCopy(o, t, Owned)  BY <1>7, <4>1
      <4> QED  BY <1>12, <1>17, <4>1, <4>2, <4>3
    <3>4. OwnerHasIt(e, t)'  BY <2>2, <3>2, <3>3 DEF OwnerHasIt
    <3>5. SharersHave(e, t)'  BY <2>2, <3>1 DEF SharersHave
    <3> QED  BY <3>4, <3>5
  <2> QED  BY <2>1, <2>2
<1> QED  BY <1>14, <1>16, <1>18 DEF Family

\* A finite set that has one element at most
LEMMA OnlyMember ==
  ASSUME NEW S, IsFiniteSet(S), ~(Cardinality(S) > 1), NEW m \in S
  PROVE  S = {m}
<1>1. SUFFICES ASSUME NEW n \in S, n # m  PROVE FALSE  OBVIOUS
<1>2. IsFiniteSet({m}) /\ Cardinality({m}) = 1  BY FS_Singleton
<1>3. IsFiniteSet({m} \cup {n}) /\ Cardinality({m} \cup {n}) = 2
  <2>1. n \notin {m}  BY <1>1
  <2> QED  BY <1>2, <2>1, FS_AddElement
<1>4. Cardinality({m} \cup {n}) <= Cardinality(S) /\ Cardinality(S) \in Nat
  BY <1>1, FS_Subset, FS_CardinalityType
<1> QED  BY <1>3, <1>4

\* Nobody else has the block: the module becomes its owner.
LEMMA GivesAlone ==
  ASSUME NEW k, NEW p, Step(k, p), IInv', NEW q, GivesBlock(k, q), ~frames'[q].shared,
         NEW M \in Mod, M = frames[k].at, NEW t \in Tag, t = frames[k].tag
  PROVE  Family(M, t)'
<1>1. PICK f : f = frames[k]  OBVIOUS
<1>2. PICK d : d = Locked(k)  OBVIOUS
<1>3. PICK X : X = dir[d].sharers \cup {f.from}  OBVIOUS
<1>4. /\ Gives(k) /\ f.kind = "readUD" /\ f.ev = "finish" /\ Locks(k) /\ q = f.ret /\ blk' = blk
  BY <1>1 DEF Gives, GivesBlock
<1>5. d \in Entry  BY <1>1, <1>2, <1>4, GivesAt
<1>6. ~SharedAfterRead(f, X)  BY <1>1, <1>2, <1>3 DEF GivesBlock
<1>7. X = {f.from}
  <2>1. IsFiniteSet(X) /\ f.from \in X
    <3>1. IsFiniteSet(dir[d].sharers)  BY <1>5, StepFacts DEF Plain
    <3> QED  BY <1>3, <3>1, FS_AddElement
  <2>2. ~(Cardinality(X) > 1)  BY <1>6 DEF SharedAfterRead
  <2> QED  BY <2>1, <2>2, OnlyMember
<1>8. dir'[d].sharers = {f.from} /\ dir'[d].owner = f.from
  <2>1. PICK o : o = [sharers |-> X, owner |-> f.from]  OBVIOUS
  <2>2. dir' = [dir EXCEPT ![d] = o]  BY <1>1, <1>2, <1>3, <2>1 DEF GivesBlock
  <2>3. dir'[d] = o  BY <1>5, <2>2, StepFacts, DirAt
  <2> QED  BY <1>7, <2>1, <2>3
<1>9. blk'[d].state \in Exclusive
  <2>1. ~f.shared /\ f.state \notin {"O", "N", "S"}  BY <1>6 DEF SharedAfterRead
  <2>2. f.state \in State  BY <1>1, StepFacts DEF Frame
  <2>3. Current(k)  BY StepFacts
  <2>4. CASE f.state = "I"
    <3>1. blk[d].state = "E"  BY <1>1, <1>2, <1>4, <2>1, <2>3, <2>4 DEF Current
    <3> QED  BY <1>4, <3>1 DEF Exclusive
  <2>5. CASE f.state # "I"
    <3>1. blk[d].state = f.state  BY <1>1, <1>2, <1>4, <2>3, <2>5 DEF Current
    <3> QED  BY <1>4, <2>1, <2>2, <2>5, <3>1 DEF Exclusive, State
  <2> QED  BY <2>4, <2>5
<1>10. dir[d].sharers \subseteq {frames[k].from}  BY <1>1, <1>3, <1>7
<1> QED  BY <1>1, <1>2, <1>4, <1>8, <1>9, <1>10, GivesSole

\* Every step keeps a block and its directory entry consistent.
LEMMA FamilyStep ==
  ASSUME NEW k, NEW p, Step(k, p), IInv', NEW M \in Mod, NEW t \in Tag
  PROVE  Family(M, t)'
<1>1. CASE ~Transfer(k)  BY <1>1, SmallFamily
<1>2. CASE Accepts(k)  BY <1>2, AcceptsFamily
<1>3. CASE \E q : GivesData(k, q)  BY <1>3, GivesDataFamily
<1>4. CASE \E q : Yields(k, q)  BY <1>4, YieldsFamily
<1>5. CASE Gives(k)
  <2>1. CASE ~(M = frames[k].at /\ t = frames[k].tag)  BY <1>5, <2>1, GivesApart
  <2>2. CASE M = frames[k].at /\ t = frames[k].tag
    <3>1. ASSUME NEW q, GivesBlock(k, q)  PROVE Family(M, t)'
      <4>1. PICK d : d = Locked(k)  OBVIOUS
      <4>2. CASE frames'[q].shared  BY <2>2, <3>1, <4>1, <4>2, GivesShared
      <4>3. CASE ~frames'[q].shared  BY <2>2, <3>1, <4>3, GivesAlone
      <4> QED  BY <4>2, <4>3
    <3>2. ASSUME GivesExclusive(k)  PROVE Family(M, t)'
      <4>1. PICK d : d = Locked(k)  OBVIOUS
      <4>2. PICK f : f = frames[k]  OBVIOUS
      <4>3. /\ f.kind = "writeUD" /\ dir[d].sharers \subseteq {f.from}
            /\ Writes(d, f.tag, "E")
        BY <3>2, <4>1, <4>2 DEF GivesExclusive
      <4>4. IInv /\ d \in Entry  BY <1>5, <4>1, GivesAt, StepFacts
      <4>5. blk'[d].state \in Exclusive
        <5>1. blk'[d].state = "E"  BY ONLY <4>3, <4>4, WritesAt
        <5> QED  BY <5>1 DEF Exclusive
      <4>6. PICK o : o = [owner |-> f.from, sharers |-> {f.from}]  OBVIOUS
      <4>7. dir' = [dir EXCEPT ![d] = o]  BY <3>2, <4>1, <4>2, <4>6 DEF GivesExclusive
      <4>8. dir'[d] = o  BY <4>4, <4>7, DirAt
      <4> QED  BY <1>5, <2>2, <4>1, <4>2, <4>3, <4>5, <4>6, <4>8, GivesSole
    <3> QED  BY <1>5, <3>1, <3>2 DEF Gives
  <2> QED  BY <2>1, <2>2
<1> QED  BY <1>1, <1>2, <1>3, <1>4, <1>5 DEF Transfer

-----------------------------------------------------------------------------
(***************************************************************************)
(* Requests down-up.                                                       *)
(***************************************************************************)
\* What is known of each frame in a step
LEMMA EachFrame ==
  ASSUME NEW k, NEW p, Step(k, p), NEW j \in InFlight
  PROVE  /\ FrameOK(j) /\ CallOK(j) /\ ReliesOn(j) /\ CalledFor(j) /\ Tagged(j) /\ Current(j)
         /\ DownUp(j) /\ Answer(j) /\ PlainFrame(j) /\ frames[j] \in Frame(frames[j].ret)
         /\ frames[j].kind \notin AccessKind =>
              /\ frames[j].ret \in InFlight /\ j \in Children(frames[j].ret)
              /\ frames[j].ret # k
              /\ frames[j].kind \in {"readUD", "readDU", "writeUD", "writeDU", "evict", "invalidate"}
<1>1. /\ FrameOK(j) /\ CallOK(j) /\ ReliesOn(j) /\ CalledFor(j) /\ Tagged(j) /\ Current(j)
      /\ DownUp(j) /\ Answer(j) /\ PlainFrame(j) /\ frames[j] \in Frame(frames[j].ret)
  BY StepFacts, FrameFacts DEF Entries, Levels, Plain
<1>2. ASSUME frames[j].kind \notin AccessKind
      PROVE  /\ frames[j].ret \in InFlight /\ j \in Children(frames[j].ret)
             /\ frames[j].ret # k
  <2>1. frames[j].ret \in InFlight  BY <1>2, StepFacts DEF IInv, TypeOK
  <2>2. j \in Children(frames[j].ret)  BY <1>2 DEF Children
  <2> QED  BY <2>1, <2>2, StepFacts DEF Idle
<1>3. frames[j].kind \notin AccessKind =>
        frames[j].kind \in {"readUD", "readDU", "writeUD", "writeDU", "evict", "invalidate"}
  BY StepFacts, KindsPlain
<1> QED  BY <1>1, <1>2, <1>3

\* What another frame than k hears of the step
LEMMA Hears ==
  ASSUME NEW k, NEW p, Step(k, p), NEW j \in InFlight, j # k
  PROVE  \/ Same(j)
         \/ /\ j = frames[k].ret /\ Told(k, j) /\ frames[k].kind \notin AccessKind
            /\ Passes(k) \/ GivesBlock(k, j) \/ GivesData(k, j) \/ Yields(k, j)
         \/ EvictionFails(k, j) \/ EvictionEnds(k, j)
<1>1. CASE Others(k, k)  BY <1>1 DEF Others
<1>2. CASE \E q : EvictionFails(k, q) \/ EvictionEnds(k, q)
  <2>1. PICK q : EvictionFails(k, q) \/ EvictionEnds(k, q)  BY <1>2
  <2>2. Others(k, q)  BY <2>1 DEF EvictionFails, EvictionEnds, Returns
  <2> QED  BY <2>1, <2>2 DEF Others
<1>3. CASE \E q : GivesBlock(k, q) \/ GivesData(k, q) \/ Yields(k, q)
  <2>1. PICK q : GivesBlock(k, q) \/ GivesData(k, q) \/ Yields(k, q)  BY <1>3
  <2>2. Told(k, q) /\ q = frames[k].ret /\ frames[k].kind \notin AccessKind
    BY <2>1 DEF GivesBlock, GivesData, Yields, AccessKind
  <2>3. Others(k, q)  BY <2>2 DEF Told, Alone
  <2> QED  BY <2>1, <2>2, <2>3 DEF Others
<1>4. CASE Passes(k)
  <2>1. Told(k, frames[k].ret) /\ frames[k].kind \notin AccessKind
    BY <1>4 DEF Passes, ToldError, AccessKind
  <2>2. Others(k, frames[k].ret)  BY <2>1 DEF Told, Alone
  <2> QED  BY <1>4, <2>1, <2>2 DEF Others
<1>5. \/ Others(k, k)
      \/ Passes(k)
      \/ \E q : \/ EvictionFails(k, q) \/ EvictionEnds(k, q)
                \/ GivesBlock(k, q) \/ GivesData(k, q) \/ Yields(k, q)
  <2>1. \/ Looks(k) \/ GivesUp(k) \/ Settles(k) \/ InvalidationEnds(k) \/ SendsDown(k)
        \/ Accepts(k) \/ Refuses(k) \/ Received(k) \/ Fills(k) \/ GivesExclusive(k)
        \/ (\E e \in Entry : Gets(k, e))
        \/ (\E v : Alone(k, k) /\ Goes(k, v))
        => Others(k, k)
    BY DEF Looks, GivesUp, Settles, InvalidationEnds, SendsDown, Accepts, Refuses,
       Received, Fills, GivesExclusive, Gets, Alone, Ended
  <2>2. (\E v, N : Called(k, v, N)) => Others(k, k)  BY DEF Called
  <2>3. AsksOwner(k) => Others(k, k)  BY <2>1, <2>2 DEF AsksOwner
  <2>4. Takes(k) \/ (\E e \in Entry : Replaces(k, e)) => Others(k, k)
    BY <2>2 DEF Takes, Replaces
  <2>5. (\E v, N : CallsUp(k, v, N)) => Others(k, k)  BY <2>2 DEF CallsUp
  <2>6. AsksExclusive(k) => Others(k, k)  BY <2>1, <2>5 DEF AsksExclusive
  <2> QED  BY <2>1, <2>3, <2>4, <2>5, <2>6, StepFacts DEF Does
<1> QED  BY <1>1, <1>2, <1>3, <1>4, <1>5

\* An entry that another frame counts on does not change.
LEMMA EntryHeld ==
  ASSUME NEW k, NEW p, Step(k, p), NEW i \in InFlight, i # k, NEW e \in Entry, CountsOn(i, e),
         i # frames[k].ret \/ frames[k].kind # "evict" \/ k \in InFlight'
  PROVE  blk'[e] = blk[e] /\ dir'[e] = dir[e] /\ lock'[e] = lock[e]
<1>1. Footprint(k)  BY StepFacts, FootprintOne
<1>2. CASE NoEntry  BY <1>2 DEF NoEntry
<1>3. CASE ~NoEntry
  <2>1. PICK d \in Entry : Private(k, d) /\ AtMost(d)  BY <1>1, <1>3 DEF Footprint
  <2>2. e # d  BY <2>1, StepFacts, Untouched
  <2> QED  BY <2>1, <2>2 DEF AtMost
<1> QED  BY <1>2, <1>3

\* The entry for which a request down-up was sent
LEMMA CallerKeeps ==
  ASSUME NEW k, NEW p, Step(k, p), NEW j \in InFlight, frames[j].kind \in {"readDU", "writeDU"},
         frames[j].ev # "reply", NEW i, i = frames[j].ret, NEW e, e = Locked(i)
  PROVE  /\ i \in InFlight /\ i # k /\ i \in InFlight' /\ Locked(i)' = e
         /\ e \in Entry /\ blk'[e] = blk[e] /\ dir'[e] = dir[e]
<1>1. /\ i \in InFlight /\ i # k /\ j \in Children(i) /\ CallOK(j) /\ CalledFor(j) /\ CallOK(i)
      /\ FrameOK(i)
  BY EachFrame DEF AccessKind
<1>2. /\ frames[i].ev = "finish"
      /\ frames[i].kind \in {"readUD", "readDU", "invalidate"}
  BY <1>1 DEF CallOK, CalledFor, FrameOK, AccessKind
<1>3. e \in Entry /\ CountsOn(i, e)
  BY <1>1, <1>2 DEF FrameOK, CountsOn, Holds, Locks
<1>4. i # frames[k].ret \/ frames[k].kind # "evict" \/ k \in InFlight'
  <2>1. SUFFICES ASSUME i = frames[k].ret, frames[k].kind = "evict"  PROVE FALSE
    OBVIOUS
  <2>2. CallOK(k)  BY StepFacts
  <2> QED  BY <1>2, <2>1, <2>2 DEF CallOK, AccessKind
<1>5. blk'[e] = blk[e] /\ dir'[e] = dir[e]  BY <1>1, <1>3, <1>4, EntryHeld
<1>6. i \in InFlight' /\ Like(frames[i], frames'[i]) /\ Placed(frames[i], frames'[i])
  <2>1. ~EvictionFails(k, i) /\ ~EvictionEnds(k, i)
    BY <1>2 DEF EvictionFails, EvictionEnds, Returns
  <2>2. CASE Same(i)  BY <2>2 DEF Same
  <2>3. CASE Told(k, i)  BY <1>1, <2>3 DEF Told, Alone
  <2> QED  BY <1>1, <2>1, <2>2, <2>3, Hears
<1> QED  BY <1>1, <1>3, <1>5, <1>6 DEF Locked, Like, Placed

\* A block that is to be taken away stays until then.
LEMMA TakenStays ==
  ASSUME NEW k, NEW p, Step(k, p), NEW d \in InFlight, NEW m, NEW t \in Tag, Claims(d, m, t),
         d # k \/ ~ \E q : Yields(k, q), HasCopy(m, t, Valid)
  PROVE  HasCopy(m, t, Valid)'
<1>1. Low[m] # None
  <2>1. PICK i : i = frames[d].ret  OBVIOUS
  <2>2. PICK e : e = Locked(i)  OBVIOUS
  <2>3. e \in Entry /\ e[1] = Low[m]  BY <2>1, <2>2, StepFacts, ClaimEntry
  <2>4. e[1] \in Mod  BY <2>3 DEF Entry
  <2> QED  BY <2>3, <2>4, TreeAssumption
<1>2. CASE ~Moved(k, m, t)  BY <1>1, <1>2, HasCopyStays
<1>3. CASE Accepts(k) /\ m = frames[k].from /\ t = frames[k].tag
  <2>1. PICK e : e = Locked(k)  OBVIOUS
  <2>2. frames[k].kind = "evict" /\ frames[k].ev = "action" /\ ~frames[k].err /\ k \in InFlight'
    BY <1>3, StepFacts DEF Accepts, Alone
  <2>3. Locks(k)  BY <2>2 DEF Locks
  <2>4. e \in Entry /\ Private(k, e) /\ Matches(e, t) /\ e[1] = frames[k].at
    BY <1>3, <2>1, <2>2, <2>3, StepFacts, LockedOwn DEF Locked
  <2>5. frames[k].at = Low[m]  BY <1>3, <2>2, StepFacts DEF CalledFor
  <2>6. ~Claimed(m, t)  BY <2>4, <2>5, StepFacts, NoClaim
  <2> QED  BY <2>6 DEF Claimed
<1>4. CASE Gives(k) /\ m = frames[k].from /\ t = frames[k].tag
  BY <1>4, GivesHas
<1>5. CASE (\E q : GivesData(k, q)) /\ m = frames[k].at /\ t = frames[k].tag
  <2>1. PICK q : GivesData(k, q)  BY <1>5
  <2>2. frames[k].kind = "readDU"  BY <2>1 DEF GivesData
  <2>3. frames[k].reply \in {"none", "ack", "ack_data"}  BY <2>2, StepFacts DEF FrameOK
  <2>4. StateAfterRead(frames[k]) \in {"O", "S"}  BY <2>3 DEF StateAfterRead
  <2>5. StateAfterRead(frames[k]) \in Valid  BY <2>4 DEF Valid, State
  <2> QED  BY <1>5, <2>1, <2>5, DataHas
<1>6. CASE (\E q : Yields(k, q)) /\ m = frames[k].at /\ t = frames[k].tag
  <2>1. Claims(k, m, t)  BY <1>6 DEF Yields, Claims
  <2>2. d = k  BY <2>1, StepFacts, OneClaim
  <2> QED  BY <1>6, <2>2
<1> QED  BY <1>2, <1>3, <1>4, <1>5, <1>6 DEF Moved

\* The block of an invalidation when data has come back from above
LEMMA DataTaken ==
  ASSUME NEW k, NEW p, Step(k, p), NEW q, Yields(k, q), frames[k].state \notin {"E", "S"}
  PROVE  frames[q].state \in Exclusive
<1>1. PICK f : f = frames[k]  OBVIOUS
<1>2. PICK x : x = Locked(q)  OBVIOUS
<1>3. PICK m : m = f.at  OBVIOUS
<1>4. PICK t : t = f.tag  OBVIOUS
<1>5. /\ f.kind = "writeDU" /\ f.ev = "exclusive" /\ Locks(k) /\ q = f.ret /\ t \in Tag
      /\ f.state # "I" /\ Claims(k, m, t) /\ f.state \in State /\ k \in InFlight
  BY <1>1, <1>3, <1>4, StepFacts DEF Yields, Frame, Claims
<1>6. f.state # "N"
  <2>1. Locked(k) \in Entry /\ Current(k)  BY <1>5, StepFacts DEF FrameOK
  <2>2. blk[Locked(k)].state = f.state  BY <1>1, <1>5, <2>1 DEF Current
  <2> QED  BY <2>1, <2>2, StepFacts DEF Plain
<1>7. f.state \in Owned  BY <1>1, <1>5, <1>6 DEF Owned, State
<1>8. HasCopy(m, t, Owned) /\ HasCopy(m, t, Valid)
  <2>1. "I" \notin Owned /\ Owned \subseteq Valid  BY Rights
  <2>2. HasCopy(m, t, Owned)  BY <1>1, <1>3, <1>4, <1>5, <1>7, <2>1, FoundHas
  <2> QED  BY <2>1, <2>2, CopyMonotone
<1>9. /\ q \in InFlight /\ frames[q].kind = "invalidate"
      /\ x \in Entry /\ x[1] = Low[m] /\ Matches(x, t)
  BY <1>1, <1>2, <1>5, StepFacts, ClaimEntry
<1>10. m \in Mod /\ Low[m] \in Mod
  <2>1. m \in Mod  BY <1>1, <1>3, <1>5, StepFacts DEF FrameOK
  <2> QED  BY <1>9, <2>1 DEF Entry
<1>11. PICK e \in Entry : Covers(e, m, t)
  BY <1>5, <1>8, <1>10, StepFacts DEF Levels, Family, Covered
<1>12. e = x
  <2>1. e[1] = x[1] /\ Matches(e, t)  BY <1>9, <1>11 DEF Covers, Present, Matches
  <2> QED  BY <1>5, <1>9, <2>1, StepFacts, SameEntry
<1>13. blk[x].state \in Exclusive  BY <1>8, <1>11, <1>12 DEF Covers
<1>14. Current(q)  BY <1>9, EachFrame
<1> QED  BY <1>2, <1>9, <1>13, <1>14 DEF Current

\* Requests of other frames go on finding their block.
LEMMA OtherDownUp ==
  ASSUME NEW k, NEW p, Step(k, p), IInv', NEW j \in InFlight, j # k
  PROVE  j \in InFlight' /\ DownUp(j)'
<1>1. PICK f : f = frames[j]  OBVIOUS
<1>2. PICK g : g = frames'[j]  OBVIOUS
<1>3. DownUp(j)  BY EachFrame
<1>4. j \in InFlight' /\ Like(f, g)
  BY <1>1, <1>2, StepFacts DEF Shape, Others, Same
<1>5. CASE f.kind \in {"readDU", "writeDU"}
  <2>1. PICK i : i = f.ret  OBVIOUS
  <2>2. PICK e : e = Locked(i)  OBVIOUS
  <2>3. f.ev # "evicting" /\ ~f.err  BY <1>1, <1>3, <1>5 DEF DownUp
  <2>4. Placed(f, g) /\ g.err = f.err /\ (g.ev = f.ev \/ (f.ev = "lockWait" /\ g.ev = "lock"))
    <3>1. CASE Same(j)  BY <1>1, <1>2, <3>1 DEF Same, Results
    <3>2. CASE j = frames[k].ret /\ Told(k, j) /\ frames[k].kind \notin AccessKind
               /\ (Passes(k) \/ GivesBlock(k, j) \/ GivesData(k, j) \/ Yields(k, j))
      <4>1. Placed(f, g) /\ g.ev = f.ev  BY <1>1, <1>2, <3>2 DEF Told
      <4>2. ~Passes(k)
        <5>1. SUFFICES ASSUME Passes(k)  PROVE FALSE  OBVIOUS
        <5>2. frames[k].kind \in {"readUD", "writeUD", "writeDU"} /\ frames[k].err
          BY <5>1 DEF Passes
        <5>3. frames[k].kind # "writeDU"  BY <5>2, StepFacts DEF DownUpSucceeds
        <5>4. CalledFor(k)  BY StepFacts
        <5> QED  BY <1>1, <1>5, <3>2, <5>2, <5>3, <5>4 DEF CalledFor
      <4> QED  BY <1>1, <1>2, <3>2, <4>1, <4>2 DEF GivesBlock, GivesData, Yields
    <3>3. ~EvictionFails(k, j) /\ ~EvictionEnds(k, j)
      BY <1>1, <2>3 DEF EvictionFails, EvictionEnds, Returns
    <3> QED  BY <3>1, <3>2, <3>3, Hears
  <2>5. ASSUME f.ev # "reply"
        PROVE  /\ Locked(g.ret)' = e /\ dir'[e] = dir[e]
               /\ f.kind = "writeDU" => HasCopy(f.at, f.tag, Valid)'
    <3>1. Locked(i)' = e /\ dir'[e] = dir[e]
      BY <1>1, <1>5, <2>1, <2>2, <2>5, CallerKeeps
    <3>2. ASSUME f.kind = "writeDU"  PROVE HasCopy(f.at, f.tag, Valid)'
      <4>1. PICK m : m = f.at  OBVIOUS
      <4>2. PICK t : t = f.tag  OBVIOUS
      <4>3. Claims(j, m, t) /\ HasCopy(m, t, Valid)
        BY <1>1, <1>3, <2>5, <3>2, <4>1, <4>2 DEF Claims, DownUp
      <4>4. t \in Tag  BY <1>1, <4>2, EachFrame DEF Frame
      <4>5. HasCopy(m, t, Valid)'  BY <4>3, <4>4, TakenStays
      <4> QED  BY <4>1, <4>2, <4>5
    <3>3. g.ret = i  BY <1>4, <2>1 DEF Like
    <3> QED  BY <3>1, <3>2, <3>3
  <2>6. Locks(j)' => Locks(j)
    BY <1>1, <1>2, <1>4, <2>4 DEF Locks, Like
  <2>7. /\ g.kind = f.kind /\ g.at = f.at /\ g.tag = f.tag /\ g.ret = i /\ g.state = f.state
        /\ ~g.err /\ g.ev # "evicting" /\ (g.ev # "reply" => f.ev # "reply")
    BY <1>4, <2>1, <2>3, <2>4 DEF Like, Placed
  <2>8. f.ev # "reply" =>
          /\ f.kind = "readDU" => f.at # None /\ dir'[e].owner = f.at
          /\ f.kind = "writeDU" => f.at \notin dir'[e].sharers
    BY <1>1, <1>3, <2>1, <2>2, <2>5 DEF DownUp
  <2>9. f.ev # "reply" => Locked(i)' = e /\ (f.kind = "writeDU" => HasCopy(f.at, f.tag, Valid)')
    BY <2>5, <2>7
  <2>10. /\ f.kind = "readDU" /\ Locks(j)' => f.state \in Owned
         /\ f.kind = "writeDU" /\ Locks(j)' => f.state # "I"
    BY <1>1, <1>3, <2>6 DEF DownUp
  <2> QED  BY <1>2, <1>4, <1>5, <2>7, <2>8, <2>9, <2>10 DEF DownUp
<1>6. CASE f.kind = "invalidate"
  <2>1. g.kind = "invalidate"  BY <1>4, <1>6 DEF Like
  <2>2. g.reply = "ack_data" => g.state \in Exclusive
    <3>1. f.reply = "ack_data" => f.state \in Exclusive  BY <1>1, <1>3, <1>6 DEF DownUp
    <3>2. CASE Same(j)  BY <1>1, <1>2, <3>1, <3>2 DEF Same, Results, Placed
    <3>3. CASE Yields(k, j)
      <4>1. PICK r : r = IF frames[k].state \in {"E", "S"} THEN "ack" ELSE "ack_data"
        OBVIOUS
      <4>2. g.reply = HigherReply(f.reply, r) /\ g.state = f.state
        BY <1>1, <1>2, <3>3, <4>1 DEF Yields, Told, Placed
      <4>3. g.reply \in {f.reply, r}  BY <4>2 DEF HigherReply
      <4>4. r = "ack_data" => f.state \in Exclusive  BY <1>1, <3>3, <4>1, DataTaken
      <4> QED  BY <3>1, <4>2, <4>3, <4>4
    <3>4. CASE j = frames[k].ret /\ frames[k].kind \notin AccessKind
               /\ (Passes(k) \/ GivesBlock(k, j) \/ GivesData(k, j))
      <4>1. CalledFor(k) /\ CallOK(k)  BY StepFacts
      <4>2. frames[k].kind \in {"readUD", "readDU", "writeUD"}
        <5>1. Passes(k) => frames[k].kind # "writeDU"
          BY StepFacts DEF Passes, DownUpSucceeds
        <5> QED  BY <3>4, <5>1 DEF Passes, GivesBlock, GivesData
      <4> QED  BY <1>1, <1>6, <3>4, <4>1, <4>2 DEF CalledFor
    <3>5. ~EvictionFails(k, j) /\ ~EvictionEnds(k, j)
      <4>1. f.ev = "finish"  BY <1>1, <1>6, EachFrame DEF FrameOK
      <4> QED  BY <1>1, <4>1 DEF EvictionFails, EvictionEnds, Returns
    <3> QED  BY <3>2, <3>3, <3>4, <3>5, Hears
  <2> QED  BY <1>2, <1>4, <2>1, <2>2 DEF DownUp
<1>7. CASE f.kind \notin {"readDU", "writeDU", "invalidate"}
  BY <1>2, <1>4, <1>7 DEF DownUp, Like
<1> QED  BY <1>4, <1>5, <1>6, <1>7

\* The requests that take a block away, where it is
LEMMA NewTaking ==
  ASSUME NEW k, NEW p, Step(k, p), ~Transfer(k), NEW e \in Entry, NEW except,
         ClearSharers(e, except), NEW I, NEW q, Invalidates(I, q, e, except),
         \A n \in DOMAIN I : n \in InFlight' /\ frames'[n] = I[n],
         NEW n \in DOMAIN I
  PROVE  DownUp(n)'
<1>1. PICK i : i = Call(q, "invalidate", e[1])  OBVIOUS
<1>2. CASE n = i /\ IsInvalidation(I[n], q, e)
  BY <1>2 DEF IsInvalidation, DownUp
<1>3. CASE \E m \in Victims(e, except) : n = Call(i, "writeDU", m) /\ IsTaking(I[n], i, e, m)
  <2>1. PICK m \in Victims(e, except) : n = Call(i, "writeDU", m) /\ IsTaking(I[n], i, e, m)
    BY <1>3
  <2>2. PICK t : t = blk[e].tag  OBVIOUS
  <2>3. m \in dir[e].sharers /\ m \notin dir'[e].sharers
    <3>1. m \in dir[e].sharers  BY <2>1 DEF Victims
    <3>2. dir \in [Entry -> [owner : Mod \cup {None}, sharers : SUBSET Mod]]
      BY StepFacts DEF IInv, TypeOK
    <3>3. dir'[e].sharers = dir[e].sharers \ Victims(e, except)  BY <3>2 DEF ClearSharers
    <3> QED  BY <2>1, <3>1, <3>3
  <2>4. m \in Mod /\ Low[m] = e[1] /\ blk[e].state # "I" /\ t \in Tag
    BY <2>2, <2>3, StepFacts DEF IInv, TypeOK, EntryOK
  <2>5. e[1] \in Mod  BY DEF Entry
  <2>6. HasCopy(m, t, Valid)
    <3>1. Family(e[1], t)  BY <2>4, <2>5, StepFacts DEF Levels
    <3> QED  BY <2>2, <2>3, <3>1 DEF Family, SharersHave
  <2>7. HasCopy(m, t, Valid)'
    <3>1. ~Moved(k, m, t)  BY DEF Moved, Transfer
    <3>2. Low[m] # None  BY <2>4, <2>5, TreeAssumption
    <3> QED  BY <2>4, <2>6, <3>1, <3>2, HasCopyStays
  <2>8. Locked(i)' = e
    <3>1. i \in DOMAIN I /\ n # i  BY <1>1, <2>1 DEF Invalidates, Call
    <3>2. IsInvalidation(I[i], q, e)
      <4>1. \A m_1 \in Victims(e, except) : i # Call(i, "writeDU", m_1) \/ ~IsTaking(I[i], i, e, m_1)
        BY <1>1 DEF Call
      <4> QED  BY <1>1, <3>1, <4>1 DEF Invalidates
    <3>3. frames'[i].at = e[1] /\ frames'[i].way = e[2]  BY <3>1, <3>2 DEF IsInvalidation
    <3> QED  BY <3>3 DEF Locked, Entry
  <2>9. PICK g : g = frames'[n]  OBVIOUS
  <2>10. /\ g.kind = "writeDU" /\ g.ret = i /\ g.at = m /\ g.tag = t /\ g.ev = "lock" /\ ~g.err
    BY <2>1, <2>2, <2>9 DEF IsTaking
  <2>11. ~Locks(n)'  BY <2>9, <2>10 DEF Locks
  <2> QED  BY <2>3, <2>7, <2>8, <2>9, <2>10, <2>11 DEF DownUp
<1> QED  BY <1>1, <1>2, <1>3 DEF Invalidates

\* New requests find the block: the directory knows who has it.
LEMMA NewDownUp ==
  ASSUME NEW k, NEW p, Step(k, p), IInv', NEW n \in InFlight' \ InFlight
  PROVE  DownUp(n)'
<1>1. NewOK(n, k)  BY StepFacts DEF Shape
<1>2. CASE frames'[n].kind \notin {"readDU", "writeDU", "invalidate"}
  BY <1>2 DEF DownUp
<1>3. CASE frames'[n].kind \in {"readDU", "writeDU", "invalidate"}
  <2>1. ASSUME InFlight' \subseteq InFlight  PROVE FALSE
    BY <2>1
  <2>2. ~ \E v : Called(k, v, ReadUp(k)) \/ Called(k, v, WriteUp(k))
    BY <1>3 DEF Called, ReadUp, WriteUp, NewFrame
  <2>3. ASSUME NEW e \in Entry, Replaces(k, e)  PROVE DownUp(n)'
    <3>1. PICK N : Called(k, "evicting", N) /\ Evicts(N, k, e)
      BY <2>3 DEF Replaces
    <3>2. PICK I : /\ Invalidates(I, EvictKey(k), e, None)
                   /\ DOMAIN N = DOMAIN I \cup {EvictKey(k)}
                   /\ \A x \in DOMAIN I : N[x] = I[x]
      BY <3>1 DEF Evicts
    <3>3. n \in DOMAIN I
      <4>1. n \in DOMAIN N /\ frames'[n] = N[n]  BY <3>1 DEF Called
      <4>2. N[EvictKey(k)].kind = "evict"  BY <3>1 DEF Evicts, IsEviction
      <4> QED  BY <1>3, <3>2, <4>1, <4>2
    <3>4. \A x \in DOMAIN I : x \in InFlight' /\ frames'[x] = I[x]
      BY <3>1, <3>2 DEF Called
    <3>5. ClearSharers(e, None) /\ ~Transfer(k)
      BY <2>3 DEF Replaces, Transfer, Accepts, Gives, GivesExclusive, GivesBlock, GivesData, Yields
    <3> QED  BY <3>2, <3>3, <3>4, <3>5, NewTaking
  <2>4. ASSUME Takes(k)  PROVE DownUp(n)'
    <3>1. PICK e \in Entry : e = Locked(k)  BY <2>4, StepFacts DEF Takes, FrameOK
    <3>2. PICK N : Called(k, "exclusive", N) /\ Invalidates(N, k, e, frames[k].from)
      BY <2>4, <3>1 DEF Takes
    <3>3. n \in DOMAIN N /\ \A x \in DOMAIN N : x \in InFlight' /\ frames'[x] = N[x]
      BY <3>2 DEF Called
    <3>4. ClearSharers(e, frames[k].from) /\ ~Transfer(k)
      BY <2>4, <3>1 DEF Takes, Transfer, Accepts, Gives, GivesExclusive, GivesBlock, GivesData, Yields
    <3> QED  BY <3>2, <3>3, <3>4, NewTaking
  <2>5. ASSUME AsksOwner(k)  PROVE DownUp(n)'
    <3>1. PICK e : e = Locked(k)  OBVIOUS
    <3>2. PICK owner : owner = dir[e].owner  OBVIOUS
    <3>3. owner # None /\ \E peer : Called(k, "finish", ReadDown(k, owner, peer))
      BY <2>1, <2>5, <3>1, <3>2 DEF AsksOwner, Alone
    <3>4. PICK peer : Called(k, "finish", ReadDown(k, owner, peer))  BY <3>3
    <3>5. n \in DOMAIN ReadDown(k, owner, peer)  BY <3>4 DEF Called
    <3>6. frames[k].kind \in {"readUD", "readDU"}  BY <2>5 DEF AsksOwner
    <3>7. /\ frames'[n].kind = "readDU" /\ frames'[n].at = owner
          /\ frames'[n].ret = k /\ frames'[n].ev = "lock" /\ ~frames'[n].err
      BY <3>4, <3>5, <3>6, StepFacts, NewReadDown
    <3>8. Locked(k)' = e  BY <3>1, <3>4 DEF Called, Locked, Like, Placed
    <3>9. dir' = dir  BY <2>5 DEF AsksOwner, NoEntry
    <3>10. ~Locks(n)'  BY <3>7 DEF Locks
    <3> QED  BY <3>2, <3>3, <3>7, <3>8, <3>9, <3>10 DEF DownUp
  <2>6. ~ (Looks(k) \/ GivesUp(k) \/ Settles(k) \/ InvalidationEnds(k) \/ SendsDown(k)
           \/ Accepts(k) \/ Refuses(k) \/ Received(k) \/ Passes(k) \/ Fills(k)
           \/ GivesExclusive(k) \/ \E e \in Entry : Gets(k, e))
    BY <2>1 DEF Looks, GivesUp, Settles, InvalidationEnds, SendsDown, Accepts, Refuses,
         Received, Passes, Fills, GivesExclusive, Gets, Alone, Ended, ToldError, Told
  <2>7. ~ \E x : EvictionFails(k, x) \/ EvictionEnds(k, x) \/ GivesBlock(k, x)
                 \/ GivesData(k, x) \/ Yields(k, x)
    BY <2>1 DEF EvictionFails, EvictionEnds, GivesBlock, GivesData, Yields, Returns,
         Alone, Told
  <2>8. ~ \E v : Alone(k, k) /\ Goes(k, v)
    BY <2>1 DEF Alone
  <2>9. ~AsksExclusive(k)
    BY <2>2, <2>8 DEF AsksExclusive, CallsUp
  <2> QED
    BY <2>2, <2>3, <2>4, <2>5, <2>6, <2>7, <2>8, <2>9, StepFacts DEF Does, CallsUp
<1> QED  BY <1>2, <1>3

\* A request down-up finds the block that the module has.
LEMMA Finds ==
  ASSUME NEW k, NEW p, Step(k, p), NEW e \in Candidates(frames[k]), lock[e] = None,
         NEW S, "I" \notin S, NEW m, m = frames[k].at, NEW t, t = frames[k].tag, HasCopy(m, t, S)
  PROVE  e \in Entry /\ blk[e].tag = t /\ blk[e].state \in S
<1>1. t \in Tag  BY StepFacts DEF Frame
<1>2. PICK y \in Entry : y[1] = m /\ Copy(y, t, S)  BY DEF HasCopy
<1>3. Matches(y, t)  BY <1>2, StepFacts, CopyMatches
<1>4. e \in Entry /\ e[1] = m /\ Matches(e, t)  BY <1>2, <1>3 DEF Candidates
<1>5. e = y  BY <1>1, <1>2, <1>3, <1>4, StepFacts, SameEntry
<1>6. ~ \E j \in InFlight : Grants(j, y, t, S)
  BY <1>1, <1>5, StepFacts, GrantsHolds, TreeAssumption
<1> QED  BY <1>2, <1>4, <1>5, <1>6 DEF Copy

\* The owner has the block until it is asked for it.
LEMMA OwnerFound ==
  ASSUME NEW k, NEW p, Step(k, p), frames[k].kind = "readDU", frames[k].ev # "reply",
         NEW m, m = frames[k].at, NEW t, t = frames[k].tag
  PROVE  HasCopy(m, t, Owned)
<1>2. PICK q : q = frames[k].ret  OBVIOUS
<1>3. PICK x : x = Locked(q)  OBVIOUS
<1>4. /\ q \in InFlight /\ k \in Children(q)
      /\ frames[q].ev = "finish" /\ frames[q].kind \in {"readUD", "readDU"}
      /\ Holds(q, x) /\ x \in Entry /\ t = frames[q].tag
      /\ dir[x].owner = m /\ m \in dir[x].sharers /\ m \in Mod
  BY <1>2, <1>3, DataCaller
<1>5. t \in Tag /\ x[1] \in Mod
  <2>1. t \in Tag  BY StepFacts DEF Frame
  <2>2. x \in Entry  BY <1>4
  <2>3. x[1] \in Mod  BY <2>2, EntryPair
  <2> QED  BY <2>1, <2>3
<1>6. blk[x].tag = t
  <2>1. blk[x].state # "I"  BY <1>4, StepFacts DEF IInv, EntryOK
  <2>2. Locks(q) /\ Current(q)  BY <1>4, EachFrame DEF Locks
  <2>3. Locked(q) = x  BY <1>3
  <2> QED  BY <1>4, <2>1, <2>2, <2>3 DEF Current
<1>7. OwnerHasIt(x, t)  BY <1>4, <1>5, <1>6, StepFacts DEF Levels, Family
<1>8. ~ \E j \in InFlight : Awaits(j, x)
  <2>1. SUFFICES ASSUME NEW j \in InFlight, Awaits(j, x)  PROVE FALSE  OBVIOUS
  <2>2. j = q  BY <1>4, <2>1, StepFacts DEF IInv, HeldOnce, Awaits
  <2> QED  BY <1>4, <2>1, <2>2 DEF Awaits, Answered
<1> QED  BY <1>4, <1>7, <1>8, TreeAssumption DEF OwnerHasIt

\* A request that acts has found the block.
LEMMA OwnDownUp ==
  ASSUME NEW k, NEW p, Step(k, p), IInv', k \in InFlight'
  PROVE  DownUp(k)'
<1>1. PICK f : f = frames[k]  OBVIOUS
<1>2. PICK g : g = frames'[k]  OBVIOUS
<1>3. DownUp(k) /\ k \in InFlight /\ Like(f, g) /\ (g.ev # "reply" => f.ev # "reply")
  BY <1>1, <1>2, StepFacts DEF Shape
<1>4. CASE f.kind \notin {"readDU", "writeDU", "invalidate"}
  BY <1>2, <1>3, <1>4 DEF DownUp, Like
<1>5. CASE f.kind = "invalidate"
  <2>1. f.ev = "finish"  BY <1>1, <1>5, StepFacts DEF FrameOK
  <2>2. InvalidationEnds(k)
    BY <1>1, <1>5, <2>1, StepFacts DEF Does, Gets, Replaces, GivesUp, Settles, SendsDown,
       Accepts, Refuses, EvictionFails, EvictionEnds, Returns, Received, Passes, AsksOwner,
       Fills, GivesBlock, GivesData, Takes, AsksExclusive, GivesExclusive, Yields, AccessKind
  <2> QED  BY <2>2 DEF InvalidationEnds, Ended
<1>6. CASE f.kind \in {"readDU", "writeDU"}
  <2>1. PICK i : i = f.ret  OBVIOUS
  <2>2. PICK e : e = Locked(i)  OBVIOUS
  <2>3. PICK m : m = f.at  OBVIOUS
  <2>4. PICK t : t = f.tag  OBVIOUS
  <2>5. t \in Tag /\ ~f.err  BY <1>1, <1>3, <1>6, <2>4, StepFacts DEF Frame, DownUp
  <2>6. ASSUME g.ev # "reply"
        PROVE  /\ Locked(i)' = e /\ dir'[e] = dir[e]
               /\ f.kind = "readDU" => m # None /\ dir'[e].owner = m
               /\ f.kind = "writeDU" => m \notin dir'[e].sharers /\ HasCopy(m, t, Valid)'
    <3>1. f.ev # "reply"  BY <1>3, <2>6
    <3>2. Locked(i)' = e /\ dir'[e] = dir[e]
      BY <1>1, <1>3, <1>6, <2>1, <2>2, <3>1, CallerKeeps
    <3>3. /\ f.kind = "readDU" => m # None /\ dir[e].owner = m
          /\ f.kind = "writeDU" => m \notin dir[e].sharers /\ HasCopy(m, t, Valid)
      BY <1>1, <1>3, <2>1, <2>2, <2>3, <2>4, <3>1 DEF DownUp
    <3>4. ASSUME f.kind = "writeDU"  PROVE HasCopy(m, t, Valid)'
      <4>1. ~ \E q : Yields(k, q)  BY <1>2, <2>6 DEF Yields, Told, Goes
      <4>2. Claims(k, m, t)  BY <1>1, <2>3, <2>4, <3>1, <3>4 DEF Claims
      <4> QED  BY <1>3, <2>5, <3>3, <3>4, <4>1, <4>2, TakenStays
    <3> QED  BY <3>2, <3>3, <3>4
  <2>7. /\ ~g.err /\ g.ev # "evicting"
        /\ Locks(k)' => IF f.kind = "readDU" THEN g.state \in Owned ELSE g.state # "I"
    <3>1. CASE Looks(k) /\ f.ev = "lock"
      <4>1. g.ev \in {"lock", "lockWait"} /\ ~g.err
        BY <1>1, <1>2, <1>6, <2>5, <3>1 DEF Looks, AccessKind
      <4> QED  BY <1>2, <4>1 DEF Locks
    <3>2. ASSUME NEW x \in Entry, Gets(k, x) \/ Replaces(k, x), f.ev = "lock"
          PROVE  /\ blk[x].tag = t
                 /\ IF f.kind = "readDU" THEN blk[x].state \in Owned ELSE blk[x].state \in Valid
      <4>1. x \in Candidates(frames[k]) /\ lock[x] = None
        BY <3>2 DEF Gets, Replaces
      <4>2. "I" \notin Owned /\ "I" \notin Valid  BY Rights
      <4>3. f.kind = "readDU" => HasCopy(m, t, Owned)
        BY <1>1, <2>3, <2>4, <3>2, OwnerFound
      <4>4. f.kind = "writeDU" => HasCopy(m, t, Valid)
        BY <1>1, <1>3, <2>3, <2>4, <3>2 DEF DownUp
      <4> QED  BY <1>1, <1>6, <2>3, <2>4, <4>1, <4>2, <4>3, <4>4, Finds
    <3>3. ASSUME NEW x \in Entry, Gets(k, x)
          PROVE  /\ ~g.err /\ g.ev = "action"
                 /\ IF f.kind = "readDU" THEN g.state \in Owned ELSE g.state # "I"
      <4>1. f.ev = "lock" /\ g.ev = "action" /\ ~g.err /\ g.state = blk'[x].state
            /\ (blk' = blk \/ blk[x].state = "I")
        BY <1>1, <1>2, <3>3 DEF Gets
      <4>2. IF f.kind = "readDU" THEN blk[x].state \in Owned ELSE blk[x].state \in Valid
        BY <3>2, <3>3, <4>1
      <4> QED  BY <4>1, <4>2, Rights
    <3>4. ~ \E x \in Entry : Replaces(k, x)
      <4>1. SUFFICES ASSUME NEW x \in Entry, Replaces(k, x)  PROVE FALSE  OBVIOUS
      <4>2. f.ev = "lock" /\ blk[x].tag # t  BY <1>1, <2>4, <4>1 DEF Replaces
      <4> QED  BY <3>2, <4>1, <4>2
    <3>5. ASSUME AsksOwner(k) \/ Takes(k)
          PROVE  Placed(f, g) /\ ~g.err /\ g.ev # "evicting" /\ Locks(k)
      BY <1>1, <1>2, <2>5, <3>5 DEF AsksOwner, Takes, Called, Goes, Results
    <3>6. ASSUME \E q : GivesData(k, q) \/ Yields(k, q)
          PROVE  ~g.err /\ g.ev = "reply"
      BY <1>1, <1>2, <2>5, <3>6 DEF GivesData, Yields, Told, Goes, Results
    <3>7. ~Passes(k) /\ ~Received(k)
      BY <1>1, <1>3, <2>5 DEF Passes, Received, Ended
    <3>8. ASSUME AsksOwner(k) \/ Takes(k)
          PROVE  IF f.kind = "readDU" THEN g.state \in Owned ELSE g.state # "I"
      BY <1>1, <1>3, <1>6, <3>5, <3>8 DEF DownUp, Placed
    <3>9. \/ Looks(k) /\ f.ev = "lock"
          \/ \E x \in Entry : Gets(k, x)
          \/ AsksOwner(k) \/ Takes(k)
          \/ \E q : GivesData(k, q) \/ Yields(k, q)
      BY <1>1, <1>6, <3>4, <3>7, StepFacts DEF Does, GivesUp, Settles, InvalidationEnds, SendsDown,
         Accepts, Refuses, EvictionFails, EvictionEnds, Returns,
         Fills, GivesBlock, AsksExclusive, GivesExclusive, AccessKind
    <3>10. CASE \E q : GivesData(k, q) \/ Yields(k, q)
      BY <1>2, <3>6, <3>10 DEF Locks
    <3> QED  BY <3>1, <3>3, <3>5, <3>8, <3>9, <3>10
  <2>8. /\ g.kind = f.kind /\ g.at = m /\ g.tag = t /\ g.ret = i
    BY <1>3, <2>1, <2>3, <2>4 DEF Like
  <2>9. /\ f.kind = "readDU" /\ Locks(k)' => g.state \in Owned
        /\ f.kind = "writeDU" /\ Locks(k)' => g.state # "I"
    BY <2>7
  <2>10. g.ev # "reply" /\ f.kind = "readDU" => m # None /\ dir'[Locked(i)'].owner = m
    BY <2>6
  <2>11. g.ev # "reply" /\ f.kind = "writeDU" =>
           m \notin dir'[Locked(i)'].sharers /\ HasCopy(m, t, Valid)'
    BY <2>6
  <2> QED  BY <1>2, <1>6, <2>7, <2>8, <2>9, <2>10, <2>11 DEF DownUp
<1> QED  BY <1>4, <1>5, <1>6

-----------------------------------------------------------------------------
(***************************************************************************)
(* Answers of the owners.                                                  *)
(***************************************************************************)
\* A new frame has no answer.
LEMMA NewAnswer ==
  ASSUME NEW k, NEW p, Step(k, p), IInv', NEW n \in InFlight' \ InFlight
  PROVE  Answer(n)'
<1>1. NewOK(n, k)  BY StepFacts DEF Shape
<1>2. CASE frames'[n].kind \notin {"readUD", "readDU"}
  BY <1>2 DEF Answer
<1>3. CASE frames'[n].kind \in {"readUD", "readDU"}
  <2>1. frames'[n].ev \notin {"finish", "reply"}  BY <1>1, <1>3 DEF NewOK
  <2>2. ASSUME frames'[n].reply = "none", ~frames'[n].retain  PROVE Answer(n)'
    BY <2>1, <2>2 DEF Answer
  <2>3. ASSUME InFlight' \subseteq InFlight  PROVE FALSE
    BY <2>3
  <2>4. ASSUME NEW v, Called(k, v, ReadUp(k))  PROVE Answer(n)'
    <3>1. n \in DOMAIN ReadUp(k) /\ frames'[n] = ReadUp(k)[n]  BY <2>4 DEF Called
    <3>2. frames'[n].reply = "none" /\ ~frames'[n].retain
      BY <3>1 DEF ReadUp, NewFrame
    <3> QED  BY <2>2, <3>2
  <2>5. ~ \E v : Called(k, v, WriteUp(k))
    BY <1>3 DEF Called, WriteUp, NewFrame
  <2>6. ~ \E v, N, q, e, x : Called(k, v, N) /\ Invalidates(N, q, e, x)
    BY <1>3 DEF Called, Invalidates, IsInvalidation, IsTaking
  <2>7. ~ \E e \in Entry : Replaces(k, e)
    <3>1. SUFFICES ASSUME NEW e \in Entry, Replaces(k, e)  PROVE FALSE  OBVIOUS
    <3>2. PICK N : Called(k, "evicting", N) /\ Evicts(N, k, e)
      BY <3>1 DEF Replaces
    <3>3. PICK I : /\ Invalidates(I, EvictKey(k), e, None)
                   /\ DOMAIN N = DOMAIN I \cup {EvictKey(k)}
                   /\ \A x \in DOMAIN I : N[x] = I[x]
      BY <3>2 DEF Evicts
    <3>4. n \in DOMAIN N /\ frames'[n] = N[n]  BY <3>2 DEF Called
    <3>5. N[EvictKey(k)].kind = "evict"  BY <3>2 DEF Evicts, IsEviction
    <3>6. n \in DOMAIN I /\ frames'[n] = I[n]  BY <1>3, <3>3, <3>4, <3>5
    <3> QED  BY <1>3, <3>3, <3>6 DEF Invalidates, IsInvalidation, IsTaking
  <2>8. ~Takes(k)  BY <2>6 DEF Takes
  <2>9. ASSUME AsksOwner(k)  PROVE Answer(n)'
    <3>1. PICK owner : owner = dir[Locked(k)].owner  OBVIOUS
    <3>2. \E peer : Called(k, "finish", ReadDown(k, owner, peer))
      BY <2>3, <2>9, <3>1 DEF AsksOwner, Alone
    <3>3. PICK peer : Called(k, "finish", ReadDown(k, owner, peer))  BY <3>2
    <3>4. n \in DOMAIN ReadDown(k, owner, peer) /\ frames'[n] = ReadDown(k, owner, peer)[n]
      BY <3>3 DEF Called
    <3>5. frames'[n].reply = "none" /\ ~frames'[n].retain
      BY <3>4 DEF ReadDown, NewFrame
    <3> QED  BY <2>2, <3>5
  <2>10. ~ (Looks(k) \/ GivesUp(k) \/ Settles(k) \/ InvalidationEnds(k) \/ SendsDown(k)
           \/ Accepts(k) \/ Refuses(k) \/ Received(k) \/ Passes(k) \/ Fills(k)
           \/ GivesExclusive(k) \/ \E e \in Entry : Gets(k, e))
    BY <2>3 DEF Looks, GivesUp, Settles, InvalidationEnds, SendsDown, Accepts, Refuses,
         Received, Passes, Fills, GivesExclusive, Gets, Alone, Ended, ToldError, Told
  <2>11. ~ \E x : EvictionFails(k, x) \/ EvictionEnds(k, x) \/ GivesBlock(k, x)
                 \/ GivesData(k, x) \/ Yields(k, x)
    BY <2>3 DEF EvictionFails, EvictionEnds, GivesBlock, GivesData, Yields, Returns,
         Alone, Told
  <2>12. ~ \E v : Alone(k, k) /\ Goes(k, v)
    BY <2>3 DEF Alone
  <2>13. ~AsksExclusive(k)
    BY <2>5, <2>12 DEF AsksExclusive, CallsUp
  <2> QED
    BY <2>4, <2>5, <2>7, <2>8, <2>9, <2>10, <2>11, <2>12, <2>13, StepFacts DEF Does, CallsUp
<1> QED  BY <1>2, <1>3

\* While frame j has its answer, what the modules above have of its block stays.
LEMMA AwaitsQuiet ==
  ASSUME NEW k, NEW p, Step(k, p), NEW j \in InFlight, j # k, NEW e, Awaits(j, e),
         NEW t, t = frames[j].tag, NEW m, Low[m] = e[1]
  PROVE  ~Moved(k, m, t)
<1>1. /\ Holds(j, e) /\ Answered(j) /\ frames[j].ev = "finish"
      /\ frames[j].kind \in {"readUD", "readDU"}
  BY DEF Awaits
<1>2. e \in Entry /\ t \in Tag /\ Matches(e, t)
  <2>1. Tagged(j) /\ FrameOK(j) /\ t \in Tag  BY EachFrame DEF Frame
  <2>2. e = Locked(j) /\ Locks(j)  BY <1>1 DEF Holds
  <2>3. e \in Entry  BY <2>1, <2>2 DEF FrameOK
  <2>4. lock[e] = t  BY <1>1, <2>1, <2>3 DEF Tagged
  <2> QED  BY <2>1, <2>3, <2>4 DEF Matches
<1>3. ASSUME NEW d \in Entry, d[1] = e[1], Matches(d, t)  PROVE d = e
  BY <1>2, <1>3, StepFacts, SameEntry
<1>4. ASSUME NEW i \in InFlight, Holds(i, e)  PROVE i = j
  BY <1>1, <1>2, <1>4, StepFacts DEF IInv, HeldOnce
<1>5. SUFFICES ASSUME Moved(k, m, t)  PROVE FALSE  OBVIOUS
<1>6. CASE (Accepts(k) \/ Gives(k)) /\ m = frames[k].from
  <2>1. PICK d : d = Locked(k)  OBVIOUS
  <2>2. Locks(k) /\ (frames[k].kind # "evict" \/ k \in InFlight')
        /\ frames[k].kind \in {"evict", "readUD", "writeUD"}
    BY <1>6, StepFacts DEF Accepts, Gives, GivesBlock, GivesExclusive, Locks, Alone
  <2>3. d \in Entry /\ Holds(k, d) /\ Matches(d, frames[k].tag)
    BY <2>1, <2>2, StepFacts, LockedOwn
  <2>4. d[1] = frames[k].at  BY <2>1 DEF Locked
  <2>5. frames[k].at = Low[m]
    BY <1>6, <2>2, StepFacts DEF FrameOK, CalledFor
  <2>6. d = e  BY <1>3, <1>5, <2>3, <2>4, <2>5 DEF Moved
  <2> QED  BY <1>4, <2>3, <2>6, StepFacts
<1>7. CASE (\E q : GivesData(k, q)) /\ m = frames[k].at
  <2>1. frames[k].kind = "readDU" /\ frames[k].ev # "reply" /\ t = frames[k].tag
    BY <1>5, <1>7 DEF GivesData, Moved
  <2>2. PICK q : q = frames[k].ret  OBVIOUS
  <2>3. PICK x : x = Locked(q)  OBVIOUS
  <2>4. /\ q \in InFlight /\ k \in Children(q) /\ Holds(q, x) /\ x \in Entry
        /\ Matches(x, t) /\ Low[m] = x[1]
    BY <1>7, <2>1, <2>2, <2>3, DataCaller
  <2>5. q = j  BY <1>3, <1>4, <2>4
  <2> QED  BY <1>1, <2>1, <2>4, <2>5 DEF Answered
<1>8. CASE (\E q : Yields(k, q)) /\ m = frames[k].at
  <2>1. Claims(k, m, t)  BY <1>5, <1>8 DEF Yields, Moved, Claims
  <2>2. PICK q : q = frames[k].ret  OBVIOUS
  <2>3. PICK x : x = Locked(q)  OBVIOUS
  <2>4. /\ q \in InFlight /\ frames[q].kind = "invalidate" /\ frames[q].ev = "finish"
        /\ x \in Entry /\ Matches(x, t) /\ Low[m] = x[1] /\ CountsOn(q, x)
    BY <2>1, <2>2, <2>3, StepFacts, ClaimEntry
  <2>5. x = e  BY <1>3, <2>4
  <2>6. PICK h \in InFlight : Holds(h, x) /\ frames[h].ev # "finish"
    <3>1. PICK h \in InFlight :
            /\ Holds(h, x)
            /\ h = q \/ frames[h].ev \in {"evicting", "exclusive"}
      BY <2>4, StepFacts, Counting
    <3>2. ~Holds(q, x)  BY <2>4 DEF Holds, Locks
    <3> QED  BY <3>1, <3>2
  <2> QED  BY <1>1, <1>4, <2>5, <2>6
<1> QED  BY <1>5, <1>6, <1>7, <1>8 DEF Moved

\* The owner has answered request down-up k, and its caller q goes on.
LEMMA DataAnswer ==
  ASSUME NEW k, NEW p, Step(k, p), NEW q, GivesData(k, q)
  PROVE  Answer(q)'
<1>1. PICK f : f = frames[k]  OBVIOUS
<1>2. PICK h : h = frames[q]  OBVIOUS
<1>3. PICK g : g = frames'[q]  OBVIOUS
<1>4. PICK x : x = Locked(q)  OBVIOUS
<1>5. PICK o : o = f.at  OBVIOUS
<1>6. PICK t : t = f.tag  OBVIOUS
<1>7. PICK s : s = StateAfterRead(f)  OBVIOUS
<1>8. /\ f.kind = "readDU" /\ f.ev = "finish" /\ q = f.ret /\ Told(k, q)
      /\ g.reply = HigherReply(h.reply, ReadReply(f))
      /\ g.retain = (h.retain \/ ReadRetains(f))
  BY <1>1, <1>2, <1>3 DEF GivesData
<1>9. /\ q \in InFlight /\ q # k /\ k \in Children(q)
      /\ h.ev = "finish" /\ h.kind \in {"readUD", "readDU"} /\ Holds(q, x) /\ x \in Entry
      /\ x[1] = h.at /\ t = h.tag /\ dir[x].owner = o /\ Low[o] = x[1] /\ o \in Mod
  BY <1>1, <1>2, <1>4, <1>5, <1>6, <1>8, DataCaller
<1>10. Like(h, g) /\ Placed(h, g) /\ g.ev = h.ev
  BY <1>2, <1>3, <1>8 DEF Told
<1>11. g.kind = h.kind /\ g.ev = "finish" /\ g.from = h.from /\ g.at = x[1] /\ g.tag = t
       /\ Locked(q)' = x
  BY <1>3, <1>4, <1>9, <1>10, <1>2 DEF Like, Placed, Locked
<1>12. Answered(q)'
  <2>1. Awaits(q, x)'  BY <1>4, DataAwaited
  <2> QED  BY <2>1 DEF Awaits
<1>13. dir'[x] = dir[x]
  <2>1. CountsOn(q, x)  BY <1>9 DEF CountsOn
  <2> QED  BY <1>1, <1>8, <1>9, <2>1, EntryHeld
<1>14. h.reply = "none" \/ h.kind # "readDU"
  <2>1. Answer(q)  BY <1>9, EachFrame
  <2>2. ~Answered(q)  BY <1>1, <1>8, <1>9 DEF Answered
  <2> QED  BY <1>2, <2>1, <2>2 DEF Answer
<1>15. ~h.retain \/ h.kind # "readUD"
  <2>1. Answer(q)  BY <1>9, EachFrame
  <2>2. ~Answered(q)  BY <1>1, <1>8, <1>9 DEF Answered
  <2> QED  BY <1>2, <2>1, <2>2 DEF Answer
<1>16. f.reply \in {"none", "ack", "ack_data"}  BY <1>1, <1>8, StepFacts DEF FrameOK
<1>17. s \in {"O", "S"} /\ (s = "O" <=> ReadRetains(f))
  BY <1>7, <1>16 DEF StateAfterRead, ReadRetains
<1>18. t \in Tag  BY <1>1, <1>6, StepFacts DEF Frame
<1>19. \A S \in {Valid, Owned, Exclusive} : HasCopy(o, t, S)' <=> s \in S
  BY <1>1, <1>5, <1>6, <1>7, DataHas
<1>20. ASSUME NEW m \in Mod, Low[m] = x[1], m # o
       PROVE  ~HasCopy(m, t, Owned)' /\ ~HasCopy(m, t, Exclusive)'
  <2>1. HasCopy(o, t, Owned)  BY <1>1, <1>5, <1>6, <1>8, OwnerFound
  <2>2. x[1] \in Mod  BY <1>9, EntryPair
  <2>3. ~HasCopy(m, t, Owned)
    BY <1>9, <1>18, <1>20, <2>1, <2>2, StepFacts DEF Levels, Family, Together
  <2>4. ~HasCopy(m, t, Exclusive)  BY <2>3, Rights, CopyMonotone
  <2>5. ~Moved(k, m, t)
    BY <1>1, <1>5, <1>8, <1>20 DEF Moved, Accepts, Gives, GivesBlock, GivesExclusive
  <2>6. Low[m] # None  BY <1>20, <2>2, TreeAssumption
  <2> QED  BY <1>18, <2>3, <2>4, <2>5, <2>6, HasCopyStays
<1>21. ASSUME NEW m \in Mod, Low[m] = x[1]
       PROVE  ~HasCopy(m, t, Exclusive)' /\ (ReadRetains(f) \/ ~HasCopy(m, t, Owned)')
  <2>1. CASE m # o  BY <1>20, <1>21, <2>1
  <2>2. CASE m = o  BY <1>17, <1>19, <2>2 DEF Exclusive, Owned
  <2> QED  BY <2>1, <2>2
<1>22. CASE h.kind = "readUD"
  <2>1. g.retain <=> ReadRetains(f)  BY <1>8, <1>15, <1>22 DEF ReadRetains
  <2>2. ReadRetains(f) => HasCopy(o, t, Owned)'  BY <1>17, <1>19 DEF Owned
  <2>3. dir'[x].owner = o  BY <1>9, <1>13
  <2>4. dir[x].owner # h.from
    <3>1. Answer(q)  BY <1>9, EachFrame
    <3> QED  BY <1>2, <1>4, <1>9, <1>22, <3>1 DEF Answer
  <2>5. \A m \in Mod : Low[m] = x[1] =>
           ~HasCopy(m, t, Exclusive)' /\ (ReadRetains(f) \/ ~HasCopy(m, t, Owned)')
    BY <1>21
  <2>6. o # g.from  BY <1>9, <1>11, <2>4
  <2>7. g.kind = "readUD"  BY <1>11, <1>22
  <2>8. IF g.retain THEN HasCopy(o, t, Owned)'
        ELSE \A m \in Mod : Low[m] = x[1] => ~HasCopy(m, t, Owned)'
    BY <2>1, <2>2, <2>5
  <2> QED  BY ONLY <1>3, <1>11, <1>12, <2>3, <2>5, <2>6, <2>7, <2>8 DEF Answer
<1>23. CASE h.kind = "readDU"
  <2>1. ~f.peer  BY <1>1, <1>2, <1>8, <1>9, <1>23, StepFacts DEF CallOK, AccessKind
  <2>2. ~ReadRetains(f) /\ ReadReply(f) \in {"ack", "ack_data"}
    BY <1>16, <2>1 DEF ReadRetains, ReadReply
  <2>3. g.reply = ReadReply(f)
    BY <1>8, <1>14, <1>23, <2>2 DEF HigherReply, Precedence
  <2>4. \A m \in Mod : Low[m] = x[1] => ~HasCopy(m, t, Owned)'
    BY <1>21, <2>2
  <2>5. g.kind = "readDU" /\ g.reply # "none"  BY <1>11, <1>23, <2>2, <2>3
  <2> QED  BY ONLY <1>3, <1>11, <1>12, <2>4, <2>5 DEF Answer
<1> QED  BY <1>9, <1>22, <1>23

\* Frame j, which is not told of data, has its answer as before.
LEMMA AnswerStays ==
  ASSUME NEW k, NEW p, Step(k, p), NEW j \in InFlight, j # k, ~GivesData(k, j),
         frames[j].kind \in {"readUD", "readDU"}
  PROVE  Answer(j)'
<1>1. PICK f : f = frames[j]  OBVIOUS
<1>2. PICK g : g = frames'[j]  OBVIOUS
<1>3. PICK e : e = Locked(j)  OBVIOUS
<1>4. PICK t : t = f.tag  OBVIOUS
<1>5. Answer(j) /\ CallOK(k) /\ CalledFor(k) /\ FrameOK(j) /\ t \in Tag
  BY <1>1, <1>4, EachFrame, StepFacts DEF Frame
<1>6. /\ j \in InFlight' /\ Like(f, g) /\ g.reply = f.reply /\ g.retain = f.retain
      /\ g.ev = "finish" => f.ev = "finish" /\ Placed(f, g)
      /\ f.ev = "finish" => g.ev = "finish"
      /\ f.ev = "reply" => g.ev = "reply"
  <2>1. CASE Same(j)  BY <1>1, <1>2, <2>1 DEF Same, Results
  <2>2. CASE Told(k, j) /\ j = frames[k].ret
             /\ (Passes(k) \/ GivesBlock(k, j) \/ GivesData(k, j) \/ Yields(k, j))
    <3>1. j \in InFlight' /\ Like(f, g) /\ Placed(f, g) /\ g.ev = f.ev
      BY <1>1, <1>2, <2>2 DEF Told, Alone
    <3>2. ~Yields(k, j)
      BY <1>5, <2>2 DEF Yields, CallOK, AccessKind
    <3>3. g.reply = f.reply /\ g.retain = f.retain
      BY <1>1, <1>2, <2>2, <3>2 DEF Passes, ToldError, GivesBlock
    <3> QED  BY <3>1, <3>3
  <2>3. CASE EvictionFails(k, j) \/ EvictionEnds(k, j)
    <3>1. j \in InFlight'  BY <2>3, StepFacts DEF EvictionFails, EvictionEnds, Returns
    <3> QED  BY <1>1, <1>2, <2>3, <3>1 DEF EvictionFails, EvictionEnds, Returns
  <2> QED  BY <2>1, <2>2, <2>3, Hears
<1>7. Answered(j) /\ f.ev \in {"finish", "reply"} => Answered(j)'
  BY <1>1, StepFacts, AnsweredSame
<1>8. ASSUME f.ev = "finish"
      PROVE  e \in Entry /\ CountsOn(j, e) /\ Holds(j, e) /\ e[1] = f.at /\ Locked(j)' = e
             /\ dir'[e] = dir[e]
  <2>1. Locks(j)  BY <1>1, <1>8 DEF Locks
  <2>2. e \in Entry /\ CountsOn(j, e) /\ Holds(j, e) /\ e[1] = f.at
    BY <1>1, <1>3, <1>5, <2>1 DEF FrameOK, CountsOn, Holds, Locked
  <2>3. j # frames[k].ret \/ frames[k].kind # "evict"
    BY <1>1, <1>5, <1>8 DEF CallOK, AccessKind
  <2>4. Locked(j)' = e
    BY <1>1, <1>2, <1>3, <1>6, <1>8 DEF Locked, Like, Placed
  <2> QED  BY <2>2, <2>3, <2>4, EntryHeld
<1>9. ASSUME f.ev = "finish", Answered(j)'
      PROVE  Answered(j)
  <2>1. SUFFICES ASSUME ~Answered(j)  PROVE FALSE  OBVIOUS
  <2>2. j = frames[k].ret /\ Answers(k)
    <3>1. Steps(k, p)  BY StepFacts DEF Steps
    <3> QED  BY <1>9, <2>1, <3>1, StepFacts, SameAnswered
  <2>3. frames[k].kind = "readDU"
    <3>1. frames[k].kind \notin AccessKind  BY <2>2 DEF Answers
    <3>2. frames[k].kind \in {"readUD", "readDU", "writeUD", "writeDU", "evict", "invalidate"}
      BY <3>1, EachFrame, StepFacts
    <3> QED  BY <1>1, <1>5, <1>9, <2>2, <3>1, <3>2 DEF CallOK, CalledFor
  <2>4. \E x : GivesData(k, x)
    <3>1. ~Passes(k)  BY <2>3 DEF Passes
    <3> QED  BY <2>2, <2>3, <3>1, StepFacts, WhoAnswers DEF InvalidationEnds, Accepts, Refuses,
                GivesExclusive, EvictionFails, EvictionEnds, Returns, GivesBlock, Yields
  <2> QED  BY <2>2, <2>4 DEF GivesData
<1>10. ASSUME f.ev = "finish", Answered(j), NEW m \in Mod, Low[m] = f.at,
              NEW S \in {Valid, Owned, Exclusive}
       PROVE  HasCopy(m, t, S)' <=> HasCopy(m, t, S)
  <2>1. Holds(j, e) /\ e[1] = f.at /\ e \in Entry  BY <1>8, <1>10
  <2>2. Awaits(j, e)  BY <1>1, <1>10, <2>1 DEF Awaits
  <2>3. ~Moved(k, m, t)  BY <1>1, <1>4, <1>10, <2>1, <2>2, AwaitsQuiet
  <2>4. Low[m] # None
    <3>1. e[1] \in Mod  BY <2>1, EntryPair
    <3> QED  BY <1>10, <2>1, <3>1, TreeAssumption
  <2> QED  BY <1>5, <1>10, <2>3, <2>4, HasCopyStays
<1>11. /\ g.kind = f.kind /\ g.at = f.at /\ g.from = f.from /\ g.tag = t
       /\ g.reply = f.reply /\ g.retain = f.retain
  BY <1>4, <1>6 DEF Like
<1>12. /\ f.kind = "readDU" /\ (g.ev \notin {"finish", "reply"} \/ ~Answered(j)') => f.reply = "none"
       /\ f.kind = "readUD" /\ (g.ev \notin {"finish", "reply"} \/ ~Answered(j)') => ~f.retain
  BY <1>1, <1>5, <1>6, <1>7 DEF Answer
<1>13. ASSUME g.ev = "finish"
       PROVE  /\ Locked(j)' = e /\ dir'[e] = dir[e]
              /\ f.kind = "readUD" => dir'[e].owner # f.from
  BY <1>1, <1>3, <1>5, <1>6, <1>8, <1>13 DEF Answer
<1>14. ASSUME g.ev = "finish", Answered(j)', NEW o, o = dir'[e].owner
       PROVE  /\ f.kind = "readUD" => /\ \A m \in Mod : Low[m] = f.at => ~HasCopy(m, t, Exclusive)'
                                      /\ IF f.retain THEN HasCopy(o, t, Owned)'
                                         ELSE \A m \in Mod : Low[m] = f.at => ~HasCopy(m, t, Owned)'
              /\ f.kind = "readDU" => /\ \A m \in Mod : Low[m] = f.at => ~HasCopy(m, t, Owned)'
                                      /\ f.reply = "none" => o = None
  <2>1. f.ev = "finish" /\ Answered(j) /\ dir[e].owner = o
    BY <1>6, <1>9, <1>13, <1>14
  <2>2. /\ f.kind = "readUD" => /\ \A m \in Mod : Low[m] = f.at => ~HasCopy(m, t, Exclusive)
                                /\ IF f.retain THEN HasCopy(o, t, Owned)
                                   ELSE \A m \in Mod : Low[m] = f.at => ~HasCopy(m, t, Owned)
        /\ f.kind = "readDU" => /\ \A m \in Mod : Low[m] = f.at => ~HasCopy(m, t, Owned)
                                /\ f.reply = "none" => o = None
    BY <1>1, <1>3, <1>4, <1>5, <2>1 DEF Answer
  <2>3. \A m \in Mod : Low[m] = f.at =>
          /\ HasCopy(m, t, Exclusive)' <=> HasCopy(m, t, Exclusive)
          /\ HasCopy(m, t, Owned)' <=> HasCopy(m, t, Owned)
    BY <1>10, <2>1
  <2>4. ASSUME HasCopy(o, t, Owned)  PROVE HasCopy(o, t, Owned)'
    <3>1. o # None /\ o \in Mod /\ Low[o] = e[1]
      <4>1. e \in Entry  BY <1>8, <2>1
      <4>2. o # None
        <5>1. PICK y \in Entry : y[1] = o  BY <2>4 DEF HasCopy
        <5>2. o \in Mod  BY <5>1, EntryPair
        <5> QED  BY <5>2, TreeAssumption
      <4>3. EntryOK(e) /\ o \in Mod \cup {None}
        BY <2>1, <4>1, StepFacts DEF IInv, TypeOK
      <4> QED  BY <2>1, <4>2, <4>3 DEF EntryOK
    <3>2. e[1] = f.at  BY <1>8, <2>1
    <3> QED  BY <2>3, <2>4, <3>1, <3>2
  <2> QED  BY <2>2, <2>3, <2>4
<1>15. PICK o : o = dir'[e].owner  OBVIOUS
<1>16. g.ev = "finish" => Locked(j)' = e /\ (f.kind = "readUD" => o # f.from)
  BY <1>13, <1>15
<1>17. g.ev = "finish" /\ Answered(j)' =>
         /\ f.kind = "readUD" => /\ \A m \in Mod : Low[m] = f.at => ~HasCopy(m, t, Exclusive)'
                                 /\ IF f.retain THEN HasCopy(o, t, Owned)'
                                    ELSE \A m \in Mod : Low[m] = f.at => ~HasCopy(m, t, Owned)'
         /\ f.kind = "readDU" => /\ \A m \in Mod : Low[m] = f.at => ~HasCopy(m, t, Owned)'
                                 /\ f.reply = "none" => o = None
  BY <1>14, <1>15
<1> QED  BY ONLY <1>2, <1>11, <1>12, <1>15, <1>16, <1>17 DEF Answer

\* The frame that acts and what it has been answered
LEMMA OwnAnswer ==
  ASSUME NEW k, NEW p, Step(k, p), IInv', k \in InFlight', frames[k].kind \in {"readUD", "readDU"}
  PROVE  Answer(k)'
<1>1. PICK f : f = frames[k]  OBVIOUS
<1>2. PICK g : g = frames'[k]  OBVIOUS
<1>3. PICK e : e = Locked(k)  OBVIOUS
<1>4. PICK t : t = f.tag  OBVIOUS
<1>5. /\ Answer(k) /\ Current(k) /\ FrameOK(k) /\ t \in Tag /\ f.from \in Mod /\ Like(f, g)
      /\ k \in InFlight /\ Children(k) = {}
  BY <1>1, <1>2, <1>4, StepFacts DEF Frame, Shape, Idle
<1>6. ASSUME InFlight' = InFlight, NEW q, Others(k, q), q \in InFlight => Like(frames[q], frames'[q])
      PROVE  Answered(k)'
  <2>1. \A c \in InFlight : Like(frames[c], frames'[c])
    BY <1>1, <1>2, <1>5, <1>6 DEF Others, Same
  <2> QED  BY <1>5, <1>6, <2>1 DEF Answered, Children, Like
<1>7. ASSUME g.ev = "reply"  PROVE Answer(k)'
  <2>1. \/ Passes(k)
        \/ \E q : GivesBlock(k, q) \/ GivesData(k, q)
    <3>1. ~ \E e2 \in Entry : Gets(k, e2) \/ Replaces(k, e2)
      BY <1>2, <1>7 DEF Gets, Replaces, Called
    <3>2. ~Looks(k) /\ ~Received(k)
      BY <1>2, <1>5, <1>7 DEF Looks, Received, Ended
    <3>3. ~ \E v, N : Called(k, v, N) /\ v # "reply"
      BY <1>2, <1>7 DEF Called
    <3>4. ~AsksOwner(k) /\ ~Fills(k)
      BY <1>2, <1>7, <3>3 DEF AsksOwner, Fills, Goes
    <3>5. f.kind \in {"readUD", "readDU"}  BY <1>1
    <3>6. ~CallsUp(k, "miss", ReadUp(k))  BY <3>3 DEF CallsUp
    <3> QED  BY <1>1, <3>1, <3>2, <3>4, <3>5, <3>6, StepFacts DEF Does, GivesUp, Settles,
                InvalidationEnds, SendsDown, Accepts, Refuses, EvictionFails, EvictionEnds, Returns,
                Takes, AsksExclusive, GivesExclusive, Yields, AccessKind
  <2>2. \E q : Told(k, q)
    BY <2>1 DEF Passes, ToldError, GivesBlock, GivesData
  <2>3. Answered(k)'
    <3>1. PICK q : Told(k, q)  BY <2>2
    <3>2. InFlight' = InFlight /\ Others(k, q) /\ Like(frames[q], frames'[q])
      BY <3>1 DEF Told, Alone
    <3> QED  BY <1>6, <3>2
  <2> QED  BY <1>2, <1>7, <2>3 DEF Answer
<1>8. ASSUME g.ev # "reply"  PROVE Answer(k)'
  <2>1. ASSUME g.ev # "finish", f.ev \notin {"finish", "reply"},
               g.reply = f.reply, g.retain = f.retain
        PROVE  Answer(k)'
    <3>1. g.kind = f.kind  BY <1>5 DEF Like
    <3>2. (f.kind = "readDU" => f.reply = "none") /\ (f.kind = "readUD" => ~f.retain)
      BY <1>1, <1>5, <2>1 DEF Answer
    <3> QED  BY ONLY <1>2, <2>1, <3>1, <3>2 DEF Answer
  <2>2. CASE Looks(k)
    BY <1>1, <1>2, <2>1, <2>2 DEF Looks, AccessKind
  <2>3. CASE \E x \in Entry : Gets(k, x) \/ Replaces(k, x)
    BY <1>1, <1>2, <2>1, <2>3 DEF Gets, Replaces, Called
  <2>4. CASE frames[k].ev = "action" /\ CallsUp(k, "miss", ReadUp(k))
    BY <1>1, <1>2, <2>1, <2>4 DEF CallsUp, Called
  <2>5. ASSUME AsksOwner(k) \/ Fills(k)
        PROVE  Answer(k)'
    <3>1. /\ Locks(k) /\ dir' = dir /\ f.ev \in {"action", "miss"} /\ g.ev = "finish"
          /\ Placed(f, g) /\ g.reply = f.reply /\ g.retain = f.retain
          /\ (f.kind = "readUD" => f.ev = "miss" \/ dir[e].owner # f.from)
      BY <1>1, <1>2, <1>3, <2>5 DEF AsksOwner, Fills, Called, Goes, Results, NoEntry
    <3>2. /\ g.kind = f.kind /\ g.at = f.at /\ g.from = f.from /\ g.tag = t
          /\ Locked(k)' = e
      BY <1>1, <1>2, <1>3, <1>4, <1>5, <3>1 DEF Like, Placed, Locked
    <3>3. (f.kind = "readDU" => f.reply = "none") /\ (f.kind = "readUD" => ~f.retain)
      BY <1>1, <1>5, <3>1 DEF Answer
    <3>4. /\ e \in Entry /\ Private(k, e) /\ Matches(e, t) /\ e[1] = f.at
      BY <1>1, <1>3, <1>4, <3>1, StepFacts, LockedOwn DEF Locked
    <3>5. PICK o : o = dir[e].owner  OBVIOUS
    <3>6. f.ev = "miss" => o = None
      <4>1. SUFFICES ASSUME f.ev = "miss"  PROVE o = None  OBVIOUS
      <4>2. blk[e].state = "I"  BY <1>1, <1>3, <1>5, <3>1, <4>1 DEF Current
      <4> QED  BY <3>4, <3>5, <4>2, StepFacts, EmptyEntry
    <3>7. f.kind = "readUD" => o # f.from
      BY <1>5, <3>1, <3>5, <3>6, TreeAssumption
    <3>8. ASSUME Answered(k)'
          PROVE  o = None /\ ~Transfer(k)
                 /\ \A m \in Mod : Low[m] = f.at => ~HasCopy(m, t, Owned)'
                                                   /\ ~HasCopy(m, t, Exclusive)'
      <4>1. o = None
        <5>1. SUFFICES ASSUME o # None  PROVE FALSE  OBVIOUS
        <5>2. AsksOwner(k) /\ f.kind \in {"readUD", "readDU"}
          BY <1>1, <2>5, <3>6, <5>1 DEF Fills, AsksOwner
        <5>3. PICK peer : Called(k, "finish", ReadDown(k, o, peer))
          BY <1>3, <3>5, <5>1, <5>2 DEF AsksOwner
        <5>4. PICK n : n \in DOMAIN ReadDown(k, o, peer)  BY DEF ReadDown
        <5>5. frames'[n].ret = k /\ frames'[n].kind = "readDU" /\ frames'[n].ev = "lock"
          BY <1>1, <5>2, <5>3, <5>4, StepFacts, NewReadDown
        <5>6. n \in InFlight'  BY <5>3, <5>4 DEF Called
        <5> QED  BY <3>8, <5>5, <5>6 DEF Answered, Children, AccessKind
      <4>2. ~Transfer(k)
        BY <1>1, <1>5, <3>1 DEF Transfer, Accepts, Gives, GivesBlock, GivesExclusive, GivesData,
           Yields
      <4>3. ASSUME NEW m \in Mod, Low[m] = f.at
            PROVE  ~HasCopy(m, t, Owned)' /\ ~HasCopy(m, t, Exclusive)'
        <5>1. e[1] \in Mod  BY <3>4, EntryPair
        <5>2. Covered(e[1], t)  BY <1>5, <5>1, StepFacts DEF Levels, Family
        <5>3. ~HasCopy(m, t, Owned)
          <6>1. SUFFICES ASSUME HasCopy(m, t, Owned)  PROVE FALSE  OBVIOUS
          <6>2. HasCopy(m, t, Valid)  BY <6>1, Rights, CopyMonotone
          <6>3. dir[e].owner = m
            BY <1>5, <3>4, <4>3, <5>2, <6>1, <6>2, StepFacts, CoverAt
          <6> QED  BY <3>5, <4>1, <6>3, TreeAssumption
        <5>4. ~HasCopy(m, t, Exclusive)  BY <5>3, Rights, CopyMonotone
        <5>5. ~Moved(k, m, t)  BY <4>2 DEF Moved, Transfer
        <5>6. Low[m] # None  BY <3>4, <4>3, <5>1, TreeAssumption
        <5> QED  BY <1>5, <5>3, <5>4, <5>5, <5>6, HasCopyStays
      <4> QED  BY <4>1, <4>2, <4>3
    <3>9. Answered(k)' => /\ o = None
                          /\ \A m \in Mod : Low[m] = f.at => ~HasCopy(m, t, Owned)'
                                                            /\ ~HasCopy(m, t, Exclusive)'
      BY <3>8
    <3>10. dir'[e].owner = o  BY <3>1, <3>5
    <3> QED  BY ONLY <1>2, <3>1, <3>2, <3>3, <3>7, <3>9, <3>10 DEF Answer
  <2>6. ~ \E q : GivesBlock(k, q) \/ GivesData(k, q)
    BY <1>2, <1>8 DEF GivesBlock, GivesData, Told, Goes
  <2>7. ~Passes(k) /\ ~Received(k)
    BY <1>2, <1>5, <1>8 DEF Passes, ToldError, Told, Goes, Received, Ended
  <2>8. f.kind \in {"readUD", "readDU"}  BY <1>1
  <2> QED  BY <1>1, <2>2, <2>3, <2>4, <2>5, <2>6, <2>7, <2>8, StepFacts DEF Does, GivesUp, Settles,
              InvalidationEnds, SendsDown, Accepts, Refuses, EvictionFails, EvictionEnds, Returns,
              Takes, AsksExclusive, GivesExclusive, Yields, AccessKind
<1> QED  BY <1>7, <1>8

-----------------------------------------------------------------------------
(***************************************************************************)
(* All steps.                                                              *)
(***************************************************************************)
\* Nothing happens but that the accesses X start.
LEMMA Unmoved ==
  ASSUME IInv, IInv', Entries, Levels, NoEntry, NEW X,
         InFlight' = InFlight \cup X, X \cap InFlight = {},
         \A n \in X : frames'[n].kind \in AccessKind /\ frames'[n].ev = "lock",
         \A j \in InFlight : Same(j)
  PROVE  Levels'
<1>1. \A e \in Entry : blk'[e] = blk[e] /\ dir'[e] = dir[e]  BY DEF NoEntry
<1>2. ASSUME NEW j \in InFlight
      PROVE  /\ j \in InFlight' /\ Like(frames[j], frames'[j]) /\ Placed(frames[j], frames'[j])
             /\ Results(frames[j], frames'[j]) /\ Locked(j)' = Locked(j)
             /\ frames'[j].ev = frames[j].ev \/ (frames[j].ev = "lockWait" /\ frames'[j].ev = "lock")
             /\ Locks(j)' <=> Locks(j)
  BY DEF Same, Like, Placed, Results, Locked, Locks
<1>3. ASSUME NEW j \in InFlight
      PROVE  Answered(j)' <=> Answered(j)
  <2>1. \A c \in InFlight' : frames'[c].kind \notin AccessKind => c \in InFlight
    OBVIOUS
  <2>2. \A c \in InFlight : c \in InFlight' /\ frames'[c].kind = frames[c].kind
          /\ frames'[c].ret = frames[c].ret /\ (frames'[c].ev = "reply" <=> frames[c].ev = "reply")
    BY <1>2 DEF Like
  <2> QED  BY <2>1, <2>2 DEF Answered, Children
<1>4. ASSUME NEW x \in Entry, NEW t, NEW S
      PROVE  Copy(x, t, S)' <=> Copy(x, t, S)
  <2>1. ASSUME NEW j \in InFlight
        PROVE  (Grants(j, x, t, S)' <=> Grants(j, x, t, S)) /\ (Gone(j, x)' <=> Gone(j, x))
    <3>1. Grants(j, x, t, S)' <=> Grants(j, x, t, S)  BY <1>3, SameGrants
    <3>2. Gone(j, x)' <=> Gone(j, x)
      BY <1>2 DEF Gone, Like, Results, Source
    <3> QED  BY <3>1, <3>2
  <2>2. ASSUME NEW n \in X  PROVE ~Grants(n, x, t, S)' /\ ~Gone(n, x)'
    BY <2>2 DEF Grants, Granted, Gone
  <2> QED  BY <1>1, <1>2, <2>1, <2>2 DEF Copy
<1>5. ASSUME NEW m, NEW t, NEW S
      PROVE  HasCopy(m, t, S)' <=> HasCopy(m, t, S)
  BY <1>4 DEF HasCopy
<1>6. ASSUME NEW m, NEW t, Claimed(m, t)  PROVE Claimed(m, t)'
  BY <1>2, <1>6 DEF Claimed, Claims, Like
<1>7. ASSUME NEW j \in InFlight, NEW e, Awaits(j, e)  PROVE j \in InFlight' /\ Awaits(j, e)'
  BY <1>2, <1>3, <1>7 DEF Awaits, Holds, Like
<1>8. ASSUME NEW M \in Mod, NEW t \in Tag  PROVE Family(M, t)'
  <2>1. ASSUME NEW e \in Entry  PROVE Lasts(e, t)
    <3>1. blk'[e] = blk[e] /\ dir'[e] = dir[e]  BY <1>1
    <3>2. Present(e, t) => Present(e, t)'  BY <3>1 DEF Present
    <3> QED  BY <1>7, <3>1, <3>2 DEF Lasts
  <2>2. Family(M, t)  BY DEF Levels
  <2>3. \A m \in Mod :
          /\ HasCopy(m, t, Valid)' <=> HasCopy(m, t, Valid)
          /\ HasCopy(m, t, Owned)' <=> HasCopy(m, t, Owned)
          /\ HasCopy(m, t, Exclusive)' <=> HasCopy(m, t, Exclusive)
          /\ Claimed(m, t) => Claimed(m, t)'
    BY <1>5, <1>6
  <2> QED  BY <2>1, <2>2, <2>3, FamilyStays
<1>9. ASSUME NEW j \in InFlight'  PROVE DownUp(j)' /\ Answer(j)'
  <2>1. CASE j \in X
    BY <2>1 DEF DownUp, Answer, AccessKind
  <2>2. CASE j \in InFlight
    <3>1. PICK f : f = frames[j]  OBVIOUS
    <3>2. PICK g : g = frames'[j]  OBVIOUS
    <3>3. PICK i : i = f.ret  OBVIOUS
    <3>4. PICK e : e = Locked(i)  OBVIOUS
    <3>5. PICK x : x = Locked(j)  OBVIOUS
    <3>6. DownUp(j) /\ Answer(j) /\ FrameOK(j)  BY <2>2 DEF Levels, IInv
    <3>7. /\ g.kind = f.kind /\ g.from = f.from /\ g.at = f.at /\ g.tag = f.tag /\ g.ret = i
          /\ g.way = f.way /\ g.state = f.state
          /\ g.err = f.err /\ g.reply = f.reply /\ g.retain = f.retain
          /\ g.ev = f.ev \/ (f.ev = "lockWait" /\ g.ev = "lock")
          /\ Locked(j)' = x /\ (Locks(j)' <=> Locks(j)) /\ (Answered(j)' <=> Answered(j))
      BY <1>2, <1>3, <2>2, <3>1, <3>2, <3>3, <3>5 DEF Like, Placed, Results
    <3>8. ASSUME f.kind \in {"readDU", "writeDU"}, f.ev # "reply"
          PROVE  Locked(i)' = e /\ dir'[e] = dir[e]
      <4>1. i \in InFlight /\ CallOK(j) /\ CalledFor(j) /\ FrameOK(i)
        BY <2>2, <3>1, <3>3, <3>8, CallerWaits DEF IInv, TypeOK, Entries, AccessKind
      <4>2. frames[i].ev = "finish" /\ frames[i].kind \in {"readUD", "readDU", "invalidate"}
        BY <3>1, <3>3, <3>8, <4>1 DEF CallOK, CalledFor, FrameOK, AccessKind
      <4>3. e \in Entry  BY <3>4, <4>1, <4>2 DEF FrameOK, Locks
      <4> QED  BY <1>1, <1>2, <3>4, <4>1, <4>3
    <3>9. DownUp(j)'
      <4>1. HasCopy(f.at, f.tag, Valid) => HasCopy(f.at, f.tag, Valid)'
        <5>1. PICK m : m = f.at  OBVIOUS
        <5>2. PICK t : t = f.tag  OBVIOUS
        <5>3. HasCopy(m, t, Valid)' <=> HasCopy(m, t, Valid)  BY <1>5
        <5> QED  BY <5>1, <5>2, <5>3
      <4>2. /\ f.kind \in {"readDU", "writeDU"} => ~f.err /\ f.ev # "evicting"
            /\ f.kind = "readDU" /\ Locks(j) => f.state \in Owned
            /\ f.kind = "writeDU" /\ Locks(j) => f.state # "I"
            /\ f.kind = "readDU" /\ f.ev # "reply" => f.at # None /\ dir[e].owner = f.at
            /\ f.kind = "writeDU" /\ f.ev # "reply" =>
                 f.at \notin dir[e].sharers /\ HasCopy(f.at, f.tag, Valid)
            /\ f.kind = "invalidate" /\ f.reply = "ack_data" => f.state \in Exclusive
        BY <3>1, <3>3, <3>4, <3>6 DEF DownUp
      <4>3. f.kind \in {"readDU", "writeDU"} /\ f.ev # "reply" =>
              Locked(i)' = e /\ dir'[e] = dir[e]
        BY <3>8
      <4> QED  BY ONLY <3>2, <3>7, <4>1, <4>2, <4>3 DEF DownUp
    <3>10. Answer(j)'
      <4>1. PICK o : o = dir[x].owner  OBVIOUS
      <4>2. f.ev = "finish" /\ f.kind \in {"readUD", "readDU"} => dir'[x].owner = o
        <5>1. SUFFICES ASSUME f.ev = "finish", f.kind \in {"readUD", "readDU"}
                       PROVE  dir'[x].owner = o
          OBVIOUS
        <5>2. x \in Entry  BY <3>1, <3>5, <3>6, <5>1 DEF FrameOK, Locks
        <5> QED  BY <1>1, <4>1, <5>2
      <4>3. \A m : /\ HasCopy(m, f.tag, Exclusive)' <=> HasCopy(m, f.tag, Exclusive)
                   /\ HasCopy(m, f.tag, Owned)' <=> HasCopy(m, f.tag, Owned)
        <5>1. PICK t : t = f.tag  OBVIOUS
        <5>2. \A m : /\ HasCopy(m, t, Exclusive)' <=> HasCopy(m, t, Exclusive)
                     /\ HasCopy(m, t, Owned)' <=> HasCopy(m, t, Owned)
          BY <1>5
        <5> QED  BY <5>1, <5>2
      <4>4. /\ f.kind = "readDU" /\ (f.ev \notin {"finish", "reply"} \/ ~Answered(j)) => f.reply = "none"
            /\ f.kind = "readUD" /\ (f.ev \notin {"finish", "reply"} \/ ~Answered(j)) => ~f.retain
            /\ f.kind = "readUD" /\ f.ev = "finish" => o # f.from
            /\ f.kind = "readUD" /\ f.ev = "finish" /\ Answered(j) =>
                 /\ \A m \in Mod : Low[m] = f.at => ~HasCopy(m, f.tag, Exclusive)
                 /\ IF f.retain THEN HasCopy(o, f.tag, Owned)
                    ELSE \A m \in Mod : Low[m] = f.at => ~HasCopy(m, f.tag, Owned)
            /\ f.kind = "readDU" /\ f.ev = "finish" /\ Answered(j) =>
                 /\ \A m \in Mod : Low[m] = f.at => ~HasCopy(m, f.tag, Owned)
                 /\ f.reply = "none" => o = None
        BY <3>1, <3>5, <3>6, <4>1 DEF Answer
      <4> QED  BY ONLY <3>2, <3>7, <4>2, <4>3, <4>4 DEF Answer
    <3> QED  BY <3>9, <3>10
  <2> QED  BY <2>1, <2>2
<1> QED  BY <1>8, <1>9 DEF Levels

\* One step
LEMMA LevelsStep ==
  ASSUME IInv, IInv', Entries, Levels, "nc" \notin Ops, [Next]_vars
  PROVE  Levels'
<1>1. DownUpSucceeds /\ Plain  BY LevelsDownUp DEF Entries
<1>2. CASE UNCHANGED vars
  <2>1. NoEntry /\ InFlight' = InFlight \cup {}  BY <1>2 DEF vars, NoEntry, InFlight
  <2>2. \A j \in InFlight : Same(j)
    BY <1>2 DEF vars, Same, Like, Placed, Results, InFlight
  <2>3. PICK X : X = {}  OBVIOUS
  <2>4. /\ InFlight' = InFlight \cup X /\ X \cap InFlight = {}
        /\ \A n \in X : frames'[n].kind \in AccessKind /\ frames'[n].ev = "lock"
    BY <2>1, <2>3
  <2> QED  BY <2>1, <2>2, <2>4, Unmoved
<1>3. ASSUME NEW k, Starts(k)  PROVE Levels'
  <2>1. /\ NoEntry /\ InFlight' = InFlight \cup {k} /\ {k} \cap InFlight = {}
        /\ \A n \in {k} : frames'[n].kind \in AccessKind /\ frames'[n].ev = "lock"
    BY <1>3 DEF Starts
  <2>2. \A j \in InFlight : Same(j)  BY <1>3, <2>1 DEF Starts, Others
  <2> QED  BY <2>1, <2>2, Unmoved
<1>4. ASSUME NEW k \in InFlight, Event(k)  PROVE Levels'
  <2>1. Idle(k) /\ Does(k)  BY <1>1, <1>4, Effects
  <2>2. PICK p : Shape(k, p)  BY <2>1, DoesShape
  <2>3. Step(k, p)  BY <2>1, <2>2 DEF Step
  <2>4. ASSUME NEW M \in Mod, NEW t \in Tag  PROVE Family(M, t)'
    BY <2>3, FamilyStep
  <2>5. ASSUME NEW j \in InFlight'  PROVE DownUp(j)' /\ Answer(j)'
    <3>1. CASE j \notin InFlight  BY <2>3, <2>5, <3>1, NewDownUp, NewAnswer
    <3>2. CASE j = k
      <4>1. DownUp(j)'  BY <2>3, <2>5, <3>2, OwnDownUp
      <4>2. Like(frames[k], frames'[k])  BY <2>2, <2>5, <3>2 DEF Shape
      <4>3. Answer(j)'
        <5>1. CASE frames[k].kind \in {"readUD", "readDU"}
          BY <2>3, <2>5, <3>2, <5>1, OwnAnswer
        <5>2. CASE frames[k].kind \notin {"readUD", "readDU"}
          BY <3>2, <4>2, <5>2 DEF Answer, Like
        <5> QED  BY <5>1, <5>2
      <4> QED  BY <4>1, <4>3
    <3>3. CASE j \in InFlight /\ j # k
      <4>1. DownUp(j)'  BY <2>3, <3>3, OtherDownUp
      <4>2. Like(frames[j], frames'[j])
        BY <2>2, <2>5, <3>3, StillLike
      <4>3. Answer(j)'
        <5>1. CASE frames[j].kind \notin {"readUD", "readDU"}
          BY <4>2, <5>1 DEF Answer, Like
        <5>2. CASE frames[j].kind \in {"readUD", "readDU"} /\ GivesData(k, j)
          BY <2>3, <5>2, DataAnswer
        <5>3. CASE frames[j].kind \in {"readUD", "readDU"} /\ ~GivesData(k, j)
          BY <2>3, <3>3, <5>3, AnswerStays
        <5> QED  BY <5>1, <5>2, <5>3
      <4> QED  BY <4>1, <4>3
    <3> QED  BY <3>1, <3>2, <3>3
  <2> QED  BY <2>4, <2>5 DEF Levels
<1> QED
  <2>1. CASE \E a \in Access, op \in Ops, t \in Tag : Start(a, op, t)
    BY <1>3, <2>1, StartEffect
  <2> QED  BY <1>2, <1>4, <2>1 DEF Next

\* At the beginning nobody has a block.
LEMMA LevelsInit ==
  ASSUME Init  PROVE Levels
<1>1. InFlight = {}  BY DEF Init, InFlight
<1>2. \A e \in Entry : blk[e].state = "I" /\ dir[e].sharers = {} /\ dir[e].owner = None
  BY DEF Init
<1>3. ASSUME NEW M \in Mod, NEW t \in Tag  PROVE Family(M, t)
  <2>1. ASSUME NEW m, NEW S, "I" \notin S  PROVE ~HasCopy(m, t, S)
    BY <1>1, <1>2, <2>1 DEF HasCopy, Copy
  <2>2. \A m : ~HasCopy(m, t, Valid) /\ ~HasCopy(m, t, Owned) /\ ~HasCopy(m, t, Exclusive)
    BY <2>1, Rights
  <2> QED  BY <1>2, <2>2 DEF Family, Covered, Together, SharersHave, OwnerHasIt
<1> QED  BY <1>1, <1>3 DEF Levels

\* What the levels of the tree know of each other, in every state, when there are no
\* non-coherent stores
LevelsInv == IInv /\ Entries /\ Levels

\* Without non-coherent stores, for every tree of modules, blocks, ways and accesses:
\* the frames, the entries and the levels are consistent in every state.
THEOREM LevelsInvariant ==
  ASSUME "nc" \notin Ops
  PROVE  Spec => []LevelsInv
<1>1. IInv /\ Init => LevelsInv  BY EntriesInit, LevelsInit DEF LevelsInv
<1>2. IInv /\ IInv' /\ LevelsInv /\ [Next]_vars => LevelsInv'
  <2>1. SUFFICES ASSUME IInv, IInv', LevelsInv, [Next]_vars
                 PROVE  LevelsInv'
    OBVIOUS
  <2>2. Entries /\ Levels /\ DownUpSucceeds  BY <2>1, LevelsDownUp DEF LevelsInv
  <2>3. Entries'  BY <2>1, <2>2, EntriesStep
  <2>4. Levels'  BY <2>1, <2>2, LevelsStep
  <2> QED  BY <2>1, <2>3, <2>4 DEF LevelsInv
<1> QED  BY <1>1, <1>2, Invariant, PTL DEF Spec

-----------------------------------------------------------------------------
(***************************************************************************)
(* The properties that the runs check, for every tree of modules.          *)
(***************************************************************************)
\* What a module has, it has a copy of.
LEMMA HasIsCopy ==
  ASSUME NEW m, NEW t, NEW S, Has(m, t, S)
  PROVE  HasCopy(m, t, S)
BY DEF Has, Leaving, HasCopy, Copy, Gone

\* Two copies above one entry are both shared.
LEMMA LevelsSingleWriter ==
  LevelsInv => SingleWriter
<1>1. SUFFICES ASSUME LevelsInv, NEW m \in Mod, NEW n \in Mod, NEW t \in Tag,
                      Peers(m, n), Owns(m, t, {"M", "E"}), Has(n, t, Valid)
               PROVE  FALSE
  BY DEF SingleWriter
<1>2. Low[m] \in Mod /\ m # n /\ Low[n] = Low[m]  BY <1>1, TreeAssumption DEF Peers
<1>3. Together(Low[m], t)  BY <1>1, <1>2 DEF LevelsInv, Levels, Family
<1>4. HasCopy(m, t, Exclusive) /\ HasCopy(n, t, Valid)
  BY <1>1, HasIsCopy DEF Owns, Exclusive
<1> QED  BY <1>2, <1>3, <1>4 DEF Together

\* One of the modules above an entry has the block owned at most.
LEMMA LevelsSingleOwner ==
  LevelsInv => SingleOwner
<1>1. SUFFICES ASSUME LevelsInv, NEW m \in Mod, NEW n \in Mod, NEW t \in Tag,
                      Peers(m, n), Owns(m, t, {"O"}), Owns(n, t, {"M", "O", "E"})
               PROVE  FALSE
  BY DEF SingleOwner
<1>2. Low[m] \in Mod /\ m # n /\ Low[n] = Low[m]  BY <1>1, TreeAssumption DEF Peers
<1>3. Together(Low[m], t)  BY <1>1, <1>2 DEF LevelsInv, Levels, Family
<1>4. {"O"} \subseteq Owned  BY DEF Owned
<1>5. HasCopy(m, t, {"O"}) /\ HasCopy(n, t, Owned)
  BY <1>1, HasIsCopy DEF Owns, Owned
<1>6. HasCopy(m, t, Owned)  BY <1>4, <1>5, CopyMonotone
<1> QED  BY <1>2, <1>3, <1>5, <1>6 DEF Together

\* A block that is claimed is requested.
LEMMA ClaimedIsRequested ==
  ASSUME NEW m, NEW t, Claimed(m, t)
  PROVE  Request("writeDU", m, t)
BY DEF Claimed, Claims, Request

\* Copies are covered by the entry below.
LEMMA LevelsDirectoryCovers ==
  LevelsInv => DirectoryCovers
<1>1. SUFFICES ASSUME LevelsInv, NEW m \in Mod, NEW t \in Tag,
                      Low[m] # None, Has(m, t, Valid), ~Request("writeDU", m, t)
               PROVE  \E e \in Entry : /\ e[1] = Low[m] /\ blk[e].tag = t /\ blk[e].state # "I"
                                       /\ m \in dir[e].sharers
  BY DEF DirectoryCovers, Below
<1>2. Covered(Low[m], t)  BY <1>1, TreeAssumption DEF LevelsInv, Levels, Family
<1>3. HasCopy(m, t, Valid)  BY <1>1, HasIsCopy
<1>4. PICK e \in Entry : Covers(e, m, t)  BY <1>1, <1>2, <1>3 DEF Covered
<1> QED  BY <1>1, <1>4, ClaimedIsRequested DEF Covers, Present

\* So are owners.
LEMMA LevelsOwnerKnown ==
  LevelsInv => OwnerKnown
<1>1. SUFFICES ASSUME LevelsInv, NEW m \in Mod, NEW t \in Tag,
                      Low[m] # None, Owns(m, t, {"M", "O", "E"}), ~Request("writeDU", m, t)
               PROVE  \E e \in Entry : /\ e[1] = Low[m] /\ blk[e].tag = t /\ blk[e].state # "I"
                                       /\ dir[e].owner = m
  BY DEF OwnerKnown, Below
<1>2. Covered(Low[m], t)  BY <1>1, TreeAssumption DEF LevelsInv, Levels, Family
<1>3. HasCopy(m, t, Owned)  BY <1>1, HasIsCopy DEF Owns, Owned
<1>4. HasCopy(m, t, Valid)  BY <1>3, Rights, CopyMonotone
<1>5. PICK e \in Entry : Covers(e, m, t)  BY <1>1, <1>2, <1>4 DEF Covered
<1> QED  BY <1>1, <1>3, <1>5, ClaimedIsRequested DEF Covers, Present

\* The owner of an entry has a copy, or a request of the holder has taken it.
LEMMA LevelsOwnerHas ==
  LevelsInv => OwnerHas
<1>1. SUFFICES ASSUME LevelsInv, NEW e \in Entry, NEW o, o = dir[e].owner, o # None
               PROVE  /\ blk[e].state # "I" /\ o \in dir[e].sharers
                      /\ \/ lock[e] # None
                         \/ Has(o, blk[e].tag, {"M", "O", "E"})
                         \/ \E d \in Entry : d[1] = o /\ lock[d] = blk[e].tag
  BY DEF OwnerHas
<1>2. IInv /\ Entries /\ Levels /\ EntryOK(e)  BY <1>1 DEF LevelsInv, IInv
<1>3. o \in dir[e].sharers /\ blk[e].state # "I" /\ blk[e].tag \in Tag
  BY <1>1, <1>2 DEF EntryOK
<1>4. PICK t \in Tag : t = blk[e].tag  BY <1>3
<1>5. e[1] \in Mod  BY EntryPair
<1>6. OwnerHasIt(e, t)  BY <1>2, <1>4, <1>5 DEF Levels, Family
<1>7. CASE \E k \in InFlight : Awaits(k, e)
  <2>1. HeldOnce  BY <1>2 DEF IInv
  <2> QED  BY <1>3, <1>7, <2>1 DEF Awaits, HeldOnce
<1>8. CASE HasCopy(o, t, Owned)
  <2>1. PICK x \in Entry : x[1] = o /\ Copy(x, t, Owned)  BY <1>8 DEF HasCopy
  <2>2. CASE \E j \in InFlight : Grants(j, x, t, Owned)
    <3>1. lock[x] = t  BY <1>2, <2>2, GrantsHolds
    <3> QED  BY <1>3, <1>4, <2>1, <3>1
  <2>3. CASE /\ blk[x].tag = t /\ blk[x].state \in Owned
             /\ ~ \E j \in InFlight : Gone(j, x)
    <3>1. Has(o, t, {"M", "O", "E"})  BY <2>1, <2>3 DEF Has, Leaving, Gone, Owned
    <3> QED  BY <1>3, <1>4, <3>1
  <2> QED  BY <2>1, <2>2, <2>3 DEF Copy
<1> QED  BY <1>1, <1>6, <1>7, <1>8 DEF OwnerHasIt

\* A frame that is about to act has called nobody.
LEMMA ActionIdle ==
  ASSUME IInv, NEW k \in InFlight, frames[k].ev = "action"
  PROVE  Idle(k)
<1>1. SUFFICES ASSUME NEW c \in Children(k)  PROVE FALSE  BY DEF Idle
<1>2. /\ c \in InFlight /\ frames[c].ret = k /\ frames[c].kind \notin AccessKind
      /\ frames[c] \in Frame(k) /\ CallOK(c) /\ FrameOK(k)
  BY <1>1, FrameFacts DEF Children
<1>3. frames[c].kind \in {"readUD", "readDU", "writeUD", "writeDU",
                          "evict", "invalidate", "message"}
  BY <1>2, TreeAssumption DEF Frame, Kind, AccessKind
<1> QED  BY <1>2, <1>3 DEF CallOK, FrameOK

\* A module that asks for a block does not own it.
LEMMA AskerOwnsNot ==
  ASSUME LevelsInv, NEW k \in InFlight, frames[k].kind = "readUD", frames[k].ev = "action",
         ~frames[k].err, NEW e, e = Locked(k)
  PROVE  dir[e].owner # frames[k].from
<1>1. SUFFICES ASSUME dir[e].owner = frames[k].from  PROVE FALSE  OBVIOUS
<1>2. IInv /\ Entries /\ Levels /\ Idle(k) /\ Locks(k)  BY ActionIdle DEF LevelsInv, Locks
<1>3. /\ FrameOK(k) /\ CallOK(k) /\ ReliesOn(k) /\ CalledFor(k)
      /\ frames[k] \in Frame(frames[k].ret)
  BY <1>2, FrameFacts DEF Entries
<1>4. PICK m : m = frames[k].from  OBVIOUS
<1>5. PICK t : t = frames[k].tag  OBVIOUS
<1>6. m \in Mod /\ t \in Tag /\ m # None  BY <1>3, <1>4, <1>5, TreeAssumption DEF Frame
<1>7. e \in Entry /\ Holds(k, e)  BY <1>2, LockedOwn
<1>8. blk[e].tag = t /\ e[1] \in Mod
  <2>1. EntryOK(e)  BY <1>2, <1>7 DEF IInv
  <2>2. blk[e].state # "I"  BY <1>1, <1>4, <1>6, <2>1 DEF EntryOK
  <2> QED  BY <1>2, <1>3, <1>5, <1>7, <2>2, EntryPair DEF ReliesOn
<1>9. OwnerHasIt(e, t)  BY <1>2, <1>6, <1>7, <1>8 DEF Levels, Family
<1>10. ~ \E j \in InFlight : Awaits(j, e)
  <2>1. SUFFICES ASSUME NEW j \in InFlight, Awaits(j, e)  PROVE FALSE  OBVIOUS
  <2>2. HeldOnce  BY <1>2 DEF IInv
  <2>3. j = k  BY <1>7, <2>1, <2>2 DEF Awaits, HeldOnce
  <2> QED  BY <2>1, <2>3 DEF Awaits
<1>11. HasCopy(m, t, Owned)  BY <1>1, <1>4, <1>6, <1>9, <1>10 DEF OwnerHasIt
<1>12. PICK x \in Entry : x[1] = m /\ Copy(x, t, Owned)  BY <1>11 DEF HasCopy
<1>13. PICK q : q = frames[k].ret  OBVIOUS
<1>14. PICK y : y = Locked(q)  OBVIOUS
<1>15. /\ q \in InFlight /\ k \in Children(q)
       /\ frames[q].kind \in {"load", "prefetch", "readUD"}
       /\ frames[q].ev = "miss" /\ frames[q].tag = t /\ frames[q].at = m
  <2>1. q \in InFlight  BY <1>2, <1>13 DEF IInv, TypeOK, AccessKind
  <2>2. PlainFrame(q)  BY <1>2, <2>1 DEF Entries, Plain
  <2> QED
    BY <1>3, <1>4, <1>5, <1>13, <2>1, <2>2 DEF CallOK, CalledFor, PlainFrame, Children, AccessKind
<1>16. /\ Locks(q) /\ y \in Entry /\ Holds(q, y) /\ y[1] = m
       /\ lock[y] = t /\ Matches(y, t)
  <2>1. FrameOK(q) /\ Tagged(q)  BY <1>2, <1>15, FrameFacts DEF Entries
  <2>2. Locks(q)  BY <1>15 DEF Locks
  <2>3. y \in Entry /\ Holds(q, y)  BY <1>14, <2>1, <2>2 DEF FrameOK, Holds
  <2> QED  BY <1>14, <1>15, <2>1, <2>2, <2>3 DEF Tagged, Matches, Locked
<1>17. x = y
  <2>1. Matches(x, t)  BY <1>2, <1>12, Rights, CopyMatches
  <2> QED  BY <1>2, <1>6, <1>12, <1>16, <2>1, SameEntry
<1>18. blk[y].state = "I"
  <2>1. Current(q)  BY <1>2, <1>15 DEF Entries
  <2> QED  BY <1>14, <1>15, <1>16, <2>1 DEF Current
<1>19. PICK j \in InFlight : Grants(j, y, t, Owned)
  BY <1>12, <1>17, <1>18, Rights DEF Copy
<1>20. j = q
  <2>1. HeldOnce  BY <1>2 DEF IInv
  <2>2. Holds(j, y)  BY <1>2, <1>19, GrantsHolds
  <2> QED  BY <1>15, <1>16, <2>1, <2>2 DEF HeldOnce
<1> QED  BY <1>15, <1>19, <1>20 DEF Grants, Granted, Answered

\* A block that is evicted below the module that has it takes its data.
LEMMA EvictedFits ==
  ASSUME LevelsInv, NEW k \in InFlight, frames[k].kind = "evict", frames[k].ev = "action",
         ~frames[k].err
  PROVE  CanTakeData(frames[k])
<1>1. IInv /\ Entries /\ Levels /\ Idle(k) /\ Locks(k)  BY ActionIdle DEF LevelsInv, Locks
<1>2. /\ FrameOK(k) /\ CallOK(k) /\ ReliesOn(k) /\ CalledFor(k) /\ Current(k) /\ PlainFrame(k)
      /\ frames[k] \in Frame(frames[k].ret)
  BY <1>1, FrameFacts DEF Entries, Plain
<1>3. SUFFICES ASSUME frames[k].reply = "ack_data"  PROVE frames[k].state \in Exclusive
  BY <1>2 DEF CanTakeData, Exclusive, PlainFrame
<1>4. PICK m : m = frames[k].from  OBVIOUS
<1>5. PICK t : t = frames[k].tag  OBVIOUS
<1>6. PICK s : s = Source(k)  OBVIOUS
<1>7. PICK e : e = Locked(k)  OBVIOUS
<1>8. m \in Mod /\ t \in Tag  BY <1>2, <1>4, <1>5 DEF Frame
<1>9. s \in Entry /\ s[1] = m /\ blk[s].tag = t /\ blk[s].state \in {"M", "O"}
  BY <1>2, <1>3, <1>4, <1>5, <1>6 DEF FrameOK, Current, Source
<1>10. ~ \E j \in InFlight : Gone(j, s)
  <2>1. SUFFICES ASSUME NEW j \in InFlight, Gone(j, s)  PROVE FALSE  OBVIOUS
  <2>2. frames[j].kind = "evict" /\ Source(j) = s /\ frames[j].ev = "reply"  BY <2>1 DEF Gone
  <2>3. /\ frames[k].ret \in InFlight /\ Holds(frames[k].ret, s)
        /\ frames[j].ret \in InFlight /\ Holds(frames[j].ret, s)
    BY <1>1, <1>6, <2>2, CallerHolds
  <2>4. HeldOnce  BY <1>1 DEF IInv
  <2>5. frames[j].ret = frames[k].ret  BY <1>9, <2>3, <2>4 DEF HeldOnce
  <2>6. /\ j = <<j[1], frames[j].ret, "evict", j[4]>> /\ k = <<k[1], frames[k].ret, "evict", k[4]>>
    BY <1>1, <2>2 DEF IInv, TypeOK
  <2>7. j[1] = frames[j].ret[1] /\ k[1] = frames[k].ret[1]
    BY <1>1, <2>2, FrameFacts DEF CallOK, AccessKind
  <2>8. CalledFor(j)  BY <1>1 DEF Entries
  <2>9. j[4] = s[1] /\ k[4] = s[1]
    BY <1>2, <1>6, <2>2, <2>8 DEF CalledFor, Source
  <2>10. j = k  BY ONLY <2>5, <2>6, <2>7, <2>9
  <2> QED  BY <2>2, <2>10
<1>11. HasCopy(m, t, Owned)  BY <1>9, <1>10 DEF HasCopy, Copy, Owned
<1>12. HasCopy(m, t, Valid)  BY <1>11, Rights, CopyMonotone
<1>13. e \in Entry /\ Private(k, e) /\ Matches(e, t)  BY <1>1, <1>5, <1>7, LockedOwn
<1>14. Low[m] = e[1] /\ e[1] \in Mod
  BY <1>2, <1>4, <1>7, <1>13, EntryPair DEF CalledFor, Locked
<1>15. Covered(e[1], t)  BY <1>1, <1>8, <1>14 DEF Levels, Family
<1>16. blk[e].state \in Exclusive
  BY <1>1, <1>8, <1>11, <1>12, <1>13, <1>14, <1>15, CoverAt
<1>17. blk[e].state = frames[k].state  BY <1>1, <1>2, <1>7 DEF ReliesOn
<1> QED  BY <1>16, <1>17

\* Each assertion is a part of what the frame that reaches it relies on.
LEMMA LevelsAssertionsHold ==
  LevelsInv => AssertionsHold
<1>1. SUFFICES ASSUME LevelsInv, NEW k \in InFlight,
                      NEW f, f = frames[k], NEW e, e = Locked(k),
                      NEW unused, unused = [owner |-> None, sharers |-> {}]
               PROVE
    /\ f.kind = "readUD" /\ f.ev = "action" /\ ~f.err =>
         /\ dir[e].owner # f.from
         /\ f.state = "I" => dir[e] = unused
    /\ f.kind \in {"readDU", "writeDU"} => ~f.err
    /\ f.kind = "readDU" /\ f.ev = "action" => f.state \notin {"I", "S", "N"}
    /\ f.kind = "writeDU" /\ f.ev = "exclusive" => f.state # "I"
    /\ f.kind = "writeDU" /\ Scheduled(k, "exclusive") => dir[e] = unused
    /\ f.kind = "writeUD" /\ f.ev = "finish" /\ ~f.err =>
         dir[e].sharers \subseteq {f.from}
    /\ f.kind = "evict" /\ f.ev = "action" /\ ~f.err => CanTakeData(f)
    /\ f.kind = "evict" => dir[Source(k)] = unused
    /\ f.kind = "message" /\ f.ev = "action" /\ ~f.err => dir[e].owner = f.from
  BY DEF AssertionsHold
<1>2. IInv /\ Entries /\ Levels  BY <1>1 DEF LevelsInv
<1>3. /\ FrameOK(k) /\ ReliesOn(k) /\ PlainFrame(k) /\ DownUp(k) /\ f \in Frame(f.ret)
  BY <1>1, <1>2, FrameFacts DEF Entries, Plain, Levels
<1>4. ASSUME f.kind = "readUD", f.ev = "action", ~f.err
      PROVE  dir[e].owner # f.from /\ (f.state = "I" => dir[e] = unused)
  <2>1. Locks(k)  BY <1>1, <1>4 DEF Locks
  <2>2. e \in Entry  BY <1>1, <1>3, <2>1 DEF FrameOK
  <2>3. f.state = "I" => blk[e].state = "I"  BY <1>1, <1>3, <1>4, <2>1 DEF ReliesOn
  <2>4. f.state = "I" => dir[e] = unused  BY <1>1, <1>2, <2>2, <2>3, EmptyEntry
  <2>5. dir[e].owner # f.from  BY <1>1, <1>4, AskerOwnsNot
  <2> QED  BY <2>4, <2>5
<1>5. f.kind \in {"readDU", "writeDU"} => ~f.err  BY <1>1, <1>3 DEF DownUp
<1>6. f.kind = "readDU" /\ f.ev = "action" => f.state \notin {"I", "S", "N"}
  BY <1>1, <1>3, <1>5 DEF DownUp, Locks, Owned
<1>7. f.kind = "writeDU" /\ f.ev = "exclusive" => f.state # "I"
  BY <1>1, <1>3 DEF DownUp, Locks
<1>8. ASSUME f.kind = "writeDU", f.ev = "exclusive"  PROVE dir[e] = unused
  <2>1. e \in Entry  BY <1>1, <1>3, <1>8 DEF FrameOK, Locks
  <2>2. EntryOK(e)  BY <1>2, <2>1 DEF IInv
  <2>3. PICK m : m = f.from  OBVIOUS
  <2>4. m \in Mod /\ f.at \in Mod /\ Low[f.at] = m /\ e[1] = f.at
    BY <1>1, <1>3, <1>8, <2>3 DEF FrameOK, Frame, Locked
  <2>5. dir[e].sharers \subseteq {m}  BY <1>1, <1>3, <1>8, <2>3 DEF ReliesOn
  <2>6. m \notin dir[e].sharers
    <3>1. SUFFICES ASSUME m \in dir[e].sharers  PROVE FALSE  OBVIOUS
    <3>2. Low[m] = f.at  BY <2>2, <2>4, <3>1 DEF EntryOK
    <3> QED  BY <2>4, <3>2, TreeAssumption
  <2>7. dir[e].sharers = {}  BY <2>5, <2>6
  <2> QED  BY <1>1, <1>2, <2>1, <2>7, EmptyEntry
<1>9. f.kind = "writeUD" /\ f.ev = "finish" => dir[e].sharers \subseteq {f.from}
  BY <1>1, <1>3 DEF ReliesOn
<1>10. f.kind = "evict" /\ f.ev = "action" /\ ~f.err => CanTakeData(f)
  BY <1>1, EvictedFits
<1>11. f.kind = "evict" => dir[Source(k)] = unused
  <2>1. ASSUME f.kind = "evict"  PROVE Source(k) \in Entry /\ dir[Source(k)].sharers = {}
    BY <1>1, <1>3, <2>1 DEF FrameOK, ReliesOn
  <2> QED  BY <1>1, <1>2, <2>1, EmptyEntry
<1>12. f.kind # "message"  BY <1>1, <1>3 DEF PlainFrame
<1> QED  BY <1>1, <1>4, <1>5, <1>6, <1>7, <1>8, <1>9, <1>10, <1>11, <1>12 DEF Scheduled

\* Without non-coherent stores: a module that has a block modified or exclusive is the
\* only one of its level that has it.
THEOREM WritersAlone ==
  ASSUME "nc" \notin Ops
  PROVE  Spec => []SingleWriter
BY LevelsInvariant, LevelsSingleWriter, PTL

\* Without non-coherent stores: at most one module of a level answers for a modified
\* block.
THEOREM OwnersAlone ==
  ASSUME "nc" \notin Ops
  PROVE  Spec => []SingleOwner
BY LevelsInvariant, LevelsSingleOwner, PTL

\* Without non-coherent stores: a block that a module has is in the lower level, whose
\* directory counts the module as a sharer, or a request is on its way to take it.
THEOREM Inclusion ==
  ASSUME "nc" \notin Ops
  PROVE  Spec => []DirectoryCovers
BY LevelsInvariant, LevelsDirectoryCovers, PTL

\* Without non-coherent stores: the lower level knows the module that has a block
\* modified, owned or exclusive.
THEOREM OwnersKnown ==
  ASSUME "nc" \notin Ops
  PROVE  Spec => []OwnerKnown
BY LevelsInvariant, LevelsOwnerKnown, PTL

\* Without non-coherent stores: the owner that a directory names has the block, or is
\* about to get it.
THEOREM OwnersHave ==
  ASSUME "nc" \notin Ops
  PROVE  Spec => []OwnerHas
BY LevelsInvariant, LevelsOwnerHas, PTL

\* Without non-coherent stores: no assert() and no fatal() of the handlers is reached.
THEOREM Assertions ==
  ASSUME "nc" \notin Ops
  PROVE  Spec => []AssertionsHold
BY LevelsInvariant, LevelsAssertionsHold, PTL
=============================================================================

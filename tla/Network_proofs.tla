--------------------------- MODULE Network_proofs ---------------------------
(***************************************************************************)
(* The events of the interconnection network: none is lost or scheduled    *)
(* twice, for any networks, routing tables and messages, and nobody waits  *)
(* for an empty buffer.                                                    *)
(***************************************************************************)
EXTENDS Network, TLAPS, FiniteSetTheorems, WellFoundedInduction

-----------------------------------------------------------------------------
(***************************************************************************)
(* Events in lists.  Q is a function from lists to sequences of events, E  *)
(* a set of events.                                                        *)
(***************************************************************************)
Absent(Q, E) == \A x \in DOMAIN Q : \A i \in DOMAIN Q[x] : Q[x][i] \notin E

Unique(Q, E) ==
  \A x, y \in DOMAIN Q : \A i \in DOMAIN Q[x], j \in DOMAIN Q[y] : Q[x][i] \in E /\ Q[y][j] \in E => x = y /\ i = j

One(Q, E) == Unique(Q, E) /\ ~Absent(Q, E)

\* From Q to R the events T, at most one, are taken out and the events F are put in, each
\* of them once.
Effect(Q, R, T, F) ==
  \A E :
    /\ E \cap F = {} /\ Absent(Q, E) => Absent(R, E)
    /\ E \cap F = {} /\ E \cap T = {} /\ One(Q, E) => One(R, E)
    /\ E \cap F = {} /\ E \cap T # {} /\ One(Q, E) => Absent(R, E)
    /\ \A f : E \cap F = {f} /\ (Absent(Q, E) \/ (E \cap T # {} /\ One(Q, E))) => One(R, E)

LEMMA SameEffect == ASSUME NEW Q  PROVE Effect(Q, Q, {}, {})
BY DEF Effect

LEMMA Effects ==
  ASSUME NEW Q, NEW R, NEW S, NEW T, NEW F, Effect(Q, R, T, {}), Effect(R, S, {}, F)
  PROVE  Effect(Q, S, T, F)
<1> SUFFICES ASSUME NEW E
             PROVE  /\ E \cap F = {} /\ Absent(Q, E) => Absent(S, E)
                    /\ E \cap F = {} /\ E \cap T = {} /\ One(Q, E) => One(S, E)
                    /\ E \cap F = {} /\ E \cap T # {} /\ One(Q, E) => Absent(S, E)
                    /\ \A f : E \cap F = {f} /\ (Absent(Q, E) \/ (E \cap T # {} /\ One(Q, E)))
                                => One(S, E)
  BY DEF Effect
<1>1. /\ Absent(Q, E) => Absent(R, E)
      /\ E \cap T = {} /\ One(Q, E) => One(R, E)
      /\ E \cap T # {} /\ One(Q, E) => Absent(R, E)
  BY DEF Effect
<1>2. /\ E \cap F = {} /\ Absent(R, E) => Absent(S, E)
      /\ E \cap F = {} /\ One(R, E) => One(S, E)
      /\ \A f : E \cap F = {f} /\ Absent(R, E) => One(S, E)
  BY DEF Effect
<1> QED  BY <1>1, <1>2

\* The first event of list x is taken out.
LEMMA Taken ==
  ASSUME NEW Q, NEW x \in DOMAIN Q, NEW V, Q \in [DOMAIN Q -> Seq(V)], Q[x] # <<>>,
         NEW R, R = [Q EXCEPT ![x] = Tail(@)]
  PROVE  Effect(Q, R, {Head(Q[x])}, {})
<1>1. DOMAIN R = DOMAIN Q /\ \A y \in DOMAIN Q : y # x => R[y] = Q[y]
  OBVIOUS
<1>2. PICK n \in Nat : n = Len(Q[x])  OBVIOUS
<1>3. n > 0 /\ DOMAIN Q[x] = 1 .. n /\ Head(Q[x]) = Q[x][1]  BY <1>2
<1>4. DOMAIN R[x] = 1 .. n - 1 /\ \A i \in 1 .. n - 1 : R[x][i] = Q[x][i + 1]
  BY <1>2, <1>3
<1>5. ASSUME NEW E, Absent(Q, E)  PROVE Absent(R, E)
  <2> SUFFICES ASSUME NEW y \in DOMAIN Q, NEW i \in DOMAIN R[y]  PROVE R[y][i] \notin E
    BY <1>1 DEF Absent
  <2>1. CASE y = x  BY <1>3, <1>4, <1>5, <2>1 DEF Absent
  <2>2. CASE y # x  BY <1>1, <1>5, <2>2 DEF Absent
  <2> QED  BY <2>1, <2>2
<1>6. ASSUME NEW E, Unique(Q, E)  PROVE Unique(R, E)
  <2> SUFFICES ASSUME NEW y \in DOMAIN Q, NEW z \in DOMAIN Q,
                      NEW i \in DOMAIN R[y], NEW j \in DOMAIN R[z],
                      R[y][i] \in E, R[z][j] \in E
               PROVE  y = z /\ i = j
    BY <1>1 DEF Unique
  <2>1. PICK k \in DOMAIN Q[y] : Q[y][k] = R[y][i] /\ (k = i \/ (y = x /\ k = i + 1)) /\ (y = x => k = i + 1)
    BY <1>1, <1>3, <1>4
  <2>2. PICK l \in DOMAIN Q[z] : Q[z][l] = R[z][j] /\ (l = j \/ (z = x /\ l = j + 1)) /\ (z = x => l = j + 1)
    BY <1>1, <1>3, <1>4
  <2>3. y = z /\ k = l  BY <1>6, <2>1, <2>2 DEF Unique
  <2>4. CASE y = x
    <3>1. i \in Nat /\ j \in Nat  BY <1>3, <1>4, <2>3, <2>4
    <3> QED  BY <2>1, <2>2, <2>3, <2>4, <3>1
  <2>5. CASE y # x  BY <2>1, <2>2, <2>3, <2>5
  <2> QED  BY <2>4, <2>5
<1>7. ASSUME NEW E, One(Q, E), Head(Q[x]) \notin E  PROVE ~Absent(R, E)
  <2>1. PICK y \in DOMAIN Q : \E i \in DOMAIN Q[y] : Q[y][i] \in E  BY <1>7 DEF One, Absent
  <2>2. PICK i \in DOMAIN Q[y] : Q[y][i] \in E  BY <2>1
  <2>3. CASE y = x
    <3>1. i \in 2 .. n  BY <1>3, <1>7, <2>2, <2>3
    <3>2. PICK j : j = i - 1  OBVIOUS
    <3>3. j \in 1 .. n - 1 /\ i = j + 1  BY <1>2, <3>1, <3>2
    <3> QED  BY <1>1, <1>4, <2>2, <2>3, <3>3 DEF Absent
  <2>4. CASE y # x  BY <1>1, <2>2, <2>4 DEF Absent
  <2> QED  BY <2>3, <2>4
<1>8. ASSUME NEW E, One(Q, E), Head(Q[x]) \in E  PROVE Absent(R, E)
  <2> SUFFICES ASSUME NEW y \in DOMAIN Q, NEW i \in DOMAIN R[y], R[y][i] \in E  PROVE FALSE
    BY <1>1 DEF Absent
  <2>1. CASE y = x
    <3>1. i \in 1 .. n - 1 /\ Q[x][i + 1] \in E /\ Q[x][1] \in E /\ 1 \in 1 .. n /\ i + 1 \in 1 .. n
      BY <1>2, <1>3, <1>4, <1>8, <2>1
    <3>2. i + 1 = 1  BY <1>3, <1>8, <3>1 DEF One, Unique
    <3> QED  BY <3>1, <3>2
  <2>2. CASE y # x
    <3>1. Q[y][i] \in E /\ i \in DOMAIN Q[y] /\ Q[x][1] \in E /\ 1 \in DOMAIN Q[x]
      BY <1>1, <1>3, <1>8, <2>2
    <3> QED  BY <1>8, <2>2, <3>1 DEF One, Unique
  <2> QED  BY <2>1, <2>2
<1> SUFFICES ASSUME NEW E
             PROVE  /\ Absent(Q, E) => Absent(R, E)
                    /\ E \cap {Head(Q[x])} = {} /\ One(Q, E) => One(R, E)
                    /\ E \cap {Head(Q[x])} # {} /\ One(Q, E) => Absent(R, E)
  BY DEF Effect
<1> QED  BY <1>5, <1>6, <1>7, <1>8 DEF One

LEMMA Joined ==
  ASSUME NEW V, NEW a \in Seq(V), NEW b \in Seq(V), NEW n, n = Len(a), NEW l, l = Len(b)
  PROVE  /\ n \in Nat /\ l \in Nat /\ DOMAIN a = 1 .. n /\ DOMAIN b = 1 .. l
         /\ a \o b \in Seq(V) /\ DOMAIN (a \o b) = 1 .. n + l
         /\ \A i \in 1 .. n : (a \o b)[i] = a[i]
         /\ \A i \in 1 .. l : (a \o b)[n + i] = b[i]
<1>1. n \in Nat /\ l \in Nat /\ DOMAIN a = 1 .. n /\ DOMAIN b = 1 .. l  OBVIOUS
<1>2. a \o b \in Seq(V) /\ DOMAIN (a \o b) = 1 .. n + l  OBVIOUS
<1>3. \A i \in 1 .. n : (a \o b)[i] = a[i]  BY <1>1
<1>4. ASSUME NEW i \in 1 .. l  PROVE (a \o b)[n + i] = b[i]
  <2>1. n + i \in 1 .. n + l /\ n + i > n /\ (n + i) - n = i  BY <1>1
  <2> QED  BY <1>1, <2>1
<1> QED  BY <1>1, <1>2, <1>3, <1>4

\* The events of a sequence, each of them once, are put at the end of list x.
LEMMA PutAll ==
  ASSUME NEW Q, NEW x \in DOMAIN Q, NEW V, Q \in [DOMAIN Q -> Seq(V)], NEW s \in Seq(V),
         \A i, j \in DOMAIN s : s[i] = s[j] => i = j,
         NEW R, R = [Q EXCEPT ![x] = @ \o s]
  PROVE  Effect(Q, R, {}, Range(s))
<1>1. DOMAIN R = DOMAIN Q /\ \A y \in DOMAIN Q : y # x => R[y] = Q[y]
  OBVIOUS
<1>2. PICK n : n = Len(Q[x])  OBVIOUS
<1>3. PICK l : l = Len(s)  OBVIOUS
<1>4. /\ n \in Nat /\ l \in Nat
      /\ DOMAIN Q[x] = 1 .. n /\ DOMAIN s = 1 .. l /\ DOMAIN R[x] = 1 .. n + l
  BY <1>2, <1>3, Joined
<1>5. \A i \in 1 .. n : R[x][i] = Q[x][i]  BY <1>2, <1>3, Joined
<1>6. \A i \in 1 .. l : R[x][n + i] = s[i]  BY <1>2, <1>3, Joined
<1>7. Range(s) = {s[i] : i \in DOMAIN s}  BY DEF Range
\* An event of R is in the same place of Q or one of the new ones.
<1>8. ASSUME NEW y \in DOMAIN Q, NEW i \in DOMAIN R[y]
      PROVE  \/ i \in DOMAIN Q[y] /\ R[y][i] = Q[y][i]
             \/ /\ y = x /\ i \in Nat /\ i - n \in DOMAIN s /\ R[y][i] = s[i - n]
                /\ R[y][i] \in Range(s)
  <2>1. CASE y = x /\ i <= n  BY <1>4, <1>5, <2>1
  <2>2. CASE y = x /\ ~(i <= n)
    <3>1. i \in 1 .. n + l  BY <1>4, <2>2
    <3>2. PICK k : k = i - n  OBVIOUS
    <3>3. k \in 1 .. l /\ i = n + k  BY <1>4, <2>2, <3>1, <3>2
    <3> QED  BY <1>4, <1>6, <1>7, <2>2, <3>1, <3>2, <3>3
  <2>3. CASE y # x  BY <1>1, <2>3
  <2> QED  BY <2>1, <2>2, <2>3
\* What was in Q is still there.
<1>9. \A y \in DOMAIN Q : \A i \in DOMAIN Q[y] : i \in DOMAIN R[y] /\ R[y][i] = Q[y][i]
  BY <1>1, <1>4, <1>5
<1>10. ASSUME NEW E, E \cap Range(s) = {}, Absent(Q, E)  PROVE Absent(R, E)
  BY <1>1, <1>8, <1>10 DEF Absent
<1>11. ASSUME NEW E, E \cap Range(s) = {}, One(Q, E)  PROVE One(R, E)
  <2>1. Unique(R, E)
    <3> SUFFICES ASSUME NEW y \in DOMAIN Q, NEW z \in DOMAIN Q,
                        NEW i \in DOMAIN R[y], NEW j \in DOMAIN R[z],
                        R[y][i] \in E, R[z][j] \in E
                 PROVE  y = z /\ i = j
      BY <1>1 DEF Unique
    <3>1. i \in DOMAIN Q[y] /\ Q[y][i] \in E  BY <1>8, <1>11
    <3>2. j \in DOMAIN Q[z] /\ Q[z][j] \in E  BY <1>8, <1>11
    <3> QED  BY <1>11, <3>1, <3>2 DEF One, Unique
  <2>2. ~Absent(R, E)  BY <1>1, <1>9, <1>11 DEF One, Absent
  <2> QED  BY <2>1, <2>2 DEF One
<1>12. ASSUME NEW E, NEW f, E \cap Range(s) = {f}, Absent(Q, E)  PROVE One(R, E)
  <2>1. PICK k \in 1 .. l : s[k] = f  BY <1>4, <1>7, <1>12
  <2>2. ASSUME NEW y \in DOMAIN Q, NEW i \in DOMAIN R[y], R[y][i] \in E
        PROVE  y = x /\ i = n + k
    <3>1. ~(i \in DOMAIN Q[y] /\ R[y][i] = Q[y][i])  BY <1>12, <2>2 DEF Absent
    <3>2. /\ y = x /\ i \in Nat /\ i - n \in DOMAIN s /\ R[y][i] = s[i - n]
          /\ R[y][i] \in Range(s)
      BY <1>8, <3>1
    <3>3. s[i - n] = s[k]  BY <1>12, <2>1, <2>2, <3>2
    <3>4. i - n = k  BY <1>4, <2>1, <3>2, <3>3
    <3> QED  BY <1>4, <2>1, <3>2, <3>4
  <2>3. Unique(R, E)  BY <1>1, <2>2 DEF Unique
  <2>4. n + k \in DOMAIN R[x] /\ R[x][n + k] = f /\ f \in E
    BY <1>4, <1>6, <1>12, <2>1
  <2> QED  BY <1>1, <2>3, <2>4 DEF One, Absent
<1> SUFFICES ASSUME NEW E
             PROVE  /\ E \cap Range(s) = {} /\ Absent(Q, E) => Absent(R, E)
                    /\ E \cap Range(s) = {} /\ One(Q, E) => One(R, E)
                    /\ \A f : E \cap Range(s) = {f} /\ Absent(Q, E) => One(R, E)
  BY DEF Effect
<1> QED  BY <1>10, <1>11, <1>12

LEMMA Put ==
  ASSUME NEW Q, NEW x \in DOMAIN Q, NEW V, Q \in [DOMAIN Q -> Seq(V)], NEW e \in V,
         NEW R, R = [Q EXCEPT ![x] = Append(@, e)]
  PROVE  Effect(Q, R, {}, {e})
<1>1. PICK s : s = <<e>>  OBVIOUS
<1>2. s \in Seq(V) /\ DOMAIN s = {1} /\ s[1] = e  BY <1>1
<1>3. Range(s) = {e}  BY <1>2 DEF Range
<1>4. Append(Q[x], e) = Q[x] \o s  BY <1>1
<1>5. R = [Q EXCEPT ![x] = @ \o s]  BY <1>4
<1>6. \A i, j \in DOMAIN s : s[i] = s[j] => i = j  BY <1>2
<1>7. Effect(Q, R, {}, Range(s))  BY <1>2, <1>5, <1>6, PutAll
<1> QED  BY <1>3, <1>7

\* The events of list y go to the end of list x.
LEMMA Moved ==
  ASSUME NEW Q, NEW x \in DOMAIN Q, NEW y \in DOMAIN Q, x # y,
         NEW V, Q \in [DOMAIN Q -> Seq(V)],
         NEW R, R = [Q EXCEPT ![x] = @ \o Q[y], ![y] = <<>>]
  PROVE  Effect(Q, R, {}, {})
<1>1. DOMAIN R = DOMAIN Q /\ \A z \in DOMAIN Q : z # x /\ z # y => R[z] = Q[z]
  OBVIOUS
<1>2. R[y] = <<>> /\ R[x] = Q[x] \o Q[y]  OBVIOUS
<1>3. PICK n : n = Len(Q[x])  OBVIOUS
<1>4. PICK l : l = Len(Q[y])  OBVIOUS
<1>5. /\ n \in Nat /\ l \in Nat /\ DOMAIN Q[x] = 1 .. n /\ DOMAIN Q[y] = 1 .. l
      /\ DOMAIN R[x] = 1 .. n + l /\ DOMAIN R[y] = {}
  BY <1>2, <1>3, <1>4, Joined
<1>6. \A i \in 1 .. n : R[x][i] = Q[x][i]  BY <1>2, <1>3, <1>4, Joined
<1>7. \A i \in 1 .. l : R[x][n + i] = Q[y][i]  BY <1>2, <1>3, <1>4, Joined
\* Event i of list z was event k of list u.
<1> DEFINE Came(z, i, u, k) ==
             \/ u = z /\ k = i /\ z # y /\ (z = x => i \in 1 .. n)
             \/ u = y /\ z = x /\ k \in 1 .. l /\ i = n + k
<1>8. \A z \in DOMAIN Q : \A i \in DOMAIN R[z] :
        \E u \in DOMAIN Q : \E k \in DOMAIN Q[u] : Q[u][k] = R[z][i] /\ Came(z, i, u, k)
  <2> TAKE z \in DOMAIN Q
  <2> TAKE i \in DOMAIN R[z]
  <2>1. CASE z = x /\ i <= n  BY <1>5, <1>6, <2>1
  <2>2. CASE z = x /\ ~(i <= n)
    <3>1. i \in 1 .. n + l  BY <1>5, <2>2
    <3>2. PICK k : k = i - n  OBVIOUS
    <3>3. k \in 1 .. l /\ i = n + k  BY <1>5, <2>2, <3>1, <3>2
    <3> QED  BY <1>5, <1>7, <2>2, <3>3
  <2>3. CASE z = y  BY <1>5, <2>3
  <2>4. CASE z # x /\ z # y  BY <1>1, <2>4
  <2> QED  BY <2>1, <2>2, <2>3, <2>4
<1>9. ASSUME NEW u \in DOMAIN Q, NEW k \in DOMAIN Q[u]
      PROVE  \E z \in DOMAIN Q : \E i \in DOMAIN R[z] : R[z][i] = Q[u][k]
  <2>1. CASE u = y
    <3>1. k \in 1 .. l /\ n + k \in 1 .. n + l  BY <1>5, <2>1
    <3>2. n + k \in DOMAIN R[x] /\ R[x][n + k] = Q[u][k]  BY <1>5, <1>7, <2>1, <3>1
    <3> QED  BY <3>2
  <2>2. CASE u = x
    <3>1. k \in DOMAIN R[x] /\ R[x][k] = Q[u][k]  BY <1>5, <1>6, <2>2
    <3> QED  BY <3>1
  <2>3. CASE u # x /\ u # y
    <3>1. R[u] = Q[u]  BY <1>1, <2>3
    <3> QED  BY <3>1
  <2> QED  BY <2>1, <2>2, <2>3
<1> HIDE DEF Came
<1>10. ASSUME NEW E, Absent(Q, E)  PROVE Absent(R, E)
  <2> SUFFICES ASSUME NEW z \in DOMAIN Q, NEW i \in DOMAIN R[z], R[z][i] \in E  PROVE FALSE
    BY <1>1 DEF Absent
  <2>1. PICK u \in DOMAIN Q : \E k \in DOMAIN Q[u] : Q[u][k] = R[z][i] /\ Came(z, i, u, k)
    BY ONLY <1>8, z \in DOMAIN Q, i \in DOMAIN R[z]
  <2> QED  BY <1>10, <2>1 DEF Absent
<1>11. ASSUME NEW E, Absent(R, E)  PROVE Absent(Q, E)
  <2> SUFFICES ASSUME NEW u \in DOMAIN Q, NEW k \in DOMAIN Q[u], Q[u][k] \in E  PROVE FALSE
    BY DEF Absent
  <2>1. PICK z \in DOMAIN Q : \E i \in DOMAIN R[z] : R[z][i] = Q[u][k]
    BY ONLY <1>9, u \in DOMAIN Q, k \in DOMAIN Q[u]
  <2> QED  BY <1>1, <1>11, <2>1 DEF Absent
<1>12. ASSUME NEW E, Unique(Q, E)  PROVE Unique(R, E)
  <2> USE DEF Unique
  <2> TAKE z, w \in DOMAIN R
  <2> TAKE i \in DOMAIN R[z], j \in DOMAIN R[w]
  <2> HAVE R[z][i] \in E /\ R[w][j] \in E
  <2>1. z \in DOMAIN Q /\ w \in DOMAIN Q  BY <1>1
  <2>2. PICK u \in DOMAIN Q : \E k \in DOMAIN Q[u] : Q[u][k] = R[z][i] /\ Came(z, i, u, k)
    BY ONLY <1>8, <2>1, i \in DOMAIN R[z]
  <2>3. PICK k \in DOMAIN Q[u] : Q[u][k] = R[z][i] /\ Came(z, i, u, k)
    BY <2>2
  <2>4. PICK v \in DOMAIN Q : \E h \in DOMAIN Q[v] : Q[v][h] = R[w][j] /\ Came(w, j, v, h)
    BY ONLY <1>8, <2>1, j \in DOMAIN R[w]
  <2>5. PICK h \in DOMAIN Q[v] : Q[v][h] = R[w][j] /\ Came(w, j, v, h)
    BY <2>4
  <2>6. u = v /\ k = h  BY <1>12, <2>3, <2>5 DEF Unique
  <2> QED  BY <1>5, <2>3, <2>5, <2>6 DEF Came
<1> QED  BY <1>10, <1>11, <1>12 DEF Effect, One

-----------------------------------------------------------------------------
(***************************************************************************)
(* The agenda and the lists of waiters as one function of lists            *)
(***************************************************************************)
Queues(A, W) ==
  [x \in ({"agenda"} \X DOMAIN A) \cup ({"wakeup"} \X DOMAIN W) |->
     IF x[1] = "agenda" THEN A[x[2]] ELSE W[x[2]]]

Day(d) == <<"agenda", d>>
Line(b) == <<"wakeup", b>>

Days == 1 .. MaxDelay + 1

\* List x becomes s.
With(Q, x, s) == [Q EXCEPT ![x] = s]

\* An agenda and lists of waiters of the buffers B for events of V
Lists(A, W, V, B) == A \in [Days -> Seq(V)] /\ W \in [B -> Seq(V)]

LEMMA QueuesOf ==
  ASSUME NEW V, NEW B, NEW A, NEW W, Lists(A, W, V, B)
  PROVE  Queues(A, W) \in [DOMAIN Queues(A, W) -> Seq(V)]
<1>1. PICK Q : Q = Queues(A, W)  OBVIOUS
<1>2. DOMAIN Q = ({"agenda"} \X Days) \cup ({"wakeup"} \X B)  BY <1>1 DEF Queues, Lists
<1>3. \A x \in DOMAIN Q : Q[x] = IF x[1] = "agenda" THEN A[x[2]] ELSE W[x[2]]
  BY <1>1 DEF Queues
<1>4. \A x \in DOMAIN Q : Q[x] \in Seq(V)
  <2> TAKE x \in DOMAIN Q
  <2>1. CASE x \in {"agenda"} \X Days  BY <1>3, <2>1 DEF Lists
  <2>2. CASE x \in {"wakeup"} \X B  BY <1>3, <2>2 DEF Lists
  <2> QED  BY <1>2, <2>1, <2>2
<1>5. Q = [x \in DOMAIN Q |-> Q[x]]  BY <1>1 DEF Queues
<1> QED  BY <1>1, <1>4, <1>5

LEMMA AgendaOf ==
  ASSUME NEW V, NEW B, NEW A, NEW W, Lists(A, W, V, B), NEW d \in Days
  PROVE  Day(d) \in DOMAIN Queues(A, W) /\ A[d] = Queues(A, W)[Day(d)]
BY DEF Queues, Lists, Day

LEMMA AgendaChanged ==
  ASSUME NEW V, NEW B, NEW A, NEW W, Lists(A, W, V, B), NEW d \in Days,
         NEW s \in Seq(V), NEW C, C = With(A, d, s)
  PROVE  /\ Lists(C, W, V, B)
         /\ Queues(C, W) = With(Queues(A, W), Day(d), s)
<1>1. A \in [Days -> Seq(V)] /\ W \in [B -> Seq(V)] /\ C \in [Days -> Seq(V)]
  BY DEF Lists, With
<1>2. PICK R : R = Queues(C, W)  OBVIOUS
<1>3. PICK Q : Q = Queues(A, W)  OBVIOUS
<1>4. PICK x : x = Day(d)  OBVIOUS
<1>5. DOMAIN R = DOMAIN Q /\ x \in DOMAIN Q  BY <1>1, <1>2, <1>3, <1>4 DEF Queues, Day
<1>6. ASSUME NEW y \in DOMAIN Q
      PROVE  R[y] = IF y = x THEN s ELSE Q[y]
  <2>1. y \in ({"agenda"} \X Days) \cup ({"wakeup"} \X B)  BY <1>1, <1>3 DEF Queues
  <2>2. CASE y \in {"agenda"} \X Days  BY <1>1, <1>2, <1>3, <1>4, <2>2 DEF Queues, Day, With
  <2>3. CASE y \in {"wakeup"} \X B  BY <1>1, <1>2, <1>3, <1>4, <2>3 DEF Queues, Day
  <2> QED  BY <2>1, <2>2, <2>3
<1>7. R = [y \in DOMAIN R |-> R[y]]  BY <1>2 DEF Queues
<1>8. R = [Q EXCEPT ![x] = s]  BY <1>5, <1>6, <1>7
<1> QED  BY <1>1, <1>2, <1>3, <1>4, <1>8 DEF Lists, With

LEMMA WakeupOf ==
  ASSUME NEW V, NEW B, NEW A, NEW W, Lists(A, W, V, B), NEW b \in B
  PROVE  Line(b) \in DOMAIN Queues(A, W) /\ W[b] = Queues(A, W)[Line(b)]
BY DEF Queues, Lists, Line

LEMMA WakeupChanged ==
  ASSUME NEW V, NEW B, NEW A, NEW W, Lists(A, W, V, B), NEW b \in B,
         NEW s \in Seq(V), NEW C, C = With(W, b, s)
  PROVE  /\ Lists(A, C, V, B)
         /\ Queues(A, C) = With(Queues(A, W), Line(b), s)
<1>1. A \in [Days -> Seq(V)] /\ W \in [B -> Seq(V)] /\ C \in [B -> Seq(V)]
  BY DEF Lists, With
<1>2. PICK R : R = Queues(A, C)  OBVIOUS
<1>3. PICK Q : Q = Queues(A, W)  OBVIOUS
<1>4. PICK x : x = Line(b)  OBVIOUS
<1>5. DOMAIN R = DOMAIN Q /\ x \in DOMAIN Q  BY <1>1, <1>2, <1>3, <1>4 DEF Queues, Line
<1>6. ASSUME NEW y \in DOMAIN Q
      PROVE  R[y] = IF y = x THEN s ELSE Q[y]
  <2>1. y \in ({"agenda"} \X Days) \cup ({"wakeup"} \X B)  BY <1>1, <1>3 DEF Queues
  <2>2. CASE y \in {"agenda"} \X Days  BY <1>1, <1>2, <1>3, <1>4, <2>2 DEF Queues, Line
  <2>3. CASE y \in {"wakeup"} \X B  BY <1>1, <1>2, <1>3, <1>4, <2>3 DEF Queues, Line, With
  <2> QED  BY <2>1, <2>2, <2>3
<1>7. R = [y \in DOMAIN R |-> R[y]]  BY <1>2 DEF Queues
<1>8. R = [Q EXCEPT ![x] = s]  BY <1>5, <1>6, <1>7
<1> QED  BY <1>1, <1>2, <1>3, <1>4, <1>8 DEF Lists, With

\* The first event of a day is taken.
LEMMA PopEffect ==
  ASSUME NEW V, NEW B, NEW A, NEW W, Lists(A, W, V, B), NEW d \in Days,
         A[d] # <<>>,
         NEW C, C = [A EXCEPT ![d] = Tail(@)]
  PROVE  Lists(C, W, V, B) /\ Effect(Queues(A, W), Queues(C, W), {Head(A[d])}, {})
<1>1. PICK Q : Q = Queues(A, W)  OBVIOUS
<1>2. PICK x : x = Day(d)  OBVIOUS
<1>3. x \in DOMAIN Q /\ A[d] = Q[x]  BY <1>1, <1>2, AgendaOf
<1>4. Q \in [DOMAIN Q -> Seq(V)]  BY <1>1, QueuesOf
<1>5. PICK s : s = Tail(A[d])  OBVIOUS
<1>6. A[d] \in Seq(V)  BY DEF Lists
<1>7. s \in Seq(V) /\ C = With(A, d, s)  BY <1>5, <1>6 DEF With
<1>8. PICK R : R = Queues(C, W)  OBVIOUS
<1>9. Lists(C, W, V, B) /\ Queues(C, W) = With(Queues(A, W), Day(d), s)
  BY ONLY <1>7, Lists(A, W, V, B), d \in Days, AgendaChanged
<1>10. s = Tail(Q[x])  BY <1>3, <1>5
<1>11. R = [Q EXCEPT ![x] = Tail(Q[x])]  BY <1>1, <1>2, <1>8, <1>9, <1>10 DEF With
<1>12. Effect(Q, R, {Head(Q[x])}, {})
  BY <1>3, <1>4, <1>11, Taken
<1> QED  BY <1>1, <1>3, <1>8, <1>9, <1>12

LEMMA ScheduleEffect ==
  ASSUME NEW V, NEW B, NEW A, NEW W, Lists(A, W, V, B), NEW d \in Days,
         NEW e \in V,
         NEW C, C = [A EXCEPT ![d] = Append(@, e)]
  PROVE  Lists(C, W, V, B) /\ Effect(Queues(A, W), Queues(C, W), {}, {e})
<1>1. PICK Q : Q = Queues(A, W)  OBVIOUS
<1>2. PICK x : x = Day(d)  OBVIOUS
<1>3. x \in DOMAIN Q /\ A[d] = Q[x]  BY <1>1, <1>2, AgendaOf
<1>4. Q \in [DOMAIN Q -> Seq(V)]  BY <1>1, QueuesOf
<1>5. PICK s : s = Append(A[d], e)  OBVIOUS
<1>6. A[d] \in Seq(V)  BY DEF Lists
<1>7. s \in Seq(V) /\ C = With(A, d, s)  BY <1>5, <1>6 DEF With
<1>8. PICK R : R = Queues(C, W)  OBVIOUS
<1>9. Lists(C, W, V, B) /\ Queues(C, W) = With(Queues(A, W), Day(d), s)
  BY ONLY <1>7, Lists(A, W, V, B), d \in Days, AgendaChanged
<1>10. s = Append(Q[x], e)  BY <1>3, <1>5
<1>11. R = [Q EXCEPT ![x] = Append(Q[x], e)]  BY <1>1, <1>2, <1>8, <1>9, <1>10 DEF With
<1>12. Effect(Q, R, {}, {e})
  BY <1>3, <1>4, <1>11, Put
<1> QED  BY <1>1, <1>3, <1>8, <1>9, <1>12

LEMMA StartEffect ==
  ASSUME NEW V, NEW B, NEW A, NEW W, Lists(A, W, V, B), NEW d \in Days,
         NEW S \in Seq(V), \A i, j \in DOMAIN S : S[i] = S[j] => i = j,
         NEW C, C = [A EXCEPT ![d] = @ \o S]
  PROVE  Lists(C, W, V, B) /\ Effect(Queues(A, W), Queues(C, W), {}, Range(S))
<1>1. PICK Q : Q = Queues(A, W)  OBVIOUS
<1>2. PICK x : x = Day(d)  OBVIOUS
<1>3. x \in DOMAIN Q /\ A[d] = Q[x]  BY <1>1, <1>2, AgendaOf
<1>4. Q \in [DOMAIN Q -> Seq(V)]  BY <1>1, QueuesOf
<1>5. PICK s : s = A[d] \o S  OBVIOUS
<1>6. A[d] \in Seq(V)  BY DEF Lists
<1>7. s \in Seq(V) /\ C = With(A, d, s)  BY <1>5, <1>6 DEF With
<1>8. PICK R : R = Queues(C, W)  OBVIOUS
<1>9. Lists(C, W, V, B) /\ Queues(C, W) = With(Queues(A, W), Day(d), s)
  BY ONLY <1>7, Lists(A, W, V, B), d \in Days, AgendaChanged
<1>10. s = Q[x] \o S  BY <1>3, <1>5
<1>11. R = [Q EXCEPT ![x] = Q[x] \o S]  BY <1>1, <1>2, <1>8, <1>9, <1>10 DEF With
<1>12. Effect(Q, R, {}, Range(S))
  BY <1>3, <1>4, <1>11, PutAll
<1> QED  BY <1>1, <1>3, <1>8, <1>9, <1>12

LEMMA WaitEffect ==
  ASSUME NEW V, NEW B, NEW A, NEW W, Lists(A, W, V, B), NEW b \in B,
         NEW e \in V,
         NEW C, C = [W EXCEPT ![b] = Append(@, e)]
  PROVE  Lists(A, C, V, B) /\ Effect(Queues(A, W), Queues(A, C), {}, {e})
<1>1. PICK Q : Q = Queues(A, W)  OBVIOUS
<1>2. PICK x : x = Line(b)  OBVIOUS
<1>3. x \in DOMAIN Q /\ W[b] = Q[x]  BY <1>1, <1>2, WakeupOf
<1>4. Q \in [DOMAIN Q -> Seq(V)]  BY <1>1, QueuesOf
<1>5. PICK s : s = Append(W[b], e)  OBVIOUS
<1>6. W[b] \in Seq(V)  BY DEF Lists
<1>7. s \in Seq(V) /\ C = With(W, b, s)  BY <1>5, <1>6 DEF With
<1>8. PICK R : R = Queues(A, C)  OBVIOUS
<1>9. Lists(A, C, V, B) /\ Queues(A, C) = With(Queues(A, W), Line(b), s)
  BY ONLY <1>7, Lists(A, W, V, B), b \in B, WakeupChanged
<1>10. s = Append(Q[x], e)  BY <1>3, <1>5
<1>11. R = [Q EXCEPT ![x] = Append(Q[x], e)]  BY <1>1, <1>2, <1>8, <1>9, <1>10 DEF With
<1>12. Effect(Q, R, {}, {e})
  BY <1>3, <1>4, <1>11, Put
<1> QED  BY <1>1, <1>3, <1>8, <1>9, <1>12

\* Who waits for b is scheduled for day d.
LEMMA WakeEffect ==
  ASSUME NEW V, NEW B, NEW A, NEW W, Lists(A, W, V, B), NEW d \in Days, NEW b \in B,
         NEW C, C = With(A, d, A[d] \o W[b]), NEW X, X = With(W, b, <<>>)
  PROVE  Lists(C, X, V, B) /\ Effect(Queues(A, W), Queues(C, X), {}, {})
<1>1. PICK Q : Q = Queues(A, W)  OBVIOUS
<1>2. PICK x : x = Day(d)  OBVIOUS
<1>3. PICK y : y = Line(b)  OBVIOUS
<1>4. x \in DOMAIN Q /\ A[d] = Q[x]  BY <1>1, <1>2, AgendaOf
<1>5. y \in DOMAIN Q /\ W[b] = Q[y]  BY <1>1, <1>3, WakeupOf
<1>6. Q \in [DOMAIN Q -> Seq(V)]  BY <1>1, QueuesOf
<1>7. x # y  BY <1>2, <1>3 DEF Day, Line
<1>8. PICK s : s = A[d] \o W[b]  OBVIOUS
<1>9. A[d] \in Seq(V) /\ W[b] \in Seq(V)  BY DEF Lists
<1>10. s \in Seq(V) /\ C = With(A, d, s)  BY <1>8, <1>9
<1>11. PICK P : P = Queues(C, W)  OBVIOUS
<1>12. Lists(C, W, V, B) /\ Queues(C, W) = With(Queues(A, W), Day(d), s)
  BY ONLY <1>10, Lists(A, W, V, B), d \in Days, AgendaChanged
<1>13. PICK R : R = Queues(C, X)  OBVIOUS
<1>14. PICK t : t = <<>>  OBVIOUS
<1>15. t \in Seq(V) /\ X = With(W, b, t)  BY <1>14
<1>16. Lists(C, X, V, B) /\ Queues(C, X) = With(Queues(C, W), Line(b), t)
  <2>1. Lists(C, W, V, B) /\ t \in Seq(V) /\ X = With(W, b, t)  BY <1>12, <1>15
  <2> QED  BY ONLY <2>1, b \in B, WakeupChanged
<1>17. s = Q[x] \o Q[y]  BY <1>4, <1>5, <1>8
<1>18. R = [Q EXCEPT ![x] = Q[x] \o Q[y], ![y] = <<>>]
  BY <1>1, <1>2, <1>3, <1>11, <1>12, <1>13, <1>14, <1>16, <1>17 DEF With
<1>19. Effect(Q, R, {}, {})  BY <1>4, <1>5, <1>6, <1>7, <1>18, Moved
<1> QED  BY <1>1, <1>13, <1>16, <1>19

\* The lists change their names.
LEMMA Renamed ==
  ASSUME NEW Q, NEW R, NEW f \in [DOMAIN R -> DOMAIN Q],
         \A x, y \in DOMAIN R : f[x] = f[y] => x = y,
         \A y \in DOMAIN Q : \E x \in DOMAIN R : f[x] = y,
         \A x \in DOMAIN R : R[x] = Q[f[x]]
  PROVE  Effect(Q, R, {}, {})
<1>1. ASSUME NEW E, Absent(Q, E)  PROVE Absent(R, E)  BY <1>1 DEF Absent
<1>2. ASSUME NEW E, Absent(R, E)  PROVE Absent(Q, E)
  <2> USE DEF Absent
  <2> TAKE y \in DOMAIN Q
  <2>1. PICK x \in DOMAIN R : f[x] = y  OBVIOUS
  <2>2. R[x] = Q[y]  BY <2>1
  <2> QED  BY <1>2, <2>2
<1>3. ASSUME NEW E, Unique(Q, E)  PROVE Unique(R, E)
  <2> USE DEF Unique
  <2> TAKE x, y \in DOMAIN R
  <2>1. /\ f[x] \in DOMAIN Q /\ f[y] \in DOMAIN Q /\ R[x] = Q[f[x]] /\ R[y] = Q[f[y]]
        /\ f[x] = f[y] => x = y
    OBVIOUS
  <2> TAKE i \in DOMAIN R[x], j \in DOMAIN R[y]
  <2> QED  BY <1>3, <2>1
<1> QED  BY <1>1, <1>2, <1>3 DEF Effect, One

\* A cycle passes: the day that is over, without an event, becomes the last one.
LEMMA ShiftEffect ==
  ASSUME NEW V, NEW B, NEW A, NEW W, Lists(A, W, V, B), A[1] = <<>>,
         NEW C, C = Append(Tail(A), <<>>)
  PROVE  Lists(C, W, V, B) /\ Effect(Queues(A, W), Queues(C, W), {}, {})
<1>1. A \in [Days -> Seq(V)] /\ W \in [B -> Seq(V)]  BY DEF Lists
<1>2. PICK n \in Nat : n = MaxDelay  BY DelayAssumption
<1>3. Days = 1 .. n + 1  BY <1>2 DEF Days
<1>4. A \in Seq(Seq(V)) /\ Len(A) = n + 1  BY <1>1, <1>3
<1>5. Tail(A) \in Seq(Seq(V)) /\ Len(Tail(A)) = n /\ \A d \in 1 .. n : Tail(A)[d] = A[d + 1]
  BY <1>2, <1>4
<1>6. /\ C \in Seq(Seq(V)) /\ Len(C) = n + 1 /\ C[n + 1] = <<>>
      /\ \A d \in 1 .. n : C[d] = A[d + 1]
  BY <1>2, <1>5
<1>7. C \in [Days -> Seq(V)] /\ C[n + 1] = A[1]
  <2>1. C \in [Days -> Seq(V)]  BY ONLY <1>2, <1>3, <1>6
  <2>2. C[n + 1] = A[1]  BY ONLY <1>6, A[1] = <<>>
  <2> QED  BY ONLY <2>1, <2>2
<1>8. PICK Q : Q = Queues(A, W)  OBVIOUS
<1>9. PICK R : R = Queues(C, W)  OBVIOUS
<1>10. /\ DOMAIN Q = ({"agenda"} \X Days) \cup ({"wakeup"} \X B) /\ DOMAIN R = DOMAIN Q
       /\ \A d \in Days : Q[<<"agenda", d>>] = A[d] /\ R[<<"agenda", d>>] = C[d]
       /\ \A b \in B : Q[<<"wakeup", b>>] = W[b] /\ R[<<"wakeup", b>>] = W[b]
  BY <1>1, <1>7, <1>8, <1>9 DEF Queues
<1> DEFINE After(d) == IF d = n + 1 THEN 1 ELSE d + 1
           f == [x \in DOMAIN R |->
                   IF x[1] = "agenda" THEN <<"agenda", After(x[2])>> ELSE x]
<1>11. \A d \in Days : After(d) \in Days /\ C[d] = A[After(d)]
  BY <1>2, <1>3, <1>6, <1>7
<1>12. \A d, e \in Days : After(d) = After(e) => d = e  BY <1>2, <1>3
<1>13. \A e \in Days : \E d \in Days : After(d) = e
  <2> TAKE e \in Days
  <2>1. CASE e = 1  BY <1>2, <1>3, <2>1
  <2>2. CASE e # 1
    <3>1. e - 1 \in Days /\ After(e - 1) = e  BY <1>2, <1>3, <2>2
    <3> QED  BY <3>1
  <2> QED  BY <2>1, <2>2
<1>14. /\ \A d \in Days : f[<<"agenda", d>>] = <<"agenda", After(d)>>
       /\ \A b \in B : f[<<"wakeup", b>>] = <<"wakeup", b>>
       /\ DOMAIN f = DOMAIN R
  BY <1>10
<1> HIDE DEF After, f
<1>15. \A x \in DOMAIN R : \/ \E d \in Days : x = <<"agenda", d>>
                           \/ \E b \in B : x = <<"wakeup", b>>
  BY <1>10
<1>16. f \in [DOMAIN R -> DOMAIN Q]
  <2>1. \A x \in DOMAIN R : f[x] \in DOMAIN Q  BY <1>10, <1>11, <1>14, <1>15
  <2>2. f = [x \in DOMAIN R |-> f[x]]  BY DEF f
  <2> QED  BY <2>1, <2>2
<1>17. \A x, y \in DOMAIN R : f[x] = f[y] => x = y
  <2> TAKE x, y \in DOMAIN R
  <2>1. CASE (\E d \in Days : x = <<"agenda", d>>) /\ (\E d \in Days : y = <<"agenda", d>>)
    BY <1>12, <1>14, <2>1
  <2>2. CASE (\E b \in B : x = <<"wakeup", b>>) /\ (\E b \in B : y = <<"wakeup", b>>)
    BY <1>14, <2>2
  <2>3. CASE (\E d \in Days : x = <<"agenda", d>>) /\ (\E b \in B : y = <<"wakeup", b>>)
    BY <1>14, <2>3
  <2>4. CASE (\E b \in B : x = <<"wakeup", b>>) /\ (\E d \in Days : y = <<"agenda", d>>)
    BY <1>14, <2>4
  <2> QED  BY <1>15, <2>1, <2>2, <2>3, <2>4
<1>18. \A y \in DOMAIN Q : \E x \in DOMAIN R : f[x] = y
  <2> TAKE y \in DOMAIN Q
  <2>1. CASE \E e \in Days : y = <<"agenda", e>>
    <3>1. PICK e \in Days : y = <<"agenda", e>>  BY <2>1
    <3>2. PICK d \in Days : After(d) = e  BY <1>13
    <3> QED  BY <1>10, <1>14, <3>1, <3>2
  <2>2. CASE \E b \in B : y = <<"wakeup", b>>  BY <1>10, <1>14, <2>2
  <2> QED  BY <1>10, <1>15, <2>1, <2>2
<1>19. \A x \in DOMAIN R : R[x] = Q[f[x]]
  <2> TAKE x \in DOMAIN R
  <2>1. PICK z : z = f[x]  OBVIOUS
  <2>2. CASE \E d \in Days : x = <<"agenda", d>>
    <3>1. PICK d \in Days : x = <<"agenda", d>>  BY <2>2
    <3>2. z = <<"agenda", After(d)>> /\ After(d) \in Days  BY <1>11, <1>14, <2>1, <3>1
    <3>3. PICK s : s = A[After(d)]  OBVIOUS
    <3>4. R[x] = s  BY <1>10, <1>11, <3>1, <3>3
    <3>5. Q[z] = s  BY <1>10, <3>2, <3>3
    <3> QED  BY <2>1, <3>4, <3>5
  <2>3. CASE \E b \in B : x = <<"wakeup", b>>
    <3>1. z = x  BY <1>14, <2>1, <2>3
    <3>2. PICK b \in B : x = <<"wakeup", b>>  BY <2>3
    <3>3. PICK s : s = W[b]  OBVIOUS
    <3>4. R[x] = s /\ Q[x] = s  BY <1>10, <3>2, <3>3
    <3> QED  BY <2>1, <3>1, <3>4
  <2> QED  BY <1>15, <2>2, <2>3
<1>20. Effect(Q, R, {}, {})  BY <1>16, <1>17, <1>18, <1>19, Renamed
<1> QED  BY <1>1, <1>7, <1>8, <1>9, <1>20 DEF Lists

\* The sums that the runs check.
LEMMA CountAbsent ==
  ASSUME NEW V, NEW B, NEW A, NEW W, Lists(A, W, V, B), NEW E, Absent(Queues(A, W), E)
  PROVE  Cardinality(Places(A, E)) + Cardinality(Places(W, E)) = 0
<1>1. \A d \in DOMAIN A : \A i \in DOMAIN A[d] : A[d][i] \notin E
  <2> TAKE d \in DOMAIN A
  <2>1. Day(d) \in DOMAIN Queues(A, W) /\ A[d] = Queues(A, W)[Day(d)]
    BY DEF Day, Queues
  <2> QED  BY <2>1 DEF Absent
<1>2. \A b \in DOMAIN W : \A i \in DOMAIN W[b] : W[b][i] \notin E
  <2> TAKE b \in DOMAIN W
  <2>1. Line(b) \in DOMAIN Queues(A, W) /\ W[b] = Queues(A, W)[Line(b)]
    BY DEF Line, Queues
  <2> QED  BY <2>1 DEF Absent
<1>3. Places(A, E) = {} /\ Places(W, E) = {}  BY <1>1, <1>2 DEF Places
<1> QED  BY <1>3, FS_EmptySet

LEMMA CountOne ==
  ASSUME NEW V, NEW B, NEW A, NEW W, Lists(A, W, V, B), NEW E, One(Queues(A, W), E)
  PROVE  Cardinality(Places(A, E)) + Cardinality(Places(W, E)) = 1
<1>1. PICK Q : Q = Queues(A, W)  OBVIOUS
<1>2. PICK x \in DOMAIN Q : \E i \in DOMAIN Q[x] : Q[x][i] \in E  BY <1>1 DEF One, Absent
<1>3. PICK i \in DOMAIN Q[x] : Q[x][i] \in E  BY <1>2
<1>4. \A y \in DOMAIN Q : \A j \in DOMAIN Q[y] : Q[y][j] \in E => y = x /\ j = i
  BY <1>1, <1>3 DEF One, Unique
<1>5. \A d \in DOMAIN A : Day(d) \in DOMAIN Q /\ A[d] = Q[Day(d)]  BY <1>1 DEF Day, Queues
<1>6. \A b \in DOMAIN W : Line(b) \in DOMAIN Q /\ W[b] = Q[Line(b)]  BY <1>1 DEF Line, Queues
<1>7. \/ \E d \in DOMAIN A : x = Day(d)
      \/ \E b \in DOMAIN W : x = Line(b)
  BY <1>1 DEF Queues, Day, Line
<1>8. \A d \in DOMAIN A : \A j \in DOMAIN A[d] : A[d][j] \in E => Day(d) = x /\ j = i
  BY <1>4, <1>5
<1>9. \A b \in DOMAIN W : \A j \in DOMAIN W[b] : W[b][j] \in E => Line(b) = x /\ j = i
  BY <1>4, <1>6
<1>10. CASE \E d \in DOMAIN A : x = Day(d)
  <2>1. PICK d \in DOMAIN A : x = Day(d)  BY <1>10
  <2>2. i \in DOMAIN A[d] /\ A[d][i] \in E  BY <1>3, <1>5, <2>1
  <2>3. \A e \in DOMAIN A : \A j \in DOMAIN A[e] : A[e][j] \in E => e = d /\ j = i
    BY <1>8, <2>1 DEF Day
  <2>4. \A b \in DOMAIN W : \A j \in DOMAIN W[b] : W[b][j] \notin E
    BY <1>9, <2>1 DEF Day, Line
  <2>5. Places(A, E) = {<<d, i>>} /\ Places(W, E) = {}  BY <2>2, <2>3, <2>4 DEF Places
  <2>6. Cardinality(Places(A, E)) = 1  BY <2>5, FS_Singleton
  <2>7. Cardinality(Places(W, E)) = 0  BY <2>5, FS_EmptySet
  <2> QED  BY <2>6, <2>7
<1>11. CASE \E b \in DOMAIN W : x = Line(b)
  <2>1. PICK b \in DOMAIN W : x = Line(b)  BY <1>11
  <2>2. i \in DOMAIN W[b] /\ W[b][i] \in E  BY <1>3, <1>6, <2>1
  <2>3. \A e \in DOMAIN W : \A j \in DOMAIN W[e] : W[e][j] \in E => e = b /\ j = i
    BY <1>9, <2>1 DEF Line
  <2>4. \A d \in DOMAIN A : \A j \in DOMAIN A[d] : A[d][j] \notin E
    BY <1>8, <2>1 DEF Day, Line
  <2>5. Places(W, E) = {<<b, i>>} /\ Places(A, E) = {}  BY <2>2, <2>3, <2>4 DEF Places
  <2>6. Cardinality(Places(W, E)) = 1  BY <2>5, FS_Singleton
  <2>7. Cardinality(Places(A, E)) = 0  BY <2>5, FS_EmptySet
  <2> QED  BY <2>6, <2>7
<1> QED  BY <1>7, <1>10, <1>11

-----------------------------------------------------------------------------
(***************************************************************************)
(* What holds of the events, the packets and the messages at all times, as *)
(* a predicate of the network t, its routing table R, the lists Q of       *)
(* events, the buffers B and the states M of the messages.                 *)
(***************************************************************************)
\* The events that a network can have
Event(t) ==
  [kind : {"output", "input", "receive"}, of : Packets(t)]
    \cup [kind : {"retry", "received"}, of : DOMAIN t.msgs]

\* A packet stands in one buffer and has one event, or neither; with a fixed delay it
\* stands nowhere.  It has an event only after its message was sent.
Carried(t, Q, B, M, p) ==
  /\ IF t.fixed = 0
       THEN \/ One(B, {p}) /\ One(Q, Events(p))
            \/ Absent(B, {p}) /\ Absent(Q, Events(p))
       ELSE Absent(B, {p}) /\ Absent(Q, {Ev("output", p), Ev("input", p)})
  /\ ~ Absent(Q, Events(p)) => M[p[1]] \in {"sent", "received"}

\* Buffer b is on the way of message m.
Onward(t, R, m, b) ==
  LET n   == NodeOf(t, b)
      dst == t.msgs[m].dst
  IN  /\ n \in Way(t, R, m)
      /\ b \in Outs(t) => n # dst /\ b = R[<<n, dst>>].out

\* Where packet p stands, buffer b
Stands(t, R, Q, B, p, b) ==
  /\ Onward(t, R, p[1], b)
  /\ ~ Absent(Q, {Ev("input", p)}) => b \in Ins(t)
  /\ ~ Absent(Q, {Ev("receive", p)}) => Head(B[b]) = p

\* A message waits to be sent, with one event, or has none that would send it again; it
\* is handed to its receiver after it was sent.
Asked(Q, M, m) ==
  /\ IF M[m] = "trying" THEN One(Q, {Ev("retry", m)}) ELSE Absent(Q, {Ev("retry", m)})
  /\ ~ Absent(Q, {Ev("received", m)}) => M[m] \in {"sent", "received"}

Sound(t, R, Q, B, M) ==
  /\ \A p \in Packets(t) : Carried(t, Q, B, M, p)
  /\ \A p \in Packets(t) : \A b \in DOMAIN B : p \in Range(B[b]) => Stands(t, R, Q, B, p, b)
  /\ \A m \in DOMAIN t.msgs : Asked(Q, M, m)

LEMMA EvDiffer == \A k, l, x, y : Ev(k, x) = Ev(l, y) <=> (k = l /\ x = y)
BY DEF Ev

LEMMA EventsAre == \A p : Events(p) = {Ev("output", p), Ev("input", p), Ev("receive", p)}
BY DEF Events

\* Sets of events without a common one, and with one in common
Apart(E, F) == E \cap F = {}
Meets(E, F, f) == E \cap F = {f}

\* The effect on a set of events into which nothing is put
LEMMA EffectOut ==
  ASSUME NEW Q, NEW S, NEW T, NEW F, Effect(Q, S, T, F)
  PROVE  \A E : Apart(E, F) => /\ Absent(Q, E) => Absent(S, E)
                               /\ Apart(E, T) /\ One(Q, E) => One(S, E)
                               /\ ~ Apart(E, T) /\ One(Q, E) => Absent(S, E)
BY DEF Effect, Apart

\* and into which one event is put
LEMMA EffectIn ==
  ASSUME NEW Q, NEW S, NEW T, NEW F, Effect(Q, S, T, F)
  PROVE  \A E, f : Meets(E, F, f) /\ (Absent(Q, E) \/ (~ Apart(E, T) /\ One(Q, E))) => One(S, E)
BY DEF Effect, Apart, Meets

\* The kinds of the events of a packet
Kinds == {"output", "input", "receive"}

LEMMA EventApart ==
  /\ \A k, l, x, y : Apart({Ev(k, x)}, {Ev(l, y)}) <=> (k # l \/ x # y)
  /\ \A p, k, x : Apart(Events(p), {Ev(k, x)}) <=> (k \notin Kinds \/ x # p)
  /\ \A E : Apart(E, {})
<1>1. \A k, l, x, y : Apart({Ev(k, x)}, {Ev(l, y)}) <=> (k # l \/ x # y)
  <2> TAKE k, l, x, y
  <2>1. Apart({Ev(k, x)}, {Ev(l, y)}) <=> Ev(k, x) # Ev(l, y)  BY DEF Apart
  <2> QED  BY <2>1, EvDiffer
<1>2. \A p, k, x : Apart(Events(p), {Ev(k, x)}) <=> (k \notin Kinds \/ x # p)
  <2> TAKE p, k, x
  <2>1. Apart(Events(p), {Ev(k, x)}) <=> Ev(k, x) \notin Events(p)  BY DEF Apart
  <2>2. Ev(k, x) \in Events(p) <=> (k \in Kinds /\ x = p)
    BY EventsAre, EvDiffer DEF Kinds
  <2> QED  BY <2>1, <2>2
<1>3. \A E : Apart(E, {})  BY DEF Apart
<1> QED  BY <1>1, <1>2, <1>3

LEMMA PacketApart == \A p, q : Apart({p}, {q}) <=> p # q
BY DEF Apart

LEMMA EventMeets ==
  /\ \A k, x : Meets({Ev(k, x)}, {Ev(k, x)}, Ev(k, x))
  /\ \A p, k : k \in Kinds => /\ Meets(Events(p), {Ev(k, p)}, Ev(k, p))
                              /\ Ev(k, p) \in Events(p) /\ {Ev(k, p)} \subseteq Events(p)
  /\ \A p : Meets({p}, {p}, p)
<1>1. \A k, x : Meets({Ev(k, x)}, {Ev(k, x)}, Ev(k, x))  BY DEF Meets
<1>2. \A p, k : k \in Kinds => /\ Meets(Events(p), {Ev(k, p)}, Ev(k, p))
                              /\ Ev(k, p) \in Events(p) /\ {Ev(k, p)} \subseteq Events(p)
  <2> TAKE p, k
  <2> HAVE k \in Kinds
  <2>1. Ev(k, p) \in Events(p)  BY EventsAre DEF Kinds
  <2> QED  BY <2>1 DEF Meets
<1>3. \A p : Meets({p}, {p}, p)  BY DEF Meets
<1> QED  BY <1>1, <1>2, <1>3

LEMMA AbsentPart ==
  ASSUME NEW Q, NEW E, Absent(Q, E), NEW D, D \subseteq E
  PROVE  Absent(Q, D)
BY DEF Absent

LEMMA OnePart ==
  ASSUME NEW Q, NEW E, One(Q, E), NEW D, D \subseteq E, ~ Absent(Q, D)
  PROVE  One(Q, D)
BY DEF One, Unique

LEMMA OnlyOne ==
  ASSUME NEW Q, NEW E, One(Q, E), NEW e \in E, NEW f \in E, ~ Absent(Q, {e}), ~ Absent(Q, {f})
  PROVE  e = f
<1>1. PICK x \in DOMAIN Q : \E i \in DOMAIN Q[x] : Q[x][i] = e  BY DEF Absent
<1>2. PICK y \in DOMAIN Q : \E i \in DOMAIN Q[y] : Q[y][i] = f  BY DEF Absent
<1>3. PICK i \in DOMAIN Q[x] : Q[x][i] = e  BY <1>1
<1>4. PICK j \in DOMAIN Q[y] : Q[y][j] = f  BY <1>2
<1>5. x = y /\ i = j  BY <1>3, <1>4 DEF One, Unique
<1> QED  BY <1>3, <1>4, <1>5

\* Whatever is in a list
LEMMA Present ==
  ASSUME NEW Q, NEW x \in DOMAIN Q, NEW i \in DOMAIN Q[x], NEW E, Q[x][i] \in E
  PROVE  ~ Absent(Q, E)
BY DEF Absent

-----------------------------------------------------------------------------
(***************************************************************************)
(* An event that is put off, by a busy resource or a full buffer, changes  *)
(* nothing.                                                                *)
(***************************************************************************)
Kept(Q, S) ==
  \A E : (Absent(Q, E) => Absent(S, E)) /\ (One(Q, E) => One(S, E))

LEMMA PutOff ==
  ASSUME NEW Q, NEW S, NEW e, Effect(Q, S, {e}, {e}), ~ Absent(Q, {e})
  PROVE  Kept(Q, S)
<1> SUFFICES ASSUME NEW E  PROVE (Absent(Q, E) => Absent(S, E)) /\ (One(Q, E) => One(S, E))
  BY DEF Kept
<1>1. CASE e \in E
  <2>1. Meets(E, {e}, e) /\ ~ Apart(E, {e}) /\ {e} \subseteq E  BY <1>1 DEF Meets, Apart
  <2>2. ~ Absent(Q, E)  BY <2>1, AbsentPart
  <2>3. One(Q, E) => One(S, E)  BY <2>1, EffectIn
  <2> QED  BY <2>2, <2>3
<1>2. CASE e \notin E
  <2>1. Apart(E, {e})  BY <1>2 DEF Apart
  <2> QED  BY <2>1, EffectOut
<1> QED  BY <1>1, <1>2

LEMMA NoEffect ==
  ASSUME NEW Q, NEW S, Effect(Q, S, {}, {})
  PROVE  Kept(Q, S)
BY EffectOut, EventApart DEF Kept

LEMMA KeptSound ==
  ASSUME NEW t, NEW R, NEW Q, NEW B, NEW M, Sound(t, R, Q, B, M), NEW S, Kept(Q, S)
  PROVE  Sound(t, R, S, B, M)
<1>1. \A E : (Absent(Q, E) => Absent(S, E)) /\ (One(Q, E) => One(S, E))  BY DEF Kept
<1>2. \A p \in Packets(t) : Carried(t, S, B, M, p)
  <2> TAKE p \in Packets(t)
  <2>1. Carried(t, Q, B, M, p)  BY DEF Sound
  <2> QED  BY <1>1, <2>1 DEF Carried
<1>3. \A p \in Packets(t) : \A b \in DOMAIN B : p \in Range(B[b]) => Stands(t, R, S, B, p, b)
  <2> TAKE p \in Packets(t)
  <2> TAKE b \in DOMAIN B
  <2> HAVE p \in Range(B[b])
  <2>1. Stands(t, R, Q, B, p, b)  BY DEF Sound
  <2> QED  BY <1>1, <2>1 DEF Stands
<1>4. \A m \in DOMAIN t.msgs : Asked(S, M, m)
  <2> TAKE m \in DOMAIN t.msgs
  <2>1. Asked(Q, M, m)  BY DEF Sound
  <2> QED  BY <1>1, <2>1 DEF Asked
<1> QED  BY <1>2, <1>3, <1>4 DEF Sound

-----------------------------------------------------------------------------
(***************************************************************************)
(* Packets in buffers: a function from buffers to sequences of packets is  *)
(* a function from lists to sequences as well.                             *)
(***************************************************************************)
\* A packet leaves the head of a buffer.
LEMMA Leaves ==
  ASSUME NEW V, NEW B, B \in [DOMAIN B -> Seq(V)], NEW b \in DOMAIN B, B[b] # <<>>,
         NEW p, Head(B[b]) = p, NEW C, C = [B EXCEPT ![b] = Tail(@)]
  PROVE  /\ C \in [DOMAIN B -> Seq(V)]
         /\ Effect(B, C, {p}, {})
         /\ \A c \in DOMAIN B : c # b => C[c] = B[c]
<1>1. Effect(B, C, {Head(B[b])}, {})  BY Taken
<1>2. Tail(B[b]) \in Seq(V)  OBVIOUS
<1>3. C \in [DOMAIN B -> Seq(V)]  BY <1>2
<1> QED  BY <1>1, <1>3

\* The packets of a sequence go to the end of a buffer.
LEMMA Enter ==
  ASSUME NEW V, NEW B, B \in [DOMAIN B -> Seq(V)], NEW b \in DOMAIN B,
         NEW s \in Seq(V), \A i, j \in DOMAIN s : s[i] = s[j] => i = j,
         NEW C, C = [B EXCEPT ![b] = @ \o s]
  PROVE  /\ C \in [DOMAIN B -> Seq(V)]
         /\ Effect(B, C, {}, Range(s))
         /\ \A c \in DOMAIN B : c # b => C[c] = B[c]
         /\ C[b] = B[b] \o s
<1>1. Effect(B, C, {}, Range(s))  BY PutAll
<1>2. B[b] \o s \in Seq(V)  OBVIOUS
<1> QED  BY <1>1, <1>2

\* A packet stands in one place.
LEMMA OnePlace ==
  ASSUME NEW B, NEW p, One(B, {p}), NEW b \in DOMAIN B, NEW c \in DOMAIN B,
         p \in Range(B[b]), p \in Range(B[c])
  PROVE  b = c
<1>1. PICK i \in DOMAIN B[b] : B[b][i] = p  BY DEF Range
<1>2. PICK j \in DOMAIN B[c] : B[c][j] = p  BY DEF Range
<1> QED  BY <1>1, <1>2 DEF One, Unique

LEMMA SomePlace ==
  ASSUME NEW B, NEW p
  PROVE  ~ Absent(B, {p}) <=> \E b \in DOMAIN B : p \in Range(B[b])
BY DEF Absent, Range

LEMMA TailRange ==
  ASSUME NEW V, NEW s \in Seq(V), s # <<>>
  PROVE  Range(Tail(s)) \subseteq Range(s)
<1>1. PICK n \in Nat : n = Len(s)  OBVIOUS
<1>2. DOMAIN s = 1 .. n /\ DOMAIN Tail(s) = 1 .. n - 1 /\ n > 0
  BY <1>1
<1>3. \A i \in 1 .. n - 1 : Tail(s)[i] = s[i + 1] /\ i + 1 \in 1 .. n  BY <1>1, <1>2
<1> QED  BY <1>2, <1>3 DEF Range

LEMMA JoinRange ==
  ASSUME NEW V, NEW a \in Seq(V), NEW b \in Seq(V)
  PROVE  /\ Range(a \o b) = Range(a) \cup Range(b)
         /\ a # <<>> => Head(a \o b) = Head(a)
<1>1. PICK n : n = Len(a)  OBVIOUS
<1>2. PICK l : l = Len(b)  OBVIOUS
<1>3. PICK c : c = a \o b  OBVIOUS
<1>4. /\ n \in Nat /\ l \in Nat /\ DOMAIN a = 1 .. n /\ DOMAIN b = 1 .. l
      /\ c \in Seq(V) /\ DOMAIN c = 1 .. n + l
      /\ \A i \in 1 .. n : c[i] = a[i]
      /\ \A i \in 1 .. l : c[n + i] = b[i]
  BY <1>1, <1>2, <1>3, Joined
<1>5. Range(c) \subseteq Range(a) \cup Range(b)
  <2> SUFFICES ASSUME NEW i \in 1 .. n + l  PROVE c[i] \in Range(a) \cup Range(b)
    BY <1>4 DEF Range
  <2>1. CASE i <= n  BY <1>4, <2>1 DEF Range
  <2>2. CASE ~(i <= n)
    <3>1. i - n \in 1 .. l /\ i = n + (i - n)  BY <1>4, <2>2
    <3>2. c[i] = b[i - n]  BY <1>4, <3>1
    <3> QED  BY <1>4, <3>1, <3>2 DEF Range
  <2> QED  BY <2>1, <2>2
<1>6. Range(a) \subseteq Range(c)
  <2>1. \A i \in 1 .. n : i \in 1 .. n + l  BY <1>4
  <2> QED  BY <1>4, <2>1 DEF Range
<1>7. Range(b) \subseteq Range(c)
  <2>1. \A i \in 1 .. l : n + i \in 1 .. n + l  BY <1>4
  <2> QED  BY <1>4, <2>1 DEF Range
<1>8. a # <<>> => Head(c) = Head(a)
  <2> HAVE a # <<>>
  <2>1. 1 \in 1 .. n /\ 1 \in 1 .. n + l  BY <1>1, <1>4
  <2>2. c[1] = a[1] /\ c # <<>>  BY <1>4, <2>1
  <2> QED  BY <1>4, <2>2
<1> QED  BY <1>3, <1>5, <1>6, <1>7, <1>8

LEMMA AppendRange ==
  ASSUME NEW V, NEW s \in Seq(V), NEW e \in V
  PROVE  /\ Range(Append(s, e)) = Range(s) \cup {e}
         /\ s # <<>> => Head(Append(s, e)) = Head(s)
<1>1. PICK u : u = <<e>>  OBVIOUS
<1>2. u \in Seq(V) /\ DOMAIN u = {1} /\ u[1] = e  BY <1>1
<1>3. Range(u) = {e}  BY <1>2 DEF Range
<1>4. Append(s, e) = s \o u  BY <1>1
<1> QED  BY <1>2, <1>3, <1>4, JoinRange

\* The head of a buffer goes to the end of another one.
Passed(B, from, to) == [B EXCEPT ![from] = Tail(@), ![to] = Append(@, Head(B[from]))]

\* From B to C the packets P come into no buffer, and who is the head stays so.
Follows(B, C, P) ==
  \A b \in DOMAIN B : \A q \in P : q \in Range(C[b]) =>
    q \in Range(B[b]) /\ (Head(B[b]) = q => Head(C[b]) = q)

\* A packet leaves the head of a buffer and goes to the end of another one.
LEMMA Goes ==
  ASSUME NEW V, NEW B, B \in [DOMAIN B -> Seq(V)], NEW p \in V,
         NEW from \in DOMAIN B, NEW to \in DOMAIN B, from # to, B[from] # <<>>, Head(B[from]) = p,
         NEW C, C = Passed(B, from, to)
  PROVE  /\ C \in [DOMAIN B -> Seq(V)]
         /\ Effect(B, C, {p}, {p})
         /\ p \in Range(C[to]) /\ Follows(B, C, V \ {p})
<1>1. PICK X : X = [B EXCEPT ![from] = Tail(@)]  OBVIOUS
<1>2. X \in [DOMAIN B -> Seq(V)] /\ Effect(B, X, {p}, {})
  BY ONLY <1>1, Leaves, B \in [DOMAIN B -> Seq(V)], from \in DOMAIN B, B[from] # <<>>,
          Head(B[from]) = p
<1>3. DOMAIN X = DOMAIN B /\ to \in DOMAIN X /\ X[to] = B[to]  BY <1>1
<1>4. C = [X EXCEPT ![to] = Append(@, p)]  BY <1>1, <1>3 DEF Passed
<1>5. Effect(X, C, {}, {p})
  <2>1. X \in [DOMAIN X -> Seq(V)]  BY <1>2, <1>3
  <2> QED  BY ONLY <1>3, <1>4, <2>1, p \in V, Put
<1>6. Effect(B, C, {p}, {p})  BY <1>2, <1>5, Effects
<1>7. Append(B[to], p) \in Seq(V) /\ Tail(B[from]) \in Seq(V)  OBVIOUS
<1>8. C \in [DOMAIN B -> Seq(V)]  BY <1>7 DEF Passed
<1>9. PICK c : c = C[to]  OBVIOUS
<1>10. c = Append(B[to], p) /\ B[to] \in Seq(V)  BY <1>9 DEF Passed
<1>11. Range(c) = Range(B[to]) \cup {p} /\ (B[to] # <<>> => Head(c) = Head(B[to]))
  BY ONLY <1>10, AppendRange, p \in V
<1>12. PICK d : d = C[from]  OBVIOUS
<1>13. d = Tail(B[from]) /\ B[from] \in Seq(V)  BY <1>12 DEF Passed
<1>14. Range(d) \subseteq Range(B[from])  BY ONLY <1>13, TailRange, B[from] # <<>>
<1>15. ASSUME NEW b \in DOMAIN B, NEW q \in V, q # p, q \in Range(C[b])
       PROVE  q \in Range(B[b]) /\ (Head(B[b]) = q => Head(C[b]) = q)
  <2>1. CASE b = from  BY ONLY <1>12, <1>14, <1>15, <2>1, Head(B[from]) = p
  <2>2. CASE b = to
    <3>1. q \in Range(B[to])  BY ONLY <1>9, <1>11, <1>15, <2>2
    <3>2. B[to] # <<>>  BY ONLY <3>1 DEF Range
    <3> QED  BY ONLY <1>9, <1>11, <2>2, <3>1, <3>2
  <2>3. CASE b # from /\ b # to
    <3>1. C[b] = B[b]  BY <2>3 DEF Passed
    <3> QED  BY ONLY <1>15, <3>1
  <2> QED  BY <2>1, <2>2, <2>3
<1>16. Follows(B, C, V \ {p})  BY ONLY <1>15 DEF Follows
<1> QED  BY ONLY <1>6, <1>8, <1>9, <1>11, <1>16

-----------------------------------------------------------------------------
(***************************************************************************)
(* A packet goes from one buffer to the next.                              *)
(***************************************************************************)
\* From B to C packet p, of the packets P, goes to buffer to.
Hop(B, C, P, p, to) ==
  /\ DOMAIN C = DOMAIN B /\ to \in DOMAIN B /\ p \in Range(C[to])
  /\ Effect(B, C, {p}, {p}) /\ Follows(B, C, P \ {p})

LEMMA TransferSound ==
  ASSUME NEW t, NEW R, NEW Q, NEW B, NEW M, Sound(t, R, Q, B, M), t.fixed = 0,
         NEW p \in Packets(t), NEW C, NEW to, Hop(B, C, Packets(t), p, to),
         NEW k \in {"output", "input"}, NEW l \in {"output", "input"}, k # l,
         ~ Absent(Q, {Ev(k, p)}),
         NEW S, Effect(Q, S, {Ev(k, p)}, {Ev(l, p)}),
         Onward(t, R, p[1], to), l = "input" => to \in Ins(t)
  PROVE  Sound(t, R, S, C, M)
<1> USE DEF Hop
<1>1. k \in Kinds /\ l \in Kinds  BY DEF Kinds
<1>2. ~ Absent(Q, Events(p))  BY ONLY <1>1, ~ Absent(Q, {Ev(k, p)}), EventMeets, AbsentPart
<1>3. One(B, {p}) /\ One(Q, Events(p)) /\ M[p[1]] \in {"sent", "received"}
  BY <1>2 DEF Sound, Carried
<1>4. One(C, {p})
  <2>1. Effect(B, C, {p}, {p})  OBVIOUS
  <2> QED  BY ONLY <1>3, <2>1, EffectIn, PacketApart, EventMeets
<1>5. /\ \A E : Apart(E, {Ev(l, p)}) =>
           /\ Absent(Q, E) => Absent(S, E)
           /\ Apart(E, {Ev(k, p)}) /\ One(Q, E) => One(S, E)
           /\ ~ Apart(E, {Ev(k, p)}) /\ One(Q, E) => Absent(S, E)
      /\ One(S, Events(p))
  <2>1. ~ Apart(Events(p), {Ev(k, p)}) /\ Meets(Events(p), {Ev(l, p)}, Ev(l, p))
    BY ONLY <1>1, EventApart, EventMeets
  <2>2. One(S, Events(p))
    BY ONLY <1>3, <2>1, Effect(Q, S, {Ev(k, p)}, {Ev(l, p)}), EffectIn
  <2> QED  BY ONLY <2>2, Effect(Q, S, {Ev(k, p)}, {Ev(l, p)}), EffectOut
<1>6. \A q \in Packets(t) : Carried(t, S, C, M, q)
  <2> TAKE q \in Packets(t)
  <2>1. Carried(t, Q, B, M, q)  BY DEF Sound
  <2>2. CASE q = p  BY ONLY <1>3, <1>4, <1>5, <2>2, t.fixed = 0 DEF Carried
  <2>3. CASE q # p
    <3>1. (One(B, {q}) => One(C, {q})) /\ (Absent(B, {q}) => Absent(C, {q}))
      <4>1. Apart({q}, {p}) /\ Effect(B, C, {p}, {p})  BY <2>3, PacketApart
      <4> QED  BY ONLY <4>1, EffectOut
    <3>2. /\ One(Q, Events(q)) => One(S, Events(q))
          /\ Absent(Q, Events(q)) => Absent(S, Events(q))
      BY ONLY <1>5, <2>3, EventApart
    <3> QED  BY ONLY <2>1, <3>1, <3>2, t.fixed = 0 DEF Carried
  <2> QED  BY <2>2, <2>3
<1>7. \A q \in Packets(t) : \A b \in DOMAIN C : q \in Range(C[b]) => Stands(t, R, S, C, q, b)
  <2> TAKE q \in Packets(t)
  <2> TAKE b \in DOMAIN C
  <2> HAVE q \in Range(C[b])
  <2>1. CASE q = p
    <3>1. b = to  BY <1>4, <2>1, OnePlace
    <3>2. ~ Absent(S, {Ev("input", p)}) => to \in Ins(t)
      <4>1. CASE l = "input"  BY <4>1
      <4>2. CASE l = "output"
        <5>1. k = "input"  BY <4>2
        <5>2. One(Q, {Ev("input", p)})
          BY ONLY <1>1, <1>3, <5>1, ~ Absent(Q, {Ev(k, p)}), EventMeets, OnePart
        <5>3. Absent(S, {Ev("input", p)})  BY ONLY <1>5, <4>2, <5>1, <5>2, EventApart
        <5> QED  BY <5>3
      <4> QED  BY <4>1, <4>2
    <3>3. Absent(S, {Ev("receive", p)})
      <4>1. Ev("receive", p) \in Events(p) /\ Ev(k, p) \in Events(p)
        BY ONLY <1>1, EventMeets DEF Kinds
      <4>2. Ev("receive", p) # Ev(k, p) /\ "receive" # l  BY EvDiffer
      <4>3. Absent(Q, {Ev("receive", p)})
        BY ONLY <1>3, <4>1, <4>2, ~ Absent(Q, {Ev(k, p)}), OnlyOne
      <4> QED  BY ONLY <1>5, <4>2, <4>3, EventApart
    <3> QED  BY <2>1, <3>1, <3>2, <3>3 DEF Stands
  <2>2. CASE q # p
    <3>1. q \in Range(B[b]) /\ (Head(B[b]) = q => Head(C[b]) = q)  BY <2>2 DEF Follows
    <3>2. Stands(t, R, Q, B, q, b)  BY <3>1 DEF Sound
    <3>3. /\ Absent(Q, {Ev("input", q)}) => Absent(S, {Ev("input", q)})
          /\ Absent(Q, {Ev("receive", q)}) => Absent(S, {Ev("receive", q)})
      BY ONLY <1>5, <2>2, EventApart
    <3> QED  BY ONLY <3>1, <3>2, <3>3 DEF Stands
  <2> QED  BY <2>1, <2>2
<1>8. \A m \in DOMAIN t.msgs : Asked(S, M, m)
  <2> TAKE m \in DOMAIN t.msgs
  <2>1. Asked(Q, M, m)  BY DEF Sound
  <2>2. /\ k # "retry" /\ l # "retry" /\ l # "received"  OBVIOUS
  <2>3. /\ One(Q, {Ev("retry", m)}) => One(S, {Ev("retry", m)})
        /\ Absent(Q, {Ev("retry", m)}) => Absent(S, {Ev("retry", m)})
        /\ Absent(Q, {Ev("received", m)}) => Absent(S, {Ev("received", m)})
    BY ONLY <1>5, <2>2, EventApart
  <2> QED  BY ONLY <2>1, <2>3 DEF Asked
<1> QED  BY <1>6, <1>7, <1>8 DEF Sound

-----------------------------------------------------------------------------
(***************************************************************************)
(* A packet at its destination, the head of its buffer, is to be received. *)
(***************************************************************************)
LEMMA ArrivesSound ==
  ASSUME NEW t, NEW R, NEW Q, NEW B, NEW M, Sound(t, R, Q, B, M), t.fixed = 0,
         NEW p \in Packets(t),
         \A b \in DOMAIN B : p \in Range(B[b]) => Head(B[b]) = p,
         ~ Absent(Q, {Ev("input", p)}),
         NEW S, Effect(Q, S, {Ev("input", p)}, {Ev("receive", p)})
  PROVE  Sound(t, R, S, B, M)
<1>1. "input" \in Kinds /\ "receive" \in Kinds  BY DEF Kinds
<1>2. ~ Absent(Q, Events(p))
  BY ONLY <1>1, ~ Absent(Q, {Ev("input", p)}), EventMeets, AbsentPart
<1>3. One(B, {p}) /\ One(Q, Events(p)) /\ M[p[1]] \in {"sent", "received"}
  BY <1>2 DEF Sound, Carried
<1>4. /\ \A E : Apart(E, {Ev("receive", p)}) =>
           /\ Absent(Q, E) => Absent(S, E)
           /\ Apart(E, {Ev("input", p)}) /\ One(Q, E) => One(S, E)
      /\ One(S, Events(p))
  <2>1. ~ Apart(Events(p), {Ev("input", p)}) /\ Meets(Events(p), {Ev("receive", p)}, Ev("receive", p))
    BY ONLY <1>1, EventApart, EventMeets
  <2>2. One(S, Events(p))
    BY ONLY <1>3, <2>1, Effect(Q, S, {Ev("input", p)}, {Ev("receive", p)}), EffectIn
  <2> QED  BY ONLY <2>2, Effect(Q, S, {Ev("input", p)}, {Ev("receive", p)}), EffectOut
<1>5. \A q \in Packets(t) : Carried(t, S, B, M, q)
  <2> TAKE q \in Packets(t)
  <2>1. Carried(t, Q, B, M, q)  BY DEF Sound
  <2>2. CASE q = p  BY ONLY <1>3, <1>4, <2>2, t.fixed = 0 DEF Carried
  <2>3. CASE q # p
    <3>1. /\ One(Q, Events(q)) => One(S, Events(q))
          /\ Absent(Q, Events(q)) => Absent(S, Events(q))
      BY ONLY <1>4, <2>3, EventApart
    <3> QED  BY ONLY <2>1, <3>1, t.fixed = 0 DEF Carried
  <2> QED  BY <2>2, <2>3
<1>6. \A q \in Packets(t) : \A b \in DOMAIN B : q \in Range(B[b]) => Stands(t, R, S, B, q, b)
  <2> TAKE q \in Packets(t)
  <2> TAKE b \in DOMAIN B
  <2> HAVE q \in Range(B[b])
  <2>1. Stands(t, R, Q, B, q, b)  BY DEF Sound
  <2>2. Absent(Q, {Ev("input", q)}) => Absent(S, {Ev("input", q)})
    BY ONLY <1>4, EventApart
  <2>3. CASE q = p  BY ONLY <2>1, <2>2, <2>3, q \in Range(B[b]), b \in DOMAIN B,
                        \A c \in DOMAIN B : p \in Range(B[c]) => Head(B[c]) = p DEF Stands
  <2>4. CASE q # p
    <3>1. Absent(Q, {Ev("receive", q)}) => Absent(S, {Ev("receive", q)})
      BY ONLY <1>4, <2>4, EventApart
    <3> QED  BY ONLY <2>1, <2>2, <3>1 DEF Stands
  <2> QED  BY <2>3, <2>4
<1>7. \A m \in DOMAIN t.msgs : Asked(S, M, m)
  <2> TAKE m \in DOMAIN t.msgs
  <2>1. Asked(Q, M, m)  BY DEF Sound
  <2>2. /\ One(Q, {Ev("retry", m)}) => One(S, {Ev("retry", m)})
        /\ Absent(Q, {Ev("retry", m)}) => Absent(S, {Ev("retry", m)})
        /\ Absent(Q, {Ev("received", m)}) => Absent(S, {Ev("received", m)})
    BY ONLY <1>4, EventApart
  <2> QED  BY ONLY <2>1, <2>2 DEF Asked
<1> QED  BY <1>5, <1>6, <1>7 DEF Sound

-----------------------------------------------------------------------------
(***************************************************************************)
(* A packet is received: the last one of a message schedules the event of  *)
(* its receiver.                                                           *)
(***************************************************************************)
\* From B to C packet p leaves the buffer it stands in, if it stands in one.
Gone(t, B, C, p) ==
  /\ DOMAIN C = DOMAIN B
  /\ IF t.fixed = 0
       THEN Effect(B, C, {p}, {}) /\ Follows(B, C, Packets(t) \ {p})
       ELSE C = B

LEMMA TakenSound ==
  ASSUME NEW t, NEW R, NEW Q, NEW B, NEW M, Sound(t, R, Q, B, M),
         NEW p \in Packets(t), p[1] \in DOMAIN t.msgs,
         NEW C, Gone(t, B, C, p),
         ~ Absent(Q, {Ev("receive", p)}),
         NEW S, NEW F, F \in {{}, {Ev("received", p[1])}}, Effect(Q, S, {Ev("receive", p)}, F)
  PROVE  Sound(t, R, S, C, M)
<1> USE DEF Gone
<1>1. "receive" \in Kinds /\ "received" \notin Kinds  BY DEF Kinds
<1>2. ~ Absent(Q, Events(p))
  BY ONLY <1>1, ~ Absent(Q, {Ev("receive", p)}), EventMeets, AbsentPart
<1>3. /\ M[p[1]] \in {"sent", "received"}
      /\ t.fixed = 0 => One(B, {p}) /\ One(Q, Events(p))
  BY <1>2 DEF Sound, Carried
<1>4. \A E : Apart(E, F) =>
         /\ Absent(Q, E) => Absent(S, E)
         /\ Apart(E, {Ev("receive", p)}) /\ One(Q, E) => One(S, E)
         /\ ~ Apart(E, {Ev("receive", p)}) /\ One(Q, E) => Absent(S, E)
  BY ONLY Effect(Q, S, {Ev("receive", p)}, F), EffectOut
<1>5. /\ \A q : Apart(Events(q), F)
      /\ \A k, x : k # "received" \/ x # p[1] => Apart({Ev(k, x)}, F)
  <2>1. CASE F = {}  BY ONLY <2>1, EventApart
  <2>2. CASE F = {Ev("received", p[1])}  BY ONLY <1>1, <2>2, EventApart
  <2> QED  BY <2>1, <2>2
<1>6. t.fixed = 0 => Absent(C, {p}) /\ Absent(S, Events(p))
  <2> HAVE t.fixed = 0
  <2>1. Effect(B, C, {p}, {}) /\ One(B, {p}) /\ One(Q, Events(p))  BY <1>3
  <2>2. Absent(C, {p})
    <3>1. ~ Apart({p}, {p}) /\ Apart({p}, {})  BY ONLY PacketApart, EventApart
    <3> QED  BY ONLY <2>1, <3>1, EffectOut
  <2>3. ~ Apart(Events(p), {Ev("receive", p)})  BY ONLY <1>1, EventApart
  <2>4. Absent(S, Events(p))  BY ONLY <1>4, <1>5, <2>1, <2>3
  <2> QED  BY <2>2, <2>4
<1>7. \A q \in Packets(t) : Carried(t, S, C, M, q)
  <2> TAKE q \in Packets(t)
  <2>1. Carried(t, Q, B, M, q)  BY DEF Sound
  <2>2. Absent(Q, Events(q)) => Absent(S, Events(q))  BY ONLY <1>4, <1>5
  <2>3. CASE t.fixed = 0
    <3>1. CASE q = p  BY ONLY <1>3, <1>6, <2>3, <3>1 DEF Carried
    <3>2. CASE q # p
      <4>1. One(Q, Events(q)) => One(S, Events(q))
        BY ONLY <1>4, <1>5, <3>2, EventApart
      <4>2. (One(B, {q}) => One(C, {q})) /\ (Absent(B, {q}) => Absent(C, {q}))
        <5>1. Apart({q}, {p}) /\ Apart({q}, {})  BY ONLY <3>2, PacketApart, EventApart
        <5>2. Effect(B, C, {p}, {})  BY <2>3
        <5> QED  BY ONLY <5>1, <5>2, EffectOut
      <4> QED  BY ONLY <2>1, <2>2, <2>3, <4>1, <4>2 DEF Carried
    <3> QED  BY <3>1, <3>2
  <2>4. CASE t.fixed # 0
    <3>1. C = B  BY <2>4
    <3>2. Absent(S, {Ev("output", q), Ev("input", q)})
      <4>1. Apart({Ev("output", q), Ev("input", q)}, F)
        BY ONLY F \in {{}, {Ev("received", p[1])}}, EvDiffer DEF Apart
      <4>2. Absent(Q, {Ev("output", q), Ev("input", q)})  BY ONLY <2>1, <2>4 DEF Carried
      <4> QED  BY ONLY <1>4, <4>1, <4>2
    <3> QED  BY ONLY <2>1, <2>2, <2>4, <3>1, <3>2 DEF Carried
  <2> QED  BY <2>3, <2>4
<1>8. \A q \in Packets(t) : \A b \in DOMAIN C : q \in Range(C[b]) => Stands(t, R, S, C, q, b)
  <2> TAKE q \in Packets(t)
  <2> TAKE b \in DOMAIN C
  <2> HAVE q \in Range(C[b])
  <2>1. t.fixed = 0
    <3> SUFFICES ASSUME t.fixed # 0  PROVE FALSE
      OBVIOUS
    <3>1. Absent(C, {q})  BY <1>7 DEF Carried
    <3> QED  BY <3>1, SomePlace
  <2>2. q # p  BY <1>6, <2>1, SomePlace
  <2>3. q \in Range(B[b]) /\ (Head(B[b]) = q => Head(C[b]) = q)  BY <2>1, <2>2 DEF Follows
  <2>4. Stands(t, R, Q, B, q, b)  BY <2>3 DEF Sound
  <2>5. /\ Absent(Q, {Ev("input", q)}) => Absent(S, {Ev("input", q)})
        /\ Absent(Q, {Ev("receive", q)}) => Absent(S, {Ev("receive", q)})
    BY ONLY <1>4, <1>5
  <2> QED  BY ONLY <2>3, <2>4, <2>5 DEF Stands
<1>9. \A m \in DOMAIN t.msgs : Asked(S, M, m)
  <2> TAKE m \in DOMAIN t.msgs
  <2>1. Asked(Q, M, m)  BY DEF Sound
  <2>2. /\ One(Q, {Ev("retry", m)}) => One(S, {Ev("retry", m)})
        /\ Absent(Q, {Ev("retry", m)}) => Absent(S, {Ev("retry", m)})
    BY ONLY <1>4, <1>5, EventApart
  <2>3. CASE m = p[1]  BY ONLY <1>3, <2>1, <2>2, <2>3 DEF Asked
  <2>4. CASE m # p[1]
    <3>1. Absent(Q, {Ev("received", m)}) => Absent(S, {Ev("received", m)})
      BY ONLY <1>4, <1>5, <2>4
    <3> QED  BY ONLY <2>1, <2>2, <3>1 DEF Asked
  <2> QED  BY <2>3, <2>4
<1> QED  BY <1>7, <1>8, <1>9 DEF Sound

-----------------------------------------------------------------------------
(***************************************************************************)
(* A message is sent: it waits, with one event, or its packets start.      *)
(***************************************************************************)
\* The event T that has a message sent: none the first time
Attempt(M, m, T) ==
  \/ M[m] = "unsent" /\ T = {}
  \/ M[m] = "trying" /\ T = {Ev("retry", m)}

LEMMA TriedSound ==
  ASSUME NEW t, NEW R, NEW Q, NEW B, NEW M, Sound(t, R, Q, B, M),
         M \in [DOMAIN t.msgs -> {"unsent", "trying", "sent", "received"}],
         NEW m \in DOMAIN t.msgs, NEW T, Attempt(M, m, T),
         \A p \in Packets(t) : p[1] \in DOMAIN t.msgs,
         NEW N, N = [M EXCEPT ![m] = "trying"],
         NEW S, Effect(Q, S, T, {Ev("retry", m)})
  PROVE  Sound(t, R, S, B, N)
<1>1. N[m] = "trying" /\ \A x \in DOMAIN t.msgs : x # m => N[x] = M[x]  OBVIOUS
<1>2. "retry" \notin Kinds  BY DEF Kinds
<1>3. \A E : Apart(E, {Ev("retry", m)}) =>
         /\ Absent(Q, E) => Absent(S, E)
         /\ Apart(E, T) /\ One(Q, E) => One(S, E)
  BY ONLY Effect(Q, S, T, {Ev("retry", m)}), EffectOut
<1>4. \A k, x : k # "retry" \/ x # m => /\ Apart({Ev(k, x)}, T)
                                        /\ Apart({Ev(k, x)}, {Ev("retry", m)})
  BY ONLY Attempt(M, m, T), EventApart DEF Attempt
<1>5. \A p : Apart(Events(p), T) /\ Apart(Events(p), {Ev("retry", m)})
  BY ONLY <1>2, Attempt(M, m, T), EventApart DEF Attempt
<1>6. M[m] \notin {"sent", "received"}  BY ONLY Attempt(M, m, T) DEF Attempt
<1>7. \A p \in Packets(t) : Carried(t, S, B, N, p)
  <2> TAKE p \in Packets(t)
  <2>1. Carried(t, Q, B, M, p)  BY DEF Sound
  <2>2. /\ One(Q, Events(p)) => One(S, Events(p))
        /\ Absent(Q, Events(p)) => Absent(S, Events(p))
    BY ONLY <1>3, <1>5
  <2>3. Absent(Q, {Ev("output", p), Ev("input", p)}) => Absent(S, {Ev("output", p), Ev("input", p)})
    <3>1. Apart({Ev("output", p), Ev("input", p)}, {Ev("retry", m)})  BY ONLY EvDiffer DEF Apart
    <3> QED  BY ONLY <1>3, <3>1
  <2>4. ~ Absent(S, Events(p)) => N[p[1]] \in {"sent", "received"}
    <3> HAVE ~ Absent(S, Events(p))
    <3>1. M[p[1]] \in {"sent", "received"}  BY ONLY <2>1, <2>2, ~ Absent(S, Events(p)) DEF Carried
    <3>2. p[1] # m  BY <1>6, <3>1
    <3> QED  BY <1>1, <3>1, <3>2
  <2> QED  BY ONLY <2>1, <2>2, <2>3, <2>4 DEF Carried
<1>8. \A p \in Packets(t) : \A b \in DOMAIN B : p \in Range(B[b]) => Stands(t, R, S, B, p, b)
  <2> TAKE p \in Packets(t)
  <2> TAKE b \in DOMAIN B
  <2> HAVE p \in Range(B[b])
  <2>1. Stands(t, R, Q, B, p, b)  BY DEF Sound
  <2>2. /\ Absent(Q, {Ev("input", p)}) => Absent(S, {Ev("input", p)})
        /\ Absent(Q, {Ev("receive", p)}) => Absent(S, {Ev("receive", p)})
    BY ONLY <1>3, <1>4
  <2> QED  BY ONLY <2>1, <2>2 DEF Stands
<1>9. \A x \in DOMAIN t.msgs : Asked(S, N, x)
  <2> TAKE x \in DOMAIN t.msgs
  <2>1. Asked(Q, M, x)  BY DEF Sound
  <2>2. Absent(Q, {Ev("received", x)}) => Absent(S, {Ev("received", x)})
    BY ONLY <1>3, <1>4
  <2>3. CASE x = m
    <3>1. One(S, {Ev("retry", m)})
      <4>1. CASE T = {} /\ M[m] = "unsent"
        <5>1. Absent(Q, {Ev("retry", m)})  BY ONLY <2>1, <2>3, <4>1 DEF Asked
        <5> QED  BY ONLY <5>1, Effect(Q, S, T, {Ev("retry", m)}), EffectIn, EventMeets
      <4>2. CASE T = {Ev("retry", m)} /\ M[m] = "trying"
        <5>1. One(Q, {Ev("retry", m)})  BY ONLY <2>1, <2>3, <4>2 DEF Asked
        <5>2. ~ Apart({Ev("retry", m)}, T)  BY ONLY <4>2, EventApart
        <5> QED  BY ONLY <5>1, <5>2, Effect(Q, S, T, {Ev("retry", m)}), EffectIn, EventMeets
      <4> QED  BY ONLY <4>1, <4>2, Attempt(M, m, T) DEF Attempt
    <3>2. Absent(S, {Ev("received", m)})  BY ONLY <1>6, <2>1, <2>2, <2>3 DEF Asked
    <3> QED  BY ONLY <1>1, <2>3, <3>1, <3>2 DEF Asked
  <2>4. CASE x # m
    <3>1. /\ One(Q, {Ev("retry", x)}) => One(S, {Ev("retry", x)})
          /\ Absent(Q, {Ev("retry", x)}) => Absent(S, {Ev("retry", x)})
      BY ONLY <1>3, <1>4, <2>4
    <3>2. N[x] = M[x]  BY <1>1, <2>4
    <3> QED  BY ONLY <2>1, <2>2, <3>1, <3>2 DEF Asked
  <2> QED  BY <2>3, <2>4
<1> QED  BY <1>7, <1>8, <1>9 DEF Sound

\* The component takes the message.
LEMMA ReceivedSound ==
  ASSUME NEW t, NEW R, NEW Q, NEW B, NEW M, Sound(t, R, Q, B, M),
         M \in [DOMAIN t.msgs -> {"unsent", "trying", "sent", "received"}],
         NEW m \in DOMAIN t.msgs, ~ Absent(Q, {Ev("received", m)}),
         \A p \in Packets(t) : p[1] \in DOMAIN t.msgs,
         NEW N, N = [M EXCEPT ![m] = "received"],
         NEW S, Effect(Q, S, {Ev("received", m)}, {})
  PROVE  Sound(t, R, S, B, N)
<1>1. N[m] = "received" /\ \A x \in DOMAIN t.msgs : x # m => N[x] = M[x]  OBVIOUS
<1>2. "received" \notin Kinds  BY DEF Kinds
<1>3. \A E : /\ Absent(Q, E) => Absent(S, E)
             /\ Apart(E, {Ev("received", m)}) /\ One(Q, E) => One(S, E)
  BY ONLY Effect(Q, S, {Ev("received", m)}, {}), EffectOut, EventApart
<1>4. M[m] # "trying"  BY DEF Sound, Asked
<1>5. \A p \in Packets(t) : Carried(t, S, B, N, p)
  <2> TAKE p \in Packets(t)
  <2>1. Carried(t, Q, B, M, p)  BY DEF Sound
  <2>2. One(Q, Events(p)) => One(S, Events(p))  BY ONLY <1>2, <1>3, EventApart
  <2>3. M[p[1]] \in {"sent", "received"} => N[p[1]] \in {"sent", "received"}  BY <1>1
  <2> QED  BY ONLY <1>3, <2>1, <2>2, <2>3 DEF Carried
<1>6. \A p \in Packets(t) : \A b \in DOMAIN B : p \in Range(B[b]) => Stands(t, R, S, B, p, b)
  <2> TAKE p \in Packets(t)
  <2> TAKE b \in DOMAIN B
  <2> HAVE p \in Range(B[b])
  <2>1. Stands(t, R, Q, B, p, b)  BY DEF Sound
  <2> QED  BY ONLY <1>3, <2>1 DEF Stands
<1>7. \A x \in DOMAIN t.msgs : Asked(S, N, x)
  <2> TAKE x \in DOMAIN t.msgs
  <2>1. Asked(Q, M, x)  BY DEF Sound
  <2>2. One(Q, {Ev("retry", x)}) => One(S, {Ev("retry", x)})  BY ONLY <1>3, EventApart
  <2>3. CASE x = m  BY ONLY <1>1, <1>3, <1>4, <2>1, <2>3 DEF Asked
  <2>4. CASE x # m
    <3>1. N[x] = M[x]  BY <1>1, <2>4
    <3> QED  BY ONLY <1>3, <2>1, <2>2, <3>1 DEF Asked
  <2> QED  BY <2>3, <2>4
<1> QED  BY <1>5, <1>6, <1>7 DEF Sound

\* The packets of a message
Cut(t, m) == {p \in Packets(t) : p[1] = m}

\* From B to C the packets of message m come into buffer out, if not received at once.
Filled(t, R, B, C, m, out) ==
  /\ DOMAIN C = DOMAIN B
  /\ IF t.fixed = 0
       THEN /\ out \in DOMAIN B /\ Onward(t, R, m, out)
            /\ Effect(B, C, {}, Cut(t, m)) /\ Cut(t, m) \subseteq Range(C[out])
            /\ Follows(B, C, Packets(t) \ Cut(t, m))
       ELSE C = B

\* The events of kind k of the packets P
Bring(k, P) == {Ev(k, p) : p \in P}

LEMMA StartedSound ==
  ASSUME NEW t, NEW R, NEW Q, NEW B, NEW M, Sound(t, R, Q, B, M),
         M \in [DOMAIN t.msgs -> {"unsent", "trying", "sent", "received"}],
         NEW m \in DOMAIN t.msgs, NEW T, Attempt(M, m, T),
         \A p \in Packets(t) : p[1] \in DOMAIN t.msgs,
         NEW N, N = [M EXCEPT ![m] = "sent"],
         NEW k, k = IF t.fixed = 0 THEN "output" ELSE "receive",
         NEW S, Effect(Q, S, T, Bring(k, Cut(t, m))),
         NEW C, NEW out, Filled(t, R, B, C, m, out)
  PROVE  Sound(t, R, S, C, N)
<1> DEFINE P == Cut(t, m)
           F == {Ev(k, p) : p \in P}
<1> USE DEF Filled, Bring
<1>1. N[m] = "sent" /\ \A x \in DOMAIN t.msgs : x # m => N[x] = M[x]  OBVIOUS
<1>2. "retry" \notin Kinds /\ k \in Kinds /\ k # "input"  BY DEF Kinds
<1>3. /\ \A E : Apart(E, F) =>
           /\ Absent(Q, E) => Absent(S, E)
           /\ Apart(E, T) /\ One(Q, E) => One(S, E)
           /\ ~ Apart(E, T) /\ One(Q, E) => Absent(S, E)
      /\ \A E, f : Meets(E, F, f) /\ Absent(Q, E) => One(S, E)
  <2>1. Effect(Q, S, T, F)  OBVIOUS
  <2> QED  BY ONLY <2>1, EffectOut, EffectIn
<1>4. \A l, x : l # k \/ x \notin P => Apart({Ev(l, x)}, F)  BY ONLY EvDiffer DEF Apart
<1>5. \A q : q \notin P => Apart(Events(q), F)
  <2> TAKE q
  <2> HAVE q \notin P
  <2>1. \A p \in P : Ev(k, p) \notin Events(q)  BY ONLY q \notin P, EventsAre, EvDiffer
  <2> QED  BY ONLY <2>1 DEF Apart
<1>6. \A q \in P : Meets(Events(q), F, Ev(k, q))
  <2> TAKE q \in P
  <2>1. Ev(k, q) \in Events(q) /\ Ev(k, q) \in F  BY ONLY <1>2, EventMeets, q \in P
  <2>2. \A p \in P : Ev(k, p) \in Events(q) => p = q  BY ONLY EventsAre, EvDiffer
  <2> QED  BY ONLY <2>1, <2>2 DEF Meets
<1>7. \A q : Apart(Events(q), T)
  BY ONLY <1>2, Attempt(M, m, T), EventApart DEF Attempt
<1>8. \A l, x : l # "retry" \/ x # m => Apart({Ev(l, x)}, T)
  BY ONLY Attempt(M, m, T), EventApart DEF Attempt
<1>9. M[m] \notin {"sent", "received"}  BY ONLY Attempt(M, m, T) DEF Attempt
\* Before, no packet of the message has an event or stands in a buffer.
<1>10. \A q \in P : Absent(Q, Events(q)) /\ Absent(B, {q})
  <2> TAKE q \in P
  <2>1. q \in Packets(t) /\ q[1] = m  BY DEF Cut
  <2>2. Carried(t, Q, B, M, q)  BY <2>1 DEF Sound
  <2>3. Absent(Q, Events(q))  BY ONLY <1>9, <2>1, <2>2 DEF Carried
  <2> QED  BY ONLY <2>2, <2>3 DEF Carried, One
<1> HIDE DEF P, F
<1>11. t.fixed = 0 => \A q \in P : One(C, {q})
  <2> SUFFICES ASSUME t.fixed = 0, NEW q \in P  PROVE One(C, {q})
    OBVIOUS
  <2>1. Effect(B, C, {}, P)  BY DEF P
  <2>2. Meets({q}, P, q)  BY DEF Meets
  <2>3. Absent(B, {q})  BY <1>10
  <2> QED  BY ONLY <2>1, <2>2, <2>3, EffectIn
<1>12. \A q \in Packets(t) : Carried(t, S, C, N, q)
  <2> TAKE q \in Packets(t)
  <2>1. Carried(t, Q, B, M, q)  BY DEF Sound
  <2>2. CASE q \in P
    <3>1. N[q[1]] = "sent"  BY <1>1, <2>2 DEF P, Cut
    <3>2. CASE t.fixed = 0
      <4>1. One(S, Events(q))  BY ONLY <1>3, <1>6, <1>10, <2>2
      <4> QED  BY ONLY <1>11, <2>2, <3>1, <3>2, <4>1 DEF Carried
    <3>3. CASE t.fixed # 0
      <4>1. C = B /\ k = "receive"  BY <3>3
      <4>2. Apart({Ev("output", q), Ev("input", q)}, F)
        BY ONLY <4>1, EvDiffer DEF Apart, F
      <4>3. Absent(S, {Ev("output", q), Ev("input", q)})
        BY ONLY <1>3, <2>1, <3>3, <4>2 DEF Carried
      <4> QED  BY ONLY <2>1, <3>1, <3>3, <4>1, <4>3 DEF Carried
    <3> QED  BY <3>2, <3>3
  <2>3. CASE q \notin P
    <3>1. q[1] # m /\ N[q[1]] = M[q[1]]  BY <1>1, <2>3 DEF P, Cut
    <3>2. /\ One(Q, Events(q)) => One(S, Events(q))
          /\ Absent(Q, Events(q)) => Absent(S, Events(q))
      BY ONLY <1>3, <1>5, <1>7, <2>3
    <3>3. CASE t.fixed = 0
      <4>1. Effect(B, C, {}, P)  BY <3>3 DEF P
      <4>2. Apart({q}, P) /\ Apart({q}, {})  BY ONLY <2>3 DEF Apart
      <4>3. (One(B, {q}) => One(C, {q})) /\ (Absent(B, {q}) => Absent(C, {q}))
        BY ONLY <4>1, <4>2, EffectOut
      <4> QED  BY ONLY <2>1, <3>1, <3>2, <3>3, <4>3 DEF Carried
    <3>4. CASE t.fixed # 0
      <4>1. C = B  BY <3>4
      <4>2. Apart({Ev("output", q), Ev("input", q)}, F)
        BY ONLY <2>3, EvDiffer DEF Apart, F
      <4>3. Absent(S, {Ev("output", q), Ev("input", q)})
        BY ONLY <1>3, <2>1, <3>4, <4>2 DEF Carried
      <4> QED  BY ONLY <2>1, <3>1, <3>2, <3>4, <4>1, <4>3 DEF Carried
    <3> QED  BY <3>3, <3>4
  <2> QED  BY <2>2, <2>3
<1>13. \A q \in Packets(t) : \A b \in DOMAIN C : q \in Range(C[b]) => Stands(t, R, S, C, q, b)
  <2> TAKE q \in Packets(t)
  <2> TAKE b \in DOMAIN C
  <2> HAVE q \in Range(C[b])
  <2>1. t.fixed = 0
    <3> SUFFICES ASSUME t.fixed # 0  PROVE FALSE
      OBVIOUS
    <3>1. Absent(C, {q})  BY <1>12 DEF Carried
    <3> QED  BY <3>1, SomePlace
  <2>2. k = "output"  BY <2>1
  <2>3. Absent(Q, {Ev("input", q)}) => Absent(S, {Ev("input", q)})
    BY ONLY <1>3, <1>4, <2>2
  <2>4. Absent(Q, {Ev("receive", q)}) => Absent(S, {Ev("receive", q)})
    BY ONLY <1>3, <1>4, <2>2
  <2>5. CASE q \in P
    <3>1. q[1] = m /\ q \in Range(C[out]) /\ out \in DOMAIN C  BY <2>1, <2>5 DEF P, Cut
    <3>2. b = out
      <4>1. One(C, {q})  BY <1>11, <2>1, <2>5
      <4> QED  BY ONLY <3>1, <4>1, OnePlace, q \in Range(C[b]), b \in DOMAIN C
    <3>3. Absent(Q, {Ev("input", q)}) /\ Absent(Q, {Ev("receive", q)})
      <4>1. "input" \in Kinds /\ "receive" \in Kinds  BY DEF Kinds
      <4>2. {Ev("input", q)} \subseteq Events(q) /\ {Ev("receive", q)} \subseteq Events(q)
        BY ONLY <4>1, EventMeets
      <4> QED  BY ONLY <1>10, <2>5, <4>2, AbsentPart
    <3>4. Onward(t, R, m, out)  BY <2>1
    <3> QED  BY ONLY <2>3, <2>4, <3>1, <3>2, <3>3, <3>4 DEF Stands
  <2>6. CASE q \notin P
    <3>1. q \in Packets(t) \ Cut(t, m)  BY <2>6 DEF P
    <3>2. q \in Range(B[b]) /\ (Head(B[b]) = q => Head(C[b]) = q)  BY <2>1, <3>1 DEF Follows
    <3>3. Stands(t, R, Q, B, q, b)  BY <3>2 DEF Sound
    <3> QED  BY ONLY <2>3, <2>4, <3>2, <3>3 DEF Stands
  <2> QED  BY <2>5, <2>6
<1>14. \A x \in DOMAIN t.msgs : Asked(S, N, x)
  <2> TAKE x \in DOMAIN t.msgs
  <2>1. Asked(Q, M, x)  BY DEF Sound
  <2>2. k # "retry" /\ k # "received"  BY ONLY <1>2 DEF Kinds
  <2>3. Absent(Q, {Ev("received", x)}) => Absent(S, {Ev("received", x)})
    BY ONLY <1>3, <1>4, <2>2
  <2>4. CASE x = m
    <3>1. Absent(S, {Ev("retry", m)})
      <4>1. Apart({Ev("retry", m)}, F)  BY ONLY <1>4, <2>2
      <4>2. CASE T = {} /\ M[m] = "unsent"
        <5>1. Absent(Q, {Ev("retry", m)})  BY ONLY <2>1, <2>4, <4>2 DEF Asked
        <5> QED  BY ONLY <1>3, <4>1, <5>1
      <4>3. CASE T = {Ev("retry", m)} /\ M[m] = "trying"
        <5>1. One(Q, {Ev("retry", m)})  BY ONLY <2>1, <2>4, <4>3 DEF Asked
        <5>2. ~ Apart({Ev("retry", m)}, T)  BY ONLY <4>3, EventApart
        <5> QED  BY ONLY <1>3, <4>1, <5>1, <5>2
      <4> QED  BY ONLY <4>2, <4>3, Attempt(M, m, T) DEF Attempt
    <3> QED  BY ONLY <1>1, <2>4, <3>1 DEF Asked
  <2>5. CASE x # m
    <3>1. /\ One(Q, {Ev("retry", x)}) => One(S, {Ev("retry", x)})
          /\ Absent(Q, {Ev("retry", x)}) => Absent(S, {Ev("retry", x)})
      BY ONLY <1>3, <1>4, <1>8, <2>2, <2>5
    <3>2. N[x] = M[x]  BY <1>1, <2>5
    <3> QED  BY ONLY <2>1, <2>3, <3>1, <3>2 DEF Asked
  <2> QED  BY <2>4, <2>5
<1> QED  BY <1>12, <1>13, <1>14 DEF Sound

-----------------------------------------------------------------------------
(***************************************************************************)
(* The networks.                                                           *)
(***************************************************************************)
LEMMA Least ==
  ASSUME NEW S \in SUBSET Nat, S # {}
  PROVE  \E x \in S : \A y \in S : x =< y
<1> DEFINE T == {1 .. i : i \in S}
<1>1. \A i \in Nat : 1 .. i \in SUBSET Nat /\ IsFiniteSet(1 .. i)  BY FS_Interval
<1>2. T \subseteq FiniteSubsetsOf(Nat) /\ T # {}  BY <1>1 DEF FiniteSubsetsOf
<1>3. PICK X \in T : \A Y \in T : <<Y, X>> \notin StrictSubsetOrdering(Nat)
  BY <1>2, FS_StrictSubsetOrderingWellFounded, WFMin
<1>4. PICK k \in S : X = 1 .. k  OBVIOUS
<1>5. \A j \in S : ~(j < k)
  <2> SUFFICES ASSUME NEW j \in S, j < k  PROVE FALSE
    OBVIOUS
  <2>1. (1 .. j) \subseteq (1 .. k) /\ k \in 1 .. k /\ k \notin 1 .. j  OBVIOUS
  <2>2. 1 .. j \in T /\ (1 .. j) # X  BY <1>4, <2>1
  <2> QED  BY <1>1, <1>3, <1>4, <2>1, <2>2 DEF StrictSubsetOrdering
<1> QED  BY <1>5

LEMMA IndexOfIn ==
  ASSUME NEW V, NEW s \in Seq(V), NEW x \in Range(s)
  PROVE  IndexOf(s, x) \in DOMAIN s
<1> DEFINE I == {i \in 1 .. Len(s) : s[i] = x}
<1>1. DOMAIN s = 1 .. Len(s) /\ Len(s) \in Nat  OBVIOUS
<1>2. I \in SUBSET Nat /\ I # {}  BY <1>1 DEF Range
<1>3. \E k \in I : \A j \in I : k =< j  BY <1>2, Least
<1>4. IndexOf(s, x) = Min(I)  BY <1>2 DEF IndexOf, SelectInSeq
<1>5. Min(I) \in I  BY <1>3 DEF Min
<1> QED  BY <1>1, <1>4, <1>5

LEMMA EmptyBytes ==
  ASSUME NEW b, buf[b] = <<>>
  PROVE  Bytes(b) = 0
<1>1. DOMAIN buf[b] = {}  OBVIOUS
<1> QED  BY <1>1 DEF Bytes, FoldLeft, MapThenFoldSet

LEMMA NodeIs ==
  ASSUME NEW t, Wired(t), NEW n \in Nodes(t), NEW b \in Owned(t, n)
  PROVE  NodeOf(t, b) = n
<1>1. \A k \in Nodes(t) : b \in Owned(t, k) => k = n  BY DEF Wired
<1>2. NodeOf(t, b) = CHOOSE k \in Nodes(t) : b \in Owned(t, k)  BY DEF NodeOf, Owned
<1> QED  BY <1>1, <1>2

LEMMA BuffersOf ==
  ASSUME NEW t, Wired(t)
  PROVE  /\ Outs(t) \subseteq Buffers(t) /\ Ins(t) \subseteq Buffers(t)
         /\ \A n \in Nodes(t) : Range(t.out[n]) \subseteq Outs(t)
         /\ \A b \in Buffers(t) : NodeOf(t, b) \in Nodes(t)
<1>1. DOMAIN t.out = Nodes(t) /\ DOMAIN t.in = Nodes(t)  BY DEF Wired
<1>2. Outs(t) \subseteq Buffers(t) /\ Ins(t) \subseteq Buffers(t)
  BY <1>1 DEF Outs, Ins, Buffers
<1>3. \A n \in Nodes(t) : Range(t.out[n]) \subseteq Outs(t)  BY <1>1 DEF Outs
<1>4. \A b \in Buffers(t) : NodeOf(t, b) \in Nodes(t)
  <2> TAKE b \in Buffers(t)
  <2>1. PICK n \in Nodes(t) : b \in Owned(t, n)  BY <1>1 DEF Buffers, Owned
  <2> QED  BY <2>1, NodeIs
<1> QED  BY <1>2, <1>3, <1>4

\* The output buffer of the route at a node on the way
LEMMA RouteOut ==
  ASSUME NEW t, Wired(t), NEW R, Routed(t, R), NEW m \in DOMAIN t.msgs, NEW n \in Nodes(t),
         n # t.msgs[m].dst, n \in Way(t, R, m)
  PROVE  LET b == R[<<n, t.msgs[m].dst>>].out
         IN  b \in Outs(t) /\ b \in Buffers(t) /\ NodeOf(t, b) = n /\ Onward(t, R, m, b)
<1> DEFINE b == R[<<n, t.msgs[m].dst>>].out
<1>1. b \in Range(t.out[n])  BY DEF Routed
<1>2. b \in Owned(t, n)  BY <1>1 DEF Owned
<1> HIDE DEF b
<1>3. b \in Outs(t) /\ b \in Buffers(t)  BY <1>1, BuffersOf
<1>4. NodeOf(t, b) = n  BY <1>2, NodeIs
<1>5. Onward(t, R, m, b)  BY <1>4 DEF Onward, b
<1> QED  BY <1>3, <1>4, <1>5 DEF b

\* Where a link leads to
LEMMA LinkTo ==
  ASSUME NEW t, Wired(t), NEW R, Routed(t, R), NEW m \in DOMAIN t.msgs, NEW b \in Outs(t),
         Onward(t, R, m, b),
         NEW l \in LinksOf(t, b), NEW d, d = t.link[l].dst[IndexOf(t.link[l].src, b)]
  PROVE  d \in Ins(t) /\ d \in Buffers(t) /\ d \in Range(t.link[l].dst) /\ Onward(t, R, m, d)
<1>1. PICK s : s = t.link[l].src  OBVIOUS
<1>2. l \in DOMAIN t.link /\ b \in Range(s)  BY <1>1 DEF LinksOf
<1>3. s \in Seq(Outs(t)) /\ DOMAIN t.link[l].dst = DOMAIN s /\ Range(t.link[l].dst) \subseteq Ins(t)
  BY <1>1, <1>2 DEF Wired
<1>4. IndexOf(s, b) \in DOMAIN s  BY <1>2, <1>3, IndexOfIn
<1>5. d \in Range(t.link[l].dst)  BY <1>1, <1>3, <1>4 DEF Range
<1>6. PICK n : n = NodeOf(t, b)  OBVIOUS
<1>7. n \in Nodes(t)  BY <1>6, BuffersOf
<1>8. \A c \in Range(t.link[l].dst) : NodeOf(t, c) \in Way(t, R, m)
  BY <1>6, <1>7 DEF Routed, Onward
<1>9. d \in Ins(t) /\ d \notin Outs(t) /\ d \in Buffers(t)  BY <1>3, <1>5, BuffersOf DEF Wired
<1>10. Onward(t, R, m, d)  BY <1>5, <1>8, <1>9 DEF Onward
<1> QED  BY <1>5, <1>9, <1>10

\* Where bus x takes message m from buffer b
BusEnd(t, R, m, b, x) ==
  t.bus[x].dst[CHOOSE i \in DOMAIN t.bus[x].dst :
    NodeOf(t, t.bus[x].dst[i]) = R[<<NodeOf(t, b), t.msgs[m].dst>>].next]

LEMMA BusTo ==
  ASSUME NEW t, Wired(t), NEW R, Routed(t, R), NEW m \in DOMAIN t.msgs, NEW b \in Outs(t),
         Onward(t, R, m, b),
         NEW x \in BusesOf(t, b), NEW d, d = BusEnd(t, R, m, b, x)
  PROVE  /\ d \in Ins(t) /\ d \in Buffers(t) /\ d \in Range(t.bus[x].dst) /\ Onward(t, R, m, d)
         /\ NodeOf(t, d) = R[<<NodeOf(t, b), t.msgs[m].dst>>].next
<1>1. PICK n : n = NodeOf(t, b)  OBVIOUS
<1>2. n \in Nodes(t)  BY <1>1, BuffersOf
<1>3. PICK k : k = R[<<n, t.msgs[m].dst>>].next  OBVIOUS
<1>4. k \in Way(t, R, m) /\ \E c \in Range(t.bus[x].dst) : NodeOf(t, c) = k
  BY <1>1, <1>2, <1>3 DEF Routed, Onward
<1>5. \E i \in DOMAIN t.bus[x].dst : NodeOf(t, t.bus[x].dst[i]) = k  BY <1>4 DEF Range
<1>6. d \in Range(t.bus[x].dst) /\ NodeOf(t, d) = k
  <2>1. PICK i : i = CHOOSE j \in DOMAIN t.bus[x].dst : NodeOf(t, t.bus[x].dst[j]) = k
    OBVIOUS
  <2>2. i \in DOMAIN t.bus[x].dst /\ NodeOf(t, t.bus[x].dst[i]) = k  BY <1>5, <2>1
  <2>3. d = t.bus[x].dst[i]  BY <1>1, <1>3, <2>1 DEF BusEnd
  <2> QED  BY <2>2, <2>3 DEF Range
<1>7. x \in DOMAIN t.bus  BY DEF BusesOf
<1>8. d \in Ins(t)  BY <1>6, <1>7 DEF Wired
<1>9. d \notin Outs(t) /\ d \in Buffers(t)  BY <1>8, BuffersOf DEF Wired
<1>10. Onward(t, R, m, d)  BY <1>4, <1>6, <1>9 DEF Onward
<1> QED  BY <1>1, <1>3, <1>6, <1>8, <1>9, <1>10

\* A packet is as large as a packet of its message, and as the message at most.
LEMMA Sizes ==
  ASSUME NEW t, Timed(t), NEW m \in DOMAIN t.msgs
  PROVE  /\ PacketSize(t, m) \in Nat \ {0} /\ NumPackets(t, m) \in Nat \ {0}
         /\ PacketSize(t, m) * NumPackets(t, m) \in Nat
         /\ PacketSize(t, m) <= PacketSize(t, m) * NumPackets(t, m)
<1>1. PICK s \in Nat \ {0} : s = t.msgs[m].size  BY DEF Timed
<1>2. PICK k \in Nat \ {0} : k = PacketSize(t, m)  BY <1>1 DEF Timed, PacketSize
<1>3. NumPackets(t, m) = ((s - 1) \div k) + 1  BY <1>1, <1>2 DEF NumPackets
<1>4. s - 1 \in Nat  OBVIOUS
<1>5. PICK q \in Nat : q = (s - 1) \div k  BY <1>4
<1>6. k * (q + 1) = k * q + k /\ k * q \in Nat  OBVIOUS
<1> QED  BY <1>2, <1>3, <1>5, <1>6

\* There is room for a packet at the end of a link,
LEMMA RoomOverLink ==
  ASSUME NEW t, Wired(t), NEW R, Roomy(t, R), t.fixed = 0, NEW m \in DOMAIN t.msgs,
         NEW b \in Outs(t), Onward(t, R, m, b),
         NEW l \in LinksOf(t, b), NEW d \in Range(t.link[l].dst)
  PROVE  PacketSize(t, m) <= t.size[d]
<1>1. PICK n : n = NodeOf(t, b)  OBVIOUS
<1>2. n \in Nodes(t)  BY <1>1, BuffersOf
<1>3. n # t.msgs[m].dst /\ n \in Way(t, R, m) /\ b = R[<<n, t.msgs[m].dst>>].out
  BY <1>1 DEF Onward
<1> QED  BY <1>2, <1>3 DEF Roomy

\* where a bus takes it,
LEMMA RoomOverBus ==
  ASSUME NEW t, Wired(t), NEW R, Roomy(t, R), t.fixed = 0, NEW m \in DOMAIN t.msgs,
         NEW b \in Outs(t), Onward(t, R, m, b),
         NEW x \in BusesOf(t, b), NEW d \in Range(t.bus[x].dst),
         NodeOf(t, d) = R[<<NodeOf(t, b), t.msgs[m].dst>>].next
  PROVE  PacketSize(t, m) <= t.size[d]
<1>1. PICK n : n = NodeOf(t, b)  OBVIOUS
<1>2. n \in Nodes(t)  BY <1>1, BuffersOf
<1>3. n # t.msgs[m].dst /\ n \in Way(t, R, m) /\ b = R[<<n, t.msgs[m].dst>>].out
  BY <1>1 DEF Onward
<1> QED  BY <1>1, <1>2, <1>3 DEF Roomy

\* and beyond a switch, which can be the node where the message started.
LEMMA RoomAhead ==
  ASSUME NEW t, Timed(t), NEW R, Roomy(t, R), t.fixed = 0, NEW m \in DOMAIN t.msgs,
         NEW n \in Nodes(t), n # t.msgs[m].dst, n \in Way(t, R, m),
         NEW b \in Buffers(t), b = R[<<n, t.msgs[m].dst>>].out, Whole(t, R)
  PROVE  PacketSize(t, m) <= t.size[b]
<1>1. CASE n # t.msgs[m].src  BY <1>1 DEF Roomy
<1>2. CASE n = t.msgs[m].src
  <2>1. PICK j \in Nat : j = PacketSize(t, m)  BY Sizes
  <2>2. PICK k \in Nat : k = PacketSize(t, m) * NumPackets(t, m)  BY Sizes
  <2>3. j <= k  BY <2>1, <2>2, Sizes
  <2>4. k <= t.size[b]  BY <1>2, <2>2 DEF Whole
  <2>5. t.size[b] \in Int  BY DEF Timed
  <2> QED  BY ONLY <2>1, <2>3, <2>4, <2>5, k \in Nat
<1> QED  BY <1>1, <1>2

-----------------------------------------------------------------------------
(***************************************************************************)
(* The inductive invariant.                                                *)
(***************************************************************************)
\* The variables that decide about events and packets
TypeOK ==
  /\ net \in Nets /\ table = Table(net)
  /\ Lists(agenda, wakeup, Event(net), Buffers(net))
  /\ buf \in [Buffers(net) -> Seq(Packets(net))]
  /\ readBusy \in [Buffers(net) -> 0 .. MaxDelay]
  /\ writeBusy \in [Buffers(net) -> 0 .. MaxDelay]
  /\ laneBusy \in [Carriers(net) -> 0 .. MaxDelay]
  /\ msg \in [DOMAIN net.msgs -> {"unsent", "trying", "sent", "received"}]

IInv == TypeOK /\ Sound(net, table, Queues(agenda, wakeup), buf, msg)

LEMMA Given ==
  ASSUME TypeOK
  PROVE  Wired(net) /\ Routed(net, table) /\ Roomy(net, table) /\ Timed(net)
BY NetsAssumption DEF TypeOK

LEMMA OfMessage ==
  ASSUME NEW t, NEW p \in Packets(t)
  PROVE  p[1] \in DOMAIN t.msgs
BY DEF Packets

LEMMA NumPacketsType ==
  ASSUME NEW t, Timed(t), NEW m \in DOMAIN t.msgs
  PROVE  NumPackets(t, m) \in Nat
<1>1. PICK s \in Nat \ {0} : s = t.msgs[m].size  BY DEF Timed
<1>2. PICK k \in Nat \ {0} : k = PacketSize(t, m)  BY <1>1 DEF Timed, PacketSize
<1>3. NumPackets(t, m) = ((s - 1) \div k) + 1  BY <1>1, <1>2 DEF NumPackets
<1>4. s - 1 \in Nat  OBVIOUS
<1>5. (s - 1) \div k \in Nat  BY <1>4
<1> QED  BY <1>3, <1>5

\* The packets of a message, in order
LEMMA PacketsInOrder ==
  ASSUME Timed(net), NEW m \in DOMAIN net.msgs
  PROVE  /\ PacketsOf(m) \in Seq(Packets(net))
         /\ \A i, j \in DOMAIN PacketsOf(m) : PacketsOf(m)[i] = PacketsOf(m)[j] => i = j
         /\ Range(PacketsOf(m)) = Cut(net, m)
         /\ DOMAIN PacketsOf(m) = 1 .. NumPackets(net, m)
<1>1. PICK n \in Nat : n = NumPackets(net, m)  BY NumPacketsType
<1>2. PICK s : s = PacketsOf(m)  OBVIOUS
<1>3. s = [i \in 1 .. n |-> <<m, i>>]  BY <1>1, <1>2 DEF PacketsOf
<1>4. \A i \in 1 .. n : <<m, i>> \in Packets(net)  BY <1>1 DEF Packets
<1>5. s \in Seq(Packets(net))  BY <1>3, <1>4
<1>6. \A i, j \in DOMAIN s : s[i] = s[j] => i = j  BY <1>3
<1>7. Range(s) = Cut(net, m)
  <2>1. Range(s) = {<<m, i>> : i \in 1 .. n}  BY <1>3 DEF Range
  <2>2. \A p \in Packets(net) : p[1] = m => \E i \in 1 .. n : p = <<m, i>>
    BY <1>1 DEF Packets
  <2> QED  BY <1>4, <2>1, <2>2 DEF Cut
<1> QED  BY <1>1, <1>2, <1>3, <1>5, <1>6, <1>7

\* Initially there is no event and no packet.
LEMMA InitIInv == Init => IInv
<1> SUFFICES ASSUME Init  PROVE IInv
  OBVIOUS
<1>1. TypeOK
  <2>1. \A V : <<>> \in Seq(V)  OBVIOUS
  <2>2. agenda \in [Days -> Seq(Event(net))]  BY <2>1 DEF Init, Days
  <2>3. /\ buf \in [Buffers(net) -> Seq(Packets(net))]
        /\ wakeup \in [Buffers(net) -> Seq(Event(net))]
    BY <2>1 DEF Init
  <2>4. 0 \in 0 .. MaxDelay  BY DelayAssumption
  <2>5. /\ readBusy \in [Buffers(net) -> 0 .. MaxDelay]
        /\ writeBusy \in [Buffers(net) -> 0 .. MaxDelay]
        /\ laneBusy \in [Carriers(net) -> 0 .. MaxDelay]
    BY <2>4 DEF Init
  <2>6. msg \in [DOMAIN net.msgs -> {"unsent", "trying", "sent", "received"}]  BY DEF Init
  <2>7. net \in Nets /\ table = Table(net)  BY DEF Init
  <2> QED  BY <2>2, <2>3, <2>5, <2>6, <2>7 DEF TypeOK, Lists
<1>2. PICK Q : Q = Queues(agenda, wakeup)  OBVIOUS
<1>3. \A x \in DOMAIN Q : Q[x] = <<>>
  <2>1. \A d \in DOMAIN agenda : agenda[d] = <<>>  BY DEF Init
  <2>2. \A b \in DOMAIN wakeup : wakeup[b] = <<>>  BY DEF Init
  <2> QED  BY <1>2, <2>1, <2>2 DEF Queues
<1>4. \A E : Absent(Q, E)  BY <1>3 DEF Absent
<1>5. \A b \in DOMAIN buf : buf[b] = <<>>  BY DEF Init
<1>6. /\ \A E : Absent(buf, E)
      /\ \A p : \A b \in DOMAIN buf : p \notin Range(buf[b])
  BY <1>5 DEF Absent, Range
<1>7. \A m \in DOMAIN net.msgs : msg[m] = "unsent"  BY DEF Init
<1>8. Sound(net, table, Q, buf, msg)  BY <1>4, <1>6, <1>7 DEF Sound, Carried, Asked
<1> QED  BY <1>1, <1>2, <1>8 DEF IInv

-----------------------------------------------------------------------------
(***************************************************************************)
(* What the steps are made of.                                             *)
(***************************************************************************)
\* The event that is due is taken from the agenda.
LEMMA Pops ==
  ASSUME TypeOK, NEW e, Due(e)
  PROVE  /\ Lists(Popped, wakeup, Event(net), Buffers(net))
         /\ Effect(Queues(agenda, wakeup), Queues(Popped, wakeup), {e}, {})
         /\ ~ Absent(Queues(agenda, wakeup), {e})
         /\ e \in Event(net)
<1>1. Lists(agenda, wakeup, Event(net), Buffers(net)) /\ agenda[1] # <<>> /\ Head(agenda[1]) = e
  BY DEF TypeOK, Due
<1>2. 1 \in Days  BY DelayAssumption DEF Days
<1>3. /\ Lists(Popped, wakeup, Event(net), Buffers(net))
      /\ Effect(Queues(agenda, wakeup), Queues(Popped, wakeup), {Head(agenda[1])}, {})
  <2>1. PICK C : C = Popped  OBVIOUS
  <2>2. C = [agenda EXCEPT ![1] = Tail(@)]  BY <2>1 DEF Popped
  <2>3. /\ Lists(C, wakeup, Event(net), Buffers(net))
        /\ Effect(Queues(agenda, wakeup), Queues(C, wakeup), {Head(agenda[1])}, {})
    BY ONLY <1>1, <1>2, <2>2, PopEffect
  <2> QED  BY <2>1, <2>3
<1>4. agenda[1] \in Seq(Event(net))  BY <1>1, <1>2 DEF Lists
<1>5. 1 \in DOMAIN agenda[1] /\ agenda[1][1] = e /\ e \in Event(net)  BY <1>1, <1>4
<1>6. ~ Absent(Queues(agenda, wakeup), {e})
  <2>1. PICK Q : Q = Queues(agenda, wakeup)  OBVIOUS
  <2>2. Day(1) \in DOMAIN Q /\ agenda[1] = Q[Day(1)]
    BY ONLY <1>1, <1>2, <2>1, AgendaOf
  <2>3. 1 \in DOMAIN Q[Day(1)] /\ Q[Day(1)][1] = e  BY ONLY <1>5, <2>2
  <2> QED  BY <2>1, <2>2, <2>3, Present
<1> QED  BY <1>1, <1>3, <1>5, <1>6

LEMMA Schedules ==
  ASSUME NEW V, NEW B, NEW A, NEW W, Lists(A, W, V, B), NEW d \in 0 .. MaxDelay, NEW e \in V
  PROVE  /\ Lists(Schedule(A, e, d), W, V, B)
         /\ Effect(Queues(A, W), Queues(Schedule(A, e, d), W), {}, {e})
<1>1. d + 1 \in Days  BY DelayAssumption DEF Days
<1>2. PICK C : C = Schedule(A, e, d)  OBVIOUS
<1>3. PICK x \in Days : x = d + 1  BY <1>1
<1>4. C = [A EXCEPT ![x] = Append(@, e)]  BY <1>2, <1>3 DEF Schedule
<1>5. Lists(C, W, V, B) /\ Effect(Queues(A, W), Queues(C, W), {}, {e})
  BY ONLY <1>4, x \in Days, e \in V, Lists(A, W, V, B), ScheduleEffect
<1> QED  BY <1>2, <1>5

\* An event comes back.
LEMMA AgainStep ==
  ASSUME IInv, NEW e, Due(e), NEW d \in 0 .. MaxDelay, Again(e, d),
         laneBusy' \in [Carriers(net) -> 0 .. MaxDelay], UNCHANGED <<config, msg>>
  PROVE  IInv'
<1>1. /\ Lists(Popped, wakeup, Event(net), Buffers(net))
      /\ Effect(Queues(agenda, wakeup), Queues(Popped, wakeup), {e}, {})
      /\ ~ Absent(Queues(agenda, wakeup), {e}) /\ e \in Event(net)
  BY Pops DEF IInv
<1>2. agenda' = Schedule(Popped, e, d) /\ UNCHANGED <<buf, wakeup, readBusy, writeBusy>>
  BY DEF Again
<1>3. /\ Lists(agenda', wakeup, Event(net), Buffers(net))
      /\ Effect(Queues(Popped, wakeup), Queues(agenda', wakeup), {}, {e})
  BY ONLY <1>1, <1>2, d \in 0 .. MaxDelay, Schedules
<1>4. Effect(Queues(agenda, wakeup), Queues(agenda', wakeup), {e}, {e})
  BY ONLY <1>1, <1>3, Effects
<1>5. Kept(Queues(agenda, wakeup), Queues(agenda', wakeup))
  BY ONLY <1>1, <1>4, PutOff
<1>6. Sound(net, table, Queues(agenda', wakeup), buf, msg)
  BY <1>5, KeptSound DEF IInv
<1> QED  BY <1>2, <1>3, <1>6 DEF IInv, TypeOK, config

\* An event waits for a buffer.
LEMMA WaitForStep ==
  ASSUME IInv, NEW e, Due(e), NEW b \in Buffers(net), WaitFor(e, b),
         laneBusy' \in [Carriers(net) -> 0 .. MaxDelay], UNCHANGED <<config, msg>>
  PROVE  IInv'
<1>1. /\ Lists(Popped, wakeup, Event(net), Buffers(net))
      /\ Effect(Queues(agenda, wakeup), Queues(Popped, wakeup), {e}, {})
      /\ ~ Absent(Queues(agenda, wakeup), {e}) /\ e \in Event(net)
  BY Pops DEF IInv
<1>2. /\ agenda' = Popped /\ wakeup' = [wakeup EXCEPT ![b] = Append(@, e)]
      /\ UNCHANGED <<buf, readBusy, writeBusy>>
  BY DEF WaitFor, Wait
<1>3. /\ Lists(agenda', wakeup', Event(net), Buffers(net))
      /\ Effect(Queues(Popped, wakeup), Queues(agenda', wakeup'), {}, {e})
  BY ONLY <1>1, <1>2, b \in Buffers(net), WaitEffect
<1>4. Effect(Queues(agenda, wakeup), Queues(agenda', wakeup'), {e}, {e})
  BY ONLY <1>1, <1>3, Effects
<1>5. Kept(Queues(agenda, wakeup), Queues(agenda', wakeup'))
  BY ONLY <1>1, <1>4, PutOff
<1>6. Sound(net, table, Queues(agenda', wakeup'), buf, msg)
  BY <1>5, KeptSound DEF IInv
<1> QED  BY <1>2, <1>3, <1>6 DEF IInv, TypeOK, config

\* Who waits for buffer b is woken up, when the event that is due has been taken.
LEMMA Wakes ==
  ASSUME TypeOK, NEW e, Due(e), NEW b \in Buffers(net),
         NEW W, W = [wakeup EXCEPT ![b] = <<>>]
  PROVE  /\ Lists(WakeUp(Popped, b), W, Event(net), Buffers(net))
         /\ Effect(Queues(agenda, wakeup), Queues(WakeUp(Popped, b), W), {e}, {})
<1>1. /\ Lists(Popped, wakeup, Event(net), Buffers(net))
      /\ Effect(Queues(agenda, wakeup), Queues(Popped, wakeup), {e}, {})
  BY Pops
<1>2. 1 \in Days  BY DelayAssumption DEF Days
<1>3. PICK A : A = Popped  OBVIOUS
<1>4. PICK C : C = WakeUp(A, b)  OBVIOUS
<1>5. C = With(A, 1, A[1] \o wakeup[b]) /\ W = With(wakeup, b, <<>>)  BY <1>4 DEF WakeUp, With
<1>6. Lists(C, W, Event(net), Buffers(net)) /\ Effect(Queues(A, wakeup), Queues(C, W), {}, {})
  BY ONLY <1>1, <1>2, <1>3, <1>5, b \in Buffers(net), WakeEffect
<1>7. Effect(Queues(agenda, wakeup), Queues(C, W), {e}, {})
  BY ONLY <1>1, <1>3, <1>6, Effects
<1> QED  BY <1>3, <1>4, <1>6, <1>7

\* A packet goes on.
LEMMA TransferStep ==
  ASSUME IInv, net.fixed = 0, NEW p \in Packets(net),
         NEW from \in Buffers(net), NEW to \in Buffers(net), from # to,
         buf[from] # <<>>, Head(buf[from]) = p,
         NEW k \in {"output", "input"}, NEW l \in {"output", "input"}, k # l,
         Due(Ev(k, p)), NEW lat \in 1 .. MaxDelay, Transfer(p, from, to, lat, l),
         laneBusy' \in [Carriers(net) -> 0 .. MaxDelay], UNCHANGED <<config, msg>>,
         Onward(net, table, p[1], to), l = "input" => to \in Ins(net)
  PROVE  IInv'
<1>1. TypeOK /\ Sound(net, table, Queues(agenda, wakeup), buf, msg)  BY DEF IInv
<1>2. /\ buf' = [buf EXCEPT ![from] = Tail(@), ![to] = Append(@, p)]
      /\ wakeup' = [wakeup EXCEPT ![from] = <<>>]
      /\ agenda' = Schedule(WakeUp(Popped, from), Ev(l, p), lat)
      /\ readBusy' = [readBusy EXCEPT ![from] = lat]
      /\ writeBusy' = [writeBusy EXCEPT ![to] = lat]
  BY DEF Transfer
<1>3. ~ Absent(Queues(agenda, wakeup), {Ev(k, p)})  BY ONLY <1>1, Due(Ev(k, p)), Pops
<1>4. /\ Lists(WakeUp(Popped, from), wakeup', Event(net), Buffers(net))
      /\ Effect(Queues(agenda, wakeup), Queues(WakeUp(Popped, from), wakeup'), {Ev(k, p)}, {})
  BY ONLY <1>1, <1>2, Due(Ev(k, p)), from \in Buffers(net), Wakes
<1>5. Ev(l, p) \in Event(net)  BY DEF Event, Ev
<1>6. lat \in 0 .. MaxDelay  OBVIOUS
<1>7. /\ Lists(agenda', wakeup', Event(net), Buffers(net))
      /\ Effect(Queues(WakeUp(Popped, from), wakeup'), Queues(agenda', wakeup'), {}, {Ev(l, p)})
  BY ONLY <1>2, <1>4, <1>5, <1>6, Schedules
<1>8. Effect(Queues(agenda, wakeup), Queues(agenda', wakeup'), {Ev(k, p)}, {Ev(l, p)})
  BY ONLY <1>4, <1>7, Effects
<1>9. buf \in [Buffers(net) -> Seq(Packets(net))]  BY <1>1 DEF TypeOK
<1>10. PICK B : B = buf  OBVIOUS
<1>11. PICK C : C = buf'  OBVIOUS
<1>12. DOMAIN B = Buffers(net) /\ B \in [DOMAIN B -> Seq(Packets(net))]  BY ONLY <1>9, <1>10
<1>13. from \in DOMAIN B /\ to \in DOMAIN B /\ B[from] # <<>> /\ Head(B[from]) = p
  BY <1>10, <1>12
<1>14. C = Passed(B, from, to)  BY ONLY <1>2, <1>10, <1>11, <1>13 DEF Passed
<1>15. /\ C \in [DOMAIN B -> Seq(Packets(net))]
       /\ Effect(B, C, {p}, {p})
       /\ p \in Range(C[to]) /\ Follows(B, C, Packets(net) \ {p})
  BY ONLY <1>12, <1>13, <1>14, from # to, p \in Packets(net), Goes
<1>16. DOMAIN C = DOMAIN B  BY ONLY <1>15
<1>17. Sound(net, table, Queues(agenda, wakeup), B, msg)  BY ONLY <1>1, <1>10
<1>18. Sound(net, table, Queues(agenda', wakeup'), C, msg)
  <2>1. PICK Q : Q = Queues(agenda, wakeup)  OBVIOUS
  <2>2. PICK S : S = Queues(agenda', wakeup')  OBVIOUS
  <2>3. /\ Sound(net, table, Q, B, msg) /\ ~ Absent(Q, {Ev(k, p)})
        /\ Effect(Q, S, {Ev(k, p)}, {Ev(l, p)})
    BY ONLY <1>3, <1>8, <1>17, <2>1, <2>2
  <2>4. Hop(B, C, Packets(net), p, to)  BY ONLY <1>13, <1>15, <1>16 DEF Hop
  <2>5. Sound(net, table, S, C, msg)
    BY ONLY <2>3, <2>4, net.fixed = 0, p \in Packets(net),
            k \in {"output", "input"}, l \in {"output", "input"}, k # l,
            Onward(net, table, p[1], to), l = "input" => to \in Ins(net), TransferSound
  <2> QED  BY ONLY <2>2, <2>5
<1>19. net' = net /\ table' = table /\ msg' = msg  BY DEF config
<1>20. /\ readBusy' \in [Buffers(net) -> 0 .. MaxDelay]
       /\ writeBusy' \in [Buffers(net) -> 0 .. MaxDelay]
  BY ONLY <1>1, <1>2, <1>6 DEF TypeOK
<1>21. TypeOK'
  BY ONLY <1>1, <1>7, <1>11, <1>12, <1>15, <1>19, <1>20,
          laneBusy' \in [Carriers(net) -> 0 .. MaxDelay] DEF TypeOK
<1>22. Sound(net', table', Queues(agenda', wakeup'), buf', msg')
  BY ONLY <1>11, <1>18, <1>19
<1> QED  BY ONLY <1>21, <1>22 DEF IInv

-----------------------------------------------------------------------------
(***************************************************************************)
(* The steps.                                                              *)
(***************************************************************************)
\* Where the packet of the event that is due stands
LEMMA Placed ==
  ASSUME IInv, net.fixed = 0, NEW p \in Packets(net), NEW k \in Kinds, Due(Ev(k, p))
  PROVE  /\ Place(p) \in Buffers(net) /\ p \in Range(buf[Place(p)]) /\ buf[Place(p)] # <<>>
         /\ \A b \in DOMAIN buf : p \in Range(buf[b]) => b = Place(p)
         /\ ~ Absent(Queues(agenda, wakeup), {Ev(k, p)})
         /\ Stands(net, table, Queues(agenda, wakeup), buf, p, Place(p))
<1>1. TypeOK /\ Sound(net, table, Queues(agenda, wakeup), buf, msg)  BY DEF IInv
<1>2. ~ Absent(Queues(agenda, wakeup), {Ev(k, p)})  BY ONLY <1>1, Due(Ev(k, p)), Pops
<1>3. ~ Absent(Queues(agenda, wakeup), Events(p))
  BY ONLY <1>2, k \in Kinds, EventMeets, AbsentPart
<1>4. One(buf, {p})  BY <1>1, <1>3 DEF Sound, Carried
<1>5. \E b \in DOMAIN buf : p \in Range(buf[b])  BY <1>4, SomePlace DEF One
<1>6. PICK b : b = Place(p)  OBVIOUS
<1>7. b \in DOMAIN buf /\ p \in Range(buf[b])  BY <1>5, <1>6 DEF Place
<1>8. \A c \in DOMAIN buf : p \in Range(buf[c]) => c = b  BY <1>4, <1>7, OnePlace
<1>9. DOMAIN buf = Buffers(net)  BY <1>1 DEF TypeOK
<1>10. Stands(net, table, Queues(agenda, wakeup), buf, p, b)  BY ONLY <1>1, <1>7, p \in Packets(net) DEF Sound
<1>11. buf[b] # <<>>  BY <1>7 DEF Range
<1> QED  BY ONLY <1>2, <1>6, <1>7, <1>8, <1>9, <1>10, <1>11

\* With a fixed delay no packet leaves a buffer.
LEMMA NotFixed ==
  ASSUME IInv, NEW p \in Packets(net), NEW k \in {"output", "input"}, Due(Ev(k, p))
  PROVE  net.fixed = 0
<1>1. TypeOK /\ Sound(net, table, Queues(agenda, wakeup), buf, msg)  BY DEF IInv
<1>2. ~ Absent(Queues(agenda, wakeup), {Ev(k, p)})  BY ONLY <1>1, Due(Ev(k, p)), Pops
<1>3. {Ev(k, p)} \subseteq {Ev("output", p), Ev("input", p)}  OBVIOUS
<1>4. ~ Absent(Queues(agenda, wakeup), {Ev("output", p), Ev("input", p)})
  BY ONLY <1>2, <1>3, AbsentPart
<1> QED  BY <1>1, <1>4 DEF Sound, Carried

LEMMA AtDestinationStep ==
  ASSUME IInv, NEW p \in Packets(net), AtDestination(p)
  PROVE  IInv'
<1>1. TypeOK /\ Sound(net, table, Queues(agenda, wakeup), buf, msg)  BY DEF IInv
<1>2. /\ Due(Ev("input", p)) /\ Head(buf[Place(p)]) = p
      /\ agenda' = Schedule(Popped, Ev("receive", p), 0)
      /\ UNCHANGED <<net, table, buf, wakeup, readBusy, writeBusy, laneBusy, msg>>
  BY DEF AtDestination, IsHead, Again, config
<1>3. "input" \in Kinds  BY DEF Kinds
<1>4. net.fixed = 0  BY <1>2, NotFixed
<1>5. \A b \in DOMAIN buf : p \in Range(buf[b]) => Head(buf[b]) = p
  <2>1. \A b \in DOMAIN buf : p \in Range(buf[b]) => b = Place(p)
    BY ONLY IInv, <1>2, <1>3, <1>4, p \in Packets(net), Placed
  <2> QED  BY <1>2, <2>1
<1>6. /\ Lists(Popped, wakeup, Event(net), Buffers(net))
      /\ Effect(Queues(agenda, wakeup), Queues(Popped, wakeup), {Ev("input", p)}, {})
      /\ ~ Absent(Queues(agenda, wakeup), {Ev("input", p)})
  BY ONLY <1>1, <1>2, Pops
<1>7. Ev("receive", p) \in Event(net)  BY DEF Event, Ev
<1>8. 0 \in 0 .. MaxDelay  BY DelayAssumption
<1>9. /\ Lists(agenda', wakeup, Event(net), Buffers(net))
      /\ Effect(Queues(Popped, wakeup), Queues(agenda', wakeup), {}, {Ev("receive", p)})
  BY ONLY <1>2, <1>6, <1>7, <1>8, Schedules
<1>10. Effect(Queues(agenda, wakeup), Queues(agenda', wakeup), {Ev("input", p)}, {Ev("receive", p)})
  BY ONLY <1>6, <1>9, Effects
<1>11. Sound(net, table, Queues(agenda', wakeup), buf, msg)
  BY ONLY <1>1, <1>4, <1>5, <1>6, <1>10, p \in Packets(net), ArrivesSound
<1> QED  BY ONLY <1>1, <1>2, <1>9, <1>11 DEF IInv, TypeOK

LEMMA ReceivedStep ==
  ASSUME IInv, NEW m \in DOMAIN net.msgs, Received(m)
  PROVE  IInv'
<1>1. TypeOK /\ Sound(net, table, Queues(agenda, wakeup), buf, msg)  BY DEF IInv
<1>2. /\ Due(Ev("received", m)) /\ agenda' = Popped
      /\ msg' = [msg EXCEPT ![m] = "received"]
      /\ UNCHANGED <<net, table, buf, wakeup, readBusy, writeBusy, laneBusy>>
  BY DEF Received, config, clocks
<1>3. /\ Lists(agenda', wakeup, Event(net), Buffers(net))
      /\ Effect(Queues(agenda, wakeup), Queues(agenda', wakeup), {Ev("received", m)}, {})
      /\ ~ Absent(Queues(agenda, wakeup), {Ev("received", m)})
  BY ONLY <1>1, <1>2, Pops
<1>4. msg \in [DOMAIN net.msgs -> {"unsent", "trying", "sent", "received"}]  BY <1>1 DEF TypeOK
<1>5. \A p \in Packets(net) : p[1] \in DOMAIN net.msgs  BY OfMessage
<1>6. PICK N : N = msg'  OBVIOUS
<1>7. N = [msg EXCEPT ![m] = "received"]  BY <1>2, <1>6
<1>8. Sound(net, table, Queues(agenda', wakeup), buf, N)
  BY ONLY <1>1, <1>3, <1>4, <1>5, <1>7, m \in DOMAIN net.msgs, ReceivedSound
<1>9. N \in [DOMAIN net.msgs -> {"unsent", "trying", "sent", "received"}]  BY <1>4, <1>7
<1> QED  BY ONLY <1>1, <1>2, <1>3, <1>6, <1>8, <1>9 DEF IInv, TypeOK

\* The event of the receiver is scheduled, or not.
LEMMA Closes ==
  ASSUME TypeOK, NEW A, NEW W, Lists(A, W, Event(net), Buffers(net)), NEW m \in DOMAIN net.msgs,
         NEW done, NEW Z, Z = IF done THEN Schedule(A, Ev("received", m), 0) ELSE A
  PROVE  \E F \in {{}, {Ev("received", m)}} :
           Lists(Z, W, Event(net), Buffers(net)) /\ Effect(Queues(A, W), Queues(Z, W), {}, F)
<1>1. Ev("received", m) \in Event(net)  BY DEF Event, Ev
<1>2. 0 \in 0 .. MaxDelay  BY DelayAssumption
<1>3. CASE done
  <2>1. Z = Schedule(A, Ev("received", m), 0)  BY <1>3
  <2>2. /\ Lists(Z, W, Event(net), Buffers(net))
        /\ Effect(Queues(A, W), Queues(Z, W), {}, {Ev("received", m)})
    BY ONLY <1>1, <1>2, <2>1, Lists(A, W, Event(net), Buffers(net)), Schedules
  <2> QED  BY ONLY <2>2
<1>4. CASE ~ done
  <2>1. Z = A  BY <1>4
  <2> QED  BY ONLY <2>1, Lists(A, W, Event(net), Buffers(net)), SameEffect
<1> QED  BY <1>3, <1>4

\* The packet p at the head of buffer b is taken away.
LEMMA Takes ==
  ASSUME NEW V, NEW B, B \in [DOMAIN B -> Seq(V)], NEW b \in DOMAIN B, B[b] # <<>>,
         NEW p, Head(B[b]) = p, \A c \in DOMAIN B : p \in Range(B[c]) => c = b,
         NEW C, C = [B EXCEPT ![b] = Tail(@)]
  PROVE  /\ C \in [DOMAIN B -> Seq(V)] /\ DOMAIN C = DOMAIN B
         /\ Effect(B, C, {p}, {}) /\ Follows(B, C, V \ {p})
<1>1. /\ C \in [DOMAIN B -> Seq(V)]
      /\ Effect(B, C, {p}, {})
      /\ \A c \in DOMAIN B : c # b => C[c] = B[c]
  BY ONLY B \in [DOMAIN B -> Seq(V)], b \in DOMAIN B, B[b] # <<>>, Head(B[b]) = p,
          C = [B EXCEPT ![b] = Tail(@)], Leaves
<1>2. C[b] = Tail(B[b]) /\ B[b] \in Seq(V)  OBVIOUS
<1>3. Range(C[b]) \subseteq Range(B[b])  BY ONLY <1>2, B[b] # <<>>, TailRange
<1>4. Follows(B, C, V \ {p})  BY ONLY <1>1, <1>3, Head(B[b]) = p DEF Follows
<1> QED  BY ONLY <1>1, <1>4

LEMMA ReceiveStep ==
  ASSUME IInv, NEW p \in Packets(net), Receive(p)
  PROVE  IInv'
<1> DEFINE m == p[1]
           done == arrived[m] + 1 = NumPackets(net, m)
<1>1. TypeOK /\ Sound(net, table, Queues(agenda, wakeup), buf, msg)  BY DEF IInv
<1>2. PICK A : A = IF net.fixed > 0 THEN Popped ELSE WakeUp(Popped, Place(p))  OBVIOUS
<1>3. /\ Due(Ev("receive", p))
      /\ agenda' = IF done THEN Schedule(A, Ev("received", m), 0) ELSE A
      /\ UNCHANGED <<net, table, readBusy, writeBusy, laneBusy, msg>>
  BY <1>2 DEF Receive, config
<1>4. m \in DOMAIN net.msgs  BY OfMessage
<1> HIDE DEF m, done
<1>5. /\ Lists(Popped, wakeup, Event(net), Buffers(net))
      /\ Effect(Queues(agenda, wakeup), Queues(Popped, wakeup), {Ev("receive", p)}, {})
      /\ ~ Absent(Queues(agenda, wakeup), {Ev("receive", p)})
  BY ONLY <1>1, <1>3, Pops
<1>6. PICK C : C = buf'  OBVIOUS
<1>7. "receive" \in Kinds  BY DEF Kinds
<1>8. net.fixed \in Nat  BY <1>1, Given, DelayAssumption DEF Timed
<1>9. buf \in [DOMAIN buf -> Seq(Packets(net))] /\ DOMAIN buf = Buffers(net)  BY <1>1 DEF TypeOK
<1>10. /\ C \in [DOMAIN buf -> Seq(Packets(net))] /\ DOMAIN C = DOMAIN buf
       /\ IF net.fixed = 0
            THEN Effect(buf, C, {p}, {}) /\ Follows(buf, C, Packets(net) \ {p})
            ELSE C = buf
       /\ Lists(A, wakeup', Event(net), Buffers(net))
       /\ Effect(Queues(agenda, wakeup), Queues(A, wakeup'), {Ev("receive", p)}, {})
  <2>1. CASE net.fixed # 0
    <3>1. net.fixed > 0  BY <1>8, <2>1
    <3>2. C = buf /\ wakeup' = wakeup /\ A = Popped  BY <1>2, <1>6, <3>1 DEF Receive
    <3> QED  BY ONLY <1>5, <1>9, <2>1, <3>2
  <2>2. CASE net.fixed = 0
    <3>1. PICK b : b = Place(p)  OBVIOUS
    <3>2. /\ b \in Buffers(net) /\ p \in Range(buf[b]) /\ buf[b] # <<>>
          /\ \A c \in DOMAIN buf : p \in Range(buf[c]) => c = b
          /\ Stands(net, table, Queues(agenda, wakeup), buf, p, b)
      BY ONLY IInv, <1>3, <1>7, <2>2, <3>1, p \in Packets(net), Placed
    <3>3. Head(buf[b]) = p  BY ONLY <1>5, <3>2 DEF Stands
    <3>4. ~(net.fixed > 0)  BY <2>2
    <3>5. /\ C = [buf EXCEPT ![b] = Tail(@)] /\ wakeup' = [wakeup EXCEPT ![b] = <<>>]
          /\ A = WakeUp(Popped, b)
      BY <1>2, <1>6, <3>1, <3>4 DEF Receive
    <3>6. /\ Lists(A, wakeup', Event(net), Buffers(net))
          /\ Effect(Queues(agenda, wakeup), Queues(A, wakeup'), {Ev("receive", p)}, {})
      BY ONLY <1>1, <1>3, <3>2, <3>5, Wakes
    <3>7. /\ C \in [DOMAIN buf -> Seq(Packets(net))] /\ DOMAIN C = DOMAIN buf
          /\ Effect(buf, C, {p}, {}) /\ Follows(buf, C, Packets(net) \ {p})
      BY ONLY <1>9, <3>2, <3>3, <3>5, Takes
    <3> QED  BY ONLY <2>2, <3>6, <3>7
  <2> QED  BY <2>1, <2>2
<1>11. PICK F \in {{}, {Ev("received", m)}} :
         /\ Lists(agenda', wakeup', Event(net), Buffers(net))
         /\ Effect(Queues(A, wakeup'), Queues(agenda', wakeup'), {}, F)
  BY ONLY <1>1, <1>3, <1>4, <1>10, Closes
<1>12. Effect(Queues(agenda, wakeup), Queues(agenda', wakeup'), {Ev("receive", p)}, F)
  BY ONLY <1>10, <1>11, Effects
<1>13. Sound(net, table, Queues(agenda', wakeup'), C, msg)
  <2>1. PICK Q : Q = Queues(agenda, wakeup)  OBVIOUS
  <2>2. PICK S : S = Queues(agenda', wakeup')  OBVIOUS
  <2>3. /\ Sound(net, table, Q, buf, msg) /\ ~ Absent(Q, {Ev("receive", p)})
        /\ Effect(Q, S, {Ev("receive", p)}, F) /\ F \in {{}, {Ev("received", p[1])}}
    BY ONLY <1>1, <1>5, <1>12, <2>1, <2>2, F \in {{}, {Ev("received", m)}} DEF m
  <2>4. p[1] \in DOMAIN net.msgs /\ p \in Packets(net)  BY <1>4 DEF m
  <2>5. Gone(net, buf, C, p)  BY ONLY <1>10 DEF Gone
  <2>6. Sound(net, table, S, C, msg)  BY ONLY <2>3, <2>4, <2>5, TakenSound
  <2> QED  BY ONLY <2>2, <2>6
<1> QED  BY ONLY <1>1, <1>3, <1>6, <1>9, <1>10, <1>11, <1>13 DEF IInv, TypeOK

LEMMA StalledStep ==
  ASSUME IInv, NEW p \in Packets(net), Stalled(p)
  PROVE  IInv'
<1>1. PICK k \in {"output", "input"} : NotHead(p, k) \/ BufferBusy(p, k)  BY DEF Stalled
<1>2. k \in Kinds  BY DEF Kinds
<1>3. Due(Ev(k, p)) /\ UNCHANGED <<config, laneBusy, msg>>
  BY <1>1 DEF NotHead, BufferBusy
<1>4. net.fixed = 0  BY ONLY IInv, <1>3, p \in Packets(net), NotFixed
<1>5. PICK b : b = Place(p)  OBVIOUS
<1>6. b \in Buffers(net)  BY ONLY IInv, <1>2, <1>3, <1>4, <1>5, p \in Packets(net), Placed
<1>7. readBusy[b] \in 0 .. MaxDelay  BY <1>6 DEF IInv, TypeOK
<1>8. laneBusy' \in [Carriers(net) -> 0 .. MaxDelay] /\ UNCHANGED <<config, msg>>
  BY <1>3 DEF IInv, TypeOK
<1>9. CASE NotHead(p, k)
  <2>1. WaitFor(Ev(k, p), b)  BY <1>5, <1>9 DEF NotHead
  <2> QED  BY ONLY IInv, <1>3, <1>6, <1>8, <2>1, WaitForStep
<1>10. CASE BufferBusy(p, k)
  <2>1. Again(Ev(k, p), readBusy[b])  BY <1>5, <1>10 DEF BufferBusy
  <2>2. PICK d : d = readBusy[b]  OBVIOUS
  <2>3. Again(Ev(k, p), d) /\ d \in 0 .. MaxDelay  BY ONLY <1>7, <2>1, <2>2
  <2> QED  BY ONLY IInv, <1>3, <1>8, <2>3, AgainStep
<1> QED  BY <1>1, <1>9, <1>10

\* An event of packet p that comes back, waits for buffer to, or takes the packet there
Moves(p, k, l, from, to) ==
  \/ \E d \in 0 .. MaxDelay : Again(Ev(k, p), d)
  \/ WaitFor(Ev(k, p), to) /\ ~ Fits(to, PacketSize(net, p[1]))
  \/ \E lat \in 1 .. MaxDelay : Transfer(p, from, to, lat, l)

LEMMA MovesStep ==
  ASSUME IInv, NEW p \in Packets(net), NEW from \in Buffers(net), NEW to \in Buffers(net),
         from # to, from = Place(p), IsHead(p, from),
         NEW k \in {"output", "input"}, NEW l \in {"output", "input"}, k # l,
         Due(Ev(k, p)), Moves(p, k, l, from, to),
         laneBusy' \in [Carriers(net) -> 0 .. MaxDelay], UNCHANGED <<config, msg>>,
         Onward(net, table, p[1], to), l = "input" => to \in Ins(net)
  PROVE  IInv'
<1>1. k \in Kinds  BY DEF Kinds
<1>2. net.fixed = 0
  BY ONLY IInv, k \in {"output", "input"}, Due(Ev(k, p)), p \in Packets(net), NotFixed
<1>3. buf[from] # <<>> /\ Head(buf[from]) = p
  <2>1. buf[Place(p)] # <<>>
    BY ONLY IInv, <1>1, <1>2, Due(Ev(k, p)), p \in Packets(net), Placed
  <2> QED  BY ONLY <2>1, from = Place(p), IsHead(p, from) DEF IsHead
<1>4. laneBusy' \in [Carriers(net) -> 0 .. MaxDelay] /\ UNCHANGED <<config, msg>>  OBVIOUS
<1>5. ASSUME NEW d \in 0 .. MaxDelay, Again(Ev(k, p), d)  PROVE IInv'
  BY ONLY IInv, <1>4, <1>5, Due(Ev(k, p)), AgainStep
<1>6. CASE WaitFor(Ev(k, p), to)
  BY ONLY IInv, <1>4, <1>6, Due(Ev(k, p)), to \in Buffers(net), WaitForStep
<1>7. ASSUME NEW lat \in 1 .. MaxDelay, Transfer(p, from, to, lat, l)  PROVE IInv'
  BY ONLY IInv, <1>2, <1>3, <1>4, <1>7, p \in Packets(net), from \in Buffers(net),
          to \in Buffers(net), from # to, k \in {"output", "input"}, l \in {"output", "input"},
          k # l, Due(Ev(k, p)), Onward(net, table, p[1], to), l = "input" => to \in Ins(net),
          TransferStep
<1> QED  BY ONLY <1>5, <1>6, <1>7, Moves(p, k, l, from, to) DEF Moves

\* Packet p is handled at the head of buffer from, on its way to buffer to.
Going(p, from, to) ==
  \E k, l \in {"output", "input"} :
    /\ from \in Buffers(net) /\ to \in Buffers(net) /\ from # to /\ k # l
    /\ from = Place(p) /\ IsHead(p, from)
    /\ Due(Ev(k, p)) /\ Moves(p, k, l, from, to)
    /\ laneBusy' \in [Carriers(net) -> 0 .. MaxDelay] /\ UNCHANGED <<config, msg>>
    /\ Onward(net, table, p[1], to) /\ (l = "input" => to \in Ins(net))
    /\ Whole(net, table) => PacketSize(net, p[1]) <= net.size[to]

LEMMA GoingStep ==
  ASSUME IInv, NEW p \in Packets(net), NEW from, NEW to, Going(p, from, to)
  PROVE  IInv'
<1> PICK k \in {"output", "input"}, l \in {"output", "input"} :
      /\ from \in Buffers(net) /\ to \in Buffers(net) /\ from # to /\ k # l
      /\ from = Place(p) /\ IsHead(p, from)
      /\ Due(Ev(k, p)) /\ Moves(p, k, l, from, to)
      /\ laneBusy' \in [Carriers(net) -> 0 .. MaxDelay] /\ UNCHANGED <<config, msg>>
      /\ Onward(net, table, p[1], to) /\ (l = "input" => to \in Ins(net))
  BY ONLY Going(p, from, to) DEF Going
<1> QED  BY MovesStep

\* The delays of a network
LEMMA Delays ==
  ASSUME TypeOK
  PROVE  /\ 0 \in 0 .. MaxDelay /\ 1 \in 0 .. MaxDelay
         /\ \A b \in Buffers(net) : readBusy[b] \in 0 .. MaxDelay /\ writeBusy[b] \in 0 .. MaxDelay
         /\ \A l \in Carriers(net) : laneBusy[l] \in 0 .. MaxDelay
BY DelayAssumption DEF TypeOK

\* Packet p goes on over link l, or comes back.
Crosses(p, b, l) ==
  LET e   == Ev("output", p)
      dst == net.link[l].dst[IndexOf(net.link[l].src, b)]
      lat == Latency(p, net.link[l].bandwidth)
  IN  /\ Leaving(p, b) /\ UNCHANGED <<config, msg>>
      /\ \/ Again(e, laneBusy[l]) /\ UNCHANGED laneBusy
         \/ Again(e, 1) /\ UNCHANGED laneBusy
         \/ Again(e, writeBusy[dst]) /\ UNCHANGED laneBusy
         \/ /\ WaitFor(e, dst) /\ ~ Fits(dst, PacketSize(net, p[1]))
            /\ UNCHANGED laneBusy
         \/ Transfer(p, b, dst, lat, "input") /\ laneBusy' = [laneBusy EXCEPT ![l] = lat]

LEMMA OverLinkGoes ==
  ASSUME IInv, NEW p \in Packets(net), OverLink(p)
  PROVE  \E from, to : Going(p, from, to)
<1>1. TypeOK /\ Wired(net) /\ Routed(net, table) /\ Roomy(net, table) /\ Timed(net)
  BY Given DEF IInv
<1>2. \E b \in Outs(net) : \E l \in LinksOf(net, b) : Crosses(p, b, l)  BY DEF OverLink, Crosses
<1> PICK b \in Outs(net) : \E l \in LinksOf(net, b) : Crosses(p, b, l)  BY ONLY <1>2
<1> PICK l \in LinksOf(net, b) : Crosses(p, b, l)  OBVIOUS
<1>3. PICK dst : dst = net.link[l].dst[IndexOf(net.link[l].src, b)]  OBVIOUS
<1>4. PICK lat : lat = Latency(p, net.link[l].bandwidth)  OBVIOUS
<1>5. Due(Ev("output", p)) /\ b = Place(p) /\ IsHead(p, b)  BY DEF Crosses, Leaving
<1>6. "output" \in Kinds /\ "output" \in {"output", "input"}  BY DEF Kinds
<1>7. net.fixed = 0  BY ONLY IInv, <1>5, <1>6, p \in Packets(net), NotFixed
<1>8. Onward(net, table, p[1], b)
  BY ONLY IInv, <1>5, <1>6, <1>7, p \in Packets(net), Placed DEF Stands
<1>9. p[1] \in DOMAIN net.msgs  BY OfMessage
<1>10. /\ dst \in Ins(net) /\ dst \in Buffers(net) /\ dst \in Range(net.link[l].dst)
       /\ Onward(net, table, p[1], dst)
  BY ONLY <1>1, <1>3, <1>8, <1>9, b \in Outs(net), l \in LinksOf(net, b), LinkTo
<1>11. b \in Buffers(net) /\ b # dst
  BY ONLY <1>1, <1>10, b \in Outs(net), BuffersOf DEF Wired
<1>12. l \in Carriers(net) /\ l \in DOMAIN net.link  BY DEF LinksOf, Carriers
<1>13. lat \in 1 .. MaxDelay  BY ONLY <1>1, <1>4, <1>9, <1>12 DEF Timed, Latency
<1>14. Moves(p, "output", "input", b, dst)
  BY ONLY <1>1, <1>3, <1>4, <1>10, <1>12, <1>13, Crosses(p, b, l), Delays DEF Moves, Crosses
<1>15. laneBusy' \in [Carriers(net) -> 0 .. MaxDelay]
  BY ONLY <1>1, <1>4, <1>13, Crosses(p, b, l) DEF TypeOK, Crosses
<1>16. UNCHANGED <<config, msg>>  BY DEF Crosses
<1>17. PacketSize(net, p[1]) <= net.size[dst]
  BY ONLY <1>1, <1>7, <1>8, <1>9, <1>10, b \in Outs(net), l \in LinksOf(net, b), RoomOverLink
<1>18. Going(p, b, dst)
  BY ONLY <1>5, <1>10, <1>11, <1>14, <1>15, <1>16, <1>17 DEF Going
<1> QED  BY <1>18

\* Packet p goes on over bus n, on lane w, or comes back.
Rides(p, b, n, w) ==
  LET e   == Ev("output", p)
      dst == BusDestination(p, b, n)
      lat == Latency(p, net.bus[n].bandwidth)
               + (IF net.bus[n].photonic THEN 0 ELSE net.bus[n].delay)
  IN  /\ Leaving(p, b) /\ UNCHANGED <<config, msg>>
      /\ \/ Again(e, writeBusy[dst]) /\ UNCHANGED laneBusy
         \/ Again(e, 1) /\ UNCHANGED laneBusy
         \/ /\ WaitFor(e, dst) /\ ~ Fits(dst, PacketSize(net, p[1]))
            /\ UNCHANGED laneBusy
         \/ Transfer(p, b, dst, lat, "input") /\ laneBusy' = [laneBusy EXCEPT ![<<n, w>>] = lat]

LEMMA OverBusGoes ==
  ASSUME IInv, NEW p \in Packets(net), OverBus(p)
  PROVE  \E from, to : Going(p, from, to)
<1>1. TypeOK /\ Wired(net) /\ Routed(net, table) /\ Roomy(net, table) /\ Timed(net)
  BY Given DEF IInv
<1>2. \E b \in Outs(net) : \E n \in BusesOf(net, b) : \E w : Rides(p, b, n, w)
  <2>1. PICK b \in Outs(net) : \E n \in BusesOf(net, b) :
          Rides(p, b, n, BusArbitration(n, b).won)
    BY DEF OverBus, Rides
  <2> QED  BY <2>1
<1> PICK b \in Outs(net) : \E n \in BusesOf(net, b) : \E w : Rides(p, b, n, w)  BY ONLY <1>2
<1> PICK n \in BusesOf(net, b) : \E w : Rides(p, b, n, w)  OBVIOUS
<1> PICK w : Rides(p, b, n, w)  OBVIOUS
<1>3. PICK dst : dst = BusDestination(p, b, n)  OBVIOUS
<1>4. PICK lat : lat = Latency(p, net.bus[n].bandwidth)
                         + (IF net.bus[n].photonic THEN 0 ELSE net.bus[n].delay)
  OBVIOUS
<1>5. Due(Ev("output", p)) /\ b = Place(p) /\ IsHead(p, b)  BY DEF Rides, Leaving
<1>6. "output" \in Kinds /\ "output" \in {"output", "input"}  BY DEF Kinds
<1>7. net.fixed = 0  BY ONLY IInv, <1>5, <1>6, p \in Packets(net), NotFixed
<1>8. Onward(net, table, p[1], b)
  BY ONLY IInv, <1>5, <1>6, <1>7, p \in Packets(net), Placed DEF Stands
<1>9. p[1] \in DOMAIN net.msgs  BY OfMessage
<1>10. /\ dst \in Ins(net) /\ dst \in Buffers(net) /\ dst \in Range(net.bus[n].dst)
       /\ Onward(net, table, p[1], dst)
       /\ NodeOf(net, dst) = table[<<NodeOf(net, b), net.msgs[p[1]].dst>>].next
  <2>1. dst = BusEnd(net, table, p[1], b, n)  BY <1>3 DEF BusDestination, Route, BusEnd
  <2> QED  BY ONLY <1>1, <1>8, <1>9, <2>1, b \in Outs(net), n \in BusesOf(net, b), BusTo
<1>11. b \in Buffers(net) /\ b # dst
  BY ONLY <1>1, <1>10, b \in Outs(net), BuffersOf DEF Wired
<1>12. n \in DOMAIN net.bus  BY DEF BusesOf
<1>13. lat \in 1 .. MaxDelay  BY ONLY <1>1, <1>4, <1>9, <1>12 DEF Timed, Latency
<1>14. Moves(p, "output", "input", b, dst)
  BY ONLY <1>1, <1>3, <1>4, <1>10, <1>13, Rides(p, b, n, w), Delays DEF Moves, Rides
<1>15. laneBusy' \in [Carriers(net) -> 0 .. MaxDelay]
  <2>1. laneBusy' = laneBusy \/ laneBusy' = [laneBusy EXCEPT ![<<n, w>>] = lat]
    BY ONLY <1>4, Rides(p, b, n, w) DEF Rides
  <2>2. PICK x : x = <<n, w>>  OBVIOUS
  <2>3. laneBusy' = laneBusy \/ laneBusy' = [laneBusy EXCEPT ![x] = lat]  BY ONLY <2>1, <2>2
  <2>4. laneBusy \in [Carriers(net) -> 0 .. MaxDelay]  BY <1>1 DEF TypeOK
  <2>5. lat \in 0 .. MaxDelay  BY ONLY <1>13
  <2> QED  BY ONLY <2>3, <2>4, <2>5
<1>16. UNCHANGED <<config, msg>>  BY DEF Rides
<1>17. PacketSize(net, p[1]) <= net.size[dst]
  BY ONLY <1>1, <1>7, <1>8, <1>9, <1>10, b \in Outs(net), n \in BusesOf(net, b), RoomOverBus
<1>18. Going(p, b, dst)
  BY ONLY <1>5, <1>10, <1>11, <1>14, <1>15, <1>16, <1>17 DEF Going
<1> QED  BY <1>18

LEMMA ThroughSwitchGoes ==
  ASSUME IInv, NEW p \in Packets(net), ThroughSwitch(p)
  PROVE  \E from, to : Going(p, from, to)
<1>1. TypeOK /\ Wired(net) /\ Routed(net, table) /\ Roomy(net, table) /\ Timed(net)
  BY Given DEF IInv
<1>2. PICK b : b = Place(p)  OBVIOUS
<1>3. PICK n : n = NodeOf(net, b)  OBVIOUS
<1>4. PICK out : out = table[<<n, net.msgs[p[1]].dst>>].out  OBVIOUS
<1>5. PICK lat : lat = Latency(p, net.bandwidth[n])  OBVIOUS
<1>6. Due(Ev("input", p)) /\ IsHead(p, b) /\ n # net.msgs[p[1]].dst
  BY <1>2, <1>3 DEF ThroughSwitch
<1>7. /\ UNCHANGED <<config, laneBusy, msg>>
      /\ \/ Again(Ev("input", p), writeBusy[out])
         \/ Again(Ev("input", p), 1)
         \/ WaitFor(Ev("input", p), out) /\ ~ Fits(out, PacketSize(net, p[1]))
         \/ Transfer(p, b, out, lat, "output")
  BY <1>2, <1>3, <1>4, <1>5 DEF ThroughSwitch, Route
<1>8. "input" \in Kinds /\ "input" \in {"output", "input"} /\ "output" \in {"output", "input"}
  BY DEF Kinds
<1>9. net.fixed = 0  BY ONLY IInv, <1>6, <1>8, p \in Packets(net), NotFixed
<1>10. b \in Buffers(net) /\ Onward(net, table, p[1], b) /\ b \in Ins(net)
  BY ONLY IInv, <1>2, <1>6, <1>8, <1>9, p \in Packets(net), Placed DEF Stands
<1>11. p[1] \in DOMAIN net.msgs  BY OfMessage
<1>12. n \in Nodes(net) /\ n \in Way(net, table, p[1])
  BY ONLY <1>1, <1>3, <1>10, BuffersOf DEF Onward
<1>13. out \in Outs(net) /\ out \in Buffers(net) /\ Onward(net, table, p[1], out)
  BY ONLY <1>1, <1>4, <1>6, <1>11, <1>12, RouteOut
<1>14. b # out  BY <1>1, <1>10, <1>13 DEF Wired
<1>15. lat \in 1 .. MaxDelay  BY ONLY <1>1, <1>5, <1>11, <1>12 DEF Timed, Latency
<1>16. Moves(p, "input", "output", b, out)
  BY ONLY <1>1, <1>7, <1>13, <1>15, Delays DEF Moves
<1>17. laneBusy' \in [Carriers(net) -> 0 .. MaxDelay] /\ UNCHANGED <<config, msg>>
  BY ONLY <1>1, <1>7 DEF TypeOK
<1>18. Whole(net, table) => PacketSize(net, p[1]) <= net.size[out]
  BY ONLY <1>1, <1>4, <1>6, <1>9, <1>11, <1>12, <1>13, RoomAhead
<1>19. ~("output" = "input")  OBVIOUS
<1>20. Going(p, b, out)
  BY ONLY <1>2, <1>6, <1>8, <1>10, <1>13, <1>14, <1>16, <1>17, <1>18, <1>19 DEF Going
<1> QED  BY <1>20

\* The packets of a message start, each with its event.
LEMMA Starts ==
  ASSUME TypeOK, NEW m \in DOMAIN net.msgs, NEW k \in Kinds, NEW A, NEW W,
         Lists(A, W, Event(net), Buffers(net)), NEW d \in 0 .. MaxDelay, NEW C,
         C = Start(A, k, m, d)
  PROVE  /\ Lists(C, W, Event(net), Buffers(net))
         /\ Effect(Queues(A, W), Queues(C, W), {}, Bring(k, Cut(net, m)))
<1>1. Timed(net)  BY Given
<1>2. PICK s : s = PacketsOf(m)  OBVIOUS
<1>3. PICK n \in Nat : n = NumPackets(net, m)  BY <1>1, NumPacketsType
<1>4. /\ s \in Seq(Packets(net)) /\ \A i, j \in DOMAIN s : s[i] = s[j] => i = j
      /\ Range(s) = Cut(net, m) /\ DOMAIN s = 1 .. n
  BY ONLY <1>1, <1>2, <1>3, m \in DOMAIN net.msgs, PacketsInOrder
<1>5. PICK S : S = [i \in 1 .. n |-> Ev(k, s[i])]  OBVIOUS
<1>6. \A i \in 1 .. n : S[i] = Ev(k, s[i]) /\ s[i] \in Packets(net)  BY <1>4, <1>5
<1>7. S \in Seq(Event(net))
  <2>1. \A i \in 1 .. n : Ev(k, s[i]) \in Event(net)  BY <1>6 DEF Ev, Event, Kinds
  <2> QED  BY ONLY <1>5, <2>1, n \in Nat
<1>8. DOMAIN S = 1 .. n  BY <1>5
<1>9. \A i, j \in DOMAIN S : S[i] = S[j] => i = j
  <2> TAKE i, j \in DOMAIN S
  <2> HAVE S[i] = S[j]
  <2>1. s[i] = s[j]  BY <1>6, <1>8, EvDiffer
  <2> QED  BY <1>4, <1>8, <2>1
<1>10. Range(S) = Bring(k, Cut(net, m))
  <2>1. Range(S) = {Ev(k, s[i]) : i \in 1 .. n}  BY ONLY <1>6, <1>8 DEF Range
  <2>2. Range(s) = {s[i] : i \in 1 .. n}  BY ONLY <1>4 DEF Range
  <2> QED  BY ONLY <1>4, <2>1, <2>2 DEF Bring
<1>11. PICK x \in Days : x = d + 1  BY DelayAssumption DEF Days
<1>12. C = [A EXCEPT ![x] = @ \o S]  BY <1>2, <1>4, <1>5, <1>11 DEF Start
<1>13. Lists(C, W, Event(net), Buffers(net)) /\ Effect(Queues(A, W), Queues(C, W), {}, Range(S))
  BY ONLY <1>7, <1>9, <1>12, x \in Days, Lists(A, W, Event(net), Buffers(net)), StartEffect
<1> QED  BY ONLY <1>10, <1>13

\* The first buffer of a message
LEMMA FirstBuffer ==
  ASSUME TypeOK, NEW m \in DOMAIN net.msgs, NEW out, out = Route(net.msgs[m].src, m).out
  PROVE  out \in Buffers(net) /\ Onward(net, table, m, out)
<1>1. Wired(net) /\ Routed(net, table)  BY Given
<1>2. PICK n : n = net.msgs[m].src  OBVIOUS
<1>3. n \in Nodes(net) /\ n # net.msgs[m].dst /\ n \in Way(net, table, m)
  BY ONLY <1>1, <1>2, m \in DOMAIN net.msgs DEF Routed
<1>4. out = table[<<n, net.msgs[m].dst>>].out  BY <1>2 DEF Route
<1> QED  BY ONLY <1>1, <1>3, <1>4, m \in DOMAIN net.msgs, RouteOut

\* The packets of a message come into buffer out.
LEMMA Fills ==
  ASSUME TypeOK, NEW m \in DOMAIN net.msgs, NEW out \in Buffers(net),
         NEW C, C = [buf EXCEPT ![out] = @ \o PacketsOf(m)]
  PROVE  /\ C \in [Buffers(net) -> Seq(Packets(net))] /\ DOMAIN C = DOMAIN buf
         /\ Effect(buf, C, {}, Cut(net, m)) /\ Cut(net, m) \subseteq Range(C[out])
         /\ Follows(buf, C, Packets(net) \ Cut(net, m))
<1>1. Timed(net)  BY Given
<1>2. PICK s : s = PacketsOf(m)  OBVIOUS
<1>3. /\ s \in Seq(Packets(net)) /\ \A i, j \in DOMAIN s : s[i] = s[j] => i = j
      /\ Range(s) = Cut(net, m)
  BY ONLY <1>1, <1>2, m \in DOMAIN net.msgs, PacketsInOrder
<1>4. buf \in [DOMAIN buf -> Seq(Packets(net))] /\ DOMAIN buf = Buffers(net)  BY DEF TypeOK
<1>5. C = [buf EXCEPT ![out] = @ \o s]  BY <1>2
<1>6. out \in DOMAIN buf  BY <1>4
<1>7. /\ C \in [DOMAIN buf -> Seq(Packets(net))]
      /\ Effect(buf, C, {}, Range(s))
      /\ \A c \in DOMAIN buf : c # out => C[c] = buf[c]
      /\ C[out] = buf[out] \o s
  BY ONLY <1>3, <1>4, <1>5, <1>6, Enter
<1>8. buf[out] \in Seq(Packets(net))  BY ONLY <1>4, <1>6
<1>9. /\ Range(C[out]) = Range(buf[out]) \cup Range(s)
      /\ buf[out] # <<>> => Head(C[out]) = Head(buf[out])
  BY ONLY <1>3, <1>7, <1>8, JoinRange
<1>10. Follows(buf, C, Packets(net) \ Cut(net, m))
  <2> SUFFICES ASSUME NEW b \in DOMAIN buf, NEW q \in Packets(net) \ Cut(net, m), q \in Range(C[b])
               PROVE  q \in Range(buf[b]) /\ (Head(buf[b]) = q => Head(C[b]) = q)
    BY DEF Follows
  <2>1. CASE b = out
    <3>1. q \in Range(buf[out])  BY <1>3, <1>9, <2>1
    <3>2. buf[out] # <<>>  BY ONLY <3>1 DEF Range
    <3> QED  BY ONLY <1>9, <2>1, <3>1, <3>2
  <2>2. CASE b # out  BY <1>7, <2>2
  <2> QED  BY <2>1, <2>2
<1> QED  BY ONLY <1>3, <1>4, <1>7, <1>9, <1>10

LEMMA TrySendStep ==
  ASSUME IInv, NEW m \in DOMAIN net.msgs, NEW A, NEW T, Attempt(msg, m, T),
         Lists(A, wakeup, Event(net), Buffers(net)),
         Effect(Queues(agenda, wakeup), Queues(A, wakeup), T, {}), TrySend(m, A)
  PROVE  IInv'
<1>1. TypeOK /\ Sound(net, table, Queues(agenda, wakeup), buf, msg)  BY DEF IInv
<1>2. PICK out : out = Route(net.msgs[m].src, m).out  OBVIOUS
<1>3. out \in Buffers(net) /\ Onward(net, table, m, out)
  BY ONLY <1>1, <1>2, m \in DOMAIN net.msgs, FirstBuffer
<1>4. UNCHANGED <<net, table, readBusy, laneBusy>>  BY DEF TrySend, config
<1>5. /\ msg \in [DOMAIN net.msgs -> {"unsent", "trying", "sent", "received"}]
      /\ \A p \in Packets(net) : p[1] \in DOMAIN net.msgs
  BY <1>1, OfMessage DEF TypeOK
<1>6. PICK N : N = msg'  OBVIOUS
<1>7. PICK Q : Q = Queues(agenda, wakeup)  OBVIOUS
<1>8. PICK S : S = Queues(agenda', wakeup')  OBVIOUS
<1>9. PICK C : C = buf'  OBVIOUS
<1>10. Ev("retry", m) \in Event(net)  BY DEF Event, Ev
<1>11. readBusy \in [Buffers(net) -> 0 .. MaxDelay] /\ laneBusy \in [Carriers(net) -> 0 .. MaxDelay]
       /\ writeBusy \in [Buffers(net) -> 0 .. MaxDelay] /\ net \in Nets /\ table = Table(net)
       /\ buf \in [Buffers(net) -> Seq(Packets(net))]
  BY <1>1 DEF TypeOK
\* The message waits.
<1>12. ASSUME Lists(agenda', wakeup', Event(net), Buffers(net)),
              Effect(Queues(A, wakeup), S, {}, {Ev("retry", m)}),
              N = [msg EXCEPT ![m] = "trying"], UNCHANGED <<buf, writeBusy>>
       PROVE  IInv'
  <2>1. Effect(Q, S, T, {Ev("retry", m)})
    BY ONLY <1>7, <1>12, Effect(Queues(agenda, wakeup), Queues(A, wakeup), T, {}), Effects
  <2>2. Sound(net, table, Q, buf, msg)  BY ONLY <1>1, <1>7
  <2>3. Sound(net, table, S, buf, N)
    BY ONLY <1>5, <1>12, <2>1, <2>2, m \in DOMAIN net.msgs, Attempt(msg, m, T), TriedSound
  <2>4. N \in [DOMAIN net.msgs -> {"unsent", "trying", "sent", "received"}]
    BY ONLY <1>5, <1>12
  <2> QED  BY ONLY <1>4, <1>6, <1>8, <1>11, <1>12, <2>3, <2>4 DEF IInv, TypeOK
\* The packets start.
<1>13. ASSUME NEW k \in Kinds, k = IF net.fixed = 0 THEN "output" ELSE "receive",
              NEW d \in 0 .. MaxDelay, wakeup' = wakeup,
              agenda' = Start(A, k, m, d),
              N = [msg EXCEPT ![m] = "sent"], Filled(net, table, buf, C, m, out),
              C \in [Buffers(net) -> Seq(Packets(net))],
              writeBusy' \in [Buffers(net) -> 0 .. MaxDelay]
       PROVE  IInv'
  <2>1. PICK Z : Z = agenda'  OBVIOUS
  <2>2. Z = Start(A, k, m, d)
    BY ONLY <1>13, <2>1
  <2>3. /\ Lists(Z, wakeup, Event(net), Buffers(net))
        /\ Effect(Queues(A, wakeup), Queues(Z, wakeup), {}, Bring(k, Cut(net, m)))
    BY ONLY <1>1, <2>2, m \in DOMAIN net.msgs, k \in Kinds, d \in 0 .. MaxDelay,
            Lists(A, wakeup, Event(net), Buffers(net)), Starts
  <2>4. S = Queues(Z, wakeup)  BY ONLY <1>8, <1>13, <2>1
  <2>5. PICK F : F = Bring(k, Cut(net, m))  OBVIOUS
  <2>6. Effect(Queues(A, wakeup), S, {}, F)  BY ONLY <2>3, <2>4, <2>5
  <2>7. Effect(Q, S, T, F)
    BY ONLY <1>7, <2>6, Effect(Queues(agenda, wakeup), Queues(A, wakeup), T, {}), Effects
  <2>8. Effect(Q, S, T, Bring(k, Cut(net, m)))  BY ONLY <2>5, <2>7
  <2>9. Sound(net, table, Q, buf, msg)  BY ONLY <1>1, <1>7
  <2>10. Sound(net, table, S, C, N)
    BY ONLY <1>5, <1>13, <2>8, <2>9, m \in DOMAIN net.msgs, Attempt(msg, m, T), StartedSound
  <2>11. N \in [DOMAIN net.msgs -> {"unsent", "trying", "sent", "received"}]
    BY ONLY <1>5, <1>13
  <2>12. Lists(agenda', wakeup', Event(net), Buffers(net))  BY ONLY <1>13, <2>1, <2>3
  <2> QED  BY ONLY <1>4, <1>6, <1>8, <1>9, <1>11, <1>13, <2>10, <2>11, <2>12 DEF IInv, TypeOK
<1>14. ASSUME agenda' = Schedule(A, Ev("retry", m), writeBusy[out]), wakeup' = wakeup,
              N = [msg EXCEPT ![m] = "trying"], UNCHANGED <<buf, writeBusy>>
       PROVE  IInv'
  <2>1. PICK d \in 0 .. MaxDelay : d = writeBusy[out]  BY <1>3, <1>11
  <2>2. agenda' = Schedule(A, Ev("retry", m), d)  BY ONLY <1>14, <2>1
  <2>3. /\ Lists(agenda', wakeup, Event(net), Buffers(net))
        /\ Effect(Queues(A, wakeup), Queues(agenda', wakeup), {}, {Ev("retry", m)})
    BY ONLY <1>10, <2>2, d \in 0 .. MaxDelay, Lists(A, wakeup, Event(net), Buffers(net)), Schedules
  <2>4. /\ Lists(agenda', wakeup', Event(net), Buffers(net))
        /\ Effect(Queues(A, wakeup), S, {}, {Ev("retry", m)})
    BY ONLY <1>8, <1>14, <2>3
  <2> QED  BY ONLY <1>12, <1>14, <2>4
<1>15. ASSUME Wait(A, Ev("retry", m), out), N = [msg EXCEPT ![m] = "trying"],
              UNCHANGED <<buf, writeBusy>>
       PROVE  IInv'
  <2>1. agenda' = A /\ wakeup' = [wakeup EXCEPT ![out] = Append(@, Ev("retry", m))]
    BY ONLY <1>15 DEF Wait
  <2>2. /\ Lists(A, wakeup', Event(net), Buffers(net))
        /\ Effect(Queues(A, wakeup), Queues(A, wakeup'), {}, {Ev("retry", m)})
    BY ONLY <1>3, <1>10, <2>1, Lists(A, wakeup, Event(net), Buffers(net)), WaitEffect
  <2>3. /\ Lists(agenda', wakeup', Event(net), Buffers(net))
        /\ Effect(Queues(A, wakeup), S, {}, {Ev("retry", m)})
    BY ONLY <1>8, <2>1, <2>2
  <2> QED  BY ONLY <1>12, <1>15, <2>3
<1>16. ASSUME net.fixed = 0, N = [msg EXCEPT ![m] = "sent"],
              C = [buf EXCEPT ![out] = @ \o PacketsOf(m)],
              writeBusy' = [writeBusy EXCEPT ![out] = 1], wakeup' = wakeup,
              agenda' = Start(A, "output", m, 1)
       PROVE  IInv'
  <2>1. /\ C \in [Buffers(net) -> Seq(Packets(net))] /\ DOMAIN C = DOMAIN buf
        /\ Effect(buf, C, {}, Cut(net, m)) /\ Cut(net, m) \subseteq Range(C[out])
        /\ Follows(buf, C, Packets(net) \ Cut(net, m))
    BY ONLY <1>1, <1>3, <1>16, m \in DOMAIN net.msgs, Fills
  <2>2. out \in DOMAIN buf  BY ONLY <1>3, <1>11
  <2>3. Filled(net, table, buf, C, m, out)  BY ONLY <1>3, <1>16, <2>1, <2>2 DEF Filled
  <2>4. 1 \in 0 .. MaxDelay /\ "output" \in Kinds  BY DelayAssumption DEF Kinds
  <2>5. writeBusy' \in [Buffers(net) -> 0 .. MaxDelay]  BY ONLY <1>11, <1>16, <2>4
  <2>6. "output" = IF net.fixed = 0 THEN "output" ELSE "receive"  BY ONLY <1>16
  <2> QED  BY ONLY <1>13, <1>16, <2>1, <2>3, <2>4, <2>5, <2>6
<1>17. ASSUME net.fixed > 0, N = [msg EXCEPT ![m] = "sent"], C = buf, writeBusy' = writeBusy,
              wakeup' = wakeup, agenda' = Start(A, "receive", m, net.fixed)
       PROVE  IInv'
  <2>1. net.fixed # 0 /\ net.fixed \in 0 .. MaxDelay  BY <1>1, <1>17, Given DEF Timed
  <2>2. Filled(net, table, buf, C, m, out)  BY ONLY <1>17, <2>1 DEF Filled
  <2>3. "receive" \in Kinds /\ "receive" = IF net.fixed = 0 THEN "output" ELSE "receive"
    BY <2>1 DEF Kinds
  <2>4. PICK d : d = net.fixed  OBVIOUS
  <2>5. agenda' = Start(A, "receive", m, d)
    BY ONLY <1>17, <2>4
  <2> QED  BY ONLY <1>13, <1>11, <1>17, <2>1, <2>2, <2>3, <2>4, <2>5
<1>18. \/ /\ agenda' = Schedule(A, Ev("retry", m), writeBusy[out]) /\ wakeup' = wakeup
          /\ N = [msg EXCEPT ![m] = "trying"] /\ UNCHANGED <<buf, writeBusy>>
       \/ /\ Wait(A, Ev("retry", m), out)
          /\ N = [msg EXCEPT ![m] = "trying"] /\ UNCHANGED <<buf, writeBusy>>
       \/ /\ net.fixed = 0 /\ N = [msg EXCEPT ![m] = "sent"]
          /\ C = [buf EXCEPT ![out] = @ \o PacketsOf(m)]
          /\ writeBusy' = [writeBusy EXCEPT ![out] = 1] /\ wakeup' = wakeup
          /\ agenda' = Start(A, "output", m, 1)
       \/ /\ net.fixed > 0 /\ N = [msg EXCEPT ![m] = "sent"]
          /\ C = buf /\ writeBusy' = writeBusy /\ wakeup' = wakeup
          /\ agenda' = Start(A, "receive", m, net.fixed)
  BY ONLY <1>2, <1>6, <1>9, TrySend(m, A) DEF TrySend
<1> QED  BY ONLY <1>14, <1>15, <1>16, <1>17, <1>18

LEMMA SendStep ==
  ASSUME IInv, NEW m \in DOMAIN net.msgs, Send(m)
  PROVE  IInv'
<1>1. Attempt(msg, m, {}) /\ TrySend(m, agenda)  BY DEF Send, Attempt
<1>2. Lists(agenda, wakeup, Event(net), Buffers(net))  BY DEF IInv, TypeOK
<1>3. Effect(Queues(agenda, wakeup), Queues(agenda, wakeup), {}, {})  BY ONLY SameEffect
<1> QED  BY ONLY IInv, <1>1, <1>2, <1>3, m \in DOMAIN net.msgs, TrySendStep

LEMMA RetryStep ==
  ASSUME IInv, NEW m \in DOMAIN net.msgs, Retry(m)
  PROVE  IInv'
<1>1. TypeOK /\ Sound(net, table, Queues(agenda, wakeup), buf, msg)  BY DEF IInv
<1>2. Due(Ev("retry", m)) /\ TrySend(m, Popped)  BY DEF Retry
<1>3. /\ Lists(Popped, wakeup, Event(net), Buffers(net))
      /\ Effect(Queues(agenda, wakeup), Queues(Popped, wakeup), {Ev("retry", m)}, {})
      /\ ~ Absent(Queues(agenda, wakeup), {Ev("retry", m)})
  BY ONLY <1>1, <1>2, Pops
<1>4. msg[m] = "trying"  BY ONLY <1>1, <1>3, m \in DOMAIN net.msgs DEF Sound, Asked
<1>5. Attempt(msg, m, {Ev("retry", m)})  BY ONLY <1>4 DEF Attempt
<1> QED  BY ONLY IInv, <1>2, <1>3, <1>5, m \in DOMAIN net.msgs, TrySendStep

LEMMA ElapseType ==
  ASSUME NEW D, NEW f \in [D -> 0 .. MaxDelay]
  PROVE  Elapse(f) \in [D -> 0 .. MaxDelay]
BY DelayAssumption DEF Elapse

LEMMA NextCycleStep ==
  ASSUME IInv, NextCycle
  PROVE  IInv'
<1>1. TypeOK /\ Sound(net, table, Queues(agenda, wakeup), buf, msg)  BY DEF IInv
<1>2. /\ agenda[1] = <<>> /\ agenda' = Append(Tail(agenda), <<>>)
      /\ UNCHANGED <<net, table, buf, wakeup, msg>>
      /\ readBusy' = Elapse(readBusy) /\ writeBusy' = Elapse(writeBusy)
      /\ laneBusy' = Elapse(laneBusy)
  BY DEF NextCycle, config
<1>3. PICK C : C = agenda'  OBVIOUS
<1>4. Lists(agenda, wakeup, Event(net), Buffers(net))  BY <1>1 DEF TypeOK
<1>5. /\ Lists(C, wakeup, Event(net), Buffers(net))
      /\ Effect(Queues(agenda, wakeup), Queues(C, wakeup), {}, {})
  BY ONLY <1>2, <1>3, <1>4, ShiftEffect
<1>6. Kept(Queues(agenda, wakeup), Queues(C, wakeup))  BY ONLY <1>5, NoEffect
<1>7. Sound(net, table, Queues(C, wakeup), buf, msg)  BY ONLY <1>1, <1>6, KeptSound
<1>8. /\ readBusy' \in [Buffers(net) -> 0 .. MaxDelay]
      /\ writeBusy' \in [Buffers(net) -> 0 .. MaxDelay]
      /\ laneBusy' \in [Carriers(net) -> 0 .. MaxDelay]
  BY ONLY <1>1, <1>2, ElapseType DEF TypeOK
<1> QED  BY ONLY <1>1, <1>2, <1>3, <1>5, <1>7, <1>8 DEF IInv, TypeOK

\* Every step keeps the invariant.
LEMMA NextIInv == IInv /\ [Next]_vars => IInv'
<1> SUFFICES ASSUME IInv, [Next]_vars  PROVE IInv'
  OBVIOUS
<1>1. ASSUME NEW p \in Packets(net), Handle(p)  PROVE IInv'
  <2>1. CASE Stalled(p)  BY <2>1, StalledStep
  <2>2. CASE OverLink(p)  BY <2>2, OverLinkGoes, GoingStep
  <2>3. CASE OverBus(p)  BY <2>3, OverBusGoes, GoingStep
  <2>4. CASE AtDestination(p)  BY <2>4, AtDestinationStep
  <2>5. CASE ThroughSwitch(p)  BY <2>5, ThroughSwitchGoes, GoingStep
  <2>6. CASE Receive(p)  BY <2>6, ReceiveStep
  <2> QED  BY ONLY <1>1, <2>1, <2>2, <2>3, <2>4, <2>5, <2>6 DEF Handle
<1>2. ASSUME NEW m \in DOMAIN net.msgs, Retry(m)  PROVE IInv'  BY <1>2, RetryStep
<1>3. ASSUME NEW m \in DOMAIN net.msgs, Received(m)  PROVE IInv'  BY <1>3, ReceivedStep
<1>4. CASE NextCycle  BY <1>4, NextCycleStep
<1>5. ASSUME NEW m \in DOMAIN net.msgs, Send(m)  PROVE IInv'  BY <1>5, SendStep
<1>6. CASE UNCHANGED vars  BY ONLY IInv, <1>6 DEF IInv, TypeOK, vars, Sound
<1>7. CASE Idle  BY ONLY <1>6, <1>7 DEF Idle
<1> QED  BY ONLY [Next]_vars, <1>1, <1>2, <1>3, <1>4, <1>5, <1>6, <1>7 DEF Next, Simulate

\* A packet in a buffer has one event, and so has a message that waits.
LEMMA IInvOneEvent == IInv => OneEventEach
<1> SUFFICES ASSUME IInv  PROVE OneEventEach
  OBVIOUS
<1>1. TypeOK /\ Sound(net, table, Queues(agenda, wakeup), buf, msg)  BY DEF IInv
<1>2. Lists(agenda, wakeup, Event(net), Buffers(net))  BY <1>1 DEF TypeOK
<1>3. \A E : /\ One(Queues(agenda, wakeup), E) => Times(E) = 1
             /\ Absent(Queues(agenda, wakeup), E) => Times(E) = 0
  BY ONLY <1>2, CountOne, CountAbsent DEF Times
<1>4. \A p \in Packets(net) : InBuffer(p) => Times(Events(p)) = 1
  <2> TAKE p \in Packets(net)
  <2> HAVE InBuffer(p)
  <2>1. ~ Absent(buf, {p})  BY SomePlace DEF InBuffer
  <2>2. Carried(net, Queues(agenda, wakeup), buf, msg, p)  BY <1>1 DEF Sound
  <2>3. One(Queues(agenda, wakeup), Events(p))  BY ONLY <2>1, <2>2 DEF Carried
  <2> QED  BY ONLY <1>3, <2>3
<1>5. \A m \in DOMAIN net.msgs : Times({Ev("retry", m)}) = IF msg[m] = "trying" THEN 1 ELSE 0
  <2> TAKE m \in DOMAIN net.msgs
  <2>1. Asked(Queues(agenda, wakeup), msg, m)  BY <1>1 DEF Sound
  <2> QED  BY ONLY <1>3, <2>1 DEF Asked
<1> QED  BY ONLY <1>4, <1>5 DEF OneEventEach

LEMMA AlwaysIInv == Spec => []IInv
BY InitIInv, NextIInv, PTL DEF Spec

\* Every packet in a buffer, and every message that waits to be sent, has exactly one event
\* (buffer.c:196-225, message.c:298-760): no event is lost and none is scheduled twice.
THEOREM EveryPacketHasItsEvent == Spec => []OneEventEach
BY AlwaysIInv, IInvOneEvent, PTL

-----------------------------------------------------------------------------
(***************************************************************************)
(* Whoever waits for a buffer has a cause.                                 *)
(***************************************************************************)
\* No packet leaves a buffer of S for good when it was the last one there.
Holds(S) == \A c \in S : buf[c] # <<>> => buf'[c] # <<>>

\* A step wakes nobody, or puts an event to wait for a buffer with packets, or wakes all
\* who wait for the only buffer that a packet leaves.
Considerate ==
  \/ wakeup' = wakeup /\ Holds(Buffers(net))
  \/ \E b \in Buffers(net) : \E e :
       wakeup' = [wakeup EXCEPT ![b] = Append(@, e)] /\ buf' = buf /\ buf[b] # <<>>
  \/ \E b \in Buffers(net) :
       wakeup' = [wakeup EXCEPT ![b] = <<>>] /\ Holds(Buffers(net) \ {b})

LEMMA ConsiderateStep ==
  ASSUME TypeOK, WaitersHaveCause, Considerate
  PROVE  WaitersHaveCause'
<1>1. DOMAIN wakeup = Buffers(net)  BY DEF TypeOK, Lists
<1>2. \A b \in Buffers(net) : wakeup[b] # <<>> => buf[b] # <<>>  BY <1>1 DEF WaitersHaveCause
<1>3. CASE wakeup' = wakeup /\ Holds(Buffers(net))
  BY ONLY <1>1, <1>2, <1>3 DEF WaitersHaveCause, Holds
<1>4. ASSUME NEW b \in Buffers(net), NEW e,
             wakeup' = [wakeup EXCEPT ![b] = Append(@, e)], buf' = buf, buf[b] # <<>>
      PROVE  WaitersHaveCause'
  <2>1. \A c \in Buffers(net) : c # b => wakeup'[c] = wakeup[c]  BY ONLY <1>1, <1>4
  <2>2. DOMAIN wakeup' = Buffers(net)  BY ONLY <1>1, <1>4
  <2> QED  BY ONLY <1>2, <1>4, <2>1, <2>2 DEF WaitersHaveCause
<1>5. ASSUME NEW b \in Buffers(net),
             wakeup' = [wakeup EXCEPT ![b] = <<>>], Holds(Buffers(net) \ {b})
      PROVE  WaitersHaveCause'
  <2>1. \A c \in Buffers(net) \ {b} : wakeup'[c] = wakeup[c]  BY ONLY <1>1, <1>5
  <2>2. DOMAIN wakeup' = Buffers(net) /\ wakeup'[b] = <<>>  BY ONLY <1>1, <1>5
  <2> QED  BY ONLY <1>2, <1>5, <2>1, <2>2 DEF WaitersHaveCause, Holds
<1> QED  BY ONLY <1>3, <1>4, <1>5, Considerate DEF Considerate

\* A buffer without room for what would fit an empty one is not empty.
LEMMA FullNotEmpty ==
  ASSUME NEW b, NEW k \in Nat, k <= net.size[b], ~ Fits(b, k)
  PROVE  buf[b] # <<>>
<1> SUFFICES ASSUME buf[b] = <<>>  PROVE FALSE
  OBVIOUS
<1>1. Bytes(b) = 0  BY EmptyBytes
<1>2. 0 + k = k  OBVIOUS
<1> QED  BY ONLY <1>1, <1>2, k <= net.size[b], ~ Fits(b, k) DEF Fits

LEMMA GoingConsiderate ==
  ASSUME IInv, Whole(net, table), NEW p \in Packets(net), NEW from, NEW to, Going(p, from, to)
  PROVE  Considerate
<1> PICK k \in {"output", "input"}, l \in {"output", "input"} :
      /\ from \in Buffers(net) /\ to \in Buffers(net) /\ from # to
      /\ Moves(p, k, l, from, to) /\ PacketSize(net, p[1]) <= net.size[to]
  BY ONLY Whole(net, table), Going(p, from, to) DEF Going
<1>1. TypeOK /\ Timed(net) /\ p[1] \in DOMAIN net.msgs  BY Given, OfMessage DEF IInv
<1>2. PICK s \in Nat : s = PacketSize(net, p[1])  BY <1>1, Sizes
<1>3. ASSUME NEW d, Again(Ev(k, p), d)  PROVE Considerate
  BY ONLY <1>3 DEF Again, Considerate, Holds
<1>4. CASE WaitFor(Ev(k, p), to) /\ ~ Fits(to, PacketSize(net, p[1]))
  <2>1. buf[to] # <<>>  BY ONLY <1>2, <1>4, PacketSize(net, p[1]) <= net.size[to], FullNotEmpty
  <2> QED  BY ONLY <1>4, <2>1, to \in Buffers(net) DEF WaitFor, Wait, Considerate
<1>5. ASSUME NEW lat, Transfer(p, from, to, lat, l)  PROVE Considerate
  <2>1. /\ wakeup' = [wakeup EXCEPT ![from] = <<>>]
        /\ buf' = [buf EXCEPT ![from] = Tail(@), ![to] = Append(@, p)]
    BY ONLY <1>5 DEF Transfer
  <2>2. buf \in [Buffers(net) -> Seq(Packets(net))]  BY <1>1 DEF TypeOK
  <2>3. \A c \in Buffers(net) \ {from} : c # to => buf'[c] = buf[c]  BY ONLY <2>1, <2>2
  <2>4. buf'[to] = Append(buf[to], p)
    BY ONLY <2>1, <2>2, from # to, from \in Buffers(net), to \in Buffers(net)
  <2>5. buf'[to] # <<>>  BY ONLY <2>2, <2>4, to \in Buffers(net), p \in Packets(net)
  <2>6. Holds(Buffers(net) \ {from})  BY ONLY <2>3, <2>5 DEF Holds
  <2> QED  BY ONLY <2>1, <2>6, from \in Buffers(net) DEF Considerate
<1> QED  BY ONLY <1>3, <1>4, <1>5, Moves(p, k, l, from, to) DEF Moves

LEMMA StalledConsiderate ==
  ASSUME IInv, NEW p \in Packets(net), Stalled(p)
  PROVE  Considerate
<1>1. PICK k \in {"output", "input"} : NotHead(p, k) \/ BufferBusy(p, k)  BY DEF Stalled
<1>2. k \in Kinds  BY DEF Kinds
<1>3. Due(Ev(k, p))  BY <1>1 DEF NotHead, BufferBusy
<1>4. net.fixed = 0  BY ONLY IInv, <1>3, p \in Packets(net), NotFixed
<1>5. PICK b : b = Place(p)  OBVIOUS
<1>6. b \in Buffers(net) /\ buf[b] # <<>>
  BY ONLY IInv, <1>2, <1>3, <1>4, <1>5, p \in Packets(net), Placed
<1>7. CASE NotHead(p, k)
  <2>1. WaitFor(Ev(k, p), b)  BY <1>5, <1>7 DEF NotHead
  <2> QED  BY ONLY <1>6, <2>1 DEF WaitFor, Wait, Considerate
<1>8. CASE BufferBusy(p, k)
  BY ONLY <1>8 DEF BufferBusy, Again, Considerate, Holds
<1> QED  BY <1>1, <1>7, <1>8

LEMMA ReceiveConsiderate ==
  ASSUME IInv, NEW p \in Packets(net), Receive(p)
  PROVE  Considerate
<1>1. TypeOK  BY DEF IInv
<1>2. Due(Ev("receive", p)) /\ "receive" \in Kinds  BY DEF Receive, Kinds
<1>3. CASE net.fixed > 0
  <2>1. wakeup' = wakeup /\ buf' = buf  BY <1>3 DEF Receive
  <2> QED  BY ONLY <2>1 DEF Considerate, Holds
<1>4. CASE ~(net.fixed > 0)
  <2>1. net.fixed \in Nat  BY <1>1, Given, DelayAssumption DEF Timed
  <2>2. net.fixed = 0  BY ONLY <1>4, <2>1
  <2>3. PICK b : b = Place(p)  OBVIOUS
  <2>4. b \in Buffers(net)  BY ONLY IInv, <1>2, <2>2, <2>3, p \in Packets(net), Placed
  <2>5. buf' = [buf EXCEPT ![b] = Tail(@)] /\ wakeup' = [wakeup EXCEPT ![b] = <<>>]
    BY <1>4, <2>3 DEF Receive
  <2>6. buf \in [Buffers(net) -> Seq(Packets(net))]  BY <1>1 DEF TypeOK
  <2>7. Holds(Buffers(net) \ {b})  BY ONLY <2>5, <2>6 DEF Holds
  <2> QED  BY ONLY <2>4, <2>5, <2>7 DEF Considerate
<1> QED  BY <1>3, <1>4

LEMMA TrySendConsiderate ==
  ASSUME IInv, Whole(net, table), NEW m \in DOMAIN net.msgs, NEW A, TrySend(m, A)
  PROVE  Considerate
<1>1. TypeOK /\ Timed(net)  BY Given DEF IInv
<1>2. PICK out : out = Route(net.msgs[m].src, m).out  OBVIOUS
<1>3. out \in Buffers(net)  BY ONLY <1>1, <1>2, m \in DOMAIN net.msgs, FirstBuffer
<1>4. CASE wakeup' = wakeup /\ buf' = buf
  BY ONLY <1>4 DEF Considerate, Holds
<1>5. CASE Wait(A, Ev("retry", m), out) /\ ~ Fits(out, RequiredSize(m)) /\ buf' = buf
  <2>1. PICK k \in Nat : k = RequiredSize(m)  BY <1>1, Sizes DEF RequiredSize
  <2>2. k <= net.size[out]  BY <1>2, <2>1 DEF Whole, RequiredSize, Route
  <2>3. buf[out] # <<>>  BY ONLY <1>5, <2>1, <2>2, FullNotEmpty
  <2> QED  BY ONLY <1>3, <1>5, <2>3 DEF Wait, Considerate
<1>6. CASE wakeup' = wakeup /\ buf' = [buf EXCEPT ![out] = @ \o PacketsOf(m)]
  <2>1. PICK s \in Seq(Packets(net)) : s = PacketsOf(m)  BY <1>1, PacketsInOrder
  <2>2. buf' = [buf EXCEPT ![out] = @ \o s]  BY <1>6, <2>1
  <2>3. buf \in [Buffers(net) -> Seq(Packets(net))]  BY <1>1 DEF TypeOK
  <2>4. \A c \in Buffers(net) : c # out => buf'[c] = buf[c]  BY ONLY <2>2, <2>3
  <2>5. buf'[out] = buf[out] \o s /\ buf[out] \in Seq(Packets(net))  BY ONLY <1>3, <2>2, <2>3
  <2>6. buf[out] # <<>> => buf'[out] # <<>>  BY ONLY <2>5, s \in Seq(Packets(net))
  <2>7. Holds(Buffers(net))  BY ONLY <2>4, <2>6 DEF Holds
  <2> QED  BY ONLY <1>6, <2>7 DEF Considerate
<1>7. \/ wakeup' = wakeup /\ buf' = buf
      \/ Wait(A, Ev("retry", m), out) /\ ~ Fits(out, RequiredSize(m)) /\ buf' = buf
      \/ wakeup' = wakeup /\ buf' = [buf EXCEPT ![out] = @ \o PacketsOf(m)]
  BY ONLY <1>2, TrySend(m, A) DEF TrySend
<1> QED  BY ONLY <1>4, <1>5, <1>6, <1>7

\* Every step is considerate.
LEMMA NextConsiderate ==
  ASSUME IInv, Whole(net, table), [Next]_vars
  PROVE  Considerate
<1>1. CASE wakeup' = wakeup /\ buf' = buf
  BY ONLY <1>1 DEF Considerate, Holds
<1>2. ASSUME NEW p \in Packets(net), Handle(p)  PROVE Considerate
  <2>1. CASE Stalled(p)  BY <2>1, StalledConsiderate
  <2>2. CASE OverLink(p)  BY <2>2, OverLinkGoes, GoingConsiderate
  <2>3. CASE OverBus(p)  BY <2>3, OverBusGoes, GoingConsiderate
  <2>4. CASE AtDestination(p)  BY ONLY <1>1, <2>4 DEF AtDestination, Again
  <2>5. CASE ThroughSwitch(p)  BY <2>5, ThroughSwitchGoes, GoingConsiderate
  <2>6. CASE Receive(p)  BY <2>6, ReceiveConsiderate
  <2> QED  BY ONLY <1>2, <2>1, <2>2, <2>3, <2>4, <2>5, <2>6 DEF Handle
<1>3. ASSUME NEW m \in DOMAIN net.msgs, Retry(m)  PROVE Considerate
  BY <1>3, TrySendConsiderate DEF Retry
<1>4. ASSUME NEW m \in DOMAIN net.msgs, Received(m)  PROVE Considerate
  BY ONLY <1>1, <1>4 DEF Received
<1>5. CASE NextCycle  BY ONLY <1>1, <1>5 DEF NextCycle
<1>6. ASSUME NEW m \in DOMAIN net.msgs, Send(m)  PROVE Considerate
  BY <1>6, TrySendConsiderate DEF Send
<1>7. CASE Idle \/ UNCHANGED vars  BY ONLY <1>1, <1>7 DEF Idle, vars
<1> QED  BY ONLY [Next]_vars, <1>2, <1>3, <1>4, <1>5, <1>6, <1>7 DEF Next, Simulate

\* Whoever waits for a buffer waits for a packet that is in it, the assertion of
\* net_buffer_wait (buffer.c:196) for as long as they wait, provided that every message fits
\* its first buffer when it is rounded up to whole packets, as net_can_send_ev does
\* (network.c:612) and the fatal error before it does not (network.c:598).
THEOREM WaitersHaveTheirCause ==
  ASSUME \A t \in Nets : Whole(t, Table(t))
  PROVE  Spec => []WaitersHaveCause
<1>1. Init => WaitersHaveCause
  BY DEF Init, WaitersHaveCause
<1>2. IInv /\ WaitersHaveCause /\ [Next]_vars => WaitersHaveCause'
  <2> SUFFICES ASSUME IInv, WaitersHaveCause, [Next]_vars  PROVE WaitersHaveCause'
    OBVIOUS
  <2>1. TypeOK /\ Whole(net, table)  BY DEF IInv, TypeOK
  <2>2. Considerate  BY ONLY IInv, <2>1, [Next]_vars, NextConsiderate
  <2> QED  BY <2>1, <2>2, ConsiderateStep
<1> QED  BY <1>1, <1>2, AlwaysIInv, PTL DEF Spec
=============================================================================

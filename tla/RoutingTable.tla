---------------------------- MODULE RoutingTable ----------------------------
(***************************************************************************)
(* The routing table of an interconnection network (network/               *)
(* routing-table.c): the one-hop routes, the shortest paths of Floyd and   *)
(* Warshall or the steps of the Routes section, and the search for cycles  *)
(* in the dependences between output buffers.                              *)
(*                                                                         *)
(* A network t is a record:                                                *)
(*   nodes      its nodes in order, the buses among them                   *)
(*   out, in    the output and input buffers of each node, in order        *)
(*   link       its links: src and dst, a buffer per virtual channel, and  *)
(*              bandwidth                                                  *)
(*   bus        its buses (node -> src and dst buffers, lanes, bandwidth,  *)
(*              delay, photonic)                                           *)
(*   routes     the configured steps, <<from, to>> -> <<next, channel>>;   *)
(*              Floyd-Warshall runs when there are none                    *)
(***************************************************************************)
EXTENDS Naturals, Sequences, FiniteSets, SequencesExt

None == "none"    \* no node
NoBuffer == <<>>

IndexOf(s, x) == SelectInSeq(s, LAMBDA y : y = x)

Nodes(t) == Range(t.nodes)
Dim(t) == Len(t.nodes)
Outs(t) == UNION {Range(t.out[n]) : n \in DOMAIN t.out}
NodeOf(t, b) == CHOOSE n \in Nodes(t) : b \in Range(t.out[n]) \cup Range(t.in[n])

LinksOf(t, b) == {l \in DOMAIN t.link : b \in Range(t.link[l].src)}
BusesOf(t, b) == {n \in DOMAIN t.bus : b \in Range(t.bus[n].src)}

\* The nodes one hop after output buffer b.
Beyond(t, b) ==
  {NodeOf(t, t.link[l].dst[1]) : l \in LinksOf(t, b)}
    \cup {NodeOf(t, d) : d \in UNION {Range(t.bus[n].dst) : n \in BusesOf(t, b)}}

\* The first output buffer of node i that leads to node n.
BufferTo(t, i, n) ==
  t.out[i][SelectInSeq(t.out[i], LAMBDA b : n \in Beyond(t, b))]

\* The last output buffer of node i that leads to node n: what the one-hop
\* pass leaves in the entry.
LastBufferTo(t, i, n) ==
  t.out[i][SelectLastInSeq(t.out[i], LAMBDA b : n \in Beyond(t, b))]

OneHop(t, i, n) ==
  /\ i # n
  /\ IF i \in DOMAIN t.bus
       THEN \E d \in Range(t.bus[i].dst) : NodeOf(t, d) = n
       ELSE \E b \in Range(t.out[i]) : n \in Beyond(t, b)

(***************************************************************************)
(* net_routing_table_initiate: cost 0 to itself, 1 over a link or a bus,   *)
(* and the number of nodes for infinity.                                   *)
(***************************************************************************)
Initiate(t) ==
  [e \in Nodes(t) \X Nodes(t) |->
     IF e[1] = e[2] THEN [cost |-> 0, next |-> None]
     ELSE IF OneHop(t, e[1], e[2]) THEN [cost |-> 1, next |-> e[2]]
     ELSE [cost |-> Dim(t), next |-> None]]

\* One round of the outer loop: paths through node k.
Through(T, k) ==
  [e \in DOMAIN T |->
     LET old  == T[e]
         cost == T[<<e[1], k>>].cost + T[<<k, e[2]>>].cost
     IN  IF cost < old.cost THEN [cost |-> cost, next |-> k] ELSE old]

\* Mutated form of Costs: no round for the last node.
CostsShort(t) ==
  LET Rounds[k \in 0 .. Dim(t)] ==
        IF k = 0 THEN Initiate(t) ELSE Through(Rounds[k - 1], t.nodes[k])
  IN  Rounds[Dim(t) - 1]

\* The three nested loops.
Costs(t) ==
  LET Rounds[k \in 0 .. Dim(t)] ==
        IF k = 0 THEN Initiate(t) ELSE Through(Rounds[k - 1], t.nodes[k])
  IN  Rounds[Dim(t)]

\* The first hop of the path from i that goes through n.
FirstHop(C, i, n) ==
  LET Follow[x \in {e[2] : e \in DOMAIN C}] ==
        IF C[<<i, x>>].cost <= 1 THEN x ELSE Follow[C[<<i, x>>].next]
  IN  Follow[n]

NoRoute == [out |-> NoBuffer, next |-> None]

\* net_routing_table_floyd_warshall: the next hop and its output buffer.
FloydWarshall(t) ==
  LET C == Costs(t)
  IN  [e \in Nodes(t) \X Nodes(t) |->
         IF C[e].next = None \/ e[1] \in DOMAIN t.bus THEN NoRoute
         ELSE LET n == FirstHop(C, e[1], C[e].next)
              IN  [out |-> BufferTo(t, e[1], n), next |-> n]]

\* The table before any step of the Routes section: the one-hop routes.
OneHopRoutes(t) ==
  [e \in Nodes(t) \X Nodes(t) |->
     IF e[1] \notin DOMAIN t.bus /\ OneHop(t, e[1], e[2])
       THEN [out |-> LastBufferTo(t, e[1], e[2]), next |-> e[2]]
     ELSE NoRoute]

\* The configured steps in the order in which they are read: by the node they
\* start from, then by the destination.
Steps(t) ==
  LET pairs == FlattenSeq([i \in DOMAIN t.nodes |->
                 [j \in DOMAIN t.nodes |-> <<t.nodes[i], t.nodes[j]>>]])
  IN  SelectSeq(pairs, LAMBDA e : e \in DOMAIN t.routes)

\* net_routing_table_route_update for step e: the virtual channel is counted
\* from the first buffer of the link.
RouteUpdate(t, R, e) ==
  LET n  == t.routes[e][1]
      vc == t.routes[e][2]
      b  == BufferTo(t, e[1], n)
  IN  [R EXCEPT ![e] =
         [out |-> IF vc = 0 THEN b ELSE t.out[e[1]][vc + IndexOf(t.out[e[1]], b)],
          next |-> n]]

\* The table after each step of the Routes section.
Configured(t) ==
  LET steps == Steps(t)
      After[k \in 0 .. Len(steps)] ==
        IF k = 0 THEN OneHopRoutes(t) ELSE RouteUpdate(t, After[k - 1], steps[k])
  IN  [k \in DOMAIN steps |-> After[k]]

\* The tables in which cycles are searched: the shortest paths, or the table
\* after every step, where a later step may take away what was a cycle.
Searched(t) == IF DOMAIN t.routes = {} THEN <<FloydWarshall(t)>> ELSE Configured(t)

Table(t) == Last(Searched(t))

(***************************************************************************)
(* net_routing_table_cycle_detection: a depth-first search over the output *)
(* buffers.  From a buffer it goes to the one that the next node uses for  *)
(* the same destination; a grey buffer found by somebody else is a cycle.  *)
(***************************************************************************)
\* The buffers after b, in the order of the destinations.
Adjacent(t, R, b) ==
  LET n  == NodeOf(t, b)
      ds == SelectSeq(t.nodes, LAMBDA d : R[<<n, d>>].out = b)
      bs == [k \in DOMAIN ds |-> R[<<R[<<n, ds[k]>>].next, ds[k]>>].out]
  IN  SelectSeq(bs, LAMBDA x : x # NoBuffer)

\* What the search knows: the colour of every buffer, which one it came from, and
\* whether it has found a cycle.
Search(t) ==
  [color : [Outs(t) -> {"white", "gray", "black"}], parent : [Outs(t) -> Outs(t)],
   cycle : BOOLEAN]

DfsVisit(t, R, s, b) ==
  LET Visit[x \in Search(t) \X Outs(t)] ==
        LET Look(a, y) ==
              IF a.cycle THEN a
              ELSE LET v == IF a.color[y] = "white"
                              THEN Visit[<<[a EXCEPT !.parent[y] = x[2]], y>>]
                              ELSE a
                   IN  IF v.color[y] = "gray" /\ v.parent[y] # x[2]
                         THEN [v EXCEPT !.cycle = TRUE] ELSE v
            done == FoldLeft(Look, [x[1] EXCEPT !.color[x[2]] = "gray"],
                             Adjacent(t, R, x[2]))
        IN  [done EXCEPT !.color[x[2]] = "black"]
  IN  Visit[<<s, b>>]

FindsCycle(t, R) ==
  LET Root(s, b) ==
        IF s.cycle \/ s.color[b] # "white" THEN s ELSE DfsVisit(t, R, s, b)
      start == [color  |-> [b \in Outs(t) |-> "white"],
                parent |-> [b \in Outs(t) |-> b],
                cycle  |-> FALSE]
  IN  FoldLeft(Root, start, FlattenSeq([k \in DOMAIN t.nodes |-> t.out[t.nodes[k]]])).cycle

\* has_cycle stays set: what a search found, no later one takes back.
HasCycle(t) == \E k \in DOMAIN Searched(t) : FindsCycle(t, Searched(t)[k])

(***************************************************************************)
(* Reference definitions.                                                  *)
(***************************************************************************)
\* The nodes that i reaches in at most k hops.
Within(t, i, k) ==
  LET Hops(S) == S \cup {n \in Nodes(t) : \E x \in S : x \notin DOMAIN t.bus /\ OneHop(t, x, n)}
      W[m \in 0 .. k] == IF m = 0 THEN {i} ELSE Hops(W[m - 1])
  IN  W[k]

\* Following the table R from i leads to j in exactly k hops.
Leads(R, i, j, k) ==
  LET Hop(n) == IF n = None THEN None ELSE R[<<n, j>>].next
      At[m \in 0 .. k] == IF m = 0 THEN i ELSE Hop(At[m - 1])
  IN  At[k] = j /\ \A m \in 0 .. k - 1 : At[m] # j

\* The output buffers that depend on themselves: a cycle, by the
\* destinations, of buffers each followed by the next.
Circular(t, R) ==
  LET after == [b \in Outs(t) |-> Range(Adjacent(t, R, b))]
      More(S) == S \cup UNION {after[b] : b \in S}
      From(b) == LET S[m \in Nat] == IF m = 0 THEN after[b] ELSE More(S[m - 1])
                 IN  S[Cardinality(Outs(t))]
  IN  {b \in Outs(t) : b \in From(b)}
=============================================================================

----------------------------- MODULE MCNetwork ------------------------------
(***************************************************************************)
(* Small networks: end nodes around a switch, a link with two virtual      *)
(* channels, routes configured over two buses, a bus and a photonic link   *)
(* with two lanes, a network with a fixed delay, every way to connect      *)
(* three switches, and a bus that one node only writes to and another only *)
(* reads from.                                                             *)
(***************************************************************************)
EXTENDS Network, TLC

Empty == <<>>

\* The same function, built at once: TLC would evaluate its values each time.
Built(f) == f @@ Empty

\* A link from node i to node j with v channels: <<i, j, channel, side>>
\* names its buffers.
Chan(i, j, v, side) == [c \in 1 .. v |-> <<i, j, c, side>>]

\* The record of a network with the nodes ns, the links ls (pairs of nodes
\* with a number of channels) and the buses bs (sources and destinations).
MakeNet(ns, ls, bs, size, routes, packet, fixed, msgs) ==
  LET Buses == DOMAIN bs
      Srcs(b) == bs[b].src
      Dsts(b) == bs[b].dst
      OutOf(n) == FlattenSeq([k \in DOMAIN ls |->
                     IF ls[k][1] = n THEN Chan(n, ls[k][2], ls[k][3], "out") ELSE <<>>])
                  \o FlattenSeq([k \in DOMAIN ns |->
                     IF ns[k] \in Buses /\ n \in Range(Srcs(ns[k]))
                       THEN Chan(n, ns[k], 1, "out") ELSE <<>>])
      InOf(n) == FlattenSeq([k \in DOMAIN ls |->
                     IF ls[k][2] = n THEN Chan(ls[k][1], n, ls[k][3], "in") ELSE <<>>])
                 \o FlattenSeq([k \in DOMAIN ns |->
                     IF ns[k] \in Buses /\ n \in Range(Dsts(ns[k]))
                       THEN Chan(ns[k], n, 1, "in") ELSE <<>>])
      Bufs == UNION {Range(OutOf(n)) \cup Range(InOf(n)) : n \in Range(ns)}
      Links == Range(ls)
      Ends(b, list, side) ==
        [k \in DOMAIN list |-> IF side = "out" THEN <<list[k], b, 1, side>>
                               ELSE <<b, list[k], 1, side>>]
  IN  [nodes |-> ns,
       out   |-> Built([n \in Range(ns) |-> OutOf(n)]),
       in    |-> Built([n \in Range(ns) |-> InOf(n)]),
       link  |-> Built([l \in Links |->
                   [src |-> Built(Chan(l[1], l[2], l[3], "out")),
                    dst |-> Built(Chan(l[1], l[2], l[3], "in")), bandwidth |-> 1]]),
       bus   |-> Built([b \in Buses |->
                   [src |-> Built(Ends(b, Srcs(b), "out")),
                    dst |-> Built(Ends(b, Dsts(b), "in")),
                    lanes |-> bs[b].lanes, bandwidth |-> 1, delay |-> 1,
                    photonic |-> bs[b].photonic]]),
       size  |-> Built([b \in Bufs |-> size]),
       bandwidth |-> Built([n \in Range(ns) |-> 1]),
       routes |-> routes, packet |-> packet, fixed |-> fixed, msgs |-> msgs]

M(s, d, n) == [src |-> s, dst |-> d, size |-> n]

Star == <<<<"a", "s", 1>>, <<"c", "s", 1>>, <<"s", "d", 1>>>>

Switch(fixed) ==
  MakeNet(<<"a", "c", "s", "d">>, Star, Empty, 2, Empty, 0, fixed,
          <<M("a", "d", 2), M("c", "d", 2), M("a", "d", 1)>>)

Channels ==
  LET step(x, y, n, v) == <<x, y>> :> <<n, v>>
  IN  MakeNet(<<"a", "c", "s", "r", "d", "e">>,
              <<<<"a", "s", 1>>, <<"c", "s", 1>>, <<"s", "r", 2>>, <<"r", "d", 1>>, <<"r", "e", 1>>>>,
              Empty, 1,
              step("a", "d", "s", 0) @@ step("a", "e", "s", 0) @@ step("c", "e", "s", 0)
                @@ step("s", "d", "r", 0) @@ step("s", "e", "r", 1)
                @@ step("r", "d", "d", 0) @@ step("r", "e", "e", 0),
              1, 0, <<M("a", "d", 1), M("c", "e", 1), M("a", "e", 1)>>)

\* Each of the switches r and s writes to a bus that leads to the other one and
\* to an end node.  Packets for d go over r and s, those for e over s and r: a
\* cycle, until the last step sends those for d over the link from s.
Detour ==
  LET step(x, y, n) == <<x, y>> :> <<n, 0>>
      bus(x, y, z) == [src |-> <<x>>, dst |-> <<y, z>>, lanes |-> 1, photonic |-> FALSE]
  IN  MakeNet(<<"a", "r", "s", "e", "d", "bus1", "bus2">>,
              <<<<"a", "r", 1>>, <<"s", "d", 1>>>>,
              "bus1" :> bus("r", "s", "e") @@ "bus2" :> bus("s", "r", "d"), 1,
              step("a", "d", "r") @@ step("r", "d", "s") @@ step("s", "e", "r")
                @@ step("s", "d", "d"),
              1, 0, <<M("a", "d", 1)>>)

OneBus(photonic) ==
  MakeNet(<<"a", "c", "d", "bus">>, <<>>,
          "bus" :> [src |-> <<"a", "c", "d">>, dst |-> <<"a", "c", "d">>,
                    lanes |-> IF photonic THEN 2 ELSE 1, photonic |-> photonic],
          2, Empty, 1, 0,
          <<M("a", "d", 2), M("c", "a", 1), M("c", "d", 2)>>)

\* Every directed graph over three switches, without traffic.
Pairs == {e \in {"p", "q", "r"} \X {"p", "q", "r"} : e[1] # e[2]}
Graph(E) ==
  LET order == SetToSeq({<<e[1], e[2], 1>> : e \in E})
  IN  MakeNet(<<"p", "q", "r">>, order, Empty, 1, Empty, 0, 0, Empty)

MCNets == {Switch(0), Switch(2), Channels, Detour, OneBus(FALSE), OneBus(TRUE)}
            \cup {Graph(E) : E \in SUBSET Pairs}

\* The switch s only writes to the bus, the switch n only reads from it:
\* from n the way to x is the link to s and the bus.
SharedBus ==
  MakeNet(<<"x", "s", "n", "p", "y", "bus">>,
          <<<<"n", "s", 1>>, <<"y", "s", 1>>, <<"s", "y", 1>>, <<"n", "p", 1>>, <<"p", "n", 1>>>>,
          "bus" :> [src |-> <<"x", "s">>, dst |-> <<"x", "n">>, lanes |-> 1,
                    photonic |-> FALSE],
          1, Empty, 1, 0,
          <<M("x", "y", 1), M("p", "x", 1), M("p", "x", 1), M("y", "p", 1)>>)

BusNets == {SharedBus}

\* The messages fit their first buffers, as the theorem about WaitersHaveCause asks.
ASSUME MessagesFit == \A t \in MCNets \cup BusNets : Whole(t, Table(t))
=============================================================================

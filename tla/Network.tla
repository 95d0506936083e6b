------------------------------ MODULE Network -------------------------------
(***************************************************************************)
(* The interconnection network (src/src/network): messages cut in packets, *)
(* packets that move from output buffers over links, buses and photonic    *)
(* links to input buffers and through switches to output buffers, and the  *)
(* events that carry them.                                                 *)
(*                                                                         *)
(* Every clock is relative to the current cycle: a resource that the code  *)
(* marks busy until cycle + lat - 1 has lat here, one less after each      *)
(* cycle, and is free at 0 (busy < cycle).  sched_when is kept the same    *)
(* way, 1 standing for the current cycle.  The events of a cycle are       *)
(* handled in the order in which they were scheduled.                      *)
(***************************************************************************)
EXTENDS RoutingTable

CONSTANTS
  Nets,       \* the networks, each a record, see RoutingTable, with
              \*   size       bytes of each buffer
              \*   bandwidth  bytes per cycle of each switch
              \*   packet     bytes of a packet, 0 for whole messages
              \*   fixed      NetFixDelay, 0 for a network that is simulated
              \*   msgs       the messages: src, dst and size
  MaxDelay    \* no event is scheduled further ahead

VARIABLES
  net,        \* the network that is simulated
  table,      \* its routing table
  has_cycle,  \* whether a search for cycles found one, while it was made
  agenda,     \* agenda[d + 1]: the events due in d cycles, in order
  buf,        \* msg_list: the packets of each buffer, in order
  wakeup,     \* wakeup_list: the events that wait for room in each buffer
  readBusy, writeBusy,   \* of each buffer
  pktBusy,    \* of each packet
  laneBusy,   \* of each link and of each lane of a bus
  sched,      \* last decision of each arbiter: what was chosen and when
  last,       \* last_node_index and last_lane_index of each bus
  msg,        \* each message: unsent, trying, sent or received
  arrived     \* the packets of each message that were put together again

config == <<net, table, has_cycle>>
vars == <<net, table, has_cycle, agenda, buf, wakeup, readBusy, writeBusy, pktBusy, laneBusy,
          sched, last, msg, arrived>>
clocks == <<readBusy, writeBusy, pktBusy, laneBusy>>

Route(n, m) == table[<<n, net.msgs[m].dst>>]

Buffers(t) == UNION {Range(t.out[n]) \cup Range(t.in[n]) : n \in DOMAIN t.out}
Lanes(t) == UNION {{<<n, i>> : i \in 1 .. t.bus[n].lanes} : n \in DOMAIN t.bus}
Carriers(t) == DOMAIN t.link \cup Lanes(t)
Arbiters(t) == Outs(t) \cup Carriers(t)

\* net_packetizer: a message of one packet when packets have no size.
PacketSize(t, m) == IF t.packet = 0 THEN t.msgs[m].size ELSE t.packet
NumPackets(t, m) == ((t.msgs[m].size - 1) \div PacketSize(t, m)) + 1
Packets(t) == UNION {{<<m, i>> : i \in 1 .. NumPackets(t, m)} : m \in DOMAIN t.msgs}

\* The cycles that a packet of message m takes
Cycles(t, m, bandwidth) == ((PacketSize(t, m) - 1) \div bandwidth) + 1
Latency(p, bandwidth) == Cycles(net, p[1], bandwidth)

Bytes(b) == FoldLeft(LAMBDA s, p : s + PacketSize(net, p[1]), 0, buf[b])
\* Mutated form of Fits: a buffer is never filled up.
FitsStrictly(b, size) == Bytes(b) + size < net.size[b]

\* There is room for so many bytes in buffer b.
Fits(b, size) == Bytes(b) + size <= net.size[b]

(***************************************************************************)
(* What the networks are, by their construction or because the program     *)
(* ends with a fatal error otherwise.                                      *)
(***************************************************************************)
Ins(t) == UNION {Range(t.in[n]) : n \in DOMAIN t.in}
Owned(t, n) == Range(t.out[n]) \cup Range(t.in[n])

\* A buffer has one node and one direction; links and buses lead from output to input
\* buffers.
Wired(t) ==
  /\ DOMAIN t.out = Nodes(t) /\ DOMAIN t.in = Nodes(t)
  /\ \A n, k \in Nodes(t) : Owned(t, n) \cap Owned(t, k) # {} => n = k
  /\ Ins(t) \cap Outs(t) = {}
  /\ \A l \in DOMAIN t.link :
       /\ t.link[l].src \in Seq(Outs(t)) /\ DOMAIN t.link[l].dst = DOMAIN t.link[l].src
       /\ Range(t.link[l].dst) \subseteq Ins(t)
  /\ \A n \in DOMAIN t.bus : Range(t.bus[n].dst) \subseteq Ins(t)

\* The nodes that routing table R leads message m through
Way(t, R, m) ==
  LET dst == t.msgs[m].dst
      Onto(n) ==
        LET r == R[<<n, dst>>]
        IN  {NodeOf(t, b) : b \in UNION {Range(t.link[l].dst) : l \in LinksOf(t, r.out)}}
              \cup {r.next : x \in BusesOf(t, r.out)}
      After[i \in 0 .. Dim(t)] ==
        IF i = 0 THEN {t.msgs[m].src}
        ELSE LET w == After[i - 1] IN w \cup UNION {Onto(n) : n \in w \ {dst}}
  IN  After[Dim(t)]

\* It leads every message on: message.c:160 and 789, no route.
Routed(t, R) ==
  \A m \in DOMAIN t.msgs :
    LET dst == t.msgs[m].dst
        src == t.msgs[m].src
        way == Way(t, R, m)
    IN  /\ src \in Nodes(t) /\ src # dst /\ src \in way
        /\ \A n \in Nodes(t) : n # dst /\ n \in way =>
             LET r == R[<<n, dst>>] IN
             /\ r.out \in Range(t.out[n])
             /\ \A l \in LinksOf(t, r.out) : \A b \in Range(t.link[l].dst) : NodeOf(t, b) \in way
             /\ \A x \in BusesOf(t, r.out) :
                  r.next \in way /\ \E b \in Range(t.bus[x].dst) : NodeOf(t, b) = r.next

\* A message is not larger than its first buffer (network.c:598) and a packet not larger
\* than those that it comes to (message.c:328, 447, 613, 820).
Roomy(t, R) ==
  \A m \in DOMAIN t.msgs :
    LET dst == t.msgs[m].dst
        way == Way(t, R, m)
        Room(b) == PacketSize(t, m) <= t.size[b]
    IN  /\ t.msgs[m].size <= t.size[R[<<t.msgs[m].src, dst>>].out]
        /\ t.fixed = 0 => \A n \in Nodes(t) : n # dst /\ n \in way =>
             LET r == R[<<n, dst>>] IN
             /\ n # t.msgs[m].src => Room(r.out)
             /\ \A l \in LinksOf(t, r.out) : \A b \in Range(t.link[l].dst) : Room(b)
             /\ \A x \in BusesOf(t, r.out) : \A b \in Range(t.bus[x].dst) :
                  NodeOf(t, b) = r.next => Room(b)

\* Every message fits its first buffer when it is rounded up to whole packets: the code does
\* not see to it (network.c:598 is before 612).
Whole(t, R) ==
  \A m \in DOMAIN t.msgs :
    PacketSize(t, m) * NumPackets(t, m) <= t.size[R[<<t.msgs[m].src, t.msgs[m].dst>>].out]

\* Sizes are positive, and MaxDelay is enough.
Timed(t) ==
  /\ t.fixed \in 0 .. MaxDelay /\ t.packet \in Nat
  /\ \A b \in Buffers(t) : t.size[b] \in Nat \ {0}
  /\ \A m \in DOMAIN t.msgs :
       /\ t.msgs[m].size \in Nat \ {0}
       /\ \A n \in Nodes(t) : Cycles(t, m, t.bandwidth[n]) \in 1 .. MaxDelay
       /\ \A l \in DOMAIN t.link : Cycles(t, m, t.link[l].bandwidth) \in 1 .. MaxDelay
       /\ \A n \in DOMAIN t.bus :
            LET B == t.bus[n] IN
            Cycles(t, m, B.bandwidth) + (IF B.photonic THEN 0 ELSE B.delay) \in 1 .. MaxDelay

ASSUME DelayAssumption == MaxDelay \in Nat \ {0}

ASSUME NetsAssumption ==
  \A t \in Nets : Wired(t) /\ Routed(t, Table(t)) /\ Roomy(t, Table(t)) /\ Timed(t)

Init ==
  /\ net \in Nets /\ table = Table(net) /\ has_cycle = HasCycle(net)
  /\ agenda = [d \in 1 .. MaxDelay + 1 |-> <<>>]
  /\ buf = [b \in Buffers(net) |-> <<>>] /\ wakeup = buf
  /\ readBusy = [b \in Buffers(net) |-> 0] /\ writeBusy = readBusy
  /\ pktBusy = [p \in Packets(net) |-> 0]
  /\ laneBusy = [l \in Carriers(net) |-> 0]
  /\ sched = [a \in Arbiters(net) |-> [buffer |-> NoBuffer, when |-> 0]]
  /\ last = [n \in DOMAIN net.bus |-> [node |-> 0, lane |-> 0]]
  /\ msg = [m \in DOMAIN net.msgs |-> "unsent"]
  /\ arrived = [m \in DOMAIN net.msgs |-> 0]

(***************************************************************************)
(* Events, waits and arbiters.                                             *)
(***************************************************************************)
Ev(kind, x) == [kind |-> kind, of |-> x]
Due(e) == agenda[1] # <<>> /\ Head(agenda[1]) = e
Popped == [agenda EXCEPT ![1] = Tail(@)]
Schedule(A, e, d) == [A EXCEPT ![d + 1] = Append(@, e)]

Place(p) == CHOOSE b \in DOMAIN buf : p \in Range(buf[b])
IsHead(p, b) == Head(buf[b]) = p

\* net_buffer_wait: the event waits for the next packet that leaves b.
Wait(A, e, b) ==
  /\ wakeup' = [wakeup EXCEPT ![b] = Append(@, e)]
  /\ agenda' = A

\* Mutated form of WakeUp: only the first is woken up.
WakeFirst(A, b) == [A EXCEPT ![1] = @ \o IF wakeup[b] = <<>> THEN <<>> ELSE <<Head(wakeup[b])>>]

\* net_buffer_wakeup schedules every event that waits, for this cycle.
WakeUp(A, b) == [A EXCEPT ![1] = @ \o wakeup[b]]

\* The first of the positions S after position k, going round.
NextOf(S, k, n) == CHOOSE i \in S : \A j \in S : (i + n - k - 1) % n <= (j + n - k - 1) % n

\* A packet at the head of b, ready, of a buffer that can be read.
Ready(b) == buf[b] # <<>> /\ pktBusy[Head(buf[b])] = 0 /\ readBusy[b] = 0

\* The round robin of net_node_schedule and net_link_arbitrator_vc among the
\* buffers bs: the one after the last chosen, the first position standing
\* for a decision that chose none.
Chosen(s, bs, ok) ==
  IF ok = {} THEN NoBuffer
  ELSE bs[NextOf(ok, IF s.buffer = NoBuffer THEN 1 ELSE IndexOf(bs, s.buffer), Len(bs))]

\* Mutated form of Decide: the last choice stands.
DecideOnce(a, bs, busy, ok) ==
  IF sched[a].buffer # NoBuffer THEN sched[a]
  ELSE [buffer |-> IF busy > 0 THEN NoBuffer ELSE Chosen(sched[a], bs, ok), when |-> 1]

\* An arbiter decides once per cycle.
Decide(a, bs, busy, ok) ==
  IF sched[a].when = 1 THEN sched[a]
  ELSE [buffer |-> IF busy > 0 THEN NoBuffer ELSE Chosen(sched[a], bs, ok), when |-> 1]

NodeSchedule(n, out) ==
  Decide(out, net.in[n], writeBusy[out],
         {i \in DOMAIN net.in[n] :
            LET b == net.in[n][i]
            IN  /\ Ready(b)
                /\ Route(n, Head(buf[b])[1]).out = out
                /\ Fits(out, PacketSize(net, Head(buf[b])[1]))})

LinkArbitratorVc(l) ==
  Decide(l, net.link[l].src, laneBusy[l],
         {i \in DOMAIN net.link[l].src : Ready(net.link[l].src[i])})

\* One lane of a bus chooses among the source buffers (the two kinds of bus
\* look at a busy lane and at the decision of this cycle in opposite
\* orders).  a: the arbiters and the index as they are by now, and the lane
\* that was won.
LaneDecides(n, b, a, lane) ==
  LET l     == <<n, lane>>
      B     == net.bus[n]
      same  == a.sched[l].when = 1
      ready == {i \in DOMAIN B.src : Ready(B.src[i])}
      i     == NextOf(ready, a.node + 1, Len(B.src))
      none  == [a EXCEPT !.sched[l].buffer = NoBuffer]
      fresh == [a EXCEPT !.sched[l].when = 1]
      s == CASE a.won # 0 -> a
             [] a.won = 0 /\ B.photonic /\ laneBusy[l] > 0 -> none
             [] a.won = 0 /\ same /\ ~(B.photonic /\ laneBusy[l] > 0) -> a
             [] a.won = 0 /\ ~same /\ ~B.photonic /\ laneBusy[l] > 0 ->
                  [none EXCEPT !.sched[l].when = 1]
             [] OTHER -> IF ready = {} THEN [none EXCEPT !.sched[l].when = 1]
                         ELSE [fresh EXCEPT !.sched[l].buffer = B.src[i], !.node = i - 1]
  IN  IF s.won = 0 /\ s.sched[l].buffer = b THEN [s EXCEPT !.won = lane] ELSE s

\* net_bus_arbitration tries the lanes in order, net_photo_link_arbitration
\* from the one after the last that was won.
BusArbitration(n, b) ==
  LET B == net.bus[n]
      order == [i \in 1 .. B.lanes |->
                  IF B.photonic THEN ((i + last[n].lane) % B.lanes) + 1 ELSE i]
  IN  FoldLeft(LAMBDA a, l : LaneDecides(n, b, a, l),
               [sched |-> sched, node |-> last[n].node, won |-> 0], order)

(***************************************************************************)
(* net_try_send_ev: a component sends a message, or its retry event fires. *)
(***************************************************************************)
\* net_can_send_ev rounds the size up to whole packets.
RequiredSize(m) == PacketSize(net, m) * NumPackets(net, m)

PacketsOf(m) == [i \in 1 .. NumPackets(net, m) |-> <<m, i>>]

\* Every packet of the message gets its event.
Start(A, kind, m, d) ==
  [A EXCEPT ![d + 1] = @ \o [i \in DOMAIN PacketsOf(m) |-> Ev(kind, PacketsOf(m)[i])]]

TrySend(m, A) ==
  LET out == Route(net.msgs[m].src, m).out
  IN  /\ UNCHANGED <<config, readBusy, laneBusy, sched, last, arrived>>
      /\ \/ /\ writeBusy[out] > 0
            /\ agenda' = Schedule(A, Ev("retry", m), writeBusy[out])
            /\ msg' = [msg EXCEPT ![m] = "trying"]
            /\ UNCHANGED <<buf, wakeup, writeBusy, pktBusy>>
         \/ /\ writeBusy[out] = 0 /\ ~Fits(out, RequiredSize(m))
            /\ Wait(A, Ev("retry", m), out)
            /\ msg' = [msg EXCEPT ![m] = "trying"]
            /\ UNCHANGED <<buf, writeBusy, pktBusy>>
         \/ /\ writeBusy[out] = 0 /\ Fits(out, RequiredSize(m)) /\ net.fixed = 0
            /\ msg' = [msg EXCEPT ![m] = "sent"]
            /\ buf' = [buf EXCEPT ![out] = @ \o PacketsOf(m)]
            /\ writeBusy' = [writeBusy EXCEPT ![out] = 1]
            /\ pktBusy' = [p \in DOMAIN pktBusy |-> IF p[1] = m THEN 1 ELSE pktBusy[p]]
            /\ agenda' = Start(A, "output", m, 1)
            /\ UNCHANGED wakeup
         \/ /\ writeBusy[out] = 0 /\ Fits(out, RequiredSize(m)) /\ net.fixed > 0
            /\ msg' = [msg EXCEPT ![m] = "sent"]
            /\ agenda' = Start(A, "receive", m, net.fixed)
            /\ UNCHANGED <<buf, wakeup, writeBusy, pktBusy>>

Send(m) == msg[m] = "unsent" /\ TrySend(m, agenda)

Retry(m) == Due(Ev("retry", m)) /\ TrySend(m, Popped)

(***************************************************************************)
(* net_event_handler.                                                      *)
(***************************************************************************)
\* The event finds something busy and comes back in d cycles.
Again(e, d) ==
  /\ agenda' = Schedule(Popped, e, d)
  /\ UNCHANGED <<buf, wakeup, readBusy, writeBusy, pktBusy>>

\* The event waits for a packet to leave b.
WaitFor(e, b) ==
  /\ Wait(Popped, e, b)
  /\ UNCHANGED <<buf, readBusy, writeBusy, pktBusy>>

\* The packet goes from the head of one buffer to the end of the next.
Transfer(p, from, to, lat, kind) ==
  /\ buf' = [buf EXCEPT ![from] = Tail(@), ![to] = Append(@, p)]
  /\ wakeup' = [wakeup EXCEPT ![from] = <<>>]
  /\ agenda' = Schedule(WakeUp(Popped, from), Ev(kind, p), lat)
  /\ readBusy' = [readBusy EXCEPT ![from] = lat]
  /\ writeBusy' = [writeBusy EXCEPT ![to] = lat]
  /\ pktBusy' = [pktBusy EXCEPT ![p] = lat]


\* A packet that does not stand at the head of its buffer, in either queue,
\* waits for the one before it to leave.
NotHead(p, kind) ==
  /\ Due(Ev(kind, p)) /\ ~IsHead(p, Place(p))
  /\ WaitFor(Ev(kind, p), Place(p))
  /\ UNCHANGED <<config, laneBusy, sched, last, msg, arrived>>

BufferBusy(p, kind) ==
  LET b == Place(p)
  IN  /\ Due(Ev(kind, p)) /\ IsHead(p, b) /\ readBusy[b] > 0
      /\ kind = "input" => NodeOf(net, b) # net.msgs[p[1]].dst
      /\ Again(Ev(kind, p), readBusy[b])
      /\ UNCHANGED <<config, laneBusy, sched, last, msg, arrived>>

Stalled(p) == NotHead(p, "output") \/ NotHead(p, "input")
                \/ BufferBusy(p, "output") \/ BufferBusy(p, "input")

Leaving(p, b) == Due(Ev("output", p)) /\ b = Place(p) /\ IsHead(p, b) /\ readBusy[b] = 0

\* EV_NET_OUTPUT_BUFFER over a link.
OverLink(p) == \E b \in Outs(net) : \E l \in LinksOf(net, b) :
  LET e   == Ev("output", p)
      vcs == Len(net.link[l].src) > 1
      s   == LinkArbitratorVc(l)
      dst == net.link[l].dst[IndexOf(net.link[l].src, b)]
      lat == Latency(p, net.link[l].bandwidth)
  IN  /\ Leaving(p, b)
      /\ UNCHANGED <<config, last, msg, arrived>>
      /\ \/ /\ laneBusy[l] > 0
            /\ Again(e, laneBusy[l])
            /\ UNCHANGED <<laneBusy, sched>>
         \/ /\ laneBusy[l] = 0
            /\ sched' = IF vcs THEN [sched EXCEPT ![l] = s] ELSE sched
            /\ IF vcs /\ s.buffer # b
                 THEN Again(e, 1) /\ UNCHANGED laneBusy
               ELSE IF writeBusy[dst] > 0
                 THEN Again(e, writeBusy[dst]) /\ UNCHANGED laneBusy
               ELSE IF ~Fits(dst, PacketSize(net, p[1]))
                 THEN WaitFor(e, dst) /\ UNCHANGED laneBusy
               ELSE /\ Transfer(p, b, dst, lat, "input")
                    /\ laneBusy' = [laneBusy EXCEPT ![l] = lat]

\* The input buffer of the bus at the next node of the route.
BusDestination(p, b, n) ==
  LET next == Route(NodeOf(net, b), p[1]).next
  IN  net.bus[n].dst[CHOOSE i \in DOMAIN net.bus[n].dst : NodeOf(net, net.bus[n].dst[i]) = next]

\* EV_NET_OUTPUT_BUFFER over a bus or a photonic link: the destination is
\* looked at first, and a lane is won last.
OverBus(p) == \E b \in Outs(net) : \E n \in BusesOf(net, b) :
  LET e    == Ev("output", p)
      B    == net.bus[n]
      dst  == BusDestination(p, b, n)
      a    == BusArbitration(n, b)
      lane == <<n, a.won>>
      lat  == Latency(p, B.bandwidth) + (IF B.photonic THEN 0 ELSE B.delay)
      busy == writeBusy[dst] > (IF B.photonic THEN 1 ELSE 0)
  IN  /\ Leaving(p, b)
      /\ UNCHANGED <<config, msg, arrived>>
      /\ \/ busy /\ Again(e, writeBusy[dst]) /\ UNCHANGED <<laneBusy, sched, last>>
         \/ /\ ~busy /\ ~Fits(dst, PacketSize(net, p[1]))
            /\ WaitFor(e, dst) /\ UNCHANGED <<laneBusy, sched, last>>
         \/ /\ ~busy /\ Fits(dst, PacketSize(net, p[1])) /\ a.won = 0
            /\ sched' = a.sched
            /\ last' = [last EXCEPT ![n].node = a.node]
            /\ Again(e, 1) /\ UNCHANGED laneBusy
         \/ /\ ~busy /\ Fits(dst, PacketSize(net, p[1])) /\ a.won # 0
            /\ sched' = IF B.photonic THEN a.sched
                        ELSE [a.sched EXCEPT ![lane].when = lat]
            /\ last' = [last EXCEPT ![n] = [node |-> a.node,
                          lane |-> IF B.photonic THEN a.won - 1 ELSE @.lane]]
            /\ Transfer(p, b, dst, lat, "input")
            /\ laneBusy' = [laneBusy EXCEPT ![lane] = lat]

\* EV_NET_INPUT_BUFFER at the destination.
AtDestination(p) ==
  LET b == Place(p)
  IN  /\ Due(Ev("input", p)) /\ IsHead(p, b) /\ NodeOf(net, b) = net.msgs[p[1]].dst
      /\ Again(Ev("receive", p), 0)
      /\ UNCHANGED <<config, laneBusy, sched, last, msg, arrived>>

\* EV_NET_INPUT_BUFFER at a switch.
ThroughSwitch(p) ==
  LET e   == Ev("input", p)
      b   == Place(p)
      n   == NodeOf(net, b)
      out == Route(n, p[1]).out
      s   == NodeSchedule(n, out)
  IN  /\ Due(e) /\ IsHead(p, b) /\ n # net.msgs[p[1]].dst /\ readBusy[b] = 0
      /\ UNCHANGED <<config, laneBusy, last, msg, arrived>>
      /\ \/ writeBusy[out] > 0 /\ Again(e, writeBusy[out]) /\ UNCHANGED sched
         \/ /\ writeBusy[out] = 0 /\ ~Fits(out, PacketSize(net, p[1]))
            /\ WaitFor(e, out) /\ UNCHANGED sched
         \/ /\ writeBusy[out] = 0 /\ Fits(out, PacketSize(net, p[1]))
            /\ sched' = [sched EXCEPT ![out] = s]
            /\ \/ s.buffer # b /\ Again(e, 1)
               \/ s.buffer = b /\ Transfer(p, b, out, Latency(p, net.bandwidth[n]), "output")

\* EV_NET_RECEIVE: net_depacketizer takes the packet from the input buffer;
\* the last packet of a message schedules the event of its component.
Receive(p) ==
  LET m    == p[1]
      done == arrived[m] + 1 = NumPackets(net, m)
      Then(A) == IF done THEN Schedule(A, Ev("received", m), 0) ELSE A
  IN  /\ Due(Ev("receive", p))
      /\ arrived' = [arrived EXCEPT ![m] = @ + 1]
      /\ IF net.fixed > 0
           THEN agenda' = Then(Popped) /\ UNCHANGED <<buf, wakeup>>
           ELSE LET b == Place(p)
                IN  /\ buf' = [buf EXCEPT ![b] = Tail(@)]
                    /\ wakeup' = [wakeup EXCEPT ![b] = <<>>]
                    /\ agenda' = Then(WakeUp(Popped, b))
      /\ UNCHANGED <<config, readBusy, writeBusy, pktBusy, laneBusy, sched, last, msg>>

\* The component takes the message with net_receive.
Received(m) ==
  /\ Due(Ev("received", m))
  /\ msg' = [msg EXCEPT ![m] = "received"]
  /\ agenda' = Popped
  /\ UNCHANGED <<config, buf, wakeup, clocks, sched, last, arrived>>

(***************************************************************************)
(* esim: the next cycle, when no event of this one is left.                *)
(***************************************************************************)
Elapse(f) == [x \in DOMAIN f |-> IF f[x] > 0 THEN f[x] - 1 ELSE 0]

NextCycle ==
  /\ agenda[1] = <<>> /\ \E d \in DOMAIN agenda : agenda[d] # <<>>
  /\ agenda' = Append(Tail(agenda), <<>>)
  /\ readBusy' = Elapse(readBusy) /\ writeBusy' = Elapse(writeBusy)
  /\ pktBusy' = Elapse(pktBusy) /\ laneBusy' = Elapse(laneBusy)
  /\ sched' = [a \in DOMAIN sched |->
                 [sched[a] EXCEPT !.when = IF @ > 0 THEN @ - 1 ELSE 0]]
  /\ UNCHANGED <<config, buf, wakeup, last, msg, arrived>>

Handle(p) ==
  Stalled(p) \/ OverLink(p) \/ OverBus(p) \/ AtDestination(p) \/ ThroughSwitch(p) \/ Receive(p)

Simulate ==
  \/ \E p \in Packets(net) : Handle(p)
  \/ \E m \in DOMAIN net.msgs : Retry(m) \/ Received(m)
  \/ NextCycle

\* No event is left: the simulation is over, or stalls.
Idle == /\ \A d \in DOMAIN agenda : agenda[d] = <<>>
        /\ \A m \in DOMAIN net.msgs : msg[m] # "unsent"
        /\ UNCHANGED vars

Next == Simulate \/ (\E m \in DOMAIN net.msgs : Send(m)) \/ Idle

Spec == Init /\ [][Next]_vars

\* The simulator handles events as long as there are any.
FairSpec == Spec /\ WF_vars(Simulate)

(***************************************************************************)
(* Properties.                                                             *)
(***************************************************************************)
\* The places of the events E in the lists of a function
Places(lists, E) ==
  UNION {{<<x, i>> : i \in {i \in DOMAIN lists[x] : lists[x][i] \in E}} : x \in DOMAIN lists}

\* How often events of E are scheduled or wait.
Times(E) == Cardinality(Places(agenda, E)) + Cardinality(Places(wakeup, E))

InBuffer(p) == \E b \in DOMAIN buf : p \in Range(buf[b])

Events(p) == {Ev(kind, p) : kind \in {"output", "input", "receive"}}

\* A packet in a buffer has exactly one event, scheduled or waiting, and so
\* has a message that waits to be sent: extracting a packet wakes everybody
\* who waits (buffer.c:207), and no event is lost or scheduled twice.
OneEventEach ==
  /\ \A p \in Packets(net) : InBuffer(p) => Times(Events(p)) = 1
  /\ \A m \in DOMAIN net.msgs :
       Times({Ev("retry", m)}) = IF msg[m] = "trying" THEN 1 ELSE 0

\* Whoever waits for a buffer waits for a packet that is in it, the
\* assertion of net_buffer_wait (buffer.c:196) for as long as they wait:
\* nobody waits for an empty buffer, which nothing would ever leave.
WaitersHaveCause == \A b \in DOMAIN wakeup : wakeup[b] # <<>> => buf[b] # <<>>

\* Without a cycle in the routing table the simulation does not stall: no
\* event is left only when every message was received (the warning of
\* routing-table.c:123, net_err_cycle, is what announces a stall).
NoStall ==
  (~has_cycle /\ \A d \in DOMAIN agenda : agenda[d] = <<>>)
    => \A m \in DOMAIN msg : msg[m] \in {"unsent", "received"}

\* Every message that a component tries to send is received, if the routing
\* table has no cycle: arbiters that take turns, busy buffers and full ones
\* only delay a packet.  (There are finitely many messages, so each is
\* received if again and again none is under way.)
Delivered ==
  []<>(has_cycle \/ \A m \in DOMAIN msg : msg[m] \in {"unsent", "received"})

\* The table of Floyd and Warshall leads from every node to every other one
\* that can be reached, in as few hops as there are; and the depth-first
\* search finds a cycle exactly when an output buffer depends on itself, in
\* that table or, with configured routes, in the table after any of the steps.
\* The table never changes, so the initial states are enough.
RoutesAreShortest ==
  LET Ends == Nodes(net) \ DOMAIN net.bus
  IN  (\A m \in DOMAIN msg : msg[m] = "unsent") =>
        /\ DOMAIN net.routes = {} =>
             \A i, j \in Ends : i # j =>
               IF j \in Within(net, i, Dim(net))
                 THEN \E k \in 1 .. Dim(net) :
                        /\ j \in Within(net, i, k) /\ j \notin Within(net, i, k - 1)
                        /\ Leads(table, i, j, k)
                 ELSE table[<<i, j>>] = NoRoute
        /\ has_cycle <=> \E k \in DOMAIN Searched(net) : Circular(net, Searched(net)[k]) # {}
=============================================================================

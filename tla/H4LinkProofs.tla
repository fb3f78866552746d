---------------------------- MODULE H4LinkProofs ----------------------------
(***************************************************************************)
(* Proofs about H4Link for every set of packets of the controller, every   *)
(* size of the packets of the host, every receive ring and any number of   *)
(* power cycles, as long as no completion flag of the driver is left set   *)
(* when the transport is opened again.  Inv says how the bytes in          *)
(* hci_packet, in the ring and on the wire are cut into the packets that   *)
(* are on their way, and what the state machine knows of the first one.    *)
(***************************************************************************)
EXTENDS H4Link, SequenceTheorems, TLAPS

Size(p) == 1 + HeaderSize(p.kind) + p.len

(* The bytes the host has not dealt with: the block the HAL fills, the     *)
(* ring and the wire.                                                      *)
Total(l) == l.rxAt + Len(l.ring) + Len(l.out)
At(l, i) ==
  IF i <= l.rxAt THEN l.buf[i - 1]
  ELSE IF i <= l.rxAt + Len(l.ring) THEN l.ring[i - l.rxAt]
  ELSE l.out[i - l.rxAt - Len(l.ring)]

(* They are the packets q, one behind the other, cut at the places b.      *)
Cut(l, q, b) ==
  /\ b[1] = 0 /\ b[Len(q) + 1] = Total(l)
  /\ \A j, k \in 1..Len(q) + 1 : j <= k => b[j] <= b[k]
  /\ \A k \in 1..Len(q) :
       /\ b[k + 1] = b[k] + Size(q[k])
       /\ \A i \in 1..Size(q[k]) :
            At(l, b[k] + i) = [kind |-> q[k].kind, len |-> q[k].len, pos |-> i - 1]
Whole(l, q) == \E b \in [1..Len(q) + 1 -> 0..Total(l)] : Cut(l, q, b)

(* What the state machine reads belongs to the first packet.               *)
Shape(l, q) ==
  \/ l.h4 = "PACKET_TYPE" /\ l.pos = 0 /\ l.want = 1
  \/ /\ q # <<>> /\ l.pos = 1 /\ l.want = HeaderSize(q[1].kind)
     /\ l.h4 = IF q[1].kind = "event" THEN "EVENT_HEADER" ELSE "ACL_HEADER"
  \/ /\ l.h4 = "PAYLOAD" /\ q # <<>>
     /\ l.pos = 1 + HeaderSize(q[1].kind) /\ l.want = q[1].len /\ l.want > 0

(* A block is being read.                                                  *)
Block(l) ==
  /\ l.rxAt + l.rxLeft = l.pos + l.want /\ l.rxAt >= l.pos
  /\ l.received => l.rxLeft = 0

(* SentWhenWritten of a link.                                              *)
SentOk(l) ==
  /\ l.tx = "IDLE" => l.txLeft = 0 /\ ~l.sent
  /\ l.tx = "W4_PACKET_SENT" => (l.txLeft > 0) # l.sent

Open(l, q) == l.polled /\ l.tx # "OFF" /\ l.active /\ Block(l) /\ Shape(l, q) /\ Whole(l, q)
Closed(l, q) == /\ ~l.polled /\ l.tx = "OFF" /\ l.h4 = "OFF" /\ ~l.active
                /\ l.out = <<>> /\ q = <<>>

Good(l, q) ==
  /\ SentOk(l) /\ l.pos + l.want <= BufferSize /\ l.rxAt + l.rxLeft <= BufferSize
  /\ Open(l, q) \/ Closed(l, q)

Inv == TypeOK /\ Good(link, queue)

----------------------------------------------------------------------------
(* Bytes and packets                                                       *)

(* A packet of the controller has a header and fits hci_packet with it.    *)
LEMMA PacketFits ==
  ASSUME NEW p \in Packets
  PROVE  /\ p.kind \in {"event", "acl"} /\ p.len \in 0..MaxLen
         /\ p = [kind |-> p.kind, len |-> p.len]
         /\ HeaderSize(p.kind) \in {2, 4} /\ HeaderSize("event") = 2 /\ HeaderSize("acl") = 4
         /\ Size(p) = 1 + HeaderSize(p.kind) + p.len
         /\ Size(p) \in 1..BufferSize
         /\ MaxLen \in Nat /\ BufferSize \in Nat /\ BufferSize = 5 + MaxLen
  BY PacketAssumption, SizeAssumption DEF HeaderSize, Size, BufferSize

(* The bytes of a packet of the controller.                                *)
LEMMA PacketBytes ==
  ASSUME NEW p \in Packets
  PROVE  /\ Bytes(p) \in Seq(Byte) /\ Len(Bytes(p)) = Size(p)
         /\ \A i \in 1..Size(p) :
              Bytes(p)[i] = [kind |-> p.kind, len |-> p.len, pos |-> i - 1]
<1>1. Size(p) \in Nat /\ p.kind \in {"event", "acl"} /\ p.len \in 0..MaxLen
  BY PacketFits
<1>2. Bytes(p) = [i \in 1..Size(p) |-> [kind |-> p.kind, len |-> p.len, pos |-> i - 1]]
  BY DEF Bytes, Size
<1>3. \A i \in 1..Size(p) : [kind |-> p.kind, len |-> p.len, pos |-> i - 1] \in Byte
  BY <1>1 DEF Byte
<1> QED BY <1>1, <1>2, <1>3

(* The size of the transport's stream is a number.                         *)
LEMMA TotalIsNat ==
  ASSUME NEW l \in LinkType
  PROVE  /\ l.rxAt \in Nat /\ Len(l.ring) \in Nat /\ Len(l.out) \in Nat /\ Total(l) \in Nat
         /\ Total(l) = l.rxAt + Len(l.ring) + Len(l.out)
  BY SizeAssumption DEF LinkType, Total, BufferSize

(* Where a byte of the stream is.                                          *)
LEMMA AtIs ==
  ASSUME NEW l, NEW i, NEW a, a = l.rxAt, NEW w, w = Len(l.ring)
  PROVE  /\ i <= a => At(l, i) = l.buf[i - 1]
         /\ ~(i <= a) /\ i <= a + w => At(l, i) = l.ring[i - a]
         /\ ~(i <= a) /\ ~(i <= a + w) => At(l, i) = l.out[i - a - w]
  BY DEF At

(* What the cuts promise of each packet: it ends inside of the stream.     *)
LEMMA CutInside ==
  ASSUME NEW l \in LinkType, NEW q \in Seq(Packets),
         NEW b \in [1..Len(q) + 1 -> 0..Total(l)], Cut(l, q, b), NEW k \in 1..Len(q)
  PROVE  /\ b[k] \in Nat /\ b[k + 1] \in Nat /\ b[k + 1] = b[k] + Size(q[k])
         /\ b[k + 1] <= Total(l) /\ Size(q[k]) \in Nat
         /\ \A i \in 1..Size(q[k]) : b[k] + i \in 1..Total(l)
<1>1. Total(l) \in Nat
  BY TotalIsNat
<1>2. Len(q) \in Nat /\ k + 1 \in 1..Len(q) + 1 /\ k \in 1..Len(q) + 1 /\ q[k] \in Packets
  OBVIOUS
<1>3. Size(q[k]) \in Nat
  BY <1>2, PacketFits, SMTT(30)
<1>4. b[k] \in 0..Total(l) /\ b[k + 1] \in 0..Total(l)
  BY <1>2
<1>5. b[k + 1] = b[k] + Size(q[k])
  BY DEF Cut
<1> QED BY <1>1, <1>3, <1>4, <1>5

(* Only the bytes matter, not where they are.                              *)
LEMMA SameStream ==
  ASSUME NEW l \in LinkType, NEW m \in LinkType, NEW q \in Seq(Packets), Whole(l, q),
         Total(m) = Total(l), \A i \in 1..Total(l) : At(m, i) = At(l, i)
  PROVE  Whole(m, q)
<1>1. PICK b \in [1..Len(q) + 1 -> 0..Total(l)] : Cut(l, q, b)
  BY DEF Whole
<1>2. ASSUME NEW k \in 1..Len(q), NEW i \in 1..Size(q[k])
      PROVE  At(m, b[k] + i) = At(l, b[k] + i)
  <2>1. b[k] + i \in 1..Total(l)
    BY <1>1, CutInside
  <2> QED BY <2>1
<1>3. Cut(m, q, b)
  BY <1>1, <1>2 DEF Cut
<1> QED BY <1>3 DEF Whole

(* ... so a change of the other fields keeps the packets.                  *)
LEMMA SameBytes ==
  ASSUME NEW l \in LinkType, NEW m \in LinkType, NEW q \in Seq(Packets), Whole(l, q),
         m.rxAt = l.rxAt, m.ring = l.ring, m.out = l.out, m.buf = l.buf
  PROVE  Whole(m, q)
<1>1. Total(m) = Total(l) /\ \A i \in 1..Total(l) : At(m, i) = At(l, i)
  BY DEF Total, At
<1> QED BY <1>1, SameStream

(* An empty stream is no packet.                                           *)
LEMMA NothingOnTheWay ==
  ASSUME NEW l \in LinkType, l.rxAt = 0, l.ring = <<>>, l.out = <<>>
  PROVE  Whole(l, <<>>)
<1>1. Total(l) = 0
  BY DEF Total
<1>2. Len(<<>>) = 0
  OBVIOUS
<1> DEFINE b == [i \in 1..1 |-> 0]
<1>3. b \in [1..Len(<<>>) + 1 -> 0..Total(l)]
  BY <1>1, <1>2
<1>4. Cut(l, <<>>, b)
  BY <1>1, <1>2 DEF Cut
<1> QED BY <1>3, <1>4 DEF Whole

(* The first packet, if there is one, is at the start of the stream.       *)
LEMMA FirstPacket ==
  ASSUME NEW l \in LinkType, NEW q \in Seq(Packets), q # <<>>, Whole(l, q)
  PROVE  /\ Size(q[1]) <= Total(l) /\ q[1] \in Packets
         /\ \A i \in 1..Size(q[1]) :
              At(l, i) = [kind |-> q[1].kind, len |-> q[1].len, pos |-> i - 1]
<1>1. PICK b \in [1..Len(q) + 1 -> 0..Total(l)] : Cut(l, q, b)
  BY DEF Whole
<1>2. 1 \in 1..Len(q) /\ q[1] \in Packets
  BY EmptySeq
<1>3. b[1] = 0
  BY <1>1 DEF Cut
<1>4. b[2] = b[1] + Size(q[1]) /\ b[2] <= Total(l) /\ Size(q[1]) \in Nat
  BY <1>1, <1>2, CutInside
<1>5. \A i \in 1..Size(q[1]) :
        At(l, b[1] + i) = [kind |-> q[1].kind, len |-> q[1].len, pos |-> i - 1]
  BY <1>1, <1>2 DEF Cut
<1> QED BY <1>2, <1>3, <1>4, <1>5

(* A stream without a packet is empty.                                     *)
LEMMA NoPacketNoByte ==
  ASSUME NEW l \in LinkType, Whole(l, <<>>)
  PROVE  Total(l) = 0
  BY DEF Whole, Cut

----------------------------------------------------------------------------
(* What a handler of hci.c leaves of the transport                         *)

(* It sent, or did nothing.                                                *)
Stays(l, k) ==
  /\ k.h4 = l.h4 /\ k.pos = l.pos /\ k.want = l.want /\ k.active = l.active /\ k.buf = l.buf
  /\ k.received = l.received /\ k.polled = l.polled /\ k.rxAt = l.rxAt /\ k.rxLeft = l.rxLeft
  /\ k.ring = l.ring /\ k.out = l.out /\ k.cycles = l.cycles /\ (k.tx = "OFF") = (l.tx = "OFF")

(* It closed the transport.                                                *)
Shut(l, k) ==
  /\ k.h4 = "OFF" /\ k.pos = l.pos /\ k.want = l.want /\ ~k.active /\ k.buf = l.buf
  /\ k.received = l.received /\ ~k.polled /\ k.rxAt = l.rxAt /\ k.rxLeft = l.rxLeft
  /\ k.ring = l.ring /\ k.out = <<>> /\ k.cycles = l.cycles /\ k.tx = "OFF"

(* It opened the transport, again or for the first time.                   *)
Fresh(l, k) ==
  /\ k.h4 = "PACKET_TYPE" /\ k.pos = 0 /\ k.want = 1 /\ k.active /\ ~k.received /\ k.polled
  /\ k.rxAt = 0 /\ k.rxLeft = 1 /\ k.ring = <<>> /\ k.out = <<>> /\ k.cycles = l.cycles + 1
  /\ k.tx # "OFF"

(* hci_transport_h4_send_packet takes a packet only if it is idle.         *)
LEMMA SendStays ==
  ASSUME NEW l \in LinkType, SentOk(l), NEW k \in SendPacket(l)
  PROVE  k \in LinkType /\ SentOk(k) /\ Stays(l, k)
<1>1. PICK n \in TxSizes : k = [l EXCEPT !.tx = "W4_PACKET_SENT", !.txLeft = n]
  BY DEF SendPacket
<1>2. l.tx = "IDLE"
  BY DEF SendPacket
<1>3. n \in Nat /\ n > 0 /\ n \in 1..n /\ n \in UNION {1..i : i \in TxSizes}
  BY SizeAssumption
<1>4. k \in LinkType
  BY <1>1, <1>3 DEF LinkType
<1>5. k.tx = "W4_PACKET_SENT" /\ k.txLeft = n /\ k.sent = l.sent /\ ~l.sent
  BY <1>1, <1>2 DEF LinkType, SentOk
<1>6. SentOk(k)
  BY <1>3, <1>5 DEF SentOk
<1>7. Stays(l, k)
  BY <1>1, <1>2 DEF LinkType, Stays
<1> QED BY <1>4, <1>6, <1>7

(* hci_transport_h4_open starts over with an empty ring.                   *)
LEMMA OpenIsFresh ==
  ASSUME NEW l \in LinkType, ~StaleFlags, l.out = <<>>, NEW k \in Opened(l)
  PROVE  k \in LinkType /\ SentOk(k) /\ Fresh(l, k)
<1>1. PICK m \in OpenTransport(l) : k \in {m} \cup SendPacket(m)
  BY DEF Opened
<1>2. MayOpen(l)
  BY DEF OpenTransport
<1>3. m = [TriggerRead(Restart(RestartUart(l))) EXCEPT !.tx = "IDLE", !.cycles = @ + 1]
  BY <1>2 DEF OpenTransport
<1>4. ~l.sent /\ ~l.received /\ l.cycles < MaxCycles
  BY <1>2 DEF MayOpen
<1>5. l.cycles + 1 \in 0..MaxCycles /\ 0 \in 0..BufferSize /\ 1 \in 0..BufferSize
  BY <1>4, SizeAssumption DEF LinkType, BufferSize
<1> DEFINE u == RestartUart(l)
<1>6. /\ u \in LinkType /\ u.rxLeft = 0 /\ u.txLeft = 0 /\ u.ring = <<>> /\ u.polled
      /\ u.out = <<>> /\ u.cycles = l.cycles /\ ~u.sent /\ ~u.received
  BY <1>4, <1>5 DEF LinkType, RestartUart
<1> HIDE DEF u
<1> DEFINE r == Restart(u)
<1>7. /\ r \in LinkType /\ r.h4 = "PACKET_TYPE" /\ r.pos = 0 /\ r.want = 1
      /\ r.txLeft = 0 /\ r.ring = <<>> /\ r.polled
      /\ r.out = <<>> /\ r.cycles = l.cycles /\ ~r.sent /\ ~r.received
  BY <1>5, <1>6 DEF LinkType, Restart
<1> HIDE DEF r
<1>8. m = [r EXCEPT !.active = TRUE, !.rxAt = r.pos, !.rxLeft = r.want,
                    !.tx = "IDLE", !.cycles = r.cycles + 1]
  BY <1>3, <1>7 DEF TriggerRead, LinkType, r, u
<1>9. /\ m \in LinkType /\ m.tx = "IDLE" /\ m.txLeft = 0 /\ ~m.sent /\ Fresh(l, m)
  BY <1>5, <1>7, <1>8 DEF LinkType, Fresh
<1>10. SentOk(m)
  BY <1>9 DEF SentOk
<1>11. CASE k = m
  BY <1>9, <1>10, <1>11
<1>12. CASE k \in SendPacket(m)
  <2>1. k \in LinkType /\ SentOk(k) /\ Stays(m, k)
    BY <1>9, <1>10, <1>12, SendStays
  <2>2. Fresh(l, k)
    BY <1>9, <2>1 DEF Fresh, Stays
  <2> QED BY <2>1, <2>2
<1> QED BY <1>1, <1>11, <1>12

(* hci_transport_h4_close leaves the HAL and the driver as they are.       *)
LEMMA CloseShuts ==
  ASSUME NEW l \in LinkType, NEW k \in CloseTransport(l)
  PROVE  k \in LinkType /\ SentOk(k) /\ Shut(l, k) /\ l.polled
<1>1. /\ l.polled
      /\ k = [l EXCEPT !.tx = "OFF", !.h4 = "OFF", !.active = FALSE, !.polled = FALSE,
                       !.out = <<>>]
  BY DEF CloseTransport
<1>2. k \in LinkType
  <2>1. <<>> \in Seq(Byte)
    OBVIOUS
  <2> QED BY <1>1, <2>1 DEF LinkType
<1>3. Shut(l, k)
  BY <1>1 DEF LinkType, Shut
<1>4. SentOk(k)
  BY <1>3 DEF Shut, SentOk
<1> QED BY <1>1, <1>2, <1>3, <1>4

(* These are all the ways a handler returns.                               *)
LEMMA HandlerReturns ==
  ASSUME NEW l \in LinkType, ~StaleFlags, SentOk(l), NEW k \in Handler(l)
  PROVE  /\ k \in LinkType /\ SentOk(k)
         /\ Stays(l, k) \/ (l.polled /\ Shut(l, k)) \/ (l.polled /\ Fresh(l, k))
<1>1. \/ k = l \/ k \in SendPacket(l) \/ k \in CloseTransport(l)
      \/ \E c \in CloseTransport(l) : k \in Opened(c)
  BY DEF Handler
<1>2. CASE k = l
  BY <1>2 DEF Stays
<1>3. CASE k \in SendPacket(l)
  BY <1>3, SendStays
<1>4. CASE k \in CloseTransport(l)
  BY <1>4, CloseShuts
<1>5. CASE \E c \in CloseTransport(l) : k \in Opened(c)
  <2>1. PICK c \in CloseTransport(l) : k \in Opened(c)
    BY <1>5
  <2>2. c \in LinkType /\ Shut(l, c) /\ l.polled
    BY CloseShuts
  <2>3. c.out = <<>> /\ c.cycles = l.cycles
    BY <2>2 DEF Shut
  <2>4. k \in LinkType /\ SentOk(k) /\ Fresh(c, k)
    BY <2>1, <2>2, <2>3, OpenIsFresh
  <2>5. Fresh(l, k)
    BY <2>3, <2>4 DEF Fresh
  <2> QED BY <2>2, <2>4, <2>5
<1> QED BY <1>1, <1>2, <1>3, <1>4, <1>5

(* A transport that was just opened has no packet on its way.              *)
LEMMA FreshIsGood ==
  ASSUME NEW l \in LinkType, NEW k \in LinkType, SentOk(k), Fresh(l, k)
  PROVE  Good(k, <<>>) /\ k.polled /\ k.cycles # l.cycles
<1>1. BufferSize \in Nat /\ BufferSize >= 5
  BY SizeAssumption DEF BufferSize
<1>2. k.rxAt = 0 /\ k.ring = <<>> /\ k.out = <<>>
  BY DEF Fresh
<1>3. Whole(k, <<>>)
  BY <1>2, NothingOnTheWay
<1>4. Block(k)
  BY DEF Block, Fresh
<1>5. Shape(k, <<>>)
  BY DEF Shape, Fresh
<1>6. Open(k, <<>>)
  BY <1>3, <1>4, <1>5 DEF Open, Fresh
<1>7. l.cycles + 1 # l.cycles
  BY SizeAssumption DEF LinkType
<1> QED BY <1>1, <1>6, <1>7 DEF Good, Fresh

(* A transport that was just closed has none either.                       *)
LEMMA ShutIsGood ==
  ASSUME NEW l \in LinkType, NEW k \in LinkType, SentOk(k), Shut(l, k),
         l.pos + l.want <= BufferSize, l.rxAt + l.rxLeft <= BufferSize
  PROVE  Good(k, <<>>) /\ ~k.polled
  BY DEF Good, Closed, Shut

(* The handler keeps the packets, or closes the transport and loses them.  *)
OnTheWay(l, k, q) == IF k.polled /\ k.cycles = l.cycles THEN q ELSE <<>>

(* The link is good after the handler, whatever it has done.               *)
LEMMA Handled ==
  ASSUME NEW l \in LinkType, ~StaleFlags, NEW q \in Seq(Packets), Good(l, q),
         NEW k \in Handler(l)
  PROVE  k \in LinkType /\ Good(k, OnTheWay(l, k, q))
<1>1. /\ k \in LinkType /\ SentOk(k)
      /\ Stays(l, k) \/ (l.polled /\ Shut(l, k)) \/ (l.polled /\ Fresh(l, k))
  BY HandlerReturns DEF Good
<1>2. CASE Stays(l, k)
  <2>1. CASE Open(l, q)
    <3>1. OnTheWay(l, k, q) = q
      BY <1>2, <2>1 DEF OnTheWay, Open, Stays
    <3>2. Whole(k, q)
      BY <1>1, <1>2, <2>1, SameBytes DEF Open, Stays
    <3>3. Block(k) /\ Shape(k, q)
      BY <1>2, <2>1 DEF Open, Stays, Block, Shape
    <3>4. Open(k, q)
      BY <1>2, <2>1, <3>2, <3>3 DEF Open, Stays
    <3> QED BY <1>1, <1>2, <3>1, <3>4 DEF Good, Stays
  <2>2. CASE Closed(l, q)
    <3>1. OnTheWay(l, k, q) = <<>> /\ Closed(k, <<>>)
      BY <1>2, <2>2 DEF OnTheWay, Closed, Stays
    <3> QED BY <1>1, <1>2, <3>1 DEF Good, Stays
  <2> QED BY <2>1, <2>2 DEF Good
<1>3. CASE Shut(l, k)
  <2>1. Good(k, <<>>) /\ ~k.polled
    BY <1>1, <1>3, ShutIsGood DEF Good
  <2> QED BY <1>1, <2>1 DEF OnTheWay
<1>4. CASE Fresh(l, k)
  <2>1. Good(k, <<>>) /\ k.cycles # l.cycles
    BY <1>1, <1>4, FreshIsGood
  <2> QED BY <1>1, <2>1 DEF OnTheWay
<1> QED BY <1>1, <1>2, <1>3, <1>4

----------------------------------------------------------------------------
(* The steps that move bytes                                               *)

Written(l, n, done, k) == k = [l EXCEPT !.txLeft = l.txLeft - n, !.sent = done]

(* hal_teensy_uart_poll reports a packet when its last byte is written.    *)
LEMMA TxKeepsGood ==
  ASSUME NEW l \in LinkType, NEW q \in Seq(Packets), Good(l, q), NEW n \in 1..l.txLeft,
         NEW done \in BOOLEAN, done <=> (l.sent \/ n = l.txLeft),
         NEW k, Written(l, n, done, k)
  PROVE  k \in LinkType /\ Good(k, q) /\ k.polled = l.polled
<1>1. l.txLeft \in Nat /\ l.txLeft # 0
  BY SizeAssumption DEF LinkType
<1>2. PICK s \in TxSizes : l.txLeft \in 1..s
  BY <1>1 DEF LinkType
<1>3. l.txLeft - n \in {0} \cup UNION {1..i : i \in TxSizes}
  <2>1. s \in Nat
    BY SizeAssumption
  <2>2. l.txLeft - n = 0 \/ l.txLeft - n \in 1..s
    BY <1>1, <1>2, <2>1
  <2> QED BY <2>2
<1>4. /\ k \in LinkType
      /\ k.txLeft = l.txLeft - n /\ k.sent = done /\ k.tx = l.tx
      /\ k.h4 = l.h4 /\ k.pos = l.pos /\ k.want = l.want /\ k.active = l.active
      /\ k.buf = l.buf /\ k.received = l.received /\ k.polled = l.polled
      /\ k.rxAt = l.rxAt /\ k.rxLeft = l.rxLeft /\ k.ring = l.ring /\ k.out = l.out
  BY <1>3 DEF LinkType, Written
<1>5. SentOk(k)
  <2>1. l.tx # "IDLE" /\ (l.tx = "W4_PACKET_SENT" => ~l.sent)
    <3>1. SentOk(l)
      BY DEF Good
    <3>2. (l.txLeft > 0) = TRUE
      BY <1>1
    <3>3. l.sent \in BOOLEAN
      BY DEF LinkType
    <3>4. l.tx = "W4_PACKET_SENT" => TRUE # l.sent
      BY <3>1, <3>2 DEF SentOk
    <3>5. l.tx # "IDLE"
      BY <1>1, <3>1 DEF SentOk
    <3>6. ASSUME l.tx = "W4_PACKET_SENT" PROVE ~l.sent
      BY <3>3, <3>4, <3>6
    <3> QED BY <3>5, <3>6
  <2>2. CASE n = l.txLeft
    <3>1. (k.txLeft > 0) = FALSE /\ k.sent = TRUE
      BY <1>1, <1>4, <2>2
    <3> QED BY <1>4, <2>1, <3>1 DEF SentOk
  <2>3. CASE n # l.txLeft
    <3>1. k.txLeft > 0
      BY <1>1, <1>4, <2>3
    <3>2. k.tx = "W4_PACKET_SENT" => ~k.sent
      BY <1>4, <2>1, <2>3
    <3> QED BY <1>4, <2>1, <3>1, <3>2 DEF SentOk
  <2> QED BY <2>2, <2>3
<1>6. CASE Open(l, q)
  <2>1. Whole(k, q)
    BY <1>4, <1>6, SameBytes DEF Open
  <2>2. Block(k) /\ Shape(k, q)
    BY <1>4, <1>6 DEF Open, Block, Shape
  <2> QED BY <1>4, <1>5, <1>6, <2>1, <2>2 DEF Good, Open
<1>7. CASE Closed(l, q)
  BY <1>4, <1>5, <1>7 DEF Good, Closed
<1> QED BY <1>4, <1>6, <1>7 DEF Good

Stored(l, n, done, k) ==
  k = [l EXCEPT
        !.buf = [i \in 0..BufferSize - 1 |->
                   IF i - l.rxAt \in 0..n - 1 THEN l.ring[i - l.rxAt + 1] ELSE l.buf[i]],
        !.rxAt = l.rxAt + n, !.rxLeft = l.rxLeft - n,
        !.ring = SubSeq(l.ring, n + 1, Len(l.ring)), !.received = done]

(* ... and moves the bytes of a block from the ring to hci_packet.         *)
LEMMA RxKeepsGood ==
  ASSUME NEW l \in LinkType, NEW q \in Seq(Packets), Good(l, q),
         NEW n, n = IF Len(l.ring) < l.rxLeft THEN Len(l.ring) ELSE l.rxLeft,
         NEW done \in BOOLEAN, done <=> (l.received \/ (n > 0 /\ n = l.rxLeft)),
         NEW k, Stored(l, n, done, k)
  PROVE  k \in LinkType /\ Good(k, q) /\ k.polled = l.polled
<1> DEFINE a == l.rxAt
           left == l.rxLeft
           w == Len(l.ring)
           o == Len(l.out)
           size == BufferSize
<1>1. /\ size \in Nat /\ a \in Nat /\ left \in Nat /\ a + left <= size /\ w \in Nat /\ o \in Nat
  BY SizeAssumption, SMTT(30) DEF Good, LinkType, BufferSize
<1>2. l.ring \in Seq(Byte) /\ l.buf \in [0..size - 1 -> Byte] /\ Total(l) = a + w + o
  BY DEF LinkType, Total
<1>3. n = IF w < left THEN w ELSE left
  OBVIOUS
<1> DEFINE buf == [i \in 0..size - 1 |->
                     IF i - a \in 0..n - 1 THEN l.ring[i - a + 1] ELSE l.buf[i]]
           ring == SubSeq(l.ring, n + 1, w)
<1>4. k = [l EXCEPT !.buf = buf, !.rxAt = a + n, !.rxLeft = left - n,
                    !.ring = ring, !.received = done]
  BY DEF Stored
<1>5. a = l.rxAt /\ left = l.rxLeft /\ w = Len(l.ring) /\ o = Len(l.out) /\ size = BufferSize
  OBVIOUS
<1> HIDE DEF a, left, w, o, size
<1>6. n \in Nat /\ n <= left /\ n <= w /\ (n = left \/ n = w)
  BY <1>1, <1>3
<1>7. buf \in [0..size - 1 -> Byte]
  <2>1. ASSUME NEW i \in 0..size - 1 PROVE buf[i] \in Byte
    <3>1. CASE i - a \in 0..n - 1
      <4>1. i - a + 1 \in 1..w
        BY <1>1, <1>6, <3>1
      <4>2. l.ring[i - a + 1] \in Byte
        BY <1>2, <1>5, <4>1
      <4> QED BY <3>1, <4>2
    <3>2. CASE i - a \notin 0..n - 1
      BY <1>2, <3>2
    <3> QED BY <3>1, <3>2
  <2> QED BY <2>1
<1>8. /\ ring \in Seq(Byte) /\ Len(ring) = w - n
      /\ \A i \in 1..w - n : ring[i] = l.ring[n + i]
  <2>1. n + 1 \in Int /\ w \in Int /\ \A i \in n + 1..w : i \in 1..w
    BY <1>1, <1>6
  <2>2. \A i \in n + 1..w : l.ring[i] \in Byte
    BY <1>2, <1>5, <2>1
  <2>3. /\ ring \in Seq(Byte)
        /\ Len(ring) = IF n + 1 <= w THEN w - (n + 1) + 1 ELSE 0
        /\ \A i \in 1..w - (n + 1) + 1 : ring[i] = l.ring[n + 1 + i - 1]
    BY <2>1, <2>2, SubSeqProperties, SMTT(30)
  <2> HIDE DEF ring
  <2>4. w - (n + 1) + 1 = w - n /\ (IF n + 1 <= w THEN w - (n + 1) + 1 ELSE 0) = w - n
    BY <1>1, <1>6
  <2>5. \A i \in 1..w - n : n + 1 + i - 1 = n + i
    BY <1>1, <1>6
  <2> QED BY <2>3, <2>4, <2>5
<1>9. a + n \in 0..size /\ left - n \in 0..size
  BY <1>1, <1>6
<1>10. \A i \in 0..size - 1 :
         buf[i] = IF i - a \in 0..n - 1 THEN l.ring[i - a + 1] ELSE l.buf[i]
  OBVIOUS
<1> HIDE DEF ring, buf
<1>11. /\ k \in LinkType
       /\ k.buf = buf /\ k.rxAt = a + n /\ k.rxLeft = left - n /\ k.ring = ring
       /\ k.received = done
       /\ k.h4 = l.h4 /\ k.pos = l.pos /\ k.want = l.want /\ k.active = l.active
       /\ k.tx = l.tx /\ k.sent = l.sent /\ k.txLeft = l.txLeft
       /\ k.polled = l.polled /\ k.out = l.out
  BY <1>4, <1>5, <1>7, <1>8, <1>9, ZenonT(40) DEF LinkType
<1>12. a + n + (left - n) = a + left
  BY <1>1, <1>6
<1>13. SentOk(k) /\ k.pos + k.want <= BufferSize /\ k.rxAt + k.rxLeft <= BufferSize
  BY <1>1, <1>5, <1>11, <1>12 DEF Good, SentOk
<1>14. CASE Open(l, q)
  <2>1. Total(k) = Total(l)
    <3>1. Total(k) = a + n + (w - n) + o
      BY <1>5, <1>8, <1>11 DEF Total
    <3> QED BY <1>1, <1>2, <1>6, <3>1
  <2>2. ASSUME NEW i \in 1..Total(l) PROVE At(k, i) = At(l, i)
    <3>1. i \in Nat /\ i >= 1 /\ i <= a + w + o
      BY <1>1, <1>2
    <3>2. /\ i <= a + n => At(k, i) = buf[i - 1]
          /\ ~(i <= a + n) /\ i <= a + n + (w - n) => At(k, i) = ring[i - (a + n)]
          /\ ~(i <= a + n) /\ ~(i <= a + n + (w - n)) =>
               At(k, i) = l.out[i - (a + n) - (w - n)]
      <4> DEFINE an == a + n
                 wn == w - n
      <4>1. an = k.rxAt /\ wn = Len(k.ring)
        BY <1>8, <1>11
      <4> HIDE DEF an, wn
      <4>2. /\ i <= an => At(k, i) = k.buf[i - 1]
            /\ ~(i <= an) /\ i <= an + wn => At(k, i) = k.ring[i - an]
            /\ ~(i <= an) /\ ~(i <= an + wn) => At(k, i) = k.out[i - an - wn]
        BY <4>1, AtIs
      <4> QED BY <1>11, <4>2 DEF an, wn
    <3>3. /\ i <= a => At(l, i) = l.buf[i - 1]
          /\ ~(i <= a) /\ i <= a + w => At(l, i) = l.ring[i - a]
          /\ ~(i <= a) /\ ~(i <= a + w) => At(l, i) = l.out[i - a - w]
      BY <1>5, AtIs
    <3>4. CASE i <= a
      <4>1. i - 1 \in 0..size - 1 /\ i - 1 - a \notin 0..n - 1 /\ i <= a + n
        BY <1>1, <1>6, <3>1, <3>4
      <4> QED BY <1>10, <3>2, <3>3, <3>4, <4>1
    <3>5. CASE ~(i <= a) /\ i <= a + n
      <4>1. /\ i - 1 \in 0..size - 1 /\ i - 1 - a \in 0..n - 1 /\ i - 1 - a + 1 = i - a
            /\ i <= a + w
        BY <1>1, <1>6, <3>1, <3>5
      <4>2. buf[i - 1] = l.ring[i - a]
        BY <1>10, <4>1
      <4> QED BY <3>2, <3>3, <3>5, <4>1, <4>2
    <3>6. CASE ~(i <= a + n) /\ i <= a + w
      <4>1. i - (a + n) \in 1..w - n
        BY <1>1, <1>6, <3>1, <3>6
      <4>2. n + (i - (a + n)) = i - a /\ ~(i <= a) /\ i <= a + n + (w - n)
        BY <1>1, <1>6, <3>1, <3>6
      <4>3. ring[i - (a + n)] = l.ring[n + (i - (a + n))]
        BY <1>8, <4>1
      <4> QED BY <3>2, <3>3, <3>6, <4>2, <4>3
    <3>7. CASE ~(i <= a + w)
      <4>1. /\ ~(i <= a) /\ ~(i <= a + n) /\ ~(i <= a + n + (w - n))
            /\ i - (a + n) - (w - n) = i - a - w
        BY <1>1, <1>6, <3>1, <3>7
      <4> QED BY <3>2, <3>3, <3>7, <4>1
    <3> QED BY <3>4, <3>5, <3>6, <3>7
  <2>3. Whole(k, q)
    BY <1>11, <1>14, <2>1, <2>2, SameStream DEF Open
  <2>4. Block(k)
    <3>1. l.pos \in Nat /\ l.pos + l.want = a + left /\ a >= l.pos /\ (l.received => left = 0)
      BY <1>5, <1>14, SizeAssumption DEF Open, Block, LinkType, BufferSize
    <3>2. k.received => left - n = 0
      BY <1>1, <1>5, <1>6, <1>11, <3>1
    <3>3. a + n >= l.pos
      BY <1>1, <1>6, <3>1
    <3> QED BY <1>11, <1>12, <3>1, <3>2, <3>3 DEF Block
  <2>5. Shape(k, q)
    BY <1>11, <1>14 DEF Open, Shape
  <2> QED BY <1>11, <1>13, <1>14, <2>3, <2>4, <2>5 DEF Good, Open
<1>15. CASE Closed(l, q)
  BY <1>11, <1>13, <1>15 DEF Good, Closed
<1> QED BY <1>11, <1>14, <1>15 DEF Good

Arrived(l, k) == k = [l EXCEPT !.ring = Append(l.ring, Head(l.out)), !.out = Tail(l.out)]

(* The receive interrupt moves a byte from the wire to the ring.           *)
LEMMA ByteKeepsGood ==
  ASSUME NEW l \in LinkType, NEW q \in Seq(Packets), Good(l, q), l.out # <<>>,
         NEW k, Arrived(l, k)
  PROVE  k \in LinkType /\ Good(k, q) /\ k.polled = l.polled
<1> DEFINE a == l.rxAt
           w == Len(l.ring)
           o == Len(l.out)
           ring == Append(l.ring, Head(l.out))
           out == Tail(l.out)
<1>1. /\ a \in Nat /\ w \in Nat /\ o \in Nat /\ o > 0 /\ Total(l) = a + w + o
      /\ l.ring \in Seq(Byte) /\ l.out \in Seq(Byte)
  BY SizeAssumption, EmptySeq DEF LinkType, BufferSize, Total
<1>2. a = l.rxAt /\ w = Len(l.ring) /\ o = Len(l.out)
  OBVIOUS
<1>3. /\ ring \in Seq(Byte) /\ out \in Seq(Byte)
      /\ Len(ring) = w + 1 /\ Len(out) = o - 1
      /\ \A i \in 1..w : ring[i] = l.ring[i]
      /\ ring[w + 1] = l.out[1]
      /\ \A i \in 1..o - 1 : out[i] = l.out[i + 1]
  BY <1>1
<1> HIDE DEF a, w, o, ring, out
<1>4. k = [l EXCEPT !.ring = ring, !.out = out]
  BY DEF ring, out, Arrived
<1>5. /\ k \in LinkType /\ k.ring = ring /\ k.out = out
      /\ k.h4 = l.h4 /\ k.pos = l.pos /\ k.want = l.want /\ k.active = l.active
      /\ k.tx = l.tx /\ k.sent = l.sent /\ k.txLeft = l.txLeft /\ k.received = l.received
      /\ k.polled = l.polled /\ k.buf = l.buf /\ k.rxAt = a /\ k.rxLeft = l.rxLeft
  BY <1>2, <1>3, <1>4 DEF LinkType
<1>6. Total(k) = Total(l)
  <2>1. Total(k) = a + (w + 1) + (o - 1)
    BY <1>3, <1>5 DEF Total
  <2> QED BY <1>1, <2>1
<1>7. ASSUME NEW i \in 1..Total(l) PROVE At(k, i) = At(l, i)
  <2>1. i \in Nat /\ i >= 1 /\ i <= a + w + o
    BY <1>1
  <2>2. /\ i <= a => At(k, i) = l.buf[i - 1]
        /\ ~(i <= a) /\ i <= a + (w + 1) => At(k, i) = ring[i - a]
        /\ ~(i <= a) /\ ~(i <= a + (w + 1)) => At(k, i) = out[i - a - (w + 1)]
    <3> DEFINE w1 == w + 1
    <3>1. a = k.rxAt /\ w1 = Len(k.ring)
      BY <1>3, <1>5
    <3> HIDE DEF w1
    <3>2. /\ i <= a => At(k, i) = k.buf[i - 1]
          /\ ~(i <= a) /\ i <= a + w1 => At(k, i) = k.ring[i - a]
          /\ ~(i <= a) /\ ~(i <= a + w1) => At(k, i) = k.out[i - a - w1]
      BY <3>1, AtIs
    <3> QED BY <1>5, <3>2 DEF w1
  <2>3. /\ i <= a => At(l, i) = l.buf[i - 1]
        /\ ~(i <= a) /\ i <= a + w => At(l, i) = l.ring[i - a]
        /\ ~(i <= a) /\ ~(i <= a + w) => At(l, i) = l.out[i - a - w]
    BY <1>2, AtIs
  <2>4. CASE i <= a
    BY <2>2, <2>3, <2>4
  <2>5. CASE ~(i <= a) /\ i <= a + w
    <3>1. i - a \in 1..w /\ i <= a + (w + 1)
      BY <1>1, <2>1, <2>5
    <3> QED BY <1>3, <2>2, <2>3, <2>5, <3>1
  <2>6. CASE i = a + w + 1
    <3>1. /\ ~(i <= a) /\ i <= a + (w + 1) /\ ~(i <= a + w)
          /\ i - a = w + 1 /\ i - a - w = 1
      BY <1>1, <2>6
    <3> QED BY <1>3, <2>2, <2>3, <3>1
  <2>7. CASE i > a + w + 1
    <3>1. /\ ~(i <= a) /\ ~(i <= a + (w + 1)) /\ ~(i <= a + w)
          /\ i - a - (w + 1) \in 1..o - 1 /\ i - a - (w + 1) + 1 = i - a - w
      BY <1>1, <2>1, <2>7
    <3>2. out[i - a - (w + 1)] = l.out[i - a - w]
      BY <1>3, <3>1
    <3> QED BY <2>2, <2>3, <3>1, <3>2
  <2>8. \/ i <= a \/ (~(i <= a) /\ i <= a + w) \/ i = a + w + 1 \/ i > a + w + 1
    BY <1>1, <2>1
  <2> QED BY <2>4, <2>5, <2>6, <2>7, <2>8
<1>8. CASE Open(l, q)
  <2>1. Whole(k, q)
    BY <1>5, <1>6, <1>7, <1>8, SameStream DEF Open
  <2>2. Block(k) /\ Shape(k, q)
    BY <1>2, <1>5, <1>8 DEF Open, Block, Shape
  <2> QED BY <1>2, <1>5, <1>8, <2>1, <2>2 DEF Good, SentOk, Open
<1>9. CASE Closed(l, q)
  BY <1>9 DEF Closed
<1> QED BY <1>5, <1>8, <1>9 DEF Good

Sends(l, p, k) == k = [l EXCEPT !.out = Bytes(p)]

(* The controller puts a packet behind the others.                         *)
LEMMA EmitKeepsGood ==
  ASSUME NEW l \in LinkType, NEW q \in Seq(Packets), Good(l, q), l.polled, l.out = <<>>,
         NEW p \in Packets, NEW k, Sends(l, p, k)
  PROVE  k \in LinkType /\ Good(k, Append(q, p)) /\ k.polled = l.polled
<1>1. /\ Bytes(p) \in Seq(Byte) /\ Len(Bytes(p)) = Size(p) /\ Size(p) \in Nat /\ Size(p) > 0
      /\ \A i \in 1..Size(p) :
           Bytes(p)[i] = [kind |-> p.kind, len |-> p.len, pos |-> i - 1]
  BY PacketBytes, PacketFits
<1>2. /\ k \in LinkType /\ k.out = Bytes(p) /\ k.ring = l.ring
      /\ k.h4 = l.h4 /\ k.pos = l.pos /\ k.want = l.want /\ k.active = l.active
      /\ k.tx = l.tx /\ k.sent = l.sent /\ k.txLeft = l.txLeft /\ k.received = l.received
      /\ k.polled = l.polled /\ k.buf = l.buf /\ k.rxAt = l.rxAt /\ k.rxLeft = l.rxLeft
  BY <1>1 DEF LinkType, Sends
<1>3. l.rxAt \in Nat /\ Len(l.ring) \in Nat /\ Total(l) = l.rxAt + Len(l.ring)
  BY TotalIsNat
<1>4. Total(k) = Total(l) + Size(p) /\ Total(l) \in Nat
  BY <1>1, <1>2, <1>3 DEF Total
<1>5. \A i \in 1..Total(l) : At(k, i) = At(l, i)
  BY <1>2, <1>3 DEF At
<1>6. ASSUME NEW i \in 1..Size(p)
      PROVE  At(k, Total(l) + i) = [kind |-> p.kind, len |-> p.len, pos |-> i - 1]
  <2> DEFINE a == l.rxAt
             w == Len(l.ring)
             t == Total(l) + i
  <2>1. a = k.rxAt /\ w = Len(k.ring)
    BY <1>2
  <2>2. a \in Nat /\ w \in Nat /\ t = a + w + i
    BY <1>3
  <2>3. i \in Nat /\ i >= 1
    BY <1>1
  <2> HIDE DEF a, w, t
  <2>4. ~(t <= a) /\ ~(t <= a + w) /\ t - a - w = i
    BY <2>2, <2>3
  <2>5. At(k, t) = k.out[t - a - w]
    <3>1. a = k.rxAt /\ w = Len(k.ring)
      BY <2>1
    <3>2. ~(t <= a) /\ ~(t <= a + w) => At(k, t) = k.out[t - a - w]
      BY <3>1, AtIs
    <3> QED BY <2>4, <3>2
  <2>6. At(k, t) = Bytes(p)[i]
    BY <1>2, <2>4, <2>5
  <2> QED BY <1>1, <2>6 DEF t
<1>7. Open(l, q)
  BY DEF Good, Closed
<1> DEFINE r == Append(q, p)
<1>8. /\ r \in Seq(Packets) /\ Len(r) = Len(q) + 1 /\ Len(q) \in Nat /\ r[Len(q) + 1] = p
      /\ \A i \in 1..Len(q) : r[i] = q[i]
  OBVIOUS
<1> HIDE DEF r
<1>9. PICK b \in [1..Len(q) + 1 -> 0..Total(l)] : Cut(l, q, b)
  BY <1>7 DEF Open, Whole
<1> DEFINE c == [i \in 1..Len(r) + 1 |-> IF i <= Len(q) + 1 THEN b[i] ELSE Total(k)]
<1>10. b[1] = 0 /\ b[Len(q) + 1] = Total(l)
  BY <1>9 DEF Cut
<1>11. c \in [1..Len(r) + 1 -> 0..Total(k)]
  BY <1>1, <1>4, <1>8, <1>9
<1>12. c[1] = 0 /\ c[Len(r) + 1] = Total(k) /\ c[Len(q) + 1] = Total(l)
       /\ \A i \in 1..Len(q) + 1 : c[i] = b[i]
  BY <1>8, <1>10
<1> HIDE DEF c
<1>13. ASSUME NEW i \in 1..Len(r) + 1, NEW j \in 1..Len(r) + 1, i <= j PROVE c[i] <= c[j]
  <2>1. CASE j <= Len(q) + 1
    <3>1. i \in 1..Len(q) + 1 /\ j \in 1..Len(q) + 1
      BY <1>8, <1>13, <2>1
    <3>2. b[i] <= b[j]
      BY <1>9, <1>13, <3>1 DEF Cut
    <3> QED BY <1>12, <3>1, <3>2
  <2>2. CASE j > Len(q) + 1
    <3>1. j = Len(r) + 1
      BY <1>8, <2>2
    <3>2. c[i] \in 0..Total(k)
      BY <1>11
    <3>3. Total(k) \in Nat
      BY <1>2, TotalIsNat
    <3> QED BY <1>12, <3>1, <3>2, <3>3
  <2> QED BY <1>8, <2>1, <2>2
<1>14. ASSUME NEW j \in 1..Len(r)
       PROVE  /\ c[j + 1] = c[j] + Size(r[j])
              /\ \A i \in 1..Size(r[j]) :
                   At(k, c[j] + i) = [kind |-> r[j].kind, len |-> r[j].len, pos |-> i - 1]
  <2>1. CASE j \in 1..Len(q)
    <3>1. j \in 1..Len(q) + 1 /\ j + 1 \in 1..Len(q) + 1
      BY <1>8, <2>1
    <3>2. r[j] = q[j] /\ c[j] = b[j] /\ c[j + 1] = b[j + 1]
      BY <1>8, <1>12, <2>1, <3>1
    <3>3. /\ b[j + 1] = b[j] + Size(q[j])
          /\ \A i \in 1..Size(q[j]) : b[j] + i \in 1..Total(l)
      BY <1>9, <2>1, CutInside
    <3>4. \A i \in 1..Size(q[j]) :
            At(l, b[j] + i) = [kind |-> q[j].kind, len |-> q[j].len, pos |-> i - 1]
      BY <1>9, <2>1 DEF Cut
    <3>5. \A i \in 1..Size(q[j]) : At(k, b[j] + i) = At(l, b[j] + i)
      BY <1>5, <3>3
    <3> QED BY <3>2, <3>3, <3>4, <3>5
  <2>2. CASE j = Len(q) + 1
    <3>1. r[j] = p /\ c[j] = Total(l) /\ c[j + 1] = Total(k)
      BY <1>8, <1>12, <2>2
    <3> QED BY <1>4, <1>6, <3>1
  <2> QED BY <1>8, <2>1, <2>2
<1>15. Whole(k, r)
  <2>1. Cut(k, r, c)
    BY <1>12, <1>13, <1>14 DEF Cut
  <2> QED BY <1>11, <2>1 DEF Whole
<1>16. Block(k)
  BY <1>2, <1>7 DEF Open, Block
<1>17. Shape(k, r)
  <2>1. q # <<>> => r # <<>> /\ r[1] = q[1]
    <3>1. q # <<>> => 1 \in 1..Len(q)
      BY EmptySeq
    <3> QED BY <1>8, <3>1, EmptySeq
  <2> QED BY <1>2, <1>7, <2>1 DEF Open, Shape
<1>18. Good(k, r)
  BY <1>2, <1>7, <1>15, <1>16, <1>17 DEF Good, SentOk, Open
<1> QED BY <1>2, <1>18 DEF r

----------------------------------------------------------------------------
(* hci_transport_h4_block_read                                             *)

(* What is left behind the first element.                                  *)
LEMMA TailIsRest ==
  ASSUME NEW S, NEW q \in Seq(S), q # <<>>
  PROVE  SubSeq(q, 2, Len(q)) = Tail(q)
  BY HeadTailProperties, EmptySeq

(* Where the first packet was taken out of the stream, the others are left.*)
LEMMA RestIsWhole ==
  ASSUME NEW l \in LinkType, NEW q \in Seq(Packets), q # <<>>, Whole(l, q),
         l.rxAt = Size(q[1]),
         NEW m \in LinkType, m.rxAt = 0, m.ring = l.ring, m.out = l.out
  PROVE  /\ SubSeq(q, 2, Len(q)) \in Seq(Packets)
         /\ Whole(m, SubSeq(q, 2, Len(q)))
<1> DEFINE rest == SubSeq(q, 2, Len(q))
           n == Len(q)
           s == l.rxAt
           t == Total(m)
<1>1. n \in Nat /\ n >= 1 /\ \A i \in 1..n : q[i] \in Packets
  BY EmptySeq
<1>2. rest \in Seq(Packets) /\ Len(rest) = n - 1 /\ \A i \in 1..n - 1 : rest[i] = q[i + 1]
  <2>1. \A i \in 2..n : q[i] \in Packets
    BY <1>1
  <2>2. n \in Int /\ 2 \in Int
    BY <1>1
  <2>3. /\ rest \in Seq(Packets) /\ Len(rest) = IF 2 <= n THEN n - 2 + 1 ELSE 0
        /\ \A i \in 1..n - 2 + 1 : rest[i] = q[2 + i - 1]
    BY <2>1, <2>2, SubSeqProperties
  <2> HIDE DEF rest, n
  <2>4. n - 2 + 1 = n - 1 /\ (IF 2 <= n THEN n - 2 + 1 ELSE 0) = n - 1
    BY <1>1
  <2>5. \A i \in 1..n - 1 : 2 + i - 1 = i + 1
    BY <1>1
  <2> QED BY <2>3, <2>4, <2>5
<1>3. /\ s \in Nat /\ t \in Nat /\ Total(l) = s + t /\ s = l.rxAt /\ s = Size(q[1])
      /\ t = Total(m)
  <2>1. s \in Nat /\ t \in Nat
    BY TotalIsNat
  <2> DEFINE w == Len(l.ring)
             o == Len(l.out)
  <2>2. w \in Nat /\ o \in Nat /\ Total(l) = s + w + o /\ t = 0 + w + o
    BY TotalIsNat DEF Total
  <2> HIDE DEF w, o, s, t
  <2>3. Total(l) = s + t
    BY <2>1, <2>2
  <2> QED BY <2>1, <2>3 DEF s, t
<1>4. ASSUME NEW i \in Nat, i >= 1 PROVE At(m, i) = At(l, s + i)
  <2> DEFINE w == Len(l.ring)
             j == s + i
  <2>1. s = l.rxAt /\ w = Len(l.ring) /\ w = Len(m.ring)
    OBVIOUS
  <2>2. w \in Nat /\ s \in Nat /\ j = s + i
    BY <1>3, TotalIsNat
  <2> HIDE DEF w, s, j
  <2>3. /\ ~(j <= s) /\ j <= s + w => At(l, j) = l.ring[j - s]
        /\ ~(j <= s) /\ ~(j <= s + w) => At(l, j) = l.out[j - s - w]
    BY <2>1, AtIs
  <2>4. /\ ~(i <= 0) /\ i <= 0 + w => At(m, i) = m.ring[i - 0]
        /\ ~(i <= 0) /\ ~(i <= 0 + w) => At(m, i) = m.out[i - 0 - w]
    <3> DEFINE z == 0
    <3>1. z = m.rxAt
      OBVIOUS
    <3> HIDE DEF z
    <3>2. /\ ~(i <= z) /\ i <= z + w => At(m, i) = m.ring[i - z]
          /\ ~(i <= z) /\ ~(i <= z + w) => At(m, i) = m.out[i - z - w]
      BY <2>1, <3>1, AtIs
    <3> QED BY <3>2 DEF z
  <2>5. ~(j <= s) /\ ~(i <= 0) /\ j - s = i /\ i - 0 = i /\ 0 + w = w
    BY <1>4, <2>2
  <2>6. CASE i <= w
    <3>1. j <= s + w
      BY <1>4, <2>2, <2>6
    <3> QED BY <2>3, <2>4, <2>5, <2>6, <3>1 DEF j
  <2>7. CASE ~(i <= w)
    <3>1. ~(j <= s + w)
      BY <1>4, <2>2, <2>7
    <3> QED BY <2>3, <2>4, <2>5, <2>7, <3>1 DEF j
  <2> QED BY <2>6, <2>7
<1>5. PICK b \in [1..n + 1 -> 0..Total(l)] : Cut(l, q, b)
  BY DEF Whole
<1>6. n = Len(q)
  OBVIOUS
<1> HIDE DEF rest, n, s, t
<1>7. 1 \in 1..n /\ 2 \in 1..n + 1 /\ 1 + 1 = 2
  BY <1>1
<1>8. b[1] = 0 /\ b[n + 1] = s + t /\ b[2] = b[1] + Size(q[1])
  BY <1>3, <1>5, <1>6, <1>7 DEF Cut
<1>9. b[2] = s
  BY <1>3, <1>8
<1>10. ASSUME NEW i \in 1..n PROVE b[i + 1] - s \in 0..t /\ b[i + 1] \in Nat
  <2>1. i + 1 \in 1..n + 1 /\ 2 <= i + 1
    BY <1>1
  <2>2. b[2] <= b[i + 1]
    BY <1>5, <1>6, <1>7, <2>1 DEF Cut
  <2>3. b[i + 1] \in 0..s + t
    BY <1>3, <1>5, <2>1
  <2> QED BY <1>3, <1>9, <2>2, <2>3
<1> DEFINE c == [i \in 1..n |-> b[i + 1] - s]
<1>11. c \in [1..Len(rest) + 1 -> 0..Total(m)]
  <2>1. Len(rest) + 1 = n
    BY <1>1, <1>2
  <2> QED BY <1>3, <1>10, <2>1
<1>12. \A i \in 1..n : c[i] = b[i + 1] - s
  OBVIOUS
<1> HIDE DEF c
<1>13. c[1] = 0 /\ c[Len(rest) + 1] = Total(m)
  <2>1. Len(rest) + 1 = n /\ n \in 1..n
    BY <1>1, <1>2
  <2>2. c[1] = b[1 + 1] - s /\ c[n] = b[n + 1] - s
    BY <1>7, <1>12, <2>1
  <2>3. b[1 + 1] - s = 0 /\ b[n + 1] - s = t
    BY <1>3, <1>7, <1>8, <1>9
  <2> QED BY <1>3, <2>1, <2>2, <2>3
<1>14. \A i, j \in 1..Len(rest) + 1 : i <= j => c[i] <= c[j]
  <2>1. Len(rest) + 1 = n
    BY <1>1, <1>2
  <2>2. ASSUME NEW i \in 1..n, NEW j \in 1..n, i <= j PROVE c[i] <= c[j]
    <3>1. i + 1 \in 1..n + 1 /\ j + 1 \in 1..n + 1 /\ i + 1 <= j + 1
      BY <1>1, <2>2
    <3>2. b[i + 1] <= b[j + 1]
      BY <1>5, <1>6, <3>1 DEF Cut
    <3>3. b[i + 1] \in Nat /\ b[j + 1] \in Nat
      BY <1>10
    <3> QED BY <1>3, <1>12, <3>2, <3>3
  <2> QED BY <2>1, <2>2
<1>15. ASSUME NEW k \in 1..Len(rest)
       PROVE  /\ c[k + 1] = c[k] + Size(rest[k])
              /\ \A i \in 1..Size(rest[k]) :
                   At(m, c[k] + i) = [kind |-> rest[k].kind, len |-> rest[k].len, pos |-> i - 1]
  <2>1. k \in 1..n - 1 /\ k \in 1..n /\ k + 1 \in 1..n /\ k + 1 \in 1..Len(q)
    BY <1>1, <1>2, <1>6
  <2>2. rest[k] = q[k + 1] /\ Size(q[k + 1]) \in Nat
    <3>1. rest[k] = q[k + 1] /\ q[k + 1] \in Packets
      BY <1>1, <1>2, <2>1
    <3>2. Size(q[k + 1]) \in 1..BufferSize /\ BufferSize \in Nat
      BY <3>1, PacketFits
    <3> QED BY <3>1, <3>2
  <2>3. /\ b[k + 1 + 1] = b[k + 1] + Size(q[k + 1])
        /\ \A i \in 1..Size(q[k + 1]) :
             At(l, b[k + 1] + i) =
               [kind |-> q[k + 1].kind, len |-> q[k + 1].len, pos |-> i - 1]
    BY <1>5, <2>1 DEF Cut
  <2>4. /\ c[k] = b[k + 1] - s /\ c[k + 1] = b[k + 1 + 1] - s
        /\ c[k] \in Nat /\ b[k + 1] \in Nat
    BY <1>3, <1>10, <1>12, <2>1
  <2>5. c[k + 1] = c[k] + Size(rest[k])
    BY <1>3, <2>2, <2>3, <2>4
  <2>6. ASSUME NEW i \in 1..Size(rest[k]) PROVE At(m, c[k] + i) = At(l, b[k + 1] + i)
    <3>1. c[k] + i \in Nat /\ c[k] + i >= 1
      BY <2>2, <2>4
    <3>2. s + (c[k] + i) = b[k + 1] + i
      BY <1>3, <2>2, <2>4, SMTT(30)
    <3>3. At(m, c[k] + i) = At(l, s + (c[k] + i))
      BY <1>4, <3>1
    <3> QED BY <3>2, <3>3
  <2> QED BY <2>2, <2>3, <2>5, <2>6
<1>16. Cut(m, rest, c)
  BY <1>13, <1>14, <1>15 DEF Cut
<1>17. Whole(m, rest)
  BY <1>11, <1>16 DEF Whole
<1> QED BY <1>2, <1>17 DEF rest, n

(* The block is complete: its bytes are part of what was read.             *)
Filled(l, r) == r = [l EXCEPT !.received = FALSE, !.active = FALSE, !.pos = l.pos + l.want]

(* What block_read changes before it delivers or reads on.                 *)
Advances(r, k) ==
  /\ k \in LinkType /\ k.pos = r.pos /\ ~k.active /\ ~k.received /\ k.polled = r.polled
  /\ k.buf = r.buf /\ k.rxAt = r.rxAt /\ k.rxLeft = r.rxLeft /\ k.ring = r.ring /\ k.out = r.out
  /\ k.tx = r.tx /\ k.sent = r.sent /\ k.txLeft = r.txLeft /\ k.cycles = r.cycles

(* The end of a packet, which is the one it was given.                     *)
Ends(k, q) == k.h4 = "PAYLOAD" /\ k.pos = Size(q[1]) /\ PacketIn(k) = q[1]

(* What does not change when a block has been filled.                      *)
LEMMA FilledFacts ==
  ASSUME NEW l \in LinkType, NEW q \in Seq(Packets), Good(l, q), NEW r, Filled(l, r)
  PROVE  /\ r \in LinkType /\ r.pos = l.pos + l.want /\ ~r.active /\ ~r.received
         /\ r.h4 = l.h4 /\ r.want = l.want /\ r.polled = l.polled /\ r.buf = l.buf
         /\ r.rxAt = l.rxAt /\ r.rxLeft = l.rxLeft /\ r.ring = l.ring /\ r.out = l.out
         /\ r.tx = l.tx /\ r.sent = l.sent /\ r.txLeft = l.txLeft /\ r.cycles = l.cycles
<1>1. l.pos + l.want \in 0..BufferSize
  BY SizeAssumption DEF Good, LinkType, BufferSize
<1> QED BY <1>1 DEF LinkType, Filled

(* The complete block is the start of the first packet.                    *)
LEMMA BlockIsPacket ==
  ASSUME NEW l \in LinkType, NEW q \in Seq(Packets), Open(l, q), l.received
  PROVE  /\ q # <<>> /\ q[1] \in Packets
         /\ l.rxAt = l.pos + l.want /\ l.rxLeft = 0 /\ l.rxAt >= 1
         /\ l.rxAt <= Size(q[1])
         /\ \A i \in 1..l.rxAt :
              l.buf[i - 1] = [kind |-> q[1].kind, len |-> q[1].len, pos |-> i - 1]
<1>1. /\ l.pos \in Nat /\ l.want \in Nat /\ l.rxAt \in Nat /\ l.rxLeft \in Nat
  BY SizeAssumption DEF LinkType, BufferSize
<1>2. l.rxLeft = 0 /\ l.rxAt = l.pos + l.want
  BY <1>1 DEF Open, Block
<1>3. q # <<>>
  <2>1. CASE q = <<>>
    <3>1. l.rxAt = 1
      BY <1>2, <2>1 DEF Open, Shape
    <3>2. Total(l) = 0
      BY <2>1, NoPacketNoByte DEF Open
    <3>3. /\ Len(l.ring) \in Nat /\ Len(l.out) \in Nat
          /\ Total(l) = l.rxAt + Len(l.ring) + Len(l.out)
      BY TotalIsNat
    <3> DEFINE w == Len(l.ring)
               o == Len(l.out)
    <3>4. w \in Nat /\ o \in Nat /\ 0 = 1 + w + o
      BY <3>1, <3>2, <3>3
    <3> HIDE DEF w, o
    <3> QED BY <3>4
  <2> QED BY <2>1
<1>4. /\ q[1] \in Packets
      /\ \A i \in 1..Size(q[1]) :
           At(l, i) = [kind |-> q[1].kind, len |-> q[1].len, pos |-> i - 1]
  BY <1>3, FirstPacket DEF Open
<1>5. /\ HeaderSize(q[1].kind) \in {2, 4} /\ q[1].len \in Nat
      /\ Size(q[1]) = 1 + HeaderSize(q[1].kind) + q[1].len
  BY <1>4, PacketFits
<1>6. l.rxAt >= 1 /\ l.rxAt <= Size(q[1])
  <2>1. CASE l.pos = 0 /\ l.want = 1
    BY <1>2, <1>5, <2>1
  <2>2. CASE l.pos = 1 /\ l.want = HeaderSize(q[1].kind)
    BY <1>2, <1>5, <2>2
  <2>3. CASE l.pos = 1 + HeaderSize(q[1].kind) /\ l.want = q[1].len
    BY <1>2, <1>5, <2>3
  <2> QED BY <2>1, <2>2, <2>3 DEF Open, Shape
<1>7. ASSUME NEW i \in 1..l.rxAt
      PROVE  l.buf[i - 1] = [kind |-> q[1].kind, len |-> q[1].len, pos |-> i - 1]
  <2> DEFINE a == l.rxAt
             w == Len(l.ring)
  <2>1. a = l.rxAt /\ w = Len(l.ring)
    OBVIOUS
  <2>2. i <= a /\ i \in 1..Size(q[1])
    BY <1>1, <1>5, <1>6
  <2> HIDE DEF a, w
  <2>3. i <= a => At(l, i) = l.buf[i - 1]
    BY <2>1, AtIs
  <2> QED BY <1>4, <2>2, <2>3
<1> QED BY <1>2, <1>3, <1>4, <1>6, <1>7

(* What the state machine makes of the block.                              *)
Continues(r, k, q) ==
  /\ Shape(k, q) /\ k.pos + k.want <= BufferSize
  /\ ~(k.h4 = "PAYLOAD" /\ (r.h4 = "PAYLOAD" \/ k.want = 0))
Completes(r, k, q) ==
  Ends(k, q) /\ (r.h4 = "PAYLOAD" \/ k.want = 0)

(* A packet that is read to its end is the first of those on their way.    *)
LEMMA EndIsFirst ==
  ASSUME NEW p \in Packets, NEW k, k.h4 = "PAYLOAD", k.pos = Size(p), k.buf[0].kind = p.kind
  PROVE  k.pos = Size(p) /\ PacketIn(k) = p
<1>1. /\ p = [kind |-> p.kind, len |-> p.len] /\ p.len \in Nat
      /\ HeaderSize(p.kind) \in {2, 4} /\ Size(p) = 1 + HeaderSize(p.kind) + p.len
  BY PacketFits
<1>2. k.pos - 1 - HeaderSize(p.kind) = p.len
  BY <1>1
<1> QED BY <1>1, <1>2 DEF PacketIn

(* The packet type is that of the first packet: the assertion of the       *)
(* command type and the unknown types are out of reach.                    *)
LEMMA TypeRead ==
  ASSUME NEW r \in LinkType, NEW q \in Seq(Packets), q # <<>>, q[1] \in Packets,
         r.h4 = "PACKET_TYPE", r.pos = 1, ~r.active, ~r.received,
         r.buf[0] = [kind |-> q[1].kind, len |-> q[1].len, pos |-> 0],
         NEW k \in Parse(r)
  PROVE  Advances(r, k) /\ Continues(r, k, q)
<1> DEFINE kind == q[1].kind
<1>1. kind \in {"event", "acl"} /\ HeaderSize(kind) \in {2, 4}
  BY PacketFits
<1>2. MaxLen \in Nat /\ BufferSize = 5 + MaxLen
  BY PacketFits
<1>3. TypesIn(r.buf[0]) = {kind}
  BY DEF TypesIn
<1>4. Parse(r) = ReadType(r)
  BY DEF Parse
<1> DEFINE h4 == IF kind = "event" THEN "EVENT_HEADER" ELSE "ACL_HEADER"
<1>5. k = [r EXCEPT !.want = HeaderSize(kind), !.h4 = h4]
  BY <1>1, <1>3, <1>4 DEF ReadType
<1>6. HeaderSize(kind) \in 0..BufferSize
  BY <1>1, <1>2
<1>7. h4 \in {"EVENT_HEADER", "ACL_HEADER"}
  OBVIOUS
<1>8. k \in LinkType /\ k.want = HeaderSize(kind) /\ k.h4 = h4 /\ Advances(r, k)
  <2> HIDE DEF h4, kind
  <2> QED BY <1>5, <1>6, <1>7 DEF LinkType, Advances
<1>9. k.pos = 1
  BY <1>8 DEF Advances
<1>10. Shape(k, q)
  BY <1>8, <1>9 DEF Shape
<1>11. k.pos + k.want <= BufferSize
  BY <1>1, <1>2, <1>8, <1>9
<1> QED BY <1>7, <1>8, <1>10, <1>11 DEF Continues

(* The length is that of the first packet, so it fits hci_packet.          *)
LEMMA HeaderRead ==
  ASSUME NEW r \in LinkType, NEW q \in Seq(Packets), q # <<>>, q[1] \in Packets,
         r.h4 = IF q[1].kind = "event" THEN "EVENT_HEADER" ELSE "ACL_HEADER",
         r.pos = 1 + HeaderSize(q[1].kind), ~r.active, ~r.received,
         r.buf[0].kind = q[1].kind,
         r.buf[LengthAt(q[1].kind)] =
           [kind |-> q[1].kind, len |-> q[1].len, pos |-> LengthAt(q[1].kind)],
         NEW k \in Parse(r)
  PROVE  Advances(r, k) /\ (Continues(r, k, q) \/ Completes(r, k, q))
<1> DEFINE kind == q[1].kind
           len == q[1].len
<1>1. /\ kind \in {"event", "acl"} /\ HeaderSize(kind) \in {2, 4} /\ len \in 0..MaxLen
      /\ Size(q[1]) = 1 + HeaderSize(kind) + len /\ Size(q[1]) \in 1..BufferSize
      /\ MaxLen \in Nat /\ BufferSize = 5 + MaxLen
  BY PacketFits
<1>2. HeaderKind(r) = kind /\ r.h4 \in {"EVENT_HEADER", "ACL_HEADER"}
  BY <1>1 DEF HeaderKind
<1>3. LengthsIn(r.buf[LengthAt(kind)], kind) = {len}
  BY DEF LengthsIn
<1>4. Parse(r) = ReadHeader(r)
  BY <1>2 DEF Parse
<1>5. k = [r EXCEPT !.h4 = "PAYLOAD", !.want = len]
  <2>1. ~(len > MaxLen)
    BY <1>1
  <2> QED BY <1>2, <1>3, <1>4, <2>1 DEF ReadHeader
<1>6. len \in 0..BufferSize
  BY <1>1
<1>7. k \in LinkType /\ k.want = len /\ k.h4 = "PAYLOAD" /\ Advances(r, k)
  <2> HIDE DEF len
  <2> QED BY <1>5, <1>6 DEF LinkType, Advances
<1>8. k.pos = 1 + HeaderSize(kind) /\ k.buf[0].kind = kind /\ r.h4 # "PAYLOAD"
  BY <1>2, <1>7 DEF Advances
<1>9. CASE len = 0
  <2>1. k.pos = Size(q[1])
    BY <1>1, <1>8, <1>9
  <2>2. PacketIn(k) = q[1]
    BY <1>7, <1>8, <2>1, EndIsFirst
  <2> QED BY <1>7, <1>9, <2>1, <2>2 DEF Completes, Ends
<1>10. CASE len # 0
  <2>1. len > 0 /\ k.pos + k.want <= BufferSize
    BY <1>1, <1>7, <1>8, <1>10
  <2>2. Shape(k, q)
    BY <1>7, <1>8, <2>1 DEF Shape
  <2> QED BY <1>7, <1>8, <1>10, <2>1, <2>2 DEF Continues
<1> QED BY <1>9, <1>10

(* Every block of an open transport is one of these or ends a packet.      *)
LEMMA OpenParses ==
  ASSUME NEW l \in LinkType, NEW q \in Seq(Packets), Good(l, q), Open(l, q), l.received,
         NEW r, Filled(l, r), NEW k \in Parse(r)
  PROVE  Advances(r, k) /\ (Continues(r, k, q) \/ Completes(r, k, q))
<1>1. /\ q # <<>> /\ q[1] \in Packets /\ l.rxAt = l.pos + l.want /\ l.rxAt >= 1
      /\ \A i \in 1..l.rxAt :
           l.buf[i - 1] = [kind |-> q[1].kind, len |-> q[1].len, pos |-> i - 1]
  BY BlockIsPacket
<1>2. /\ r \in LinkType /\ r.pos = l.rxAt /\ ~r.active /\ ~r.received
      /\ r.h4 = l.h4 /\ r.buf = l.buf
  BY <1>1, FilledFacts
<1>3. /\ q[1].kind \in {"event", "acl"} /\ HeaderSize(q[1].kind) \in {2, 4}
      /\ HeaderSize("event") = 2 /\ HeaderSize("acl") = 4
      /\ Size(q[1]) = 1 + HeaderSize(q[1].kind) + q[1].len /\ q[1].len \in Nat
  BY <1>1, PacketFits
<1>4. l.rxAt \in Nat
  BY TotalIsNat
<1>5. r.buf[0] = [kind |-> q[1].kind, len |-> q[1].len, pos |-> 0]
  <2>1. 1 \in 1..l.rxAt /\ 1 - 1 = 0
    BY <1>1, <1>4
  <2> QED BY <1>1, <1>2, <2>1
<1>6. CASE l.h4 = "PACKET_TYPE" /\ l.pos = 0 /\ l.want = 1
  <2>1. r.pos = 1
    BY <1>1, <1>2, <1>6
  <2> QED BY <1>1, <1>2, <1>5, <1>6, <2>1, TypeRead
<1>7. CASE /\ l.pos = 1 /\ l.want = HeaderSize(q[1].kind)
           /\ l.h4 = IF q[1].kind = "event" THEN "EVENT_HEADER" ELSE "ACL_HEADER"
  <2>1. r.pos = 1 + HeaderSize(q[1].kind)
    BY <1>1, <1>2, <1>7
  <2>2. LengthAt(q[1].kind) \in 0..l.rxAt - 1 /\ LengthAt(q[1].kind) \in Nat
    <3>1. CASE q[1].kind = "event"
      <4>1. LengthAt(q[1].kind) = 2 /\ l.rxAt = 3
        BY <1>2, <1>3, <2>1, <3>1 DEF LengthAt
      <4> QED BY <4>1
    <3>2. CASE q[1].kind = "acl"
      <4>1. LengthAt(q[1].kind) = 3 /\ l.rxAt = 5
        BY <1>2, <1>3, <2>1, <3>2 DEF LengthAt
      <4> QED BY <4>1
    <3> QED BY <1>3, <3>1, <3>2
  <2> DEFINE at == LengthAt(q[1].kind)
  <2>3. at \in 0..l.rxAt - 1 /\ at \in Nat
    BY <2>2
  <2> HIDE DEF at
  <2>4. at + 1 \in 1..l.rxAt /\ at + 1 - 1 = at
    BY <1>4, <2>3
  <2>5. r.buf[at] = [kind |-> q[1].kind, len |-> q[1].len, pos |-> at]
    <3> DEFINE i == at + 1
    <3>1. i \in 1..l.rxAt /\ i - 1 = at
      BY <2>3, <2>4
    <3> HIDE DEF i
    <3>2. l.buf[i - 1] = [kind |-> q[1].kind, len |-> q[1].len, pos |-> i - 1]
      BY <1>1, <3>1
    <3> QED BY <1>2, <3>1, <3>2
  <2>6. r.buf[0].kind = q[1].kind
    BY <1>5
  <2>7. r.h4 = IF q[1].kind = "event" THEN "EVENT_HEADER" ELSE "ACL_HEADER"
    BY <1>2, <1>7
  <2>8. r.buf[LengthAt(q[1].kind)] =
          [kind |-> q[1].kind, len |-> q[1].len, pos |-> LengthAt(q[1].kind)]
    BY <2>5 DEF at
  <2> QED BY <1>1, <1>2, <2>1, <2>6, <2>7, <2>8, HeaderRead
<1>8. CASE /\ l.h4 = "PAYLOAD" /\ l.pos = 1 + HeaderSize(q[1].kind) /\ l.want = q[1].len
  <2>1. k = r
    BY <1>2, <1>8 DEF Parse
  <2>2. k.pos = Size(q[1])
    BY <1>1, <1>2, <1>3, <1>8, <2>1
  <2>3. k.h4 = "PAYLOAD" /\ k.buf[0].kind = q[1].kind
    BY <1>2, <1>5, <1>8, <2>1
  <2>4. PacketIn(k) = q[1]
    BY <1>1, <2>2, <2>3, EndIsFirst
  <2>5. Advances(r, k)
    BY <1>2, <2>1 DEF Advances
  <2> QED BY <2>1, <2>2, <2>3, <2>4, <2>5 DEF Completes, Ends
<1> QED BY <1>6, <1>7, <1>8 DEF Open, Shape

(* Reading on leaves the stream as it is.                                  *)
LEMMA ReadOnIsGood ==
  ASSUME NEW l \in LinkType, NEW q \in Seq(Packets), Good(l, q), Open(l, q), l.received,
         NEW r, Filled(l, r), NEW k, Advances(r, k), Continues(r, k, q)
  PROVE  /\ NextRead(k) \in LinkType /\ Good(NextRead(k), q)
         /\ NextRead(k).polled /\ NextRead(k).cycles = l.cycles
<1>1. l.rxAt = l.pos + l.want /\ l.rxLeft = 0
  BY BlockIsPacket
<1>2. /\ r.pos = l.rxAt /\ r.polled = l.polled /\ r.buf = l.buf /\ r.cycles = l.cycles
      /\ r.rxAt = l.rxAt /\ r.ring = l.ring /\ r.out = l.out
      /\ r.tx = l.tx /\ r.sent = l.sent /\ r.txLeft = l.txLeft
  BY <1>1, FilledFacts
<1>3. /\ k \in LinkType /\ k.pos = l.rxAt /\ ~k.active /\ ~k.received /\ k.polled
      /\ k.rxAt = l.rxAt /\ k.ring = l.ring /\ k.out = l.out /\ k.buf = l.buf
      /\ k.tx = l.tx /\ k.sent = l.sent /\ k.txLeft = l.txLeft /\ k.cycles = l.cycles
  BY <1>2 DEF Advances, Open
<1>4. k.h4 # "OFF"
  BY DEF Continues, Shape
<1> DEFINE m == [k EXCEPT !.active = TRUE, !.rxAt = k.pos, !.rxLeft = k.want]
<1>5. NextRead(k) = m
  BY <1>3, <1>4 DEF NextRead, TriggerRead
<1>6. /\ m \in LinkType /\ m.active /\ m.rxAt = l.rxAt /\ m.rxLeft = k.want
      /\ m.ring = l.ring /\ m.out = l.out /\ m.buf = l.buf /\ m.h4 = k.h4 /\ m.pos = k.pos
      /\ m.want = k.want /\ m.tx = l.tx /\ m.sent = l.sent /\ m.txLeft = l.txLeft
      /\ ~m.received /\ m.polled /\ m.cycles = l.cycles
  BY <1>3 DEF LinkType
<1> HIDE DEF m
<1>7. Whole(m, q)
  BY <1>6, SameBytes DEF Open
<1>8. l.rxAt \in Nat
  BY TotalIsNat
<1>9. Block(m)
  BY <1>3, <1>6, <1>8 DEF Block
<1>10. Shape(m, q)
  <2>1. Shape(k, q)
    BY DEF Continues
  <2> QED BY <1>6, <2>1 DEF Shape
<1>11. Open(m, q)
  BY <1>6, <1>7, <1>9, <1>10 DEF Open
<1>12. SentOk(m) /\ m.pos + m.want <= BufferSize /\ m.rxAt + m.rxLeft <= BufferSize
  BY <1>3, <1>6 DEF Good, SentOk, Continues
<1> QED BY <1>5, <1>6, <1>11, <1>12 DEF Good

(* A delivery takes the first packet out of the stream, whatever the       *)
(* handler does.                                                           *)
LEMMA DeliveryIsGood ==
  ASSUME NEW l \in LinkType, ~StaleFlags, NEW q \in Seq(Packets), Good(l, q), Open(l, q),
         l.received, NEW r, Filled(l, r), NEW k, Advances(r, k), Completes(r, k, q),
         NEW h \in PacketComplete(k)
  PROVE  /\ NextRead(h) \in LinkType
         /\ SubSeq(q, 2, Len(q)) \in Seq(Packets)
         /\ Good(NextRead(h), OnTheWay(l, NextRead(h), SubSeq(q, 2, Len(q))))
<1> DEFINE rest == SubSeq(q, 2, Len(q))
<1>1. q # <<>> /\ l.rxAt = l.pos + l.want /\ l.rxLeft = 0
  BY BlockIsPacket
<1>2. /\ r.pos = l.rxAt /\ r.polled = l.polled /\ r.buf = l.buf /\ r.cycles = l.cycles
      /\ r.rxAt = l.rxAt /\ r.rxLeft = l.rxLeft /\ r.ring = l.ring /\ r.out = l.out
      /\ r.tx = l.tx /\ r.sent = l.sent /\ r.txLeft = l.txLeft
  BY <1>1, FilledFacts
<1>3. /\ k \in LinkType /\ k.pos = l.rxAt /\ ~k.active /\ ~k.received /\ k.polled
      /\ k.rxAt = l.rxAt /\ k.rxLeft = 0 /\ k.ring = l.ring /\ k.out = l.out /\ k.buf = l.buf
      /\ k.tx = l.tx /\ k.sent = l.sent /\ k.txLeft = l.txLeft /\ k.cycles = l.cycles
  BY <1>1, <1>2 DEF Advances, Open
<1>4. l.rxAt = Size(q[1])
  BY <1>3 DEF Completes, Ends
<1>5. BufferSize \in Nat /\ BufferSize >= 5 /\ l.rxAt \in Nat /\ l.rxAt <= BufferSize
  BY SizeAssumption DEF BufferSize, LinkType
<1> DEFINE c == [k EXCEPT !.h4 = "PACKET_TYPE", !.pos = 0, !.want = 1]
<1>6. h \in Handler(c)
  BY DEF PacketComplete, Restart
<1>7. /\ c \in LinkType /\ c.h4 = "PACKET_TYPE" /\ c.pos = 0 /\ c.want = 1
      /\ ~c.active /\ ~c.received /\ c.polled
      /\ c.rxAt = l.rxAt /\ c.rxLeft = 0 /\ c.ring = l.ring /\ c.out = l.out /\ c.buf = l.buf
      /\ c.tx = l.tx /\ c.sent = l.sent /\ c.txLeft = l.txLeft /\ c.cycles = l.cycles
  <2>1. 0 \in 0..BufferSize /\ 1 \in 0..BufferSize
    BY <1>5
  <2> QED BY <1>3, <2>1, ZenonT(40) DEF LinkType
<1> HIDE DEF c
<1>8. SentOk(c)
  BY <1>7 DEF Good, SentOk
<1>9. /\ h \in LinkType /\ SentOk(h)
      /\ Stays(c, h) \/ Shut(c, h) \/ Fresh(c, h)
  BY <1>6, <1>7, <1>8, HandlerReturns
<1>10. rest \in Seq(Packets)
  <2> DEFINE m == [l EXCEPT !.rxAt = 0]
  <2>1. m \in LinkType /\ m.rxAt = 0 /\ m.ring = l.ring /\ m.out = l.out
    <3>1. 0 \in 0..BufferSize
      BY <1>5
    <3> QED BY <3>1 DEF LinkType
  <2> HIDE DEF m
  <2> QED BY <1>1, <1>4, <2>1, RestIsWhole DEF Open
<1>11. CASE Stays(c, h)
  <2>1. /\ h.h4 = "PACKET_TYPE" /\ h.pos = 0 /\ h.want = 1 /\ ~h.active /\ ~h.received
        /\ h.polled /\ h.ring = l.ring /\ h.out = l.out /\ h.cycles = l.cycles
        /\ h.tx # "OFF"
    BY <1>7, <1>11 DEF Stays, Open
  <2> DEFINE m == [h EXCEPT !.active = TRUE, !.rxAt = h.pos, !.rxLeft = h.want]
  <2>2. NextRead(h) = m
    BY <2>1 DEF NextRead, TriggerRead
  <2>3. /\ m \in LinkType /\ m.active /\ m.rxAt = 0 /\ m.rxLeft = 1
        /\ m.ring = l.ring /\ m.out = l.out /\ m.h4 = "PACKET_TYPE" /\ m.pos = 0
        /\ m.want = 1 /\ m.tx = h.tx /\ m.sent = h.sent /\ m.txLeft = h.txLeft
        /\ ~m.received /\ m.polled /\ m.cycles = l.cycles
    BY <1>9, <2>1, ZenonT(40) DEF LinkType
  <2> HIDE DEF m
  <2>4. Whole(m, rest)
    BY <1>1, <1>4, <2>3, RestIsWhole DEF Open
  <2>5. Block(m) /\ Shape(m, rest)
    BY <2>3 DEF Block, Shape
  <2>6. Open(m, rest)
    BY <2>1, <2>3, <2>4, <2>5 DEF Open
  <2>7. SentOk(m) /\ m.pos + m.want <= BufferSize /\ m.rxAt + m.rxLeft <= BufferSize
    BY <1>5, <1>9, <2>3 DEF SentOk
  <2>8. OnTheWay(l, m, rest) = rest
    BY <2>3 DEF OnTheWay
  <2> QED BY <1>10, <2>2, <2>3, <2>6, <2>7, <2>8 DEF Good
<1>12. CASE Shut(c, h)
  <2>1. NextRead(h) = h
    BY <1>12 DEF Shut, NextRead
  <2>2. c.pos + c.want <= BufferSize /\ c.rxAt + c.rxLeft <= BufferSize
    BY <1>5, <1>7
  <2>3. Good(h, <<>>) /\ ~h.polled
    BY <1>7, <1>9, <1>12, <2>2, ShutIsGood
  <2> QED BY <1>9, <1>10, <2>1, <2>3 DEF OnTheWay
<1>13. CASE Fresh(c, h)
  <2>1. NextRead(h) = h
    BY <1>13 DEF Fresh, NextRead
  <2>2. Good(h, <<>>) /\ h.cycles # c.cycles
    BY <1>7, <1>9, <1>13, FreshIsGood
  <2> QED BY <1>7, <1>9, <1>10, <2>1, <2>2 DEF OnTheWay
<1> QED BY <1>9, <1>11, <1>12, <1>13

(* A block that is complete after the transport was closed is dropped.     *)
LEMMA ClosedDrops ==
  ASSUME NEW l \in LinkType, NEW q \in Seq(Packets), Good(l, q), Closed(l, q),
         NEW r, Filled(l, r), NEW k \in Parse(r)
  PROVE  /\ k.h4 # "PAYLOAD" /\ NextRead(k) \in LinkType
         /\ Good(NextRead(k), q) /\ NextRead(k).cycles = l.cycles
<1>1. /\ r \in LinkType /\ r.pos = l.pos + l.want /\ ~r.active /\ ~r.received
      /\ r.h4 = "OFF" /\ ~r.polled /\ r.out = <<>> /\ r.cycles = l.cycles
      /\ r.rxAt = l.rxAt /\ r.rxLeft = l.rxLeft /\ r.tx = "OFF"
  BY FilledFacts DEF Closed
<1>2. k = [r EXCEPT !.want = 0]
  BY <1>1 DEF Parse
<1>3. 0 \in 0..BufferSize /\ BufferSize \in Nat
  BY SizeAssumption DEF BufferSize
<1>4. /\ k \in LinkType /\ k.pos = r.pos /\ k.want = 0 /\ ~k.active /\ ~k.received
      /\ k.h4 = "OFF" /\ ~k.polled /\ k.out = <<>> /\ k.cycles = l.cycles
      /\ k.rxAt = l.rxAt /\ k.rxLeft = l.rxLeft /\ k.tx = "OFF"
  BY <1>1, <1>2, <1>3 DEF LinkType
<1>5. NextRead(k) = k
  BY <1>4 DEF NextRead
<1>6. k.pos + k.want <= BufferSize /\ k.rxAt + k.rxLeft <= BufferSize
  <2>1. r.pos \in 0..BufferSize
    BY <1>1 DEF LinkType
  <2> QED BY <1>3, <1>4, <2>1 DEF Good
<1>7. Closed(k, q) /\ SentOk(k)
  BY <1>4 DEF Closed, SentOk
<1> QED BY <1>4, <1>5, <1>6, <1>7 DEF Good

----------------------------------------------------------------------------
(* Theorems                                                                *)

(* Before the first transport is opened there is nothing on its way.       *)
LEMMA InitGood == Init => Inv
<1> SUFFICES ASSUME Init PROVE Inv
  OBVIOUS
<1>1. link = InitialLink /\ step = "poll_tx" /\ queue = <<>>
  BY DEF Init
<1>2. BufferSize \in Nat /\ 0 \in 0..BufferSize /\ MaxLen \in Nat /\ MaxCycles \in Nat
  BY SizeAssumption DEF BufferSize
<1>3. NoByte \in Byte
  BY <1>2 DEF NoByte, Byte
<1>4. <<>> \in Seq(Byte) /\ <<>> \in Seq(Packets)
  OBVIOUS
<1>5. InitialLink \in LinkType
  BY <1>2, <1>3, <1>4 DEF InitialLink, LinkType
<1>6. Closed(link, <<>>) /\ SentOk(link)
  BY <1>1 DEF InitialLink, Closed, SentOk
<1>7. link.pos + link.want <= BufferSize /\ link.rxAt + link.rxLeft <= BufferSize
  BY <1>1, <1>2 DEF InitialLink
<1> QED BY <1>1, <1>4, <1>5, <1>6, <1>7 DEF Inv, TypeOK, Good

(* What a step does to the packets on their way and to the last delivered. *)
PipeStep == Pipe!Next \/ UNCHANGED <<queue, got>>
LinkKept == link' \in LinkType /\ queue' \in Seq(Packets) /\ Good(link', queue')

(* A step that ends with a handler keeps the packets or loses them.        *)
LEMMA HandlerStep ==
  ASSUME Inv, ~StaleFlags, NEW l \in LinkType, Good(l, queue), l.cycles = link.cycles,
         link' \in Handler(l), StillComing(queue), UNCHANGED got
  PROVE  LinkKept /\ PipeStep
<1>1. queue \in Seq(Packets)
  BY DEF Inv, TypeOK
<1>2. link' \in LinkType /\ Good(link', OnTheWay(l, link', queue))
  BY <1>1, Handled
<1>3. queue' = OnTheWay(l, link', queue)
  BY DEF StillComing, OnTheWay
<1>4. queue' = queue \/ queue' = <<>>
  BY <1>3 DEF OnTheWay
<1>5. PipeStep
  BY <1>4 DEF PipeStep, Pipe!Next, Pipe!Close
<1>6. queue' \in Seq(Packets)
  <2>1. <<>> \in Seq(Packets)
    OBVIOUS
  <2> QED BY <1>1, <1>4, <2>1
<1>7. Good(link', queue')
  <2>1. CASE queue' = <<>>
    BY <1>2, <1>3, <2>1
  <2>2. CASE queue' = queue
    BY <1>2, <1>3, <2>2
  <2> QED BY <1>4, <2>1, <2>2
<1> QED BY <1>2, <1>5, <1>6, <1>7 DEF LinkKept

(* PollTx.                                                                 *)
LEMMA PollTxKeeps == ASSUME Inv, PollTx PROVE LinkKept /\ PipeStep
<1>1. link \in LinkType /\ queue \in Seq(Packets) /\ Good(link, queue)
  BY DEF Inv, TypeOK
<1>2. queue' = queue /\ got' = got
  BY DEF PollTx
<1>3. CASE UNCHANGED link
  BY <1>1, <1>2, <1>3 DEF LinkKept, PipeStep
<1>4. CASE \E n \in 1..link.txLeft :
             link' = [link EXCEPT !.txLeft = @ - n, !.sent = @ \/ n = link.txLeft]
  <2>1. PICK n \in 1..link.txLeft :
          link' = [link EXCEPT !.txLeft = @ - n, !.sent = @ \/ n = link.txLeft]
    BY <1>4
  <2> DEFINE done == link.sent \/ n = link.txLeft
  <2>2. done \in BOOLEAN /\ (done <=> (link.sent \/ n = link.txLeft))
    OBVIOUS
  <2>3. Written(link, n, done, link')
    BY <2>1 DEF Written
  <2> HIDE DEF done
  <2>4. link' \in LinkType /\ Good(link', queue)
    BY <1>1, <2>2, <2>3, TxKeepsGood
  <2> QED BY <1>1, <1>2, <2>4 DEF LinkKept, PipeStep
<1> QED BY <1>3, <1>4 DEF PollTx

(* PollRx.                                                                 *)
LEMMA PollRxKeeps == ASSUME Inv, PollRx PROVE LinkKept /\ PipeStep
<1>1. link \in LinkType /\ queue \in Seq(Packets) /\ Good(link, queue)
  BY DEF Inv, TypeOK
<1>2. queue' = queue /\ got' = got
  BY DEF PollRx
<1> DEFINE n == IF Len(link.ring) < link.rxLeft THEN Len(link.ring) ELSE link.rxLeft
           done == link.received \/ (n > 0 /\ n = link.rxLeft)
<1>3. /\ n = IF Len(link.ring) < link.rxLeft THEN Len(link.ring) ELSE link.rxLeft
      /\ done \in BOOLEAN /\ (done <=> (link.received \/ (n > 0 /\ n = link.rxLeft)))
  OBVIOUS
<1>4. Stored(link, n, done, link')
  BY DEF PollRx, Stored
<1> HIDE DEF n, done
<1>5. link' \in LinkType /\ Good(link', queue)
  BY <1>1, <1>3, <1>4, RxKeepsGood
<1> QED BY <1>1, <1>2, <1>5 DEF LinkKept, PipeStep

(* ProcessSent: the transport is idle again before the handler is called.  *)
LEMMA ProcessSentKeeps == ASSUME Inv, ~StaleFlags, ProcessSent PROVE LinkKept /\ PipeStep
<1>1. link \in LinkType /\ queue \in Seq(Packets) /\ Good(link, queue)
  BY DEF Inv, TypeOK
<1>2. StillComing(queue) /\ got' = got
  BY DEF ProcessSent
<1>3. CASE ~(link.polled /\ link.sent)
  <2>1. link' = link
    BY <1>3 DEF ProcessSent
  <2>2. queue' = queue
    BY <1>1, <1>2, <2>1 DEF StillComing, Good, Open, Closed
  <2> QED BY <1>1, <1>2, <2>1, <2>2 DEF LinkKept, PipeStep
<1>4. CASE link.polled /\ link.sent
  <2>1. Open(link, queue) /\ link.tx = "W4_PACKET_SENT" /\ link.txLeft = 0
    <3>1. Open(link, queue) /\ link.tx # "OFF" /\ SentOk(link)
      BY <1>1, <1>4 DEF Good, Open, Closed
    <3>2. link.tx \in {"OFF", "IDLE", "W4_PACKET_SENT"} /\ link.sent \in BOOLEAN
      BY <1>1 DEF LinkType
    <3>3. link.tx = "W4_PACKET_SENT"
      BY <1>4, <3>1, <3>2 DEF SentOk
    <3>4. link.txLeft \in Nat
      BY <1>1, SizeAssumption DEF LinkType
    <3>5. (link.txLeft > 0) # link.sent
      BY <3>1, <3>3 DEF SentOk
    <3>6. link.sent = TRUE
      BY <1>4, <3>2
    <3>7. ~(link.txLeft > 0)
      BY <3>5, <3>6
    <3> QED BY <3>1, <3>3, <3>4, <3>7
  <2> DEFINE l == [link EXCEPT !.sent = FALSE, !.tx = "IDLE"]
  <2>2. link' \in Handler(l)
    <3> DEFINE k == [link EXCEPT !.sent = FALSE]
    <3>1. link' \in IF k.tx = "W4_PACKET_SENT" THEN Handler([k EXCEPT !.tx = "IDLE"]) ELSE {k}
      BY <1>4 DEF ProcessSent
    <3>2. k.tx = "W4_PACKET_SENT"
      BY <1>1, <2>1 DEF LinkType
    <3>3. [k EXCEPT !.tx = "IDLE"] = l
      OBVIOUS
    <3> HIDE DEF k, l
    <3> QED BY <3>1, <3>2, <3>3
  <2>3. /\ l \in LinkType /\ l.tx = "IDLE" /\ ~l.sent /\ l.txLeft = 0
        /\ l.h4 = link.h4 /\ l.pos = link.pos /\ l.want = link.want /\ l.active = link.active
        /\ l.buf = link.buf /\ l.received = link.received /\ l.polled = link.polled
        /\ l.rxAt = link.rxAt /\ l.rxLeft = link.rxLeft /\ l.ring = link.ring
        /\ l.out = link.out /\ l.cycles = link.cycles
    BY <1>1, <2>1, ZenonT(40) DEF LinkType
  <2> HIDE DEF l
  <2>4. Good(l, queue)
    <3>1. Whole(l, queue)
      BY <1>1, <2>1, <2>3, SameBytes DEF Open
    <3>2. Block(l) /\ Shape(l, queue)
      BY <2>1, <2>3 DEF Open, Block, Shape
    <3>3. Open(l, queue)
      BY <2>1, <2>3, <3>1, <3>2 DEF Open
    <3> QED BY <1>1, <2>3, <3>3 DEF Good, SentOk
  <2> QED BY <1>2, <2>2, <2>3, <2>4, HandlerStep
<1> QED BY <1>3, <1>4

(* Timers.                                                                 *)
LEMMA TimersKeep == ASSUME Inv, ~StaleFlags, Timers PROVE LinkKept /\ PipeStep
<1>1. link \in LinkType /\ queue \in Seq(Packets) /\ Good(link, queue)
  BY DEF Inv, TypeOK
<1>2. StillComing(queue) /\ got' = got
  BY DEF Timers
<1>3. CASE link' \in Handler(link)
  BY <1>1, <1>2, <1>3, HandlerStep
<1>4. CASE ~link.polled /\ link' \in Opened(link)
  <2>1. link.out = <<>> /\ queue = <<>>
    BY <1>1, <1>4 DEF Good, Open, Closed
  <2>2. link' \in LinkType /\ SentOk(link') /\ Fresh(link, link')
    BY <1>1, <1>4, <2>1, OpenIsFresh
  <2>3. Good(link', <<>>)
    BY <1>1, <2>2, FreshIsGood
  <2>4. queue' = <<>>
    BY <1>2, <2>1 DEF StillComing
  <2> QED BY <1>2, <2>1, <2>2, <2>3, <2>4 DEF LinkKept, PipeStep
<1> QED BY <1>3, <1>4 DEF Timers

(* ProcessReceived: only the end of a packet delivers, and it delivers the *)
(* first one.                                                              *)
LEMMA ProcessReceivedKeeps ==
  ASSUME Inv, ~StaleFlags, ProcessReceived PROVE LinkKept /\ PipeStep
<1>1. link \in LinkType /\ queue \in Seq(Packets) /\ Good(link, queue)
  BY DEF Inv, TypeOK
<1>2. CASE ~link.received
  BY <1>1, <1>2 DEF ProcessReceived, LinkKept, PipeStep
<1>3. CASE link.received
  <2> DEFINE r == [link EXCEPT !.received = FALSE, !.active = FALSE,
                               !.pos = link.pos + link.want]
             whole == {k \in Parse(r) : k.h4 = "PAYLOAD" /\ (r.h4 = "PAYLOAD" \/ k.want = 0)}
  <2>1. Filled(link, r)
    BY DEF Filled
  <2>2. BlockRead([link EXCEPT !.received = FALSE]) =
          [delivered |-> whole, parsed |-> Parse(r) \ whole]
    <3>1. [[link EXCEPT !.received = FALSE] EXCEPT !.active = FALSE,
              !.pos = [link EXCEPT !.received = FALSE].pos
                        + [link EXCEPT !.received = FALSE].want] = r
      BY <1>1 DEF LinkType
    <3> QED BY <3>1 DEF BlockRead
  <2> HIDE DEF r
  <2>3. \/ \E k \in Parse(r) \ whole :
             link' = NextRead(k) /\ queue' = queue /\ got' = got
        \/ \E k \in whole :
             /\ \E h \in PacketComplete(k) : link' = NextRead(h)
             /\ got' = [packet |-> PacketIn(k), turn |-> 1 - got.turn]
             /\ StillComing(SubSeq(queue, 2, Len(queue)))
    <3> DEFINE b == [delivered |-> whole, parsed |-> Parse(r) \ whole]
    <3>1. b = BlockRead([link EXCEPT !.received = FALSE])
      BY <2>2
    <3>2. b.delivered = whole /\ b.parsed = Parse(r) \ whole
      OBVIOUS
    <3> HIDE DEF b, whole
    <3> QED BY <1>3, <3>1, <3>2 DEF ProcessReceived
  <2>4. CASE \E k \in Parse(r) \ whole :
               link' = NextRead(k) /\ queue' = queue /\ got' = got
    <3>1. PICK k \in Parse(r) \ whole :
            link' = NextRead(k) /\ queue' = queue /\ got' = got
      BY <2>4
    <3>2. ~(k.h4 = "PAYLOAD" /\ (r.h4 = "PAYLOAD" \/ k.want = 0))
      OBVIOUS
    <3>3. CASE Open(link, queue)
      <4>1. Advances(r, k) /\ (Continues(r, k, queue) \/ Completes(r, k, queue))
        BY <1>1, <1>3, <2>1, <3>3, OpenParses
      <4>2. Continues(r, k, queue)
        BY <3>2, <4>1 DEF Completes, Ends
      <4>3. link' \in LinkType /\ Good(link', queue)
        BY <1>1, <1>3, <2>1, <3>1, <3>3, <4>1, <4>2, ReadOnIsGood
      <4> QED BY <1>1, <3>1, <4>3 DEF LinkKept, PipeStep
    <3>4. CASE Closed(link, queue)
      <4>1. link' \in LinkType /\ Good(link', queue)
        BY <1>1, <2>1, <3>1, <3>4, ClosedDrops
      <4> QED BY <1>1, <3>1, <4>1 DEF LinkKept, PipeStep
    <3> QED BY <1>1, <3>3, <3>4 DEF Good
  <2>5. CASE \E k \in whole :
               /\ \E h \in PacketComplete(k) : link' = NextRead(h)
               /\ got' = [packet |-> PacketIn(k), turn |-> 1 - got.turn]
               /\ StillComing(SubSeq(queue, 2, Len(queue)))
    <3> DEFINE rest == SubSeq(queue, 2, Len(queue))
    <3>1. PICK k \in whole :
            /\ \E h \in PacketComplete(k) : link' = NextRead(h)
            /\ got' = [packet |-> PacketIn(k), turn |-> 1 - got.turn]
            /\ StillComing(rest)
      BY <2>5
    <3>2. PICK h \in PacketComplete(k) : link' = NextRead(h)
      BY <3>1
    <3>3. k \in Parse(r) /\ k.h4 = "PAYLOAD" /\ (r.h4 = "PAYLOAD" \/ k.want = 0)
      OBVIOUS
    <3>4. Open(link, queue)
      BY <1>1, <2>1, <3>3, ClosedDrops DEF Good
    <3>5. Advances(r, k) /\ Completes(r, k, queue)
      <4>1. Advances(r, k) /\ (Continues(r, k, queue) \/ Completes(r, k, queue))
        BY <1>1, <1>3, <2>1, <3>3, <3>4, OpenParses
      <4> QED BY <3>3, <4>1 DEF Continues
    <3>6. /\ link' \in LinkType /\ rest \in Seq(Packets)
          /\ Good(link', OnTheWay(link, link', rest))
      BY <1>1, <1>3, <2>1, <3>2, <3>4, <3>5, DeliveryIsGood
    <3>7. queue' = OnTheWay(link, link', rest)
      BY <3>1 DEF StillComing, OnTheWay
    <3>8. queue # <<>> /\ PacketIn(k) = Head(queue)
      <4>1. queue # <<>> /\ PacketIn(k) = queue[1]
        BY <1>1, <1>3, <3>4, <3>5, BlockIsPacket DEF Completes, Ends
      <4> QED BY <4>1
    <3>9. rest = Tail(queue)
      BY <1>1, <3>8, TailIsRest
    <3>10. queue' = Tail(queue) \/ queue' = <<>>
      BY <3>7, <3>9 DEF OnTheWay
    <3>11. Pipe!Delivers
      BY <3>1, <3>8, <3>10 DEF Pipe!Delivers
    <3>12. queue' \in Seq(Packets)
      BY <3>6, <3>7 DEF OnTheWay
    <3> QED BY <3>6, <3>7, <3>11, <3>12 DEF LinkKept, PipeStep, Pipe!Next
  <2> QED BY <2>3, <2>4, <2>5
<1> QED BY <1>2, <1>3

(* The bytes of the controller.                                            *)
LEMMA ByteArrivesKeeps == ASSUME Inv, ByteArrives PROVE LinkKept /\ PipeStep
<1>1. link \in LinkType /\ queue \in Seq(Packets) /\ Good(link, queue)
  BY DEF Inv, TypeOK
<1>2. queue' = queue /\ got' = got /\ link.out # <<>> /\ Arrived(link, link')
  BY DEF ByteArrives, Arrived
<1>3. link' \in LinkType /\ Good(link', queue)
  BY <1>1, <1>2, ByteKeepsGood
<1> QED BY <1>1, <1>2, <1>3 DEF LinkKept, PipeStep

(* The packets of the controller.                                          *)
LEMMA EmitsKeeps == ASSUME Inv, NEW p \in Packets, Emits(p) PROVE LinkKept /\ PipeStep
<1>1. link \in LinkType /\ queue \in Seq(Packets) /\ Good(link, queue)
  BY DEF Inv, TypeOK
<1>2. /\ queue' = Append(queue, p) /\ got' = got /\ link.polled /\ link.out = <<>>
      /\ Sends(link, p, link')
  BY DEF Emits, Sends
<1>3. link' \in LinkType /\ Good(link', Append(queue, p))
  BY <1>1, <1>2, EmitKeepsGood
<1>4. Append(queue, p) \in Seq(Packets)
  BY <1>1
<1>5. Pipe!Emits(p)
  BY <1>2 DEF Pipe!Emits
<1> QED BY <1>2, <1>3, <1>4, <1>5 DEF LinkKept, PipeStep, Pipe!Next

(* Every step keeps the invariant and is a step of the pipe.               *)
LEMMA StepGood == ASSUME Inv, ~StaleFlags, [Next]_vars PROVE Inv' /\ PipeStep
<1>1. ASSUME UNCHANGED vars PROVE LinkKept /\ PipeStep
  BY <1>1 DEF vars, LinkKept, PipeStep, Inv, TypeOK
<1>2. LinkKept /\ PipeStep
  BY <1>1, PollTxKeeps, PollRxKeeps, ProcessSentKeeps, ProcessReceivedKeeps, TimersKeep,
     ByteArrivesKeeps, EmitsKeeps DEF Next, Loop
<1>3. step' \in {"poll_tx", "poll_rx", "sent", "received", "timers"}
  BY DEF Inv, TypeOK, Next, Loop, PollTx, PollRx, ProcessSent, ProcessReceived, Timers,
         ByteArrives, Emits, vars
<1> QED BY <1>2, <1>3 DEF LinkKept, Inv, TypeOK

(* The invariant holds in every run in which the flags are clean.          *)
LEMMA InvHolds == ASSUME ~StaleFlags PROVE Spec => []Inv
<1>1. Inv /\ [Next]_vars => Inv'
  BY StepGood
<1> QED BY <1>1, InitGood, PTL DEF Spec

(* What the link is made of, for every size of it (hci_packet and its      *)
(* read position in hci_transport_h4.c included).                          *)
THEOREM TypeCorrect == ~StaleFlags /\ Spec => []TypeOK
<1>1. Inv => TypeOK
  BY DEF Inv
<1>2. ASSUME ~StaleFlags PROVE Spec => []TypeOK
  BY <1>1, <1>2, InvHolds, PTL
<1> QED BY <1>2

(* hci_transport_h4 is idle only when the last byte was written, however   *)
(* hal_teensy_uart_poll cuts the packet up.                                *)
THEOREM SentIsWritten == ~StaleFlags /\ Spec => []SentWhenWritten
<1>1. Inv => SentWhenWritten
  BY DEF Inv, Good, SentOk, SentWhenWritten
<1>2. ASSUME ~StaleFlags PROVE Spec => []SentWhenWritten
  BY <1>1, <1>2, InvHolds, PTL
<1> QED BY <1>2

(* No byte is taken for the start of a command: btstack_assert(false) in   *)
(* hci_transport_h4_block_read is not reached.                             *)
THEOREM NoCommandRead == ~StaleFlags /\ Spec => []AssertHolds
<1>1. Inv => AssertHolds
  BY DEF Inv, Good, Open, Closed, Shape, AssertHolds
<1>2. ASSUME ~StaleFlags PROVE Spec => []AssertHolds
  BY <1>1, <1>2, InvHolds, PTL
<1> QED BY <1>2

(* The framing of hci_transport_h4.c is a pipe: every packet of the        *)
(* controller arrives whole, once and in order until the transport closes. *)
THEOREM LinkIsPipe == ~StaleFlags /\ Spec => ImplementsPipe
<1>1. Init => Pipe!Init
  BY DEF Init, Pipe!Init
<1>2. ASSUME ~StaleFlags PROVE Inv /\ [Next]_vars => [Pipe!Next]_<<queue, got>>
  BY <1>2, StepGood DEF PipeStep
<1>3. ASSUME ~StaleFlags PROVE Spec => Pipe!Spec
  <2>1. Inv /\ [Next]_vars => [Pipe!Next]_<<queue, got>>
    BY <1>2, <1>3
  <2>2. Spec => []Inv
    BY <1>3, InvHolds
  <2> QED BY <1>1, <2>1, <2>2, PTL DEF Spec, Pipe!Spec
<1> QED BY <1>3 DEF ImplementsPipe
=============================================================================

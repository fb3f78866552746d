------------------------------- MODULE H4Link -------------------------------
(***************************************************************************)
(* The way of a packet between hci.c and the controller: the H4 state      *)
(* machine (hci_transport_h4.c), its UART driver with two completion flags *)
(* (btstack_uart_block_embedded.c), the polled HAL (hal_teensy_uart.cpp)   *)
(* and the order in which BTstackTeensyManager::loop runs them.            *)
(*                                                                         *)
(* A byte is known by the packet it belongs to and its position in it, so  *)
(* what the state machine reads out of a byte is right if it reads it at   *)
(* its position, and anything otherwise.                                   *)
(***************************************************************************)
EXTENDS Integers, Sequences

CONSTANTS
  Packets,    \* packets of the controller: [kind : {"event","acl"}, len : Nat]
  MaxLen,     \* the longest payload that fits hci_packet
  TxSizes,    \* sizes of packets the host sends
  RingSize,   \* bytes the receive ring of the UART holds
  MaxCycles,  \* how often the transport is opened
  StaleFlags  \* may it be opened with a completion flag of the last cycle set?

ASSUME PacketAssumption == Packets \subseteq [kind : {"event", "acl"}, len : 0..MaxLen]
ASSUME SizeAssumption ==
  /\ MaxLen \in Nat /\ TxSizes \subseteq Nat \ {0} /\ TxSizes # {}
  /\ RingSize \in Nat \ {0} /\ MaxCycles \in Nat /\ StaleFlags \in BOOLEAN

VARIABLES
  link,   \* the transport, its driver, the HAL and the UART
  step,   \* where loop() is
  got,    \* history: the last packet delivered, and the parity of their number
  queue   \* history: the packets on their way since the transport was opened

vars == <<link, step, got, queue>>

None == [kind |-> "none", len |-> 0]
NothingYet == [packet |-> None, turn |-> 0]

HeaderSize(kind) ==
  CASE kind = "event" -> 2 [] kind = "acl" -> 4 [] kind = "sco" -> 3 [] kind = "cmd" -> 3
LengthAt(kind) == IF kind = "event" THEN 2 ELSE 3

Byte == [kind : {"event", "acl"}, len : 0..MaxLen, pos : Nat]
Bytes(p) == [i \in 1..(1 + HeaderSize(p.kind) + p.len) |->
               [kind |-> p.kind, len |-> p.len, pos |-> i - 1]]
NoByte == [kind |-> "event", len |-> 0, pos |-> 0]
BufferSize == 5 + MaxLen

LinkType ==
  [ h4       : {"OFF", "PACKET_TYPE", "CMD_HEADER", "EVENT_HEADER", "ACL_HEADER",
                "SCO_HEADER", "PAYLOAD"},
    pos      : 0..BufferSize,        \* read_pos
    want     : 0..BufferSize,        \* bytes_to_read
    active   : BOOLEAN,              \* hci_transport_h4_read_active
    buf      : [0..BufferSize - 1 -> Byte],  \* hci_packet
    tx       : {"OFF", "IDLE", "W4_PACKET_SENT"},
    sent     : BOOLEAN,              \* send_complete
    received : BOOLEAN,              \* receive_complete
    polled   : BOOLEAN,              \* the data source is in the run loop
    rxAt     : 0..BufferSize,        \* rx_buffer_ptr
    rxLeft   : 0..BufferSize,        \* rx_bytes_remaining
    txLeft   : {0} \cup UNION {1..n : n \in TxSizes},  \* tx_bytes_remaining
    ring     : Seq(Byte),            \* receive ring of the UART
    out      : Seq(Byte),            \* bytes of the controller under way
    cycles   : 0..MaxCycles ]

InitialLink ==
  [ h4 |-> "OFF", pos |-> 0, want |-> 0, active |-> FALSE,
    buf |-> [i \in 0..BufferSize - 1 |-> NoByte], tx |-> "OFF",
    sent |-> FALSE, received |-> FALSE, polled |-> FALSE,
    rxAt |-> 0, rxLeft |-> 0, txLeft |-> 0, ring |-> <<>>, out |-> <<>>, cycles |-> 0 ]

----------------------------------------------------------------------------
(* Calls of hci.c *)

(* hci_transport_h4_reset_statemachine                                     *)
Restart(l) == [l EXCEPT !.h4 = "PACKET_TYPE", !.pos = 0, !.want = 1]

(* hci_transport_h4_trigger_next_read                                      *)
TriggerRead(l) == [l EXCEPT !.active = TRUE, !.rxAt = l.pos, !.rxLeft = l.want]

(* hci_transport_h4_send_packet                                            *)
SendPacket(l) ==
  IF l.tx = "IDLE" THEN {[l EXCEPT !.tx = "W4_PACKET_SENT", !.txLeft = n] : n \in TxSizes}
  ELSE {}

MayOpen(l) == l.cycles < MaxCycles /\ (StaleFlags \/ (~l.sent /\ ~l.received))

(* hal_uart_dma_init: the UART restarts with an empty ring; the completion *)
(* flags of the driver are left as they are.                               *)
RestartUart(l) == [l EXCEPT !.rxLeft = 0, !.txLeft = 0, !.ring = <<>>, !.polled = TRUE]

(* hci_transport_h4_open                                                   *)
OpenTransport(l) ==
  IF MayOpen(l)
  THEN {[TriggerRead(Restart(RestartUart(l))) EXCEPT !.tx = "IDLE", !.cycles = @ + 1]}
  ELSE {}

(* hci_power_control_off: the transport is closed, then the controller     *)
(* loses power.  The HAL is not told and goes on with its transfers.       *)
CloseTransport(l) ==
  IF l.polled
  THEN {[l EXCEPT !.tx = "OFF", !.h4 = "OFF", !.active = FALSE, !.polled = FALSE, !.out = <<>>]}
  ELSE {}

(* What hci.c does in a packet handler: it may send, turn the power off,   *)
(* or cycle it, which sends HCI_Reset.                                     *)
Opened(l) == UNION {{k} \cup SendPacket(k) : k \in OpenTransport(l)}
Handler(l) ==
  LET closed == CloseTransport(l)
  IN  {l} \cup SendPacket(l) \cup closed \cup UNION {Opened(k) : k \in closed}

----------------------------------------------------------------------------
(* hci_transport_h4.c *)

TypesIn(b) == IF b.pos = 0 THEN {b.kind} ELSE {"event", "acl", "sco", "cmd", "bad"}
LengthsIn(b, kind) ==
  IF b.kind = kind /\ b.pos = LengthAt(kind) THEN {b.len} ELSE 0..(MaxLen + 1)

ReadType(l) ==
  { IF t = "bad" THEN Restart(l)
    ELSE [l EXCEPT !.want = HeaderSize(t),
                   !.h4 = CASE t = "event" -> "EVENT_HEADER" [] t = "acl" -> "ACL_HEADER"
                            [] t = "sco" -> "SCO_HEADER" [] t = "cmd" -> "CMD_HEADER"] :
      t \in TypesIn(l.buf[0]) }

HeaderKind(l) ==
  CASE l.h4 = "EVENT_HEADER" -> "event" [] l.h4 = "ACL_HEADER" -> "acl" [] OTHER -> "sco"

(* A length hci_packet has no room for starts over.                        *)
ReadHeader(l) ==
  LET kind == HeaderKind(l)
  IN  { IF n > MaxLen THEN Restart(l) ELSE [l EXCEPT !.h4 = "PAYLOAD", !.want = n] :
          n \in LengthsIn(l.buf[LengthAt(kind)], kind) }

(* What the handler is given: the packet type and read_pos - 1 bytes.      *)
PacketIn(l) ==
  LET kind == l.buf[0].kind
  IN  [kind |-> kind, len |-> l.pos - 1 - HeaderSize(kind)]

(* Where a packet is complete the state machine is reset first, as the     *)
(* handler may close the transport.                                        *)
PacketComplete(l) == Handler(Restart(l))

(* What block_read finds out of a block, without the delivery.             *)
Parse(l) ==
  CASE l.h4 = "PACKET_TYPE" -> ReadType(l)
    [] l.h4 \in {"EVENT_HEADER", "ACL_HEADER", "SCO_HEADER"} -> ReadHeader(l)
    [] l.h4 = "OFF" -> {[l EXCEPT !.want = 0]}
    [] OTHER -> {l}

(* The next read, unless the handler closed or restarted the transport.    *)
NextRead(l) == IF l.h4 # "OFF" /\ ~l.active THEN TriggerRead(l) ELSE l

(* hci_transport_h4_block_read                                             *)
BlockRead(l) ==
  LET r == [l EXCEPT !.active = FALSE, !.pos = @ + l.want]
      whole == {k \in Parse(r) : k.h4 = "PAYLOAD" /\ (r.h4 = "PAYLOAD" \/ k.want = 0)}
  IN  [delivered |-> whole, parsed |-> Parse(r) \ whole]

----------------------------------------------------------------------------
(* The loop *)

Init == link = InitialLink /\ step = "poll_tx" /\ got = NothingYet /\ queue = <<>>

(* The packets q stay on their way unless a handler closes the transport.  *)
StillComing(q) ==
  queue' = IF link'.polled /\ link'.cycles = link.cycles THEN q ELSE <<>>

\* Fault: a block that does not fit the transmit ring is never reported.
PollTx_OneWrite ==
  /\ step = "poll_tx" /\ step' = "poll_rx"
  /\ \/ UNCHANGED link
     \/ \E n \in 1..link.txLeft :
          link' = [link EXCEPT !.txLeft = @ - n, !.sent = @ \/ n \in TxSizes]
  /\ UNCHANGED <<got, queue>>

\* Fault: the callback is called although bytes are left.
PollTx_Early ==
  /\ step = "poll_tx" /\ step' = "poll_rx"
  /\ \/ UNCHANGED link
     \/ \E n \in 1..link.txLeft : link' = [link EXCEPT !.txLeft = @ - n, !.sent = TRUE]
  /\ UNCHANGED <<got, queue>>

(* hal_teensy_uart_poll: what fits the transmit ring is written.           *)
PollTx ==
  /\ step = "poll_tx" /\ step' = "poll_rx"
  /\ \/ UNCHANGED link
     \/ \E n \in 1..link.txLeft :
          link' = [link EXCEPT !.txLeft = @ - n, !.sent = @ \/ n = link.txLeft]
  /\ UNCHANGED <<got, queue>>

\* Fault: the callback is called although bytes are missing.
PollRx_Early ==
  /\ step = "poll_rx" /\ step' = "sent"
  /\ LET n == IF Len(link.ring) < link.rxLeft THEN Len(link.ring) ELSE link.rxLeft
     IN  link' = [link EXCEPT
           !.buf = [i \in 0..BufferSize - 1 |->
                      IF i - link.rxAt \in 0..n - 1 THEN link.ring[i - link.rxAt + 1] ELSE @[i]],
           !.rxAt = @ + n, !.rxLeft = IF n > 0 THEN 0 ELSE @,
           !.ring = SubSeq(@, n + 1, Len(@)),
           !.received = @ \/ n > 0]
  /\ UNCHANGED <<got, queue>>

(* ... and what the ring holds is read, up to the end of the block.        *)
PollRx ==
  /\ step = "poll_rx" /\ step' = "sent"
  /\ LET n == IF Len(link.ring) < link.rxLeft THEN Len(link.ring) ELSE link.rxLeft
     IN  link' = [link EXCEPT
           !.buf = [i \in 0..BufferSize - 1 |->
                      IF i - link.rxAt \in 0..n - 1 THEN link.ring[i - link.rxAt + 1] ELSE @[i]],
           !.rxAt = @ + n, !.rxLeft = @ - n,
           !.ring = SubSeq(@, n + 1, Len(@)),
           !.received = @ \/ (n > 0 /\ n = link.rxLeft)]
  /\ UNCHANGED <<got, queue>>

(* btstack_uart_embedded_process, if the data source is in the run loop:   *)
(* block_sent first, ...                                                   *)
ProcessSent ==
  /\ step = "sent"
  /\ step' = IF link.polled THEN "received" ELSE "timers"
  /\ IF link.polled /\ link.sent
     THEN LET l == [link EXCEPT !.sent = FALSE]
          IN  link' \in IF l.tx = "W4_PACKET_SENT" THEN Handler([l EXCEPT !.tx = "IDLE"])
                        ELSE {l}
     ELSE UNCHANGED link
  /\ StillComing(queue)
  /\ UNCHANGED got

(* ... then block_read, even if block_sent closed the transport.           *)
ProcessReceived ==
  /\ step = "received" /\ step' = "timers"
  /\ IF link.received
     THEN LET r == BlockRead([link EXCEPT !.received = FALSE])
          IN  \/ /\ \E l \in r.parsed : link' = NextRead(l)
                 /\ UNCHANGED <<got, queue>>
              \/ \E l \in r.delivered :
                   /\ \E k \in PacketComplete(l) : link' = NextRead(k)
                   /\ got' = [packet |-> PacketIn(l), turn |-> 1 - got.turn]
                   /\ StillComing(SubSeq(queue, 2, Len(queue)))
     ELSE UNCHANGED <<link, got, queue>>

(* A timer of hci.c or the application sends or turns the power on or off. *)
Timers ==
  /\ step = "timers" /\ step' = "poll_tx"
  /\ link' \in Handler(link) \cup (IF link.polled THEN {} ELSE Opened(link))
  /\ StillComing(queue)
  /\ UNCHANGED got

----------------------------------------------------------------------------
(* The controller and the receive interrupt *)

Emits(p) ==
  /\ link.polled /\ link.out = <<>>
  /\ link' = [link EXCEPT !.out = Bytes(p)]
  /\ queue' = Append(queue, p)
  /\ UNCHANGED <<step, got>>

(* RTS holds the controller back when the ring is full.                    *)
ByteArrives ==
  /\ link.out # <<>> /\ Len(link.ring) < RingSize
  /\ link' = [link EXCEPT !.ring = Append(@, Head(link.out)), !.out = Tail(@)]
  /\ UNCHANGED <<step, got, queue>>

Loop == PollTx \/ PollRx \/ ProcessSent \/ ProcessReceived \/ Timers

Next == Loop \/ ByteArrives \/ \E p \in Packets : Emits(p)

Spec == Init /\ [][Next]_vars

(* loop() is called for ever, and the UART has room now and then.          *)
FairSpec ==
  Spec /\ WF_vars(Loop) /\ WF_vars(ByteArrives) /\ SF_vars(PollTx /\ link' # link)

----------------------------------------------------------------------------
(* Properties *)

(* What the link is made of.                                               *)
TypeOK ==
  /\ link \in LinkType /\ queue \in Seq(Packets)
  /\ step \in {"poll_tx", "poll_rx", "sent", "received", "timers"}

(* PACKET_SENT is reported when the last byte was written and not before:  *)
(* the transport is idle only if the HAL has nothing left to write.        *)
SentWhenWritten ==
  /\ link.tx = "IDLE" => link.txLeft = 0 /\ ~link.sent
  /\ link.tx = "W4_PACKET_SENT" => (link.txLeft > 0) # link.sent

(* A packet enters the pipe when the controller begins to send it.         *)
Pipe == INSTANCE PacketPipe
          WITH Packets <- Packets, NothingYet <- NothingYet, queue <- queue, got <- got

(* The transport is a pipe: packets arrive whole, once and in order.       *)
ImplementsPipe == Pipe!Spec

(* btstack_assert(false) in hci_transport_h4_block_read is not reached: no *)
(* byte of a controller is taken for the start of a command.               *)
AssertHolds == link.h4 # "CMD_HEADER"

(* Neither direction stalls.  While packets are on their way, one is       *)
(* delivered or all are lost with the power of the controller, though RTS  *)
(* stops the controller when the ring is full; and what the host sends is  *)
(* written, and the driver sees that it was, unless the transport is closed.*)
PacketsArrive ==
  /\ \A t \in 0..1 : queue # <<>> /\ got.turn = t ~> got.turn # t \/ queue = <<>>
  /\ link.tx = "W4_PACKET_SENT" ~> link.tx # "W4_PACKET_SENT" \/ link.sent
  /\ link.polled /\ link.sent ~> ~link.polled \/ ~link.sent
=============================================================================

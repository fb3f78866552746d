------------------------------ MODULE L2capErtm ------------------------------
(***************************************************************************)
(* Enhanced Retransmission Mode (l2cap.c): two devices that run this code  *)
(* exchange SDUs over an open channel.  A frame may fail its check         *)
(* sequence, both timers may expire, and a frame is sent only when hci.c   *)
(* has a free buffer.                                                      *)
(*                                                                         *)
(* The channel at a device is a record; the functions of l2cap.c map such  *)
(* records to records.  Sequence numbers are modulo Modulus (64 in l2cap.c)*)
(* and a segment of an SDU is known by its SDU, its place and the number   *)
(* of segments, from which the SAR bits follow.                            *)
(***************************************************************************)
EXTENDS Integers, Sequences

CONSTANTS
  Nodes,        \* the two devices
  Modulus,      \* of the sequence numbers
  NumTx,        \* num_tx_buffers
  NumRx,        \* num_rx_buffers, and the window of the other device
  MaxTransmit,  \* max_transmit of both
  Longest,      \* segments of an SDU as long as the MTU
  Sdus,         \* the SDUs a client sends: their numbers of segments
  AclBuffers,   \* packets that may be on their way from a device
  Eager,        \* do clients ask for CAN_SEND_NOW while the store is full?
  Faults,       \* what may go wrong: a frame that fails its check sequence,
                \* a client that is busy for a while, a timer that expires
                \* while frames are under way
  MaxFaults     \* and how often in all

ASSUME NodesAssumption == \E a, b \in Nodes : a # b /\ Nodes = {a, b}
ASSUME BoundsAssumption ==
  /\ Modulus \in Nat \ {0} /\ NumTx \in Nat \ {0} /\ NumRx \in Nat \ {0}
  /\ MaxTransmit \in Nat \ {0} /\ AclBuffers \in Nat \ {0} /\ MaxFaults \in Nat
  /\ Longest \in 1..NumTx /\ Sdus \in [Nodes -> Seq(1..Longest)]
  /\ Eager \in BOOLEAN /\ Faults \subseteq {"loss", "busy", "early"}

VARIABLES
  chan,   \* the channel at each device, with the frames on their way from it
  faults  \* how much has gone wrong

vars == <<chan, faults>>

Peer(n) == CHOOSE p \in Nodes : p # n

Slots == 0..NumTx - 1
SeqNrs == 0..Modulus - 1
NextSeq(x) == (x + 1) % Modulus
NextSlot(i) == (i + 1) % NumTx

SdusOf(n) == DOMAIN Sdus[n]
Segment(n) == [sdu : SdusOf(n), part : 1..Longest, of : 1..Longest]
NoSegment == [sdu |-> 0, part |-> 0, of |-> 0]  \* of a frame without data, in a free slot
Unused == [sdu |-> 0, part |-> 1, of |-> 1]     \* in a slot of the zeroed store of sent frames
Segments(n, k) == [j \in 1..Sdus[n][k] |-> [sdu |-> k, part |-> j, of |-> Sdus[n][k]]]

Functions == {"I", "RR", "REJ", "RNR", "SREJ", "DISC", "DISC_RSP"}
FrameType(n) ==
  [ fn : Functions, seq : SeqNrs, req : SeqNrs, poll : BOOLEAN, final : BOOLEAN,
    seg : Segment(n) \cup {NoSegment, Unused} ]

TxStates == {"NEW", "RETRANSMISSION_REQUESTED", "SENT"}

ChannelType(n) ==
  [ state   : {"OPEN", "WILL_SEND_DISCONNECT_REQUEST", "WAIT_DISCONNECT",
               "WILL_SEND_DISCONNECT_RESPONSE", "CLOSED"},
    busy    : BOOLEAN,                     \* no outgoing packet can be sent now
    tx      : [Slots -> [seq : SeqNrs, retry : 0..MaxTransmit, state : TxStates,
                         seg : Segment(n) \cup {Unused}]],
    stored  : 0..NumTx,                    \* num_stored_tx_frames
    unacked : 0..NumTx,                    \* unacked_frames
    read : Slots, write : Slots, send : Slots,   \* tx_read_index, ...
    next    : SeqNrs,                      \* next_tx_seq
    srej    : BOOLEAN,                     \* srej_active
    waitF   : BOOLEAN,                     \* tx_wait_for_final
    waiting : BOOLEAN,                     \* waiting_for_can_send_now
    retransTimer : BOOLEAN, monitorTimer : BOOLEAN,
    expect  : SeqNrs,                      \* expected_tx_seq, and req_seq, always equal
    rx      : Seq(Segment(Peer(n)) \cup {NoSegment, Unused}),  \* the slots; valid unless NoSegment
    rxStore : 0..NumRx - 1,                \* rx_store_index
    localBusy : BOOLEAN,
    sendRr : BOOLEAN, sendPoll : BOOLEAN, sendRnr : BOOLEAN,
    sendRej : BOOLEAN, sendSrej : BOOLEAN, setF : BOOLEAN,
    asm     : Seq(Segment(Peer(n))),       \* reassembly_buffer up to reassembly_pos
    asmLen  : 0..Longest,                  \* reassembly_sdu_length
    todo    : 1..Len(Sdus[n]) + 1,         \* the client's next SDU
    out     : Seq(FrameType(n)),           \* frames on their way, oldest first
    got     : Seq(Seq(Segment(Peer(n)) \cup {Unused})) ] \* SDUs given to the client

(* l2cap_ertm_configure_channel, with the client's buffer zeroed           *)
InitialChannel ==
  [ state |-> "OPEN", busy |-> FALSE,
    tx |-> [i \in Slots |-> [seq |-> 0, retry |-> 0, state |-> "NEW", seg |-> Unused]],
    stored |-> 0, unacked |-> 0, read |-> 0, write |-> 0, send |-> 0, next |-> 0,
    srej |-> FALSE, waitF |-> FALSE, waiting |-> FALSE,
    retransTimer |-> FALSE, monitorTimer |-> FALSE,
    expect |-> 0, rx |-> [i \in 1..NumRx |-> NoSegment], rxStore |-> 0,
    localBusy |-> FALSE, sendRr |-> FALSE, sendPoll |-> FALSE, sendRnr |-> FALSE,
    sendRej |-> FALSE, sendSrej |-> FALSE, setF |-> FALSE,
    asm |-> <<>>, asmLen |-> 0, todo |-> 1, out |-> <<>>, got |-> <<>> ]

----------------------------------------------------------------------------
(* Sending frames: one packet, then the packet buffer is taken.            *)

CanSend(s) == ~s.busy
Transmit(s, frame) == [s EXCEPT !.busy = TRUE, !.out = Append(@, frame)]

Supervisory(s, fn, poll, final) ==
  [fn |-> fn, seq |-> 0, req |-> s.expect, poll |-> poll, final |-> final, seg |-> NoSegment]

Information(s, i, final) ==
  [fn |-> "I", seq |-> s.tx[i].seq, req |-> s.expect, poll |-> FALSE, final |-> final,
   seg |-> s.tx[i].seg]

(* l2cap_ertm_send_information_frame                                       *)
SendInformation(s, i, final) ==
  Transmit([s EXCEPT !.retransTimer = TRUE, !.tx[i].state = "SENT"], Information(s, i, final))

(* l2cap_ertm_channel_send_information_frame                               *)
\* Fault: a frame sent again is counted again.
SendNext_CountsAgain(s) ==
  SendInformation(
    [s EXCEPT !.send = NextSlot(@), !.unacked = IF @ < NumTx THEN @ + 1 ELSE @], s.send, FALSE)
SendNext(s) ==
  SendInformation(
    [s EXCEPT !.send = NextSlot(@),
              !.unacked = IF s.tx[s.send].state = "NEW" THEN @ + 1 ELSE @], s.send, FALSE)

(* Slots of the unacknowledged frames, oldest first.                       *)
UnackedSlots(s) == [k \in 1..s.unacked |-> (s.read + k - 1) % NumTx]

(* l2cap_ertm_retransmit_unacknowledged_frames                             *)
RetransmitAll(s) ==
  [s EXCEPT !.send = s.read,
            !.tx = [i \in Slots |->
                      IF \E k \in 1..s.unacked : UnackedSlots(s)[k] = i
                      THEN [@[i] EXCEPT !.state = "RETRANSMISSION_REQUESTED"] ELSE @[i]]]

(* l2cap_channel_ready_to_send: what it answers and what it does to        *)
(* tx_send_index on the way.                                               *)
Smaller(a, b) == IF a < b THEN a ELSE b
HasNew(s) == s.unacked < Smaller(NumRx, s.stored)
Requested(s) ==
  SelectSeq(UnackedSlots(s), LAMBDA i : s.tx[i].state = "RETRANSMISSION_REQUESTED")
Aimed(s) ==
  IF s.state # "OPEN" \/ s.waitF \/ HasNew(s) \/ Requested(s) = <<>> THEN s
  ELSE [s EXCEPT !.send = Head(Requested(s))]
Ready(s) ==
  /\ s.state = "OPEN" /\ ~s.waitF /\ CanSend(s)
  /\ HasNew(s) \/ Requested(s) # <<>> \/ s.waiting

(* F(s), for which TLC evaluates s once.                                   *)
With(s, F(_)) == [t \in {s} |-> F(t)][s]

(* l2cap_notify_channel_can_send, with one channel: its loop asks again    *)
(* after the frame that took the packet buffer.                            *)
SendIfReady(s) == IF Ready(s) THEN With(SendNext(Aimed(s)), Aimed) ELSE Aimed(s)
NotifyChannels(s) == With(s, SendIfReady)

(* l2cap_run_for_classic_channel_ertm                                      *)
RunErtm(s) ==
  IF ~CanSend(s) THEN s
  ELSE IF s.sendRr THEN
    Transmit([s EXCEPT !.sendRr = FALSE, !.setF = FALSE], Supervisory(s, "RR", FALSE, s.setF))
  ELSE IF s.sendPoll THEN
    Transmit([s EXCEPT !.sendPoll = FALSE], Supervisory(s, "RR", TRUE, FALSE))
  ELSE IF s.sendRnr THEN
    Transmit([s EXCEPT !.sendRnr = FALSE], Supervisory(s, "RNR", FALSE, FALSE))
  ELSE IF s.sendRej THEN
    Transmit([s EXCEPT !.sendRej = FALSE], Supervisory(s, "REJ", FALSE, FALSE))
  ELSE IF s.sendSrej THEN
    Transmit([s EXCEPT !.sendSrej = FALSE, !.setF = FALSE], Supervisory(s, "SREJ", FALSE, s.setF))
  ELSE IF s.srej THEN
    LET wanted == {i \in Slots : s.tx[i].state = "RETRANSMISSION_REQUESTED"}
    IN  IF wanted = {} THEN [s EXCEPT !.srej = FALSE]
        ELSE SendInformation([s EXCEPT !.setF = FALSE],
                             CHOOSE i \in wanted : \A j \in wanted : i <= j, s.setF)
  ELSE s

(* l2cap_run: the state of the channel first, then its data.  A channel    *)
(* that has answered a disconnect request is freed with its timers.        *)
Freed(s) == [InitialChannel EXCEPT !.state = "CLOSED", !.busy = s.busy, !.todo = s.todo, !.out = s.out, !.got = s.got]
RunChannel(s) ==
  CASE s.state = "CLOSED" -> s
    [] s.state = "WILL_SEND_DISCONNECT_RESPONSE" /\ CanSend(s) ->
         Freed(Transmit(s, Supervisory(InitialChannel, "DISC_RSP", FALSE, FALSE)))
    [] s.state = "WILL_SEND_DISCONNECT_REQUEST" /\ CanSend(s) ->
         RunErtm(Transmit([s EXCEPT !.state = "WAIT_DISCONNECT"],
                          Supervisory(InitialChannel, "DISC", FALSE, FALSE)))
    [] OTHER -> RunErtm(s)
Run(s) == With(s, RunChannel)

----------------------------------------------------------------------------
(* The client of the channel *)

(* l2cap_ertm_can_store_packet_now                                         *)
CanStore(s) == Longest <= NumTx - s.stored

(* l2cap_ertm_store_fragment, once for each segment                        *)
StoreSdu(n, s) ==
  LET segs   == Segments(n, s.todo)
      k      == Len(segs)
      nth(i) == (i - s.write) % NumTx
  IN  [s EXCEPT !.tx = [i \in Slots |->
                          IF nth(i) < k
                          THEN [seq |-> (s.next + nth(i)) % Modulus, retry |-> 0,
                                state |-> "NEW", seg |-> segs[nth(i) + 1]]
                          ELSE @[i]],
                !.stored = @ + k, !.next = (@ + k) % Modulus, !.write = (@ + k) % NumTx,
                !.todo = @ + 1]

(* l2cap_ertm_send of the client's next SDU                                *)
SendSdu(n, s) == NotifyChannels(StoreSdu(n, s))

HasSdu(n, s) == s.todo \in SdusOf(n)

(* l2cap_ertm_notify_channel_can_send: a client that has something to send *)
(* does so from inside the event.                                          *)
NotifyErtm(n, s) ==
  IF ~CanStore(s) THEN s
  ELSE IF s.waiting /\ HasSdu(n, s) THEN SendSdu(n, [s EXCEPT !.waiting = FALSE])
  ELSE [s EXCEPT !.waiting = FALSE]

(* l2cap_request_can_send_now_event                                        *)
RequestCanSendNow(n, s) == NotifyErtm(n, [s EXCEPT !.waiting = TRUE])

(* l2cap_ertm_set_busy, l2cap_ertm_set_ready                               *)
SetBusy(s) == Run([s EXCEPT !.localBusy = TRUE, !.sendRnr = TRUE])
SetReady(s) == Run([s EXCEPT !.localBusy = FALSE, !.waitF = TRUE, !.sendPoll = TRUE])

----------------------------------------------------------------------------
(* Frames from the peer *)

(* l2cap_ertm_process_req_seq                                              *)
Acked(s, req) ==
  LET done(i) == (req - s.tx[i].seq) % Modulus \in 1..NumRx
      slots   == UnackedSlots(s)
  IN  CHOOSE k \in 0..s.unacked :
        /\ \A j \in 1..k : done(slots[j])
        /\ k < s.unacked => ~done(slots[k + 1])
ProcessReqSeq(n, s, req) ==
  LET k == Acked(s, req)
      t == [s EXCEPT !.stored = @ - k, !.unacked = @ - k, !.read = (@ + k) % NumTx,
                     !.retransTimer = @ /\ k # s.unacked]
  IN  IF k = 0 THEN t ELSE NotifyErtm(n, t)

(* l2cap_ertm_handle_in_sequence_sdu                                       *)
Dispatch(s, sdu) == [s EXCEPT !.got = Append(@, sdu)]
InSequence(s, seg) ==
  LET grown == Append(s.asm, seg)
  IN  CASE seg.of = 1 -> Dispatch(s, <<seg>>)
        [] seg.of > 1 /\ seg.part = 1 -> [s EXCEPT !.asm = <<seg>>, !.asmLen = seg.of]
        [] seg.part \in 2..seg.of - 1 -> [s EXCEPT !.asm = grown]
        [] seg.of > 1 /\ seg.part = seg.of ->
             IF Len(grown) = s.asmLen THEN Dispatch([s EXCEPT !.asm = <<>>], grown)
             ELSE [s EXCEPT !.asm = grown]

(* l2cap_ertm_handle_out_of_sequence_sdu, for delta = 1                    *)
Valid(s, index) == s.rx[index + 1] # NoSegment
OutOfSequence(s, seg) ==
  IF Valid(s, s.rxStore) THEN s ELSE [s EXCEPT !.rx[s.rxStore + 1] = seg]

(* l2cap_acl_classic_handler_for_channel: a stored segment whose turn came *)
\* Fault: the slot is not marked free.
ProcessStored_Keeps(s) ==
  IF ~Valid(s, s.rxStore) THEN s
  ELSE [InSequence([s EXCEPT !.expect = NextSeq(@)], s.rx[s.rxStore + 1])
        EXCEPT !.rxStore = (@ + 1) % NumRx]
ProcessStored(s) ==
  IF ~Valid(s, s.rxStore) THEN s
  ELSE [InSequence([s EXCEPT !.expect = NextSeq(@), !.rx[s.rxStore + 1] = NoSegment],
                   s.rx[s.rxStore + 1])
        EXCEPT !.rxStore = (@ + 1) % NumRx]

ReceiveI(n, s, f) ==
  LET t     == ProcessReqSeq(n, s, f.req)
      u     == IF f.final THEN RetransmitAll(t) ELSE t
      delta == (f.seq - u.expect) % Modulus
  IN  CASE delta = 0 ->
             LET after[turn \in 0..NumRx] ==
                   IF turn = 0 THEN InSequence([u EXCEPT !.expect = NextSeq(@)], f.seg)
                   ELSE ProcessStored(after[turn - 1])
             IN  [after[NumRx] EXCEPT !.sendRr = TRUE]
        [] delta = 1 -> [OutOfSequence(u, f.seg) EXCEPT !.sendSrej = TRUE]
        [] OTHER     -> [u EXCEPT !.sendRej = TRUE]

\* Fault: the answer to a poll lacks the final bit.
AnswerPoll_NoFinal(s) ==
  LET stored == \E i \in 1..NumRx : s.rx[i] # NoSegment
  IN  [s EXCEPT !.sendSrej = @ \/ stored, !.sendRr = @ \/ ~stored]
AnswerPoll(s) ==
  LET stored == \E i \in 1..NumRx : s.rx[i] # NoSegment
  IN  [s EXCEPT !.setF = TRUE, !.sendSrej = @ \/ stored, !.sendRr = @ \/ ~stored]
FinalReceived(s) ==
  RetransmitAll([s EXCEPT !.monitorTimer = FALSE, !.retransTimer = @ \/ s.unacked > 0])
ReceiveRr(n, s, f) ==
  LET t == ProcessReqSeq(n, s, f.req)
      u == IF f.poll THEN AnswerPoll(t) ELSE t
  IN  NotifyChannels(IF f.final THEN FinalReceived(u) ELSE u)

ReceiveRej(n, s, f) == NotifyChannels(RetransmitAll(ProcessReqSeq(n, s, f.req)))

(* l2cap_ertm_get_tx_state finds the first slot with the number, whatever  *)
(* became of its frame.                                                    *)
ReceiveSrej(n, s, f) ==
  LET found == {i \in Slots : s.tx[i].seq = f.req}
  IN  IF found = {} THEN s
      ELSE [s EXCEPT !.setF = f.poll, !.srej = TRUE,
                     !.tx[CHOOSE i \in found : \A j \in found : i <= j].state =
                        "RETRANSMISSION_REQUESTED"]

(* l2cap_acl_classic_handler_for_channel                                   *)
DataHandler(n, s0, f) ==
  LET s == IF f.final THEN [s0 EXCEPT !.waitF = FALSE] ELSE s0
  IN  CASE s0.state # "OPEN" -> s0
        [] s0.state = "OPEN" /\ f.fn = "I"    -> ReceiveI(n, s, f)
        [] s0.state = "OPEN" /\ f.fn = "RR"   -> ReceiveRr(n, s, f)
        [] s0.state = "OPEN" /\ f.fn = "REJ"  -> ReceiveRej(n, s, f)
        [] s0.state = "OPEN" /\ f.fn = "SREJ" -> ReceiveSrej(n, s, f)
        [] s0.state = "OPEN" /\ f.fn = "RNR"  -> s

(* l2cap_handle_disconnect_request, l2cap_finalize_channel_close           *)
SignalingHandler(s, f) ==
  CASE f.fn = "DISC" /\ s.state # "CLOSED" -> [s EXCEPT !.state = "WILL_SEND_DISCONNECT_RESPONSE"]
    [] f.fn = "DISC_RSP" /\ s.state = "WAIT_DISCONNECT" -> Freed(s)
    [] OTHER -> s

AclHandler(n, s, f) ==
  Run(IF f.fn \in {"DISC", "DISC_RSP"} THEN SignalingHandler(s, f) ELSE DataHandler(n, s, f))

----------------------------------------------------------------------------
(* Timers *)

GiveUp(s) == [s EXCEPT !.state = "WILL_SEND_DISCONNECT_REQUEST"]

(* l2cap_ertm_retransmission_timeout_callback                              *)
RetransmissionTimeout(s) ==
  Run([RetransmitAll([s EXCEPT !.tx[s.read].retry = 1])
       EXCEPT !.retransTimer = FALSE, !.monitorTimer = TRUE, !.waitF = TRUE, !.sendPoll = TRUE])

(* l2cap_ertm_monitor_timeout_callback                                     *)
MonitorTimeout(s) ==
  Run(IF s.tx[s.read].retry < MaxTransmit
      THEN [RetransmitAll([s EXCEPT !.tx[s.read].retry = @ + 1]) EXCEPT !.sendPoll = TRUE]
      ELSE GiveUp([s EXCEPT !.monitorTimer = FALSE]))

----------------------------------------------------------------------------
(* Actions *)

Becomes(n, s) == chan' = [chan EXCEPT ![n] = s]
Fault(kind) == kind \in Faults /\ faults < MaxFaults /\ faults' = faults + 1

ClientSends(n) ==
  /\ chan[n].state = "OPEN" /\ HasSdu(n, chan[n]) /\ CanStore(chan[n])
  /\ \E t \in {SendSdu(n, chan[n])} : Becomes(n, t)
  /\ UNCHANGED faults

ClientRequests(n) ==
  /\ chan[n].state = "OPEN" /\ HasSdu(n, chan[n]) /\ ~chan[n].waiting
  /\ Eager \/ CanStore(chan[n])
  /\ \E t \in {RequestCanSendNow(n, chan[n])} : Becomes(n, t)
  /\ UNCHANGED faults

ClientBusy(n) ==
  /\ chan[n].state = "OPEN" /\ ~chan[n].localBusy
  /\ \E t \in {SetBusy(chan[n])} : Becomes(n, t)
  /\ Fault("busy")

ClientReady(n) ==
  /\ chan[n].state = "OPEN" /\ chan[n].localBusy
  /\ \E t \in {SetReady(chan[n])} : Becomes(n, t)
  /\ UNCHANGED faults

PacketSent(n) ==
  /\ chan[n].busy /\ Len(chan[n].out) <= AclBuffers
  /\ \E t \in {NotifyChannels(Run([chan[n] EXCEPT !.busy = FALSE]))} : Becomes(n, t)
  /\ UNCHANGED faults

(* The oldest frame of the peer arrives, whole or broken.                  *)
Arrives(n, s) ==
  LET p == Peer(n)
  IN  chan' = [chan EXCEPT ![n] = s, ![p].out = Tail(@)]

Receive(n) ==
  /\ chan[Peer(n)].out # <<>>
  /\ \E t \in {AclHandler(n, chan[n], Head(chan[Peer(n)].out))} : Arrives(n, t)
  /\ UNCHANGED faults

(* FCS mismatch                                                            *)
Broken(n) ==
  /\ chan[Peer(n)].out # <<>>
  /\ Head(chan[Peer(n)].out).fn \notin {"DISC", "DISC_RSP"}
  /\ \E t \in {Run(chan[n])} : Arrives(n, t)
  /\ Fault("loss")

Quiet == \A n \in Nodes : chan[n].out = <<>> /\ ~chan[n].busy
TimerExpires(n) ==
  /\ \/ /\ chan[n].retransTimer
        /\ \E t \in {RetransmissionTimeout(chan[n])} : Becomes(n, t)
     \/ /\ chan[n].monitorTimer
        /\ \E t \in {MonitorTimeout(chan[n])} : Becomes(n, t)
  /\ \/ Quiet /\ UNCHANGED faults
     \/ ~Quiet /\ Fault("early")

Init ==
  /\ chan = [n \in Nodes |-> InitialChannel]
  /\ faults = 0

Next ==
  \E n \in Nodes :
    \/ ClientSends(n) \/ ClientRequests(n) \/ ClientBusy(n) \/ ClientReady(n)
    \/ PacketSent(n) \/ Receive(n) \/ Broken(n) \/ TimerExpires(n)

Spec == Init /\ [][Next]_vars

Progress == \E n \in Nodes :
  ClientSends(n) \/ ClientReady(n) \/ PacketSent(n) \/ Receive(n) \/ TimerExpires(n)
FairSpec == Spec /\ WF_vars(Progress)

----------------------------------------------------------------------------
(* Properties *)

(* Indices stay in their rings, counters within the store, sequence        *)
(* numbers below the modulus, and no more frames wait for hci.c than it    *)
(* lets a channel send.                                                    *)
TypeOK ==
  /\ \A n \in Nodes : chan[n] \in ChannelType(n)
  /\ faults \in 0..MaxFaults

(* The segments of a device in the order of their numbers, and how many of *)
(* them its peer has taken.                                                *)
Stream == [n \in Nodes |->
  LET first[k \in 0..Len(Sdus[n])] ==
        IF k = 0 THEN <<>> ELSE first[k - 1] \o Segments(n, k)
  IN  first]
SegsOf(n) == Stream[n][Len(Sdus[n])]
Taken(n) == Len(Stream[Peer(n)][Len(chan[n].got)]) + Len(chan[n].asm)
Place(n, seg) == Len(Stream[n][seg.sdu - 1]) + seg.part

(* The client is given the SDUs of the peer whole, in their order and      *)
(* once, whatever was lost, sent again, asked for twice or acknowledged    *)
(* late (l2cap_ertm_handle_in_sequence_sdu); and what is kept out of order *)
(* is the one segment after the missing one, in the slot that              *)
(* l2cap_acl_classic_handler_for_channel looks at when the missing one     *)
(* arrives: never an old frame sent again.                                 *)
Delivered ==
  \A n \in Nodes :
    /\ \A k \in DOMAIN chan[n].got :
         k \in SdusOf(Peer(n)) /\ chan[n].got[k] = Segments(Peer(n), k)
    /\ \A i \in 1..NumRx :
         chan[n].rx[i] # NoSegment =>
           /\ i = chan[n].rxStore + 1
           /\ Taken(n) + 2 \in DOMAIN SegsOf(Peer(n))
           /\ chan[n].rx[i] = SegsOf(Peer(n))[Taken(n) + 2]

(* A frame on its way is at most a window ahead of what its receiver has   *)
(* taken, and less than a window behind it: with both the receiver can     *)
(* tell a new frame from an old one by its number.  And unacked_frames     *)
(* counts the frames that "have been sent, but not acknowledged yet"       *)
(* (l2cap.h): the oldest in the store, and no frame behind them was sent.  *)
WithinWindow ==
  \A n \in Nodes :
    /\ \A k \in DOMAIN chan[n].out :
         chan[n].out[k].fn = "I" =>
           Place(n, chan[n].out[k].seg) - Taken(Peer(n)) \in 1 - NumRx..NumRx
    /\ \A k \in 0..chan[n].stored - 1 :
         (k < chan[n].unacked) <=> chan[n].tx[(chan[n].read + k) % NumTx].state # "NEW"

(* A slot is sent to "send new frames or retransmit unacknowledged frames" *)
(* (l2cap_channel_ready_to_send), never while nothing is stored in it.     *)
OnlyStored ==
  \A n \in Nodes : \A k \in DOMAIN chan[n].out :
    chan[n].out[k].fn = "I" => chan[n].out[k].seg # Unused

Closed == \E n \in Nodes : chan[n].state # "OPEN"

(* Whatever the clients send reaches the peer and is acknowledged, and     *)
(* then no poll stays unanswered and no monitor timer runs that would      *)
(* close the channel; or the channel is closed.                            *)
Completes ==
  <>[](\/ Closed
       \/ \A n \in Nodes :
            /\ Len(chan[n].got) = Len(Sdus[Peer(n)])
            /\ chan[n].stored = 0 /\ ~chan[n].waitF /\ ~chan[n].monitorTimer)
=============================================================================

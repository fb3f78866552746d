-------------------------------- MODULE Rfcomm --------------------------------
(***************************************************************************)
(* RFCOMM (classic/rfcomm.c): the multiplexer two devices share, the       *)
(* channels on it and their credits.  Both devices run this code.          *)
(*                                                                         *)
(* The state of a device is a record, and the functions of rfcomm.c map    *)
(* such records to records.  l2cap_request_can_send_now_event calls back   *)
(* at once when a packet can be sent, so a handler that asks may send its  *)
(* packet, or hand the turn to a client, before it goes on.                *)
(*                                                                         *)
(* L2CAP is what rfcomm.c sees of it: channels that are asked for,         *)
(* accepted or declined, and closed, on one link that keeps the order.     *)
(***************************************************************************)
EXTENDS Integers, Sequences

CONSTANTS
  Nodes,       \* the two devices
  Services,    \* server channels registered at each
  Wants,       \* server channels the client of each opens at its peer, in order
  Packets,     \* how many packets the client of each may send
  Manual,      \* devices whose clients grant credits themselves
  Decliners,   \* devices whose server may decline a connection
  Closers,     \* devices whose client calls rfcomm_disconnect
  Ports,       \* calls of rfcomm_send_modem_status and
               \* rfcomm_query_port_configuration the client of each may make
  Credits,     \* RFCOMM_CREDITS, also the initial credits of the Manual
  LowCredits,  \* fewer than these are replenished
  AclBuffers,  \* packets that may be on their way from a device
  MaxLosses    \* how often the link may break

ASSUME NodesAssumption == \E a, b \in Nodes : a # b /\ Nodes = {a, b}
ASSUME BoundsAssumption ==
  /\ Services \in [Nodes -> SUBSET (Nat \ {0})] /\ Wants \in [Nodes -> Seq(Nat \ {0})]
  /\ Packets \in [Nodes -> Nat] /\ Ports \in [Nodes -> Nat]
  /\ Manual \subseteq Nodes /\ Decliners \subseteq Nodes /\ Closers \subseteq Nodes
  /\ Credits \in Nat \ {0} /\ LowCredits \in 1..Credits
  /\ AclBuffers \in Nat \ {0} /\ MaxLosses \in Nat

VARIABLES
  dev,    \* the state of each device, with the frames on their way from it
  losses  \* how often the link has broken

vars == <<dev, losses>>

Peer(n) == CHOOSE p \in Nodes : p # n

MaxIds == LET n == CHOOSE n \in Nodes : TRUE IN Len(Wants[n]) + Len(Wants[Peer(n)])
Ids == 1..MaxIds                        \* rfcomm_cid, never used again
Cids == Nodes \X Ids                    \* L2CAP channels, by the device that asked for them
Servers == UNION {Services[n] : n \in Nodes} \cup UNION {{Wants[n][i] : i \in DOMAIN Wants[n]} : n \in Nodes}
Dlcis == {2 * v + d : v \in Servers, d \in {0, 1}}
NoDlci == 0

MuxStates == {"W4_CONNECT", "SEND_SABM_0", "W4_UA_0", "W4_SABM_0", "SEND_UA_0", "OPEN",
              "SHUTTING_DOWN"}
MuxType == [state : MuxStates, outgoing : {0, 1}, cid : Cids, sendDm : Dlcis \cup {NoDlci}]
NoMux == [state |-> "NONE"]

ChannelStates ==
  {"CLOSED", "W4_MULTIPLEXER", "SEND_UIH_PN", "W4_PN_RSP", "SEND_SABM_W4_UA", "W4_UA",
   "INCOMING_SETUP", "DLC_SETUP", "OPEN", "SEND_UA_AFTER_DISC", "SEND_DISC",
   "W4_UA_AFTER_DISC", "SEND_DM"}

(* Bits of state_var that are read, and the frame each of the first four   *)
(* stands for.                                                             *)
Replies == <<"SEND_RPN_QUERY", "SEND_RPN_RESPONSE", "SEND_MSC_CMD", "SEND_MSC_RSP">>
FrameFor == [SEND_RPN_QUERY |-> "RPN", SEND_RPN_RESPONSE |-> "RPN_RSP",
             SEND_MSC_CMD |-> "MSC", SEND_MSC_RSP |-> "MSC_RSP"]
Flags == {Replies[i] : i \in DOMAIN Replies} \cup
         {"CLIENT_ACCEPTED", "RCVD_PN", "RCVD_SABM", "RCVD_MSC_RSP", "SEND_PN_RSP", "SEND_UA",
          "SEND_CREDITS", "SENT_CREDITS", "EMIT_RPN_RESPONSE"}

ChannelType ==
  [ dlci : Dlcis, id : Ids, state : ChannelStates, flags : SUBSET Flags,
    creditsOut : Nat,        \* credits_outgoing
    creditsIn  : Nat,        \* credits_incoming
    newCredits : Nat,        \* new_credits_incoming
    manual     : BOOLEAN,    \* incoming_flow_control
    waiting    : BOOLEAN,    \* waiting_for_can_send_now
    unpaid     : Nat ]       \* packets a Manual client has not yet granted again

Functions == {"SABM", "UA", "PN", "PN_RSP", "DISC", "DM", "MSC", "MSC_RSP", "RPN", "RPN_RSP",
              "CREDITS", "DATA", "SABM_0", "UA_0"}
Signals == {"CONN_REQ", "CONN_OK", "CONN_FAIL", "DISC_REQ", "DISC_RSP"}   \* of L2CAP
FrameType == [fn : Functions \cup Signals, cid : Cids, dlci : Dlcis \cup {NoDlci}, credits : Nat]

EndStates == {"NONE", "ASK", "ASKED", "ACCEPT", "DECLINE", "OPEN", "LEAVE", "LEAVING",
              "LEFT", "CLOSED"}
Events == {"request", "opened", "failed", "data", "closed"}

DeviceType ==
  [ busy   : BOOLEAN,                \* no outgoing packet can be sent now
    want   : SUBSET Cids,            \* l2cap channels waiting for CAN_SEND_NOW
    ends   : [Cids -> EndStates],    \* this end of each l2cap channel
    mux    : MuxType \cup {NoMux},   \* the multiplexer of the peer's address
    chans  : Seq(ChannelType),       \* rfcomm_channels, newest first
    ids    : 0..MaxIds,              \* identifiers given
    asked  : 0..MaxIds,              \* l2cap channels asked for
    todo   : Nat, left : Nat, ports : Nat,   \* what the client still does
    log    : [Ids -> Seq(Events)],   \* what the client was told of each channel
    out    : Seq(FrameType) ]        \* packets on their way, oldest first

InitialDevice(n) ==
  [ busy |-> FALSE, want |-> {}, ends |-> [c \in Cids |-> "NONE"], mux |-> NoMux,
    chans |-> <<>>, ids |-> 0, asked |-> 0, todo |-> 1, left |-> Packets[n],
    ports |-> Ports[n], log |-> [i \in Ids |-> <<>>], out |-> <<>> ]

(* F(s), for which TLC evaluates s once.                                   *)
With(s, F(_)) == [t \in {s} |-> F(t)][s]

(* A loop over a list: a sequence to TLC, too.                             *)
Each(list, F(_, _)) == [i \in DOMAIN list |-> F(i, list[i])] \o <<>>

----------------------------------------------------------------------------
(* Packets *)

Transmit(s, fn, cid, dlci, k) ==
  [s EXCEPT !.busy = TRUE,
            !.out = Append(@, [fn |-> fn, cid |-> cid, dlci |-> dlci, credits |-> k])]
Send(s, fn, dlci) == With(s, LAMBDA t : Transmit(t, fn, t.mux.cid, dlci, 0))

(* Channels *)

Has(s, dlci) == \E i \in DOMAIN s.chans : s.chans[i].dlci = dlci
IndexOf(s, dlci) == CHOOSE i \in DOMAIN s.chans : s.chans[i].dlci = dlci
Exists(s, id) == \E i \in DOMAIN s.chans : s.chans[i].id = id
IndexOfId(s, id) == CHOOSE i \in DOMAIN s.chans : s.chans[i].id = id
SetState(s, i, state) == [s EXCEPT !.chans[i].state = state]
AddFlags(s, i, flags) == [s EXCEPT !.chans[i].flags = @ \cup flags]
DropFlags(s, i, flags) == [s EXCEPT !.chans[i].flags = @ \ flags]

Told(s, id, event) == [s EXCEPT !.log[id] = Append(@, event)]
Emit(s, i, event) == With(s, LAMBDA t : Told(t, t.chans[i].id, event))

(* Data is noted once: how much of it arrives is what the credits count.   *)
Deliver(s, i) ==
  LET told == s.log[s.chans[i].id]
  IN  IF told # <<>> /\ told[Len(told)] = "data" THEN s ELSE Emit(s, i, "data")

(* rfcomm_channel_emit_final_event                                         *)
\* Fault: forgets that a DISC has been announced when it arrived.
EmitFinal_Twice(s, i) ==
  Emit(s, i, IF s.chans[i].state \in {"OPEN", "SEND_UA_AFTER_DISC", "W4_UA_AFTER_DISC"}
             THEN "closed" ELSE "failed")
EmitFinal(s, i) ==
  CASE s.chans[i].state \in {"OPEN", "W4_UA_AFTER_DISC"} -> Emit(s, i, "closed")
    [] s.chans[i].state = "SEND_UA_AFTER_DISC" -> s
    [] OTHER -> Emit(s, i, "failed")

(* rfcomm_channel_finalize                                                 *)
Remove(s, i) ==
  [s EXCEPT !.chans = SubSeq(@, 1, i - 1) \o SubSeq(@, i + 1, Len(@))]

(* rfcomm_channel_create: service is TRUE for an incoming connection       *)
NewChannel(n, s, dlci) ==
  [ dlci |-> dlci, id |-> s.ids + 1, state |-> "CLOSED", flags |-> {}, creditsOut |-> 0,
    creditsIn |-> 0, newCredits |-> Credits, manual |-> n \in Manual, waiting |-> FALSE,
    unpaid |-> 0 ]
Create(n, s, dlci) ==
  [s EXCEPT !.ids = @ + 1, !.chans = <<NewChannel(n, s, dlci)>> \o @]

(* rfcomm_multiplexer_finalize                                             *)
Finalize(s) ==
  LET told[k \in 0..Len(s.chans)] == IF k = 0 THEN s ELSE EmitFinal(told[k - 1], k)
  IN  [told[Len(s.chans)] EXCEPT !.chans = <<>>, !.mux = NoMux]

(* l2cap_disconnect                                                        *)
Disconnect(s, cid) ==
  IF s.ends[cid] = "OPEN" THEN [s EXCEPT !.ends[cid] = "LEAVE", !.want = @ \ {cid}] ELSE s

----------------------------------------------------------------------------
(* Who has something to send *)

(* rfcomm_multiplexer_ready_to_send                                        *)
MuxReady(s) ==
  s.mux # NoMux /\ (s.mux.sendDm # NoDlci \/ s.mux.state \in {"SEND_SABM_0", "SEND_UA_0"})

(* rfcomm_channel_ready_to_send                                            *)
ChannelReady(c) ==
  \/ c.state \in {"SEND_UIH_PN", "SEND_SABM_W4_UA", "SEND_UA_AFTER_DISC", "SEND_DISC", "SEND_DM"}
  \/ c.state = "OPEN" /\ c.newCredits > 0
  \/ c.state = "DLC_SETUP" /\ "SEND_CREDITS" \in c.flags
  \/ c.flags \cap (DOMAIN FrameFor \cup {"SEND_PN_RSP", "SEND_UA"}) # {}

Smallest(S) == CHOOSE x \in S : \A y \in S : x <= y
ReadyChannels(s) == {i \in DOMAIN s.chans : ChannelReady(s.chans[i])}

(* The clients that wait for CAN_SEND_NOW and have a credit are told, one  *)
(* after the other, until one takes the buffer: a client sends one packet  *)
(* on a channel it has not asked to close.                                 *)
WaitingChannels(s) == {i \in DOMAIN s.chans : s.chans[i].waiting /\ s.chans[i].creditsOut > 0}
Takers(s) == {i \in WaitingChannels(s) : s.chans[i].state = "OPEN"}
Told_CanSend(s, last) ==
  [s EXCEPT !.chans = Each(@, LAMBDA i, c :
     IF i \in WaitingChannels(s) /\ i <= last THEN [c EXCEPT !.waiting = FALSE] ELSE c)]

(* rfcomm_send_prepared                                                    *)
\* Fault: a packet is sent without taking its credit.
SendData_Free(s, i) == With(s, LAMBDA t : Send(t, "DATA", t.chans[i].dlci))
SendData(s, i) ==
  With(s, LAMBDA t : Send([t EXCEPT !.chans[i].creditsOut = @ - 1], "DATA", t.chans[i].dlci))

(* rfcomm_notify_channel_can_send, and the last part of                    *)
(* rfcomm_handle_can_send_now                                              *)
NotifyClients(s) ==
  IF s.busy THEN s
  ELSE IF Takers(s) = {} THEN Told_CanSend(s, Len(s.chans))
  ELSE SendData(Told_CanSend(s, Smallest(Takers(s))), Smallest(Takers(s)))

----------------------------------------------------------------------------
(* What a channel does when it may send *)

(* rfcomm_channel_send_credits                                             *)
SendCredits(s, i) ==
  LET sent(t, k) ==
        Transmit([t EXCEPT !.chans[i].newCredits = 0, !.chans[i].creditsIn = @ + k],
                 "CREDITS", t.mux.cid, t.chans[i].dlci, k)
  IN  With(s, LAMBDA t : sent(t, t.chans[i].newCredits))

(* rfcomm_channel_ready_for_open, rfcomm_channel_opened                    *)
OpenIfReady(s, i) ==
  With(s, LAMBDA t :
    IF {"RCVD_MSC_RSP", "SENT_CREDITS"} \subseteq t.chans[i].flags
    THEN Emit(SetState(t, i, "OPEN"), i, "opened") ELSE t)

(* rfcomm_channel_ready_for_incoming_dlc_setup                             *)
SetupIfReady(s, i) ==
  With(s, LAMBDA t :
    IF /\ {"CLIENT_ACCEPTED", "RCVD_SABM"} \subseteq t.chans[i].flags
       /\ {"SEND_UA", "SEND_PN_RSP"} \cap t.chans[i].flags = {}
    THEN SetState(AddFlags(t, i, {"SEND_MSC_CMD"}), i, "DLC_SETUP") ELSE t)

(* rfcomm_channel_state_machine_with_channel, CH_EVT_READY_TO_SEND         *)
ReadyToSend(s, i) ==
  LET c    == s.chans[i]
      due  == {k \in DOMAIN Replies : Replies[k] \in c.flags}
      flag == Replies[Smallest(due)]
  IN  CASE due # {} -> Send(DropFlags(s, i, {flag}), FrameFor[flag], c.dlci)
        [] due = {} /\ c.state = "INCOMING_SETUP" ->
             SetupIfReady(IF "SEND_PN_RSP" \in c.flags
                          THEN Send(DropFlags(s, i, {"SEND_PN_RSP"}), "PN_RSP", c.dlci)
                          ELSE Send(DropFlags(s, i, {"SEND_UA"}), "UA", c.dlci), i)
        [] due = {} /\ c.state = "SEND_UIH_PN" -> Send(SetState(s, i, "W4_PN_RSP"), "PN", c.dlci)
        [] due = {} /\ c.state = "SEND_SABM_W4_UA" -> Send(SetState(s, i, "W4_UA"), "SABM", c.dlci)
        [] due = {} /\ c.state = "DLC_SETUP" ->
             OpenIfReady(SendCredits(AddFlags(DropFlags(s, i, {"SEND_CREDITS"}), i,
                                              {"SENT_CREDITS"}), i), i)
        [] due = {} /\ c.state = "OPEN" -> SendCredits(s, i)
        [] due = {} /\ c.state = "SEND_DM" -> Remove(Send(s, "DM", c.dlci), i)
        [] due = {} /\ c.state = "SEND_DISC" ->
             Send(SetState(s, i, "W4_UA_AFTER_DISC"), "DISC", c.dlci)
        [] due = {} /\ c.state = "SEND_UA_AFTER_DISC" -> Remove(Send(s, "UA", c.dlci), i)

(* rfcomm_multiplexer_opened: l2cap is asked for a turn when a channel of  *)
(* the multiplexer has something to send now.                              *)
MultiplexerReady(s) ==
  [s EXCEPT !.mux.state = "OPEN",
            !.chans = Each(@, LAMBDA i, c :
               IF c.state = "W4_MULTIPLEXER" THEN [c EXCEPT !.state = "SEND_UIH_PN"] ELSE c)]

(* rfcomm_multiplexer_state_machine                                        *)
MuxMachine(s) ==
  CASE s.mux.sendDm # NoDlci -> Send([s EXCEPT !.mux.sendDm = NoDlci], "DM", s.mux.sendDm)
    [] s.mux.sendDm = NoDlci /\ s.mux.state = "SEND_SABM_0" ->
         Send([s EXCEPT !.mux.state = "W4_UA_0"], "SABM_0", NoDlci)
    [] s.mux.sendDm = NoDlci /\ s.mux.state = "SEND_UA_0" ->
         MultiplexerReady(Send(s, "UA_0", NoDlci))

(* rfcomm_handle_can_send_now: the multiplexer first, then the channels,   *)
(* then their clients.  Who takes the turn asks for another.               *)
HandleCanSendNow(s, cid) ==
  LET again(t) == [t EXCEPT !.want = @ \cup {cid}]   \* the buffer is taken now
  IN  CASE s.mux = NoMux \/ s.busy -> s
        [] s.mux # NoMux /\ ~s.busy /\ s.mux.cid # cid -> s
        [] s.mux # NoMux /\ ~s.busy /\ s.mux.cid = cid ->
             IF MuxReady(s) THEN again(MuxMachine(s))
             ELSE IF ReadyChannels(s) # {} THEN again(ReadyToSend(s, Smallest(ReadyChannels(s))))
             ELSE IF Takers(s) # {} THEN again(NotifyClients(s))
             ELSE NotifyClients(s)

(* l2cap_request_can_send_now_event of the multiplexer's l2cap channel     *)
Request(s0) ==
  LET ask(s, cid) ==
        CASE s.ends[cid] # "OPEN" -> s
          [] s.ends[cid] = "OPEN" /\ s.busy -> [s EXCEPT !.want = @ \cup {cid}]
          [] s.ends[cid] = "OPEN" /\ ~s.busy ->
               With([s EXCEPT !.want = @ \ {cid}], LAMBDA t : HandleCanSendNow(t, cid))
  IN  With(s0, LAMBDA s : ask(s, s.mux.cid))
RequestIf(s, asks) == IF asks THEN Request(s) ELSE s

----------------------------------------------------------------------------
(* What a channel does with a frame *)

(* rfcomm_channel_accept_pn: no credits come with the parameters           *)
AcceptPn(s, i) ==
  LET accepted == "CLIENT_ACCEPTED" \in s.chans[i].flags
  IN  AddFlags([s EXCEPT !.chans[i].creditsOut = 0], i,
               {"RCVD_PN"} \cup (IF accepted THEN {"SEND_PN_RSP"} ELSE {}))
AcceptSabm(s, i) ==
  LET accepted == "CLIENT_ACCEPTED" \in s.chans[i].flags
  IN  AddFlags(s, i, {"RCVD_SABM"} \cup (IF accepted THEN {"SEND_UA"} ELSE {}))

(* rfcomm_channel_maybe_request_initial_credits                            *)
RequestInitialCredits(s, i) ==
  With(s, LAMBDA t :
    IF \/ t.chans[i].state # "DLC_SETUP" \/ "RCVD_MSC_RSP" \notin t.chans[i].flags
       \/ t.chans[i].flags \cap {"SEND_CREDITS", "SENT_CREDITS"} # {}
    THEN t ELSE AddFlags(t, i, {"SEND_CREDITS"}))

(* The end of a connection closed from here; with the last one goes the    *)
(* multiplexer.                                                            *)
ClosedByUa(s, i) ==
  With(Remove(Emit(s, i, "closed"), i),
       LAMBDA t : IF t.chans = <<>> THEN [t EXCEPT !.mux.state = "SHUTTING_DOWN"] ELSE t)

(* rfcomm_channel_state_machine_with_channel, for what is received         *)
ReceivedByChannel(s, i, fn) ==
  LET state == s.chans[i].state
  IN  CASE fn = "DISC" -> SetState(Emit(s, i, "closed"), i, "SEND_UA_AFTER_DISC")
        [] fn = "DM" -> Remove(EmitFinal(s, i), i)
        [] fn = "RPN" -> AddFlags(s, i, {"SEND_RPN_RESPONSE"})
        [] fn = "RPN_RSP" /\ state = "OPEN" -> DropFlags(s, i, {"EMIT_RPN_RESPONSE"})
        [] fn = "SABM" /\ state = "CLOSED" ->
             Emit(SetState(AcceptSabm(s, i), i, "INCOMING_SETUP"), i, "request")
        [] fn = "PN" /\ state = "CLOSED" ->
             Emit(SetState(AcceptPn(s, i), i, "INCOMING_SETUP"), i, "request")
        [] fn = "SABM" /\ state = "INCOMING_SETUP" -> AcceptSabm(s, i)
        [] fn = "PN" /\ state = "INCOMING_SETUP" -> AcceptPn(s, i)
        [] fn = "PN_RSP" /\ state = "W4_PN_RSP" ->
             SetState([s EXCEPT !.chans[i].creditsOut = 0], i, "SEND_SABM_W4_UA")
        [] fn = "UA" /\ state = "W4_UA" ->
             SetState(AddFlags(s, i, {"SEND_MSC_CMD"}), i, "DLC_SETUP")
        [] fn = "UA" /\ state = "W4_UA_AFTER_DISC" -> ClosedByUa(s, i)
        [] fn = "MSC" /\ state \in {"DLC_SETUP", "OPEN"} -> AddFlags(s, i, {"SEND_MSC_RSP"})
        [] fn = "MSC_RSP" /\ state = "DLC_SETUP" ->
             RequestInitialCredits(AddFlags(s, i, {"RCVD_MSC_RSP"}), i)
        [] OTHER -> s

(* The rest of rfcomm_channel_state_machine_with_dlci after it             *)
AskIfReady(s, id) ==
  RequestIf(s, Exists(s, id) /\ ChannelReady(s.chans[IndexOfId(s, id)]))

(* rfcomm_channel_state_machine_with_dlci                                  *)
MachineWithDlci(n, s, dlci, fn) ==
  LET step(t) == With(ReceivedByChannel(t, IndexOf(t, dlci), fn),
                      LAMBDA u : AskIfReady(u, t.chans[IndexOf(t, dlci)].id))
  IN  IF Has(s, dlci) THEN step(s)
      ELSE IF dlci \div 2 \in Services[n] /\ fn \in {"SABM", "PN", "RPN"}
      THEN With(Create(n, s, dlci), step)
      ELSE Request([s EXCEPT !.mux.sendDm = dlci])

(* rfcomm_channel_packet_handler                                           *)
ChannelFrame(n, s, f) ==
  LET rest(t) == CASE f.fn = "UA" /\ t.mux.state = "SHUTTING_DOWN" ->
                        With(Finalize(t), LAMBDA u : Disconnect(u, f.cid))
                   [] OTHER -> RequestIf(t, MuxReady(t))
  IN  With(MachineWithDlci(n, s, f.dlci, f.fn), rest)

(* rfcomm_channel_packet_handler_uih: credits, then data, and in either    *)
(* case a look at how much the peer may still send.                        *)
Low(s, i) == ~s.chans[i].manual /\ s.chans[i].creditsIn < LowCredits
Replenish(s, i) == IF Low(s, i) THEN [s EXCEPT !.chans[i].newCredits = Credits] ELSE s
TakeCredits(s, i, k) ==
  With([s EXCEPT !.chans[i].creditsOut = @ + k],
       LAMBDA t : IF t.chans[i].state = "OPEN" THEN NotifyClients(t) ELSE t)
TakeData(s, i) ==
  Deliver([s EXCEPT !.chans[i].creditsIn = IF @ > 0 THEN @ - 1 ELSE @,
                    !.chans[i].unpaid = IF s.chans[i].manual THEN @ + 1 ELSE @], i)
UihFrame(s, f) ==
  LET i == IndexOf(s, f.dlci)
      rest(t) ==
        RequestIf(Replenish(t, i),
          \/ Low(t, i)
          \/ f.fn = "CREDITS" /\ (ChannelReady(t.chans[i]) \/ t.chans[i].waiting))
  IN  IF ~Has(s, f.dlci) THEN s
      ELSE With(IF f.fn = "CREDITS" THEN TakeCredits(s, i, f.credits) ELSE TakeData(s, i), rest)

(* rfcomm_multiplexer_l2cap_packet_handler                                 *)
MuxFrame(s, f) ==
  LET opened(t) == RequestIf(t, ReadyChannels(t) # {} \/ MuxReady(t))
  IN  CASE f.fn = "SABM_0" /\ s.mux.state = "W4_SABM_0" ->
             Request([s EXCEPT !.mux.state = "SEND_UA_0", !.mux.outgoing = 0])
        [] f.fn = "UA_0" /\ s.mux.state = "W4_UA_0" -> With(MultiplexerReady(s), opened)
        [] OTHER -> s

(* rfcomm_packet_handler, for a packet                                     *)
PacketHandler(n, s, f) ==
  CASE s.mux = NoMux -> s
    [] s.mux # NoMux /\ s.mux.cid # f.cid -> s
    [] s.mux # NoMux /\ s.mux.cid = f.cid ->
         IF f.dlci = NoDlci THEN MuxFrame(s, f)
         ELSE IF s.mux.state # "OPEN" THEN s
         ELSE IF f.fn \in {"CREDITS", "DATA"} THEN UihFrame(s, f)
         ELSE ChannelFrame(n, s, f)

----------------------------------------------------------------------------
(* L2CAP as rfcomm.c sees it *)

SetEnd(s, cid, end) == [s EXCEPT !.ends[cid] = end]
OfMux(s, cid) == IF s.mux = NoMux THEN FALSE ELSE s.mux.cid = cid

(* L2CAP_EVENT_INCOMING_CONNECTION                                         *)
\* Fault: a second multiplexer takes the place of the first.
Incoming_Always(s, cid) ==
  [SetEnd(s, cid, "ACCEPT") EXCEPT
     !.mux = [state |-> "W4_SABM_0", outgoing |-> 0, cid |-> cid, sendDm |-> NoDlci]]
Incoming(s, cid) ==
  IF s.mux # NoMux THEN SetEnd(s, cid, "DECLINE")
  ELSE [SetEnd(s, cid, "ACCEPT") EXCEPT
          !.mux = [state |-> "W4_SABM_0", outgoing |-> 0, cid |-> cid, sendDm |-> NoDlci]]

(* L2CAP_EVENT_CHANNEL_OPENED                                              *)
FailAll(s) ==
  LET told[k \in 0..Len(s.chans)] ==
        IF k = 0 THEN s ELSE Told(told[k - 1], s.chans[k].id, "failed")
  IN  [told[Len(s.chans)] EXCEPT !.chans = <<>>, !.mux = NoMux]
Opened(s, cid, ok) ==
  CASE s.mux = NoMux -> s
    [] s.mux # NoMux /\ ~ok -> FailAll(s)
    [] s.mux # NoMux /\ ok /\ s.mux.state # "W4_CONNECT" -> s
    [] s.mux # NoMux /\ ok /\ s.mux.state = "W4_CONNECT" ->
         Request([s EXCEPT !.mux.cid = cid, !.mux.state = "SEND_SABM_0"])

(* L2CAP_EVENT_CHANNEL_CLOSED                                              *)
Closed(s, cid) ==
  With([SetEnd(s, cid, "CLOSED") EXCEPT !.want = @ \ {cid}],
       LAMBDA t : IF OfMux(t, cid) THEN Finalize(t) ELSE t)

SignalHandler(n, s, f) ==
  CASE f.fn = "CONN_REQ"  -> Incoming(s, f.cid)
    [] f.fn = "CONN_OK"   -> Opened(SetEnd(s, f.cid, "OPEN"), f.cid, TRUE)
    [] f.fn = "CONN_FAIL" -> Opened(SetEnd(s, f.cid, "CLOSED"), f.cid, FALSE)
    [] f.fn = "DISC_REQ"  -> IF s.ends[f.cid] \in {"OPEN", "LEAVE", "LEAVING"}
                             THEN [SetEnd(s, f.cid, "LEFT") EXCEPT !.want = @ \ {f.cid}] ELSE s
    [] f.fn = "DISC_RSP"  -> IF s.ends[f.cid] = "LEAVING" THEN Closed(s, f.cid) ELSE s

(* l2cap_run: the signal an end waits to send.                             *)
SendSignal(s, cid) ==
  LET sent(fn) == Transmit(s, fn, cid, NoDlci, 0)
  IN  CASE s.ends[cid] = "ASK"     -> SetEnd(sent("CONN_REQ"), cid, "ASKED")
        [] s.ends[cid] = "DECLINE" -> SetEnd(sent("CONN_FAIL"), cid, "CLOSED")
        [] s.ends[cid] = "ACCEPT"  -> Opened(SetEnd(sent("CONN_OK"), cid, "OPEN"), cid, TRUE)
        [] s.ends[cid] = "LEAVE"   -> SetEnd(sent("DISC_REQ"), cid, "LEAVING")
        [] s.ends[cid] = "LEFT"    -> Closed(sent("DISC_RSP"), cid)

(* The link is gone: what was asked for failed, what was open is closed.   *)
LinkGone(s) ==
  LET t == [s EXCEPT !.out = <<>>, !.busy = FALSE, !.want = {},
                     !.ends = [c \in Cids |-> IF @[c] = "NONE" THEN @[c] ELSE "CLOSED"]]
  IN  IF s.mux = NoMux THEN t
      ELSE IF s.mux.state = "W4_CONNECT" THEN FailAll(t) ELSE Finalize(t)

----------------------------------------------------------------------------
(* Calls of the clients *)

(* rfcomm_channel_create_internal: an attempt for a channel that exists    *)
(* already returns an error and changes nothing.                           *)
NewDlci(n, s) ==
  LET outgoing == IF s.mux = NoMux THEN 1 ELSE s.mux.outgoing
  IN  2 * Wants[n][s.todo] + (1 - outgoing)
CreateChannel(n, s0) ==
  LET s    == [s0 EXCEPT !.todo = @ + 1]
      dlci == NewDlci(n, s0)
      cid  == <<n, s.asked + 1>>
      new(t) == SetState(Create(n, t, dlci), 1, "W4_MULTIPLEXER")
  IN  IF s.mux = NoMux
      THEN [new(SetEnd(s, cid, "ASK")) EXCEPT
              !.asked = @ + 1,
              !.mux = [state |-> "W4_CONNECT", outgoing |-> 1, cid |-> cid, sendDm |-> NoDlci]]
      ELSE IF s.mux.state = "OPEN" THEN Request(SetState(new(s), 1, "SEND_UIH_PN"))
      ELSE new(s)

(* rfcomm_accept_connection, rfcomm_decline_connection                     *)
Accept(s, i) ==
  LET flags == s.chans[i].flags
      due   == (IF "RCVD_PN" \in flags THEN {"SEND_PN_RSP"} ELSE {}) \cup
               (IF "RCVD_SABM" \in flags THEN {"SEND_UA"} ELSE {})
  IN  RequestIf(AddFlags(s, i, {"CLIENT_ACCEPTED"} \cup due), due # {})
Decline(s, i) == Request(SetState(s, i, "SEND_DM"))

(* rfcomm_request_can_send_now_event                                       *)
RequestCanSend(s, i) == Request([s EXCEPT !.chans[i].waiting = TRUE, !.left = @ - 1])

(* rfcomm_disconnect                                                       *)
DisconnectChannel(s, i) == Request(SetState(s, i, "SEND_DISC"))

(* rfcomm_grant_credits, for a packet the client has consumed              *)
\* Fault: the new credits wait until something else is to be sent.
Grant_Quiet(s, i) == [s EXCEPT !.chans[i].newCredits = @ + 1, !.chans[i].unpaid = @ - 1]
Grant(s, i) == Request([s EXCEPT !.chans[i].newCredits = @ + 1, !.chans[i].unpaid = @ - 1])

(* rfcomm_send_modem_status, rfcomm_query_port_configuration               *)
Configure(s, i, flags) == Request(AddFlags([s EXCEPT !.ports = @ - 1], i, flags))

----------------------------------------------------------------------------
(* Actions *)

Becomes(n, S) == (\E t \in S : dev' = [dev EXCEPT ![n] = t]) /\ UNCHANGED losses
InState(s, states) == {i \in DOMAIN s.chans : s.chans[i].state \in states}

ClientOpens(n) ==
  /\ dev[n].todo \in DOMAIN Wants[n] /\ ~Has(dev[n], NewDlci(n, dev[n]))
  /\ Becomes(n, {CreateChannel(n, dev[n])})

ServerAccepts(n) ==
  Becomes(n, {Accept(dev[n], i) : i \in
    {j \in InState(dev[n], {"INCOMING_SETUP"}) : "CLIENT_ACCEPTED" \notin dev[n].chans[j].flags}})

ServerDeclines(n) ==
  /\ n \in Decliners
  /\ Becomes(n, {Decline(dev[n], i) : i \in
       {j \in InState(dev[n], {"INCOMING_SETUP"}) : "CLIENT_ACCEPTED" \notin dev[n].chans[j].flags}})

ClientRequests(n) ==
  /\ dev[n].left > 0
  /\ Becomes(n, {RequestCanSend(dev[n], i) : i \in
       {j \in InState(dev[n], {"OPEN"}) : ~dev[n].chans[j].waiting}})

ClientCloses(n) ==
  /\ n \in Closers
  /\ Becomes(n, {DisconnectChannel(dev[n], i) : i \in InState(dev[n], {"OPEN"})})

ClientGrants(n) ==
  Becomes(n, {Grant(dev[n], i) : i \in {j \in DOMAIN dev[n].chans : dev[n].chans[j].unpaid > 0}})

ClientConfigures(n) ==
  /\ dev[n].ports > 0
  /\ \/ Becomes(n, {Configure(dev[n], i, {"SEND_MSC_CMD"}) : i \in InState(dev[n], {"OPEN"})})
     \/ Becomes(n, {Configure(dev[n], i, {"SEND_RPN_QUERY", "EMIT_RPN_RESPONSE"}) :
                      i \in InState(dev[n], {"OPEN"})})

(* The buffer is free again: l2cap_run and l2cap_notify_channel_can_send.  *)
NotifyL2cap(s, cid) ==
  IF cid \in s.want /\ s.ends[cid] = "OPEN" THEN HandleCanSendNow([s EXCEPT !.want = @ \ {cid}], cid)
  ELSE s
Signalling(s) == {c \in Cids : s.ends[c] \in {"ASK", "DECLINE", "ACCEPT", "LEAVE", "LEFT"}}

PacketSent(n) ==
  /\ dev[n].busy /\ Len(dev[n].out) <= AclBuffers /\ Signalling(dev[n]) = {}
  /\ Becomes(n, IF dev[n].want = {} THEN {[dev[n] EXCEPT !.busy = FALSE]}
                ELSE {NotifyL2cap([dev[n] EXCEPT !.busy = FALSE], c) : c \in dev[n].want})

L2capSignals(n) ==
  /\ Len(dev[n].out) <= AclBuffers
  /\ Becomes(n, {SendSignal(dev[n], c) : c \in Signalling(dev[n])})

(* The oldest packet of the peer arrives.                                  *)
Handle(n, s, f) == IF f.fn \in Signals THEN SignalHandler(n, s, f) ELSE PacketHandler(n, s, f)
Receive(n) ==
  /\ dev[Peer(n)].out # <<>>
  /\ \E t \in {Handle(n, dev[n], Head(dev[Peer(n)].out))} :
       dev' = [dev EXCEPT ![n] = t, ![Peer(n)].out = Tail(@)]
  /\ UNCHANGED losses

LinkLost ==
  /\ losses < MaxLosses /\ losses' = losses + 1
  /\ \E n \in Nodes : dev[n].mux # NoMux
  /\ dev' = [n \in Nodes |-> LinkGone(dev[n])]

Init ==
  /\ dev = [n \in Nodes |-> InitialDevice(n)]
  /\ losses = 0

Next ==
  \/ \E n \in Nodes :
       \/ ClientOpens(n) \/ ServerAccepts(n) \/ ServerDeclines(n) \/ ClientRequests(n)
       \/ ClientCloses(n) \/ ClientGrants(n) \/ ClientConfigures(n)
       \/ PacketSent(n) \/ L2capSignals(n) \/ Receive(n)
  \/ LinkLost

Spec == Init /\ [][Next]_vars

(* The device and the link keep going, servers answer and clients grant    *)
(* what they have consumed.                                                *)
Progress(n) ==
  PacketSent(n) \/ L2capSignals(n) \/ Receive(n) \/ ServerAccepts(n) \/ ServerDeclines(n)
    \/ ClientGrants(n)
FairSpec == Spec /\ WF_vars(\E n \in Nodes : Progress(n))

----------------------------------------------------------------------------
(* Properties *)

TypeOK == /\ \A n \in Nodes : dev[n] \in DeviceType
          /\ losses \in 0..MaxLosses

(* What a client is told of one channel: of a request first if it is the   *)
(* server, of data only while the channel is open, and of its end once.    *)
Legal(told) ==
  LET final == {k \in DOMAIN told : told[k] \in {"failed", "closed"}}
  IN  /\ \A k \in final : k = Len(told)
      /\ \A k \in DOMAIN told : told[k] = "request" => k = 1
      /\ \A k \in DOMAIN told : told[k] = "data" => \E j \in 1..k - 1 : told[j] = "opened"
ToldInOrder == \A n \in Nodes : \A i \in Ids : Legal(dev[n].log[i])

(* Credits are neither lost nor made: what a device may still send on a    *)
(* channel and what is on its way is what its peer is ready to take.       *)
OnTheWay(n, fn, dlci) ==
  LET upTo[k \in 0..Len(dev[n].out)] ==
        IF k = 0 THEN 0
        ELSE LET f == dev[n].out[k]
             IN  upTo[k - 1] + CASE f.fn # fn \/ f.dlci # dlci -> 0
                                 [] f.fn = fn /\ f.dlci = dlci -> IF fn = "DATA" THEN 1 ELSE f.credits
  IN  upTo[Len(dev[n].out)]
CreditsKept ==
  \A n \in Nodes : \A i \in DOMAIN dev[n].chans, j \in DOMAIN dev[Peer(n)].chans :
    LET c == dev[n].chans[i]
        d == dev[Peer(n)].chans[j]
    IN  c.dlci = d.dlci /\ dev[n].mux.cid = dev[Peer(n)].mux.cid =>
          c.creditsOut + OnTheWay(n, "DATA", c.dlci) + OnTheWay(Peer(n), "CREDITS", c.dlci)
            = d.creditsIn

(* Clients act a bounded number of times, so that what must happen after   *)
(* each of their calls must have happened for good in the end.             *)

(* The devices come to rest, both with the one multiplexer or none, what   *)
(* is open at one open at the other, too, and every connection a client    *)
(* asked for, and every one it accepted, is announced as open, failed or   *)
(* closed, or was declined.  The device that closes the last channel       *)
(* closes the multiplexer, too.                                            *)
OpenDlcis(s) == {s.chans[i].dlci : i \in InState(s, {"OPEN"})}
Rest ==
  /\ \A n \in Nodes : dev[n].out = <<>> /\ ~dev[n].busy
                       /\ (dev[n].mux # NoMux => OfMux(dev[Peer(n)], dev[n].mux.cid))
  /\ \A n \in Nodes : OpenDlcis(dev[n]) = OpenDlcis(dev[Peer(n)])
Closing(n) == InState(dev[n], {"W4_UA_AFTER_DISC"}) # {}
Answered ==
  /\ <>[](Rest /\ \A n \in Nodes : \A i \in DOMAIN dev[n].chans :
                     dev[n].log[dev[n].chans[i].id] \notin {<<>>, <<"request">>})
  /\ \A n \in Closers :
       Closing(n) ~> ~Closing(n) /\ (dev[n].chans = <<>> => dev[n].mux = NoMux)

(* A client that waits for CAN_SEND_NOW gets it: no credit, request or     *)
(* turn is lost on the way.                                                *)
Flows == <>[](\A n \in Nodes : \A i \in DOMAIN dev[n].chans : ~dev[n].chans[i].waiting)

(* A frame for a channel that does not exist is discarded by sending a DM, *)
(* and that is the end of it.                                              *)
Discarded == <>[](\A n \in Nodes : \A k \in DOMAIN dev[n].out : dev[n].out[k].fn # "DM")
=============================================================================

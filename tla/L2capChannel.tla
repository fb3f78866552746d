---------------------------- MODULE L2capChannel ----------------------------
(***************************************************************************)
(* Opening and closing dynamic L2CAP channels over BR/EDR (l2cap.c): two   *)
(* devices run the same code and exchange signaling commands over one ACL  *)
(* link at a time, which may be lost and set up again.                     *)
(*                                                                         *)
(* The state of l2cap.c at a device is a record; its functions map such    *)
(* records to records.  Channels are in basic mode.  An option list of a   *)
(* configuration is known by whether the other side knows all its options. *)
(***************************************************************************)
EXTENDS Integers, Sequences, SequencesExt

CONSTANTS
  Nodes,         \* the two devices
  Calls,         \* calls of l2cap_create_channel at a device: their PSMs, in order
  MaxLinks,      \* how often the ACL link is set up
  Pool,          \* MAX_NR_L2CAP_CHANNELS
  MaxResponses,  \* NR_PENDING_SIGNALING_RESPONSES
  SigIds,        \* signaling identifiers are 1..SigIds
  Ssp,           \* may both sides, or not both, support Secure Simple Pairing?
  Foreign,       \* devices whose first configure request has an unknown option
  Disconnectable,\* states in which a client calls l2cap_disconnect
  EarlyTimeouts, \* may an RTX timer expire while packets are under way?
  StaleResponses \* may the link go down while a response is pending?

ASSUME NodesAssumption == Nodes # {} /\ \A n \in Nodes : \E p \in Nodes : Nodes = {n, p} /\ p # n
ASSUME BoundsAssumption ==
  /\ Calls \in [Nodes -> Seq({"sdp", "secure", "missing"})] /\ MaxLinks \in Nat
  /\ Pool \in Nat \ {0} /\ MaxResponses \in Nat \ {0} /\ SigIds \in Nat \ {0}
  /\ Ssp \subseteq BOOLEAN /\ Ssp # {} /\ EarlyTimeouts \in BOOLEAN /\ StaleResponses \in BOOLEAN
  /\ Foreign \subseteq Nodes

VARIABLES
  node,  \* l2cap.c and what it sees of hci.c, per device
  link   \* [now : the link that is up or 0, made : links set up so far]

vars == <<node, link>>

Peer(n) == CHOOSE p \in Nodes : p # n

\* LEVEL_0 is enough for "sdp", for "missing" there is no service
Psms == {"sdp", "secure", "missing"}
MaxCid == LET n == CHOOSE x \in Nodes : TRUE IN Len(Calls[n]) + Len(Calls[Peer(n)])
Cids == 1..MaxCid
NoHandle == 0
NoId == 0

States ==
  {"WILL_SEND_CREATE_CONNECTION", "WAIT_CONNECTION_COMPLETE",
   "WAIT_REMOTE_SUPPORTED_FEATURES", "WAIT_INCOMING_SECURITY_LEVEL_UPDATE",
   "WAIT_OUTGOING_SECURITY_LEVEL_UPDATE", "WAIT_CLIENT_ACCEPT_OR_REJECT",
   "WILL_SEND_CONNECTION_REQUEST", "WAIT_CONNECT_RSP", "CONFIG", "OPEN",
   "WILL_SEND_CONNECTION_RESPONSE_DECLINE", "WILL_SEND_CONNECTION_RESPONSE_ACCEPT",
   "WILL_SEND_DISCONNECT_REQUEST", "WAIT_DISCONNECT", "WILL_SEND_DISCONNECT_RESPONSE"}

ChannelType ==
  [ cid : Cids, rcid : 0..MaxCid, handle : 0..MaxLinks, psm : Psms, state : States,
    incoming : BOOLEAN,
    pend     : {"no", "send", "sent"},  \* SEND_CONN_RESP_PEND, SENT_CONN_RESP_PEND
    confReq  : BOOLEAN,                 \* SEND_CONF_REQ
    confRsp  : BOOLEAN,                 \* SEND_CONF_RSP
    sentRsp  : BOOLEAN,                 \* SENT_CONF_RSP
    rcvdRsp  : BOOLEAN,                 \* RCVD_CONF_RSP
    invalid  : BOOLEAN,                 \* SEND_CONF_RSP_INVALID
    rsig : 0..SigIds, lsig : 0..SigIds, \* remote_sig_id, local_sig_id
    rtx  : BOOLEAN,                     \* the RTX timer runs
    odd  : BOOLEAN ]                    \* its configure request has an unknown option

Codes == {"CONNECTION_REQUEST", "CONNECTION_RESPONSE", "CONFIGURE_REQUEST",
          "CONFIGURE_RESPONSE", "DISCONNECTION_REQUEST", "DISCONNECTION_RESPONSE",
          "INFORMATION_REQUEST", "INFORMATION_RESPONSE", "COMMAND_REJECT"}
Responses == {"CONNECTION_RESPONSE", "CONFIGURE_RESPONSE", "DISCONNECTION_RESPONSE",
              "COMMAND_REJECT"}   \* odd codes

CommandType ==
  [ code : Codes, id : 0..SigIds, dst : 0..MaxCid, src : 0..MaxCid,
    what : Psms \cup {"", "ok", "pending", "refused", "unknown"} ]
Command(code, id, dst, src, what) ==
  [code |-> code, id |-> id, dst |-> dst, src |-> src, what |-> what]

NodeType ==
  [ chans : Seq(ChannelType),           \* l2cap_channels
    resp  : Seq([handle : 1..MaxLinks, command : CommandType]),
    busy  : BOOLEAN,                    \* no outgoing packet can be sent now
    sig   : 1..SigIds,                  \* l2cap_sig_seq_nr
    cid   : 0..MaxCid,                  \* l2cap_local_source_cid
    acl   : 0..MaxLinks,                \* handle of the open connection in hci.c
    page  : BOOLEAN,                    \* Create Connection is under way
    feat  : {"unknown", "asked", "known"},
    sec   : {"none", "asked", "done"},
    info  : {"IDLE", "W2_EXTENDED", "W4_EXTENDED", "W2_FIXED", "W4_FIXED", "DONE"},
    block : BOOLEAN,                    \* BONDING_DISCONNECT_SECURITY_BLOCK
    out   : Seq(CommandType),           \* commands on their way to the peer
    made  : 0..MaxCid,                  \* calls made so far
    foreign : BOOLEAN,                  \* not this code: sends unknown options
    ssp   : BOOLEAN,                    \* gap_ssp_supported_on_both_sides
    told  : [Cids -> {"nothing", "incoming", "opened", "failed", "closed", "wrong"}] ]

InitialNode(n, ssp) ==
  [ chans |-> <<>>, resp |-> <<>>, busy |-> FALSE, sig |-> SigIds, cid |-> 0,
    acl |-> NoHandle, page |-> FALSE, feat |-> "unknown", sec |-> "none",
    info |-> "IDLE", block |-> FALSE, out |-> <<>>, made |-> 0,
    foreign |-> n \in Foreign, ssp |-> ssp,
    told |-> [c \in Cids |-> "nothing"] ]

----------------------------------------------------------------------------
(* Channels of a device *)

Has(s, cid) == \E i \in DOMAIN s.chans : s.chans[i].cid = cid
Place(s, cid) == CHOOSE i \in DOMAIN s.chans : s.chans[i].cid = cid
Channel(s, cid) == s.chans[Place(s, cid)]
Put(s, c) == [s EXCEPT !.chans[Place(s, c.cid)] = c]

(* btstack_linked_list_remove, l2cap_free_channel_entry                    *)
Free(s, cid) == [s EXCEPT !.chans = RemoveAt(@, Place(s, cid))]

(* An event for the client of a channel.  The history keeps the last one,  *)
(* and "wrong" once events came in an order that no channel can have.      *)
Tell(s, c, event) ==
  LET fresh == IF c.incoming THEN {"incoming"} ELSE {"nothing"}
      before == CASE event = "incoming" -> {"nothing"}
                  [] event = "opened" -> fresh
                  [] event = "failed" -> {"nothing", "incoming"}
                  [] event = "closed" -> {"nothing", "incoming", "opened"}
  IN [s EXCEPT !.told[c.cid] = IF @ \in before THEN event ELSE "wrong"]

(* f applied to the channels in the order of the list                      *)
ForEach(s, f(_, _)) ==
  LET after[i \in 0..Len(s.chans)] ==
        IF i = 0 THEN s ELSE f(after[i - 1], s.chans[i].cid)
  IN after[Len(s.chans)]

(* l2cap_create_channel_entry, btstack_linked_list_add_tail                *)
Add(s, c) ==
  [s EXCEPT !.cid = @ + 1, !.chans = Append(@, [c EXCEPT !.cid = s.cid + 1, !.odd = s.foreign])]
Entry(psm, state) ==
  [ cid |-> 0, rcid |-> 0, handle |-> NoHandle, psm |-> psm, state |-> state,
    incoming |-> FALSE, pend |-> "no", confReq |-> FALSE, confRsp |-> FALSE,
    sentRsp |-> FALSE, rcvdRsp |-> FALSE, invalid |-> FALSE,
    rsig |-> NoId, lsig |-> NoId, rtx |-> FALSE, odd |-> FALSE ]

----------------------------------------------------------------------------
(* l2cap_run *)

(* hci_can_send_acl_packet_now                                             *)
CanSend(s, handle) == ~s.busy /\ handle # NoHandle /\ handle = s.acl

(* l2cap_send_classic_signaling_packet                                     *)
Send(s, command) == [s EXCEPT !.busy = TRUE, !.out = Append(@, command)]

\* Fault: the identifiers are not counted on
NextId_Stays(s) == s.sig

(* l2cap_next_sig_id                                                       *)
NextId(s) == IF s.sig = SigIds THEN 1 ELSE s.sig + 1
NextSigId(s) == [s EXCEPT !.sig = NextId(s)]

(* l2cap_run_signaling_response                                            *)
RunResponses(s) ==
  IF s.resp # <<>> /\ CanSend(s, Head(s.resp).handle)
  THEN Send([s EXCEPT !.resp = Tail(@)], Head(s.resp).command)
  ELSE s

(* l2ap_run_information_requests                                           *)
RunInformation(s) ==
  IF s.info \in {"W2_EXTENDED", "W2_FIXED"} /\ CanSend(s, s.acl)
  THEN LET t == NextSigId(s)
       IN Send([t EXCEPT !.info = IF @ = "W2_EXTENDED" THEN "W4_EXTENDED" ELSE "W4_FIXED"],
               Command("INFORMATION_REQUEST", t.sig, 0, 0, ""))
  ELSE s

(* l2cap_channel_ready_for_open and what its callers do with it            *)
OpenIfReady(s, cid) ==
  LET c == Channel(s, cid)
  IN IF c.rcvdRsp /\ c.sentRsp /\ c.state # "OPEN"
     THEN Tell(Put(s, [c EXCEPT !.state = "OPEN"]), c, "opened")
     ELSE s

(* l2cap_run_for_classic_channel                                           *)
RunAnswerPending(s, c) ==
  IF c.pend = "send" /\ CanSend(s, c.handle)
  THEN Send(Put(s, [c EXCEPT !.pend = "sent"]),
            Command("CONNECTION_RESPONSE", c.rsig, c.cid, c.rcid, "pending"))
  ELSE s

(* hci.c sends no second Create Connection while the first is under way    *)
RunCreateConnection(s, c) ==
  IF s.busy THEN s
  ELSE [Put(s, [c EXCEPT !.state = "WAIT_CONNECTION_COMPLETE"])
          EXCEPT !.page = TRUE, !.busy = ~s.page]

RunDecline(s, c) ==
  IF ~CanSend(s, c.handle) THEN s
  ELSE Send(Free(s, c.cid), Command("CONNECTION_RESPONSE", c.rsig, c.cid, c.rcid, "refused"))

RunAccept(s, c) ==
  IF ~CanSend(s, c.handle) THEN s
  ELSE Send(Put(s, [c EXCEPT !.state = "CONFIG", !.confReq = TRUE]),
            Command("CONNECTION_RESPONSE", c.rsig, c.cid, c.rcid, "ok"))

RunConnectionRequest(s, c) ==
  IF ~CanSend(s, c.handle) THEN s
  ELSE LET t == NextSigId(s)
       IN Send(Put(t, [c EXCEPT !.state = "WAIT_CONNECT_RSP", !.lsig = t.sig, !.rtx = TRUE]),
               Command("CONNECTION_REQUEST", t.sig, 0, c.cid, c.psm))

ConfigureResponse(s, c) ==
  Send(Put(s, [c EXCEPT !.confRsp = FALSE, !.sentRsp = ~c.invalid]),
       Command("CONFIGURE_RESPONSE", c.rsig, c.rcid, 0, IF c.invalid THEN "unknown" ELSE "ok"))
ConfigureRequest(s, c) ==
  LET t == NextSigId(s)
  IN Send(Put(t, [c EXCEPT !.confReq = FALSE, !.lsig = t.sig, !.rtx = TRUE]),
          Command("CONFIGURE_REQUEST", t.sig, c.rcid, 0, IF c.odd THEN "unknown" ELSE "ok"))

RunConfig(s, c) ==
  IF ~CanSend(s, c.handle) THEN s
  ELSE OpenIfReady(IF c.confRsp THEN ConfigureResponse(s, c)
                   ELSE IF c.confReq THEN ConfigureRequest(s, c) ELSE s, c.cid)

RunDisconnectResponse(s, c) ==
  IF ~CanSend(s, c.handle) THEN s
  ELSE Send(Free(Tell(s, c, "closed"), c.cid),
            Command("DISCONNECTION_RESPONSE", c.rsig, c.cid, c.rcid, ""))

RunDisconnectRequest(s, c) ==
  IF ~CanSend(s, c.handle) THEN s
  ELSE LET t == NextSigId(s)
       IN Send(Put(t, [c EXCEPT !.state = "WAIT_DISCONNECT", !.lsig = t.sig]),
               Command("DISCONNECTION_REQUEST", t.sig, c.rcid, c.cid, ""))

RunChannel(s, cid) ==
  LET c == Channel(s, cid)
  IN CASE c.state \in {"WAIT_INCOMING_SECURITY_LEVEL_UPDATE",
                       "WAIT_CLIENT_ACCEPT_OR_REJECT"} -> RunAnswerPending(s, c)
       [] c.state = "WILL_SEND_CREATE_CONNECTION" -> RunCreateConnection(s, c)
       [] c.state = "WILL_SEND_CONNECTION_RESPONSE_DECLINE" -> RunDecline(s, c)
       [] c.state = "WILL_SEND_CONNECTION_RESPONSE_ACCEPT" -> RunAccept(s, c)
       [] c.state = "WILL_SEND_CONNECTION_REQUEST" -> RunConnectionRequest(s, c)
       [] c.state = "CONFIG" -> RunConfig(s, c)
       [] c.state = "WILL_SEND_DISCONNECT_RESPONSE" -> RunDisconnectResponse(s, c)
       [] c.state = "WILL_SEND_DISCONNECT_REQUEST" -> RunDisconnectRequest(s, c)
       [] OTHER -> s

Run(s) == ForEach(RunInformation(RunResponses(s)), RunChannel)

----------------------------------------------------------------------------
(* Events of hci.c *)

(* hci_remote_features_query, gap_request_security_level                   *)
QueryFeatures(s) == [s EXCEPT !.feat = IF @ = "unknown" THEN "asked" ELSE @]
RequestSecurity(s) == [s EXCEPT !.sec = IF @ = "none" THEN "asked" ELSE @]

Secure(c) == c.psm # "sdp"   \* required_security_level > LEVEL_0

(* l2cap_handle_security_level_incoming_sufficient                         *)
Announce(s, c) ==
  Tell(Put(s, [c EXCEPT !.state = "WAIT_CLIENT_ACCEPT_OR_REJECT"]), c, "incoming")

(* l2cap_ready_to_connect                                                  *)
ReadyToConnect(s, c) == Put(s, [c EXCEPT !.state = "WILL_SEND_CONNECTION_REQUEST"])

(* l2cap_handle_connection_complete                                        *)
ConnectionCompleteFor(s, cid) ==
  LET c == [Channel(s, cid) EXCEPT !.handle = s.acl]
  IN IF c.state \notin {"WAIT_CONNECTION_COMPLETE", "WILL_SEND_CREATE_CONNECTION"} THEN s
     ELSE IF Secure(c)
     THEN QueryFeatures(Put(s, [c EXCEPT !.state = "WAIT_REMOTE_SUPPORTED_FEATURES"]))
     ELSE ReadyToConnect(s, c)

(* l2cap_handle_remote_supported_features_received                         *)
FeaturesReceived(s, cid) ==
  LET c == Channel(s, cid)
      sufficient == ~Secure(c) \/ s.sec = "done"
  IN IF c.state # "WAIT_REMOTE_SUPPORTED_FEATURES" \/ c.handle # s.acl THEN s
     ELSE CASE c.incoming /\ s.ssp /\ ~sufficient -> [s EXCEPT !.block = TRUE]
            [] c.incoming /\ sufficient -> Announce(s, c)
            [] c.incoming /\ ~s.ssp /\ ~sufficient ->
                 RequestSecurity(Put(s,
                   [c EXCEPT !.state = "WAIT_INCOMING_SECURITY_LEVEL_UPDATE",
                             !.pend = IF @ = "no" THEN "send" ELSE @]))
            [] ~c.incoming /\ sufficient -> ReadyToConnect(s, c)
            [] ~c.incoming /\ ~sufficient ->
                 RequestSecurity(Put(s, [c EXCEPT !.state = "WAIT_OUTGOING_SECURITY_LEVEL_UPDATE"]))

(* l2cap_handle_connection_success_for_addr                                *)
ConnectionSucceeded(s, handle) ==
  ForEach([s EXCEPT !.acl = handle, !.page = FALSE], ConnectionCompleteFor)

(* the channels that fail are told and freed *)
Fail(s, cid) == Free(Tell(s, Channel(s, cid), "failed"), cid)
FailThose(s, P(_)) == ForEach(s, LAMBDA t, cid : IF P(Channel(t, cid)) THEN Fail(t, cid) ELSE t)

(* l2cap_handle_connection_failed_for_addr                                 *)
ConnectionFailed(s) ==
  FailThose([s EXCEPT !.page = FALSE], LAMBDA c :
    c.state \in {"WAIT_CONNECTION_COMPLETE", "WILL_SEND_CREATE_CONNECTION"})

(* l2cap_handle_features_complete                                          *)
FeaturesComplete(s) == ForEach([s EXCEPT !.feat = "known"], FeaturesReceived)

(* l2cap_handle_security_level, the channels that wait for it              *)
SecurityLevelFor(s, cid) ==
  LET c == Channel(s, cid)
      sufficient == s.sec = "done"
  IN CASE c.handle # s.acl -> s
       [] c.state = "WAIT_INCOMING_SECURITY_LEVEL_UPDATE" /\ c.handle = s.acl ->
            IF sufficient THEN Announce(s, c)
            ELSE Put(s, [c EXCEPT !.state = "WILL_SEND_CONNECTION_RESPONSE_DECLINE"])
       [] c.state = "WAIT_OUTGOING_SECURITY_LEVEL_UPDATE" /\ c.handle = s.acl ->
            IF sufficient THEN ReadyToConnect(s, c) ELSE s
       [] OTHER -> s

(* l2cap_handle_security_level, the outgoing channels of a failed request  *)
FailRefused(s, acl, level) ==
  FailThose(s, LAMBDA c :
    /\ c.handle = acl /\ level # "done"
    /\ c.state = "WAIT_OUTGOING_SECURITY_LEVEL_UPDATE")

\* Fault: outgoing channels go on waiting when security is not reached
SecurityLevel_KeepsOutgoing(s, level) ==
  ForEach([s EXCEPT !.sec = level,
                    !.info = IF level = "done" /\ @ = "IDLE" THEN "W2_EXTENDED" ELSE @],
          SecurityLevelFor)

SecurityLevel(s, level) ==
  LET t == [s EXCEPT !.sec = level,
                     !.info = IF level = "done" /\ @ = "IDLE" THEN "W2_EXTENDED" ELSE @]
  IN FailRefused(ForEach(t, SecurityLevelFor), s.acl, level)

(* l2cap_send_open_failed_on_hci_disconnect                                *)
FailedOnDisconnect(c) ==
  /\ ~c.incoming
  /\ c.state \notin {"OPEN", "WAIT_DISCONNECT", "WILL_SEND_CONNECTION_RESPONSE_DECLINE",
                     "WILL_SEND_CONNECTION_RESPONSE_ACCEPT", "WILL_SEND_DISCONNECT_REQUEST",
                     "WILL_SEND_DISCONNECT_RESPONSE", "WAIT_INCOMING_SECURITY_LEVEL_UPDATE"}

(* l2cap_handle_hci_disconnect_event                                       *)
DisconnectedFor(s, cid) ==
  LET c == Channel(s, cid)
  IN IF c.handle # s.acl THEN s
     ELSE Free(Tell(s, c, IF FailedOnDisconnect(c) THEN "failed" ELSE "closed"), cid)

(* l2cap_handle_disconnection_complete.  The pending responses stay.       *)
DisconnectionComplete(s) ==
  [ForEach(s, DisconnectedFor) EXCEPT !.acl = NoHandle, !.feat = "unknown", !.sec = "none",
                                      !.info = "IDLE", !.block = FALSE]

----------------------------------------------------------------------------
(* Commands of the peer *)

(* l2cap_register_signaling_response; its caller ends with l2cap_run       *)
Register(s, command) ==
  IF Len(s.resp) < MaxResponses
  THEN [s EXCEPT !.resp = Append(@, [handle |-> s.acl, command |-> command])]
  ELSE s

(* l2cap_handle_connection_request                                         *)
ConnectionRequest(s, m) ==
  LET refused == Command("CONNECTION_RESPONSE", m.id, m.src, 0, "refused")
      t == Add(s, [Entry(m.what, "WAIT_REMOTE_SUPPORTED_FEATURES") EXCEPT
                     !.handle = s.acl, !.rcid = m.src, !.rsig = m.id, !.incoming = TRUE])
      c == Channel(t, t.cid)
  IN CASE m.what = "missing" \/ Len(s.chans) = Pool -> Register(s, refused)
       [] m.what # "missing" /\ Len(s.chans) < Pool /\ ~Secure(c) -> Announce(t, c)
       [] m.what # "missing" /\ Len(s.chans) < Pool /\ Secure(c) ->
            IF s.feat = "known" THEN FeaturesReceived(t, c.cid)
            ELSE QueryFeatures(Put(t, [c EXCEPT !.pend = "send"]))

\* Fault: an open channel ignores the request
DisconnectRequest_NotOpen(s, c, m) ==
  IF c.state \in {"CONFIG", "WILL_SEND_DISCONNECT_REQUEST", "WAIT_DISCONNECT"}
  THEN Put(s, [c EXCEPT !.rsig = m.id, !.state = "WILL_SEND_DISCONNECT_RESPONSE"])
  ELSE s

(* l2cap_handle_disconnect_request                                         *)
DisconnectRequest(s, c, m) ==
  IF c.state \in {"CONFIG", "OPEN", "WILL_SEND_DISCONNECT_REQUEST", "WAIT_DISCONNECT"}
  THEN Put(s, [c EXCEPT !.rsig = m.id, !.state = "WILL_SEND_DISCONNECT_RESPONSE"])
  ELSE s

(* l2cap_signaling_handler_channel, state WAIT_CONNECT_RSP                 *)
ConnectionResponse(s, c, m) ==
  CASE m.what = "ok" ->
         Put(s, [c EXCEPT !.rcid = m.dst, !.state = "CONFIG", !.confReq = TRUE, !.rtx = FALSE])
    [] m.what = "pending" -> Put(s, [c EXCEPT !.rtx = TRUE])
    [] m.what = "refused" -> Fail(s, c.cid)

\* Fault: the timer of a configure request goes on after its response
Configure_TimerRuns(s, c, m) ==
  OpenIfReady(
    CASE m.code = "CONFIGURE_REQUEST" ->
           Put(s, [c EXCEPT !.confRsp = TRUE, !.rsig = m.id])
      [] m.code = "CONFIGURE_RESPONSE" -> Put(s, [c EXCEPT !.rcvdRsp = TRUE])
      [] OTHER -> s,
    c.cid)

(* l2cap_signaling_handler_channel, state CONFIG.  Only a device that sent *)
(* an unknown option gets a negative response: it leaves the option out.   *)
Configure(s, c, m) ==
  OpenIfReady(
    CASE m.code = "CONFIGURE_REQUEST" ->
           Put(s, [c EXCEPT !.confRsp = TRUE, !.rsig = m.id,
                            !.invalid = @ \/ m.what = "unknown"])
      [] m.code = "CONFIGURE_RESPONSE" /\ m.what = "ok" ->
           Put(s, [c EXCEPT !.rtx = FALSE, !.rcvdRsp = TRUE])
      [] m.code = "CONFIGURE_RESPONSE" /\ m.what # "ok" ->
           Put(s, [c EXCEPT !.rtx = FALSE, !.confReq = TRUE, !.odd = FALSE])
      [] OTHER -> s,
    c.cid)

(* l2cap_signaling_handler_channel                                         *)
ChannelHandler(s, c, m) ==
  CASE m.code = "DISCONNECTION_REQUEST" -> DisconnectRequest(s, c, m)
    [] m.code = "CONNECTION_RESPONSE" /\ c.state = "WAIT_CONNECT_RSP" ->
         ConnectionResponse(s, c, m)
    [] m.code # "DISCONNECTION_REQUEST" /\ c.state = "CONFIG" -> Configure(s, c, m)
    [] m.code = "DISCONNECTION_RESPONSE" /\ c.state = "WAIT_DISCONNECT" ->
         Free(Tell(s, c, "closed"), c.cid)
    [] OTHER -> s

\* Fault: any channel that waits takes a response
IsFor_AnyId(s, c, m) ==
  c.handle = s.acl /\ (m.code \in Responses \/ c.cid = m.dst)

(* the channel a command is for: responses go by signaling identifier,     *)
(* requests by channel identifier *)
IsFor(s, c, m) ==
  /\ c.handle = s.acl
  /\ IF m.code \in Responses THEN c.lsig = m.id ELSE c.cid = m.dst

(* no channel for it *)
UnclaimedCommand(s, m) ==
  CASE m.code \in {"CONNECTION_RESPONSE", "CONFIGURE_RESPONSE", "DISCONNECTION_RESPONSE"} -> s
    [] m.code = "DISCONNECTION_REQUEST" ->
         Register(s, Command("DISCONNECTION_RESPONSE", m.id, m.dst, m.src, ""))
    [] m.code \in {"CONFIGURE_REQUEST", "COMMAND_REJECT"} ->
         Register(s, Command("COMMAND_REJECT", m.id, 0, 0, ""))

(* l2cap_signaling_handler_dispatch, INFORMATION_RESPONSE *)
InformationResponse(s) ==
  [s EXCEPT !.info = CASE @ = "W4_EXTENDED" -> "W2_FIXED"
                       [] @ = "W4_FIXED" -> "DONE"
                       [] OTHER -> @]

(* l2cap_signaling_handler_dispatch *)
Dispatch(s, m) ==
  LET claims(c) == IsFor(s, c, m)
  IN CASE m.code = "CONNECTION_REQUEST" -> ConnectionRequest(s, m)
       [] m.code = "INFORMATION_REQUEST" ->
            Register(s, Command("INFORMATION_RESPONSE", m.id, 0, 0, ""))
       [] m.code = "INFORMATION_RESPONSE" -> InformationResponse(s)
       [] OTHER -> IF \E i \in DOMAIN s.chans : claims(s.chans[i])
                   THEN ChannelHandler(s, s.chans[SelectInSeq(s.chans, claims)], m)
                   ELSE UnclaimedCommand(s, m)

----------------------------------------------------------------------------
(* Steps of a device.  What it sends on a link that is down is lost.       *)

Becomes(n, s) ==
  \E t \in {s} :
    /\ node' = [node EXCEPT ![n] = IF t.acl = link.now THEN t ELSE [t EXCEPT !.out = <<>>]]
    /\ UNCHANGED link

(* every call and every event but a timeout ends with l2cap_run *)
Handled(n, s) == \E t \in {s} : Becomes(n, Run(t))

(* l2cap_create_channel *)
Create(n) ==
  LET s == node[n]
      t == Add(s, Entry(Calls[n][s.made + 1], "WILL_SEND_CREATE_CONNECTION"))
      u == IF s.acl = NoHandle THEN t ELSE ConnectionCompleteFor(t, t.cid)
      v == IF s.feat = "known" THEN FeaturesReceived(u, t.cid) ELSE u
  IN /\ s.made < Len(Calls[n]) /\ Len(s.chans) < Pool
     /\ Handled(n, [v EXCEPT !.made = @ + 1])

(* l2cap_accept_connection, l2cap_decline_connection: the client answers   *)
(* an incoming connection once *)
Answer(n, cid, state) ==
  LET s == node[n]
      c == Channel(s, cid)
  IN /\ Has(s, cid) /\ c.state = "WAIT_CLIENT_ACCEPT_OR_REJECT"
     /\ Handled(n, Put(s, [c EXCEPT !.state = state]))
Accept(n, cid) == Answer(n, cid, "WILL_SEND_CONNECTION_RESPONSE_ACCEPT")
Decline(n, cid) == Answer(n, cid, "WILL_SEND_CONNECTION_RESPONSE_DECLINE")

(* l2cap_disconnect *)
Disconnect(n, cid) ==
  LET s == node[n]
      c == Channel(s, cid)
  IN /\ Has(s, cid) /\ c.state \in Disconnectable
     /\ Handled(n, Put(s, [c EXCEPT !.state = "WILL_SEND_DISCONNECT_REQUEST"]))


(* HCI_EVENT_TRANSPORT_PACKET_SENT, HCI_EVENT_NUMBER_OF_COMPLETED_PACKETS  *)
PacketSent(n) == node[n].busy /\ Handled(n, [node[n] EXCEPT !.busy = FALSE])

(* l2cap_acl_handler *)
Receive(n) ==
  LET p == Peer(n)
      s == node[n]
      m == Head(node[p].out)
  IN /\ node[p].out # <<>> /\ s.acl # NoHandle /\ s.acl = link.now
     /\ \E t \in {Dispatch(s, m)} :
          node' = [node EXCEPT ![n] = Run(t), ![p].out = Tail(@)]
     /\ UNCHANGED link

(* nothing is under way: only then a timer of 10 or 60 seconds expires,    *)
(* unless EarlyTimeouts *)
Quiet == \A n \in Nodes : node[n].out = <<>> /\ node[n].resp = <<>> /\ ~node[n].busy

(* l2cap_rtx_timeout *)
RtxTimeout(n, cid) ==
  /\ Has(node[n], cid) /\ Channel(node[n], cid).rtx
  /\ EarlyTimeouts \/ Quiet
  /\ Becomes(n, Fail(node[n], cid))

----------------------------------------------------------------------------
(* The link *)

NoConnections == \A n \in Nodes : node[n].acl = NoHandle

PageSucceeds(n) ==
  /\ node[n].page /\ link.now = 0 /\ NoConnections /\ link.made < MaxLinks
  /\ link' = [now |-> link.made + 1, made |-> link.made + 1]
  /\ UNCHANGED node

PageFails(n) ==
  /\ node[n].page /\ link.now = 0 /\ Handled(n, ConnectionFailed(node[n]))

ConnectionComplete(n) ==
  /\ node[n].acl = NoHandle /\ link.now # 0
  /\ Handled(n, ConnectionSucceeded(node[n], link.now))

RemoteFeatures(n) == node[n].feat = "asked" /\ Handled(n, FeaturesComplete(node[n]))

(* GAP_EVENT_SECURITY_LEVEL: encryption is switched on at both sides       *)
Authenticated(n) ==
  /\ node[n].sec = "asked" \/ (node[Peer(n)].sec = "done" /\ node[n].sec = "none")
  /\ node[n].acl # NoHandle /\ node[n].acl = link.now
  /\ Handled(n, SecurityLevel(node[n], "done"))
AuthenticationFailed(n) ==
  /\ node[n].sec = "asked" /\ node[Peer(n)].sec # "done"
  /\ Handled(n, SecurityLevel(node[n], "none"))

LinkDown ==
  /\ link.now # 0 /\ \A n \in Nodes : node[n].acl = link.now
  /\ StaleResponses \/ \A n \in Nodes : node[n].resp = <<>>
  /\ link' = [link EXCEPT !.now = 0]
  /\ node' = [n \in Nodes |-> [node[n] EXCEPT !.out = <<>>]]

(* hci_run disconnects for BONDING_DISCONNECT_SECURITY_BLOCK *)
SecurityBlock(n) == node[n].block /\ LinkDown

Disconnected(n) ==
  /\ node[n].acl # NoHandle /\ node[n].acl # link.now
  /\ Handled(n, DisconnectionComplete(node[n]))

Init ==
  /\ \E ssp \in Ssp : node = [n \in Nodes |-> InitialNode(n, ssp)]
  /\ link = [now |-> 0, made |-> 0]

DeviceStep(n) ==
  \/ PacketSent(n) \/ Receive(n) \/ \E c \in Cids : RtxTimeout(n, c)
  \/ PageSucceeds(n) \/ PageFails(n) \/ ConnectionComplete(n) \/ RemoteFeatures(n)
  \/ Authenticated(n) \/ AuthenticationFailed(n) \/ SecurityBlock(n) \/ Disconnected(n)
ClientStep(n) ==
  \/ Create(n)
  \/ \E c \in Cids : Accept(n, c) \/ Decline(n, c) \/ Disconnect(n, c)

Next == (\E n \in Nodes : DeviceStep(n) \/ ClientStep(n)) \/ LinkDown

Spec == Init /\ [][Next]_vars

(* What the controllers, the timers and the clients do in the end.  Clients *)
(* need not create or disconnect, and the link need not go down.           *)
Progress ==
  \E n \in Nodes : DeviceStep(n) \/ \E c \in Cids : Accept(n, c) \/ Decline(n, c)
Fairness == WF_vars(Progress)

FairSpec == Spec /\ Fairness

----------------------------------------------------------------------------
(* What a device relies on *)

(* Types, and the limits of the two pools: no more channels than memory    *)
(* for them, no more pending responses than places in the queue            *)
(* (l2cap_create_channel_entry, l2cap_register_signaling_response).        *)
TypeOK ==
  /\ node \in [Nodes -> NodeType]
  /\ link \in [now : 0..MaxLinks, made : 0..MaxLinks]
  /\ \A n \in Nodes : Len(node[n].chans) <= Pool /\ Len(node[n].resp) <= MaxResponses

(* Whatever interleaving of commands, timers, disconnects and link losses, *)
(* the client of a channel hears of it in an order that makes sense: an    *)
(* incoming channel is announced before it opens, no channel opens twice,  *)
(* an open one closes but does not fail, and nothing follows the end       *)
(* (l2cap_rtx_timeout, l2cap_channel_ready_for_open and the finalizers).   *)
EventsInOrder == \A n \in Nodes, c \in Cids : node[n].told[c] # "wrong"

Members(s) == {s.chans[i] : i \in 1..Len(s.chans)}
ChannelsOf(n) == Members(node[n])

(* The identifiers of the commands of code that are under way.             *)
Ids(out, code) == {out[k].id : k \in {j \in 1..Len(out) : out[j].code = code}}

(* The identifiers of the configure requests of a device s to a device q   *)
(* that are under way, with a channel that has still to answer, or         *)
(* answered by a response under way; and of its connection requests.       *)
Owes(c) == c.state = "CONFIG" /\ c.confRsp
Owed(q) == {c.rsig : c \in {d \in Members(q) : Owes(d)}}
InUse(s, q) ==
  Ids(s.out, "CONFIGURE_REQUEST") \cup Owed(q) \cup Ids(q.out, "CONFIGURE_RESPONSE")

Considered(c) ==
  /\ c.incoming
  /\ c.state \in {"WAIT_REMOTE_SUPPORTED_FEATURES", "WAIT_INCOMING_SECURITY_LEVEL_UPDATE",
                  "WAIT_CLIENT_ACCEPT_OR_REJECT", "WILL_SEND_CONNECTION_RESPONSE_DECLINE",
                  "WILL_SEND_CONNECTION_RESPONSE_ACCEPT"}
Requested(s, q) ==
  Ids(s.out, "CONNECTION_REQUEST") \cup {c.rsig : c \in {d \in Members(q) : Considered(d)}}
    \cup Ids(q.out, "CONNECTION_RESPONSE")

(* The channels that may look at a response with their identifier.         *)
Awaits(c) == c.state \in {"WAIT_CONNECT_RSP", "CONFIG"}
Fresh(s, q, id) ==
  id \notin InUse(s, q) \cup Requested(s, q) /\ \A c \in Members(s) : Awaits(c) => c.lsig # id

(* The identifiers come back to one only when it is not in use any more    *)
(* (l2cap_next_sig_id, with 255 of them).                                  *)
IdsFresh == \A n \in Nodes : Fresh(node[n], node[Peer(n)], NextId(node[n]))

(* An open channel and the channel of the peer it sends to belong to each  *)
(* other, and the peer has accepted its configuration: no response is      *)
(* taken for the answer to another request (the matching by local_sig_id   *)
(* and local_cid in l2cap_signaling_handler_dispatch).                     *)
OpenIsAgreed ==
  \A n \in Nodes : \A c \in ChannelsOf(n), d \in ChannelsOf(Peer(n)) :
    c.state = "OPEN" /\ c.handle = link.now /\ d.handle = link.now =>
      /\ d.cid = c.rcid <=> d.rcid = c.cid
      /\ d.cid = c.rcid => d.sentRsp

(* Once all is quiet, a channel that is open at one side is open at the    *)
(* other (the end of the handshakes of l2cap_signaling_handler_channel).   *)
OpenOnBothSides ==
  Quiet /\ (\A n \in Nodes : node[n].acl # NoHandle /\ node[n].acl = link.now) =>
    \A n \in Nodes : \A c \in ChannelsOf(n) : c.state = "OPEN" =>
      \E d \in ChannelsOf(Peer(n)) : d.cid = c.rcid /\ d.rcid = c.cid /\ d.state = "OPEN"

(* The devices come to rest again and again, with no response pending and  *)
(* no channel that is not open: each call of l2cap_create_channel is       *)
(* answered by an event, an incoming channel opens or goes away, and so    *)
(* does a channel its client disconnects, as every step that waits for the *)
(* peer is covered by a timer, by the end of the link, or, for a           *)
(* disconnect, by a peer that always answers (the comment at               *)
(* WILL_SEND_DISCONNECT_RESPONSE in l2cap_run_for_classic_channel); no     *)
(* command is answered by commands for ever, and no response waits for a   *)
(* link that is gone (l2cap_run_signaling_response stops at the first it   *)
(* cannot send).                                                           *)
Settled == []<>(Quiet /\ \A n \in Nodes : \A c \in ChannelsOf(n) : c.state = "OPEN")

=============================================================================

-------------------------------- MODULE Gatt --------------------------------
(***************************************************************************)
(* The attribute protocol on one LE link between two devices that run this *)
(* code: the GATT client (gatt_client.c), the ATT server (att_server.c)    *)
(* with the requests of att_db.c that the client sends, and att_dispatch.c,*)
(* through which both share the fixed channel and the packet buffer.       *)
(*                                                                         *)
(* A device is a record, its functions map records to records.  A PDU      *)
(* carries what the two ends look at; "q" is the query whose value a       *)
(* request writes.  Security, caching, EATT, and GATT over classic are off.*)
(***************************************************************************)
EXTENDS Integers, Sequences, FiniteSets

CONSTANTS
  Nodes,       \* the two devices
  AutoMtu,     \* where gatt_client_mtu_exchange_enabled
  DefaultMtu,  \* ATT_DEFAULT_MTU
  MaxMtu,      \* l2cap_max_le_mtu of each device
  ValueLen,    \* length of the value that is read
  WriteLen,    \* length of the values that are written, by kind
  Handles,     \* the last descriptor of the characteristic
  Plans,       \* what the client of each device asks: kind, and how;
               \* what its server sends: "ntf" or "ind"
  AclBuffers,  \* packets that may be on their way from a device
  Faults,      \* the link is lost, a client or an indication times out early
  MaxFaults    \* and how often in all

Kinds == {"read", "long", "find", "write", "oversize", "denied", "longwrite", "reliable",
          "subscribe", "command"}

ASSUME NodesAssumption == \E a, b \in Nodes : a # b /\ Nodes = {a, b}
ASSUME BoundsAssumption ==
  /\ AutoMtu \subseteq Nodes /\ DefaultMtu \in Nat /\ DefaultMtu > 5
  /\ MaxMtu \in [Nodes -> Nat] /\ \A n \in Nodes : MaxMtu[n] >= DefaultMtu
  /\ ValueLen \in Nat /\ WriteLen \in [Kinds -> Nat] /\ Handles \in Nat \ {0}
  /\ \A p \in Plans :
       p \in [Nodes -> [queries : Seq([kind : Kinds, how : {"call", "queue", "chain"}]),
                          updates : Seq({"ntf", "ind"})]]
  /\ AclBuffers \in Nat \ {0} /\ MaxFaults \in Nat
  /\ WriteLen["command"] <= DefaultMtu - 3   \* no client tries a longer one
  /\ \A p \in Plans : \A n \in Nodes : \A q \in DOMAIN p[n].queries :
       /\ p[n].queries[q].kind = "command" => p[n].queries[q].how = "call"
       /\ p[n].queries[q].how = "chain" => q > 1
  /\ Faults \subseteq {"loss", "late", "silent"}

VARIABLES
  plan,    \* what the applications do: never changes
  node,    \* each device, with the PDUs on their way from it
  faults   \* how much has gone wrong

vars == <<plan, node, faults>>

Queries(n) == plan[n].queries
Updates(n) == plan[n].updates

Peer(n) == CHOOSE p \in Nodes : p # n
Smaller(a, b) == IF a < b THEN a ELSE b
Larger(a, b) == IF a < b THEN b ELSE a

(* att_dispatch.c: ATT_SERVER, ATT_CLIENT *)
Server == 0
Client == 1

(* The fields of a device that are gone with its connection: those of      *)
(* gatt_client_t, and of att_server_t and att_connection_t.                *)
NoContext ==
  [ known |-> FALSE,            \* is there a context for the connection?
    state |-> "READY",          \* P_READY, SEND for P_W2_..., WAIT for P_W4_...
    stage |-> "none",           \* ... and what is sent or waited for
    callback |-> 0,             \* the query whose callback is stored
    value |-> 0,                \* the query whose value attribute_value is
    offset |-> 0, length |-> 0, \* attribute_offset, attribute_length
    from |-> 0,                 \* start_group_handle
    mtu |-> DefaultMtu, mtuState |-> "DISABLED",
    confirm |-> FALSE,          \* send_confirmation
    queue |-> <<>>,             \* query_requests
    commands |-> <<>>,          \* write_without_response_requests
    timer |-> FALSE ]

NoPdu == [op |-> "none", q |-> 0, off |-> 0, len |-> 0, code |-> "none"]
NewConnection ==
  [ state |-> "IDLE",           \* or VALIDATED, with a request
    request |-> NoPdu,
    mtu |-> DefaultMtu, exchanged |-> FALSE,
    indication |-> 0,           \* value_indication_handle
    timer |-> FALSE,            \* value_indication_timer
    indications |-> <<>>, notifications |-> <<>> ]

InitialNode(n) ==
  [ me |-> n,
    link |-> "up",              \* "lost": hci.c has not said so yet
    busy |-> FALSE,             \* no packet can be sent now
    out |-> <<>>,               \* PDUs on their way
    client |-> NoContext, server |-> NewConnection,
    \* att_dispatch.c and the fixed channel of l2cap.c
    wants |-> [r \in {Server, Client} |-> FALSE],
    pending |-> FALSE, first |-> Server, channelWants |-> FALSE,
    \* att_db.c and the application's attributes: what is prepared, what is written
    writeError |-> FALSE,       \* att_prepare_write_error_code
    prepared |-> [q |-> 0, len |-> 0], written |-> <<>>,
    \* the applications' scripts, and what they have been told
    todo |-> 1, next |-> 1,
    accepted |-> {}, dropped |-> {},
    answers |-> [q \in DOMAIN Queries(n) |-> <<>>],
    got |-> [q \in DOMAIN Queries(n) |-> 0],  \* how much was found, -1 after a gap
    heard |-> <<>>,
    reports |-> [u \in DOMAIN Updates(n) |-> <<>>],
    late |-> FALSE,             \* a transaction has timed out on this connection
    doubtful |-> {} ]           \* the queries that were in work from then on

----------------------------------------------------------------------------
(* F(s), for which TLC evaluates s once.                                   *)
With(s, F(_)) == [t \in {s} |-> F(t)][s]

CanSend(s) == ~s.busy
Pdu(op) == [NoPdu EXCEPT !.op = op]
Transmit(s, p) ==
  [s EXCEPT !.busy = TRUE, !.out = IF s.link = "up" THEN Append(@, p) ELSE @]

(* att_dispatch_request_can_send_now_event: when no packet can be sent now *)
(* l2cap_request_can_send_fix_channel_now_event only takes a note.         *)
Ask(s, role) ==
  IF s.pending THEN [s EXCEPT !.wants[role] = TRUE]
  ELSE [s EXCEPT !.wants[role] = TRUE, !.pending = TRUE, !.channelWants = TRUE]

----------------------------------------------------------------------------
(* GATT client: requests *)

(* gatt_client_provide_context_for_handle                                  *)
Provide(s) ==
  IF s.client.known THEN s
  ELSE [s EXCEPT !.client =
         [NoContext EXCEPT
            !.known = TRUE,
            !.mtu = IF s.server.exchanged THEN s.server.mtu ELSE DefaultMtu,
            !.mtuState = IF s.server.exchanged THEN "EXCHANGED"
                         ELSE IF s.me \in AutoMtu THEN "SEND" ELSE "DISABLED"]]

Query(s, q) == Queries(s.me)[q]
FirstStage == [read |-> "read", long |-> "blob", find |-> "find", write |-> "write", oversize |-> "write",
               denied |-> "write",
               longwrite |-> "prepare", reliable |-> "reliable", subscribe |-> "ccc"]

(* gatt_client_read_value_of_characteristic_using_value_handle and the     *)
(* others that begin a query, when provide_context_for_request lets them.  *)
Begin(s, q) ==
  [s EXCEPT
    !.client.state = "SEND", !.client.stage = FirstStage[Query(s, q).kind],
    !.client.callback = q, !.client.value = q, !.client.timer = TRUE,
    !.client.offset = 0, !.client.from = 1, !.client.length = WriteLen[Query(s, q).kind],
    !.accepted = @ \cup {q}, !.doubtful = IF s.late THEN @ \cup {q} ELSE @]

(* emit_gatt_complete_event, and a client that goes on from its handler.   *)
Emit(s, status) ==
  LET c == s.client
      t == [s EXCEPT !.answers[c.callback] = Append(@, status)]
      chained == /\ s.todo \in DOMAIN Queries(s.me) /\ Query(s, s.todo).how = "chain"
                 /\ c.callback = s.todo - 1 /\ status # "disconnected"
  IN  IF chained THEN Begin([t EXCEPT !.todo = @ + 1], s.todo) ELSE t

(* gatt_client_notify_can_send_query                                       *)
NextQuery(s) ==
  LET c == s.client
  IN  IF c.state # "READY" \/ c.queue = <<>> THEN s
      ELSE Begin([s EXCEPT !.client.queue = Tail(@)], Head(c.queue))

(* gatt_client_handle_transaction_complete, but for the gatt_client_run of *)
(* the query that begins then.                                             *)
\* Fault: the next query begins before the last one is reported.
Finish_NextFirst(s, status) ==
  With(NextQuery([s EXCEPT !.client.state = "READY", !.client.timer = FALSE]),
       LAMBDA t : Emit(t, status))
Finish(s, status) ==
  With(Emit([s EXCEPT !.client.state = "READY", !.client.timer = FALSE], status), NextQuery)

(* write_blob_length                                                       *)
WriteBlob(c) == IF c.offset >= c.length THEN 0 ELSE Smaller(c.mtu - 5, c.length - c.offset)

Request(c) ==
  CASE c.stage = "read" -> Pdu("READ_REQ")
    [] c.stage = "blob" -> [Pdu("BLOB_REQ") EXCEPT !.off = c.offset]
    [] c.stage = "find" -> [Pdu("FIND_REQ") EXCEPT !.off = c.from]
    [] c.stage = "ccc"  -> Pdu("TYPE_REQ")
    [] c.stage \in {"write", "cccWrite"} ->
         [Pdu("WRITE_REQ") EXCEPT !.q = c.value, !.len = c.length]
    [] c.stage \in {"prepare", "reliable"} ->
         [Pdu("PREPARE_REQ") EXCEPT !.q = c.value, !.off = c.offset, !.len = WriteBlob(c)]
    [] c.stage = "execute" -> [Pdu("EXECUTE_REQ") EXCEPT !.len = 1]
    [] c.stage = "cancel"  -> Pdu("EXECUTE_REQ")

(* gatt_client_write_value_of_characteristic_without_response, from the    *)
(* callback of a client that asked to write.                               *)
WriteCommand(s, q) ==
  Transmit(s, [Pdu("COMMAND") EXCEPT !.q = q, !.len = WriteLen[Query(s, q).kind]])

(* The exchange of the MTU is a transaction of its own.                    *)
\* Fault: other requests need not wait for it.
Exchanging_Ignored(c) == FALSE
Exchanging(c) == c.mtuState = "SENT"

(* A write that is longer than the MTU allows is refused when its turn     *)
(* comes, and the query that begins then may be one, too.                  *)
Refusable(s) ==
  LET c == s.client
  IN  /\ c.mtuState # "SEND" /\ ~Exchanging(c) /\ ~c.confirm
      /\ c.state = "SEND" /\ c.stage = "write" /\ c.length > c.mtu - 3
RefuseOne(s) == IF Refusable(s) THEN Finish(s, "length") ELSE s
Refuse(s) ==
  LET after[k \in 0..Len(Queries(s.me))] ==
        IF k = 0 THEN s ELSE With(after[k - 1], RefuseOne)
  IN  after[Len(Queries(s.me))]

(* gatt_client_run_for_gatt_client: whoever sent a packet asks for the next*)
Sent(s) == Ask(s, Client)
SendRequest(s) == Sent(Transmit([s EXCEPT !.client.state = "WAIT"], Request(s.client)))
RunContext(s) ==
  LET c == s.client
  IN  IF c.mtuState = "SEND"
      THEN Sent(Transmit([s EXCEPT !.client.mtuState = "SENT"],
                         [Pdu("MTU_REQ") EXCEPT !.len = MaxMtu[s.me]]))
      ELSE IF Exchanging(c) THEN s
      ELSE IF c.confirm THEN Sent(Transmit([s EXCEPT !.client.confirm = FALSE], Pdu("CONFIRM")))
      ELSE IF Refusable(s)
      THEN With(Refuse(s), LAMBDA t : IF t.client.state = "SEND" THEN SendRequest(t) ELSE t)
      ELSE IF c.state = "SEND" THEN SendRequest(s)
      ELSE IF c.commands # <<>>
      THEN Sent(WriteCommand([s EXCEPT !.client.commands = Tail(@)], Head(c.commands)))
      ELSE s

(* gatt_client_run                                                         *)
ClientRun(s) ==
  IF ~s.client.known THEN s ELSE IF ~CanSend(s) THEN Ask(s, Client) ELSE RunContext(s)

(* gatt_client_handle_transaction_complete, gatt_client_notify_can_send_..*)
RunIfBegun(s) == IF s.client.state = "READY" THEN s ELSE ClientRun(s)
Complete(s, status) == With(Finish(s, status), RunIfBegun)
NotifyCanSendQuery(s) ==
  IF s.client.state # "READY" THEN s ELSE With(NextQuery(s), RunIfBegun)

(* gatt_client_report_error_if_pending                                     *)
ReportError(s, status) == IF s.client.state = "READY" THEN s ELSE Complete(s, status)

----------------------------------------------------------------------------
(* GATT client: responses *)

(* The event with a part of what the query is after.                       *)
Found(s, off, len) ==
  [s EXCEPT !.got[s.client.callback] = IF @ = off THEN off + len ELSE -1]

(* trigger_next_blob_query                                                 *)
\* Fault: a full blob is taken for the last.
NextBlob_Full(s, len) ==
  IF len <= s.client.mtu - 1 THEN Complete(s, "success")
  ELSE [s EXCEPT !.client.offset = @ + len, !.client.state = "SEND"]
NextBlob(s, len) ==
  IF len < s.client.mtu - 1 THEN Complete(s, "success")
  ELSE [s EXCEPT !.client.offset = @ + len, !.client.state = "SEND"]

(* trigger_next_characteristic_descriptor_query                            *)
NextDescriptor(s, last) ==
  IF last >= Handles THEN Complete(s, "success")
  ELSE [s EXCEPT !.client.from = last + 1, !.client.state = "SEND", !.client.stage = "find"]

(* trigger_next_prepare_write_query                                        *)
NextPrepare(s, off) ==
  LET c == [s.client EXCEPT !.offset = off]
      d == [c EXCEPT !.offset = off + WriteBlob(c), !.state = "SEND"]
  IN  [s EXCEPT !.client = IF WriteBlob(d) = 0 THEN [d EXCEPT !.stage = "execute"] ELSE d]

(* is_value_valid                                                          *)
Echoed(c, p) ==
  p.q = c.value /\ p.off = c.offset /\ c.offset <= c.length /\ p.len <= c.length - c.offset

(* gatt_client_handle_att_mtu_response                                     *)
\* Fault: the server of this device is not told.
TakeMtu_ClientOnly(s, p) ==
  NotifyCanSendQuery([s EXCEPT !.client.mtu = Smaller(MaxMtu[s.me], p.len),
                               !.client.mtuState = "EXCHANGED"])
TakeMtu(s, p) ==
  LET mtu == Smaller(MaxMtu[s.me], p.len)
  IN  NotifyCanSendQuery(
        [s EXCEPT !.client.mtu = mtu, !.client.mtuState = "EXCHANGED",
                  !.server.mtu = mtu, !.server.exchanged = TRUE])

(* gatt_client_handle_att_response                                         *)
Respond(s, p) ==
  LET c == s.client
      Waits(stages) == c.state = "WAIT" /\ c.stage \in stages
  IN  CASE p.op = "MTU_RSP" /\ c.mtuState = "SENT" -> TakeMtu(s, p)
        [] p.op \in {"NTF", "IND"} ->
             [s EXCEPT !.heard = Append(@, p.q), !.client.confirm = @ \/ p.op = "IND"]
        [] p.op = "TYPE_RSP" /\ Waits({"ccc"}) ->
             [s EXCEPT !.client.state = "SEND", !.client.stage = "cccWrite"]
        [] p.op = "READ_RSP" /\ Waits({"read"}) -> Complete(Found(s, 0, p.len), "success")
        [] p.op = "BLOB_RSP" /\ Waits({"blob"}) -> NextBlob(Found(s, c.offset, p.len), p.len)
        [] p.op = "FIND_RSP" -> NextDescriptor(Found(s, c.from - 1, p.off - c.from + 1), p.off)
        [] p.op = "WRITE_RSP" /\ Waits({"write", "cccWrite"}) -> Complete(s, "success")
        [] p.op = "PREPARE_RSP" /\ Waits({"prepare"}) -> NextPrepare(s, p.off)
        [] p.op = "PREPARE_RSP" /\ Waits({"reliable"}) ->
             IF Echoed(c, p) THEN NextPrepare(s, p.off)
             ELSE [s EXCEPT !.client.state = "SEND", !.client.stage = "cancel"]
        [] p.op = "EXECUTE_RSP" /\ Waits({"execute"}) -> Complete(s, "success")
        [] p.op = "EXECUTE_RSP" /\ Waits({"cancel"}) -> Complete(s, "mismatch")
        [] p.op = "ERROR" -> ReportError(s, p.code)
        [] OTHER -> s

(* gatt_client_att_packet_handler                                          *)
ClientPdu(s, p) ==
  With(IF p.op \in {"NTF", "IND"} THEN Provide(s) ELSE s,
       LAMBDA t : IF t.client.known THEN With(Respond(t, p), ClientRun) ELSE t)

----------------------------------------------------------------------------
(* ATT server *)

ErrorPdu(code) == [Pdu("ERROR") EXCEPT !.code = code]
NothingPrepared == [q |-> 0, len |-> 0]

(* att_handle_request: what it changes, and the response                   *)
Handled(s, p) ==
  LET v == s.server
      Reads(op, off) ==
        [s |-> s, pdu |-> [Pdu(op) EXCEPT !.len = Smaller(ValueLen - off, v.mtu - 1)]]
      With2(t, r) == [s |-> t, pdu |-> r]
  IN  CASE p.op = "MTU_REQ" ->
             LET mtu == Larger(DefaultMtu, Smaller(p.len, MaxMtu[s.me]))
             IN  With2([s EXCEPT !.server.mtu = mtu, !.server.exchanged = TRUE],
                       [Pdu("MTU_RSP") EXCEPT !.len = mtu])
        [] p.op = "READ_REQ" -> Reads("READ_RSP", 0)
        [] p.op = "BLOB_REQ" ->
             IF p.off > ValueLen THEN With2(s, ErrorPdu("offset")) ELSE Reads("BLOB_RSP", p.off)
        [] p.op = "FIND_REQ" -> With2(s, [Pdu("FIND_RSP") EXCEPT !.off = p.off])
        [] p.op = "TYPE_REQ" -> With2(s, Pdu("TYPE_RSP"))
        [] p.op = "WRITE_REQ" ->
             IF Queries(Peer(s.me))[p.q].kind = "denied" THEN With2(s, ErrorPdu("denied"))
             ELSE With2([s EXCEPT !.written = Append(@, [q |-> p.q, len |-> p.len])],
                        Pdu("WRITE_RSP"))
        [] p.op = "PREPARE_REQ" ->
             With2(IF p.off # s.prepared.len THEN [s EXCEPT !.writeError = TRUE]
                   ELSE [s EXCEPT !.prepared = [q |-> p.q, len |-> p.off + p.len]],
                   [p EXCEPT !.op = "PREPARE_RSP"])
        [] p.op = "EXECUTE_REQ" ->
             LET t == [s EXCEPT !.prepared = NothingPrepared]
             IN  IF p.len = 0 THEN With2(t, Pdu("EXECUTE_RSP"))
                 ELSE IF s.writeError
                 THEN With2([t EXCEPT !.writeError = FALSE], ErrorPdu("offset"))
                 ELSE With2([t EXCEPT !.written = Append(@, s.prepared)], Pdu("EXECUTE_RSP"))
        [] OTHER -> With2(s, ErrorPdu("unsupported"))

(* att_server_process_validated_request                                    *)
ProcessRequest(s) ==
  LET r == Handled(s, s.server.request)
      t == Transmit([r.s EXCEPT !.server.state = "IDLE", !.server.request = NoPdu], r.pdu)
  IN  IF r.pdu.op = "MTU_RSP" /\ t.client.known
      THEN [t EXCEPT !.client.mtu = t.server.mtu] ELSE t

(* att_server_indicate and att_server_notify, from the callbacks that ask  *)
(* for them.                                                               *)
Indicate(s) ==
  LET u == Head(s.server.indications)
  IN  Transmit([s EXCEPT !.server.indications = Tail(@), !.server.indication = u,
                         !.server.timer = TRUE],
               [Pdu("IND") EXCEPT !.q = u])
NotifyValue(s) ==
  Transmit([s EXCEPT !.server.notifications = Tail(@)],
           [Pdu("NTF") EXCEPT !.q = Head(s.server.notifications)])

(* att_server_data_ready_for_phase                                         *)
\* Fault: an indication does not wait for the confirmation of the last.
DataReady_Unconfirmed(v, phase) ==
  CASE phase = 1 -> v.state = "VALIDATED"
    [] phase = 2 -> v.indications # <<>>
    [] phase = 3 -> v.notifications # <<>>
DataReady(v, phase) ==
  CASE phase = 1 -> v.state = "VALIDATED"
    [] phase = 2 -> v.indications # <<>> /\ v.indication = 0
    [] phase = 3 -> v.notifications # <<>>

(* att_server_handle_can_send_now, with one connection: each phase goes on *)
(* while a packet can be sent, and that is for one packet.                 *)
Phases == 1..3
ServePhase(s, phase) ==
  CASE phase = 1 -> ProcessRequest(s)
    [] phase = 2 -> Indicate(s)
    [] phase = 3 -> NotifyValue(s)
AskIfReady(s) ==
  IF ~CanSend(s) /\ \E k \in Phases : DataReady(s.server, k) THEN Ask(s, Server) ELSE s
ServePhases(s) ==
  LET ready == {k \in Phases : DataReady(s.server, k)}
      first == CHOOSE k \in ready : \A j \in ready : k <= j
  IN  IF CanSend(s) /\ ready # {} THEN With(ServePhase(s, first), AskIfReady) ELSE AskIfReady(s)

----------------------------------------------------------------------------
(* att_dispatch.c *)

(* att_dispatch_handle_can_send_now                                        *)
Serve(s, i) ==
  LET role == (s.first + i) % 2
      t == [s EXCEPT !.wants[role] = FALSE]
  IN  IF ~s.wants[role] THEN s
      ELSE [(IF role = Server THEN ServePhases(t) ELSE ClientRun(t))
              EXCEPT !.first = (role + 1) % 2]
\* Fault: nobody asks again for the one that was not served.
DispatchCanSend_NotAgain(s) ==
  With(Serve([s EXCEPT !.pending = FALSE], 0),
       LAMBDA t : IF s.wants[s.first] /\ ~CanSend(t) THEN t ELSE Serve(t, 1))
DispatchCanSend(s) ==
  With(With(Serve([s EXCEPT !.pending = FALSE], 0),
            LAMBDA t : IF s.wants[s.first] /\ ~CanSend(t) THEN t ELSE Serve(t, 1)),
       LAMBDA t : IF ~t.pending /\ \E r \in {Server, Client} : t.wants[r]
                  THEN [t EXCEPT !.pending = TRUE, !.channelWants = TRUE] ELSE t)

(* l2cap_notify_channel_can_send, for the fixed channel: while a packet can*)
(* be sent nobody asks again, so that each turn leaves one less to serve.  *)
Turn(s) ==
  IF s.channelWants /\ CanSend(s) THEN DispatchCanSend([s EXCEPT !.channelWants = FALSE]) ELSE s
Notify(s) == With(Turn(s), Turn)

(* att_dispatch_request_can_send_now_event                                 *)
DispatchRequest(s, role) == IF s.pending THEN Ask(s, role) ELSE With(Ask(s, role), Notify)
ClientRequest(s) == DispatchRequest(s, Client)
ServerRequest(s) == DispatchRequest(s, Server)

ReportIndication(s, what) ==
  [s EXCEPT !.reports[s.server.indication] = Append(@, what), !.server.timer = FALSE]

(* att_server_handle_att_pdu                                               *)
ServerPdu(s, p) ==
  CASE p.op = "CONFIRM" /\ s.server.indication # 0 ->
         ServerRequest([ReportIndication(s, "complete") EXCEPT !.server.indication = 0])
    [] p.op = "COMMAND" -> [s EXCEPT !.written = Append(@, [q |-> p.q, len |-> p.len])]
    [] OTHER ->
         IF s.server.state # "IDLE" THEN s
         ELSE ServerRequest([s EXCEPT !.server.state = "VALIDATED", !.server.request = p])

----------------------------------------------------------------------------
(* The steps of one device *)

Init == plan \in Plans /\ node = [n \in Nodes |-> InitialNode(n)] /\ faults = 0

Set(n, s) == node' = [node EXCEPT ![n] = s] /\ UNCHANGED plan
Quiet == \A n \in Nodes : ~node[n].busy /\ node[n].out = <<>>

(* A client asks: when no query is in work, when it may, or from a command.*)
(* The one that goes on in the handler asks here when it was not called.   *)
AskQuery(n) ==
  LET s == node[n]
      q == s.todo
      t == [Provide(s) EXCEPT !.todo = q + 1]
      mayCall == t.client.state = "READY"
  IN  /\ s.link # "down" /\ q \in DOMAIN Queries(n)
      /\ \/ /\ Query(s, q).kind = "command"
            /\ Set(n, ClientRequest([t EXCEPT !.client.commands = Append(@, q)]))
         \/ /\ Query(s, q).kind # "command" /\ Query(s, q).how = "queue"
            /\ Set(n, NotifyCanSendQuery([t EXCEPT !.client.queue = Append(@, q)]))
         \/ /\ Query(s, q).kind # "command" /\ Query(s, q).how # "queue" /\ mayCall
            /\ Query(s, q).how = "chain" => s.answers[q - 1] # <<>> \/ q - 1 \in s.dropped
            /\ Set(n, ClientRun(Begin(t, q)))
  /\ UNCHANGED faults

(* att_server_request_to_send_indication, ..._notification                 *)
AskUpdate(n) ==
  LET s == node[n]
      u == s.next
      t == [s EXCEPT !.next = u + 1]
  IN  /\ s.link # "down" /\ u \in DOMAIN Updates(n)
      /\ Set(n, ServerRequest(IF Updates(n)[u] = "ind"
                              THEN [t EXCEPT !.server.indications = Append(@, u)]
                              ELSE [t EXCEPT !.server.notifications = Append(@, u)]))
      /\ UNCHANGED faults

(* The packet buffer and a buffer of the controller are free: l2cap.c tells*)
(* the fixed channel, and gatt_client.c runs for every HCI event.          *)
PacketSent(n) ==
  /\ node[n].busy /\ Len(node[n].out) < AclBuffers
  /\ Set(n, ClientRun(Notify([node[n] EXCEPT !.busy = FALSE])))
  /\ UNCHANGED faults

(* att_dispatch_handle_att_pdu                                             *)
Requests == {"MTU_REQ", "READ_REQ", "BLOB_REQ", "FIND_REQ", "TYPE_REQ", "WRITE_REQ",
             "PREPARE_REQ", "EXECUTE_REQ"}
Dispatch(s, p) ==
  IF p.op \in Requests \cup {"COMMAND", "CONFIRM"} THEN ServerPdu(s, p) ELSE ClientPdu(s, p)
Receive(n) ==
  LET m == Peer(n)
  IN  /\ node[m].out # <<>>
      /\ node' = [node EXCEPT ![n] = Dispatch(node[n], Head(node[m].out)),
                              ![m].out = Tail(@)]
      /\ UNCHANGED <<plan, faults>>

May(fault) == fault \in Faults /\ faults < MaxFaults /\ faults' = faults + 1

(* gatt_client_timeout_handler: after 30 s, in which the rest has settled  *)
(* unless the answer is late.                                              *)
Timeout(n) ==
  LET s == [node[n] EXCEPT !.client.timer = FALSE]
  IN  /\ s.client.known /\ node[n].client.timer
      /\ \/ Quiet /\ UNCHANGED faults
         \/ ~Quiet /\ s.client.state # "READY" /\ May("late")
      /\ Set(n, IF s.client.state = "READY" THEN s
                ELSE Complete([s EXCEPT !.late = TRUE, !.doubtful = @ \cup {s.client.callback}],
                              "timeout"))

(* att_handle_value_indication_timeout                                     *)
IndicationTimeout(n) ==
  /\ node[n].server.timer
  /\ \/ Quiet /\ UNCHANGED faults
     \/ ~Quiet /\ May("silent")
  /\ Set(n, ReportIndication(node[n], "timeout"))

LinkLost ==
  /\ May("loss") /\ \A n \in Nodes : node[n].link = "up"
  /\ node' = [n \in Nodes |-> [node[n] EXCEPT !.link = "lost", !.out = <<>>]]
  /\ UNCHANGED plan

(* HCI_EVENT_DISCONNECTION_COMPLETE: att_server.c, gatt_client.c, and then *)
(* l2cap.c when hci.c has freed the connection.                            *)
Disconnected(n) ==
  LET s == [node[n] EXCEPT !.prepared = NothingPrepared,
                           !.server.state = "IDLE", !.server.request = NoPdu]
      t == IF s.server.indication = 0 THEN s
           ELSE [ReportIndication(s, "disconnect") EXCEPT !.server.indication = 0]
      u == IF t.client.known THEN ReportError(t, "disconnected") ELSE t
      unanswered == {q \in u.accepted : u.answers[q] = <<>>}
      queued == {u.client.queue[i] : i \in DOMAIN u.client.queue}
  IN  /\ node[n].link = "lost"
      /\ Set(n, Notify([u EXCEPT !.link = "down", !.client = NoContext, !.server = NewConnection,
                                 !.dropped = @ \cup unanswered \cup queued]))
      /\ UNCHANGED faults

Connected ==
  /\ \A n \in Nodes : node[n].link = "down"
  /\ node' = [n \in Nodes |-> ClientRun(Notify([node[n] EXCEPT !.link = "up", !.late = FALSE]))]
  /\ UNCHANGED <<plan, faults>>

Progress(n) ==
  PacketSent(n) \/ Receive(n) \/ Timeout(n) \/ IndicationTimeout(n) \/ Disconnected(n)
Next == (\E n \in Nodes : AskQuery(n) \/ AskUpdate(n) \/ Progress(n)) \/ LinkLost \/ Connected

Spec == Init /\ [][Next]_vars
(* What the controllers, the loop and its timers do when nobody asks goes  *)
(* on: weak fairness of Advance, with ENABLED <<Advance>>_vars written out,*)
(* as TLC evaluates it much faster.                                        *)
Advance ==
  \E n \in Nodes : \/ PacketSent(n) \/ Receive(n) \/ Disconnected(n)
                   \/ Quiet /\ (Timeout(n) \/ IndicationTimeout(n))
CanAdvance ==
  \E n \in Nodes :
    \/ node[n].busy /\ Len(node[n].out) < AclBuffers
    \/ node[Peer(n)].out # <<>> \/ node[n].link = "lost"
    \/ Quiet /\ (node[n].client.timer \/ node[n].server.timer)
FairSpec == Spec /\ ([]<>~CanAdvance \/ []<><<Advance>>_vars)

----------------------------------------------------------------------------
(* Properties *)

Responses == {"MTU_RSP", "READ_RSP", "BLOB_RSP", "FIND_RSP", "TYPE_RSP", "WRITE_RSP",
              "PREPARE_RSP", "EXECUTE_RSP", "ERROR"}
Ops == Requests \cup Responses \cup {"COMMAND", "CONFIRM", "IND", "NTF", "none"}
Codes == {"none", "offset", "denied", "unsupported"}
Statuses == Codes \cup {"success", "length", "mismatch", "timeout", "disconnected"}
Stages == {"read", "blob", "find", "write", "prepare", "reliable", "ccc", "cccWrite", "execute",
           "cancel"}
PduType == [op : Ops, q : Nat, off : Nat, len : Nat, code : Codes]
ClientType(p, n) ==
  [ known : BOOLEAN, state : {"READY", "SEND", "WAIT"}, stage : Stages \cup {"none"},
    callback : Nat, value : Nat, offset : Nat, length : Nat, from : Nat, mtu : Nat,
    mtuState : {"DISABLED", "SEND", "SENT", "EXCHANGED"}, confirm : BOOLEAN,
    queue : Seq(Nat), commands : Seq(1..Len(p[n].queries)), timer : BOOLEAN ]
ServerType ==
  [ state : {"IDLE", "VALIDATED"}, request : PduType, mtu : Nat, exchanged : BOOLEAN,
    indication : Nat, timer : BOOLEAN, indications : Seq(Nat), notifications : Seq(Nat) ]
ValueType == [q : Nat, len : Nat]
DeviceType(p, n) ==
  [ me : {n}, link : {"up", "lost", "down"}, busy : BOOLEAN, out : Seq(PduType),
    client : ClientType(p, n), server : ServerType,
    wants : [{Server, Client} -> BOOLEAN], pending : BOOLEAN, first : {Server, Client},
    channelWants : BOOLEAN,
    writeError : BOOLEAN, prepared : ValueType, written : Seq(ValueType),
    todo : 1..Len(p[n].queries) + 1, next : 1..Len(p[n].updates) + 1,
    accepted : SUBSET (1..Len(p[n].queries)), dropped : SUBSET (1..Len(p[n].queries)),
    answers : [1..Len(p[n].queries) -> Seq(Statuses)],
    got : [1..Len(p[n].queries) -> Int], heard : Seq(Nat),
    reports : [1..Len(p[n].updates) -> Seq({"complete", "timeout", "disconnect"})],
    late : BOOLEAN, doubtful : SUBSET (1..Len(p[n].queries)) ]

(* What a device is made of.                                               *)
TypeOK ==
  /\ plan \in Plans /\ faults \in 0..MaxFaults
  /\ DOMAIN node = Nodes /\ \A n \in Nodes : node[n] \in DeviceType(plan, n)

Pending(s) == {q \in s.accepted : s.answers[q] = <<>> /\ q \notin s.dropped}

(* A query that was accepted is answered once, to the handler it came with,*)
(* before the next begins (gatt_client_handle_transaction_complete).  After*)
(* a timeout an answer to the query that timed out may be taken for one.   *)
AnsweredOnce ==
  \A n \in Nodes :
    LET s == node[n]
    IN  /\ \A q \in DOMAIN s.answers \ s.doubtful :
             s.answers[q] # <<>> => Len(s.answers[q]) = 1 /\ q \in s.accepted
        /\ ~s.late =>
             Pending(s) = IF s.client.state = "READY" THEN {} ELSE {s.client.callback}

Applied(n, q) == {i \in DOMAIN node[Peer(n)].written : node[Peer(n)].written[i].q = q}
Length(n, q) == WriteLen[Queries(n)[q].kind]
Writes == {"write", "oversize", "denied", "longwrite", "reliable", "subscribe", "command"}

(* What is written is written whole and once: when the client hears of     *)
(* success it is, when it hears of an error of the protocol it is not; and *)
(* what is read long, or found, has no gap and misses nothing.             *)
Effective ==
  \A n \in Nodes : \A q \in DOMAIN Queries(n) :
    LET s == node[n]
        kind == Queries(n)[q].kind
        status == s.answers[q]
    IN  q \notin s.doubtful =>
          /\ kind \in Writes =>
               /\ \A i \in Applied(n, q) : node[Peer(n)].written[i].len = Length(n, q)
               /\ \A i, j \in Applied(n, q) : i = j
               /\ status = <<"success">> => Applied(n, q) # {}
               /\ status \in {<<"length">>, <<"denied">>, <<"offset">>, <<"mismatch">>} =>
                    Applied(n, q) = {}
          /\ status = <<"success">> =>
               /\ kind = "long" => s.got[q] = ValueLen
               /\ kind = "find" => s.got[q] = Handles

Count(seq, S) == Cardinality({k \in DOMAIN seq : seq[k].op \in S})
Outstanding(n) ==
  LET s == node[n]  m == node[Peer(n)]
  IN  Count(s.out, Requests) + Count(m.out, Responses) + IF m.server.state = "IDLE" THEN 0 ELSE 1

(* One request at a time, the exchange of the MTU included: the next goes  *)
(* out when the last was answered, so the server never has to drop one.    *)
OneTransaction ==
  \A n \in Nodes :
    LET s == node[n]
    IN  s.link = "up" /\ ~s.late =>
          Outstanding(n) = IF s.client.state = "WAIT" \/ s.client.mtuState = "SENT" THEN 1 ELSE 0

Unconfirmed(n) ==
  LET s == node[n]  m == node[Peer(n)]
  IN  Count(s.out, {"IND"}) + Count(m.out, {"CONFIRM"}) + IF m.client.confirm THEN 1 ELSE 0

(* One indication at a time, until it is confirmed; the sender hears of    *)
(* each once, and of one that timed out once more, at last; none is said to*)
(* be complete that the peer has not heard.                                *)
IndicationOnce ==
  \A n \in Nodes :
    /\ node[n].link = "up" => Unconfirmed(n) = IF node[n].server.indication = 0 THEN 0 ELSE 1
    /\ \A u \in DOMAIN Updates(n) :
         LET r == node[n].reports[u]
         IN  /\ Len(r) < 2 \/ (Len(r) = 2 /\ r[1] = "timeout" /\ r[2] # "timeout")
             /\ \A i \in DOMAIN r :
                  r[i] = "complete" =>
                    \E k \in DOMAIN node[Peer(n)].heard : node[Peer(n)].heard[k] = u

(* When all PDUs have arrived, client and server of both devices work with *)
(* one MTU.                                                                *)
Mtus(s) == {s.server.mtu} \cup IF s.client.known THEN {s.client.mtu} ELSE {}
MtuAgreed ==
  Quiet /\ (\A n \in Nodes : node[n].link = "up") =>
    \A n, m \in Nodes : \A a \in Mtus(node[n]), b \in Mtus(node[m]) : a = b

(* Whoever asked is served: a query is answered or dropped with its link,  *)
(* an indication is reported, and nothing waits in a server.  A command    *)
(* that waits behind a write refused for its length is left: gatt_client.c *)
(* has used up its turn and asks for no other.                             *)
Idle(s) ==
  /\ Pending(s) = {} /\ s.client.queue = <<>>
  /\ s.client.commands = <<>> \/ \E q \in s.accepted : s.answers[q] = <<"length">>
  /\ s.server.state = "IDLE" /\ s.server.notifications = <<>>
  /\ s.server.indications # <<>> => s.server.indication # 0 /\ ~s.server.timer
Served == \A n \in Nodes : <>[](Idle(node[n]))
=============================================================================

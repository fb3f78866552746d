------------------------------ MODULE HciFlow ------------------------------
(***************************************************************************)
(* The outgoing half of src/src/hci.c: one packet buffer shared by HCI     *)
(* commands and fragmented ACL packets, one command credit, the ACL        *)
(* buffers of the controller counted per connection, and the power states  *)
(* that reset all of them.  The H4 transport accepts one packet at a time  *)
(* and reports HCI_EVENT_TRANSPORT_PACKET_SENT when it is out.             *)
(*                                                                         *)
(* The host state is one record, host; every handler of hci.c is a         *)
(* function from a host record to the set of host records it can leave     *)
(* behind, because each of them ends in hci_run().  The controller (the    *)
(* record ctl) is the environment: it takes packets, completes them and    *)
(* answers commands whenever it likes.                                     *)
(***************************************************************************)
EXTENDS Integers, Sequences

CONSTANTS
  H1, H2,        \* the connection handles (MAX_NR_HCI_CONNECTIONS is 2)
  LeHandles,     \* those of them that are LE links
  AclTotal,      \* acl_packets_total_num
  LeTotal,       \* le_acl_packets_total_num; 0 if LE shares the classic pool
  MaxFragments,  \* ACL fragments an L2CAP packet may need
  MaxPowerOff,   \* how often the application calls hci_power_control(OFF)
  WarmStart      \* may it call hci_power_control(ON) while halting?

Handle == {H1, H2}
Commands == {"reset", "init", "stop", "gap"}
Op == Commands \cup Handle       \* the handle h stands for HCI_Disconnect(h)

ASSUME HandleAssumption ==
  H1 # H2 /\ LeHandles \subseteq Handle /\ Handle \cap (Commands \cup {"cmd"}) = {}
ASSUME TotalAssumption ==
  AclTotal \in Nat \ {0} /\ LeTotal \in Nat /\ MaxFragments \in Nat \ {0}
ASSUME PowerAssumption == MaxPowerOff \in Nat /\ WarmStart \in BOOLEAN

VARIABLES
  host,      \* hci_stack and the tx state of the transport
  ctl,       \* the controller and the events it has under way
  warm,      \* history: this session began without a power cycle
  powerOffs  \* bounds hci_power_control(OFF)

vars == <<host, ctl, warm, powerOffs>>

PowerStates == {"OFF", "INITIALIZING", "WORKING", "HALTING"}
Substates == {"SEND_RESET", "W4_RESET", "SEND_INIT", "W4_INIT", "DONE",
              "STOP", "DISCONNECT_ALL", "W4_CLOSE_TIMER"}
ConStates == {"NONE", "OPEN", "SEND_DISCONNECT", "SENT_DISCONNECT",
              "RECEIVED_DISCONNECTION_COMPLETE"}

(* What the transport is sending.  Start is the packet boundary flag of    *)
(* the first fragment; a fragment with more set is not the last one.       *)
TxState(kind, what, start, more) ==
  [kind |-> kind, what |-> what, start |-> start, more |-> more]
TxType ==
  {x \in [kind : {"off", "idle", "cmd", "acl"}, what : Op, start : BOOLEAN, more : BOOLEAN] :
     x.kind = "acl" => x.what \in Handle}
TxOff  == TxState("off", "reset", FALSE, FALSE)
TxIdle == TxState("idle", "reset", FALSE, FALSE)

HostType ==
  [ state    : PowerStates,
    sub      : Substates,
    reserved : BOOLEAN,                \* hci_packet_buffer_reserved
    credit   : 0..1,                   \* num_cmd_packets
    last     : Op,                     \* last_cmd_opcode
    buf      : Handle \cup {"cmd"},    \* READ_ACL_CONNECTION_HANDLE(buffer)
    frags    : 0..MaxFragments,        \* fragments not yet handed over
    active   : BOOLEAN,                \* acl_fragmentation_tx_active
    conn     : [Handle -> ConStates],
    sent     : [Handle -> Nat],        \* num_packets_sent
    gap      : BOOLEAN,                \* some GAP command is pending
    timer    : BOOLEAN,                \* hci_stack->timeout is armed
    tx       : TxType ]

CtlType ==
  [ link    : [Handle -> BOOLEAN],     \* the link exists
    held    : [Handle -> Nat],         \* ACL packets it has not completed
    partial : [Handle -> BOOLEAN],     \* an L2CAP packet lacks fragments
    closing : SUBSET Handle,           \* accepted HCI_Disconnect
    up      : SUBSET Handle,           \* connection complete under way
    down    : SUBSET Handle,           \* disconnection complete under way
    cmdq    : Seq(Op),                 \* commands not yet completed
    owes    : BOOLEAN,                 \* last reply granted no credit
    open    : BOOLEAN ]                \* initialised, accepts links

FreshCtl ==
  [ link |-> [h \in Handle |-> FALSE], held |-> [h \in Handle |-> 0],
    partial |-> [h \in Handle |-> FALSE], closing |-> {}, up |-> {}, down |-> {},
    cmdq |-> <<>>, owes |-> FALSE, open |-> FALSE ]

(* hci_init: nothing is known, the transport is closed.                    *)
InitialHost ==
  [ state |-> "OFF", sub |-> "SEND_RESET", reserved |-> FALSE, credit |-> 0,
    last |-> "reset", buf |-> "cmd", frags |-> 0, active |-> FALSE,
    conn |-> [h \in Handle |-> "NONE"], sent |-> [h \in Handle |-> 0],
    gap |-> FALSE, timer |-> FALSE, tx |-> TxOff ]

----------------------------------------------------------------------------
(* Credits of the controller *)

(* Packets of the links in S that the host has sent and the controller has *)
(* not reported as completed.                                              *)
Outstanding(count, S) ==
  (IF H1 \in S THEN count[H1] ELSE 0) + (IF H2 \in S THEN count[H2] ELSE 0)

FreeClassic(count) ==
  AclTotal - Outstanding(count, IF LeTotal = 0 THEN Handle ELSE Handle \ LeHandles)
FreeLe(count) == LeTotal - Outstanding(count, LeHandles)

FreeSlots(count, h) ==
  IF h \in LeHandles /\ LeTotal > 0 THEN FreeLe(count) ELSE FreeClassic(count)

CanSendCommand(s) == ~s.reserved /\ s.tx.kind = "idle" /\ s.credit > 0

\* Fault: a continuation fragment is sent without a free buffer.
CanSendPreparedAcl_Full(s, h) == s.tx.kind = "idle" /\ s.conn[h] # "NONE"

CanSendPreparedAcl(s, h) ==
  s.tx.kind = "idle" /\ s.conn[h] # "NONE" /\ FreeSlots(s.sent, h) > 0

----------------------------------------------------------------------------
(* Sending *)

SendCommand(s, op) ==
  [s EXCEPT !.reserved = TRUE, !.buf = "cmd", !.last = op, !.credit = @ - 1,
            !.tx = TxState("cmd", op, FALSE, FALSE)]

\* Fault: the packet boundary flag of a continuation is not updated.
SendFragment_Start(s, h, first) ==
  [s EXCEPT !.sent[h] = @ + 1, !.frags = @ - 1, !.active = TRUE,
            !.tx = TxState("acl", h, TRUE, s.frags > 1)]

(* Hands the next of s.frags fragments to the transport.                   *)
SendFragment(s, h, first) ==
  [s EXCEPT !.sent[h] = @ + 1, !.frags = @ - 1, !.active = TRUE,
            !.tx = TxState("acl", h, first, s.frags > 1)]

(* A client reserves the buffer, fills it for h and sends it in one go.    *)
SendAclPacket(s, h, n) ==
  SendFragment([s EXCEPT !.reserved = TRUE, !.buf = h, !.frags = n], h, TRUE)

AclPackets(s) ==
  { SendAclPacket(s, h, n) :
      h \in {g \in Handle : ~s.reserved /\ CanSendPreparedAcl(s, g)},
      n \in 1..MaxFragments }

(* A client sends an HCI command itself; all of them wait for WORKING.     *)
ClientCommands(s) ==
  {SendCommand(t, "gap") : t \in {u \in {s} : u.state = "WORKING" /\ CanSendCommand(u)}}

(* An event is first shown to the upper layers, which may send a packet.   *)
Emit(s) == {s} \cup AclPackets(s) \cup ClientCommands(s)

----------------------------------------------------------------------------
(* hci_run *)

Disconnect(s, h) ==
  SendCommand([s EXCEPT !.conn[h] = "SENT_DISCONNECT"], h)

PendingCommands(s) ==
  LET wanted == {h \in Handle : s.conn[h] = "SEND_DISCONNECT"}
  IN  IF ~CanSendCommand(s) THEN {s}
      ELSE IF s.gap THEN {SendCommand([s EXCEPT !.gap = FALSE], "gap")}
      ELSE IF wanted # {} THEN {Disconnect(s, h) : h \in wanted}
      ELSE {s}

(* Continuation fragments come first as they block the buffer; they are    *)
(* discarded if the connection is gone.                                    *)
RunWorking(s) ==
  IF s.frags = 0 THEN PendingCommands(s)
  ELSE IF s.buf = "cmd" \/ s.conn[s.buf] = "NONE" THEN PendingCommands([s EXCEPT !.frags = 0])
  ELSE IF CanSendPreparedAcl(s, s.buf) THEN {SendFragment(s, s.buf, FALSE)}
  ELSE PendingCommands(s)

(* hci_state_reset: the connections are forgotten, the buffer is free and  *)
(* the GAP settings are to be sent again.                                  *)
StateReset(s) ==
  [s EXCEPT !.reserved = FALSE, !.conn = [h \in Handle |-> "NONE"],
            !.sent = [h \in Handle |-> 0], !.gap = TRUE]

(* hci_init_done                                                           *)
InitDone(s) == UNION {RunWorking(t) : t \in Emit([s EXCEPT !.state = "WORKING"])}

(* The script between HCI_Reset and HCI_INIT_DONE is one command here;     *)
(* module HciInit has all of it.                                           *)
RunInitializing(s) ==
  IF ~CanSendCommand(s) THEN {s}
  ELSE CASE s.sub = "SEND_RESET" ->
              {SendCommand([StateReset(s) EXCEPT !.sub = "W4_RESET"], "reset")}
         [] s.sub = "SEND_INIT" -> {SendCommand([s EXCEPT !.sub = "W4_INIT"], "init")}
         [] s.sub = "DONE" /\ s.gap -> {SendCommand([s EXCEPT !.gap = FALSE], "gap")}
         [] s.sub = "DONE" /\ ~s.gap -> InitDone(s)
         [] OTHER -> {s}

(* Any connection may be the head of the list; one that is already being   *)
(* disconnected is waited for.  With none left the 50 ms timer replaces    *)
(* the watchdog.                                                           *)
DisconnectAll(s) ==
  LET listed == {h \in Handle : s.conn[h] # "NONE"}
      going == {h \in listed : s.conn[h] \in
                  {"SENT_DISCONNECT", "RECEIVED_DISCONNECTION_COMPLETE"}}
  IN  IF listed = {} THEN {[s EXCEPT !.sub = "W4_CLOSE_TIMER", !.timer = TRUE]}
      ELSE {Disconnect(s, h) : h \in listed \ going}
           \cup (IF going # {} THEN {s} ELSE {})

(* Scan and advertising are stopped with at most one "stop" here.          *)
RunHalting(s) ==
  IF ~CanSendCommand(s) THEN {s}
  ELSE CASE s.sub = "STOP" ->
              LET t == [s EXCEPT !.sub = "DISCONNECT_ALL"]
              IN  {SendCommand(t, "stop")} \cup DisconnectAll(t)
         [] s.sub = "DISCONNECT_ALL" -> DisconnectAll(s)
         [] OTHER -> {s}

Run(s) ==
  CASE s.state = "WORKING" -> RunWorking(s)
    [] s.state = "INITIALIZING" -> RunInitializing(s)
    [] s.state = "HALTING" -> RunHalting(s)
    [] OTHER -> {s}

EmitAndRun(s) == UNION {Run(t) : t \in Emit(s)}

----------------------------------------------------------------------------
(* Power *)

EnterInitializing(s) ==
  [s EXCEPT !.state = "INITIALIZING", !.sub = "SEND_RESET", !.credit = 1,
            !.reserved = FALSE]

(* hci_power_control_off closes the transport; the connections, the buffer *)
(* and the fragments stay as they are.                                     *)
TransportOff(s) == [s EXCEPT !.state = "OFF", !.tx = TxOff, !.timer = FALSE]

(* hci_discard_connections                                                 *)
DiscardConnections(s) ==
  [s EXCEPT !.conn = [h \in Handle |-> "NONE"], !.sent = [h \in Handle |-> 0]]

PowerOnFrom(s) ==
  CASE s.state = "OFF" -> EnterInitializing([s EXCEPT !.tx = TxIdle])
    [] s.state = "HALTING" -> EnterInitializing(s)
    [] OTHER -> s

PowerOffFrom(s) ==
  CASE s.state = "INITIALIZING" -> TransportOff(s)
    [] s.state = "WORKING" -> [s EXCEPT !.state = "HALTING", !.sub = "STOP", !.timer = TRUE]
    [] OTHER -> s

----------------------------------------------------------------------------
(* Actions of the application *)

Init ==
  /\ host = InitialHost
  /\ ctl = FreshCtl
  /\ warm = FALSE
  /\ powerOffs = 0

(* hci_power_control first removes the timer, whatever it does then.       *)
Disarm(s) == [s EXCEPT !.timer = FALSE]

(* hci_power_control(HCI_POWER_ON); only OFF and HALTING react to it.      *)
PowerOn ==
  /\ host.state = "HALTING" => WarmStart
  /\ host' \in EmitAndRun(PowerOnFrom(Disarm(host)))
  /\ warm' = (warm \/ host.state = "HALTING")
  /\ UNCHANGED <<ctl, powerOffs>>

(* hci_power_control(HCI_POWER_OFF).  Without power the controller forgets *)
(* everything.                                                             *)
PowerOff ==
  /\ powerOffs < MaxPowerOff
  /\ powerOffs' = powerOffs + 1
  /\ host' \in EmitAndRun(PowerOffFrom(Disarm(host)))
  /\ IF host'.state = "OFF" THEN ctl' = FreshCtl /\ warm' = FALSE
                            ELSE UNCHANGED <<ctl, warm>>

(* hci_halting_timeout_handler: the watchdog, or the short wait at the end *)
(* of the shutdown.  The upper layers see a disconnect for each connection *)
(* left.                                                                   *)
HaltingTimeout ==
  /\ host.state = "HALTING" /\ host.timer
  /\ host' \in {TransportOff(DiscardConnections(t)) : t \in Emit(host)}
  /\ ctl' = FreshCtl
  /\ warm' = FALSE
  /\ UNCHANGED powerOffs

(* An upper layer sends a packet or a command from a timer or from the     *)
(* application.                                                            *)
ClientSend ==
  /\ host' \in AclPackets(host) \cup ClientCommands(host)
  /\ UNCHANGED <<ctl, warm, powerOffs>>

(* gap_disconnect *)
GapDisconnect(h) ==
  /\ host.conn[h] = "OPEN"
  /\ host' \in Run([host EXCEPT !.conn[h] = "SEND_DISCONNECT"])
  /\ UNCHANGED <<ctl, warm, powerOffs>>

(* Any other GAP function that leaves a command for hci_run.  A request    *)
(* made earlier is one of those StateReset leaves.                         *)
GapRequest ==
  /\ host.state = "WORKING" /\ ~host.gap
  /\ host' \in Run([host EXCEPT !.gap = TRUE])
  /\ UNCHANGED <<ctl, warm, powerOffs>>

----------------------------------------------------------------------------
(* Transport *)

(* The controller takes the packet.  ACL data for a link that is gone is   *)
(* dropped.                                                                *)
Take(c, tx) ==
  CASE tx.kind = "cmd" -> [c EXCEPT !.cmdq = Append(@, tx.what)]
    [] tx.kind = "acl" /\ c.link[tx.what] ->
         [c EXCEPT !.held[tx.what] = @ + 1, !.partial[tx.what] = tx.more]
    [] OTHER -> c

\* Fault: the buffer is released although fragments are left.
TransportPacketSent_Release ==
  /\ host.tx.kind \in {"cmd", "acl"}
  /\ ctl' = Take(ctl, host.tx)
  /\ host' \in EmitAndRun([host EXCEPT !.tx = TxIdle, !.active = FALSE, !.reserved = FALSE])
  /\ UNCHANGED <<warm, powerOffs>>

(* HCI_EVENT_TRANSPORT_PACKET_SENT; the last byte is out before the        *)
(* controller can react to it.                                             *)
TransportPacketSent ==
  /\ host.tx.kind \in {"cmd", "acl"}
  /\ ctl' = Take(ctl, host.tx)
  /\ host' \in EmitAndRun([host EXCEPT !.tx = TxIdle, !.active = FALSE,
                                       !.reserved = @ /\ host.frags > 0])
  /\ UNCHANGED <<warm, powerOffs>>

----------------------------------------------------------------------------
(* Events of the controller *)

\* Fault: all packets of the connection count as completed.
Completed_All(s, h, n) == [s EXCEPT !.sent[h] = 0]

\* Fault: the last packet is never counted as completed.
Completed_Leak(s, h, n) == [s EXCEPT !.sent[h] = IF @ > n THEN @ - n ELSE @]

(* HCI_EVENT_NUMBER_OF_COMPLETED_PACKETS *)
Completed(s, h, n) ==
  IF s.conn[h] = "NONE" THEN s
  ELSE [s EXCEPT !.sent[h] = IF @ >= n THEN @ - n ELSE 0]

NumberOfCompletedPackets(h, n) ==
  /\ n <= ctl.held[h]
  /\ ctl' = [ctl EXCEPT !.held[h] = @ - n]
  /\ host' \in EmitAndRun(Completed(host, h, n))
  /\ UNCHANGED <<warm, powerOffs>>

(* The commands that lead to a link are sent in WORKING only; a warm start *)
(* inherits them.  A handle is not given to a new link while a packet for  *)
(* its last one is still on the wire.                                      *)
LinkUp(h) ==
  /\ host.state \in {"WORKING", "HALTING"} \/ warm
  /\ ctl.open /\ ~ctl.link[h] /\ h \notin ctl.up \cup ctl.down
  /\ ~(host.tx.kind = "acl" /\ host.tx.what = h)
  /\ ctl' = [ctl EXCEPT !.link[h] = TRUE, !.up = @ \cup {h}]
  /\ UNCHANGED <<host, warm, powerOffs>>

(* HCI_EVENT_CONNECTION_COMPLETE and its LE counterpart                    *)
ConnectionComplete(h) ==
  /\ h \in ctl.up
  /\ ctl' = [ctl EXCEPT !.up = @ \ {h}]
  /\ host' \in EmitAndRun(
       [host EXCEPT !.conn[h] = "OPEN",
                    !.sent[h] = IF host.conn[h] = "NONE" THEN 0 ELSE @])
  /\ UNCHANGED <<warm, powerOffs>>

(* The link ends, on request or not; its packets are flushed.              *)
LinkDown(h) ==
  /\ ctl.link[h] /\ h \notin ctl.up
  /\ ctl' = [ctl EXCEPT !.link[h] = FALSE, !.held[h] = 0, !.partial[h] = FALSE,
                        !.closing = @ \ {h}, !.down = @ \cup {h}]
  /\ UNCHANGED <<host, warm, powerOffs>>

\* Fault: fragments are dropped whichever connection closed.
DropFragments_Any(s, h) ==
  IF s.frags > 0 THEN [s EXCEPT !.frags = 0, !.reserved = @ /\ s.active] ELSE s

(* Fragments for the closed connection are dropped, and the buffer with    *)
(* them unless the transport still sends from it.                          *)
DropFragments(s, h) ==
  IF s.frags > 0 /\ s.buf = h
  THEN [s EXCEPT !.frags = 0, !.reserved = @ /\ s.active]
  ELSE s

Disconnected(s, h) ==
  IF s.conn[h] = "NONE" THEN s
  ELSE [s EXCEPT !.conn[h] = "RECEIVED_DISCONNECTION_COMPLETE", !.sent[h] = 0]

\* Fault: the connection stays in the list.
ShutdownConnection_Kept(s, h) == s

ShutdownConnection(s, h) == [s EXCEPT !.conn[h] = "NONE", !.sent[h] = 0]

(* HCI_EVENT_DISCONNECTION_COMPLETE: the upper layers see the event while  *)
(* the connection still exists.                                            *)
DisconnectionComplete(h) ==
  /\ h \in ctl.down
  /\ ctl' = [ctl EXCEPT !.down = @ \ {h}]
  /\ host' \in UNION {Run(ShutdownConnection(t, h)) :
                        t \in Emit(Disconnected(DropFragments(host, h), h))}
  /\ UNCHANGED <<warm, powerOffs>>

(* What a completed command changes in the controller.                     *)
Execute(c, op) ==
  CASE op = "reset" -> [FreshCtl EXCEPT !.cmdq = c.cmdq]
    [] op = "init" -> [c EXCEPT !.open = TRUE]
    [] op \in Handle /\ c.link[op] -> [c EXCEPT !.closing = @ \cup {op}]
    [] OTHER -> c

(* hci_initializing_event_handler                                          *)
InitializingReply(s, op) ==
  IF s.state # "INITIALIZING" \/ op # s.last THEN s
  ELSE CASE s.sub \in {"SEND_RESET", "W4_RESET"} -> [s EXCEPT !.sub = "SEND_INIT"]
         [] s.sub = "W4_INIT" -> [s EXCEPT !.sub = "DONE"]
         [] OTHER -> s

(* HCI_EVENT_COMMAND_COMPLETE or _STATUS with Num_HCI_Command_Packets n.   *)
(* Events sent before HCI_Reset was executed arrive before its reply.      *)
CommandReply(n) ==
  /\ ctl.cmdq # <<>>
  /\ LET op == Head(ctl.cmdq)
         c == [ctl EXCEPT !.cmdq = Tail(@)]
     IN  /\ op = "reset" => ctl.up \cup ctl.down = {}
         /\ n > 0 => c.cmdq = <<>>
         /\ ctl' = [Execute(c, op) EXCEPT !.owes = (n = 0)]
         /\ host' \in EmitAndRun(InitializingReply([host EXCEPT !.credit = n], op))
  /\ UNCHANGED <<warm, powerOffs>>

\* Fault: the handler returns before hci_run.
CreditGrant_NoRun ==
  /\ ctl.owes /\ ctl.cmdq = <<>>
  /\ ctl' = [ctl EXCEPT !.owes = FALSE]
  /\ host' \in Emit([host EXCEPT !.credit = 1])
  /\ UNCHANGED <<warm, powerOffs>>

(* The credit a reply withheld comes with a command complete for no        *)
(* command.                                                                *)
CreditGrant ==
  /\ ctl.owes /\ ctl.cmdq = <<>>
  /\ ctl' = [ctl EXCEPT !.owes = FALSE]
  /\ host' \in EmitAndRun([host EXCEPT !.credit = 1])
  /\ UNCHANGED <<warm, powerOffs>>

Reply == \E n \in 0..1 : CommandReply(n)
Complete(h) == \E n \in 1..(AclTotal + LeTotal) : NumberOfCompletedPackets(h, n)

Next ==
  \/ PowerOn
  \/ PowerOff
  \/ HaltingTimeout
  \/ ClientSend
  \/ GapRequest
  \/ TransportPacketSent
  \/ Reply
  \/ CreditGrant
  \/ \E h \in Handle :
       \/ GapDisconnect(h)
       \/ Complete(h)
       \/ LinkUp(h)
       \/ ConnectionComplete(h)
       \/ LinkDown(h)
       \/ DisconnectionComplete(h)

Spec == Init /\ [][Next]_vars

----------------------------------------------------------------------------
(* Fairness *)

(* The transport sends what it accepted and the controller answers.        *)
ControllerFairness ==
  /\ WF_vars(TransportPacketSent)
  /\ WF_vars(Reply)
  /\ WF_vars(CreditGrant)
  /\ \A h \in Handle :
       /\ WF_vars(Complete(h))
       /\ WF_vars(ConnectionComplete(h))
       /\ WF_vars(DisconnectionComplete(h))
       /\ WF_vars(h \in ctl.closing /\ LinkDown(h))

(* The short timer at the end of the shutdown, which is not the watchdog.  *)
CloseTimer == host.sub = "W4_CLOSE_TIMER" /\ HaltingTimeout

FairSpec == Spec /\ ControllerFairness /\ WF_vars(CloseTimer)

(* With the run loop the watchdog expires as well.                         *)
TimerFairSpec == Spec /\ ControllerFairness /\ WF_vars(HaltingTimeout)

----------------------------------------------------------------------------
(* Safety *)

(* What the host and the controller records are made of.                   *)
TypeOK ==
  /\ host \in HostType
  /\ ctl \in CtlType
  /\ warm \in BOOLEAN
  /\ powerOffs \in Nat

(* The controller never holds more ACL packets than it has buffers, LE     *)
(* packets in classic buffers included (hci_can_send_prepared_acl_packet_  *)
(* now), as long as the session began with a power cycle.                  *)
NeverOverrun ==
  ~warm => IF LeTotal = 0 THEN Outstanding(ctl.held, Handle) <= AclTotal
           ELSE /\ Outstanding(ctl.held, LeHandles) <= LeTotal
                /\ Outstanding(ctl.held, Handle \ LeHandles) <= AclTotal

(* hci_number_free_acl_slots_for_connection_type never meets a negative    *)
(* number of free slots, which it asserts (src/src/hci.c:675-687).         *)
SlotAssertsHold ==
  FreeClassic(host.sent) >= 0 /\ (LeTotal > 0 => FreeLe(host.sent) >= 0)

(* The controller can rely on the packet boundary flags: no L2CAP packet   *)
(* starts on a link while another is unfinished, and none continues that   *)
(* did not start.                                                          *)
FragmentsInOrder ==
  ~warm /\ host.tx.kind = "acl" /\ ctl.link[host.tx.what]
    => host.tx.start = ~ctl.partial[host.tx.what]

(* The host never has two commands outstanding that it knows of, so it     *)
(* waits for Num_HCI_Command_Packets before it sends the next.             *)
OneCommand ==
  ~warm => Len(ctl.cmdq) + host.credit + (IF host.tx.kind = "cmd" THEN 1 ELSE 0) <= 1

(* The buffer is not free while the transport still sends from it or       *)
(* while WORKING has fragments in it to send.                              *)
BufferHeld ==
  ~warm => /\ host.tx.kind \in {"cmd", "acl"} => host.reserved
           /\ host.state \in {"WORKING", "HALTING"} /\ host.frags > 0 => host.reserved

(* The handler of a disconnect releases the buffer only if it is reserved, *)
(* which hci_release_packet_buffer asserts (src/src/hci.c:881).            *)
ReleaseAssertHolds ==
  \A h \in Handle :
    h \in ctl.down /\ host.frags > 0 /\ host.buf = h /\ ~host.active => host.reserved

(* What L2CAP sends goes out completely or ends with its link: while       *)
(* fragments are left they stay in the buffer, whatever a client, a GAP    *)
(* command or the shutdown would like to send.                             *)
NoPacketCutShort ==
  [][ /\ host.frags > 0
      /\ {host.state, host'.state} \subseteq {"WORKING", "HALTING"}
      => \/ host'.buf = host.buf /\ host'.frags \in {host.frags, host.frags - 1}
         \/ host'.conn[host.buf] = "NONE" ]_vars

----------------------------------------------------------------------------
(* Liveness *)

(* A client or a GAP function occupies the buffer once more, or a device   *)
(* connects.                                                               *)
NewWork ==
  \/ /\ host'.tx # host.tx
     /\ \/ host'.tx.kind = "acl" /\ host'.tx.start
        \/ host'.tx.kind = "cmd" /\ host'.tx.what = "gap"
  \/ ctl'.up \ ctl.up # {}

(* The fragments of a packet reach the controller or their link ends.      *)
Stuck(h) == host.state = "WORKING" /\ host.frags > 0 /\ host.buf = h
FragmentsDrain == \A h \in Handle : Stuck(h) ~> ~Stuck(h)

(* A disconnect that was asked for is sent, unless clients keep the buffer *)
(* or the command credit to themselves for ever.                           *)
Requested(h) == host.state = "WORKING" /\ host.conn[h] = "SEND_DISCONNECT"
DisconnectIsSent ==
  []<><<NewWork>>_vars \/ \A h \in Handle : Requested(h) ~> ~Requested(h)

(* Power on leads to WORKING, or somebody turns it off again: the host can *)
(* send the commands of the start-up (hci_power_enter_initializing_state). *)
InitializationEnds ==
  \/ []<><<NewWork>>_vars
  \/ host.state = "INITIALIZING" ~> host.state # "INITIALIZING"

(* With a controller that answers, hci_halting_run finds all connections   *)
(* closed without the watchdog of hci_power_enter_halting_state, unless    *)
(* fragments are left: they keep the buffer and nobody sends them.         *)
ShutdownProceeds ==
  \/ []<><<NewWork>>_vars
  \/ host.state = "HALTING"
       ~> host.state # "HALTING" \/ host.sub = "W4_CLOSE_TIMER" \/ host.frags > 0

(* hci_power_control(HCI_POWER_OFF) while WORKING ends in OFF, or in a     *)
(* restart, at the latest when the watchdog expires.                       *)
ShutdownEnds ==
  \/ []<><<NewWork>>_vars
  \/ host.state = "HALTING" ~> host.state # "HALTING"
=============================================================================

--------------------------- MODULE HciFlowProofs ---------------------------
(***************************************************************************)
(* Proofs about HciFlow for any number of controller buffers, fragments    *)
(* and restarts.  Inv is the inductive invariant.  HostOK is about the     *)
(* host alone; Counted, Linked, Credit and Reserved, called the            *)
(* bookkeeping below, hold in a session that began with a power cycle.     *)
(* OrderInv adds to it what the order of the fragments rests on.           *)
(***************************************************************************)
EXTENDS HciFlow, TLAPS

(* What holds of the host in every session: no negative number of free     *)
(* slots, no packets counted for a connection that is gone, and a closed   *)
(* transport while the power is off.                                       *)
SlotsOK(s) == FreeClassic(s.sent) >= 0 /\ (LeTotal > 0 => FreeLe(s.sent) >= 0)
Forgotten(s) == \A h \in Handle : s.conn[h] = "NONE" => s.sent[h] = 0
HostOK(s) ==
  /\ s \in HostType /\ SlotsOK(s) /\ Forgotten(s)
  /\ s.state = "OFF" => s.tx.kind = "off"

(* A fragment for h is on its way, anything is, and HCI_Reset is not sent. *)
InTx(s, h) == s.tx.kind = "acl" /\ s.tx.what = h
Busy(s) == s.tx.kind \in {"cmd", "acl"}
Resetting(s) == s.state = "INITIALIZING" /\ s.sub = "SEND_RESET"

(* The host counts every packet the controller has or is about to get.     *)
Counted(s, c) ==
  \A h \in Handle : c.held[h] + (IF InTx(s, h) /\ c.link[h] THEN 1 ELSE 0) <= s.sent[h]

(* Links exist in WORKING and HALTING only, and packets only on links.     *)
Linked(s, c) ==
  /\ \A h \in Handle : ~c.link[h] => c.held[h] = 0
  /\ \A h \in c.down : ~c.link[h]
  /\ s.state \in {"OFF", "INITIALIZING"} => \A h \in Handle : ~c.link[h]

(* There is one command credit, and it is in one place.  No command is     *)
(* under way before HCI_Reset is sent.                                     *)
Credit(s, c) ==
  /\ Len(c.cmdq) + s.credit + (IF s.tx.kind = "cmd" THEN 1 ELSE 0)
       + (IF c.owes THEN 1 ELSE 0) <= 1
  /\ s.state = "OFF" => c.cmdq = <<>> /\ ~c.owes
  /\ Resetting(s) => c.cmdq = <<>> /\ s.tx.kind # "cmd"

(* The buffer is reserved while something in it has to be sent.            *)
Reserved(s) ==
  /\ Busy(s) => s.reserved
  /\ s.frags > 0 /\ s.state # "OFF" /\ ~Resetting(s) => s.reserved
  /\ s.tx.kind = "acl" => s.active
  /\ s.tx.kind = "cmd" => s.buf = "cmd"

(* Good is what every handler preserves; SendCommand restores Reserved.    *)
Almost(s, c, w) == HostOK(s) /\ (~w => Counted(s, c) /\ Linked(s, c) /\ Credit(s, c))
Good(s, c, w) == Almost(s, c, w) /\ (~w => Reserved(s))

Inv ==
  /\ Good(host, ctl, warm)
  /\ ctl \in CtlType
  /\ warm \in BOOLEAN
  /\ powerOffs \in Nat

----------------------------------------------------------------------------
(* Sending *)

(* The transport is always in a state of its type.                         *)
LEMMA TxStateType ==
  ASSUME NEW k \in {"off", "idle", "cmd", "acl"}, NEW op \in Op,
         k = "acl" => op \in Handle,
         NEW start \in BOOLEAN, NEW more \in BOOLEAN
  PROVE  /\ TxState(k, op, start, more) \in TxType
         /\ TxState(k, op, start, more).kind = k
         /\ TxState(k, op, start, more).what = op
BY DEF TxState, TxType

(* A change of fields the credits are not about.                           *)
LEMMA SameCredits ==
  ASSUME NEW s, NEW t \in HostType, NEW c, NEW w, Almost(s, c, w),
         t.sent = s.sent, t.tx = s.tx, t.credit = s.credit, t.state = s.state,
         t.sub = s.sub \/ ~Resetting(t), Forgotten(t)
  PROVE  Almost(t, c, w)
<1>1. HostOK(t)
  BY DEF Almost, HostOK, SlotsOK
<1>2. ASSUME ~w PROVE Counted(t, c) /\ Linked(t, c) /\ Credit(t, c)
  BY <1>2 DEF Almost, Counted, InTx, Linked, Credit, Resetting
<1> QED BY <1>1, <1>2 DEF Almost

(* What sending a command (hci_send_prepared_cmd_packet) changes.          *)
LEMMA SendCommandFields ==
  ASSUME NEW s \in HostType, s.credit = 1, NEW op \in Op,
         NEW t, t = SendCommand(s, op)
  PROVE  /\ t \in HostType
         /\ t.tx.kind = "cmd" /\ t.credit = 0 /\ t.reserved /\ t.buf = "cmd"
         /\ t.conn = s.conn /\ t.sent = s.sent /\ t.state = s.state /\ t.sub = s.sub
<1> DEFINE x == TxState("cmd", op, FALSE, FALSE)
           Sent(n) == [s EXCEPT !.reserved = TRUE, !.buf = "cmd", !.last = op,
                                !.credit = n, !.tx = x]
<1>1. x \in TxType /\ x.kind = "cmd"
  BY TxStateType
<1>2. t = Sent(0)
  BY DEF SendCommand
<1> HIDE DEF x
<1>3. \A n \in 0..1 : Sent(n) \in HostType
  BY <1>1 DEF HostType
<1>4. t \in HostType
  BY <1>2, <1>3
<1> QED BY <1>1, <1>2, <1>4 DEF HostType

(* Sending a command keeps the bookkeeping if a credit is there to pay it. *)
LEMMA SendCommandGood ==
  ASSUME NEW s, NEW c \in CtlType, NEW w, Almost(s, c, w), ~Resetting(s),
         CanSendCommand(s), NEW op \in Op
  PROVE  Good(SendCommand(s, op), c, w)
<1> DEFINE t == SendCommand(s, op)
<1>0. s \in HostType /\ s.credit = 1 /\ s.tx.kind = "idle"
  BY DEF Almost, HostOK, CanSendCommand, HostType
<1>1. /\ t \in HostType
      /\ t.tx.kind = "cmd" /\ t.credit = 0 /\ t.reserved /\ t.buf = "cmd"
      /\ t.conn = s.conn /\ t.sent = s.sent /\ t.state = s.state /\ t.sub = s.sub
  BY <1>0, SendCommandFields
<1> HIDE DEF t
<1>2. HostOK(t)
  BY <1>0, <1>1 DEF Almost, HostOK, SlotsOK, Forgotten
<1>3. ASSUME ~w PROVE Counted(t, c) /\ Linked(t, c) /\ Credit(t, c) /\ Reserved(t)
  <2>1. Counted(t, c)
    BY <1>0, <1>1, <1>3 DEF Almost, Counted, InTx
  <2>2. Linked(t, c)
    BY <1>1, <1>3 DEF Almost, Linked
  <2>3. Credit(t, c)
    BY <1>0, <1>1, <1>3 DEF Almost, Credit, CtlType, HostType, Resetting
  <2>4. Reserved(t)
    BY <1>1 DEF Reserved
  <2> QED BY <2>1, <2>2, <2>3, <2>4
<1>4. Good(t, c, w)
  BY <1>2, <1>3 DEF Good, Almost
<1> QED BY <1>4 DEF t

(* One more packet counted is one free slot less in the pool of its link.  *)
LEMMA SlotCount ==
  ASSUME NEW f \in [Handle -> Nat], NEW h \in Handle, FreeSlots(f, h) > 0,
         FreeClassic(f) >= 0, LeTotal > 0 => FreeLe(f) >= 0,
         NEW g, g = [f EXCEPT ![h] = @ + 1]
  PROVE  FreeClassic(g) >= 0 /\ (LeTotal > 0 => FreeLe(g) >= 0)
<1>1. f[H1] \in Nat /\ f[H2] \in Nat /\ (h = H1 \/ h = H2) /\ H1 # H2
  BY HandleAssumption DEF Handle
<1>2. CASE h = H1
  <2>1. g[H1] = f[H1] + 1 /\ g[H2] = f[H2]
    BY <1>2, <1>1 DEF Handle
  <2> QED BY <2>1, <1>1, <1>2, TotalAssumption DEF FreeSlots, FreeClassic, FreeLe, Outstanding, Handle
<1>3. CASE h = H2
  <2>1. g[H2] = f[H2] + 1 /\ g[H1] = f[H1]
    BY <1>3, <1>1 DEF Handle
  <2> QED BY <2>1, <1>1, <1>3, TotalAssumption DEF FreeSlots, FreeClassic, FreeLe, Outstanding, Handle
<1> QED BY <1>1, <1>2, <1>3

(* What handing a fragment to the transport changes.                       *)
LEMMA SendFragmentFields ==
  ASSUME NEW s \in HostType, s.frags > 0, NEW h \in Handle, NEW first \in BOOLEAN,
         NEW t, t = SendFragment(s, h, first)
  PROVE  /\ t \in HostType
         /\ t.tx.kind = "acl" /\ t.tx.what = h /\ t.active /\ t.reserved = s.reserved
         /\ t.conn = s.conn /\ t.sent = [s.sent EXCEPT ![h] = @ + 1]
         /\ t.state = s.state /\ t.sub = s.sub /\ t.credit = s.credit /\ t.buf = s.buf
<1> DEFINE more == s.frags > 1
           x == TxState("acl", h, first, more)
           n == s.frags - 1
           g == [s.sent EXCEPT ![h] = @ + 1]
           r == [s EXCEPT !.sent = g, !.frags = n, !.active = TRUE, !.tx = x]
<1>1. more \in BOOLEAN
  OBVIOUS
<1>2. h \in Op
  BY DEF Op
<1>3. n \in 0..MaxFragments /\ g \in [Handle -> Nat]
  BY TotalAssumption DEF HostType
<1>4. t = r
  BY DEF SendFragment, HostType
<1> HIDE DEF more
<1>5. x \in TxType /\ x.kind = "acl" /\ x.what = h
  BY <1>1, <1>2, TxStateType
<1> HIDE DEF x, n, g
<1>6. r \in HostType
  BY <1>3, <1>5 DEF HostType
<1>7. /\ r.tx.kind = "acl" /\ r.tx.what = h /\ r.active /\ r.reserved = s.reserved
      /\ r.conn = s.conn /\ r.sent = g
      /\ r.state = s.state /\ r.sub = s.sub /\ r.credit = s.credit /\ r.buf = s.buf
  BY <1>5 DEF HostType
<1> QED BY <1>4, <1>6, <1>7 DEF g

(* hci_send_acl_packet_fragments keeps the bookkeeping with a slot free.   *)
LEMMA SendFragmentGood ==
  ASSUME NEW s, NEW c \in CtlType, NEW w, Almost(s, c, w), NEW h \in Handle,
         NEW first \in BOOLEAN, CanSendPreparedAcl(s, h), s.frags > 0, s.buf = h,
         ~w => s.reserved
  PROVE  Good(SendFragment(s, h, first), c, w)
<1> DEFINE t == SendFragment(s, h, first)
<1>0. /\ s \in HostType /\ s.tx.kind = "idle" /\ s.conn[h] # "NONE"
      /\ s.sent \in [Handle -> Nat] /\ s.frags \in 0..MaxFragments
  BY DEF Almost, HostOK, CanSendPreparedAcl, HostType
<1>1. /\ t \in HostType
      /\ t.tx.kind = "acl" /\ t.tx.what = h /\ t.active /\ t.reserved = s.reserved
      /\ t.conn = s.conn /\ t.sent = [s.sent EXCEPT ![h] = @ + 1]
      /\ t.state = s.state /\ t.sub = s.sub /\ t.credit = s.credit /\ t.buf = s.buf
  BY <1>0, SendFragmentFields
<1> HIDE DEF t
<1>2. HostOK(t)
  <2>1. SlotsOK(t)
    BY <1>0, <1>1, SlotCount DEF Almost, HostOK, SlotsOK, CanSendPreparedAcl
  <2>2. Forgotten(t)
    BY <1>0, <1>1 DEF Almost, HostOK, Forgotten
  <2> QED BY <1>0, <1>1, <2>1, <2>2 DEF Almost, HostOK
<1>3. ASSUME ~w PROVE Counted(t, c) /\ Linked(t, c) /\ Credit(t, c) /\ Reserved(t)
  <2>1. Counted(t, c)
    BY <1>0, <1>1, <1>3 DEF Almost, Counted, InTx, CtlType
  <2>2. Linked(t, c)
    BY <1>1, <1>3 DEF Almost, Linked
  <2>3. Credit(t, c)
    BY <1>0, <1>1, <1>3 DEF Almost, Credit, Resetting
  <2>4. Reserved(t)
    BY <1>1, <1>3 DEF Reserved
  <2> QED BY <2>1, <2>2, <2>3, <2>4
<1>4. Good(t, c, w)
  BY <1>2, <1>3 DEF Good, Almost
<1> QED BY <1>4 DEF t

(* A client that sends an ACL packet keeps the bookkeeping.                *)
LEMMA AclPacketsGood ==
  ASSUME NEW s, NEW c \in CtlType, NEW w, Good(s, c, w), NEW t \in AclPackets(s)
  PROVE  Good(t, c, w) /\ t.state = s.state /\ t.sub = s.sub
<1>1. PICK h \in Handle, n \in 1..MaxFragments :
        CanSendPreparedAcl(s, h) /\ t = SendAclPacket(s, h, n)
  BY DEF AclPackets
<1> DEFINE r == [s EXCEPT !.reserved = TRUE, !.buf = h, !.frags = n]
<1>2. n \in 0..MaxFragments /\ n > 0
  BY TotalAssumption
<1>3. s \in HostType /\ s.tx.kind = "idle"
  BY <1>1 DEF Good, Almost, HostOK, CanSendPreparedAcl
<1>4. r \in HostType
  BY <1>2, <1>3 DEF HostType
<1>5. /\ r.sent = s.sent /\ r.tx = s.tx /\ r.credit = s.credit /\ r.state = s.state
      /\ r.sub = s.sub /\ r.conn = s.conn /\ r.reserved /\ r.buf = h /\ r.frags = n
  BY <1>3 DEF HostType
<1>6. t = SendFragment(r, h, TRUE)
  BY <1>1 DEF SendAclPacket
<1> HIDE DEF r
<1>7. Almost(r, c, w)
  <2>1. Forgotten(r)
    BY <1>5 DEF Good, Almost, HostOK, Forgotten
  <2> QED BY <1>4, <1>5, <2>1, SameCredits DEF Good
<1>8. CanSendPreparedAcl(r, h)
  BY <1>1, <1>5 DEF CanSendPreparedAcl
<1>9. t.state = r.state /\ t.sub = r.sub
  BY <1>2, <1>4, <1>5, <1>6, SendFragmentFields
<1>10. Good(t, c, w)
  BY <1>2, <1>5, <1>6, <1>7, <1>8, SendFragmentGood
<1> QED BY <1>5, <1>9, <1>10

(* A client that calls hci_send_cmd keeps the bookkeeping.                 *)
LEMMA ClientCommandsGood ==
  ASSUME NEW s, NEW c \in CtlType, NEW w, Good(s, c, w), NEW t \in ClientCommands(s)
  PROVE  Good(t, c, w) /\ t.state = s.state /\ t.sub = s.sub
<1>1. s.state = "WORKING" /\ CanSendCommand(s) /\ t = SendCommand(s, "gap")
  BY DEF ClientCommands
<1>2. ~Resetting(s) /\ "gap" \in Op
  BY <1>1 DEF Resetting, Op, Commands
<1>3. s \in HostType /\ s.credit = 1
  BY <1>1 DEF Good, Almost, HostOK, CanSendCommand, HostType
<1>4. t.state = s.state /\ t.sub = s.sub
  BY <1>1, <1>2, <1>3, SendCommandFields
<1> QED BY <1>1, <1>2, <1>4, SendCommandGood DEF Good

(* Whatever the upper layers do with an event keeps the bookkeeping.       *)
LEMMA EmitGood ==
  ASSUME NEW s, NEW c \in CtlType, NEW w, Good(s, c, w), NEW t \in Emit(s)
  PROVE  Good(t, c, w) /\ t.state = s.state /\ t.sub = s.sub
BY AclPacketsGood, ClientCommandsGood DEF Emit

----------------------------------------------------------------------------
(* hci_run *)

(* HCI_Disconnect for a listed connection keeps the bookkeeping.           *)
LEMMA DisconnectGood ==
  ASSUME NEW s, NEW c \in CtlType, NEW w, Almost(s, c, w), ~Resetting(s),
         CanSendCommand(s), NEW h \in Handle, s.conn[h] # "NONE"
  PROVE  Good(Disconnect(s, h), c, w)
<1> DEFINE r == [s EXCEPT !.conn[h] = "SENT_DISCONNECT"]
<1>1. s \in HostType
  BY DEF Almost, HostOK
<1>2. r \in HostType
  BY <1>1 DEF HostType, ConStates
<1>3. /\ r.sent = s.sent /\ r.tx = s.tx /\ r.credit = s.credit /\ r.state = s.state
      /\ r.sub = s.sub /\ r.reserved = s.reserved
      /\ r.conn = [s.conn EXCEPT ![h] = "SENT_DISCONNECT"]
  BY <1>1 DEF HostType
<1> HIDE DEF r
<1>4. Forgotten(r)
  BY <1>1, <1>3 DEF Almost, HostOK, Forgotten, HostType
<1>5. Almost(r, c, w) /\ ~Resetting(r) /\ CanSendCommand(r)
  BY <1>2, <1>3, <1>4, SameCredits DEF Resetting, CanSendCommand
<1>6. h \in Op
  BY DEF Op
<1>7. Disconnect(s, h) = SendCommand(r, h)
  BY DEF Disconnect, r
<1> QED BY <1>5, <1>6, <1>7, SendCommandGood

(* hci_run_general_pending_commands keeps the bookkeeping.                 *)
LEMMA PendingCommandsGood ==
  ASSUME NEW s, NEW c \in CtlType, NEW w, Good(s, c, w), ~Resetting(s),
         NEW t \in PendingCommands(s)
  PROVE  Good(t, c, w)
<1>1. CASE t = s
  BY <1>1
<1>2. CASE CanSendCommand(s) /\ t = SendCommand([s EXCEPT !.gap = FALSE], "gap")
  <2> DEFINE r == [s EXCEPT !.gap = FALSE]
  <2>1. s \in HostType
    BY DEF Good, Almost, HostOK
  <2>2. /\ r \in HostType
        /\ r.sent = s.sent /\ r.tx = s.tx /\ r.credit = s.credit /\ r.state = s.state
        /\ r.sub = s.sub /\ r.reserved = s.reserved /\ r.conn = s.conn
    BY <2>1 DEF HostType
  <2> HIDE DEF r
  <2>3. Forgotten(r)
    BY <2>2 DEF Good, Almost, HostOK, Forgotten
  <2>4. Almost(r, c, w) /\ ~Resetting(r) /\ CanSendCommand(r)
    BY <1>2, <2>2, <2>3, SameCredits DEF Good, Resetting, CanSendCommand
  <2>5. t = SendCommand(r, "gap") /\ "gap" \in Op
    BY <1>2 DEF r, Op, Commands
  <2> QED BY <2>4, <2>5, SendCommandGood
<1>3. CASE CanSendCommand(s) /\ \E h \in Handle :
             s.conn[h] = "SEND_DISCONNECT" /\ t = Disconnect(s, h)
  BY <1>3, DisconnectGood DEF Good
<1> QED
  <2>1. ~CanSendCommand(s) => t = s
    BY DEF PendingCommands
  <2>2. CanSendCommand(s) /\ s.gap => t = SendCommand([s EXCEPT !.gap = FALSE], "gap")
    BY DEF PendingCommands
  <2>3. CanSendCommand(s) /\ ~s.gap =>
          t = s \/ \E h \in Handle : s.conn[h] = "SEND_DISCONNECT" /\ t = Disconnect(s, h)
    BY DEF PendingCommands
  <2> QED BY <1>1, <1>2, <1>3, <2>1, <2>2, <2>3

(* Discarding the fragments of a closed connection keeps the bookkeeping.  *)
LEMMA DiscardGood ==
  ASSUME NEW s, NEW c \in CtlType, NEW w, Good(s, c, w), NEW t, t = [s EXCEPT !.frags = 0]
  PROVE  /\ Good(t, c, w) /\ t.frags = 0
         /\ t.state = s.state /\ t.sub = s.sub /\ t.tx = s.tx /\ t.conn = s.conn /\ t.buf = s.buf
<1>0. s \in HostType /\ 0 \in 0..MaxFragments
  BY TotalAssumption DEF Good, Almost, HostOK
<1>1. /\ t \in HostType
      /\ t.sent = s.sent /\ t.tx = s.tx /\ t.credit = s.credit /\ t.state = s.state
      /\ t.sub = s.sub /\ t.reserved = s.reserved /\ t.conn = s.conn /\ t.frags = 0
      /\ t.buf = s.buf /\ t.active = s.active
  BY <1>0 DEF HostType
<1>2. Forgotten(t)
  BY <1>1 DEF Good, Almost, HostOK, Forgotten
<1>3. Almost(t, c, w)
  BY <1>1, <1>2, SameCredits DEF Good
<1>4. ~w => Reserved(t)
  BY <1>1 DEF Good, Reserved, Busy
<1> QED BY <1>1, <1>3, <1>4 DEF Good

(* hci_run in HCI_STATE_WORKING keeps the bookkeeping.                     *)
LEMMA RunWorkingGood ==
  ASSUME NEW s, NEW c \in CtlType, NEW w, Good(s, c, w), s.state = "WORKING",
         NEW t \in RunWorking(s)
  PROVE  Good(t, c, w)
<1>0. s \in HostType /\ ~Resetting(s)
  BY DEF Good, Almost, HostOK, Resetting
<1>1. CASE t \in PendingCommands(s)
  BY <1>0, <1>1, PendingCommandsGood
<1>2. CASE t \in PendingCommands([s EXCEPT !.frags = 0])
  <2>1. PICK r : r = [s EXCEPT !.frags = 0]
    OBVIOUS
  <2>2. Good(r, c, w) /\ r.state = s.state
    BY <2>1, DiscardGood
  <2>3. ~Resetting(r)
    BY <2>2 DEF Resetting
  <2> QED BY <1>2, <2>1, <2>2, <2>3, PendingCommandsGood
<1>3. CASE /\ s.frags > 0 /\ s.buf \in Handle /\ CanSendPreparedAcl(s, s.buf)
           /\ t = SendFragment(s, s.buf, FALSE)
  <2>1. ~w => s.reserved
    BY <1>0, <1>3 DEF Good, Reserved
  <2>2. PICK h \in Handle : h = s.buf
    BY <1>3
  <2>3. CanSendPreparedAcl(s, h) /\ t = SendFragment(s, h, FALSE) /\ Almost(s, c, w)
    BY <1>3, <2>2 DEF Good
  <2> QED BY <1>3, <2>1, <2>2, <2>3, SendFragmentGood
<1> QED
  <2>1. s.frags = 0 \/ s.frags > 0
    BY <1>0 DEF HostType
  <2>2. s.buf = "cmd" \/ s.buf \in Handle
    BY <1>0 DEF HostType
  <2>3. CASE s.frags = 0
    <3>1. t \in PendingCommands(s) BY <2>3 DEF RunWorking
    <3> QED BY <1>1, <3>1
  <2>4. CASE s.frags # 0 /\ (s.buf = "cmd" \/ s.conn[s.buf] = "NONE")
    <3>1. t \in PendingCommands([s EXCEPT !.frags = 0]) BY <2>4, Zenon DEF RunWorking
    <3> QED BY <1>2, <3>1
  <2>5. CASE s.frags # 0 /\ ~(s.buf = "cmd" \/ s.conn[s.buf] = "NONE")
    <3>1. IF CanSendPreparedAcl(s, s.buf) THEN t = SendFragment(s, s.buf, FALSE)
                                          ELSE t \in PendingCommands(s)
      BY <2>5, Zenon DEF RunWorking
    <3> QED BY <1>1, <1>3, <2>1, <2>2, <2>5, <3>1
  <2> QED BY <2>1, <2>3, <2>4, <2>5

(* All slots are free if nothing is counted.                               *)
LEMMA NoSlotUsed ==
  ASSUME NEW f, f[H1] = 0, f[H2] = 0
  PROVE  FreeClassic(f) >= 0 /\ (LeTotal > 0 => FreeLe(f) >= 0)
BY TotalAssumption DEF FreeClassic, FreeLe, Outstanding

(* hci_state_reset forgets packets the controller can only have on a link. *)
LEMMA StateResetAlmost ==
  ASSUME NEW s, NEW c \in CtlType, NEW w, Almost(s, c, w), s.state = "INITIALIZING",
         CanSendCommand(s), NEW t, t = [StateReset(s) EXCEPT !.sub = "W4_RESET"]
  PROVE  Almost(t, c, w) /\ ~Resetting(t) /\ CanSendCommand(t)
<1> DEFINE none == [h \in Handle |-> "NONE"]
           zero == [h \in Handle |-> 0]
<1>1. s \in HostType /\ s.tx.kind = "idle" /\ s.credit > 0
  BY DEF Almost, HostOK, CanSendCommand
<1>2. none \in [Handle -> ConStates] /\ zero \in [Handle -> Nat]
  BY DEF ConStates
<1>3. t = [s EXCEPT !.reserved = FALSE, !.conn = none, !.sent = zero, !.gap = TRUE,
                    !.sub = "W4_RESET"]
  BY <1>1 DEF StateReset, HostType
<1>z. zero[H1] = 0 /\ zero[H2] = 0 /\ \A h \in Handle : zero[h] = 0
  BY DEF Handle
<1> HIDE DEF none, zero
<1>4. t \in HostType
  BY <1>1, <1>2, <1>3 DEF HostType, Substates
<1>5. /\ t.sent = zero /\ t.tx = s.tx /\ t.credit = s.credit /\ t.state = s.state
      /\ t.sub = "W4_RESET" /\ t.reserved = FALSE
  BY <1>1, <1>3 DEF HostType
<1>6. HostOK(t)
  <2>1. SlotsOK(t)
    BY <1>5, <1>z, NoSlotUsed DEF SlotsOK
  <2>2. Forgotten(t)
    BY <1>5, <1>z DEF Forgotten
  <2> QED BY <1>4, <1>5, <2>1, <2>2 DEF HostOK
<1>7. ASSUME ~w PROVE Counted(t, c) /\ Linked(t, c) /\ Credit(t, c)
  <2>1. Linked(s, c) /\ Credit(s, c)
    BY <1>7 DEF Almost
  <2>2. \A h \in Handle : ~c.link[h] /\ c.held[h] = 0
    BY <2>1 DEF Linked
  <2>3. Counted(t, c)
    BY <1>5, <1>z, <2>2 DEF Counted
  <2>4. Linked(t, c)
    BY <1>5, <2>1 DEF Linked
  <2>5. Credit(t, c)
    BY <1>5, <2>1 DEF Credit, Resetting
  <2> QED BY <2>3, <2>4, <2>5
<1>8. ~Resetting(t) /\ CanSendCommand(t)
  BY <1>1, <1>5 DEF Resetting, CanSendCommand
<1> QED BY <1>6, <1>7, <1>8 DEF Almost

(* The step to HCI_STATE_WORKING keeps the bookkeeping.                    *)
LEMMA InitDoneGood ==
  ASSUME NEW s, NEW c \in CtlType, NEW w, Good(s, c, w),
         s.state = "INITIALIZING", s.sub = "DONE", s.tx.kind = "idle", NEW t \in InitDone(s)
  PROVE  Good(t, c, w)
<1> DEFINE r == [s EXCEPT !.state = "WORKING"]
<1>1. s \in HostType
  BY DEF Good, Almost, HostOK
<1>2. r \in HostType
  BY <1>1 DEF HostType, PowerStates
<1>3. /\ r.sent = s.sent /\ r.tx = s.tx /\ r.credit = s.credit /\ r.state = "WORKING"
      /\ r.sub = s.sub /\ r.reserved = s.reserved /\ r.conn = s.conn /\ r.frags = s.frags
      /\ r.buf = s.buf /\ r.active = s.active
  BY <1>1 DEF HostType
<1>4. PICK u \in Emit(r) : t \in RunWorking(u)
  BY DEF InitDone
<1> HIDE DEF r
<1>5. HostOK(r)
  BY <1>2, <1>3 DEF Good, Almost, HostOK, SlotsOK, Forgotten
<1>6. ASSUME ~w PROVE Counted(r, c) /\ Linked(r, c) /\ Credit(r, c) /\ Reserved(r)
  BY <1>3, <1>6 DEF Good, Almost, Counted, InTx, Linked, Credit, Resetting, Reserved, Busy
<1>7. Good(r, c, w)
  BY <1>5, <1>6 DEF Good, Almost
<1>8. Good(u, c, w) /\ u.state = "WORKING"
  BY <1>3, <1>4, <1>7, EmitGood
<1> QED BY <1>4, <1>8, RunWorkingGood

(* hci_initializing_run keeps the bookkeeping.                             *)
LEMMA RunInitializingGood ==
  ASSUME NEW s, NEW c \in CtlType, NEW w, Good(s, c, w), s.state = "INITIALIZING",
         NEW t \in RunInitializing(s)
  PROVE  Good(t, c, w)
<1>0. s \in HostType /\ (CanSendCommand(s) => s.tx.kind = "idle")
  BY DEF Good, Almost, HostOK, CanSendCommand
<1>1. CASE t = s
  BY <1>1
<1>2. CASE /\ CanSendCommand(s) /\ s.sub = "SEND_RESET"
           /\ t = SendCommand([StateReset(s) EXCEPT !.sub = "W4_RESET"], "reset")
  <2>1. PICK r : r = [StateReset(s) EXCEPT !.sub = "W4_RESET"]
    OBVIOUS
  <2>2. Almost(r, c, w) /\ ~Resetting(r) /\ CanSendCommand(r)
    BY <1>2, <2>1, StateResetAlmost DEF Good
  <2>3. t = SendCommand(r, "reset") /\ "reset" \in Op
    BY <1>2, <2>1 DEF Op, Commands
  <2> QED BY <2>2, <2>3, SendCommandGood
<1>3. CASE /\ CanSendCommand(s) /\ s.sub = "SEND_INIT"
           /\ t = SendCommand([s EXCEPT !.sub = "W4_INIT"], "init")
  <2> DEFINE r == [s EXCEPT !.sub = "W4_INIT"]
  <2>1. /\ r \in HostType
        /\ r.sent = s.sent /\ r.tx = s.tx /\ r.credit = s.credit /\ r.state = s.state
        /\ r.sub = "W4_INIT" /\ r.reserved = s.reserved /\ r.conn = s.conn
    BY <1>0 DEF HostType, Substates
  <2>2. t = SendCommand(r, "init") /\ "init" \in Op
    BY <1>3 DEF Op, Commands
  <2> HIDE DEF r
  <2>3. Forgotten(r) /\ ~Resetting(r)
    BY <2>1 DEF Good, Almost, HostOK, Forgotten, Resetting
  <2>4. Almost(r, c, w) /\ CanSendCommand(r)
    BY <1>3, <2>1, <2>3, SameCredits DEF Good, CanSendCommand
  <2> QED BY <2>2, <2>3, <2>4, SendCommandGood
<1>4. CASE /\ CanSendCommand(s) /\ s.sub = "DONE"
           /\ t = SendCommand([s EXCEPT !.gap = FALSE], "gap")
  <2> DEFINE r == [s EXCEPT !.gap = FALSE]
  <2>1. /\ r \in HostType
        /\ r.sent = s.sent /\ r.tx = s.tx /\ r.credit = s.credit /\ r.state = s.state
        /\ r.sub = "DONE" /\ r.reserved = s.reserved /\ r.conn = s.conn
    BY <1>0, <1>4 DEF HostType
  <2>2. t = SendCommand(r, "gap") /\ "gap" \in Op
    BY <1>4 DEF Op, Commands
  <2> HIDE DEF r
  <2>3. Forgotten(r) /\ ~Resetting(r)
    BY <2>1 DEF Good, Almost, HostOK, Forgotten, Resetting
  <2>4. Almost(r, c, w) /\ CanSendCommand(r)
    BY <1>4, <2>1, <2>3, SameCredits DEF Good, CanSendCommand
  <2> QED BY <2>2, <2>3, <2>4, SendCommandGood
<1>5. CASE CanSendCommand(s) /\ s.sub = "DONE" /\ t \in InitDone(s)
  BY <1>0, <1>5, InitDoneGood
<1> QED
  <2>1. CASE ~CanSendCommand(s)
    BY <1>1, <2>1 DEF RunInitializing
  <2>2. CASE CanSendCommand(s) /\ s.sub = "SEND_RESET"
    BY <1>2, <2>2 DEF RunInitializing
  <2>3. CASE CanSendCommand(s) /\ s.sub = "SEND_INIT"
    BY <1>3, <2>3 DEF RunInitializing
  <2>4. CASE CanSendCommand(s) /\ s.sub = "DONE" /\ s.gap
    BY <1>4, <2>4 DEF RunInitializing
  <2>5. CASE CanSendCommand(s) /\ s.sub = "DONE" /\ ~s.gap
    BY <1>5, <2>5 DEF RunInitializing
  <2>6. CASE CanSendCommand(s) /\ s.sub \notin {"SEND_RESET", "SEND_INIT", "DONE"}
    BY <1>1, <2>6 DEF RunInitializing
  <2> QED BY <2>1, <2>2, <2>3, <2>4, <2>5, <2>6

(* HCI_HALTING_DISCONNECT_ALL keeps the bookkeeping.                       *)
LEMMA DisconnectAllGood ==
  ASSUME NEW s, NEW c \in CtlType, NEW w, Good(s, c, w), s.state = "HALTING",
         CanSendCommand(s), NEW t \in DisconnectAll(s)
  PROVE  Good(t, c, w)
<1>0. s \in HostType /\ ~Resetting(s)
  BY DEF Good, Almost, HostOK, Resetting
<1>1. CASE t = s
  BY <1>1
<1>2. CASE t = [s EXCEPT !.sub = "W4_CLOSE_TIMER", !.timer = TRUE]
  <2>1. /\ t \in HostType
        /\ t.sent = s.sent /\ t.tx = s.tx /\ t.credit = s.credit /\ t.state = s.state
        /\ t.reserved = s.reserved /\ t.conn = s.conn /\ t.frags = s.frags
        /\ t.buf = s.buf /\ t.active = s.active
    BY <1>0, <1>2 DEF HostType, Substates
  <2>2. Forgotten(t) /\ ~Resetting(t)
    BY <2>1 DEF Good, Almost, HostOK, Forgotten, Resetting
  <2>3. Almost(t, c, w)
    BY <2>1, <2>2, SameCredits DEF Good
  <2>4. ~w => Reserved(t)
    BY <1>0, <2>1 DEF Good, Reserved, Busy
  <2> QED BY <2>3, <2>4 DEF Good
<1>3. CASE \E h \in Handle : s.conn[h] # "NONE" /\ t = Disconnect(s, h)
  BY <1>0, <1>3, DisconnectGood DEF Good
<1> QED BY <1>1, <1>2, <1>3 DEF DisconnectAll

(* hci_halting_run keeps the bookkeeping.                                  *)
LEMMA RunHaltingGood ==
  ASSUME NEW s, NEW c \in CtlType, NEW w, Good(s, c, w), s.state = "HALTING",
         NEW t \in RunHalting(s)
  PROVE  Good(t, c, w)
<1>0. s \in HostType
  BY DEF Good, Almost, HostOK
<1> DEFINE r == [s EXCEPT !.sub = "DISCONNECT_ALL"]
<1>1. /\ r \in HostType
      /\ r.sent = s.sent /\ r.tx = s.tx /\ r.credit = s.credit /\ r.state = s.state
      /\ r.reserved = s.reserved /\ r.conn = s.conn /\ r.frags = s.frags
      /\ r.buf = s.buf /\ r.active = s.active
  BY <1>0 DEF HostType, Substates
<1>2. CASE t = s
  BY <1>2
<1>3. CASE CanSendCommand(s) /\ t \in {SendCommand(r, "stop")} \cup DisconnectAll(r)
  <2> HIDE DEF r
  <2>1. Forgotten(r) /\ ~Resetting(r) /\ ~Resetting(s)
    BY <1>1 DEF Good, Almost, HostOK, Forgotten, Resetting
  <2>2. Almost(r, c, w)
    BY <1>1, <2>1, SameCredits DEF Good
  <2>3. Good(r, c, w)
    BY <1>1, <2>1, <2>2 DEF Good, Reserved, Busy
  <2>4. CanSendCommand(r) /\ r.state = "HALTING"
    BY <1>1, <1>3 DEF CanSendCommand
  <2>5. "stop" \in Op
    BY DEF Op, Commands
  <2> QED BY <1>3, <2>1, <2>2, <2>3, <2>4, <2>5, SendCommandGood, DisconnectAllGood
<1>4. CASE CanSendCommand(s) /\ t \in DisconnectAll(s)
  BY <1>4, DisconnectAllGood
<1> QED
  <2>1. CASE ~CanSendCommand(s)
    BY <1>2, <2>1 DEF RunHalting
  <2>2. CASE CanSendCommand(s) /\ s.sub = "STOP"
    BY <1>3, <2>2 DEF RunHalting
  <2>3. CASE CanSendCommand(s) /\ s.sub = "DISCONNECT_ALL"
    BY <1>4, <2>3 DEF RunHalting
  <2>4. CASE CanSendCommand(s) /\ s.sub \notin {"STOP", "DISCONNECT_ALL"}
    BY <1>2, <2>4 DEF RunHalting
  <2> QED BY <2>1, <2>2, <2>3, <2>4

(* hci_run keeps the bookkeeping in every state.                           *)
LEMMA RunGood ==
  ASSUME NEW s, NEW c \in CtlType, NEW w, Good(s, c, w), NEW t \in Run(s)
  PROVE  Good(t, c, w) /\ (s.state = "OFF" => t = s)
<1>1. CASE s.state = "WORKING"
  BY <1>1, RunWorkingGood DEF Run
<1>2. CASE s.state = "INITIALIZING"
  BY <1>2, RunInitializingGood DEF Run
<1>3. CASE s.state = "HALTING"
  BY <1>3, RunHaltingGood DEF Run
<1>4. CASE s.state \notin {"WORKING", "INITIALIZING", "HALTING"}
  BY <1>4 DEF Run
<1> QED BY <1>1, <1>2, <1>3, <1>4

(* The tail of event_handler keeps the bookkeeping.                        *)
LEMMA EmitAndRunGood ==
  ASSUME NEW s, NEW c \in CtlType, NEW w, Good(s, c, w), NEW t \in EmitAndRun(s)
  PROVE  Good(t, c, w)
BY EmitGood, RunGood DEF EmitAndRun

----------------------------------------------------------------------------
(* A controller without power has nothing of the session.                  *)

(* The controller after power-up.                                          *)
LEMMA FreshCtlType ==
  /\ FreshCtl \in CtlType
  /\ \A h \in Handle : FreshCtl.held[h] = 0 /\ ~FreshCtl.link[h]
  /\ FreshCtl.down = {} /\ FreshCtl.cmdq = <<>> /\ ~FreshCtl.owes
BY DEF FreshCtl, CtlType

(* The bookkeeping holds between a stack and a controller that are off.    *)
LEMMA OffGood ==
  ASSUME NEW s, HostOK(s), s.state = "OFF", NEW w
  PROVE  Good(s, FreshCtl, w)
<1>1. s \in HostType /\ s.tx.kind = "off" /\ \A h \in Handle : s.sent[h] \in Nat
  BY DEF HostOK, HostType
<1>2. Counted(s, FreshCtl)
  BY <1>1, FreshCtlType DEF Counted
<1>3. Linked(s, FreshCtl)
  BY FreshCtlType DEF Linked
<1>4. Credit(s, FreshCtl)
  <2>1. s.credit \in 0..1 /\ Len(FreshCtl.cmdq) = 0
    BY <1>1, FreshCtlType DEF HostType
  <2> QED BY <1>1, <2>1, FreshCtlType DEF Credit, Resetting
<1>5. Reserved(s)
  BY <1>1 DEF Reserved, Busy
<1> QED BY <1>2, <1>3, <1>4, <1>5 DEF Good, Almost

----------------------------------------------------------------------------
(* Actions of the application *)

(* A change of the host that no credit and not the buffer is about.        *)
LEMMA SameBuffer ==
  ASSUME NEW s, NEW t \in HostType, NEW c, NEW w, Good(s, c, w),
         t.sent = s.sent, t.tx = s.tx, t.credit = s.credit, t.state = s.state,
         t.sub = s.sub, t.reserved = s.reserved, t.frags = s.frags, t.buf = s.buf,
         t.active = s.active, Forgotten(t)
  PROVE  Good(t, c, w)
<1>1. Almost(t, c, w)
  BY SameCredits DEF Good
<1>2. ~w => Reserved(t)
  BY DEF Good, Reserved, Busy, Resetting
<1> QED BY <1>1, <1>2 DEF Good

(* Removing the timer in hci_power_control touches no bookkeeping.         *)
LEMMA DisarmGood ==
  ASSUME NEW s, NEW c, NEW w, Good(s, c, w)
  PROVE  Good(Disarm(s), c, w) /\ Disarm(s).state = s.state
<1>0. s \in HostType
  BY DEF Good, Almost, HostOK
<1>1. PICK t : t = Disarm(s)
  OBVIOUS
<1>2. /\ t \in HostType
      /\ t.sent = s.sent /\ t.tx = s.tx /\ t.credit = s.credit /\ t.state = s.state
      /\ t.sub = s.sub /\ t.reserved = s.reserved /\ t.frags = s.frags /\ t.buf = s.buf
      /\ t.active = s.active /\ t.conn = s.conn
  BY <1>0, <1>1 DEF Disarm, HostType
<1>3. Forgotten(t)
  BY <1>2 DEF Good, Almost, HostOK, Forgotten
<1> QED BY <1>1, <1>2, <1>3, SameBuffer

(* hci_power_control(HCI_POWER_ON) keeps the bookkeeping.                  *)
LEMMA PowerOnGood ==
  ASSUME NEW s, NEW c \in CtlType, NEW w, Good(s, c, w)
  PROVE  Good(PowerOnFrom(s), c, w \/ s.state = "HALTING")
<1>0. s \in HostType
  BY DEF Good, Almost, HostOK
<1>1. CASE s.state = "OFF"
  <2> DEFINE Started(n, x) == [s EXCEPT !.tx = x, !.state = "INITIALIZING",
                                 !.sub = "SEND_RESET", !.credit = n, !.reserved = FALSE]
  <2>1. TxIdle \in TxType /\ TxIdle.kind = "idle"
    BY DEF TxIdle, TxState, TxType, Op, Commands
  <2>2. PowerOnFrom(s) = Started(1, TxIdle)
    BY <1>0, <1>1 DEF PowerOnFrom, EnterInitializing, HostType
  <2>3. \A n \in 0..1, x \in TxType :
          /\ Started(n, x) \in HostType
          /\ Started(n, x).tx = x /\ Started(n, x).credit = n
          /\ Started(n, x).state = "INITIALIZING" /\ Started(n, x).sub = "SEND_RESET"
          /\ Started(n, x).sent = s.sent /\ Started(n, x).conn = s.conn
    BY <1>0, ZenonT(40) DEF HostType, PowerStates, Substates
  <2> HIDE DEF Started
  <2>4. PICK t : t = PowerOnFrom(s)
    OBVIOUS
  <2>5. /\ t \in HostType /\ t.tx.kind = "idle" /\ t.credit = 1
        /\ t.state = "INITIALIZING" /\ t.sub = "SEND_RESET"
        /\ t.sent = s.sent /\ t.conn = s.conn
    BY <2>1, <2>2, <2>3, <2>4
  <2>6. HostOK(t)
    BY <2>5 DEF Good, Almost, HostOK, SlotsOK, Forgotten
  <2>7. ASSUME ~w PROVE Counted(t, c) /\ Linked(t, c) /\ Credit(t, c) /\ Reserved(t)
    <3>1. Counted(s, c) /\ Linked(s, c) /\ Credit(s, c) /\ s.tx.kind = "off"
      BY <1>1, <2>7 DEF Good, Almost, HostOK
    <3>2. Counted(t, c)
      BY <2>5, <3>1 DEF Counted, InTx
    <3>3. Linked(t, c)
      BY <1>1, <2>5, <3>1 DEF Linked
    <3>4. Len(c.cmdq) = 0 /\ c.cmdq = <<>> /\ ~c.owes
      BY <1>1, <3>1 DEF Credit
    <3>5. Credit(t, c)
      BY <2>5, <3>4 DEF Credit
    <3>6. Reserved(t)
      BY <2>5 DEF Reserved, Busy, Resetting
    <3> QED BY <3>2, <3>3, <3>5, <3>6
  <2> QED BY <1>1, <2>4, <2>6, <2>7 DEF Good, Almost
<1>2. CASE s.state = "HALTING"
  <2> DEFINE Started(n) == [s EXCEPT !.state = "INITIALIZING",
                                 !.sub = "SEND_RESET", !.credit = n, !.reserved = FALSE]
  <2>1. PICK t : t = PowerOnFrom(s)
    OBVIOUS
  <2>2. t = Started(1)
    BY <1>2, <2>1 DEF PowerOnFrom, EnterInitializing
  <2>3. \A n \in 0..1 :
          /\ Started(n) \in HostType /\ Started(n).state = "INITIALIZING"
          /\ Started(n).sent = s.sent /\ Started(n).conn = s.conn
    BY <1>0 DEF HostType, PowerStates, Substates
  <2> HIDE DEF Started
  <2>4. t \in HostType /\ t.state = "INITIALIZING" /\ t.sent = s.sent /\ t.conn = s.conn
    BY <2>2, <2>3
  <2>5. HostOK(t)
    BY <2>4 DEF Good, Almost, HostOK, SlotsOK, Forgotten
  <2> QED BY <1>2, <2>1, <2>5 DEF Good, Almost
<1>3. CASE s.state \notin {"OFF", "HALTING"}
  <2>1. PowerOnFrom(s) = s
    BY <1>3 DEF PowerOnFrom
  <2> QED BY <1>3, <2>1 DEF Good, Almost
<1> QED BY <1>1, <1>2, <1>3

(* hci_power_control_off leaves a host record of its type.                 *)
LEMMA TransportOffOK ==
  ASSUME NEW s \in HostType, SlotsOK(s), Forgotten(s), NEW t, t = TransportOff(s)
  PROVE  HostOK(t) /\ t.state = "OFF"
<1>1. TxOff \in TxType /\ TxOff.kind = "off"
  BY DEF TxOff, TxState, TxType, Op, Commands
<1>2. /\ t \in HostType /\ t.state = "OFF" /\ t.tx = TxOff
      /\ t.sent = s.sent /\ t.conn = s.conn
  BY <1>1 DEF TransportOff, HostType, PowerStates
<1> QED BY <1>1, <1>2 DEF HostOK, SlotsOK, Forgotten

(* Turning off either leaves the session as it is or ends it.              *)
LEMMA PowerOffGood ==
  ASSUME NEW s, NEW c \in CtlType, NEW w, Good(s, c, w), NEW t, t = PowerOffFrom(s)
  PROVE  IF t.state = "OFF" THEN HostOK(t) ELSE Good(t, c, w)
<1>0. s \in HostType /\ HostOK(s) /\ SlotsOK(s) /\ Forgotten(s)
  BY DEF Good, Almost, HostOK
<1>1. CASE s.state = "INITIALIZING"
  <2>1. t = TransportOff(s)
    BY <1>1 DEF PowerOffFrom
  <2> QED BY <1>0, <2>1, TransportOffOK
<1>2. CASE s.state = "WORKING"
  <2>1. t = [s EXCEPT !.state = "HALTING", !.sub = "STOP", !.timer = TRUE]
    BY <1>2 DEF PowerOffFrom
  <2>2. /\ t \in HostType /\ t.state = "HALTING"
        /\ t.sent = s.sent /\ t.tx = s.tx /\ t.credit = s.credit /\ t.conn = s.conn
        /\ t.reserved = s.reserved /\ t.frags = s.frags /\ t.buf = s.buf
        /\ t.active = s.active
    BY <1>0, <2>1 DEF HostType, PowerStates, Substates
  <2>3. HostOK(t)
    BY <1>0, <2>2 DEF HostOK, SlotsOK, Forgotten
  <2>4. ASSUME ~w PROVE Counted(t, c) /\ Linked(t, c) /\ Credit(t, c) /\ Reserved(t)
    BY <1>2, <2>2, <2>4
       DEF Good, Almost, Counted, InTx, Linked, Credit, Resetting, Reserved, Busy
  <2> QED BY <2>2, <2>3, <2>4 DEF Good, Almost
<1>3. CASE s.state \notin {"INITIALIZING", "WORKING"}
  <2>1. t = s
    BY <1>3 DEF PowerOffFrom
  <2> QED BY <1>0, <2>1
<1> QED BY <1>1, <1>2, <1>3

(* While the transport is closed nothing can be sent.                      *)
LEMMA EmitAndRunOff ==
  ASSUME NEW s, HostOK(s), s.state = "OFF", NEW t \in EmitAndRun(s)
  PROVE  t = s
<1>1. s.tx.kind = "off"
  BY DEF HostOK
<1>2. Emit(s) = {s}
  BY <1>1 DEF Emit, AclPackets, ClientCommands, CanSendPreparedAcl
<1>3. Run(s) = {s}
  BY DEF Run
<1> QED BY <1>2, <1>3 DEF EmitAndRun

----------------------------------------------------------------------------
(* The events *)

(* Counting up one entry of a function into Nat stays in Nat.              *)
LEMMA CountUp ==
  ASSUME NEW f \in [Handle -> Nat], NEW k
  PROVE  [f EXCEPT ![k] = @ + 1] \in [Handle -> Nat]
<1>1. \A h \in Handle : [f EXCEPT ![k] = @ + 1][h] \in Nat
  OBVIOUS
<1> QED BY <1>1

(* The controller stays of its type when it takes a packet.                *)
LEMMA TakeType ==
  ASSUME NEW c \in CtlType, NEW tx \in TxType
  PROVE  Take(c, tx) \in CtlType
<1>1. CASE tx.kind = "cmd"
  <2>1. tx.what \in Op
    BY DEF TxType
  <2>2. Append(c.cmdq, tx.what) \in Seq(Op)
    BY <2>1 DEF CtlType
  <2>3. Take(c, tx) = [c EXCEPT !.cmdq = Append(c.cmdq, tx.what)]
    BY <1>1 DEF Take
  <2> HIDE DEF Op
  <2> QED BY <2>2, <2>3 DEF CtlType
<1>2. CASE tx.kind = "acl" /\ c.link[tx.what]
  <2> DEFINE g == [c.held EXCEPT ![tx.what] = @ + 1]
             p == [c.partial EXCEPT ![tx.what] = tx.more]
  <2>1. Take(c, tx) = [c EXCEPT !.held = g, !.partial = p]
    BY <1>2 DEF Take, CtlType
  <2>2. g \in [Handle -> Nat]
    BY CountUp DEF CtlType
  <2>3. p \in [Handle -> BOOLEAN]
    BY DEF CtlType, TxType
  <2> HIDE DEF g, p
  <2> QED BY <2>1, <2>2, <2>3 DEF CtlType
<1>3. CASE ~(tx.kind = "cmd") /\ ~(tx.kind = "acl" /\ c.link[tx.what])
  BY <1>3 DEF Take
<1> QED BY <1>1, <1>2, <1>3

(* A packet on its way becomes a packet at the controller.                 *)
LEMMA TakeGood ==
  ASSUME NEW s, NEW c \in CtlType, NEW w, Good(s, c, w), Busy(s),
         NEW t, t = [s EXCEPT !.tx = TxIdle, !.active = FALSE,
                              !.reserved = @ /\ s.frags > 0]
  PROVE  Good(t, Take(c, s.tx), w)
<1>0. s \in HostType /\ s.tx \in TxType /\ s.state # "OFF"
  BY DEF Good, Almost, HostOK, HostType, Busy
<1>1. TxIdle \in TxType /\ TxIdle.kind = "idle"
  BY DEF TxIdle, TxState, TxType, Op, Commands
<1>2. /\ t \in HostType
      /\ t.sent = s.sent /\ t.tx = TxIdle /\ t.credit = s.credit /\ t.state = s.state
      /\ t.sub = s.sub /\ t.conn = s.conn /\ t.frags = s.frags
      /\ t.reserved = (s.reserved /\ s.frags > 0)
  <2> DEFINE b == s.reserved /\ s.frags > 0
  <2>1. b \in BOOLEAN /\ t = [s EXCEPT !.tx = TxIdle, !.active = FALSE, !.reserved = b]
    OBVIOUS
  <2> HIDE DEF b
  <2>2. t.reserved = b
    BY <1>0, <2>1 DEF HostType
  <2>3. b = (s.reserved /\ s.frags > 0)
    BY DEF b
  <2> QED BY <1>0, <1>1, <2>1, <2>2, <2>3 DEF HostType
<1>3. HostOK(t)
  BY <1>0, <1>2 DEF Good, Almost, HostOK, SlotsOK, Forgotten
<1> DEFINE d == Take(c, s.tx)
<1>4. ASSUME ~w PROVE Counted(t, d) /\ Linked(t, d) /\ Credit(t, d) /\ Reserved(t)
  <2>0. Counted(s, c) /\ Linked(s, c) /\ Credit(s, c) /\ Reserved(s)
    BY <1>4 DEF Good, Almost
  <2>1. CASE s.tx.kind = "cmd"
    <3>1. s.tx.what \in Op
      BY <1>0 DEF TxType
    <3>2. PICK e : e = d
      OBVIOUS
    <3>3. e = [c EXCEPT !.cmdq = Append(c.cmdq, s.tx.what)]
      BY <2>1, <3>2 DEF Take
    <3>4. /\ e.held = c.held /\ e.link = c.link /\ e.down = c.down /\ e.owes = c.owes
          /\ e.cmdq = Append(c.cmdq, s.tx.what)
      BY <3>3 DEF CtlType
    <3>5. c.cmdq \in Seq(Op) /\ Len(e.cmdq) = Len(c.cmdq) + 1
      BY <3>1, <3>4 DEF CtlType
    <3>6. Counted(t, e)
      BY <1>1, <1>2, <2>0, <2>1, <3>4 DEF Counted, InTx
    <3>7. Linked(t, e)
      BY <1>2, <2>0, <3>4 DEF Linked
    <3>8. Credit(t, e)
      BY <1>0, <1>1, <1>2, <2>0, <2>1, <3>4, <3>5 DEF Credit, Resetting, HostType
    <3>9. Reserved(t)
      BY <1>1, <1>2, <2>0 DEF Reserved, Busy, Resetting
    <3> QED BY <3>2, <3>6, <3>7, <3>8, <3>9
  <2>2. CASE s.tx.kind = "acl" /\ c.link[s.tx.what]
    <3>1. PICK e : e = d
      OBVIOUS
    <3> DEFINE k == s.tx.what
               g == [c.held EXCEPT ![k] = @ + 1]
               p == [c.partial EXCEPT ![k] = s.tx.more]
    <3>2. e = [c EXCEPT !.held = g, !.partial = p]
      BY <2>2, <3>1 DEF Take, CtlType
    <3>3. g \in [Handle -> Nat]
      BY CountUp DEF CtlType
    <3>4. \A h \in Handle : g[h] = IF h = k THEN c.held[h] + 1 ELSE c.held[h]
      BY DEF CtlType
    <3> HIDE DEF g, p
    <3>5. /\ e.held = g /\ e.link = c.link /\ e.down = c.down /\ e.owes = c.owes
          /\ e.cmdq = c.cmdq
      BY <3>2 DEF CtlType
    <3>6. Counted(t, e)
      BY <1>1, <1>2, <2>0, <2>2, <3>4, <3>5, SMTT(30) DEF Counted, InTx, CtlType
    <3>7. Linked(t, e)
      BY <1>2, <2>0, <2>2, <3>4, <3>5 DEF Linked
    <3>8. Credit(t, e)
      BY <1>1, <1>2, <2>0, <2>2, <3>5 DEF Credit, Resetting
    <3>9. Reserved(t)
      BY <1>1, <1>2, <2>0 DEF Reserved, Busy, Resetting
    <3> QED BY <3>1, <3>6, <3>7, <3>8, <3>9
  <2>3. CASE s.tx.kind # "cmd" /\ ~(s.tx.kind = "acl" /\ c.link[s.tx.what])
    <3>1. d = c
      BY <2>3 DEF Take
    <3>2. Counted(t, c)
      BY <1>1, <1>2, <2>0, <2>3 DEF Counted, InTx, CtlType
    <3>3. Linked(t, c)
      BY <1>2, <2>0 DEF Linked
    <3>4. Credit(t, c)
      BY <1>1, <1>2, <2>0, <2>3 DEF Credit, Resetting
    <3>5. Reserved(t)
      BY <1>1, <1>2, <2>0 DEF Reserved, Busy, Resetting
    <3> QED BY <3>1, <3>2, <3>3, <3>4, <3>5
  <2> QED BY <2>1, <2>2, <2>3
<1> QED BY <1>3, <1>4 DEF Good, Almost

(* Fewer packets are counted for a connection.                             *)
LEMMA FewerPackets ==
  ASSUME NEW f \in [Handle -> Nat], NEW g \in [Handle -> Nat],
         \A h \in Handle : g[h] <= f[h],
         FreeClassic(f) >= 0, LeTotal > 0 => FreeLe(f) >= 0
  PROVE  FreeClassic(g) >= 0 /\ (LeTotal > 0 => FreeLe(g) >= 0)
<1>1. f[H1] \in Nat /\ f[H2] \in Nat /\ g[H1] \in Nat /\ g[H2] \in Nat
  BY DEF Handle
<1>2. g[H1] <= f[H1] /\ g[H2] <= f[H2]
  BY DEF Handle
<1> QED BY <1>1, <1>2, TotalAssumption DEF FreeClassic, FreeLe, Outstanding

(* The controller completes n packets: the host counts n less.             *)
LEMMA CompletedGood ==
  ASSUME NEW s, NEW c \in CtlType, NEW w, Good(s, c, w), NEW h \in Handle,
         NEW n \in Nat, n <= c.held[h], NEW t, t = Completed(s, h, n),
         NEW d, d = [c EXCEPT !.held[h] = @ - n]
  PROVE  Good(t, d, w) /\ d \in CtlType
<1>0. s \in HostType /\ s.sent \in [Handle -> Nat] /\ c.held \in [Handle -> Nat]
  BY DEF Good, Almost, HostOK, HostType, CtlType
<1> DEFINE g == [c.held EXCEPT ![h] = @ - n]
           m == IF s.sent[h] >= n THEN s.sent[h] - n ELSE 0
           f == [s.sent EXCEPT ![h] = m]
<1>1. g \in [Handle -> Nat] /\ \A k \in Handle : g[k] = IF k = h THEN c.held[k] - n ELSE c.held[k]
  <2>1. c.held[h] - n \in Nat
    BY <1>0
  <2> QED BY <1>0, <2>1
<1>2. d = [c EXCEPT !.held = g]
  BY DEF CtlType
<1> HIDE DEF g
<1>3. /\ d \in CtlType
      /\ d.held = g /\ d.link = c.link /\ d.down = c.down /\ d.cmdq = c.cmdq /\ d.owes = c.owes
  BY <1>1, <1>2 DEF CtlType
<1>4. CASE s.conn[h] = "NONE"
  <2>1. t = s
    BY <1>4 DEF Completed
  <2>2. ASSUME ~w PROVE Counted(s, d) /\ Linked(s, d) /\ Credit(s, d) /\ Reserved(s)
    <3>0. Counted(s, c) /\ Linked(s, c) /\ Credit(s, c) /\ Reserved(s)
      BY <2>2 DEF Good, Almost
    <3>1. Counted(s, d)
      BY <1>0, <1>1, <1>3, <3>0 DEF Counted
    <3>2. Linked(s, d)
      BY <1>0, <1>1, <1>3, <3>0 DEF Linked
    <3>3. Credit(s, d)
      BY <1>3, <3>0 DEF Credit
    <3> QED BY <3>0, <3>1, <3>2, <3>3
  <2> QED BY <1>3, <2>1, <2>2 DEF Good, Almost
<1>5. CASE s.conn[h] # "NONE"
  <2>1. m \in Nat /\ m <= s.sent[h] /\ (s.sent[h] >= n => m = s.sent[h] - n)
    BY <1>0
  <2>2. t = [s EXCEPT !.sent = f]
    BY <1>0, <1>5 DEF Completed, HostType
  <2> HIDE DEF m
  <2>3. f \in [Handle -> Nat] /\ \A k \in Handle : f[k] = IF k = h THEN m ELSE s.sent[k]
    BY <1>0, <2>1
  <2> HIDE DEF f
  <2>4. /\ t \in HostType
        /\ t.sent = f /\ t.tx = s.tx /\ t.credit = s.credit /\ t.state = s.state
        /\ t.sub = s.sub /\ t.reserved = s.reserved /\ t.frags = s.frags /\ t.buf = s.buf
        /\ t.active = s.active /\ t.conn = s.conn
    BY <1>0, <2>2, <2>3 DEF HostType
  <2>5. HostOK(t)
    <3>1. \A k \in Handle : f[k] <= s.sent[k]
      BY <1>0, <2>1, <2>3
    <3>2. SlotsOK(t)
      BY <1>0, <2>3, <2>4, <3>1, FewerPackets DEF Good, Almost, HostOK, SlotsOK
    <3>3. Forgotten(t)
      BY <1>5, <2>3, <2>4 DEF Good, Almost, HostOK, Forgotten
    <3> QED BY <2>4, <3>2, <3>3 DEF Good, Almost, HostOK
  <2>6. ASSUME ~w PROVE Counted(t, d) /\ Linked(t, d) /\ Credit(t, d) /\ Reserved(t)
    <3>0. Counted(s, c) /\ Linked(s, c) /\ Credit(s, c) /\ Reserved(s)
      BY <2>6 DEF Good, Almost
    <3>1. Counted(t, d)
      <4>1. c.held[h] + (IF InTx(s, h) /\ c.link[h] THEN 1 ELSE 0) <= s.sent[h]
        BY <3>0 DEF Counted
      <4>2. m = s.sent[h] - n
        BY <1>0, <2>1, <4>1
      <4>3. \A k \in Handle : InTx(t, k) = InTx(s, k)
        BY <2>4 DEF InTx
      <4> QED BY <1>0, <1>1, <1>3, <2>3, <2>4, <3>0, <4>2, <4>3 DEF Counted
    <3>2. Linked(t, d)
      BY <1>0, <1>1, <1>3, <2>4, <3>0 DEF Linked
    <3>3. Credit(t, d)
      BY <1>3, <2>4, <3>0 DEF Credit, Resetting
    <3>4. Reserved(t)
      BY <2>4, <3>0 DEF Reserved, Busy, Resetting
    <3> QED BY <3>1, <3>2, <3>3, <3>4
  <2> QED BY <1>3, <2>5, <2>6 DEF Good, Almost
<1> QED BY <1>4, <1>5

(* HCI_EVENT_CONNECTION_COMPLETE keeps the bookkeeping.                    *)
LEMMA ConnectionCompleteGood ==
  ASSUME NEW s, NEW c \in CtlType, NEW w, Good(s, c, w), NEW h \in Handle,
         NEW t, t = [s EXCEPT !.conn[h] = "OPEN",
                              !.sent[h] = IF s.conn[h] = "NONE" THEN 0 ELSE @]
  PROVE  Good(t, c, w)
<1>0. s \in HostType /\ s.sent \in [Handle -> Nat]
  BY DEF Good, Almost, HostOK, HostType
<1>1. s.sent = [s.sent EXCEPT ![h] = IF s.conn[h] = "NONE" THEN 0 ELSE @]
  BY <1>0 DEF Good, Almost, HostOK, Forgotten
<1> DEFINE o == [s.conn EXCEPT ![h] = "OPEN"]
<1>2. t = [s EXCEPT !.conn = o, !.sent = s.sent]
  BY <1>0, <1>1 DEF HostType
<1>3. o \in [Handle -> ConStates] /\ o[h] = "OPEN" /\ \A k \in Handle \ {h} : o[k] = s.conn[k]
  BY <1>0 DEF HostType, ConStates
<1> HIDE DEF o
<1>4. /\ t \in HostType
      /\ t.sent = s.sent /\ t.tx = s.tx /\ t.credit = s.credit /\ t.state = s.state
      /\ t.sub = s.sub /\ t.reserved = s.reserved /\ t.frags = s.frags /\ t.buf = s.buf
      /\ t.active = s.active /\ t.conn = o
  BY <1>0, <1>2, <1>3 DEF HostType
<1>5. Forgotten(t)
  BY <1>3, <1>4 DEF Good, Almost, HostOK, Forgotten
<1> QED BY <1>4, <1>5, SameBuffer

(* The host forgets the packets of a link that is gone.                    *)
LEMMA ForgetGood ==
  ASSUME NEW s, NEW c \in CtlType, NEW w, Good(s, c, w), NEW h \in Handle,
         ~w => ~c.link[h], NEW x \in ConStates,
         NEW t, t = [s EXCEPT !.conn[h] = x, !.sent[h] = 0]
  PROVE  Good(t, c, w)
<1>0. s \in HostType /\ s.sent \in [Handle -> Nat]
  BY DEF Good, Almost, HostOK, HostType
<1> DEFINE o == [s.conn EXCEPT ![h] = x]
           f == [s.sent EXCEPT ![h] = 0]
<1>1. t = [s EXCEPT !.conn = o, !.sent = f]
  BY <1>0 DEF HostType
<1>2. o \in [Handle -> ConStates] /\ \A k \in Handle \ {h} : o[k] = s.conn[k]
  BY <1>0 DEF HostType
<1>3. f \in [Handle -> Nat] /\ \A k \in Handle : f[k] = IF k = h THEN 0 ELSE s.sent[k]
  BY <1>0
<1> HIDE DEF o, f
<1>4. /\ t \in HostType
      /\ t.sent = f /\ t.tx = s.tx /\ t.credit = s.credit /\ t.state = s.state
      /\ t.sub = s.sub /\ t.reserved = s.reserved /\ t.frags = s.frags /\ t.buf = s.buf
      /\ t.active = s.active /\ t.conn = o
  BY <1>0, <1>1, <1>2, <1>3 DEF HostType
<1>5. HostOK(t)
  <2>1. \A k \in Handle : f[k] <= s.sent[k]
    BY <1>0, <1>3
  <2>2. SlotsOK(t)
    BY <1>0, <1>3, <1>4, <2>1, FewerPackets DEF Good, Almost, HostOK, SlotsOK
  <2>3. Forgotten(t)
    BY <1>2, <1>3, <1>4 DEF Good, Almost, HostOK, Forgotten
  <2> QED BY <1>4, <2>2, <2>3 DEF Good, Almost, HostOK
<1>6. ASSUME ~w PROVE Counted(t, c) /\ Linked(t, c) /\ Credit(t, c) /\ Reserved(t)
  <2>0. Counted(s, c) /\ Linked(s, c) /\ Credit(s, c) /\ Reserved(s)
    BY <1>6 DEF Good, Almost
  <2>1. c.held[h] = 0 /\ ~c.link[h]
    BY <1>6, <2>0 DEF Linked
  <2>2. Counted(t, c)
    BY <1>3, <1>4, <2>0, <2>1 DEF Counted, InTx
  <2>3. Linked(t, c)
    BY <1>4, <2>0 DEF Linked
  <2>4. Credit(t, c)
    BY <1>4, <2>0 DEF Credit, Resetting
  <2>5. Reserved(t)
    BY <1>4, <2>0 DEF Reserved, Busy, Resetting
  <2> QED BY <2>2, <2>3, <2>4, <2>5
<1> QED BY <1>5, <1>6 DEF Good, Almost

(* Dropping the fragments of a lost connection keeps the bookkeeping.      *)
LEMMA DropFragmentsGood ==
  ASSUME NEW s, NEW c \in CtlType, NEW w, Good(s, c, w), NEW h \in Handle,
         NEW t, t = DropFragments(s, h)
  PROVE  Good(t, c, w)
<1>0. s \in HostType /\ h # "cmd" /\ 0 \in 0..MaxFragments
  BY HandleAssumption, TotalAssumption DEF Good, Almost, HostOK
<1>1. CASE ~(s.frags > 0 /\ s.buf = h)
  <2>1. t = s
    BY <1>1 DEF DropFragments
  <2> QED BY <2>1
<1>2. CASE s.frags > 0 /\ s.buf = h
  <2> DEFINE b == s.reserved /\ s.active
  <2>1. b \in BOOLEAN /\ t = [s EXCEPT !.frags = 0, !.reserved = b]
    BY <1>2 DEF DropFragments
  <2>2. b = (s.reserved /\ s.active)
    OBVIOUS
  <2> HIDE DEF b
  <2>3. /\ t \in HostType
        /\ t.sent = s.sent /\ t.tx = s.tx /\ t.credit = s.credit /\ t.state = s.state
        /\ t.sub = s.sub /\ t.reserved = b /\ t.frags = 0 /\ t.buf = s.buf
        /\ t.active = s.active /\ t.conn = s.conn
    BY <1>0, <2>1 DEF HostType
  <2>4. Forgotten(t)
    BY <2>3 DEF Good, Almost, HostOK, Forgotten
  <2>5. Almost(t, c, w)
    BY <2>3, <2>4, SameCredits DEF Good
  <2>6. ASSUME ~w PROVE Reserved(t)
    <3>1. s.tx.kind # "cmd" /\ (s.tx.kind = "acl" => s.active /\ s.reserved)
      BY <1>0, <1>2, <2>6 DEF Good, Reserved, Busy
    <3>2. ~(t.frags > 0)
      BY <2>3
    <3> QED BY <2>2, <2>3, <3>1, <3>2 DEF Reserved, Busy
  <2> QED BY <2>5, <2>6 DEF Good
<1> QED BY <1>1, <1>2

(* The controller stays of its type when it executes a command.            *)
LEMMA ExecuteType ==
  ASSUME NEW c \in CtlType, NEW op, NEW o \in BOOLEAN
  PROVE  [Execute(c, op) EXCEPT !.owes = o] \in CtlType
<1> DEFINE e == Execute(c, op)
<1>1. e \in CtlType
  <2>0. "reset" \notin Handle /\ "init" \notin Handle
    BY HandleAssumption DEF Commands
  <2>1. CASE op = "reset"
    <3>1. e = [FreshCtl EXCEPT !.cmdq = c.cmdq]
      BY <2>0, <2>1 DEF Execute
    <3> QED BY <3>1, FreshCtlType DEF CtlType
  <2>2. CASE op = "init"
    <3>1. e = [c EXCEPT !.open = TRUE]
      BY <2>0, <2>2 DEF Execute
    <3> QED BY <3>1 DEF CtlType
  <2>3. CASE op \notin {"reset", "init"} /\ op \in Handle /\ c.link[op]
    <3>1. e = [c EXCEPT !.closing = c.closing \cup {op}]
      BY <2>3 DEF Execute
    <3>2. c.closing \cup {op} \in SUBSET Handle
      BY <2>3 DEF CtlType
    <3> QED BY <3>1, <3>2 DEF CtlType
  <2>4. CASE op \notin {"reset", "init"} /\ ~(op \in Handle /\ c.link[op])
    BY <2>4 DEF Execute
  <2> QED BY <2>1, <2>2, <2>3, <2>4
<1>2. \A f \in CtlType : [f EXCEPT !.owes = o] \in CtlType
  BY DEF CtlType
<1> QED BY <1>1, <1>2

(* A command that waits for its reply has the credit.                      *)
LEMMA LastCredit ==
  ASSUME NEW s \in HostType, NEW c \in CtlType, Credit(s, c), c.cmdq # <<>>
  PROVE  Len(c.cmdq) = 1 /\ s.tx.kind # "cmd" /\ s.state # "OFF" /\ ~Resetting(s)
<1>1. s.state # "OFF" /\ ~Resetting(s)
  BY DEF Credit
<1>2. PICK l \in Nat : l = Len(c.cmdq) /\ l > 0
  <2>1. c.cmdq \in Seq(Op)
    BY DEF CtlType
  <2> HIDE DEF Op
  <2> QED BY <2>1
<1>3. PICK m \in Nat : m = s.credit
  BY DEF HostType
<1>4. PICK j \in Nat, k \in Nat :
        l + m + j + k <= 1 /\ (s.tx.kind = "cmd" => j = 1)
  BY <1>2, <1>3 DEF Credit
<1>5. l = 1 /\ j = 0
  <2>1. l > 0
    BY <1>2
  <2>2. l + m + j + k <= 1
    BY <1>4
  <2> QED BY <2>1, <2>2
<1> QED BY <1>1, <1>2, <1>4, <1>5

(* A reply takes its command from the controller and brings the credit     *)
(* back, or withholds it.                                                  *)
LEMMA CommandReplyGood ==
  ASSUME NEW s, NEW c \in CtlType, NEW w, Good(s, c, w), c.cmdq # <<>>, NEW n \in 0..1,
         NEW op
  PROVE  LET t == InitializingReply([s EXCEPT !.credit = n], op)
             d == [Execute([c EXCEPT !.cmdq = Tail(@)], op) EXCEPT !.owes = (n = 0)]
         IN  Good(t, d, w) /\ d \in CtlType
<1>t. PICK t : t = InitializingReply([s EXCEPT !.credit = n], op)
  OBVIOUS
<1>d. PICK d : d = [Execute([c EXCEPT !.cmdq = Tail(@)], op) EXCEPT !.owes = (n = 0)]
  OBVIOUS
<1>0. s \in HostType /\ c.cmdq \in Seq(Op) /\ Tail(c.cmdq) \in Seq(Op)
  BY DEF Good, Almost, HostOK, CtlType
<1>o. PICK o \in BOOLEAN : o <=> n = 0
  OBVIOUS
<1>len. Len(c.cmdq) \in Nat /\ Len(c.cmdq) > 0 /\ Len(Tail(c.cmdq)) = Len(c.cmdq) - 1
  BY <1>0
<1> DEFINE q == Tail(c.cmdq)
           p == [c EXCEPT !.cmdq = Tail(c.cmdq)]
<1>1. /\ p \in CtlType
      /\ p.held = c.held /\ p.link = c.link /\ p.down = c.down /\ p.cmdq = q
  BY <1>0 DEF CtlType
<1>2. d = [Execute(p, op) EXCEPT !.owes = o]
  BY <1>o, <1>d
<1> HIDE DEF p
<1>3. d \in CtlType
  <2>1. [Execute(p, op) EXCEPT !.owes = o] \in CtlType
    BY <1>1, ExecuteType
  <2> QED BY <1>2, <2>1
<1>4. /\ d.cmdq = q /\ d.owes = o
      /\ \A h \in Handle : \/ d.held[h] = c.held[h] /\ (d.link[h] <=> c.link[h])
                           \/ d.held[h] = 0 /\ ~d.link[h]
      /\ d.down = c.down \/ d.down = {}
  <2>0. "reset" \notin Handle /\ "init" \notin Handle
    BY HandleAssumption DEF Commands
  <2>1. CASE op = "reset"
    <3>1. d = [[FreshCtl EXCEPT !.cmdq = q] EXCEPT !.owes = o]
      BY <1>1, <1>2, <2>0, <2>1 DEF Execute
    <3>2. d.cmdq = q /\ d.owes = o /\ d.held = FreshCtl.held /\ d.link = FreshCtl.link
          /\ d.down = FreshCtl.down
      BY <3>1, FreshCtlType DEF CtlType
    <3> QED BY <3>2, FreshCtlType
  <2>2. CASE op = "init"
    <3>1. d = [[p EXCEPT !.open = TRUE] EXCEPT !.owes = o]
      BY <1>2, <2>0, <2>2 DEF Execute
    <3>2. d.cmdq = p.cmdq /\ d.owes = o /\ d.held = p.held /\ d.link = p.link
          /\ d.down = p.down
      BY <1>1, <3>1 DEF CtlType
    <3> QED BY <1>1, <3>2
  <2>3. CASE op \notin {"reset", "init"} /\ op \in Handle /\ p.link[op]
    <3>1. d = [[p EXCEPT !.closing = p.closing \cup {op}] EXCEPT !.owes = o]
      BY <1>2, <2>3 DEF Execute
    <3>2. d.cmdq = p.cmdq /\ d.owes = o /\ d.held = p.held /\ d.link = p.link
          /\ d.down = p.down
      BY <1>1, <3>1 DEF CtlType
    <3> QED BY <1>1, <3>2
  <2>4. CASE op \notin {"reset", "init"} /\ ~(op \in Handle /\ p.link[op])
    <3>1. d = [p EXCEPT !.owes = o]
      BY <1>2, <2>4 DEF Execute
    <3>2. d.cmdq = p.cmdq /\ d.owes = o /\ d.held = p.held /\ d.link = p.link
          /\ d.down = p.down
      BY <1>1, <3>1 DEF CtlType
    <3> QED BY <1>1, <3>2
  <2> QED BY <2>1, <2>2, <2>3, <2>4
<1>5. /\ t \in HostType /\ t.credit = n
      /\ t.sent = s.sent /\ t.tx = s.tx /\ t.state = s.state /\ t.conn = s.conn
      /\ t.reserved = s.reserved /\ t.frags = s.frags /\ t.buf = s.buf /\ t.active = s.active
      /\ t.sub = s.sub \/ (s.state = "INITIALIZING" /\ t.sub \in {"SEND_INIT", "DONE"})
  <2> DEFINE r == [s EXCEPT !.credit = n]
  <2>1. /\ r \in HostType /\ r.credit = n
        /\ r.sent = s.sent /\ r.tx = s.tx /\ r.state = s.state /\ r.conn = s.conn
        /\ r.reserved = s.reserved /\ r.frags = s.frags /\ r.buf = s.buf
        /\ r.active = s.active /\ r.sub = s.sub
    BY <1>0 DEF HostType
  <2>2. t = InitializingReply(r, op)
    BY <1>t
  <2> HIDE DEF r
  <2>3. t = r \/ /\ r.state = "INITIALIZING"
                 /\ t = [r EXCEPT !.sub = "SEND_INIT"] \/ t = [r EXCEPT !.sub = "DONE"]
    BY <2>2 DEF InitializingReply
  <2>4. CASE t = r
    BY <2>1, <2>4
  <2>5. ASSUME NEW x \in {"SEND_INIT", "DONE"}, r.state = "INITIALIZING", t = [r EXCEPT !.sub = x]
        PROVE  /\ t \in HostType /\ t.credit = n
               /\ t.sent = s.sent /\ t.tx = s.tx /\ t.state = s.state /\ t.conn = s.conn
               /\ t.reserved = s.reserved /\ t.frags = s.frags /\ t.buf = s.buf
               /\ t.active = s.active /\ t.sub = x /\ s.state = "INITIALIZING"
    BY <2>1, <2>5 DEF HostType, Substates
  <2> QED BY <2>3, <2>4, <2>5
<1>6. HostOK(t)
  BY <1>5 DEF Good, Almost, HostOK, SlotsOK, Forgotten
<1>7. ASSUME ~w PROVE Counted(t, d) /\ Linked(t, d) /\ Credit(t, d) /\ Reserved(t)
  <2>0. Counted(s, c) /\ Linked(s, c) /\ Credit(s, c) /\ Reserved(s)
    BY <1>7 DEF Good, Almost
  <2>1. /\ Len(c.cmdq) = 1 /\ s.tx.kind # "cmd" /\ s.state # "OFF" /\ ~Resetting(s)
    BY <1>0, <2>0, LastCredit
  <2>2. ~Resetting(t)
    BY <1>5, <2>1 DEF Resetting
  <2>3. Counted(t, d)
    <3>1. \A h \in Handle : c.held[h] \in Nat /\ s.sent[h] \in Nat
      BY <1>0 DEF CtlType, HostType
    <3>2. \A h \in Handle : InTx(t, h) = InTx(s, h)
      BY <1>5 DEF InTx
    <3>3. \A h \in Handle : \/ d.held[h] = c.held[h] /\ (d.link[h] <=> c.link[h])
                            \/ d.held[h] = 0 /\ ~d.link[h]
      BY <1>4
    <3>4. t.sent = s.sent
      BY <1>5
    <3>5. ASSUME NEW h \in Handle
          PROVE  d.held[h] + (IF InTx(t, h) /\ d.link[h] THEN 1 ELSE 0) <= t.sent[h]
      <4>1. c.held[h] + (IF InTx(s, h) /\ c.link[h] THEN 1 ELSE 0) <= s.sent[h]
        BY <2>0 DEF Counted
      <4>2. CASE d.held[h] = c.held[h] /\ (d.link[h] <=> c.link[h])
        BY <3>2, <3>4, <4>1, <4>2
      <4>3. CASE d.held[h] = 0 /\ ~d.link[h]
        BY <3>1, <3>4, <4>3
      <4> QED BY <3>3, <4>2, <4>3
    <3> QED BY <3>5 DEF Counted
  <2>4. Linked(t, d)
    <3>1. c.down \subseteq Handle
      BY DEF CtlType
    <3> QED BY <1>4, <1>5, <2>0, <3>1 DEF Linked
  <2>5. Credit(t, d)
    <3>1. Len(q) = 0 /\ d.cmdq = q
      BY <1>len, <1>4, <2>1
    <3> HIDE DEF q
    <3> QED BY <1>4, <1>5, <1>o, <2>1, <2>2, <3>1 DEF Credit
  <2>6. Reserved(t)
    BY <1>5, <2>0, <2>1 DEF Reserved, Busy
  <2> QED BY <2>3, <2>4, <2>5, <2>6
<1>8. Good(t, d, w)
  BY <1>6, <1>7 DEF Good, Almost
<1> QED BY <1>t, <1>d, <1>3, <1>8

(* A command status event that only grants a credit keeps bookkeeping.     *)
LEMMA CreditGrantGood ==
  ASSUME NEW s, NEW c \in CtlType, NEW w, Good(s, c, w), c.owes, c.cmdq = <<>>,
         NEW t, t = [s EXCEPT !.credit = 1], NEW d, d = [c EXCEPT !.owes = FALSE]
  PROVE  Good(t, d, w) /\ d \in CtlType
<1>0. s \in HostType
  BY DEF Good, Almost, HostOK
<1>1. /\ d \in CtlType
      /\ d.held = c.held /\ d.link = c.link /\ d.down = c.down /\ d.cmdq = <<>> /\ ~d.owes
  BY DEF CtlType
<1>2. \A n \in 0..1 : [s EXCEPT !.credit = n] \in HostType
  BY <1>0 DEF HostType
<1>3. /\ t \in HostType /\ t.credit = 1
      /\ t.sent = s.sent /\ t.tx = s.tx /\ t.state = s.state /\ t.conn = s.conn
      /\ t.reserved = s.reserved /\ t.frags = s.frags /\ t.buf = s.buf
      /\ t.active = s.active /\ t.sub = s.sub
  <2>1. t \in HostType
    BY <1>2
  <2> QED BY <1>0, <2>1 DEF HostType
<1>4. HostOK(t)
  BY <1>3 DEF Good, Almost, HostOK, SlotsOK, Forgotten
<1>5. ASSUME ~w PROVE Counted(t, d) /\ Linked(t, d) /\ Credit(t, d) /\ Reserved(t)
  <2>0. Counted(s, c) /\ Linked(s, c) /\ Credit(s, c) /\ Reserved(s)
    BY <1>5 DEF Good, Almost
  <2>1. Counted(t, d) /\ Linked(t, d)
    BY <1>1, <1>3, <2>0 DEF Counted, InTx, Linked
  <2>2. Len(c.cmdq) = 0 /\ s.credit \in 0..1
    BY <1>0 DEF HostType
  <2>3. s.tx.kind # "cmd"
    BY <2>0, <2>2 DEF Credit
  <2>4. Credit(t, d)
    BY <1>1, <1>3, <2>2, <2>3 DEF Credit
  <2>5. Reserved(t)
    BY <1>3, <2>0 DEF Reserved, Busy, Resetting
  <2> QED BY <2>1, <2>4, <2>5
<1> QED BY <1>1, <1>4, <1>5 DEF Good, Almost

----------------------------------------------------------------------------
(* The invariant *)

(* Inv holds at first.                                                     *)
THEOREM InitInv == Init => Inv
<1> SUFFICES ASSUME Init PROVE Inv
  OBVIOUS
<1>1. host = InitialHost /\ ctl = FreshCtl /\ warm = FALSE /\ powerOffs = 0
  BY DEF Init
<1>2. TxOff \in TxType /\ TxOff.kind = "off"
  BY DEF TxOff, TxState, TxType, Op, Commands
<1> DEFINE none == [h \in Handle |-> "NONE"]
           zero == [h \in Handle |-> 0]
           Closed(n, k) ==
             [ state |-> "OFF", sub |-> "SEND_RESET", reserved |-> FALSE, credit |-> n,
               last |-> "reset", buf |-> "cmd", frags |-> k, active |-> FALSE,
               conn |-> none, sent |-> zero, gap |-> FALSE, timer |-> FALSE, tx |-> TxOff ]
<1>3. none \in [Handle -> ConStates] /\ zero \in [Handle -> Nat]
      /\ zero[H1] = 0 /\ zero[H2] = 0 /\ \A h \in Handle : zero[h] = 0
  BY DEF ConStates, Handle
<1>4. host = Closed(0, 0)
  BY <1>1 DEF InitialHost
<1> HIDE DEF none, zero
<1>5. "reset" \in Op
  BY DEF Op, Commands
<1>6. \A n \in 0..1, k \in 0..MaxFragments : Closed(n, k) \in HostType
  BY <1>2, <1>3, <1>5 DEF HostType, PowerStates, Substates
<1>7. 0 \in 0..1 /\ 0 \in 0..MaxFragments
  BY TotalAssumption
<1>8. host \in HostType /\ host.state = "OFF" /\ host.tx = TxOff /\ host.sent = zero
  BY <1>4, <1>6, <1>7
<1>9. HostOK(host)
  BY <1>2, <1>3, <1>8, NoSlotUsed DEF HostOK, SlotsOK, Forgotten
<1> QED BY <1>1, <1>8, <1>9, OffGood, FreshCtlType DEF Inv

(* Every step keeps it.                                                    *)
THEOREM NextInv == Inv /\ [Next]_vars => Inv'
<1> SUFFICES ASSUME Inv, [Next]_vars PROVE Inv'
  OBVIOUS
<1>0. /\ Good(host, ctl, warm) /\ host \in HostType /\ host.tx \in TxType
      /\ ctl \in CtlType /\ warm \in BOOLEAN /\ powerOffs \in Nat
  BY DEF Inv, Good, Almost, HostOK, HostType
<1>1. CASE PowerOn
  <2>1. PICK s : s = PowerOnFrom(Disarm(host))
    OBVIOUS
  <2>2. host' \in EmitAndRun(s) /\ ctl' = ctl /\ powerOffs' = powerOffs
        /\ warm' = (warm \/ host.state = "HALTING")
    BY <1>1, <2>1 DEF PowerOn
  <2>3. Good(s, ctl, warm')
    BY <1>0, <2>1, <2>2, DisarmGood, PowerOnGood
  <2>4. Good(host', ctl, warm') /\ warm' \in BOOLEAN
    BY <1>0, <2>2, <2>3, EmitAndRunGood
  <2> QED BY <1>0, <2>2, <2>4 DEF Inv
<1>2. CASE PowerOff
  <2>1. PICK s : s = PowerOffFrom(Disarm(host))
    OBVIOUS
  <2>2. host' \in EmitAndRun(s) /\ powerOffs' = powerOffs + 1
    BY <1>2, <2>1 DEF PowerOff
  <2>p. powerOffs' \in Nat
    BY <1>0, <2>2
  <2>3. IF s.state = "OFF" THEN HostOK(s) ELSE Good(s, ctl, warm)
    BY <1>0, <2>1, DisarmGood, PowerOffGood
  <2>4. CASE s.state = "OFF"
    <3>1. host' = s
      BY <2>2, <2>3, <2>4, EmitAndRunOff
    <3>2. ctl' = FreshCtl /\ warm' = FALSE
      BY <1>2, <2>4, <3>1 DEF PowerOff
    <3>3. Good(host', ctl', warm')
      BY <2>3, <2>4, <3>1, <3>2, OffGood
    <3>4. ctl' \in CtlType /\ warm' \in BOOLEAN
      BY <3>2, FreshCtlType, Zenon
    <3> QED BY <2>p, <3>3, <3>4 DEF Inv
  <2>5. CASE s.state # "OFF"
    <3>1. Good(host', ctl, warm)
      BY <1>0, <2>2, <2>3, <2>5, EmitAndRunGood
    <3>2. CASE host'.state = "OFF"
      <4>1. ctl' = FreshCtl /\ warm' = FALSE
        BY <1>2, <3>2 DEF PowerOff
      <4>2. HostOK(host')
        BY <3>1 DEF Good, Almost
      <4>3. Good(host', ctl', warm')
        BY <3>2, <4>1, <4>2, OffGood
      <4>4. ctl' \in CtlType /\ warm' \in BOOLEAN
        BY <4>1, FreshCtlType, Zenon
      <4> QED BY <2>p, <4>3, <4>4 DEF Inv
    <3>3. CASE host'.state # "OFF"
      BY <1>0, <1>2, <2>2, <3>1, <3>3 DEF PowerOff, Inv
    <3> QED BY <3>2, <3>3
  <2> QED BY <2>4, <2>5
<1>3. CASE HaltingTimeout
  <2>1. PICK s \in Emit(host) : host' = TransportOff(DiscardConnections(s))
    BY <1>3 DEF HaltingTimeout
  <2>2. s \in HostType
    BY <1>0, EmitGood DEF Good, Almost, HostOK
  <2> DEFINE none == [h \in Handle |-> "NONE"]
             zero == [h \in Handle |-> 0]
             r == DiscardConnections(s)
  <2>3. none \in [Handle -> ConStates] /\ zero \in [Handle -> Nat]
        /\ zero[H1] = 0 /\ zero[H2] = 0 /\ \A h \in Handle : zero[h] = 0
    BY DEF ConStates, Handle
  <2>4. r = [s EXCEPT !.conn = none, !.sent = zero]
    BY DEF DiscardConnections
  <2> HIDE DEF none, zero
  <2>5. r \in HostType /\ r.sent = zero
    BY <2>2, <2>3, <2>4 DEF HostType
  <2> HIDE DEF r
  <2>6. SlotsOK(r) /\ Forgotten(r)
    BY <2>3, <2>5, NoSlotUsed DEF SlotsOK, Forgotten
  <2>7. HostOK(host') /\ host'.state = "OFF"
    BY <2>1, <2>5, <2>6, TransportOffOK DEF r
  <2>8. ctl' = FreshCtl /\ warm' = FALSE /\ powerOffs' = powerOffs
    BY <1>3 DEF HaltingTimeout
  <2> QED BY <1>0, <2>7, <2>8, OffGood, FreshCtlType DEF Inv
<1>4. CASE ClientSend
  <2>1. host' \in Emit(host) /\ UNCHANGED <<ctl, warm, powerOffs>>
    BY <1>4 DEF ClientSend, Emit
  <2> QED BY <1>0, <2>1, EmitGood DEF Inv
<1>5. CASE GapRequest
  <2>1. PICK s : s = [host EXCEPT !.gap = TRUE]
    OBVIOUS
  <2>2. /\ s \in HostType /\ s.sent = host.sent /\ s.tx = host.tx /\ s.credit = host.credit
        /\ s.state = host.state /\ s.sub = host.sub /\ s.reserved = host.reserved
        /\ s.frags = host.frags /\ s.buf = host.buf /\ s.active = host.active
        /\ s.conn = host.conn
    BY <1>0, <2>1 DEF HostType
  <2>3. Forgotten(s)
    BY <1>0, <2>2 DEF Good, Almost, HostOK, Forgotten
  <2>4. Good(s, ctl, warm)
    BY <1>0, <2>2, <2>3, SameBuffer
  <2>5. host' \in Run(s) /\ UNCHANGED <<ctl, warm, powerOffs>>
    BY <1>5, <2>1 DEF GapRequest
  <2> QED BY <1>0, <2>4, <2>5, RunGood DEF Inv
<1>6. CASE TransportPacketSent
  <2>1. PICK s : s = [host EXCEPT !.tx = TxIdle, !.active = FALSE,
                                  !.reserved = @ /\ host.frags > 0]
    OBVIOUS
  <2>2. Busy(host) /\ host' \in EmitAndRun(s) /\ ctl' = Take(ctl, host.tx)
        /\ UNCHANGED <<warm, powerOffs>>
    BY <1>6, <2>1 DEF TransportPacketSent, Busy
  <2>3. Good(s, ctl', warm)
    BY <1>0, <2>1, <2>2, TakeGood
  <2>4. ctl' \in CtlType
    BY <1>0, <2>2, TakeType
  <2> QED BY <1>0, <2>2, <2>3, <2>4, EmitAndRunGood DEF Inv
<1>7. CASE Reply
  <2>1. PICK n \in 0..1 : CommandReply(n)
    BY <1>7 DEF Reply
  <2> DEFINE op == Head(ctl.cmdq)
             s == InitializingReply([host EXCEPT !.credit = n], op)
             d == [Execute([ctl EXCEPT !.cmdq = Tail(@)], op) EXCEPT !.owes = (n = 0)]
  <2>3. ctl' = d /\ ctl.cmdq # <<>> /\ host' \in EmitAndRun(s) /\ UNCHANGED <<warm, powerOffs>>
    BY <2>1 DEF CommandReply
  <2>4. Good(s, d, warm) /\ d \in CtlType
    BY <1>0, <2>3, CommandReplyGood
  <2> HIDE DEF s, d
  <2>5. Good(host', d, warm)
    BY <2>3, <2>4, EmitAndRunGood
  <2> QED BY <1>0, <2>3, <2>4, <2>5 DEF Inv
<1>8. CASE CreditGrant
  <2>1. PICK s : s = [host EXCEPT !.credit = 1]
    OBVIOUS
  <2>2. /\ ctl.owes /\ ctl.cmdq = <<>> /\ ctl' = [ctl EXCEPT !.owes = FALSE]
        /\ host' \in EmitAndRun(s) /\ UNCHANGED <<warm, powerOffs>>
    BY <1>8, <2>1 DEF CreditGrant
  <2>3. Good(s, ctl', warm) /\ ctl' \in CtlType
    BY <1>0, <2>1, <2>2, CreditGrantGood
  <2> QED BY <1>0, <2>2, <2>3, EmitAndRunGood DEF Inv
<1>9. ASSUME NEW h \in Handle, GapDisconnect(h) PROVE Inv'
  <2> DEFINE o == [host.conn EXCEPT ![h] = "SEND_DISCONNECT"]
  <2>1. PICK s : s = [host EXCEPT !.conn[h] = "SEND_DISCONNECT"]
    OBVIOUS
  <2>2. /\ host.conn[h] = "OPEN" /\ host' \in Run(s) /\ UNCHANGED <<ctl, warm, powerOffs>>
    BY <1>9, <2>1 DEF GapDisconnect
  <2>3. s = [host EXCEPT !.conn = o]
    BY <1>0, <2>1 DEF HostType
  <2>4. o \in [Handle -> ConStates] /\ o[h] = "SEND_DISCONNECT"
        /\ \A k \in Handle \ {h} : o[k] = host.conn[k]
    BY <1>0 DEF HostType, ConStates
  <2> HIDE DEF o
  <2>5. /\ s \in HostType /\ s.sent = host.sent /\ s.tx = host.tx /\ s.credit = host.credit
        /\ s.state = host.state /\ s.sub = host.sub /\ s.reserved = host.reserved
        /\ s.frags = host.frags /\ s.buf = host.buf /\ s.active = host.active
        /\ s.conn = o
    BY <1>0, <2>3, <2>4 DEF HostType
  <2>6. Forgotten(s)
    BY <1>0, <2>4, <2>5 DEF Good, Almost, HostOK, Forgotten
  <2>7. Good(s, ctl, warm)
    BY <1>0, <2>5, <2>6, SameBuffer
  <2> QED BY <1>0, <2>2, <2>7, RunGood DEF Inv
<1>10. ASSUME NEW h \in Handle, Complete(h) PROVE Inv'
  <2>1. PICK n \in Nat : NumberOfCompletedPackets(h, n)
    BY <1>10, TotalAssumption DEF Complete
  <2>2. PICK s : s = Completed(host, h, n)
    OBVIOUS
  <2>3. /\ n <= ctl.held[h] /\ ctl' = [ctl EXCEPT !.held[h] = @ - n]
        /\ host' \in EmitAndRun(s) /\ UNCHANGED <<warm, powerOffs>>
    BY <2>1, <2>2 DEF NumberOfCompletedPackets
  <2>4. Good(s, ctl', warm) /\ ctl' \in CtlType
    BY <1>0, <2>2, <2>3, CompletedGood
  <2> QED BY <1>0, <2>3, <2>4, EmitAndRunGood DEF Inv
<1>11. ASSUME NEW h \in Handle, LinkUp(h) PROVE Inv'
  <2> DEFINE l == [ctl.link EXCEPT ![h] = TRUE]
  <2>1. /\ host.state \in {"WORKING", "HALTING"} \/ warm
        /\ h \notin ctl.down /\ ~InTx(host, h)
        /\ ctl' = [ctl EXCEPT !.link[h] = TRUE, !.up = @ \cup {h}]
        /\ UNCHANGED <<host, warm, powerOffs>>
    BY <1>11 DEF LinkUp, InTx
  <2>2. ctl' = [ctl EXCEPT !.link = l, !.up = ctl.up \cup {h}]
    BY <1>0, <2>1 DEF CtlType
  <2>3. /\ l \in [Handle -> BOOLEAN] /\ l[h] /\ \A k \in Handle \ {h} : l[k] = ctl.link[k]
        /\ ctl.up \cup {h} \in SUBSET Handle
    BY <1>0 DEF CtlType
  <2> HIDE DEF l
  <2>4. /\ ctl' \in CtlType /\ ctl'.link = l /\ ctl'.held = ctl.held /\ ctl'.down = ctl.down
        /\ ctl'.cmdq = ctl.cmdq /\ ctl'.owes = ctl.owes
    BY <1>0, <2>2, <2>3 DEF CtlType
  <2>5. ASSUME ~warm
        PROVE  Counted(host, ctl') /\ Linked(host, ctl') /\ Credit(host, ctl') /\ Reserved(host)
    <3>0. Counted(host, ctl) /\ Linked(host, ctl) /\ Credit(host, ctl) /\ Reserved(host)
      BY <1>0, <2>5 DEF Good, Almost
    <3>1. Counted(host, ctl')
      BY <2>1, <2>3, <2>4, <3>0 DEF Counted
    <3>2. Linked(host, ctl')
      <4>1. ctl.down \subseteq Handle
        BY <1>0 DEF CtlType
      <4> QED BY <2>1, <2>3, <2>4, <2>5, <3>0, <4>1 DEF Linked
    <3>3. Credit(host, ctl')
      BY <2>4, <3>0 DEF Credit
    <3> QED BY <3>0, <3>1, <3>2, <3>3
  <2> QED BY <1>0, <2>1, <2>4, <2>5 DEF Inv, Good, Almost
<1>12. ASSUME NEW h \in Handle, ConnectionComplete(h) PROVE Inv'
  <2>1. PICK s : s = [host EXCEPT !.conn[h] = "OPEN",
                                  !.sent[h] = IF host.conn[h] = "NONE" THEN 0 ELSE @]
    OBVIOUS
  <2>2. /\ host' \in EmitAndRun(s) /\ ctl' = [ctl EXCEPT !.up = @ \ {h}]
        /\ UNCHANGED <<warm, powerOffs>>
    BY <1>12, <2>1 DEF ConnectionComplete
  <2>3. Good(s, ctl, warm)
    BY <1>0, <2>1, ConnectionCompleteGood
  <2>4. /\ ctl' \in CtlType /\ ctl'.link = ctl.link /\ ctl'.held = ctl.held
        /\ ctl'.down = ctl.down /\ ctl'.cmdq = ctl.cmdq /\ ctl'.owes = ctl.owes
    BY <1>0, <2>2 DEF CtlType
  <2>5. Good(s, ctl', warm)
    BY <2>3, <2>4 DEF Good, Almost, Counted, Linked, Credit
  <2> QED BY <1>0, <2>2, <2>4, <2>5, EmitAndRunGood DEF Inv
<1>13. ASSUME NEW h \in Handle, LinkDown(h) PROVE Inv'
  <2> DEFINE l == [ctl.link EXCEPT ![h] = FALSE]
             g == [ctl.held EXCEPT ![h] = 0]
             p == [ctl.partial EXCEPT ![h] = FALSE]
  <2>1. ctl' = [ctl EXCEPT !.link = l, !.held = g, !.partial = p,
                           !.closing = ctl.closing \ {h}, !.down = ctl.down \cup {h}]
        /\ UNCHANGED <<host, warm, powerOffs>>
    BY <1>0, <1>13 DEF LinkDown, CtlType
  <2>2. /\ l \in [Handle -> BOOLEAN] /\ ~l[h] /\ \A k \in Handle \ {h} : l[k] = ctl.link[k]
        /\ g \in [Handle -> Nat] /\ g[h] = 0 /\ \A k \in Handle \ {h} : g[k] = ctl.held[k]
        /\ p \in [Handle -> BOOLEAN]
        /\ ctl.closing \ {h} \in SUBSET Handle /\ ctl.down \cup {h} \in SUBSET Handle
    BY <1>0 DEF CtlType
  <2> HIDE DEF l, g, p
  <2>3. /\ ctl' \in CtlType /\ ctl'.link = l /\ ctl'.held = g /\ ctl'.down = ctl.down \cup {h}
        /\ ctl'.cmdq = ctl.cmdq /\ ctl'.owes = ctl.owes
    BY <1>0, <2>1, <2>2 DEF CtlType
  <2>4. ASSUME ~warm
        PROVE  Counted(host, ctl') /\ Linked(host, ctl') /\ Credit(host, ctl') /\ Reserved(host)
    <3>0. Counted(host, ctl) /\ Linked(host, ctl) /\ Credit(host, ctl) /\ Reserved(host)
      BY <1>0, <2>4 DEF Good, Almost
    <3>1. Counted(host, ctl')
      <4>1. \A k \in Handle : host.sent[k] \in Nat
        BY <1>0 DEF HostType
      <4> QED BY <2>2, <2>3, <3>0, <4>1 DEF Counted
    <3>2. Linked(host, ctl')
      <4>1. ctl.down \subseteq Handle
        BY <1>0 DEF CtlType
      <4> QED BY <2>2, <2>3, <3>0, <4>1 DEF Linked
    <3>3. Credit(host, ctl')
      BY <2>3, <3>0 DEF Credit
    <3> QED BY <3>0, <3>1, <3>2, <3>3
  <2> QED BY <1>0, <2>1, <2>3, <2>4 DEF Inv, Good, Almost
<1>14. ASSUME NEW h \in Handle, DisconnectionComplete(h) PROVE Inv'
  <2>1. h \in ctl.down /\ ctl' = [ctl EXCEPT !.down = @ \ {h}] /\ UNCHANGED <<warm, powerOffs>>
    BY <1>14 DEF DisconnectionComplete
  <2>2. PICK s, r : /\ s = DropFragments(host, h) /\ r = Disconnected(s, h)
    OBVIOUS
  <2>3. PICK t \in Emit(r) : host' \in Run(ShutdownConnection(t, h))
    BY <1>14, <2>2 DEF DisconnectionComplete
  <2>4. ~warm => ~ctl.link[h]
    BY <1>0, <2>1 DEF Good, Almost, Linked
  <2>5. Good(s, ctl, warm)
    BY <1>0, <2>2, DropFragmentsGood
  <2>6. Good(r, ctl, warm)
    <3>1. CASE s.conn[h] = "NONE"
      <4>1. r = s
        BY <2>2, <3>1 DEF Disconnected
      <4> QED BY <2>5, <4>1
    <3>2. CASE s.conn[h] # "NONE"
      <4>1. r = [s EXCEPT !.conn[h] = "RECEIVED_DISCONNECTION_COMPLETE", !.sent[h] = 0]
        BY <2>2, <3>2 DEF Disconnected
      <4>2. "RECEIVED_DISCONNECTION_COMPLETE" \in ConStates
        BY DEF ConStates
      <4> QED BY <1>0, <2>4, <2>5, <4>1, <4>2, ForgetGood
    <3> QED BY <3>1, <3>2
  <2>7. Good(t, ctl, warm)
    BY <1>0, <2>3, <2>6, EmitGood
  <2>8. PICK u : u = ShutdownConnection(t, h)
    OBVIOUS
  <2>9. Good(u, ctl, warm)
    <3>1. u = [t EXCEPT !.conn[h] = "NONE", !.sent[h] = 0] /\ "NONE" \in ConStates
      BY <2>8 DEF ShutdownConnection, ConStates
    <3> QED BY <1>0, <2>4, <2>7, <3>1, ForgetGood
  <2>10. /\ ctl' \in CtlType /\ ctl'.link = ctl.link /\ ctl'.held = ctl.held
         /\ ctl'.down \subseteq ctl.down /\ ctl'.cmdq = ctl.cmdq /\ ctl'.owes = ctl.owes
    <3>1. ctl.down \ {h} \in SUBSET Handle
      BY <1>0 DEF CtlType
    <3> QED BY <1>0, <2>1, <3>1 DEF CtlType
  <2>11. Good(u, ctl', warm)
    BY <2>9, <2>10 DEF Good, Almost, Counted, Linked, Credit
  <2> QED BY <1>0, <2>1, <2>3, <2>8, <2>10, <2>11, RunGood DEF Inv
<1>15. CASE UNCHANGED vars
  BY <1>15 DEF vars, Inv
<1> QED BY <1>1, <1>2, <1>3, <1>4, <1>5, <1>6, <1>7, <1>8, <1>9, <1>10, <1>11, <1>12,
           <1>13, <1>14, <1>15 DEF Next

(* Inv is an invariant of every behaviour.                                 *)
THEOREM Invariant == Spec => []Inv
BY InitInv, NextInv, PTL DEF Spec

----------------------------------------------------------------------------
(* What the invariant implies *)

(* Every run keeps the host and the controller within their types: no      *)
(* credit is counted below zero and no fragment left over twice.           *)
THEOREM TypeCorrect == Spec => []TypeOK
<1>1. Inv => TypeOK
  BY DEF Inv, Good, Almost, HostOK, TypeOK
<1> QED BY <1>1, Invariant, PTL

(* The assertions of hci_number_free_acl_slots_for_connection_type hold in *)
(* every session, restarts out of a shutdown included.                     *)
THEOREM SlotAsserts == Spec => []SlotAssertsHold
<1>1. Inv => SlotAssertsHold
  BY DEF Inv, Good, Almost, HostOK, SlotsOK, SlotAssertsHold
<1> QED BY <1>1, Invariant, PTL

(* The controller is never sent more ACL packets than it has room for:     *)
(* what it holds is counted by the host, and the host counts no more than  *)
(* the buffers.                                                            *)
THEOREM NoOverrun == Spec => []NeverOverrun
<1>1. Inv => NeverOverrun
  <2> SUFFICES ASSUME Inv, ~warm
               PROVE  IF LeTotal = 0 THEN Outstanding(ctl.held, Handle) <= AclTotal
                      ELSE /\ Outstanding(ctl.held, LeHandles) <= LeTotal
                           /\ Outstanding(ctl.held, Handle \ LeHandles) <= AclTotal
    BY DEF NeverOverrun
  <2>1. Counted(host, ctl) /\ SlotsOK(host)
    BY DEF Inv, Good, Almost, HostOK
  <2>2. /\ ctl.held[H1] \in Nat /\ ctl.held[H2] \in Nat
        /\ host.sent[H1] \in Nat /\ host.sent[H2] \in Nat
    BY DEF Inv, Good, Almost, HostOK, HostType, CtlType, Handle
  <2>3. ctl.held[H1] <= host.sent[H1] /\ ctl.held[H2] <= host.sent[H2]
    <3>1. ASSUME NEW h \in Handle, ctl.held[h] \in Nat, host.sent[h] \in Nat
          PROVE  ctl.held[h] <= host.sent[h]
      <4>1. PICK k \in Nat : ctl.held[h] + k <= host.sent[h]
        BY <2>1 DEF Counted
      <4> QED BY <3>1, <4>1
    <3> QED BY <2>2, <3>1 DEF Handle
  <2>4. FreeClassic(host.sent) >= 0 /\ (LeTotal > 0 => FreeLe(host.sent) >= 0)
    BY <2>1 DEF SlotsOK
  <2>5. CASE LeTotal = 0
    BY <2>2, <2>3, <2>4, <2>5, TotalAssumption DEF FreeClassic, Outstanding, Handle
  <2>6. CASE LeTotal # 0
    BY <2>2, <2>3, <2>4, <2>6, TotalAssumption DEF FreeClassic, FreeLe, Outstanding, Handle
  <2> QED BY <2>5, <2>6
<1> QED BY <1>1, Invariant, PTL

(* The host never has two commands outstanding, whoever sends them.        *)
THEOREM OneCommandAtATime == Spec => []OneCommand
<1>1. Inv => OneCommand
  <2> SUFFICES ASSUME Inv, ~warm
               PROVE  Len(ctl.cmdq) + host.credit + (IF host.tx.kind = "cmd" THEN 1 ELSE 0) <= 1
    BY DEF OneCommand
  <2>1. Credit(host, ctl) /\ ctl.cmdq \in Seq(Op) /\ host.credit \in 0..1
    BY DEF Inv, Good, Almost, HostOK, HostType, CtlType
  <2>2. PICK l \in Nat : l = Len(ctl.cmdq)
    <3> HIDE DEF Op
    <3> QED BY <2>1
  <2>3. PICK k \in Nat : k = IF ctl.owes THEN 1 ELSE 0
    OBVIOUS
  <2>4. PICK j \in Nat : j = IF host.tx.kind = "cmd" THEN 1 ELSE 0
    OBVIOUS
  <2>5. l + host.credit + j + k <= 1
    BY <2>1, <2>2, <2>3, <2>4 DEF Credit
  <2>6. l + host.credit + j <= 1
    BY <2>1, <2>5
  <2> QED BY <2>2, <2>4, <2>6
<1> QED BY <1>1, Invariant, PTL

(* The packet buffer is reserved while the transport sends from it and     *)
(* while fragments in it wait.                                             *)
THEOREM BufferStaysHeld == Spec => []BufferHeld
<1>1. Inv => BufferHeld
  BY DEF Inv, Good, Reserved, Busy, Resetting, BufferHeld
<1> QED BY <1>1, Invariant, PTL


----------------------------------------------------------------------------
(* The order of fragments *)

(* Fragments in the buffer, which only hci_state_reset or the first        *)
(* commands of the start-up may drop, keep it reserved.                    *)
Starting(s) == s.state = "INITIALIZING" /\ s.sub \in {"SEND_RESET", "SEND_INIT"}
Held(s) ==
  s.frags > 0 /\ s.buf # "cmd" /\ s.state # "OFF" /\ ~Starting(s) => s.reserved

(* No command has been written over fragments, and in WORKING hci_run has  *)
(* discarded those of a closed connection.                                 *)
Whole(s) == s.state \in {"WORKING", "HALTING"} /\ s.frags > 0 => s.buf # "cmd"
Settled(s) == s.state = "WORKING" /\ s.frags > 0 => s.conn[s.buf] # "NONE"

(* The controller lacks fragments of a packet exactly while the host has   *)
(* them in its buffer or the transport has the last one.                   *)
Waits(s, h) == s.frags > 0 /\ s.buf = h
FramedLink(s, c, h) ==
  /\ InTx(s, h) => /\ s.tx.start <=> ~c.partial[h]
                   /\ s.tx.more <=> Waits(s, h)
  /\ ~InTx(s, h) /\ c.partial[h] => Waits(s, h)
  /\ s.state = "WORKING" /\ Waits(s, h) =>
       s.conn[h] # "NONE" /\ (InTx(s, h) \/ c.partial[h])
Framed(s, c) ==
  \A h \in Handle : /\ c.link[h] => FramedLink(s, c, h)
                    /\ ~c.link[h] => ~c.partial[h]

(* A connection the host lists has a link, or its end is under way; after  *)
(* HCI_Reset there is none until WORKING.                                  *)
Listed(s, c) ==
  /\ \A h \in c.up : c.link[h]
  /\ s.state \in {"WORKING", "HALTING"} =>
       \A h \in Handle : s.conn[h] # "NONE" => c.link[h] \/ h \in c.down
  /\ s.state = "INITIALIZING" /\ ~Resetting(s) =>
       s.buf = "cmd" /\ \A h \in Handle : s.conn[h] = "NONE"

(* HCI_Reset is under way only in the start-up.                            *)
ResetFirst(s, c) ==
  \/ s.tx.kind = "cmd" /\ s.tx.what = "reset"
  \/ c.cmdq # <<>> /\ Head(c.cmdq) = "reset"
  => s.state = "INITIALIZING" /\ ~Resetting(s)

(* Tidy is what every handler keeps, Whole and Settled what hci_run        *)
(* restores.                                                               *)
Ordered(s, c) == Framed(s, c) /\ Listed(s, c) /\ ResetFirst(s, c)
Tidy(s, c, w) == Good(s, c, w) /\ Held(s) /\ (~w => Ordered(s, c))
OrderInv ==
  /\ Inv
  /\ Tidy(host, ctl, warm) /\ Whole(host) /\ Settled(host)

(* What a step changes that sends a command, a first fragment or a         *)
(* continuation.                                                           *)
SameConnections(s, t) == \A h \in Handle : t.conn[h] = "NONE" <=> s.conn[h] = "NONE"
SendsCommand(s, t, op) ==
  /\ CanSendCommand(s)
  /\ t.state = s.state /\ t.frags = s.frags
  /\ op # "reset" => SameConnections(s, t)
  /\ t.buf = "cmd" /\ t.reserved /\ t.tx.kind = "cmd" /\ t.tx.what = op
SendsPacket(s, t, h) ==
  /\ ~s.reserved /\ s.tx.kind = "idle" /\ s.conn[h] # "NONE"
  /\ t.state = s.state /\ t.sub = s.sub /\ t.conn = s.conn
  /\ t.buf = h /\ t.reserved /\ t.tx.kind = "acl" /\ t.tx.what = h
  /\ t.tx.start /\ (t.tx.more <=> t.frags > 0)
SendsFragment(s, t, h) ==
  /\ s.frags > 0 /\ s.buf = h /\ s.tx.kind = "idle" /\ s.conn[h] # "NONE"
  /\ t.state = s.state /\ t.sub = s.sub /\ t.conn = s.conn
  /\ t.buf = h /\ t.reserved = s.reserved /\ t.tx.kind = "acl" /\ t.tx.what = h
  /\ t.frags = s.frags - 1 /\ ~t.tx.start /\ (t.tx.more <=> t.frags > 0)

(* The transport is told the boundary flags it is given.                   *)
LEMMA TxStateFlags ==
  ASSUME NEW k, NEW op, NEW start, NEW more
  PROVE  TxState(k, op, start, more).start = start /\ TxState(k, op, start, more).more = more
BY DEF TxState

(* hci_send_prepared_cmd_packet leaves the fragments and the connections.  *)
LEMMA CommandSent ==
  ASSUME NEW s \in HostType, CanSendCommand(s), NEW r \in HostType,
         r.state = s.state, r.frags = s.frags, r.credit = 1, NEW op \in Op,
         op # "reset" => SameConnections(s, r), NEW t, t = SendCommand(r, op)
  PROVE  SendsCommand(s, t, op) /\ t.sub = r.sub /\ t.conn = r.conn
<1>1. /\ t.tx.kind = "cmd" /\ t.reserved /\ t.buf = "cmd" /\ t.conn = r.conn
      /\ t.state = r.state /\ t.sub = r.sub
  BY SendCommandFields
<1>2. t.frags = r.frags /\ t.tx = TxState("cmd", op, FALSE, FALSE)
  BY DEF SendCommand, HostType
<1>3. t.tx.what = op
  BY <1>2 DEF TxState
<1> QED BY <1>1, <1>2, <1>3 DEF SendsCommand, SameConnections

(* hci_send_acl_packet_fragments sends one of the fragments.               *)
LEMMA FragmentSent ==
  ASSUME NEW s \in HostType, s.frags > 0, NEW h \in Handle, NEW first \in BOOLEAN,
         NEW t, t = SendFragment(s, h, first)
  PROVE  /\ t.frags = s.frags - 1 /\ t.reserved = s.reserved
         /\ t.tx.start = first /\ (t.tx.more <=> t.frags > 0)
<1> DEFINE more == s.frags > 1
<1>1. /\ t.frags = s.frags - 1 /\ t.reserved = s.reserved
      /\ t.tx = TxState("acl", h, first, more)
  BY DEF SendFragment, HostType
<1>2. t.tx.start = first /\ t.tx.more = more
  BY <1>1, TxStateFlags
<1>3. more <=> t.frags > 0
  BY <1>1 DEF HostType
<1> QED BY <1>1, <1>2, <1>3

(* A client either leaves the stack alone, or sends a packet, or sends a   *)
(* command in WORKING.                                                     *)
LEMMA EmitSends ==
  ASSUME NEW s \in HostType, NEW t \in Emit(s)
  PROVE  \/ t = s
         \/ \E h \in Handle : SendsPacket(s, t, h)
         \/ s.state = "WORKING" /\ t.sub = s.sub /\ SendsCommand(s, t, "gap")
<1>1. CASE t \in AclPackets(s)
  <2>1. PICK h \in Handle, n \in 1..MaxFragments :
          ~s.reserved /\ CanSendPreparedAcl(s, h) /\ t = SendAclPacket(s, h, n)
    BY <1>1 DEF AclPackets
  <2> DEFINE r == [s EXCEPT !.reserved = TRUE, !.buf = h, !.frags = n]
  <2>2. n \in 0..MaxFragments /\ n > 0
    BY TotalAssumption
  <2>3. r \in HostType
    BY <2>2 DEF HostType
  <2>4. /\ r.state = s.state /\ r.sub = s.sub /\ r.conn = s.conn /\ r.reserved
        /\ r.buf = h /\ r.frags = n
    BY DEF HostType
  <2>5. t = SendFragment(r, h, TRUE)
    BY <2>1 DEF SendAclPacket
  <2> HIDE DEF r
  <2> DEFINE first == TRUE
  <2>f. first \in BOOLEAN /\ t = SendFragment(r, h, first) /\ r.frags > 0
    BY <2>2, <2>4, <2>5
  <2> HIDE DEF first
  <2>6. /\ t \in HostType
        /\ t.tx.kind = "acl" /\ t.tx.what = h /\ t.active /\ t.reserved = r.reserved
        /\ t.conn = r.conn /\ t.sent = [r.sent EXCEPT ![h] = @ + 1]
        /\ t.state = r.state /\ t.sub = r.sub /\ t.credit = r.credit /\ t.buf = r.buf
    BY <2>3, <2>f, SendFragmentFields
  <2>7. t.tx.start = TRUE /\ (t.tx.more <=> t.frags > 0) /\ t.reserved = r.reserved
    BY <2>2, <2>3, <2>4, <2>5, FragmentSent
  <2> QED BY <2>1, <2>4, <2>6, <2>7 DEF SendsPacket, CanSendPreparedAcl
<1>2. CASE t \in ClientCommands(s)
  <2>1. s.state = "WORKING" /\ CanSendCommand(s) /\ t = SendCommand(s, "gap")
    BY <1>2 DEF ClientCommands
  <2>2. "gap" \in Op /\ s.credit = 1 /\ SameConnections(s, s)
    BY <2>1 DEF Op, Commands, CanSendCommand, HostType, SameConnections
  <2> QED BY <2>1, <2>2, CommandSent
<1> QED BY <1>1, <1>2 DEF Emit

(* With a free buffer the controller waits for no fragments.               *)
LEMMA NoneWaiting ==
  ASSUME NEW s, NEW c, Held(s), Linked(s, c), Framed(s, c), ~s.reserved,
         s.tx.kind # "acl", NEW h \in Handle
  PROVE  ~c.partial[h] /\ (c.link[h] => ~Waits(s, h))
<1>1. h # "cmd"
  BY HandleAssumption
<1>2. CASE c.link[h]
  <2>1. s.state \notin {"OFF", "INITIALIZING"}
    BY <1>2 DEF Linked
  <2>2. ~Waits(s, h)
    BY <1>1, <2>1 DEF Held, Starting, Waits
  <2> QED BY <1>2, <2>2 DEF Framed, FramedLink, InTx
<1>3. CASE ~c.link[h]
  BY <1>3 DEF Framed
<1> QED BY <1>2, <1>3

(* A command sent from a free buffer leaves the fragments in order.        *)
LEMMA CommandOrdered ==
  ASSUME NEW s, NEW c, Held(s), Linked(s, c), Ordered(s, c), NEW op, NEW t,
         SendsCommand(s, t, op), Resetting(t) => Resetting(s),
         op = "reset" => s.state = "INITIALIZING" /\ ~Resetting(t)
                         /\ \A h \in Handle : t.conn[h] = "NONE",
         Resetting(s) => op = "reset", Credit(s, c), c \in CtlType
  PROVE  Held(t) /\ Ordered(t, c)
<1>1. /\ ~s.reserved /\ s.tx.kind = "idle" /\ s.credit > 0 /\ t.buf = "cmd"
      /\ t.state = s.state /\ t.tx.kind = "cmd" /\ t.tx.what = op /\ t.reserved
      /\ op # "reset" => SameConnections(s, t)
  BY DEF SendsCommand, CanSendCommand
<1>2. Held(t)
  BY <1>1 DEF Held
<1>3. Framed(t, c)
  <2>1. \A h \in Handle : ~c.partial[h] /\ h # "cmd"
    BY <1>1, NoneWaiting, HandleAssumption DEF Ordered
  <2> QED BY <1>1, <2>1 DEF Framed, FramedLink, InTx, Waits
<1>4. Listed(t, c)
  <2>1. CASE op = "reset"
    BY <1>1, <2>1 DEF Ordered, Listed
  <2>2. CASE op # "reset"
    BY <1>1, <2>2 DEF Ordered, Listed, SameConnections, Resetting
  <2> QED BY <2>1, <2>2
<1>5. ResetFirst(t, c)
  <2>1. CASE op = "reset"
    BY <1>1, <2>1 DEF ResetFirst
  <2>2. CASE op # "reset"
    BY <1>1, <2>2 DEF Ordered, ResetFirst, Resetting
  <2> QED BY <2>1, <2>2
<1> QED BY <1>2, <1>3, <1>4, <1>5 DEF Ordered

(* A first fragment is sent when the controller waits for none.            *)
LEMMA PacketOrdered ==
  ASSUME NEW s, NEW c, Held(s), Linked(s, c), Ordered(s, c), NEW h \in Handle, NEW t,
         SendsPacket(s, t, h)
  PROVE  Held(t) /\ Ordered(t, c)
<1>1. /\ ~s.reserved /\ s.tx.kind = "idle" /\ s.conn[h] # "NONE" /\ t.buf = h
      /\ t.state = s.state /\ t.sub = s.sub /\ t.conn = s.conn /\ t.reserved
      /\ t.tx.kind = "acl" /\ t.tx.what = h /\ t.tx.start /\ (t.tx.more <=> t.frags > 0)
  BY DEF SendsPacket
<1>2. Held(t)
  BY <1>1 DEF Held
<1>3. Framed(t, c)
  <2>1. \A k \in Handle : ~c.partial[k]
    BY <1>1, NoneWaiting DEF Ordered
  <2> QED BY <1>1, <2>1 DEF Framed, FramedLink, InTx, Waits
<1>4. Listed(t, c)
  BY <1>1 DEF Ordered, Listed, Resetting
<1>5. ResetFirst(t, c)
  BY <1>1 DEF Ordered, ResetFirst, Resetting
<1> QED BY <1>2, <1>3, <1>4, <1>5 DEF Ordered

(* A continuation is sent when the controller waits for it.                *)
LEMMA FragmentOrdered ==
  ASSUME NEW s, NEW c, Held(s), Ordered(s, c), NEW h \in Handle, NEW t,
         SendsFragment(s, t, h), s.state = "WORKING"
  PROVE  Held(t) /\ Ordered(t, c)
<1>1. /\ s.frags > 0 /\ s.buf = h /\ s.tx.kind = "idle" /\ s.conn[h] # "NONE" /\ t.buf = h
      /\ t.state = s.state /\ t.sub = s.sub /\ t.conn = s.conn /\ t.reserved = s.reserved
      /\ t.tx.kind = "acl" /\ t.tx.what = h /\ ~t.tx.start /\ (t.tx.more <=> t.frags > 0)
  BY DEF SendsFragment
<1>2. Held(t)
  BY <1>1 DEF Held, Starting
<1>3. Framed(t, c)
  <2>1. c.link[h] => c.partial[h]
    BY <1>1 DEF Ordered, Framed, FramedLink, InTx, Waits
  <2>2. \A k \in Handle \ {h} : ~c.partial[k]
    BY <1>1 DEF Ordered, Framed, FramedLink, InTx, Waits
  <2>3. ~c.link[h] => ~c.partial[h]
    BY DEF Ordered, Framed
  <2> QED BY <1>1, <2>1, <2>2, <2>3 DEF Framed, FramedLink, InTx, Waits
<1>4. Listed(t, c)
  BY <1>1 DEF Ordered, Listed, Resetting
<1>5. ResetFirst(t, c)
  BY <1>1 DEF Ordered, ResetFirst, Resetting
<1> QED BY <1>2, <1>3, <1>4, <1>5 DEF Ordered

(* What the upper layers send keeps fragments in order and never replaces  *)
(* those that wait.                                                        *)
LEMMA EmitTidy ==
  ASSUME NEW s, NEW c \in CtlType, NEW w, Tidy(s, c, w), NEW t \in Emit(s)
  PROVE  /\ Tidy(t, c, w) /\ t.state = s.state
         /\ Whole(s) => Whole(t)
         /\ Whole(s) /\ Settled(s) => Settled(t)
<1>0. /\ Good(s, c, w) /\ Held(s) /\ s \in HostType
      /\ ~w => Ordered(s, c) /\ Linked(s, c) /\ Credit(s, c)
  BY DEF Tidy, Good, Almost, HostOK
<1>1. Good(t, c, w) /\ t.state = s.state
  BY <1>0, EmitGood
<1>2. CASE t = s
  BY <1>0, <1>2 DEF Tidy
<1>3. ASSUME NEW h \in Handle, SendsPacket(s, t, h)
      PROVE  Held(t) /\ Whole(t) /\ Settled(t) /\ (~w => Ordered(t, c))
  <2>1. h # "cmd"
    BY HandleAssumption
  <2>2. Held(t) /\ Whole(t) /\ Settled(t)
    BY <1>3, <2>1 DEF SendsPacket, Held, Whole, Settled
  <2> QED BY <1>0, <1>3, <2>2, PacketOrdered
<1>4. ASSUME s.state = "WORKING", t.sub = s.sub, SendsCommand(s, t, "gap")
      PROVE  /\ Held(t) /\ (~w => Ordered(t, c))
             /\ Whole(s) => Whole(t) /\ Settled(t)
  <2>1. Held(t)
    BY <1>4 DEF SendsCommand, Held
  <2>2. ~Resetting(s) /\ ~Resetting(t)
    BY <1>1, <1>4 DEF Resetting
  <2>3. ~w => Ordered(t, c)
    BY <1>0, <1>4, <2>2, CommandOrdered
  <2>4. Whole(s) => ~(s.frags > 0)
    BY <1>0, <1>4 DEF SendsCommand, CanSendCommand, Held, Whole, Starting
  <2>5. Whole(s) => Whole(t) /\ Settled(t)
    BY <1>4, <2>4 DEF SendsCommand, Whole, Settled
  <2> QED BY <2>1, <2>3, <2>5
<1> QED BY <1>0, <1>1, <1>2, <1>3, <1>4, EmitSends DEF Tidy

----------------------------------------------------------------------------
(* hci_run and the order of fragments *)

(* A pending command is sent, or the stack is left alone.                  *)
LEMMA DisconnectSends ==
  ASSUME NEW s \in HostType, CanSendCommand(s), NEW h \in Handle, s.conn[h] # "NONE",
         NEW t, t = Disconnect(s, h)
  PROVE  SendsCommand(s, t, h) /\ t.sub = s.sub
<1> DEFINE r == [s EXCEPT !.conn[h] = "SENT_DISCONNECT"]
<1>1. r \in HostType
  BY DEF HostType, ConStates
<1>2. /\ r.state = s.state /\ r.frags = s.frags /\ r.sub = s.sub
      /\ r.credit = 1 /\ SameConnections(s, r)
  BY DEF HostType, CanSendCommand, SameConnections
<1>3. t = SendCommand(r, h) /\ h \in Op
  BY DEF Disconnect, Op
<1> HIDE DEF r
<1> QED BY <1>1, <1>2, <1>3, CommandSent

(* hci_run_general_pending_commands sends one command or none.             *)
LEMMA PendingSends ==
  ASSUME NEW s \in HostType, NEW t \in PendingCommands(s)
  PROVE  t = s \/ \E op \in {"gap"} \cup Handle : SendsCommand(s, t, op) /\ t.sub = s.sub
<1>1. CASE CanSendCommand(s) /\ t = SendCommand([s EXCEPT !.gap = FALSE], "gap")
  <2> DEFINE r == [s EXCEPT !.gap = FALSE]
  <2>0. /\ r \in HostType /\ r.state = s.state /\ r.frags = s.frags /\ r.sub = s.sub
        /\ r.credit = s.credit /\ r.conn = s.conn
    BY DEF HostType
  <2>1. r.credit = 1 /\ SameConnections(s, r)
    BY <1>1, <2>0 DEF HostType, CanSendCommand, SameConnections
  <2>2. t = SendCommand(r, "gap") /\ "gap" \in Op
    BY <1>1 DEF Op, Commands
  <2> HIDE DEF r
  <2>3. SendsCommand(s, t, "gap") /\ t.sub = s.sub
    BY <1>1, <2>0, <2>1, <2>2, CommandSent
  <2> QED BY <2>3
<1>2. CASE CanSendCommand(s) /\ \E h \in Handle :
             s.conn[h] = "SEND_DISCONNECT" /\ t = Disconnect(s, h)
  <2>1. PICK h \in Handle : s.conn[h] = "SEND_DISCONNECT" /\ t = Disconnect(s, h)
    BY <1>2
  <2>2. SendsCommand(s, t, h) /\ t.sub = s.sub
    BY <1>2, <2>1, DisconnectSends
  <2> QED BY <2>2
<1> QED
  <2>1. ~CanSendCommand(s) => t = s
    BY DEF PendingCommands
  <2>2. CanSendCommand(s) /\ s.gap => t = SendCommand([s EXCEPT !.gap = FALSE], "gap")
    BY DEF PendingCommands
  <2>3. CanSendCommand(s) /\ ~s.gap =>
          t = s \/ \E h \in Handle : s.conn[h] = "SEND_DISCONNECT" /\ t = Disconnect(s, h)
    BY DEF PendingCommands
  <2> QED BY <1>1, <1>2, <2>1, <2>2, <2>3

(* A command sent in WORKING or HALTING replaces no fragments.             *)
LEMMA CommandTidy ==
  ASSUME NEW s, NEW c \in CtlType, NEW w, Tidy(s, c, w), Whole(s),
         s.state \in {"WORKING", "HALTING"},
         NEW op, op # "reset", NEW t, SendsCommand(s, t, op)
  PROVE  Held(t) /\ Whole(t) /\ Settled(t) /\ (~w => Ordered(t, c))
<1>1. t.state = s.state /\ ~Resetting(s) /\ ~Resetting(t)
  BY DEF SendsCommand, Resetting
<1>2. ~(s.frags > 0)
  BY DEF Tidy, SendsCommand, CanSendCommand, Held, Whole, Starting
<1>3. Held(t) /\ Whole(t) /\ Settled(t)
  BY <1>2 DEF SendsCommand, Held, Whole, Settled
<1>4. ASSUME ~w PROVE Ordered(t, c)
  <2>1. Held(s) /\ Ordered(s, c) /\ Linked(s, c) /\ Credit(s, c)
    BY <1>4 DEF Tidy, Good, Almost
  <2> QED BY <1>1, <2>1, CommandOrdered
<1> QED BY <1>3, <1>4

(* The same for the pending commands of WORKING.                           *)
LEMMA PendingTidy ==
  ASSUME NEW s, NEW c \in CtlType, NEW w, Tidy(s, c, w), Whole(s), Settled(s),
         s.state = "WORKING", NEW t \in PendingCommands(s)
  PROVE  Tidy(t, c, w) /\ Whole(t) /\ Settled(t)
<1>1. s \in HostType /\ Good(s, c, w) /\ ~Resetting(s)
  BY DEF Tidy, Good, Almost, HostOK, Resetting
<1>2. Good(t, c, w)
  BY <1>1, PendingCommandsGood
<1>3. CASE t = s
  BY <1>3
<1>4. ASSUME NEW op \in {"gap"} \cup Handle, SendsCommand(s, t, op)
      PROVE  Held(t) /\ Whole(t) /\ Settled(t) /\ (~w => Ordered(t, c))
  <2>1. op # "reset"
    BY HandleAssumption DEF Commands
  <2> QED BY <1>4, <2>1, CommandTidy
<1> QED BY <1>1, <1>2, <1>3, <1>4, PendingSends DEF Tidy

(* WORKING first sends the fragments that wait, or discards them.          *)
LEMMA RunWorkingTidy ==
  ASSUME NEW s, NEW c \in CtlType, NEW w, Tidy(s, c, w), s.state = "WORKING",
         NEW t \in RunWorking(s)
  PROVE  Tidy(t, c, w) /\ Whole(t) /\ Settled(t)
<1>0. /\ s \in HostType /\ Good(s, c, w) /\ Held(s)
      /\ ~w => Ordered(s, c) /\ Linked(s, c)
  BY DEF Tidy, Good, Almost, HostOK
<1>1. CASE s.frags = 0
  <2>1. t \in PendingCommands(s)
    BY <1>1 DEF RunWorking
  <2>2. Whole(s) /\ Settled(s)
    BY <1>1 DEF Whole, Settled
  <2> QED BY <2>1, <2>2, PendingTidy
<1>2. CASE s.frags # 0 /\ (s.buf = "cmd" \/ s.conn[s.buf] = "NONE")
  <2>1. PICK r : r = [s EXCEPT !.frags = 0]
    OBVIOUS
  <2>2. t \in PendingCommands(r)
    BY <1>2, <2>1, Zenon DEF RunWorking
  <2>3. /\ Good(r, c, w) /\ r.frags = 0
        /\ r.state = s.state /\ r.sub = s.sub /\ r.tx = s.tx /\ r.conn = s.conn /\ r.buf = s.buf
    BY <1>0, <2>1, DiscardGood
  <2>4. Held(r) /\ Whole(r) /\ Settled(r)
    BY <2>3 DEF Held, Whole, Settled
  <2>5. ASSUME ~w PROVE Ordered(r, c)
    <3>1. \A h \in Handle : ~Waits(r, h) /\ (c.link[h] => ~Waits(s, h))
      <4>1. \A h \in Handle : c.link[h] => FramedLink(s, c, h)
        BY <1>0, <2>5 DEF Ordered, Framed
      <4> QED BY <1>2, <2>3, <4>1, HandleAssumption DEF FramedLink, Waits
    <3>2. Framed(r, c)
      BY <1>0, <2>3, <2>5, <3>1 DEF Ordered, Framed, FramedLink, InTx
    <3>3. Listed(r, c) /\ ResetFirst(r, c)
      BY <1>0, <2>3, <2>5 DEF Ordered, Listed, ResetFirst, Resetting
    <3> QED BY <3>2, <3>3 DEF Ordered
  <2>6. Tidy(r, c, w)
    BY <2>3, <2>4, <2>5 DEF Tidy
  <2> QED BY <2>2, <2>3, <2>4, <2>6, PendingTidy
<1>3. CASE s.frags # 0 /\ ~(s.buf = "cmd" \/ s.conn[s.buf] = "NONE")
  <2>1. IF CanSendPreparedAcl(s, s.buf) THEN t = SendFragment(s, s.buf, FALSE)
                                        ELSE t \in PendingCommands(s)
    BY <1>3, Zenon DEF RunWorking
  <2>2. s.frags > 0 /\ s.buf \in Handle
    BY <1>0, <1>3 DEF HostType
  <2>3. Whole(s) /\ Settled(s)
    BY <1>3 DEF Whole, Settled
  <2>4. CASE ~CanSendPreparedAcl(s, s.buf)
    BY <2>1, <2>3, <2>4, PendingTidy
  <2>5. CASE CanSendPreparedAcl(s, s.buf)
    <3>1. PICK h \in Handle : h = s.buf
      BY <2>2
    <3>2. SendsFragment(s, t, h)
      <4> DEFINE first == FALSE
      <4>1. first \in BOOLEAN /\ t = SendFragment(s, h, first)
        BY <2>1, <2>5, <3>1
      <4>2. first = FALSE
        OBVIOUS
      <4> HIDE DEF first
      <4>3. /\ t \in HostType
            /\ t.tx.kind = "acl" /\ t.tx.what = h /\ t.active /\ t.reserved = s.reserved
            /\ t.conn = s.conn /\ t.sent = [s.sent EXCEPT ![h] = @ + 1]
            /\ t.state = s.state /\ t.sub = s.sub /\ t.credit = s.credit /\ t.buf = s.buf
        BY <1>0, <2>2, <4>1, SendFragmentFields
      <4>4. /\ t.frags = s.frags - 1 /\ t.reserved = s.reserved
            /\ t.tx.start = first /\ (t.tx.more <=> t.frags > 0)
        BY <1>0, <2>2, <4>1, FragmentSent
      <4> QED BY <2>2, <2>5, <3>1, <4>2, <4>3, <4>4 DEF SendsFragment, CanSendPreparedAcl
    <3>3. Good(t, c, w)
      BY <1>0, RunWorkingGood
    <3>4. Held(t) /\ (~w => Ordered(t, c))
      <4>1. Held(t)
        BY <1>0, <2>2, <3>2 DEF SendsFragment, Held, Starting
      <4> QED BY <1>0, <3>2, <4>1, FragmentOrdered
    <3>5. Whole(t) /\ Settled(t)
      BY <1>3, <3>1, <3>2 DEF SendsFragment, Whole, Settled
    <3> QED BY <3>3, <3>4, <3>5 DEF Tidy
  <2> QED BY <2>4, <2>5
<1> QED BY <1>1, <1>2, <1>3

(* A change the order of fragments is not about.                           *)
LEMMA SameOrder ==
  ASSUME NEW s, NEW c, Ordered(s, c), NEW t, NEW d,
         t.state = s.state, t.tx = s.tx, t.frags = s.frags, t.buf = s.buf,
         Resetting(t) <=> Resetting(s), SameConnections(s, t),
         d.link = c.link, d.partial = c.partial, d.up \subseteq c.up, c.down \subseteq d.down,
         d.cmdq = c.cmdq
  PROVE  Ordered(t, d)
<1>1. Framed(t, d)
  BY DEF Ordered, Framed, FramedLink, InTx, Waits, SameConnections
<1>2. Listed(t, d)
  BY DEF Ordered, Listed, SameConnections
<1>3. ResetFirst(t, d)
  BY DEF Ordered, ResetFirst
<1> QED BY <1>1, <1>2, <1>3 DEF Ordered

(* HALTING sends one command, or moves to its next substate.               *)
LEMMA DisconnectAllSends ==
  ASSUME NEW s \in HostType, CanSendCommand(s), NEW t \in DisconnectAll(s)
  PROVE  \/ \E op \in Handle : SendsCommand(s, t, op)
         \/ /\ t.state = s.state /\ t.tx = s.tx /\ t.frags = s.frags /\ t.buf = s.buf
            /\ t.reserved = s.reserved /\ t.conn = s.conn
<1>1. CASE t = s
  BY <1>1
<1>2. CASE t = [s EXCEPT !.sub = "W4_CLOSE_TIMER", !.timer = TRUE]
  BY <1>2 DEF HostType
<1>3. CASE \E h \in Handle : s.conn[h] # "NONE" /\ t = Disconnect(s, h)
  BY <1>3, DisconnectSends
<1> QED BY <1>1, <1>2, <1>3 DEF DisconnectAll

(* The same for all of hci_halting_run.                                    *)
LEMMA HaltingSends ==
  ASSUME NEW s \in HostType, NEW t \in RunHalting(s)
  PROVE  \/ \E op \in {"stop"} \cup Handle : SendsCommand(s, t, op)
         \/ /\ t.state = s.state /\ t.tx = s.tx /\ t.frags = s.frags /\ t.buf = s.buf
            /\ t.reserved = s.reserved /\ t.conn = s.conn
<1> DEFINE r == [s EXCEPT !.sub = "DISCONNECT_ALL"]
<1>1. /\ r \in HostType
      /\ r.tx = s.tx /\ r.credit = s.credit /\ r.state = s.state
      /\ r.reserved = s.reserved /\ r.conn = s.conn /\ r.frags = s.frags /\ r.buf = s.buf
  BY DEF HostType, Substates
<1>2. CASE t = s
  BY <1>2
<1>3. CASE CanSendCommand(s) /\ t \in {SendCommand(r, "stop")} \cup DisconnectAll(r)
  <2> HIDE DEF r
  <2>1. CanSendCommand(r) /\ r.credit = 1 /\ SameConnections(s, r)
    BY <1>1, <1>3 DEF CanSendCommand, HostType, SameConnections
  <2>2. CASE t = SendCommand(r, "stop")
    <3>1. "stop" \in Op
      BY DEF Op, Commands
    <3>2. SendsCommand(s, t, "stop")
      BY <1>1, <1>3, <2>1, <2>2, <3>1, CommandSent
    <3> QED BY <3>2
  <2>3. CASE t \in DisconnectAll(r)
    <3>1. ASSUME NEW op \in Handle, SendsCommand(r, t, op) PROVE SendsCommand(s, t, op)
      BY <1>1, <1>3, <3>1 DEF SendsCommand, SameConnections
    <3> QED BY <1>1, <2>1, <2>3, <3>1, DisconnectAllSends
  <2> QED BY <1>3, <2>2, <2>3
<1>4. CASE CanSendCommand(s) /\ t \in DisconnectAll(s)
  BY <1>4, DisconnectAllSends
<1> QED
  <2>1. CASE ~CanSendCommand(s)
    BY <1>2, <2>1 DEF RunHalting
  <2>2. CASE CanSendCommand(s) /\ s.sub = "STOP"
    BY <1>3, <2>2 DEF RunHalting
  <2>3. CASE CanSendCommand(s) /\ s.sub = "DISCONNECT_ALL"
    BY <1>4, <2>3 DEF RunHalting
  <2>4. CASE CanSendCommand(s) /\ s.sub \notin {"STOP", "DISCONNECT_ALL"}
    BY <1>2, <2>4 DEF RunHalting
  <2> QED BY <2>1, <2>2, <2>3, <2>4

(* HALTING never replaces fragments.                                       *)
LEMMA RunHaltingTidy ==
  ASSUME NEW s, NEW c \in CtlType, NEW w, Tidy(s, c, w), Whole(s), s.state = "HALTING",
         NEW t \in RunHalting(s)
  PROVE  Tidy(t, c, w) /\ Whole(t) /\ Settled(t)
<1>1. /\ s \in HostType /\ Good(s, c, w) /\ Held(s) /\ (~w => Ordered(s, c))
  BY DEF Tidy, Good, Almost, HostOK
<1>2. Good(t, c, w)
  BY <1>1, RunHaltingGood
<1>3. ASSUME NEW op \in {"stop"} \cup Handle, SendsCommand(s, t, op)
      PROVE  Held(t) /\ Whole(t) /\ Settled(t) /\ (~w => Ordered(t, c))
  <2>1. op # "reset"
    BY HandleAssumption DEF Commands
  <2> QED BY <1>3, <2>1, CommandTidy
<1>4. ASSUME t.state = s.state, t.tx = s.tx, t.frags = s.frags, t.buf = s.buf,
             t.reserved = s.reserved, t.conn = s.conn
      PROVE  Held(t) /\ Whole(t) /\ Settled(t) /\ (~w => Ordered(t, c))
  <2>1. Held(t) /\ Whole(t) /\ Settled(t)
    BY <1>1, <1>4 DEF Held, Whole, Settled, Starting
  <2>2. ~Resetting(t) /\ ~Resetting(s) /\ SameConnections(s, t)
    BY <1>4 DEF Resetting, SameConnections
  <2> QED BY <1>1, <1>4, <2>1, <2>2, SameOrder
<1> QED BY <1>1, <1>2, <1>3, <1>4, HaltingSends DEF Tidy

(* The start-up ends with hci_run of WORKING.                              *)
LEMMA InitDoneTidy ==
  ASSUME NEW s, NEW c \in CtlType, NEW w, Tidy(s, c, w), s.state = "INITIALIZING",
         s.sub = "DONE", CanSendCommand(s), NEW t \in InitDone(s)
  PROVE  Tidy(t, c, w) /\ Whole(t) /\ Settled(t)
<1> DEFINE r == [s EXCEPT !.state = "WORKING"]
<1>1. /\ s \in HostType /\ Good(s, c, w) /\ Held(s)
      /\ ~w => Ordered(s, c) /\ Linked(s, c) /\ Credit(s, c)
      /\ s.tx.kind = "idle" /\ s.credit = 1
  BY DEF Tidy, Good, Almost, HostOK, CanSendCommand, HostType
<1>2. /\ r.sent = s.sent /\ r.tx = s.tx /\ r.credit = s.credit /\ r.state = "WORKING"
      /\ r.sub = s.sub /\ r.reserved = s.reserved /\ r.conn = s.conn /\ r.frags = s.frags
      /\ r.buf = s.buf /\ r.active = s.active /\ r \in HostType
  BY <1>1 DEF HostType, PowerStates
<1>3. PICK u \in Emit(r) : t \in RunWorking(u)
  BY DEF InitDone
<1> HIDE DEF r
<1>4. Good(r, c, w)
  <2>1. HostOK(r)
    BY <1>1, <1>2 DEF Good, Almost, HostOK, SlotsOK, Forgotten
  <2>2. ASSUME ~w PROVE Counted(r, c) /\ Linked(r, c) /\ Credit(r, c) /\ Reserved(r)
    BY <1>1, <1>2, <2>2 DEF Good, Almost, Counted, InTx, Linked, Credit, Resetting, Reserved, Busy
  <2> QED BY <2>1, <2>2 DEF Good, Almost
<1>5. Held(r)
  BY <1>1, <1>2 DEF Held, Starting
<1>6. ASSUME ~w PROVE Ordered(r, c)
  <2>1. ~Resetting(s) /\ \A h \in Handle : ~c.link[h]
    BY <1>1, <1>6 DEF Linked, Resetting
  <2>2. Framed(r, c)
    BY <1>1, <1>6, <2>1 DEF Ordered, Framed
  <2>3. Listed(r, c)
    BY <1>1, <1>2, <1>6, <2>1 DEF Ordered, Listed
  <2>4. c.cmdq = <<>>
    <3>1. c.cmdq # <<>> => Len(c.cmdq) \in Nat /\ Len(c.cmdq) > 0
      <4>1. c.cmdq \in Seq(Op)
        BY DEF CtlType
      <4> HIDE DEF Op
      <4> QED BY <4>1
    <3>2. PICK j \in Nat, k \in Nat : Len(c.cmdq) + 1 + j + k <= 1
      BY <1>1, <1>6 DEF Credit
    <3> QED BY <3>1, <3>2
  <2>5. ResetFirst(r, c)
    BY <1>1, <1>2, <2>4 DEF ResetFirst
  <2> QED BY <2>2, <2>3, <2>5 DEF Ordered
<1>7. Tidy(r, c, w)
  BY <1>4, <1>5, <1>6 DEF Tidy
<1>8. Tidy(u, c, w) /\ u.state = "WORKING"
  BY <1>2, <1>3, <1>7, EmitTidy
<1> QED BY <1>3, <1>8, RunWorkingTidy

(* The commands of the start-up keep the order, HCI_Reset the first of     *)
(* them.                                                                   *)
LEMMA RunInitializingTidy ==
  ASSUME NEW s, NEW c \in CtlType, NEW w, Tidy(s, c, w), s.state = "INITIALIZING",
         NEW t \in RunInitializing(s)
  PROVE  Tidy(t, c, w) /\ Whole(t) /\ Settled(t)
<1>0. /\ s \in HostType /\ Good(s, c, w) /\ Held(s)
      /\ ~w => Ordered(s, c) /\ Linked(s, c) /\ Credit(s, c)
  BY DEF Tidy, Good, Almost, HostOK
<1>g. Good(t, c, w)
  BY <1>0, RunInitializingGood
<1>c. ASSUME NEW op, SendsCommand(s, t, op), ~Resetting(t), Resetting(s) => op = "reset",
             op = "reset" => \A h \in Handle : t.conn[h] = "NONE"
      PROVE  Tidy(t, c, w) /\ Whole(t) /\ Settled(t)
  <2>1. Held(t) /\ Whole(t) /\ Settled(t)
    BY <1>c DEF SendsCommand, Held, Whole, Settled
  <2>2. ~w => Ordered(t, c)
    BY <1>0, <1>c, CommandOrdered
  <2> QED BY <1>g, <2>1, <2>2 DEF Tidy
<1>1. CASE t = s
  BY <1>1 DEF Whole, Settled
<1>2. CASE /\ CanSendCommand(s) /\ s.sub = "SEND_RESET"
           /\ t = SendCommand([StateReset(s) EXCEPT !.sub = "W4_RESET"], "reset")
  <2> DEFINE none == [h \in Handle |-> "NONE"]
             zero == [h \in Handle |-> 0]
  <2>1. PICK r : r = [StateReset(s) EXCEPT !.sub = "W4_RESET"]
    OBVIOUS
  <2>2. r = [s EXCEPT !.reserved = FALSE, !.conn = none, !.sent = zero, !.gap = TRUE,
                      !.sub = "W4_RESET"]
    BY <1>0, <2>1 DEF StateReset, HostType
  <2>3. none \in [Handle -> ConStates] /\ zero \in [Handle -> Nat]
    BY DEF ConStates
  <2>4. \A h \in Handle : none[h] = "NONE"
    OBVIOUS
  <2> HIDE DEF none, zero
  <2>5. /\ r \in HostType /\ r.state = s.state /\ r.frags = s.frags /\ r.sub = "W4_RESET"
        /\ r.credit = s.credit /\ r.conn = none
    BY <1>0, <2>2, <2>3 DEF HostType, Substates
  <2>6. t = SendCommand(r, "reset") /\ "reset" \in Op /\ r.credit = 1
    BY <1>0, <1>2, <2>1, <2>5 DEF Op, Commands, CanSendCommand, HostType
  <2>7. SendsCommand(s, t, "reset") /\ t.sub = r.sub /\ t.conn = r.conn
    BY <1>0, <1>2, <2>5, <2>6, CommandSent
  <2> QED BY <1>c, <2>4, <2>5, <2>7 DEF Resetting
<1>3. ASSUME NEW r \in HostType, NEW op \in Op, op # "reset", CanSendCommand(s),
             r.state = s.state, r.frags = s.frags, r.credit = s.credit, r.conn = s.conn,
             r.sub \in {"W4_INIT", "DONE"}, s.sub # "SEND_RESET", t = SendCommand(r, op)
      PROVE  Tidy(t, c, w) /\ Whole(t) /\ Settled(t)
  <2>1. r.credit = 1 /\ SameConnections(s, r)
    BY <1>3 DEF CanSendCommand, HostType, SameConnections
  <2>2. SendsCommand(s, t, op) /\ t.sub = r.sub
    BY <1>0, <1>3, <2>1, CommandSent
  <2> QED BY <1>3, <1>c, <2>2 DEF Resetting
<1>4. CASE /\ CanSendCommand(s) /\ s.sub = "SEND_INIT"
           /\ t = SendCommand([s EXCEPT !.sub = "W4_INIT"], "init")
  <2>1. PICK r : r = [s EXCEPT !.sub = "W4_INIT"]
    OBVIOUS
  <2>2. /\ r \in HostType /\ r.state = s.state /\ r.frags = s.frags /\ r.credit = s.credit
        /\ r.conn = s.conn /\ r.sub = "W4_INIT"
    BY <1>0, <2>1 DEF HostType, Substates
  <2>3. "init" \in Op
    BY DEF Op, Commands
  <2> QED BY <1>3, <1>4, <2>1, <2>2, <2>3
<1>5. CASE /\ CanSendCommand(s) /\ s.sub = "DONE"
           /\ t = SendCommand([s EXCEPT !.gap = FALSE], "gap")
  <2>1. PICK r : r = [s EXCEPT !.gap = FALSE]
    OBVIOUS
  <2>2. /\ r \in HostType /\ r.state = s.state /\ r.frags = s.frags /\ r.credit = s.credit
        /\ r.conn = s.conn /\ r.sub = "DONE"
    BY <1>0, <1>5, <2>1 DEF HostType
  <2>3. "gap" \in Op
    BY DEF Op, Commands
  <2> QED BY <1>3, <1>5, <2>1, <2>2, <2>3
<1>6. CASE CanSendCommand(s) /\ s.sub = "DONE" /\ t \in InitDone(s)
  BY <1>6, InitDoneTidy
<1> QED
  <2>1. CASE ~CanSendCommand(s)
    BY <1>1, <2>1 DEF RunInitializing
  <2>2. CASE CanSendCommand(s) /\ s.sub = "SEND_RESET"
    BY <1>2, <2>2 DEF RunInitializing
  <2>3. CASE CanSendCommand(s) /\ s.sub = "SEND_INIT"
    BY <1>4, <2>3 DEF RunInitializing
  <2>4. CASE CanSendCommand(s) /\ s.sub = "DONE" /\ s.gap
    BY <1>5, <2>4 DEF RunInitializing
  <2>5. CASE CanSendCommand(s) /\ s.sub = "DONE" /\ ~s.gap
    BY <1>6, <2>5 DEF RunInitializing
  <2>6. CASE CanSendCommand(s) /\ s.sub \notin {"SEND_RESET", "SEND_INIT", "DONE"}
    BY <1>1, <2>6 DEF RunInitializing
  <2> QED BY <2>1, <2>2, <2>3, <2>4, <2>5, <2>6

(* hci_run keeps the order of fragments in every state.                    *)
LEMMA RunTidy ==
  ASSUME NEW s, NEW c \in CtlType, NEW w, Tidy(s, c, w), Whole(s), NEW t \in Run(s)
  PROVE  Tidy(t, c, w) /\ Whole(t) /\ Settled(t)
<1>1. CASE s.state = "WORKING"
  BY <1>1, RunWorkingTidy DEF Run
<1>2. CASE s.state = "INITIALIZING"
  BY <1>2, RunInitializingTidy DEF Run
<1>3. CASE s.state = "HALTING"
  BY <1>3, RunHaltingTidy DEF Run
<1>4. CASE s.state \notin {"WORKING", "INITIALIZING", "HALTING"}
  <2>1. t = s
    BY <1>4 DEF Run
  <2> QED BY <1>4, <2>1 DEF Settled
<1> QED BY <1>1, <1>2, <1>3, <1>4

(* So does the tail of event_handler.                                      *)
LEMMA EmitAndRunTidy ==
  ASSUME NEW s, NEW c \in CtlType, NEW w, Tidy(s, c, w), Whole(s), NEW t \in EmitAndRun(s)
  PROVE  Tidy(t, c, w) /\ Whole(t) /\ Settled(t)
BY EmitTidy, RunTidy DEF EmitAndRun

----------------------------------------------------------------------------
(* The handlers and the order of fragments *)

(* A change neither the buffer nor the order of fragments is about.        *)
LEMMA SameTidy ==
  ASSUME NEW s, NEW c, NEW w, Tidy(s, c, w), Whole(s), NEW t, NEW d, Good(t, d, w),
         t.state = s.state, t.sub = s.sub, t.tx = s.tx, t.frags = s.frags, t.buf = s.buf,
         t.reserved = s.reserved, SameConnections(s, t),
         d.link = c.link, d.partial = c.partial, d.up \subseteq c.up, c.down \subseteq d.down,
         d.cmdq = c.cmdq
  PROVE  Tidy(t, d, w) /\ Whole(t)
<1>1. Held(t) /\ Whole(t) /\ (Resetting(t) <=> Resetting(s))
  BY DEF Tidy, Held, Whole, Starting, Resetting
<1>2. ~w => Ordered(t, d)
  BY <1>1, SameOrder DEF Tidy
<1> QED BY <1>1, <1>2 DEF Tidy

(* Nothing is out of order when both sides are off.                        *)
LEMMA OffTidy ==
  ASSUME NEW s, NEW w, Good(s, FreshCtl, w), s.state = "OFF"
  PROVE  Tidy(s, FreshCtl, w) /\ Whole(s) /\ Settled(s)
<1>1. s.tx.kind = "off"
  BY DEF Good, Almost, HostOK
<1>2. FreshCtl.up = {} /\ FreshCtl.cmdq = <<>>
      /\ \A h \in Handle : ~FreshCtl.link[h] /\ ~FreshCtl.partial[h]
  BY DEF FreshCtl
<1>3. Framed(s, FreshCtl)
  BY <1>2 DEF Framed
<1>4. Listed(s, FreshCtl)
  BY <1>2 DEF Listed
<1>5. ResetFirst(s, FreshCtl)
  BY <1>1, <1>2 DEF ResetFirst
<1>6. Held(s) /\ Whole(s) /\ Settled(s)
  BY DEF Held, Whole, Settled
<1> QED BY <1>3, <1>4, <1>5, <1>6 DEF Tidy, Ordered

(* Removing the timer touches nothing.                                     *)
LEMMA DisarmTidy ==
  ASSUME NEW s, NEW c, NEW w, Tidy(s, c, w), Whole(s), NEW t, t = Disarm(s)
  PROVE  Tidy(t, c, w) /\ Whole(t) /\ t.state = s.state
<1>1. s \in HostType /\ Good(s, c, w)
  BY DEF Tidy, Good, Almost, HostOK
<1>2. Good(t, c, w)
  BY <1>1, DisarmGood
<1>3. /\ t.state = s.state /\ t.sub = s.sub /\ t.tx = s.tx /\ t.frags = s.frags
      /\ t.buf = s.buf /\ t.reserved = s.reserved /\ t.conn = s.conn
  BY <1>1 DEF Disarm, HostType
<1>4. SameConnections(s, t)
  BY <1>3 DEF SameConnections
<1> QED BY <1>2, <1>3, <1>4, SameTidy

(* A new session begins without links.                                     *)
LEMMA PowerOnTidy ==
  ASSUME NEW s, NEW c \in CtlType, NEW w, Tidy(s, c, w), Whole(s), NEW t, t = PowerOnFrom(s)
  PROVE  Tidy(t, c, w \/ s.state = "HALTING") /\ Whole(t)
<1>0. /\ s \in HostType /\ Good(s, c, w) /\ Held(s)
      /\ ~w => Ordered(s, c) /\ Linked(s, c) /\ Credit(s, c)
  BY DEF Tidy, Good, Almost, HostOK
<1>1. Good(t, c, w \/ s.state = "HALTING")
  BY <1>0, PowerOnGood
<1>2. CASE s.state \in {"OFF", "HALTING"}
  <2>1. /\ t.state = "INITIALIZING" /\ t.sub = "SEND_RESET"
        /\ s.state = "OFF" => t.tx = TxIdle
    BY <1>0, <1>2 DEF PowerOnFrom, EnterInitializing, HostType
  <2>2. Held(t) /\ Whole(t) /\ Resetting(t)
    BY <2>1 DEF Held, Starting, Whole, Resetting
  <2>3. ASSUME ~w, s.state = "OFF" PROVE Ordered(t, c)
    <3>1. c.cmdq = <<>> /\ \A h \in Handle : ~c.link[h]
      BY <1>0, <2>3 DEF Credit, Linked
    <3>2. Framed(t, c)
      BY <1>0, <2>3, <3>1 DEF Ordered, Framed
    <3>3. Listed(t, c)
      BY <1>0, <2>1, <2>2, <2>3 DEF Ordered, Listed
    <3>4. TxIdle.kind = "idle"
      BY DEF TxIdle, TxState
    <3>5. ResetFirst(t, c)
      BY <2>1, <2>3, <3>1, <3>4 DEF ResetFirst
    <3> QED BY <3>2, <3>3, <3>5 DEF Ordered
  <2> QED BY <1>1, <1>2, <2>2, <2>3 DEF Tidy
<1>3. CASE s.state \notin {"OFF", "HALTING"}
  <2>1. t = s
    BY <1>3 DEF PowerOnFrom
  <2> QED BY <1>0, <1>1, <1>3, <2>1 DEF Tidy
<1> QED BY <1>2, <1>3

(* The shutdown takes over what WORKING left.                              *)
LEMMA PowerOffTidy ==
  ASSUME NEW s, NEW c \in CtlType, NEW w, Tidy(s, c, w), Whole(s), NEW t, t = PowerOffFrom(s),
         t.state # "OFF"
  PROVE  Tidy(t, c, w) /\ Whole(t)
<1>0. /\ s \in HostType /\ Good(s, c, w) /\ Held(s) /\ (~w => Ordered(s, c))
  BY DEF Tidy, Good, Almost, HostOK
<1>1. Good(t, c, w)
  BY <1>0, PowerOffGood
<1>2. CASE s.state = "INITIALIZING"
  BY <1>0, <1>2 DEF PowerOffFrom, TransportOff, HostType
<1>3. CASE s.state = "WORKING"
  <2>1. t = [s EXCEPT !.state = "HALTING", !.sub = "STOP", !.timer = TRUE]
    BY <1>3 DEF PowerOffFrom
  <2>2. /\ t.state = "HALTING" /\ t.tx = s.tx /\ t.conn = s.conn /\ t.reserved = s.reserved
        /\ t.frags = s.frags /\ t.buf = s.buf
    BY <1>0, <2>1 DEF HostType
  <2>3. Held(t) /\ Whole(t)
    BY <1>0, <1>3, <2>2 DEF Held, Whole, Starting
  <2>4. ASSUME ~w PROVE Ordered(t, c)
    BY <1>0, <1>3, <2>2, <2>4
       DEF Ordered, Framed, FramedLink, InTx, Waits, Listed, ResetFirst
  <2> QED BY <1>1, <2>3, <2>4 DEF Tidy
<1>4. CASE s.state \notin {"INITIALIZING", "WORKING"}
  <2>1. t = s
    BY <1>4 DEF PowerOffFrom
  <2> QED BY <2>1
<1> QED BY <1>2, <1>3, <1>4

(* The controller lacks fragments if the one it takes has more of them.    *)
LEMMA TakeTidy ==
  ASSUME NEW s, NEW c \in CtlType, NEW w, Tidy(s, c, w), Whole(s), Busy(s),
         NEW t, t = [s EXCEPT !.tx = TxIdle, !.active = FALSE, !.reserved = @ /\ s.frags > 0],
         NEW d, d = Take(c, s.tx)
  PROVE  Tidy(t, d, w) /\ Whole(t)
<1>0. /\ s \in HostType /\ s.tx \in TxType /\ Good(s, c, w) /\ Held(s)
      /\ ~w => Ordered(s, c) /\ Credit(s, c)
  BY DEF Tidy, Good, Almost, HostOK, HostType
<1>1. Good(t, d, w)
  BY <1>0, TakeGood
<1>2. TxIdle.kind = "idle"
  BY DEF TxIdle, TxState
<1>3. /\ t.tx = TxIdle /\ t.state = s.state /\ t.sub = s.sub /\ t.conn = s.conn
      /\ t.frags = s.frags /\ t.buf = s.buf
  BY <1>0 DEF HostType
<1>4. s.frags > 0 => t.reserved = s.reserved
  BY <1>0 DEF HostType
<1>5. Held(t) /\ Whole(t)
  BY <1>0, <1>3, <1>4 DEF Held, Whole, Starting
<1>6. ASSUME ~w PROVE Ordered(t, d)
  <2>0. Framed(s, c) /\ Listed(s, c) /\ ResetFirst(s, c) /\ Credit(s, c)
    BY <1>0, <1>6 DEF Ordered
  <2>1. CASE s.tx.kind = "cmd"
    <3>1. d = [c EXCEPT !.cmdq = Append(c.cmdq, s.tx.what)] /\ s.tx.what \in Op
      BY <1>0, <2>1 DEF Take, TxType
    <3>2. /\ d.link = c.link /\ d.partial = c.partial /\ d.up = c.up /\ d.down = c.down
          /\ d.cmdq = Append(c.cmdq, s.tx.what)
      BY <3>1 DEF CtlType
    <3>3. Framed(t, d) /\ Listed(t, d)
      BY <1>2, <1>3, <2>0, <2>1, <3>2 DEF Framed, FramedLink, InTx, Waits, Listed, Resetting
    <3>4. c.cmdq = <<>>
      BY <1>0, <2>0, <2>1, LastCredit
    <3>5. Head(d.cmdq) = s.tx.what
      BY <3>1, <3>2, <3>4
    <3>6. ResetFirst(t, d)
      BY <1>2, <1>3, <2>0, <2>1, <3>5 DEF ResetFirst, Resetting
    <3> QED BY <3>3, <3>6 DEF Ordered
  <2>2. CASE s.tx.kind = "acl" /\ c.link[s.tx.what]
    <3> DEFINE k == s.tx.what
               g == [c.held EXCEPT ![k] = @ + 1]
               p == [c.partial EXCEPT ![k] = s.tx.more]
    <3>1. d = [c EXCEPT !.held = g, !.partial = p]
      BY <2>2 DEF Take, CtlType
    <3>2. \A h \in Handle : IF h = k THEN p[h] = s.tx.more ELSE p[h] = c.partial[h]
      BY DEF CtlType
    <3> HIDE DEF g, p
    <3>3. /\ d.link = c.link /\ d.partial = p /\ d.up = c.up /\ d.down = c.down
          /\ d.cmdq = c.cmdq
      BY <3>1 DEF CtlType
    <3>4. Framed(t, d)
      <4>1. ASSUME NEW h \in Handle, c.link[h], h = k PROVE FramedLink(t, d, h)
        <5>1. p[h] = s.tx.more /\ InTx(s, h) /\ ~InTx(t, h)
          BY <1>2, <1>3, <2>2, <3>2, <4>1 DEF InTx
        <5>2. FramedLink(s, c, h)
          BY <2>0, <4>1 DEF Framed
        <5>3. s.tx.more <=> Waits(t, h)
          BY <1>3, <5>1, <5>2 DEF FramedLink, Waits
        <5>4. d.partial[h] <=> Waits(t, h)
          BY <3>3, <5>1, <5>3
        <5>5. s.state = "WORKING" /\ Waits(t, h) => t.conn[h] # "NONE"
          BY <1>3, <5>2 DEF FramedLink, Waits
        <5> QED BY <1>3, <5>1, <5>4, <5>5 DEF FramedLink
      <4>2. ASSUME NEW h \in Handle, c.link[h], h # k PROVE FramedLink(t, d, h)
        <5>1. p[h] = c.partial[h] /\ ~InTx(s, h) /\ ~InTx(t, h)
          BY <1>2, <1>3, <2>2, <3>2, <4>2 DEF InTx
        <5>2. FramedLink(s, c, h)
          BY <2>0, <4>2 DEF Framed
        <5> QED BY <1>3, <3>3, <5>1, <5>2 DEF FramedLink, Waits
      <4>3. ASSUME NEW h \in Handle, ~c.link[h] PROVE ~d.partial[h]
        <5>1. h # k
          BY <2>2, <4>3
        <5> QED BY <2>0, <3>2, <3>3, <4>3, <5>1 DEF Framed
      <4> QED BY <3>3, <4>1, <4>2, <4>3 DEF Framed
    <3>5. Listed(t, d)
      BY <1>3, <2>0, <3>3 DEF Listed, Resetting
    <3>6. ResetFirst(t, d)
      BY <1>2, <1>3, <2>0, <3>3 DEF ResetFirst, Resetting
    <3> QED BY <3>4, <3>5, <3>6 DEF Ordered
  <2>3. CASE s.tx.kind = "acl" /\ ~c.link[s.tx.what]
    <3>1. d = c
      BY <2>3 DEF Take
    <3>2. \A h \in Handle : c.link[h] => ~InTx(s, h) /\ ~InTx(t, h)
      BY <1>2, <1>3, <2>3 DEF InTx
    <3>3. Framed(t, c)
      BY <1>3, <2>0, <3>2 DEF Framed, FramedLink, Waits
    <3>4. Listed(t, c) /\ ResetFirst(t, c)
      BY <1>2, <1>3, <2>0 DEF Listed, ResetFirst, Resetting
    <3> QED BY <3>1, <3>3, <3>4 DEF Ordered
  <2> QED BY <2>1, <2>2, <2>3 DEF Busy
<1> QED BY <1>1, <1>5, <1>6 DEF Tidy

(* HCI_EVENT_CONNECTION_COMPLETE lists a connection that has a link.       *)
LEMMA ConnectionCompleteTidy ==
  ASSUME NEW s, NEW c \in CtlType, NEW w, Tidy(s, c, w), Whole(s), NEW h \in c.up,
         NEW t, t = [s EXCEPT !.conn[h] = "OPEN",
                              !.sent[h] = IF s.conn[h] = "NONE" THEN 0 ELSE @]
  PROVE  Tidy(t, c, w) /\ Whole(t)
<1>0. /\ s \in HostType /\ h \in Handle /\ Good(s, c, w) /\ Held(s)
      /\ ~w => Ordered(s, c) /\ Linked(s, c)
  BY DEF Tidy, Good, Almost, HostOK, CtlType
<1>1. Good(t, c, w)
  BY <1>0, ConnectionCompleteGood
<1>2. /\ t.state = s.state /\ t.sub = s.sub /\ t.tx = s.tx /\ t.frags = s.frags
      /\ t.buf = s.buf /\ t.reserved = s.reserved
      /\ t.conn = [s.conn EXCEPT ![h] = "OPEN"]
  BY <1>0 DEF HostType
<1>3. t.conn[h] = "OPEN" /\ \A k \in Handle \ {h} : t.conn[k] = s.conn[k]
  BY <1>0, <1>2 DEF HostType
<1>4. Held(t) /\ Whole(t)
  BY <1>0, <1>2 DEF Held, Whole, Starting
<1>5. ASSUME ~w PROVE Ordered(t, c)
  <2>1. c.link[h] /\ s.state \notin {"OFF", "INITIALIZING"}
    BY <1>0, <1>5 DEF Ordered, Listed, Linked
  <2>2. Framed(t, c)
    BY <1>0, <1>2, <1>3, <1>5 DEF Ordered, Framed, FramedLink, InTx, Waits
  <2>3. Listed(t, c)
    BY <1>0, <1>2, <1>3, <1>5, <2>1 DEF Ordered, Listed, Resetting
  <2>4. ResetFirst(t, c)
    BY <1>0, <1>2, <1>5 DEF Ordered, ResetFirst, Resetting
  <2> QED BY <2>2, <2>3, <2>4 DEF Ordered
<1> QED BY <1>1, <1>4, <1>5 DEF Tidy

(* A new link is not one the host still has fragments for: hci_run has     *)
(* discarded them, or the connection is still listed.                      *)
LEMMA LinkUpTidy ==
  ASSUME NEW s, NEW c \in CtlType, NEW w, Tidy(s, c, w), Settled(s), NEW h \in Handle,
         ~c.link[h], h \notin c.down, ~InTx(s, h), s.state \in {"WORKING", "HALTING"} \/ w,
         NEW d, d = [c EXCEPT !.link[h] = TRUE, !.up = @ \cup {h}], Good(s, d, w)
  PROVE  Tidy(s, d, w)
<1>0. s \in HostType /\ Held(s) /\ (~w => Ordered(s, c))
  BY DEF Tidy, Good, Almost, HostOK
<1> DEFINE l == [c.link EXCEPT ![h] = TRUE]
<1>1. d = [c EXCEPT !.link = l, !.up = c.up \cup {h}]
  BY DEF CtlType
<1>2. l[h] /\ \A k \in Handle \ {h} : l[k] = c.link[k]
  BY DEF CtlType
<1> HIDE DEF l
<1>3. /\ d.link = l /\ d.up = c.up \cup {h} /\ d.partial = c.partial /\ d.down = c.down
      /\ d.cmdq = c.cmdq
  BY <1>1 DEF CtlType
<1>4. ASSUME ~w PROVE Ordered(s, d)
  <2>0. Framed(s, c) /\ Listed(s, c) /\ ResetFirst(s, c) /\ s.state \in {"WORKING", "HALTING"}
    BY <1>0, <1>4 DEF Ordered
  <2>1. FramedLink(s, d, h)
    <3>1. ~c.partial[h] /\ (s.conn[h] # "NONE" => c.link[h] \/ h \in c.down)
      BY <2>0 DEF Framed, Listed
    <3>2. ~(s.state = "WORKING" /\ Waits(s, h))
      BY <3>1 DEF Settled, Waits
    <3> QED BY <1>3, <3>1, <3>2 DEF FramedLink
  <2>2. Framed(s, d)
    <3>1. ASSUME NEW k \in Handle \ {h}, d.link[k] PROVE FramedLink(s, d, k)
      BY <1>2, <1>3, <2>0, <3>1 DEF Framed, FramedLink
    <3>2. ASSUME NEW k \in Handle, ~d.link[k] PROVE ~d.partial[k]
      BY <1>2, <1>3, <2>0, <3>2 DEF Framed
    <3> QED BY <2>1, <3>1, <3>2 DEF Framed
  <2>3. Listed(s, d)
    <3>1. \A k \in c.up : d.link[k]
      BY <1>2, <1>3, <2>0 DEF Listed, CtlType
    <3> QED BY <1>2, <1>3, <2>0, <3>1 DEF Listed
  <2>4. ResetFirst(s, d)
    BY <1>3, <2>0 DEF ResetFirst
  <2> QED BY <2>2, <2>3, <2>4 DEF Ordered
<1> QED BY <1>0, <1>4 DEF Tidy

(* A link that ends takes its unfinished packet with it.                   *)
LEMMA LinkDownTidy ==
  ASSUME NEW s, NEW c \in CtlType, NEW w, Tidy(s, c, w), NEW h \in Handle, h \notin c.up,
         NEW d, d = [c EXCEPT !.link[h] = FALSE, !.held[h] = 0, !.partial[h] = FALSE,
                              !.closing = @ \ {h}, !.down = @ \cup {h}], Good(s, d, w)
  PROVE  Tidy(s, d, w)
<1>0. s \in HostType /\ Held(s) /\ (~w => Ordered(s, c))
  BY DEF Tidy, Good, Almost, HostOK
<1> DEFINE l == [c.link EXCEPT ![h] = FALSE]
           g == [c.held EXCEPT ![h] = 0]
           p == [c.partial EXCEPT ![h] = FALSE]
<1>1. d = [c EXCEPT !.link = l, !.held = g, !.partial = p, !.closing = c.closing \ {h},
                    !.down = c.down \cup {h}]
  BY DEF CtlType
<1>2. /\ ~l[h] /\ ~p[h]
      /\ \A k \in Handle \ {h} : l[k] = c.link[k] /\ p[k] = c.partial[k]
  BY DEF CtlType
<1> HIDE DEF l, g, p
<1>3. /\ d.link = l /\ d.up = c.up /\ d.partial = p /\ d.down = c.down \cup {h}
      /\ d.cmdq = c.cmdq
  BY <1>1 DEF CtlType
<1>4. ASSUME ~w PROVE Ordered(s, d)
  <2>0. Framed(s, c) /\ Listed(s, c) /\ ResetFirst(s, c)
    BY <1>0, <1>4 DEF Ordered
  <2>1. Framed(s, d)
    <3>1. ASSUME NEW k \in Handle, d.link[k] PROVE FramedLink(s, d, k)
      BY <1>2, <1>3, <2>0, <3>1 DEF Framed, FramedLink
    <3>2. ASSUME NEW k \in Handle, ~d.link[k] PROVE ~d.partial[k]
      BY <1>2, <1>3, <2>0, <3>2 DEF Framed
    <3> QED BY <3>1, <3>2 DEF Framed
  <2>2. Listed(s, d)
    <3>1. \A k \in c.up : d.link[k]
      BY <1>2, <1>3, <2>0 DEF Listed, CtlType
    <3>2. \A k \in Handle : c.link[k] \/ k \in c.down => d.link[k] \/ k \in d.down
      BY <1>2, <1>3
    <3> QED BY <1>3, <2>0, <3>1, <3>2 DEF Listed
  <2>3. ResetFirst(s, d)
    BY <1>3, <2>0 DEF ResetFirst
  <2> QED BY <2>1, <2>2, <2>3 DEF Ordered
<1> QED BY <1>0, <1>4 DEF Tidy

(* Dropping the fragments of a link that is gone concerns no other link.   *)
LEMMA DropFragmentsTidy ==
  ASSUME NEW s, NEW c \in CtlType, NEW w, Tidy(s, c, w), Whole(s), NEW h \in Handle,
         ~w => ~c.link[h], NEW t, t = DropFragments(s, h)
  PROVE  Tidy(t, c, w) /\ Whole(t)
<1>0. /\ s \in HostType /\ Good(s, c, w) /\ Held(s) /\ (~w => Ordered(s, c))
      /\ h # "cmd"
  BY HandleAssumption DEF Tidy, Good, Almost, HostOK
<1>1. Good(t, c, w)
  BY <1>0, DropFragmentsGood
<1>2. CASE ~(s.frags > 0 /\ s.buf = h)
  <2>1. t = s
    BY <1>2 DEF DropFragments
  <2> QED BY <2>1
<1>3. CASE s.frags > 0 /\ s.buf = h
  <2>1. /\ t.state = s.state /\ t.sub = s.sub /\ t.tx = s.tx /\ t.frags = 0
        /\ t.buf = s.buf /\ t.conn = s.conn
    BY <1>0, <1>3 DEF DropFragments, HostType
  <2>2. Held(t) /\ Whole(t)
    BY <2>1 DEF Held, Whole
  <2>3. ASSUME ~w PROVE Ordered(t, c)
    <3>1. \A k \in Handle : c.link[k] => ~Waits(s, k) /\ ~Waits(t, k)
      BY <1>3, <2>1, <2>3 DEF Waits
    <3>2. Framed(t, c)
      BY <1>0, <2>1, <2>3, <3>1 DEF Ordered, Framed, FramedLink, InTx
    <3>3. Listed(t, c) /\ ResetFirst(t, c)
      BY <1>0, <2>1, <2>3 DEF Ordered, Listed, ResetFirst, Resetting
    <3> QED BY <3>2, <3>3 DEF Ordered
  <2> QED BY <1>1, <2>2, <2>3 DEF Tidy
<1> QED BY <1>2, <1>3

(* The host forgets a connection without a link.                           *)
Forgets(s, h, x, t) == t = [s EXCEPT !.conn[h] = x, !.sent[h] = 0]

(* Fragments for that connection are none of a link.                       *)
LEMMA ForgetTidy ==
  ASSUME NEW s, NEW c \in CtlType, NEW w, Tidy(s, c, w), Whole(s), NEW h \in Handle,
         ~w => ~c.link[h], NEW x \in ConStates, x = "NONE" \/ s.conn[h] # "NONE",
         NEW t, Forgets(s, h, x, t)
  PROVE  Tidy(t, c, w) /\ Whole(t) /\ t.conn[h] = x
<1>0. /\ s \in HostType /\ Good(s, c, w) /\ Held(s) /\ (~w => Ordered(s, c))
  BY DEF Tidy, Good, Almost, HostOK
<1>1. Good(t, c, w)
  BY <1>0, ForgetGood DEF Forgets
<1>2. /\ t.state = s.state /\ t.sub = s.sub /\ t.tx = s.tx /\ t.frags = s.frags
      /\ t.buf = s.buf /\ t.reserved = s.reserved
      /\ t.conn[h] = x /\ \A k \in Handle \ {h} : t.conn[k] = s.conn[k]
  BY <1>0 DEF HostType, Forgets
<1>3. Held(t) /\ Whole(t)
  BY <1>0, <1>2 DEF Held, Whole, Starting
<1>4. ASSUME ~w PROVE Ordered(t, c)
  <2>1. Framed(t, c)
    <3>1. ASSUME NEW k \in Handle, c.link[k] PROVE FramedLink(t, c, k)
      <4>1. k # h /\ FramedLink(s, c, k)
        BY <1>0, <1>4, <3>1 DEF Ordered, Framed
      <4> QED BY <1>2, <4>1 DEF FramedLink, InTx, Waits
    <3> QED BY <1>0, <1>4, <3>1 DEF Ordered, Framed
  <2>2. Listed(t, c)
    BY <1>0, <1>2, <1>4 DEF Ordered, Listed, Resetting
  <2>3. ResetFirst(t, c)
    BY <1>0, <1>2, <1>4 DEF Ordered, ResetFirst, Resetting
  <2> QED BY <2>1, <2>2, <2>3 DEF Ordered
<1> QED BY <1>1, <1>2, <1>3, <1>4 DEF Tidy

(* The host and the controller after the reply to op.                      *)
RepliedHost(s, n, op, t) == t = InitializingReply([s EXCEPT !.credit = n], op)
RepliedCtl(c, n, op, d) ==
  d = [Execute([c EXCEPT !.cmdq = Tail(@)], op) EXCEPT !.owes = (n = 0)]
Executed(c, op, o, d) == d = [Execute(c, op) EXCEPT !.owes = o]

(* HCI_Reset ends the links, any other command leaves them.                *)
LinksAfter(c, op, d) ==
  /\ op = "reset" => /\ d.up = {} /\ d.down = {}
                     /\ \A h \in Handle : ~d.link[h] /\ ~d.partial[h]
  /\ op # "reset" => /\ d.up = c.up /\ d.down = c.down
                     /\ d.link = c.link /\ d.partial = c.partial

(* What a completed command does to the links.                             *)
LEMMA ExecuteLinks ==
  ASSUME NEW c \in CtlType, NEW op, NEW o \in BOOLEAN, NEW d, Executed(c, op, o, d)
  PROVE  d.cmdq = c.cmdq /\ LinksAfter(c, op, d)
<1>0. "reset" \notin Handle /\ "init" \notin Handle
  BY HandleAssumption DEF Commands
<1>1. CASE op = "reset"
  <2>1. d = [[FreshCtl EXCEPT !.cmdq = c.cmdq] EXCEPT !.owes = o]
    BY <1>0, <1>1 DEF Execute, Executed
  <2>2. /\ d.cmdq = c.cmdq /\ d.up = FreshCtl.up /\ d.down = FreshCtl.down
        /\ d.link = FreshCtl.link /\ d.partial = FreshCtl.partial
    BY <2>1, FreshCtlType DEF CtlType
  <2>3. FreshCtl.up = {} /\ \A h \in Handle : ~FreshCtl.link[h] /\ ~FreshCtl.partial[h]
    BY DEF FreshCtl
  <2> QED BY <1>1, <2>2, <2>3, FreshCtlType DEF LinksAfter
<1>2. CASE op = "init"
  <2>1. d = [[c EXCEPT !.open = TRUE] EXCEPT !.owes = o]
    BY <1>0, <1>2 DEF Execute, Executed
  <2> QED BY <1>2, <2>1 DEF CtlType, LinksAfter
<1>3. CASE op \notin {"reset", "init"} /\ op \in Handle /\ c.link[op]
  <2>1. d = [[c EXCEPT !.closing = c.closing \cup {op}] EXCEPT !.owes = o]
    BY <1>3 DEF Execute, Executed
  <2> QED BY <1>3, <2>1 DEF CtlType, LinksAfter
<1>4. CASE op \notin {"reset", "init"} /\ ~(op \in Handle /\ c.link[op])
  <2>1. d = [c EXCEPT !.owes = o]
    BY <1>4 DEF Execute, Executed
  <2> QED BY <1>4, <2>1 DEF CtlType, LinksAfter
<1> QED BY <1>1, <1>2, <1>3, <1>4

(* The same for the reply, which takes the command from the queue.         *)
LEMMA ReplyLinks ==
  ASSUME NEW c \in CtlType, c.cmdq # <<>>, NEW n, NEW op, NEW d, RepliedCtl(c, n, op, d)
  PROVE  d.cmdq = Tail(c.cmdq) /\ LinksAfter(c, op, d)
<1> DEFINE p == [c EXCEPT !.cmdq = Tail(c.cmdq)]
<1>1. /\ p \in CtlType /\ p.cmdq = Tail(c.cmdq)
      /\ p.up = c.up /\ p.down = c.down /\ p.link = c.link /\ p.partial = c.partial
  <2>1. Tail(c.cmdq) \in Seq(Op)
    BY DEF CtlType
  <2> QED BY <2>1 DEF CtlType
<1>2. PICK o \in BOOLEAN : o <=> n = 0
  OBVIOUS
<1>3. Executed(p, op, o, d)
  BY <1>2 DEF RepliedCtl, Executed
<1> HIDE DEF p
<1>4. d.cmdq = p.cmdq /\ LinksAfter(p, op, d)
  BY <1>1, <1>3, ExecuteLinks
<1> QED BY <1>1, <1>4 DEF LinksAfter

(* A reply leaves the buffer; HCI_Reset ends links when there are none.    *)
LEMMA CommandReplyTidy ==
  ASSUME NEW s, NEW c \in CtlType, NEW w, Tidy(s, c, w), Whole(s), c.cmdq # <<>>,
         NEW n \in 0..1, NEW op, op = Head(c.cmdq), NEW t, RepliedHost(s, n, op, t),
         NEW d, RepliedCtl(c, n, op, d)
  PROVE  Tidy(t, d, w) /\ Whole(t)
<1>0. /\ s \in HostType /\ Good(s, c, w) /\ Held(s)
      /\ ~w => Ordered(s, c) /\ Credit(s, c)
  BY DEF Tidy, Good, Almost, HostOK
<1>1. Good(t, d, w)
  BY <1>0, CommandReplyGood DEF RepliedHost, RepliedCtl
<1>2. /\ t.tx = s.tx /\ t.state = s.state /\ t.conn = s.conn
      /\ t.reserved = s.reserved /\ t.frags = s.frags /\ t.buf = s.buf
      /\ Starting(s) => Starting(t)
      /\ Resetting(t) => Resetting(s)
  <2> DEFINE r == [s EXCEPT !.credit = n]
  <2>1. /\ r.tx = s.tx /\ r.state = s.state /\ r.conn = s.conn
        /\ r.reserved = s.reserved /\ r.frags = s.frags /\ r.buf = s.buf /\ r.sub = s.sub
        /\ r \in HostType
    BY <1>0 DEF HostType
  <2>2. t = InitializingReply(r, op)
    BY DEF RepliedHost
  <2> HIDE DEF r
  <2>3. \/ t = r
        \/ r.state = "INITIALIZING" /\ t = [r EXCEPT !.sub = "SEND_INIT"]
        \/ r.state = "INITIALIZING" /\ r.sub = "W4_INIT" /\ t = [r EXCEPT !.sub = "DONE"]
    BY <2>2 DEF InitializingReply
  <2>4. CASE t = r
    BY <2>1, <2>4 DEF Starting, Resetting
  <2>5. CASE r.state = "INITIALIZING" /\ t = [r EXCEPT !.sub = "SEND_INIT"]
    BY <2>1, <2>5 DEF Starting, Resetting, HostType
  <2>6. CASE r.state = "INITIALIZING" /\ r.sub = "W4_INIT" /\ t = [r EXCEPT !.sub = "DONE"]
    BY <2>1, <2>6 DEF Starting, Resetting, HostType
  <2> QED BY <2>3, <2>4, <2>5, <2>6
<1>3. Held(t) /\ Whole(t)
  BY <1>0, <1>2 DEF Held, Whole
<1>4. d.cmdq = Tail(c.cmdq) /\ LinksAfter(c, op, d)
  BY ReplyLinks
<1>9. ASSUME ~w PROVE Ordered(t, d)
  <2>0. Framed(s, c) /\ Listed(s, c) /\ ResetFirst(s, c)
    BY <1>0, <1>9 DEF Ordered
  <2>1. Len(c.cmdq) = 1 /\ s.tx.kind # "cmd" /\ ~Resetting(s)
    BY <1>0, <1>9, LastCredit
  <2>2. Tail(c.cmdq) = <<>>
    <3>1. c.cmdq \in Seq(Op) /\ Len(c.cmdq) = 1
      BY <2>1 DEF CtlType
    <3>2. Tail(c.cmdq) \in Seq(Op) /\ Len(Tail(c.cmdq)) = 0
      BY <3>1
    <3>3. \A q \in Seq(Op) : Len(q) = 0 => q = <<>>
      <4> HIDE DEF Op
      <4> QED OBVIOUS
    <3> QED BY <3>2, <3>3
  <2>3. ResetFirst(t, d)
    BY <1>2, <1>4, <2>1, <2>2 DEF ResetFirst
  <2>4. CASE op = "reset"
    <3>1. s.state = "INITIALIZING"
      BY <2>0, <2>4 DEF ResetFirst
    <3>2. Framed(t, d)
      BY <1>4, <2>4 DEF Framed, LinksAfter
    <3>3. Listed(t, d)
      BY <1>2, <1>4, <2>0, <2>1, <2>4, <3>1 DEF Listed, LinksAfter
    <3> QED BY <2>3, <3>2, <3>3 DEF Ordered
  <2>5. CASE op # "reset"
    <3>1. Framed(t, d)
      BY <1>2, <1>4, <2>0, <2>5 DEF Framed, FramedLink, InTx, Waits, LinksAfter
    <3>2. Listed(t, d)
      BY <1>2, <1>4, <2>0, <2>1, <2>5 DEF Listed, LinksAfter
    <3> QED BY <2>3, <3>1, <3>2 DEF Ordered
  <2> QED BY <2>4, <2>5
<1> QED BY <1>1, <1>3, <1>9 DEF Tidy

----------------------------------------------------------------------------
(* The invariant with the order of fragments *)

(* OrderInv holds at first.                                                *)
THEOREM InitOrder == Init => OrderInv
<1> SUFFICES ASSUME Init PROVE OrderInv
  OBVIOUS
<1>1. Inv /\ Good(host, ctl, warm)
  BY InitInv DEF Inv
<1>2. host.state = "OFF" /\ ctl = FreshCtl
  BY DEF Init, InitialHost
<1> QED BY <1>1, <1>2, OffTidy DEF OrderInv

(* Every step keeps it.                                                    *)
THEOREM NextOrder == OrderInv /\ [Next]_vars => OrderInv'
<1> SUFFICES ASSUME OrderInv, [Next]_vars PROVE OrderInv'
  OBVIOUS
<1> DEFINE Goal == Tidy(host', ctl', warm') /\ Whole(host') /\ Settled(host')
<1>i. Inv'
  BY NextInv DEF OrderInv
<1>g. Good(host', ctl', warm') /\ ctl' \in CtlType
  BY <1>i DEF Inv
<1>0. /\ Tidy(host, ctl, warm) /\ Whole(host) /\ Settled(host)
      /\ Good(host, ctl, warm) /\ host \in HostType /\ ctl \in CtlType
  BY DEF OrderInv, Inv, Good, Almost, HostOK
<1>f. ASSUME host'.state = "OFF", ctl' = FreshCtl PROVE Goal
  BY <1>f, <1>g, OffTidy
<1>1. ASSUME PowerOn PROVE Goal
  <2>1. PICK r : r = Disarm(host)
    OBVIOUS
  <2>2. PICK s : s = PowerOnFrom(r)
    OBVIOUS
  <2>3. host' \in EmitAndRun(s) /\ ctl' = ctl /\ warm' = (warm \/ host.state = "HALTING")
    BY <1>1, <2>1, <2>2 DEF PowerOn
  <2>4. Tidy(r, ctl, warm) /\ Whole(r) /\ r.state = host.state
    BY <1>0, <2>1, DisarmTidy
  <2>5. Tidy(s, ctl, warm \/ r.state = "HALTING") /\ Whole(s)
    BY <1>0, <2>2, <2>4, PowerOnTidy
  <2>6. Tidy(s, ctl, warm')
    BY <2>3, <2>4, <2>5
  <2> QED BY <1>0, <2>3, <2>5, <2>6, EmitAndRunTidy
<1>2. ASSUME PowerOff PROVE Goal
  <2>1. PICK r : r = Disarm(host)
    OBVIOUS
  <2>2. PICK s : s = PowerOffFrom(r)
    OBVIOUS
  <2>3. /\ host' \in EmitAndRun(s)
        /\ IF host'.state = "OFF" THEN ctl' = FreshCtl /\ warm' = FALSE
                                  ELSE ctl' = ctl /\ warm' = warm
    BY <1>2, <2>1, <2>2 DEF PowerOff
  <2>4. Tidy(r, ctl, warm) /\ Whole(r)
    BY <1>0, <2>1, DisarmTidy
  <2>5. CASE s.state = "OFF"
    <3>1. HostOK(s)
      BY <1>0, <2>2, <2>4, <2>5, PowerOffGood DEF Tidy
    <3>2. host' = s
      BY <2>3, <2>5, <3>1, EmitAndRunOff
    <3> QED BY <1>f, <2>3, <2>5, <3>2
  <2>6. CASE s.state # "OFF"
    <3>1. Tidy(s, ctl, warm) /\ Whole(s)
      BY <1>0, <2>2, <2>4, <2>6, PowerOffTidy
    <3>2. Tidy(host', ctl, warm) /\ Whole(host') /\ Settled(host')
      BY <1>0, <2>3, <3>1, EmitAndRunTidy
    <3> QED BY <1>f, <2>3, <3>2
  <2> QED BY <2>5, <2>6
<1>3. ASSUME HaltingTimeout PROVE Goal
  <2>1. ctl' = FreshCtl /\ \E s : host' = TransportOff(s)
    BY <1>3 DEF HaltingTimeout
  <2>2. host'.state = "OFF"
    <3>1. host' \in HostType
      BY <1>g DEF Good, Almost, HostOK
    <3>2. PICK s : host' = [s EXCEPT !.state = "OFF", !.tx = TxOff, !.timer = FALSE]
      BY <2>1 DEF TransportOff
    <3>3. "state" \in DOMAIN host' /\ DOMAIN host' = DOMAIN s
      BY <3>1, <3>2 DEF HostType
    <3> QED BY <3>2, <3>3
  <2> QED BY <1>f, <2>1, <2>2
<1>4. ASSUME ClientSend PROVE Goal
  <2>1. host' \in Emit(host) /\ ctl' = ctl /\ warm' = warm
    BY <1>4 DEF ClientSend, Emit
  <2> QED BY <1>0, <2>1, EmitTidy
<1>5. ASSUME GapRequest PROVE Goal
  <2>1. PICK s : s = [host EXCEPT !.gap = TRUE]
    OBVIOUS
  <2>2. /\ s \in HostType /\ s.sent = host.sent /\ s.tx = host.tx /\ s.credit = host.credit
        /\ s.state = host.state /\ s.sub = host.sub /\ s.reserved = host.reserved
        /\ s.frags = host.frags /\ s.buf = host.buf /\ s.active = host.active
        /\ s.conn = host.conn
    BY <1>0, <2>1 DEF HostType
  <2>3. Forgotten(s) /\ SameConnections(host, s)
    BY <1>0, <2>2 DEF Good, Almost, HostOK, Forgotten, SameConnections
  <2>4. Good(s, ctl, warm)
    BY <1>0, <2>2, <2>3, SameBuffer
  <2>5. Tidy(s, ctl, warm) /\ Whole(s)
    BY <1>0, <2>2, <2>3, <2>4, SameTidy
  <2>6. host' \in Run(s) /\ ctl' = ctl /\ warm' = warm
    BY <1>5, <2>1 DEF GapRequest
  <2> QED BY <1>0, <2>5, <2>6, RunTidy
<1>6. ASSUME TransportPacketSent PROVE Goal
  <2>1. PICK s : s = [host EXCEPT !.tx = TxIdle, !.active = FALSE,
                                  !.reserved = @ /\ host.frags > 0]
    OBVIOUS
  <2>2. /\ Busy(host) /\ host' \in EmitAndRun(s) /\ ctl' = Take(ctl, host.tx)
        /\ warm' = warm
    BY <1>6, <2>1 DEF TransportPacketSent, Busy
  <2>3. Tidy(s, ctl', warm) /\ Whole(s)
    BY <1>0, <2>1, <2>2, TakeTidy
  <2> QED BY <1>g, <2>2, <2>3, EmitAndRunTidy
<1>7. ASSUME Reply PROVE Goal
  <2>1. PICK n \in 0..1 : CommandReply(n)
    BY <1>7 DEF Reply
  <2>2. PICK op : op = Head(ctl.cmdq)
    OBVIOUS
  <2>3. PICK s : RepliedHost(host, n, op, s)
    BY DEF RepliedHost
  <2>4. ctl.cmdq # <<>> /\ RepliedCtl(ctl, n, op, ctl') /\ warm' = warm
    BY <2>1, <2>2 DEF CommandReply, RepliedCtl
  <2>5. host' \in EmitAndRun(s)
    BY <2>1, <2>2, <2>3 DEF CommandReply, RepliedHost
  <2>6. Tidy(s, ctl', warm) /\ Whole(s)
    BY <1>0, <2>2, <2>3, <2>4, CommandReplyTidy
  <2> QED BY <1>g, <2>4, <2>5, <2>6, EmitAndRunTidy
<1>8. ASSUME CreditGrant PROVE Goal
  <2>1. PICK s : s = [host EXCEPT !.credit = 1]
    OBVIOUS
  <2>2. /\ ctl.owes /\ ctl.cmdq = <<>> /\ ctl' = [ctl EXCEPT !.owes = FALSE]
        /\ host' \in EmitAndRun(s) /\ warm' = warm
    BY <1>8, <2>1 DEF CreditGrant
  <2>3. Good(s, ctl', warm)
    BY <1>0, <2>1, <2>2, CreditGrantGood
  <2>4. /\ s.state = host.state /\ s.sub = host.sub /\ s.tx = host.tx /\ s.frags = host.frags
        /\ s.buf = host.buf /\ s.reserved = host.reserved /\ s.conn = host.conn
    BY <1>0, <2>1 DEF HostType
  <2>5. /\ ctl'.link = ctl.link /\ ctl'.partial = ctl.partial /\ ctl'.up = ctl.up
        /\ ctl'.down = ctl.down /\ ctl'.cmdq = ctl.cmdq
    BY <1>0, <2>2 DEF CtlType
  <2>6. SameConnections(host, s)
    BY <2>4 DEF SameConnections
  <2>7. Tidy(s, ctl', warm) /\ Whole(s)
    BY <1>0, <2>3, <2>4, <2>5, <2>6, SameTidy
  <2> QED BY <1>g, <2>2, <2>7, EmitAndRunTidy
<1>9. ASSUME NEW h \in Handle, GapDisconnect(h) PROVE Goal
  <2>1. PICK s : s = [host EXCEPT !.conn[h] = "SEND_DISCONNECT"]
    OBVIOUS
  <2>2. host.conn[h] = "OPEN" /\ host' \in Run(s) /\ ctl' = ctl /\ warm' = warm
    BY <1>9, <2>1 DEF GapDisconnect
  <2> DEFINE o == [host.conn EXCEPT ![h] = "SEND_DISCONNECT"]
  <2>3. s = [host EXCEPT !.conn = o]
    BY <1>0, <2>1 DEF HostType
  <2>4. o \in [Handle -> ConStates] /\ o[h] = "SEND_DISCONNECT"
        /\ \A k \in Handle \ {h} : o[k] = host.conn[k]
    BY <1>0 DEF HostType, ConStates
  <2> HIDE DEF o
  <2>5. /\ s \in HostType /\ s.sent = host.sent /\ s.tx = host.tx /\ s.credit = host.credit
        /\ s.state = host.state /\ s.sub = host.sub /\ s.reserved = host.reserved
        /\ s.frags = host.frags /\ s.buf = host.buf /\ s.active = host.active
        /\ s.conn = o
    BY <1>0, <2>3, <2>4 DEF HostType
  <2>6. Forgotten(s) /\ SameConnections(host, s)
    BY <1>0, <2>2, <2>4, <2>5 DEF Good, Almost, HostOK, Forgotten, SameConnections
  <2>7. Good(s, ctl, warm)
    BY <1>0, <2>5, <2>6, SameBuffer
  <2>8. Tidy(s, ctl, warm) /\ Whole(s)
    BY <1>0, <2>5, <2>6, <2>7, SameTidy
  <2> QED BY <1>0, <2>2, <2>8, RunTidy
<1>10. ASSUME NEW h \in Handle, Complete(h) PROVE Goal
  <2>1. PICK n \in Nat : NumberOfCompletedPackets(h, n)
    BY <1>10, TotalAssumption DEF Complete
  <2>2. PICK s : s = Completed(host, h, n)
    OBVIOUS
  <2>3. /\ n <= ctl.held[h] /\ ctl' = [ctl EXCEPT !.held[h] = @ - n]
        /\ host' \in EmitAndRun(s) /\ warm' = warm
    BY <2>1, <2>2 DEF NumberOfCompletedPackets
  <2>4. Good(s, ctl', warm)
    BY <1>0, <2>2, <2>3, CompletedGood
  <2>5. /\ s.state = host.state /\ s.sub = host.sub /\ s.tx = host.tx /\ s.frags = host.frags
        /\ s.buf = host.buf /\ s.reserved = host.reserved /\ s.conn = host.conn
    BY <1>0, <2>2 DEF Completed, HostType
  <2>6. /\ ctl'.link = ctl.link /\ ctl'.partial = ctl.partial /\ ctl'.up = ctl.up
        /\ ctl'.down = ctl.down /\ ctl'.cmdq = ctl.cmdq
    BY <1>0, <2>3 DEF CtlType
  <2>7. SameConnections(host, s)
    BY <2>5 DEF SameConnections
  <2>8. Tidy(s, ctl', warm) /\ Whole(s)
    BY <1>0, <2>4, <2>5, <2>6, <2>7, SameTidy
  <2> QED BY <1>g, <2>3, <2>8, EmitAndRunTidy
<1>11. ASSUME NEW h \in Handle, LinkUp(h) PROVE Goal
  <2>1. /\ host.state \in {"WORKING", "HALTING"} \/ warm
        /\ ~ctl.link[h] /\ h \notin ctl.down /\ ~InTx(host, h)
        /\ ctl' = [ctl EXCEPT !.link[h] = TRUE, !.up = @ \cup {h}]
        /\ host' = host /\ warm' = warm
    BY <1>11 DEF LinkUp, InTx
  <2>2. Tidy(host, ctl', warm)
    BY <1>0, <1>g, <2>1, LinkUpTidy
  <2> QED BY <1>0, <2>1, <2>2
<1>12. ASSUME NEW h \in Handle, ConnectionComplete(h) PROVE Goal
  <2>1. PICK s : s = [host EXCEPT !.conn[h] = "OPEN",
                                  !.sent[h] = IF host.conn[h] = "NONE" THEN 0 ELSE @]
    OBVIOUS
  <2>2. /\ h \in ctl.up /\ host' \in EmitAndRun(s) /\ ctl' = [ctl EXCEPT !.up = @ \ {h}]
        /\ warm' = warm
    BY <1>12, <2>1 DEF ConnectionComplete
  <2>3. Tidy(s, ctl, warm) /\ Whole(s)
    BY <1>0, <2>1, <2>2, ConnectionCompleteTidy
  <2>4. /\ ctl'.link = ctl.link /\ ctl'.partial = ctl.partial /\ ctl'.up \subseteq ctl.up
        /\ ctl'.down = ctl.down /\ ctl'.cmdq = ctl.cmdq /\ ctl'.held = ctl.held
        /\ ctl'.owes = ctl.owes
    BY <1>0, <2>2 DEF CtlType
  <2>5. Good(s, ctl', warm)
    BY <2>3, <2>4 DEF Tidy, Good, Almost, Counted, Linked, Credit
  <2>6. SameConnections(s, s)
    BY DEF SameConnections
  <2>7. Tidy(s, ctl', warm)
    BY <2>3, <2>4, <2>5, <2>6, SameTidy
  <2> QED BY <1>g, <2>2, <2>3, <2>7, EmitAndRunTidy
<1>13. ASSUME NEW h \in Handle, LinkDown(h) PROVE Goal
  <2>1. /\ h \notin ctl.up /\ host' = host /\ warm' = warm
        /\ ctl' = [ctl EXCEPT !.link[h] = FALSE, !.held[h] = 0, !.partial[h] = FALSE,
                              !.closing = @ \ {h}, !.down = @ \cup {h}]
    BY <1>13 DEF LinkDown
  <2>2. Tidy(host, ctl', warm)
    BY <1>0, <1>g, <2>1, LinkDownTidy
  <2> QED BY <1>0, <2>1, <2>2
<1>14. ASSUME NEW h \in Handle, DisconnectionComplete(h) PROVE Goal
  <2>1. h \in ctl.down /\ ctl' = [ctl EXCEPT !.down = @ \ {h}] /\ warm' = warm
    BY <1>14 DEF DisconnectionComplete
  <2>2. PICK s, r : /\ s = DropFragments(host, h) /\ r = Disconnected(s, h)
    OBVIOUS
  <2>3. PICK t \in Emit(r) : host' \in Run(ShutdownConnection(t, h))
    BY <1>14, <2>2 DEF DisconnectionComplete
  <2>4. ~warm => ~ctl.link[h]
    BY <1>0, <2>1 DEF Good, Almost, Linked
  <2>5. Tidy(s, ctl, warm) /\ Whole(s)
    BY <1>0, <2>2, <2>4, DropFragmentsTidy
  <2>6. Tidy(r, ctl, warm) /\ Whole(r)
    <3>1. CASE s.conn[h] = "NONE"
      <4>1. r = s
        BY <2>2, <3>1 DEF Disconnected
      <4> QED BY <2>5, <4>1
    <3>2. CASE s.conn[h] # "NONE"
      <4> DEFINE x == "RECEIVED_DISCONNECTION_COMPLETE"
      <4>1. Forgets(s, h, x, r)
        BY <2>2, <3>2 DEF Disconnected, Forgets
      <4>2. x \in ConStates
        BY DEF ConStates
      <4> HIDE DEF x
      <4> QED BY <1>0, <2>4, <2>5, <3>2, <4>1, <4>2, ForgetTidy
    <3> QED BY <3>1, <3>2
  <2>7. Tidy(t, ctl, warm) /\ Whole(t)
    BY <1>0, <2>3, <2>6, EmitTidy
  <2>8. PICK u : u = ShutdownConnection(t, h)
    OBVIOUS
  <2>9. Tidy(u, ctl, warm) /\ Whole(u) /\ u.conn[h] = "NONE"
    <3> DEFINE x == "NONE"
    <3>1. Forgets(t, h, x, u) /\ x \in ConStates
      BY <2>8 DEF ShutdownConnection, ConStates, Forgets
    <3>2. x = "NONE"
      OBVIOUS
    <3>3. x = "NONE" \/ t.conn[h] # "NONE"
      OBVIOUS
    <3> HIDE DEF x
    <3>4. Tidy(u, ctl, warm) /\ Whole(u) /\ u.conn[h] = x
      BY <1>0, <2>4, <2>7, <3>1, <3>3, ForgetTidy
    <3> QED BY <3>2, <3>4
  <2>10. /\ ctl'.link = ctl.link /\ ctl'.partial = ctl.partial /\ ctl'.up = ctl.up
         /\ ctl'.down = ctl.down \ {h} /\ ctl'.cmdq = ctl.cmdq /\ ctl'.held = ctl.held
         /\ ctl'.owes = ctl.owes
    BY <1>0, <2>1 DEF CtlType
  <2>11. Good(u, ctl', warm)
    BY <2>9, <2>10 DEF Tidy, Good, Almost, Counted, Linked, Credit
  <2>12. ASSUME ~warm PROVE Ordered(u, ctl')
    <3>1. Framed(u, ctl) /\ Listed(u, ctl) /\ ResetFirst(u, ctl)
      BY <2>9, <2>12 DEF Tidy, Ordered
    <3>2. Framed(u, ctl')
      BY <2>10, <3>1 DEF Framed, FramedLink
    <3>3. Listed(u, ctl')
      BY <2>9, <2>10, <3>1 DEF Listed
    <3>4. ResetFirst(u, ctl')
      BY <2>10, <3>1 DEF ResetFirst
    <3> QED BY <3>2, <3>3, <3>4 DEF Ordered
  <2>13. Tidy(u, ctl', warm)
    BY <2>9, <2>11, <2>12 DEF Tidy
  <2> QED BY <1>g, <2>1, <2>3, <2>8, <2>9, <2>13, RunTidy
<1>15. ASSUME UNCHANGED vars PROVE Goal
  BY <1>0, <1>15 DEF vars
<1>16. Goal
  BY <1>1, <1>2, <1>3, <1>4, <1>5, <1>6, <1>7, <1>8, <1>9, <1>10, <1>11, <1>12,
     <1>13, <1>14, <1>15 DEF Next
<1> QED BY <1>i, <1>16 DEF OrderInv

(* OrderInv is an invariant of every behaviour.                            *)
THEOREM OrderInvariant == Spec => []OrderInv
BY InitOrder, NextOrder, PTL DEF Spec

(* The packet boundary flags tell the controller where packets begin.      *)
THEOREM FragmentOrder == Spec => []FragmentsInOrder
<1>1. OrderInv => FragmentsInOrder
  <2> SUFFICES ASSUME OrderInv, ~warm, host.tx.kind = "acl", ctl.link[host.tx.what]
               PROVE  host.tx.start = ~ctl.partial[host.tx.what]
    BY DEF FragmentsInOrder
  <2>1. host \in HostType /\ host.tx \in TxType /\ ctl \in CtlType /\ Framed(host, ctl)
    BY DEF OrderInv, Tidy, Ordered, Inv, Good, Almost, HostOK, HostType
  <2>2. host.tx.what \in Handle /\ host.tx.start \in BOOLEAN
    BY <2>1 DEF TxType
  <2>3. host.tx.start <=> ~ctl.partial[host.tx.what]
    BY <2>1, <2>2 DEF Framed, FramedLink, InTx
  <2>4. ctl.partial[host.tx.what] \in BOOLEAN
    BY <2>1, <2>2 DEF CtlType
  <2> QED BY <2>2, <2>3, <2>4
<1> QED BY <1>1, OrderInvariant, PTL

----------------------------------------------------------------------------
(* A packet goes out completely *)

(* The fragments of s keep the buffer; t has them still, or one less, or   *)
(* their connection is gone.                                               *)
Blocked(s) == s \in HostType /\ s.frags > 0 /\ s.buf \in Handle /\ s.reserved
Kept(s, t) ==
  \/ t.buf = s.buf /\ t.frags \in {s.frags, s.frags - 1}
  \/ t.conn[s.buf] = "NONE"
SameFragments(s, t) == t.buf = s.buf /\ t.frags = s.frags /\ t.reserved = s.reserved

(* While the buffer is reserved no client gets through.                    *)
LEMMA EmitBlocked ==
  ASSUME NEW s, s.reserved, NEW t \in Emit(s)
  PROVE  t = s
BY DEF Emit, AclPackets, ClientCommands, CanSendCommand

(* hci_run sends the next fragment or leaves the buffer alone.             *)
LEMMA RunKept ==
  ASSUME NEW s, Blocked(s), s.state \in {"WORKING", "HALTING"}, NEW t \in Run(s)
  PROVE  Kept(s, t)
<1>0. s \in HostType /\ s.frags > 0 /\ s.buf \in Handle /\ s.reserved /\ s.frags \in Int
  BY DEF Blocked, HostType
<1>1. CASE s.state = "WORKING"
  <2>0. t \in RunWorking(s)
    BY <1>1 DEF Run
  <2>1. CASE s.conn[s.buf] = "NONE"
    <3>1. PICK r : r = [s EXCEPT !.frags = 0]
      OBVIOUS
    <3>2. r.reserved /\ r.conn = s.conn
      BY <1>0, <3>1 DEF HostType
    <3>3. t \in PendingCommands(r)
      BY <1>0, <2>0, <2>1, <3>1 DEF RunWorking
    <3>4. t = r
      BY <3>2, <3>3 DEF PendingCommands, CanSendCommand
    <3> QED BY <2>1, <3>2, <3>4 DEF Kept
  <2>2. CASE s.conn[s.buf] # "NONE"
    <3>0. s.buf # "cmd"
      BY <1>0, HandleAssumption
    <3>1. t = SendFragment(s, s.buf, FALSE) \/ t \in PendingCommands(s)
      BY <1>0, <2>0, <2>2, <3>0 DEF RunWorking
    <3>2. CASE t = SendFragment(s, s.buf, FALSE)
      BY <1>0, <3>2 DEF SendFragment, HostType, Kept
    <3>3. CASE t \in PendingCommands(s)
      <4>1. t = s
        BY <1>0, <3>3 DEF PendingCommands, CanSendCommand
      <4> QED BY <4>1 DEF Kept
    <3> QED BY <3>1, <3>2, <3>3
  <2> QED BY <2>1, <2>2
<1>2. CASE s.state = "HALTING"
  <2>1. t = s
    BY <1>0, <1>2 DEF Run, RunHalting, CanSendCommand
  <2> QED BY <2>1 DEF Kept
<1> QED BY <1>1, <1>2

(* A handler that leaves the buffer to hci_run.                            *)
LEMMA HandlerKept ==
  ASSUME NEW s, Blocked(s), NEW r \in HostType, SameFragments(s, r),
         r.state \in {"WORKING", "HALTING"}, NEW t \in Run(r) \cup EmitAndRun(r)
  PROVE  Kept(s, t)
<1>1. Blocked(r)
  BY DEF Blocked, SameFragments
<1>2. t \in Run(r)
  BY <1>1, EmitBlocked DEF EmitAndRun, Blocked
<1> QED BY <1>1, <1>2, RunKept DEF Kept, SameFragments

(* hci_run does not bring a connection back.                               *)
LEMMA RunGone ==
  ASSUME NEW s \in HostType, s.state \in {"WORKING", "HALTING"}, NEW h \in Handle,
         s.conn[h] = "NONE", NEW t \in Run(s)
  PROVE  t.conn[h] = "NONE"
<1>0. \A op \in {"gap", "stop"} \cup Handle : \A u :
        SendsCommand(s, u, op) => u.conn[h] = "NONE"
  BY HandleAssumption DEF SendsCommand, SameConnections, Commands
<1>1. CASE s.state = "WORKING"
  <2>0. t \in RunWorking(s)
    BY <1>1 DEF Run
  <2>1. CASE t \in PendingCommands(s)
    BY <1>0, <2>1, PendingSends
  <2>2. CASE t = SendFragment(s, s.buf, FALSE)
    BY <2>2 DEF SendFragment, HostType
  <2>3. CASE t \in PendingCommands([s EXCEPT !.frags = 0])
    <3>1. PICK r : r = [s EXCEPT !.frags = 0]
      OBVIOUS
    <3>2. r \in HostType /\ r.conn = s.conn
      BY <3>1, TotalAssumption DEF HostType
    <3>3. t = r \/ \E op \in {"gap"} \cup Handle : SendsCommand(r, t, op)
      BY <2>3, <3>1, <3>2, PendingSends
    <3>4. \A op \in {"gap"} \cup Handle : \A u :
            SendsCommand(r, u, op) => u.conn[h] = "NONE"
      BY <3>2, HandleAssumption DEF SendsCommand, SameConnections, Commands
    <3> QED BY <3>2, <3>3, <3>4
  <2> QED BY <2>0, <2>1, <2>2, <2>3 DEF RunWorking
<1>2. CASE s.state = "HALTING"
  <2>0. t \in RunHalting(s)
    BY <1>2 DEF Run
  <2> QED BY <1>0, <2>0, HaltingSends
<1> QED BY <1>1, <1>2

(* The start-up is not left by sending HCI_Reset.                          *)
LEMMA RestartStays ==
  ASSUME NEW s, NEW c \in CtlType, NEW w, Good(s, c, w), s.state = "INITIALIZING",
         s.sub = "SEND_RESET", NEW t \in EmitAndRun(s)
  PROVE  t.state = "INITIALIZING"
<1>1. PICK u \in Emit(s) : t \in Run(u)
  BY DEF EmitAndRun
<1>2. u.state = "INITIALIZING" /\ u.sub = "SEND_RESET" /\ u \in HostType
  BY <1>1, EmitGood DEF Good, Almost, HostOK
<1>3. t \in RunInitializing(u)
  BY <1>1, <1>2 DEF Run
<1>4. CASE t = u
  BY <1>2, <1>4
<1>5. CASE t = SendCommand([StateReset(u) EXCEPT !.sub = "W4_RESET"], "reset")
  BY <1>2, <1>5 DEF SendCommand, StateReset, HostType
<1> QED BY <1>2, <1>3, <1>4, <1>5 DEF RunInitializing

(* Clients keep the host what it is made of.                               *)
LEMMA EmitType ==
  ASSUME NEW s \in HostType, NEW t \in Emit(s)
  PROVE  t \in HostType /\ t.state = s.state
<1>1. CASE t \in AclPackets(s)
  <2>1. PICK h \in Handle, n \in 1..MaxFragments : t = SendAclPacket(s, h, n)
    BY <1>1 DEF AclPackets
  <2>2. PICK r : r = [s EXCEPT !.reserved = TRUE, !.buf = h, !.frags = n]
    OBVIOUS
  <2> n \in 0..MaxFragments /\ n > 0
    BY TotalAssumption
  <2>3. r \in HostType /\ r.frags = n /\ r.state = s.state
    BY <2>2 DEF HostType
  <2>4. t = SendFragment(r, h, TRUE)
    BY <2>1, <2>2 DEF SendAclPacket
  <2> QED BY <2>3, <2>4, SendFragmentFields
<1>2. CASE t \in ClientCommands(s)
  <2>1. CanSendCommand(s) /\ t = SendCommand(s, "gap")
    BY <1>2 DEF ClientCommands
  <2>2. "gap" \in Op /\ s.credit = 1
    BY <2>1 DEF Op, Commands, CanSendCommand, HostType
  <2> QED BY <2>1, <2>2, SendCommandFields
<1> QED BY <1>1, <1>2 DEF Emit

(* The handler of a disconnect ends the connection before hci_run.         *)
LEMMA DisconnectedKept ==
  ASSUME NEW s, Blocked(s), s.state \in {"WORKING", "HALTING"}, NEW h \in Handle,
         NEW r, r = Disconnected(DropFragments(s, h), h), NEW v \in Emit(r),
         v \in HostType, v.state = s.state, NEW t \in Run(ShutdownConnection(v, h))
  PROVE  Kept(s, t)
<1>0. s \in HostType /\ s.buf \in Handle /\ s.frags > 0
  BY DEF Blocked
<1>1. PICK u : u = ShutdownConnection(v, h)
  OBVIOUS
<1>2. /\ u \in HostType /\ u.state = s.state /\ u.conn[h] = "NONE" /\ SameFragments(v, u)
  BY <1>1 DEF ShutdownConnection, HostType, ConStates, SameFragments
<1>3. CASE s.buf = h
  <2>1. t.conn[h] = "NONE"
    BY <1>1, <1>2, RunGone
  <2> QED BY <1>3, <2>1 DEF Kept
<1>4. CASE s.buf # h
  <2>1. r = Disconnected(s, h)
    BY <1>4 DEF DropFragments
  <2>2. SameFragments(s, r)
    BY <1>0, <2>1 DEF Disconnected, HostType, SameFragments
  <2>3. v = r
    BY <2>2, EmitBlocked DEF Blocked, SameFragments
  <2>4. SameFragments(s, u)
    BY <1>2, <2>2, <2>3 DEF SameFragments
  <2> QED BY <1>1, <1>2, <2>4, HandlerKept
<1> QED BY <1>3, <1>4

(* Every step keeps the fragments of a running host.                       *)
THEOREM StepKept ==
  OrderInv /\ [Next]_vars =>
    (host.frags > 0 /\ {host.state, host'.state} \subseteq {"WORKING", "HALTING"}
       => Kept(host, host'))
<1> SUFFICES ASSUME OrderInv, [Next]_vars, host.frags > 0,
                    {host.state, host'.state} \subseteq {"WORKING", "HALTING"}
             PROVE  Kept(host, host')
  OBVIOUS
<1>0. /\ Blocked(host) /\ Good(host, ctl, warm) /\ host \in HostType /\ ctl \in CtlType
      /\ Tidy(host, ctl, warm) /\ Whole(host)
      /\ host.state \in {"WORKING", "HALTING"} /\ host'.state \in {"WORKING", "HALTING"}
  <2>1. host \in HostType /\ Held(host) /\ Whole(host)
    BY DEF OrderInv, Tidy, Inv, Good, Almost, HostOK
  <2>2. host.buf \in Handle /\ host.reserved
    BY <2>1 DEF Held, Whole, Starting, HostType
  <2> QED BY <2>1, <2>2 DEF OrderInv, Inv, Blocked
<1>s. ASSUME host' = host PROVE Kept(host, host')
  BY <1>s DEF Kept
<1>t. ASSUME NEW r \in HostType, SameFragments(host, r), r.state \in {"WORKING", "HALTING"},
             host' \in Run(r) \cup EmitAndRun(r)
      PROVE  Kept(host, host')
  BY <1>0, <1>t, HandlerKept
<1>1. CASE PowerOn
  <2>1. PICK r : r = Disarm(host)
    OBVIOUS
  <2>2. PICK s : s = PowerOnFrom(r)
    OBVIOUS
  <2>3. host' \in EmitAndRun(s)
    BY <1>1, <2>1, <2>2 DEF PowerOn
  <2>4. r \in HostType /\ SameFragments(host, r) /\ r.state = host.state
    BY <1>0, <2>1 DEF Disarm, HostType, SameFragments
  <2>5. CASE r.state = "WORKING"
    <3>1. s = r
      BY <2>2, <2>5 DEF PowerOnFrom
    <3> QED BY <1>0, <1>t, <2>3, <2>4, <3>1
  <2>6. CASE r.state = "HALTING"
    <3>1. Tidy(r, ctl, warm) /\ Whole(r)
      BY <1>0, <2>1, DisarmTidy
    <3>2. Tidy(s, ctl, warm \/ r.state = "HALTING")
      BY <1>0, <2>2, <3>1, PowerOnTidy
    <3>3. s.state = "INITIALIZING" /\ s.sub = "SEND_RESET"
      BY <2>2, <2>4, <2>6 DEF PowerOnFrom, EnterInitializing, HostType
    <3>4. host'.state = "INITIALIZING"
      BY <1>0, <2>3, <3>2, <3>3, RestartStays DEF Tidy
    <3> QED BY <1>0, <3>4
  <2> QED BY <1>0, <2>4, <2>5, <2>6
<1>2. CASE PowerOff
  <2>1. PICK r : r = Disarm(host)
    OBVIOUS
  <2>2. PICK s : s = PowerOffFrom(r)
    OBVIOUS
  <2>3. host' \in EmitAndRun(s)
    BY <1>2, <2>1, <2>2 DEF PowerOff
  <2>4. r \in HostType /\ SameFragments(host, r) /\ r.state = host.state
    BY <1>0, <2>1 DEF Disarm, HostType, SameFragments
  <2>5. s \in HostType /\ SameFragments(host, s) /\ s.state = "HALTING"
    BY <1>0, <2>2, <2>4 DEF PowerOffFrom, HostType, SameFragments, PowerStates, Substates
  <2> QED BY <1>t, <2>3, <2>5
<1>3. CASE HaltingTimeout
  <2>1. PICK s, u : s \in Emit(host) /\ u = DiscardConnections(s) /\ host' = TransportOff(u)
    BY <1>3 DEF HaltingTimeout
  <2>2. host'.state = "OFF"
    <3>1. s = host
      BY <1>0, <2>1, EmitBlocked DEF Blocked
    <3> QED BY <1>0, <2>1, <3>1 DEF DiscardConnections, TransportOff, HostType
  <2> QED BY <1>0, <2>2
<1>4. CASE ClientSend
  <2>1. host' = host
    BY <1>0, <1>4, EmitBlocked DEF ClientSend, Emit, Blocked
  <2> QED BY <1>s, <2>1
<1>5. CASE GapRequest
  <2>1. PICK s : s = [host EXCEPT !.gap = TRUE]
    OBVIOUS
  <2>2. s \in HostType /\ SameFragments(host, s) /\ s.state = host.state
    BY <1>0, <2>1 DEF HostType, SameFragments
  <2> QED BY <1>0, <1>5, <1>t, <2>1, <2>2 DEF GapRequest
<1>6. CASE TransportPacketSent
  <2>1. PICK s : s = [host EXCEPT !.tx = TxIdle, !.active = FALSE,
                                  !.reserved = @ /\ host.frags > 0]
    OBVIOUS
  <2>2. TxIdle \in TxType
    BY DEF TxIdle, TxState, TxType, Op, Commands
  <2>3. s \in HostType /\ SameFragments(host, s) /\ s.state = host.state
    BY <1>0, <2>1, <2>2 DEF HostType, SameFragments
  <2> QED BY <1>0, <1>6, <1>t, <2>1, <2>3 DEF TransportPacketSent
<1>7. CASE Reply
  <2>1. PICK n \in 0..1 : CommandReply(n)
    BY <1>7 DEF Reply
  <2>2. PICK s : s = [host EXCEPT !.credit = n]
    OBVIOUS
  <2>3. s \in HostType /\ SameFragments(host, s) /\ s.state = host.state
    BY <1>0, <2>2 DEF HostType, SameFragments
  <2>4. host' \in EmitAndRun(s)
    BY <1>0, <2>1, <2>2, <2>3 DEF CommandReply, InitializingReply
  <2> QED BY <1>0, <1>t, <2>3, <2>4
<1>8. CASE CreditGrant
  <2>1. PICK s : s = [host EXCEPT !.credit = 1]
    OBVIOUS
  <2>2. s \in HostType /\ SameFragments(host, s) /\ s.state = host.state
    BY <1>0, <2>1 DEF HostType, SameFragments
  <2> QED BY <1>0, <1>8, <1>t, <2>1, <2>2 DEF CreditGrant
<1>9. ASSUME NEW h \in Handle, GapDisconnect(h) PROVE Kept(host, host')
  <2>1. PICK s : s = [host EXCEPT !.conn[h] = "SEND_DISCONNECT"]
    OBVIOUS
  <2>2. s \in HostType /\ SameFragments(host, s) /\ s.state = host.state
    BY <1>0, <2>1 DEF HostType, ConStates, SameFragments
  <2> QED BY <1>0, <1>9, <1>t, <2>1, <2>2 DEF GapDisconnect
<1>10. ASSUME NEW h \in Handle, Complete(h) PROVE Kept(host, host')
  <2>1. PICK n \in Nat : NumberOfCompletedPackets(h, n)
    BY <1>10, TotalAssumption DEF Complete
  <2>2. PICK s : s = Completed(host, h, n)
    OBVIOUS
  <2>3. s \in HostType /\ SameFragments(host, s) /\ s.state = host.state
    BY <1>0, <2>1, <2>2 DEF Completed, HostType, SameFragments
  <2> QED BY <1>0, <1>t, <2>1, <2>2, <2>3 DEF NumberOfCompletedPackets
<1>11. ASSUME NEW h \in Handle, LinkUp(h) PROVE Kept(host, host')
  BY <1>11, <1>s DEF LinkUp
<1>12. ASSUME NEW h \in Handle, ConnectionComplete(h) PROVE Kept(host, host')
  <2>1. PICK s : s = [host EXCEPT !.conn[h] = "OPEN",
                                  !.sent[h] = IF host.conn[h] = "NONE" THEN 0 ELSE @]
    OBVIOUS
  <2>2. s \in HostType /\ SameFragments(host, s) /\ s.state = host.state
    BY <1>0, <2>1 DEF HostType, ConStates, SameFragments
  <2> QED BY <1>0, <1>12, <1>t, <2>1, <2>2 DEF ConnectionComplete
<1>13. ASSUME NEW h \in Handle, LinkDown(h) PROVE Kept(host, host')
  BY <1>13, <1>s DEF LinkDown
<1>14. ASSUME NEW h \in Handle, DisconnectionComplete(h) PROVE Kept(host, host')
  <2>1. PICK s, r : s = DropFragments(host, h) /\ r = Disconnected(s, h)
    OBVIOUS
  <2>2. PICK t \in Emit(r) : host' \in Run(ShutdownConnection(t, h))
    BY <1>14, <2>1 DEF DisconnectionComplete
  <2>3. s \in HostType /\ s.state = host.state
    <3>1. CASE host.buf = h
      <4>1. PICK b \in BOOLEAN : b = (host.reserved /\ host.active)
        OBVIOUS
      <4>2. s = [host EXCEPT !.frags = 0, !.reserved = b]
        BY <2>1, <3>1, <4>1 DEF DropFragments
      <4>3. 0 \in 0..MaxFragments
        BY TotalAssumption
      <4> QED BY <1>0, <4>2, <4>3 DEF HostType
    <3>2. CASE host.buf # h
      BY <1>0, <2>1, <3>2 DEF DropFragments
    <3> QED BY <3>1, <3>2
  <2>4. r \in HostType /\ r.state = host.state
    BY <2>1, <2>3 DEF Disconnected, HostType, ConStates
  <2>5. t \in HostType /\ t.state = host.state
    BY <2>2, <2>4, EmitType
  <2> QED BY <1>0, <2>1, <2>2, <2>5, DisconnectedKept
<1>15. CASE UNCHANGED vars
  BY <1>15, <1>s DEF vars
<1> QED
  BY <1>1, <1>2, <1>3, <1>4, <1>5, <1>6, <1>7, <1>8, <1>9, <1>10, <1>11, <1>12,
     <1>13, <1>14, <1>15 DEF Next

(* What L2CAP sends goes out completely or ends with its link.             *)
THEOREM PacketComplete == Spec => NoPacketCutShort
<1>1. OrderInv /\ [Next]_vars =>
        [host.frags > 0 /\ {host.state, host'.state} \subseteq {"WORKING", "HALTING"}
           => \/ host'.buf = host.buf /\ host'.frags \in {host.frags, host.frags - 1}
              \/ host'.conn[host.buf] = "NONE"]_vars
  BY StepKept DEF Kept
<1> QED BY <1>1, OrderInvariant, PTL DEF Spec, NoPacketCutShort
=============================================================================

------------------------------ MODULE HciInit ------------------------------
(***************************************************************************)
(* How hci.c brings up the CYW43439: hci_initializing_run and the handler  *)
(* of command complete events step through hci_substate_t, resend a lost   *)
(* HCI_Reset, download the PatchRAM of btstack_chipset_bcm.c and move the  *)
(* UART between baudrate_init and baudrate_main with the controller.       *)
(*                                                                         *)
(* Handlers are functions on host records, as in HciFlow.  What is sent or *)
(* received at the wrong baud rate, or while the controller boots, is lost *)
(***************************************************************************)
EXTENDS Integers, Sequences

CONSTANTS
  MaxScript,    \* the longest PatchRAM
  ConfigSteps,  \* commands from HCI_INIT_READ_BD_ADDR to HCI_INIT_DONE
  Backlog,      \* answers a controller owes before another timeout is considered
  MaxCalls,     \* how often the application calls hci_power_control
  WarmStart     \* may it call hci_power_control(ON) while halting?

ASSUME SizeAssumption ==
  MaxScript \in Nat /\ ConfigSteps \in Nat \ {0} /\ Backlog \in Nat \ {0} /\ MaxCalls \in Nat
ASSUME FlagAssumption == WarmStart \in BOOLEAN

VARIABLES
  host,    \* hci_stack, the chipset driver and the transport
  ctl,     \* the controller
  events,  \* command complete events on their way
  calls,   \* bounds hci_power_control
  setup    \* what the application chose before the first start

vars == <<host, ctl, events, calls, setup>>

(* Commands of the PatchRAM after the download command, 0 if there is no   *)
(* script, and custom_bd_addr_set.                                         *)
SetupType == [script : 0..MaxScript, addr : BOOLEAN]

Bauds == {"init", "main"}

(* hci_substate_t without the substates of other vendors; CONFIGURE stands *)
(* for the ConfigSteps commands behind the address.                        *)
Order ==
  << "SEND_RESET", "W4_RESET", "SEND_READ_VERSION", "W4_READ_VERSION",
     "SEND_READ_NAME", "W4_READ_NAME", "SEND_BAUD_CHANGE", "W4_BAUD_CHANGE",
     "CUSTOM_INIT", "W4_CUSTOM_INIT", "W4_BCM_DELAY", "W4_BCM_RESET",
     "READ_SUPPORTED_COMMANDS", "W4_READ_SUPPORTED_COMMANDS",
     "SEND_BAUD_CHANGE_BCM", "W4_BAUD_CHANGE_BCM", "SET_BD_ADDR", "W4_SET_BD_ADDR",
     "CONFIGURE", "W4_CONFIGURE", "DONE" >>
Substates == {Order[i] : i \in 1..Len(Order)}

Commands ==
  [op : {"reset", "read_version", "read_name", "set_baud", "supported", "set_addr",
         "config", "gap", "stop"}, arg : {0}]
  \cup [op : {"script"}, arg : 0..MaxScript]   \* 0 is the download command
Opcodes == {c.op : c \in Commands}
Command(op) == [op |-> op, arg |-> 0]
NoCommand == [op |-> "none", arg |-> 0]

HostType ==
  [ state  : {"OFF", "INITIALIZING", "WORKING", "HALTING"},
    sub    : Substates,
    step   : 1..ConfigSteps + 1,    \* next command of CONFIGURE
    credit : 0..1,                  \* num_cmd_packets
    last   : Opcodes,               \* last_cmd_opcode
    tx     : Commands \cup {NoCommand},  \* buffer and transport are busy with it
    baud   : Bauds,                 \* of the UART
    script : 0..MaxScript + 1,      \* send_download_command and init_script_offset
    result : {"NO_INIT_SCRIPT", "VALID_COMMAND", "DONE"},  \* chipset_result
    gap    : BOOLEAN,               \* gap_tasks_classic, le_scanning_param_update
    timer  : {"none", "resend", "delay", "halting"} ]  \* hci_stack->timeout

InitialHost ==
  [ state |-> "OFF", sub |-> "SEND_RESET", step |-> 1, credit |-> 0, last |-> "reset",
    tx |-> NoCommand, baud |-> "init", script |-> 0, result |-> "NO_INIT_SCRIPT",
    gap |-> FALSE, timer |-> "none" ]

CtlType ==
  [ up      : BOOLEAN,              \* powered and booted
    baud    : Bauds,
    cmdq    : Seq(Commands),
    loaded  : -1..MaxScript,        \* the last command of the script, -1 none
    spoiled : BOOLEAN,              \* one was missing or came twice
    patched : BOOLEAN,              \* runs the PatchRAM
    addr    : BOOLEAN ]             \* has the custom address

FreshCtl ==
  [ up |-> FALSE, baud |-> "init", cmdq |-> <<>>, loaded |-> -1, spoiled |-> FALSE,
    patched |-> FALSE, addr |-> FALSE ]

EventType == [op : Opcodes, baud : Bauds]

----------------------------------------------------------------------------
(* hci_initializing_run *)

CanSend(s) == s.tx = NoCommand /\ s.credit > 0

Send(s, c) == [s EXCEPT !.tx = c, !.last = c.op, !.credit = @ - 1]

\* Fault: HCI_Reset is not sent again.
ResendTimer_Never(s) == s

ResendTimer(s) == [s EXCEPT !.timer = "resend"]

(* hci_state_reset asks for the GAP settings again.                        *)
SendReset(s) ==
  Send(ResendTimer([s EXCEPT !.sub = "W4_RESET", !.gap = TRUE]), Command("reset"))

(* After the script the UART returns to baudrate_init, where the patched   *)
(* controller starts, and waits for it.                                    *)
ScriptDone(s) ==
  [s EXCEPT !.result = "DONE", !.baud = "init", !.sub = "W4_BCM_DELAY", !.timer = "delay"]

\* Fault: the baud rate is not restored after the script.
CustomInit_Baud(s) ==
  IF setup.script = 0
  THEN Send([s EXCEPT !.result = "NO_INIT_SCRIPT", !.sub = "W4_READ_SUPPORTED_COMMANDS"],
            Command("supported"))
  ELSE IF s.script <= setup.script
  THEN Send([s EXCEPT !.result = "VALID_COMMAND", !.sub = "W4_CUSTOM_INIT", !.script = @ + 1],
            [op |-> "script", arg |-> s.script])
  ELSE [ScriptDone(s) EXCEPT !.baud = s.baud]

(* The next command of the chipset driver, which knows no way back to the  *)
(* start of its script but chipset_init.                                   *)
CustomInit(s) ==
  IF setup.script = 0
  THEN Send([s EXCEPT !.result = "NO_INIT_SCRIPT", !.sub = "W4_READ_SUPPORTED_COMMANDS"],
            Command("supported"))
  ELSE IF s.script <= setup.script
  THEN Send([s EXCEPT !.result = "VALID_COMMAND", !.sub = "W4_CUSTOM_INIT", !.script = @ + 1],
            [op |-> "script", arg |-> s.script])
  ELSE ScriptDone(s)

InitDone(s) ==
  IF s.gap THEN Send([s EXCEPT !.sub = "DONE", !.gap = FALSE], Command("gap"))
  ELSE [s EXCEPT !.sub = "DONE", !.state = "WORKING"]

(* Which steps are skipped depends on the supported commands; the first,   *)
(* HCI_Read_BD_ADDR, never is.                                             *)
Configure(s) ==
  {Send([s EXCEPT !.sub = "W4_CONFIGURE", !.step = k], Command("config")) :
     k \in IF s.step = 1 THEN {1} ELSE s.step..ConfigSteps}
  \cup (IF s.step > 1 THEN {InitDone(s)} ELSE {})

(* Substates that only send.                                               *)
SendsOnly ==
  [ SEND_READ_VERSION |-> "read_version", SEND_READ_NAME |-> "read_name",
    SEND_BAUD_CHANGE |-> "set_baud", READ_SUPPORTED_COMMANDS |-> "supported",
    SEND_BAUD_CHANGE_BCM |-> "set_baud", SET_BD_ADDR |-> "set_addr" ]

NextState(sub) == Order[(CHOOSE i \in 1..Len(Order) : Order[i] = sub) + 1]

Run(s) ==
  IF s.state # "INITIALIZING" \/ ~CanSend(s) THEN {s}
  ELSE CASE s.sub = "SEND_RESET" -> {SendReset(s)}
         [] s.sub \in DOMAIN SendsOnly ->
              {Send([s EXCEPT !.sub = NextState(s.sub)], Command(SendsOnly[s.sub]))}
         [] s.sub = "CUSTOM_INIT" -> {CustomInit(s)}
         [] s.sub = "CONFIGURE" -> Configure(s)
         [] s.sub = "DONE" -> {InitDone(s)}
         [] OTHER -> {s}

----------------------------------------------------------------------------
(* hci_initializing_event_handler *)

(* Is this the answer to the command sent last?                            *)
Completes(s, op) == op = s.last

(* A late answer to HCI_Reset: the command sent after the first one may    *)
(* have been lost, so it is sent again.                                    *)
Resends(s, op) ==
  IF op # "reset" THEN s
  ELSE CASE s.sub = "W4_READ_VERSION" -> [s EXCEPT !.sub = "SEND_READ_VERSION"]
         [] s.sub = "W4_READ_SUPPORTED_COMMANDS" -> [s EXCEPT !.sub = "READ_SUPPORTED_COMMANDS"]
         [] OTHER -> s

Address(s) == [s EXCEPT !.sub = IF setup.addr THEN "SET_BD_ADDR" ELSE "CONFIGURE", !.step = 1]

\* Fault: the controller is not told the baud rate again.
AfterSupported_NoBaud(s) == Address(s)

(* The patched controller has to be told the main baud rate again.         *)
AfterSupported(s) ==
  IF s.result # "NO_INIT_SCRIPT" THEN [s EXCEPT !.sub = "SEND_BAUD_CHANGE_BCM"]
  ELSE Address(s)

Advance(s) ==
  CASE s.sub \in {"SEND_RESET", "W4_RESET"} ->
         [s EXCEPT !.timer = "none", !.sub = "SEND_READ_VERSION"]
    [] s.sub = "W4_BAUD_CHANGE" -> [s EXCEPT !.baud = "main", !.sub = "CUSTOM_INIT"]
    [] s.sub = "W4_CUSTOM_INIT" -> [s EXCEPT !.sub = "CUSTOM_INIT"]
    [] s.sub = "W4_READ_SUPPORTED_COMMANDS" -> AfterSupported(s)
    [] s.sub = "W4_BAUD_CHANGE_BCM" -> Address([s EXCEPT !.baud = "main"])
    [] s.sub = "W4_SET_BD_ADDR" -> [s EXCEPT !.sub = "CONFIGURE", !.step = 1]
    [] s.sub = "W4_CONFIGURE" -> [s EXCEPT !.sub = "CONFIGURE", !.step = @ + 1]
    [] s.sub = "DONE" -> s
    [] OTHER -> [s EXCEPT !.sub = NextState(s.sub)]

(* A command complete event grants one command.                            *)
CommandComplete(s, op) ==
  LET t == [s EXCEPT !.credit = 1]
  IN  IF t.state # "INITIALIZING" THEN {t}
      ELSE Run(IF Completes(t, op) THEN Advance(t) ELSE Resends(t, op))

----------------------------------------------------------------------------
(* hci_power_control *)

EnterInitializing(s) ==
  [s EXCEPT !.state = "INITIALIZING", !.sub = "SEND_RESET", !.credit = 1]

(* hci_power_control_on: chipset, transport and UART start over.           *)
ColdStart(s) ==
  EnterInitializing([s EXCEPT !.tx = NoCommand, !.baud = "init", !.script = 0])

(* hci_power_control_off                                                   *)
Off(s) == [s EXCEPT !.state = "OFF", !.tx = NoCommand, !.timer = "none"]

(* hci_power_enter_halting_state; scanning may have to be stopped first.   *)
Halt(s) ==
  LET t == [s EXCEPT !.state = "HALTING", !.timer = "halting"]
  IN  {t} \cup (IF CanSend(t) THEN {Send(t, Command("stop"))} ELSE {})

----------------------------------------------------------------------------
(* Actions *)

Init ==
  /\ host = InitialHost /\ ctl = FreshCtl /\ events = <<>> /\ calls = 0
  /\ setup \in SetupType

(* Without power the controller forgets everything.                        *)
PowerOn ==
  /\ calls < MaxCalls /\ calls' = calls + 1
  /\ \/ /\ host.state = "OFF"
        /\ host' \in Run(ColdStart(host))
     \/ /\ host.state = "HALTING" /\ WarmStart
        /\ host' \in Run(EnterInitializing([host EXCEPT !.timer = "none"]))
  /\ UNCHANGED <<ctl, events, setup>>

PowerOff ==
  /\ calls < MaxCalls /\ calls' = calls + 1
  /\ \/ /\ host.state = "INITIALIZING"
        /\ host' = Off(host) /\ ctl' = FreshCtl /\ events' = <<>>
     \/ /\ host.state = "WORKING"
        /\ host' \in Halt(host)
        /\ UNCHANGED <<ctl, events>>
  /\ UNCHANGED setup

(* hci_initialization_timeout_handler in HCI_INIT_W4_SEND_RESET            *)
ResetTimeout ==
  /\ host.timer = "resend" /\ Len(ctl.cmdq) + Len(events) < Backlog
  /\ LET s == [host EXCEPT !.timer = "none"]
     IN  host' \in IF s.sub = "W4_RESET"
                   THEN Run([s EXCEPT !.sub = "SEND_RESET", !.credit = 1]) ELSE {s}
  /\ UNCHANGED <<ctl, events, calls, setup>>

(* ... and in HCI_INIT_W4_CUSTOM_INIT_BCM_DELAY.  The reset is sent once;  *)
(* 300 ms are taken to be long enough for the controller to boot.          *)
DelayOver ==
  /\ host.timer = "delay" /\ ctl.up
  /\ LET s == [host EXCEPT !.timer = "none", !.sub = "W4_BCM_RESET"]
     IN  host' = IF CanSend(s) THEN Send(s, Command("reset")) ELSE s
  /\ UNCHANGED <<ctl, events, calls, setup>>

HaltingTimeout ==
  /\ host.timer = "halting"
  /\ host' = Off(host) /\ ctl' = FreshCtl /\ events' = <<>>
  /\ UNCHANGED <<calls, setup>>

(* The last byte of a command is written; then HCI_EVENT_TRANSPORT_PACKET_ *)
(* SENT runs hci_run.                                                      *)
PacketSent ==
  /\ host.tx # NoCommand
  /\ host' \in Run([host EXCEPT !.tx = NoCommand])
  /\ ctl' = IF ctl.up /\ ctl.baud = host.baud THEN [ctl EXCEPT !.cmdq = Append(@, host.tx)]
            ELSE ctl
  /\ UNCHANGED <<events, calls, setup>>

(* The controller boots when it has power, and again with the PatchRAM.    *)
Boots ==
  /\ host.state # "OFF" /\ ~ctl.up
  /\ ctl' = [ctl EXCEPT !.up = TRUE]
  /\ UNCHANGED <<host, events, calls, setup>>

(* The effect of a command on the controller, once it is answered.         *)
Effect(c, cmd) ==
  LET r == [c EXCEPT !.cmdq = Tail(@)]
  IN  CASE cmd.op = "set_baud" -> [r EXCEPT !.baud = "main"]
        [] cmd.op = "set_addr" -> [r EXCEPT !.addr = TRUE]
        [] cmd.op = "script" /\ cmd.arg < setup.script ->
             [r EXCEPT !.loaded = cmd.arg, !.spoiled = @ \/ cmd.arg # c.loaded + 1]
        [] cmd.op = "script" /\ cmd.arg = setup.script ->
             [FreshCtl EXCEPT !.patched = TRUE, !.loaded = cmd.arg,
                              !.spoiled = c.spoiled \/ cmd.arg # c.loaded + 1]
        [] OTHER -> r

Execute ==
  /\ ctl.up /\ ctl.cmdq # <<>>
  /\ events' = Append(events, [op |-> Head(ctl.cmdq).op, baud |-> ctl.baud])
  /\ ctl' = Effect(ctl, Head(ctl.cmdq))
  /\ UNCHANGED <<host, calls, setup>>

(* The event reaches event_handler if the UART can read it.  A command is  *)
(* written before the next event is in: hal_teensy_uart_poll hands it to   *)
(* the transmit ring of the UART in one pass of loop(), and type, header   *)
(* and payload of an event are read in one pass each.                      *)
Deliver ==
  /\ events # <<>> /\ host.tx = NoCommand
  /\ host' \in IF Head(events).baud = host.baud THEN CommandComplete(host, Head(events).op)
               ELSE {host}
  /\ events' = Tail(events)
  /\ UNCHANGED <<ctl, calls, setup>>

Next ==
  \/ PowerOn \/ PowerOff
  \/ ResetTimeout \/ DelayOver \/ HaltingTimeout
  \/ PacketSent \/ Boots \/ Execute \/ Deliver

Spec == Init /\ [][Next]_vars

(* The controller works and the run loop calls timers and data sources;    *)
(* the application need not do anything.                                   *)
FairSpec ==
  /\ Spec
  /\ WF_vars(ResetTimeout) /\ WF_vars(DelayOver) /\ WF_vars(HaltingTimeout)
  /\ WF_vars(PacketSent) /\ WF_vars(Boots) /\ WF_vars(Execute) /\ WF_vars(Deliver)

----------------------------------------------------------------------------
(* Properties *)

(* What the bring-up is made of.                                           *)
TypeOK ==
  /\ host \in HostType /\ ctl \in CtlType /\ events \in Seq(EventType) /\ calls \in 0..MaxCalls
  /\ setup \in SetupType

(* The two ends of the UART never use different baud rates while one of    *)
(* them has something to say: every change of baudrate_init to             *)
(* baudrate_main and back happens on both sides between two packets.       *)
SameBaud ==
  /\ host.tx # NoCommand /\ ctl.up => host.baud = ctl.baud
  /\ \A i \in 1..Len(events) : events[i].baud = host.baud

(* In HCI_STATE_WORKING the controller runs the PatchRAM with the address  *)
(* of the application, each command of it has reached the controller once  *)
(* and in order, however many resets were sent before and whenever they    *)
(* were answered, both ends are at baudrate_main and nothing of the        *)
(* bring-up is still under way.                                            *)
WorkingIsReady ==
  host.state = "WORKING" =>
    /\ ctl.patched = (setup.script > 0) /\ ~ctl.spoiled
    /\ ctl.addr = setup.addr
    /\ host.baud = "main" /\ ctl.baud = "main"
    /\ host.timer = "none"

(* The bring-up ends: HCI_STATE_WORKING, unless the application turns the  *)
(* power off, however often HCI_Reset is lost while the controller boots.  *)
BringUpEnds == host.state = "INITIALIZING" ~> host.state # "INITIALIZING"
=============================================================================

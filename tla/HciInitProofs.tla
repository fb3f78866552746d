---------------------------- MODULE HciInitProofs ----------------------------
(***************************************************************************)
(* Proofs about HciInit for every script length, any number of commands of *)
(* the configuration, any backlog of late answers and any number of power  *)
(* calls, as long as every start is a cold one.  Inv is the inductive      *)
(* invariant: it says of every substate which commands are on their way    *)
(* and at which baud rate.                                                 *)
(***************************************************************************)
EXTENDS HciInit, SequenceTheorems, TLAPS

(* The controller before the first command with an effect.                 *)
Virgin(c) == c.baud = "init" /\ c.loaded = -1 /\ ~c.spoiled /\ ~c.patched /\ ~c.addr

(* Late resets bring others with them: what can be on its way up to each   *)
(* of the first substates, all of it without effect.                       *)
EarlyOps == {"reset", "read_version", "read_name"}
UpTo(sub) ==
  CASE sub \in {"SEND_RESET", "W4_RESET"} -> {"reset"}
    [] sub = "W4_READ_VERSION" -> {"reset", "read_version"}
    [] OTHER -> EarlyOps

QueueIn(q, n, ops) == \A i \in 1..n : q[i].op \in ops

Early(h, c, e) ==
  /\ h.sub \in {"SEND_RESET", "W4_RESET", "W4_READ_VERSION", "W4_READ_NAME"}
  /\ h.last = CASE h.sub \in {"SEND_RESET", "W4_RESET"} -> "reset"
                [] h.sub = "W4_READ_VERSION" -> "read_version"
                [] OTHER -> "read_name"
  /\ h.baud = "init" /\ h.script = 0 /\ Virgin(c)
  /\ h.tx.op \in UpTo(h.sub) \cup {"none"}
  /\ QueueIn(c.cmdq, Len(c.cmdq), UpTo(h.sub)) /\ QueueIn(e, Len(e), UpTo(h.sub))
  /\ \A i \in 1..Len(e) : e[i].baud = "init"
  /\ IF h.sub \in {"SEND_RESET", "W4_RESET"}
     THEN h.timer \in {"none", "resend"} /\ (~c.up => c.cmdq = <<>> /\ e = <<>>)
     ELSE h.timer = "none" /\ c.up

(* The command for the main baud rate is the last on its way.              *)
BaudChange(h, c, e) ==
  /\ h.sub = "W4_BAUD_CHANGE" /\ h.last = "set_baud"
  /\ h.baud = "init" /\ h.script = 0 /\ h.timer = "none" /\ c.up
  /\ c.loaded = -1 /\ ~c.spoiled /\ ~c.patched /\ ~c.addr
  /\ \A i \in 1..Len(e) : e[i].baud = "init"
  /\ \/ /\ h.tx.op = "set_baud" /\ c.baud = "init"
        /\ QueueIn(c.cmdq, Len(c.cmdq), EarlyOps) /\ QueueIn(e, Len(e), EarlyOps)
     \/ /\ h.tx = NoCommand /\ c.baud = "init" /\ c.cmdq # <<>>
        /\ c.cmdq[Len(c.cmdq)].op = "set_baud"
        /\ QueueIn(c.cmdq, Len(c.cmdq) - 1, EarlyOps) /\ QueueIn(e, Len(e), EarlyOps)
     \/ /\ h.tx = NoCommand /\ c.baud = "main" /\ c.cmdq = <<>> /\ e # <<>>
        /\ e[Len(e)].op = "set_baud"
        /\ QueueIn(e, Len(e) - 1, EarlyOps)

(* From then on one command is on its way at a time.                       *)
Under(cmd, h, c, e) ==
  \/ h.tx = cmd /\ c.cmdq = <<>> /\ e = <<>>
  \/ h.tx = NoCommand /\ c.cmdq = <<cmd>> /\ e = <<>>
Answered(op, b, h, c, e) ==
  h.tx = NoCommand /\ c.cmdq = <<>> /\ e = <<[op |-> op, baud |-> b]>>
Quiet(h, c, e) == h.tx = NoCommand /\ c.cmdq = <<>> /\ e = <<>>

(* A command without an effect on what is below.                           *)
Single(cmd, b, h, c, e) ==
  /\ h.last = cmd.op /\ h.timer = "none" /\ h.baud = b /\ c.baud = b /\ c.up
  /\ Under(cmd, h, c, e) \/ Answered(cmd.op, b, h, c, e)

(* The controller without, or with, the whole script.                      *)
Loaded(c) == ~c.spoiled /\ c.patched = (setup.script > 0)

Download(h, c, e) ==
  LET cmd == [op |-> "script", arg |-> h.script - 1]
  IN  /\ h.sub = "W4_CUSTOM_INIT" /\ h.last = "script" /\ h.timer = "none"
      /\ h.script \in 1..setup.script + 1 /\ h.result # "NO_INIT_SCRIPT"
      /\ h.baud = "main" /\ ~c.spoiled /\ ~c.addr
      /\ \/ /\ Under(cmd, h, c, e)
            /\ c.up /\ c.baud = "main" /\ ~c.patched /\ c.loaded = h.script - 2
         \/ /\ Answered("script", "main", h, c, e)
            /\ c.loaded = h.script - 1
            /\ IF h.script = setup.script + 1 THEN c.patched /\ c.baud = "init"
               ELSE c.up /\ ~c.patched /\ c.baud = "main"

Patched(h, c) == setup.script > 0 /\ h.result # "NO_INIT_SCRIPT" /\ Loaded(c) /\ ~c.addr

Delay(h, c, e) ==
  /\ h.sub = "W4_BCM_DELAY" /\ h.timer = "delay" /\ h.credit = 1
  /\ h.baud = "init" /\ c.baud = "init"
  /\ Patched(h, c) /\ Quiet(h, c, e)

Reset2(h, c, e) ==
  h.sub = "W4_BCM_RESET" /\ Patched(h, c) /\ Single(Command("reset"), "init", h, c, e)

Supported(h, c, e) ==
  /\ h.sub = "W4_READ_SUPPORTED_COMMANDS"
  /\ setup.script > 0 => Patched(h, c)
  /\ Loaded(c) /\ ~c.addr
  /\ Single(Command("supported"), IF setup.script = 0 THEN "main" ELSE "init", h, c, e)

BaudChange2(h, c, e) ==
  /\ h.sub = "W4_BAUD_CHANGE_BCM" /\ h.last = "set_baud" /\ h.timer = "none"
  /\ Patched(h, c) /\ c.up /\ h.baud = "init"
  /\ \/ Under(Command("set_baud"), h, c, e) /\ c.baud = "init"
     \/ Answered("set_baud", "init", h, c, e) /\ c.baud = "main"

SetAddress(h, c, e) ==
  /\ h.sub = "W4_SET_BD_ADDR" /\ setup.addr /\ Loaded(c)
  /\ Single(Command("set_addr"), "main", h, c, e)
  /\ Answered("set_addr", "main", h, c, e) => c.addr

Configuring(h, c, e) ==
  /\ h.sub = "W4_CONFIGURE" /\ h.step \in 1..ConfigSteps /\ Loaded(c) /\ c.addr = setup.addr
  /\ Single(Command("config"), "main", h, c, e)

Finishing(h, c, e) ==
  /\ h.sub = "DONE" /\ ~h.gap /\ h.credit = 0 /\ Loaded(c) /\ c.addr = setup.addr
  /\ Single(Command("gap"), "main", h, c, e)

Stage(h, c, e) ==
  \/ Early(h, c, e) \/ BaudChange(h, c, e) \/ Download(h, c, e) \/ Delay(h, c, e)
  \/ Reset2(h, c, e) \/ Supported(h, c, e) \/ BaudChange2(h, c, e)
  \/ SetAddress(h, c, e) \/ Configuring(h, c, e) \/ Finishing(h, c, e)

Halting(h, c, e) ==
  /\ h.timer = "halting" /\ h.baud = "main" /\ c.baud = "main" /\ c.up
  /\ \/ Quiet(h, c, e) \/ Under(Command("stop"), h, c, e)
     \/ Answered("stop", "main", h, c, e)

Working(h, c, e) ==
  /\ h.timer = "none" /\ h.baud = "main" /\ c.baud = "main" /\ c.up
  /\ Quiet(h, c, e) /\ Loaded(c) /\ c.addr = setup.addr

NoScript(h) == setup.script = 0 => h.result = "NO_INIT_SCRIPT"
GapAsked(h) == h.state = "INITIALIZING" /\ h.sub # "DONE" => h.gap

Good(h, c, e) ==
  /\ NoScript(h) /\ GapAsked(h)
  /\ h.state = "OFF" => h.timer = "none" /\ c = FreshCtl /\ e = <<>> /\ h.tx = NoCommand
  /\ h.state = "INITIALIZING" => Stage(h, c, e)
  /\ h.state = "WORKING" => Working(h, c, e)
  /\ h.state = "HALTING" => Halting(h, c, e)

Inv == TypeOK /\ Good(host, ctl, events)

----------------------------------------------------------------------------
(* Commands and substates *)

(* A command without an argument.                                          *)
LEMMA CommandType ==
  /\ \A op \in {"reset", "read_version", "read_name", "set_baud", "supported", "set_addr",
                "config", "gap", "stop"} :
       Command(op) \in Commands /\ Command(op).op = op
  /\ \A k \in 0..MaxScript : [op |-> "script", arg |-> k] \in Commands
  /\ \A c \in Commands : c # NoCommand /\ c.op # "none"
BY DEF Command, Commands, NoCommand

(* The substates in their order.                                           *)
LEMMA SubstateNames ==
  Substates = {"SEND_RESET", "W4_RESET", "SEND_READ_VERSION", "W4_READ_VERSION",
     "SEND_READ_NAME", "W4_READ_NAME", "SEND_BAUD_CHANGE", "W4_BAUD_CHANGE",
     "CUSTOM_INIT", "W4_CUSTOM_INIT", "W4_BCM_DELAY", "W4_BCM_RESET",
     "READ_SUPPORTED_COMMANDS", "W4_READ_SUPPORTED_COMMANDS",
     "SEND_BAUD_CHANGE_BCM", "W4_BAUD_CHANGE_BCM", "SET_BD_ADDR", "W4_SET_BD_ADDR",
     "CONFIGURE", "W4_CONFIGURE", "DONE"}
<1>1. Len(Order) = 21
  BY DEF Order
<1>2. Substates = {Order[i] : i \in 1..21}
  BY <1>1 DEF Substates
<1>3. \A i \in 1..21 : \/ i = 1 \/ i = 2 \/ i = 3 \/ i = 4 \/ i = 5 \/ i = 6 \/ i = 7 \/ i = 8
                       \/ i = 9 \/ i = 10 \/ i = 11 \/ i = 12 \/ i = 13 \/ i = 14 \/ i = 15
                       \/ i = 16 \/ i = 17 \/ i = 18 \/ i = 19 \/ i = 20 \/ i = 21
  OBVIOUS
<1> QED BY <1>2, <1>3 DEF Order

(* The substates from which hci_initializing_next_state is called.         *)
LEMMA NextStates ==
  /\ NextState("SEND_READ_VERSION") = "W4_READ_VERSION"
  /\ NextState("W4_READ_VERSION") = "SEND_READ_NAME"
  /\ NextState("SEND_READ_NAME") = "W4_READ_NAME"
  /\ NextState("W4_READ_NAME") = "SEND_BAUD_CHANGE"
  /\ NextState("SEND_BAUD_CHANGE") = "W4_BAUD_CHANGE"
  /\ NextState("W4_BCM_RESET") = "READ_SUPPORTED_COMMANDS"
  /\ NextState("READ_SUPPORTED_COMMANDS") = "W4_READ_SUPPORTED_COMMANDS"
  /\ NextState("SEND_BAUD_CHANGE_BCM") = "W4_BAUD_CHANGE_BCM"
  /\ NextState("SET_BD_ADDR") = "W4_SET_BD_ADDR"
<1>1. Len(Order) = 21
  BY DEF Order
<1>2. ASSUME NEW k \in 1..20, \A i \in 1..21 : Order[i] = Order[k] => i = k
      PROVE  NextState(Order[k]) = Order[k + 1]
  BY <1>1, <1>2 DEF NextState
<1>3. \A k \in {3, 4, 5, 6, 7, 12, 13, 15, 17} : \A i \in 1..21 : Order[i] = Order[k] => i = k
  BY DEF Order
<1>4. \A k \in {3, 4, 5, 6, 7, 12, 13, 15, 17} : NextState(Order[k]) = Order[k + 1]
  BY <1>2, <1>3
<1> QED BY <1>4 DEF Order

(* What a substate that only sends is followed by.                         *)
LEMMA SendsOnlyNames ==
  /\ DOMAIN SendsOnly = {"SEND_READ_VERSION", "SEND_READ_NAME", "SEND_BAUD_CHANGE",
       "READ_SUPPORTED_COMMANDS", "SEND_BAUD_CHANGE_BCM", "SET_BD_ADDR"}
  /\ SendsOnly["SEND_READ_VERSION"] = "read_version"
  /\ SendsOnly["SEND_READ_NAME"] = "read_name"
  /\ SendsOnly["SEND_BAUD_CHANGE"] = "set_baud"
  /\ SendsOnly["READ_SUPPORTED_COMMANDS"] = "supported"
  /\ SendsOnly["SEND_BAUD_CHANGE_BCM"] = "set_baud"
  /\ SendsOnly["SET_BD_ADDR"] = "set_addr"
BY DEF SendsOnly

----------------------------------------------------------------------------
(* Sending *)

(* With a credit and a free transport there is exactly one credit.         *)
LEMMA CanSendMeans ==
  ASSUME NEW s \in HostType
  PROVE  CanSend(s) <=> s.tx = NoCommand /\ s.credit = 1
BY DEF CanSend, HostType

(* What sending a command (hci_send_prepared_cmd_packet) changes.          *)
LEMMA SendFields ==
  ASSUME NEW s \in HostType, s.credit = 1, NEW cmd \in Commands, NEW t, t = Send(s, cmd)
  PROVE  /\ t \in HostType
         /\ t.tx = cmd /\ t.last = cmd.op /\ t.credit = 0
         /\ t.state = s.state /\ t.sub = s.sub /\ t.step = s.step /\ t.baud = s.baud
         /\ t.script = s.script /\ t.result = s.result /\ t.gap = s.gap /\ t.timer = s.timer
<1> DEFINE op == cmd.op
<1>1. op \in Opcodes
  BY DEF Opcodes
<1>2. t = [s EXCEPT !.tx = cmd, !.last = op, !.credit = 0]
  BY DEF Send, HostType
<1> HIDE DEF op
<1>3. t \in HostType
  <2>1. \A n \in 0..1 : [s EXCEPT !.tx = cmd, !.last = op, !.credit = n] \in HostType
    BY <1>1 DEF HostType
  <2> QED BY <1>2, <2>1
<1>4. /\ t.tx = cmd /\ t.last = op /\ t.credit = 0
      /\ t.state = s.state /\ t.sub = s.sub /\ t.step = s.step /\ t.baud = s.baud
      /\ t.script = s.script /\ t.result = s.result /\ t.gap = s.gap /\ t.timer = s.timer
  BY <1>2 DEF HostType
<1> QED BY <1>3, <1>4 DEF op

(* A substate that only sends moves on when it can.                        *)
LEMMA RunSends ==
  ASSUME NEW s \in HostType, s.state = "INITIALIZING", CanSend(s),
         s.sub \in DOMAIN SendsOnly, NEW t \in Run(s)
  PROVE  /\ t = Send([s EXCEPT !.sub = NextState(s.sub)], Command(SendsOnly[s.sub]))
         /\ t \in HostType /\ t.sub = NextState(s.sub) /\ t.sub \in Substates
         /\ t.tx = Command(SendsOnly[s.sub]) /\ t.last = SendsOnly[s.sub] /\ t.credit = 0
         /\ t.state = s.state /\ t.step = s.step /\ t.baud = s.baud
         /\ t.script = s.script /\ t.result = s.result /\ t.gap = s.gap /\ t.timer = s.timer
<1> DEFINE op == SendsOnly[s.sub]
           n == NextState(s.sub)
           r == [s EXCEPT !.sub = n]
<1>1. t = Send(r, Command(op))
  BY SendsOnlyNames DEF Run
<1>2. n \in Substates /\ Command(op) \in Commands /\ Command(op).op = op
  <2>1. n \in Substates
    BY SendsOnlyNames, NextStates, SubstateNames
  <2>2. op \in {"read_version", "read_name", "set_baud", "supported", "set_addr"}
    BY SendsOnlyNames
  <2> QED BY <2>1, <2>2, CommandType
<1> HIDE DEF n, op
<1>3. /\ r \in HostType /\ r.credit = 1 /\ r.sub = n
      /\ r.state = s.state /\ r.step = s.step /\ r.baud = s.baud
      /\ r.script = s.script /\ r.result = s.result /\ r.gap = s.gap /\ r.timer = s.timer
  BY <1>2, CanSendMeans DEF HostType
<1> HIDE DEF r
<1>4. /\ t \in HostType /\ t.sub = n /\ t.tx = Command(op) /\ t.last = op /\ t.credit = 0
      /\ t.state = s.state /\ t.step = s.step /\ t.baud = s.baud
      /\ t.script = s.script /\ t.result = s.result /\ t.gap = s.gap /\ t.timer = s.timer
  BY <1>1, <1>2, <1>3, SendFields
<1>5. t = Send([s EXCEPT !.sub = n], Command(op))
  BY <1>1 DEF r
<1> QED BY <1>2, <1>4, <1>5 DEF n, op

(* Nothing runs without a credit or in a substate that waits.              *)
LEMMA RunWaits ==
  ASSUME NEW s, \/ s.state # "INITIALIZING" \/ ~CanSend(s)
                \/ s.sub \in {"W4_RESET", "W4_READ_VERSION", "W4_READ_NAME", "W4_BAUD_CHANGE",
                              "W4_CUSTOM_INIT", "W4_BCM_DELAY", "W4_BCM_RESET",
                              "W4_READ_SUPPORTED_COMMANDS", "W4_BAUD_CHANGE_BCM",
                              "W4_SET_BD_ADDR", "W4_CONFIGURE"},
         NEW t \in Run(s)
  PROVE  t = s
BY SendsOnlyNames DEF Run

----------------------------------------------------------------------------
(* hci_initializing_run *)

(* A stage of the bring-up is all that has to be shown while it lasts.     *)
LEMMA GoodStage ==
  ASSUME NEW h, NEW c, NEW e, h.state = "INITIALIZING", NoScript(h),
         h.gap \/ h.sub = "DONE", Stage(h, c, e)
  PROVE  Good(h, c, e)
BY DEF Good, GapAsked

(* A command that was just handed to the transport is under way.           *)
LEMMA JustSent ==
  ASSUME NEW h, NEW c, NEW cmd, NEW b, h.tx = cmd, h.last = cmd.op, h.timer = "none",
         h.baud = b, c.baud = b, c.up, c.cmdq = <<>>
  PROVE  Single(cmd, b, h, c, <<>>)
BY DEF Single, Under

(* From the address on: the commands of CONFIGURE, ...                     *)
LEMMA RunConfigure ==
  ASSUME NEW s \in HostType, s.state = "INITIALIZING", CanSend(s), s.sub = "CONFIGURE",
         NoScript(s), s.gap, s.timer = "none", s.baud = "main",
         NEW c, c.up, c.baud = "main", c.cmdq = <<>>, Loaded(c), c.addr = setup.addr,
         NEW t \in Run(s)
  PROVE  t \in HostType /\ Good(t, c, <<>>)
<1>1. t \in Configure(s)
  BY SendsOnlyNames DEF Run
<1>2. CASE \E k \in 1..ConfigSteps :
             t = Send([s EXCEPT !.sub = "W4_CONFIGURE", !.step = k], Command("config"))
  <2>1. PICK k \in 1..ConfigSteps :
          t = Send([s EXCEPT !.sub = "W4_CONFIGURE", !.step = k], Command("config"))
    BY <1>2
  <2> DEFINE r == [s EXCEPT !.sub = "W4_CONFIGURE", !.step = k]
  <2>2. k \in 1..ConfigSteps + 1 /\ "W4_CONFIGURE" \in Substates
    BY SizeAssumption, SubstateNames
  <2>3. /\ r \in HostType /\ r.sub = "W4_CONFIGURE" /\ r.step = k /\ r.credit = 1
        /\ r.state = s.state /\ r.baud = s.baud /\ r.result = s.result /\ r.gap = s.gap
        /\ r.timer = s.timer
    BY <2>2, CanSendMeans DEF HostType
  <2>4. t = Send(r, Command("config"))
    BY <2>1
  <2> HIDE DEF r
  <2>c. Command("config") \in Commands /\ Command("config").op = "config"
    BY CommandType
  <2>d. /\ t \in HostType /\ t.sub = r.sub /\ t.step = r.step
        /\ t.tx = Command("config") /\ t.last = "config"
        /\ t.state = r.state /\ t.baud = r.baud /\ t.result = r.result /\ t.gap = r.gap
        /\ t.timer = r.timer
    <3>1. r \in HostType /\ r.credit = 1
      BY <2>3
    <3> QED BY <2>4, <2>c, <3>1, SendFields
  <2>5. /\ t \in HostType /\ t.sub = "W4_CONFIGURE" /\ t.step = k
        /\ t.tx = Command("config") /\ t.last = "config"
        /\ t.state = s.state /\ t.baud = s.baud /\ t.result = s.result /\ t.gap = s.gap
        /\ t.timer = s.timer
    BY <2>3, <2>d
  <2>6. Single(Command("config"), "main", t, c, <<>>)
    BY <2>5, <2>c, JustSent
  <2>7. Configuring(t, c, <<>>)
    BY <2>5, <2>6 DEF Configuring
  <2> QED BY <2>5, <2>7, GoodStage DEF Stage, NoScript
<1>3. CASE t = InitDone(s)
  <2> DEFINE r == [s EXCEPT !.sub = "DONE", !.gap = FALSE]
  <2>1. t = Send(r, Command("gap"))
    BY <1>3 DEF InitDone
  <2>2. /\ r \in HostType /\ r.sub = "DONE" /\ r.credit = 1 /\ r.gap = FALSE
        /\ r.state = s.state /\ r.baud = s.baud /\ r.result = s.result /\ r.timer = s.timer
    <3>1. "DONE" \in Substates
      BY SubstateNames
    <3> QED BY <3>1, CanSendMeans DEF HostType
  <2> HIDE DEF r
  <2>3. /\ t \in HostType /\ t.sub = "DONE" /\ t.gap = FALSE /\ t.credit = 0
        /\ t.tx = Command("gap") /\ t.last = "gap"
        /\ t.state = s.state /\ t.baud = s.baud /\ t.result = s.result /\ t.timer = s.timer
    BY <2>1, <2>2, SendFields, CommandType
  <2>4. Single(Command("gap"), "main", t, c, <<>>)
    BY <2>3, JustSent, CommandType
  <2>5. Finishing(t, c, <<>>)
    BY <2>3, <2>4 DEF Finishing
  <2> QED BY <2>3, <2>5, GoodStage DEF Stage, NoScript
<1> QED
  <2>1. s.step \in 1..ConfigSteps + 1
    BY DEF HostType
  <2>2. (IF s.step = 1 THEN {1} ELSE s.step..ConfigSteps) \subseteq 1..ConfigSteps
    BY <2>1, SizeAssumption
  <2> QED BY <1>1, <1>2, <1>3, <2>2 DEF Configure

(* ... after the address of the application, if there is one.              *)
LEMMA RunAddress ==
  ASSUME NEW s \in HostType, s.state = "INITIALIZING", CanSend(s),
         NoScript(s), s.gap, s.timer = "none", s.baud = "main", setup \in SetupType,
         NEW c, c.up, c.baud = "main", c.cmdq = <<>>, Loaded(c), ~c.addr, c.addr \in BOOLEAN,
         NEW t \in Run(Address(s))
  PROVE  t \in HostType /\ Good(t, c, <<>>)
<1> DEFINE n == IF setup.addr THEN "SET_BD_ADDR" ELSE "CONFIGURE"
           r == [s EXCEPT !.sub = n, !.step = 1]
<1>1. n \in Substates /\ 1 \in 1..ConfigSteps + 1
  BY SubstateNames, SizeAssumption
<1>2. t \in Run(r)
  BY DEF Address
<1>d. (n = "SET_BD_ADDR" /\ setup.addr) \/ (n = "CONFIGURE" /\ ~setup.addr)
  OBVIOUS
<1> HIDE DEF n
<1>3. /\ r \in HostType /\ r.sub = n /\ r.step = 1 /\ r.credit = s.credit /\ r.tx = s.tx
      /\ r.state = s.state /\ r.baud = s.baud /\ r.result = s.result /\ r.gap = s.gap
      /\ r.timer = s.timer
  BY <1>1 DEF HostType
<1> HIDE DEF r
<1>4. CanSend(r) /\ NoScript(r)
  BY <1>3 DEF CanSend, NoScript
<1>5. CASE n = "CONFIGURE"
  <2>1. c.addr = setup.addr
    BY <1>5, <1>d DEF SetupType
  <2> QED BY <1>2, <1>3, <1>4, <1>5, <2>1, RunConfigure
<1>6. CASE n = "SET_BD_ADDR"
  <2>0. /\ r.sub \in DOMAIN SendsOnly /\ SendsOnly[r.sub] = "set_addr"
        /\ NextState(r.sub) = "W4_SET_BD_ADDR" /\ r.state = "INITIALIZING"
    BY <1>3, <1>6, SendsOnlyNames, NextStates
  <2>1. /\ t \in HostType /\ t.sub = "W4_SET_BD_ADDR" /\ t.tx = Command("set_addr")
        /\ t.last = "set_addr" /\ t.state = s.state /\ t.baud = s.baud
        /\ t.result = s.result /\ t.gap = s.gap /\ t.timer = s.timer
    <3>1. r \in HostType /\ CanSend(r)
      BY <1>3, <1>4
    <3>2. /\ t \in HostType /\ t.sub = "W4_SET_BD_ADDR" /\ t.tx = Command("set_addr")
          /\ t.last = "set_addr" /\ t.state = r.state /\ t.baud = r.baud
          /\ t.result = r.result /\ t.gap = r.gap /\ t.timer = r.timer
      BY <1>2, <2>0, <3>1, RunSends, ZenonT(40)
    <3> QED BY <1>3, <3>2
  <2>2. Single(Command("set_addr"), "main", t, c, <<>>)
    BY <2>1, JustSent, CommandType
  <2>3. ~Answered("set_addr", "main", t, c, <<>>)
    BY DEF Answered
  <2>4. SetAddress(t, c, <<>>)
    BY <1>6, <1>d, <2>1, <2>2, <2>3 DEF SetAddress
  <2> QED BY <2>1, <2>4, GoodStage DEF Stage, NoScript
<1> QED BY <1>5, <1>6, <1>d

(* From s the command op is sent and substate sub entered.                 *)
Sent(s, t, sub, op) ==
  /\ t \in HostType /\ t.sub = sub /\ t.tx = Command(op) /\ t.last = op
  /\ t.state = s.state /\ t.step = s.step /\ t.baud = s.baud /\ t.script = s.script
  /\ t.result = s.result /\ t.gap = s.gap /\ t.timer = s.timer

(* A substate that only sends is entered and left at once.                 *)
LEMMA MoveAndSend ==
  ASSUME NEW s \in HostType, s.state = "INITIALIZING", CanSend(s),
         NEW from \in DOMAIN SendsOnly, NEW to, NextState(from) = to,
         NEW op, SendsOnly[from] = op, NEW t \in Run([s EXCEPT !.sub = from])
  PROVE  Sent(s, t, to, op)
<1> DEFINE r == [s EXCEPT !.sub = from]
<1>1. from \in Substates
  BY SendsOnlyNames, SubstateNames
<1>2. /\ r \in HostType /\ r.sub = from /\ r.credit = s.credit /\ r.tx = s.tx
      /\ r.state = s.state /\ r.step = s.step /\ r.baud = s.baud /\ r.script = s.script
      /\ r.result = s.result /\ r.gap = s.gap /\ r.timer = s.timer
  BY <1>1 DEF HostType
<1>3. t \in Run(r)
  OBVIOUS
<1> HIDE DEF r
<1>4. CanSend(r) /\ r.state = "INITIALIZING" /\ r.sub \in DOMAIN SendsOnly
  BY <1>2 DEF CanSend
<1>5. /\ t \in HostType /\ t.sub = NextState(r.sub)
      /\ t.tx = Command(SendsOnly[r.sub]) /\ t.last = SendsOnly[r.sub]
      /\ t.state = r.state /\ t.step = r.step /\ t.baud = r.baud /\ t.script = r.script
      /\ t.result = r.result /\ t.gap = r.gap /\ t.timer = r.timer
  BY <1>2, <1>3, <1>4, RunSends
<1> QED BY <1>2, <1>5 DEF Sent

----------------------------------------------------------------------------
(* hci_initializing_event_handler: what each answer leads to *)

(* An answer grants a credit and is either the awaited one or not.         *)
LEMMA AnswerComes ==
  ASSUME NEW h \in HostType, h.state = "INITIALIZING", h.tx = NoCommand, NEW op,
         NEW t \in CommandComplete(h, op)
  PROVE  \E s \in HostType :
           /\ CanSend(s) /\ s.state = "INITIALIZING" /\ s.sub = h.sub /\ s.tx = NoCommand
           /\ s.credit = 1 /\ s.step = h.step /\ s.last = h.last /\ s.baud = h.baud
           /\ s.script = h.script /\ s.result = h.result /\ s.gap = h.gap
           /\ s.timer = h.timer
           /\ op = h.last => t \in Run(Advance(s))
           /\ op # h.last => t \in Run(Resends(s, op))
<1> DEFINE s == [h EXCEPT !.credit = 1]
<1>1. /\ s \in HostType /\ s.state = "INITIALIZING" /\ s.sub = h.sub /\ s.tx = NoCommand
      /\ s.credit = 1 /\ s.step = h.step /\ s.last = h.last /\ s.baud = h.baud
      /\ s.script = h.script /\ s.result = h.result /\ s.gap = h.gap
      /\ s.timer = h.timer
  BY DEF HostType
<1>2. t \in Run(IF Completes(s, op) THEN Advance(s) ELSE Resends(s, op))
  BY <1>1 DEF CommandComplete
<1> HIDE DEF s
<1>3. CanSend(s)
  BY <1>1, CanSendMeans
<1>4. Completes(s, op) <=> op = h.last
  BY <1>1 DEF Completes
<1> QED BY <1>1, <1>2, <1>3, <1>4

(* What every handler of an answer is to show.                             *)
Handled(h, c, e) ==
  \A t \in CommandComplete(h, Head(e).op) : t \in HostType /\ Good(t, c, Tail(e))

(* Host h with a credit and the transport free.                            *)
Granted(h, s) ==
  /\ s \in HostType /\ CanSend(s) /\ s.state = "INITIALIZING" /\ s.sub = h.sub
  /\ s.tx = NoCommand /\ s.credit = 1
  /\ s.step = h.step /\ s.baud = h.baud /\ s.script = h.script
  /\ s.result = h.result /\ s.gap = h.gap /\ s.timer = h.timer

(* The only command under way is answered, the only event, as awaited.     *)
LEMMA OnlyAnswer ==
  ASSUME NEW h \in HostType, h.state = "INITIALIZING", NEW op, NEW b, NEW c, NEW e,
         h.last = op, Answered(op, b, h, c, e), NEW t \in CommandComplete(h, Head(e).op)
  PROVE  \E s : Granted(h, s) /\ t \in Run(Advance(s))
<1>1. e = <<[op |-> op, baud |-> b]>> /\ h.tx = NoCommand
  BY DEF Answered
<1>2. Head(e).op = op
  BY <1>1
<1>3. PICK s \in HostType :
        /\ CanSend(s) /\ s.state = "INITIALIZING" /\ s.sub = h.sub /\ s.tx = NoCommand
        /\ s.credit = 1 /\ s.step = h.step /\ s.last = h.last /\ s.baud = h.baud
        /\ s.script = h.script /\ s.result = h.result /\ s.gap = h.gap
        /\ s.timer = h.timer
        /\ op = h.last => t \in Run(Advance(s))
  BY <1>1, <1>2, AnswerComes
<1>4. Granted(h, s)
  BY <1>3 DEF Granted
<1> QED BY <1>3, <1>4

(* What is left of the pipe when the answer is taken.                      *)
LEMMA OnlyEvent ==
  ASSUME NEW cmd, NEW b, NEW h, NEW c, NEW e, Under(cmd, h, c, e) \/ Answered(cmd.op, b, h, c, e),
         e # <<>>
  PROVE  Answered(cmd.op, b, h, c, e)
BY DEF Under

(* Nothing is left when the answer is taken.                               *)
LEMMA NothingLeft ==
  ASSUME NEW op, NEW b, NEW h, NEW c, NEW e, Answered(op, b, h, c, e)
  PROVE  Tail(e) = <<>> /\ c.cmdq = <<>> /\ h.tx = NoCommand
BY DEF Answered

(* The second HCI_Reset is answered.                                       *)
LEMMA AnswerReset2 ==
  ASSUME NEW h \in HostType, h.state = "INITIALIZING", NoScript(h), h.gap,
         setup \in SetupType, NEW c, NEW e, e # <<>>, Reset2(h, c, e)
  PROVE  Handled(h, c, e)
<1> SUFFICES ASSUME NEW t \in CommandComplete(h, Head(e).op)
             PROVE  t \in HostType /\ Good(t, c, Tail(e))
  BY DEF Handled
<1>c. Command("supported").op = "supported" /\ Command("reset").op = "reset"
  BY CommandType
<1>0. Single(Command("reset"), "init", h, c, e) /\ h.sub = "W4_BCM_RESET" /\ Patched(h, c)
  BY DEF Reset2
<1>1. /\ h.timer = "none" /\ h.baud = "init" /\ c.baud = "init" /\ c.up /\ h.last = "reset"
      /\ Answered("reset", "init", h, c, e)
  BY <1>0, <1>c, OnlyEvent DEF Single
<1>2. Tail(e) = <<>> /\ c.cmdq = <<>>
  BY <1>1, NothingLeft
<1>3. PICK s : Granted(h, s) /\ t \in Run(Advance(s))
  BY <1>1, OnlyAnswer
<1>4. Advance(s) = [s EXCEPT !.sub = "READ_SUPPORTED_COMMANDS"]
  BY <1>0, <1>3, NextStates DEF Advance, Granted
<1>5. Sent(s, t, "W4_READ_SUPPORTED_COMMANDS", "supported")
  <2>1. s \in HostType /\ s.state = "INITIALIZING" /\ CanSend(s)
    BY <1>3 DEF Granted
  <2>2. /\ "READ_SUPPORTED_COMMANDS" \in DOMAIN SendsOnly
        /\ NextState("READ_SUPPORTED_COMMANDS") = "W4_READ_SUPPORTED_COMMANDS"
        /\ SendsOnly["READ_SUPPORTED_COMMANDS"] = "supported"
    BY SendsOnlyNames, NextStates
  <2>3. t \in Run([s EXCEPT !.sub = "READ_SUPPORTED_COMMANDS"])
    BY <1>3, <1>4
  <2> QED BY <2>1, <2>2, <2>3, MoveAndSend
<1>6. Single(Command("supported"), "init", t, c, <<>>)
  BY <1>1, <1>2, <1>3, <1>5, <1>c, JustSent DEF Granted, Sent
<1>7. Patched(t, c)
  BY <1>0, <1>3, <1>5 DEF Patched, Granted, Sent
<1>8. Supported(t, c, <<>>)
  <2>1. setup.script > 0 /\ setup.script # 0 /\ Loaded(c) /\ ~c.addr
    BY <1>0 DEF Patched, SetupType
  <2> QED BY <1>5, <1>6, <1>7, <2>1 DEF Supported, Sent
<1> QED BY <1>2, <1>3, <1>5, <1>8, GoodStage DEF Stage, NoScript, Granted, Sent

(* The first element of a sequence, and the rest.                          *)
LEMMA Taken ==
  ASSUME NEW S, NEW e \in Seq(S), e # <<>>
  PROVE  /\ Head(e) = e[1] /\ Head(e) \in S /\ Tail(e) \in Seq(S)
         /\ Len(e) \in Nat /\ Len(e) >= 1 /\ Len(Tail(e)) = Len(e) - 1
         /\ Tail(e) = <<>> <=> Len(e) = 1
         /\ \A i \in 1..Len(e) - 1 : Tail(e)[i] = e[i + 1]
<1>1. /\ Head(e) = e[1] /\ Head(e) \in S /\ Tail(e) \in Seq(S)
      /\ Len(e) \in Nat /\ Len(e) >= 1 /\ Len(Tail(e)) = Len(e) - 1
      /\ \A i \in 1..Len(e) - 1 : Tail(e)[i] = e[i + 1]
  BY HeadTailProperties, EmptySeq
<1>2. Tail(e) # <<>> => Len(Tail(e)) > 0
  BY <1>1, EmptySeq
<1>3. Tail(e) = <<>> => Len(Tail(e)) = 0
  BY EmptySeq
<1> QED BY <1>1, <1>2, <1>3

(* A granted credit does not show in what is sent next.                    *)
LEMMA SentGranted ==
  ASSUME NEW h, h.state = "INITIALIZING", NEW s, Granted(h, s),
         NEW t, NEW sub, NEW op, Sent(s, t, sub, op)
  PROVE  Sent(h, t, sub, op) /\ s \in HostType /\ CanSend(s) /\ s.state = "INITIALIZING"
BY DEF Granted, Sent

(* HCI_Read_Local_Supported_Commands is answered: on to the baud rate, or  *)
(* to the address.                                                         *)
LEMMA AnswerSupported ==
  ASSUME NEW h \in HostType, h.state = "INITIALIZING", NoScript(h), h.gap,
         setup \in SetupType, NEW c \in CtlType, NEW e, e # <<>>, Supported(h, c, e)
  PROVE  Handled(h, c, e)
<1> SUFFICES ASSUME NEW t \in CommandComplete(h, Head(e).op)
             PROVE  t \in HostType /\ Good(t, c, Tail(e))
  BY DEF Handled
<1> DEFINE b == IF setup.script = 0 THEN "main" ELSE "init"
<1>c. Command("supported").op = "supported" /\ Command("set_baud").op = "set_baud"
  BY CommandType
<1>0. /\ Single(Command("supported"), b, h, c, e) /\ h.sub = "W4_READ_SUPPORTED_COMMANDS"
      /\ setup.script > 0 => Patched(h, c)
      /\ Loaded(c) /\ ~c.addr
  BY DEF Supported
<1>b. (setup.script = 0 /\ b = "main") \/ (setup.script > 0 /\ b = "init")
  BY DEF SetupType
<1> HIDE DEF b
<1>1. /\ h.timer = "none" /\ h.baud = b /\ c.baud = b /\ c.up /\ h.last = "supported"
      /\ Answered("supported", b, h, c, e)
  BY <1>0, <1>c, OnlyEvent DEF Single
<1>2. Tail(e) = <<>> /\ c.cmdq = <<>>
  BY <1>1, NothingLeft
<1>3. PICK s : Granted(h, s) /\ t \in Run(Advance(s))
  BY <1>1, OnlyAnswer
<1>4. Advance(s) = AfterSupported(s)
  BY <1>0, <1>3 DEF Advance, Granted
<1>5. CASE setup.script = 0
  <2>1. t \in Run(Address(s))
    BY <1>3, <1>4, <1>5 DEF AfterSupported, Granted, NoScript
  <2>2. /\ s \in HostType /\ s.state = "INITIALIZING" /\ CanSend(s)
        /\ NoScript(s) /\ s.gap /\ s.timer = "none" /\ s.baud = "main"
    BY <1>1, <1>3, <1>5, <1>b DEF Granted, NoScript
  <2>3. c.up /\ c.baud = "main" /\ c.cmdq = <<>> /\ Loaded(c) /\ ~c.addr /\ c.addr \in BOOLEAN
    BY <1>0, <1>1, <1>2, <1>5, <1>b DEF CtlType
  <2> QED BY <1>2, <2>1, <2>2, <2>3, RunAddress
<1>6. CASE setup.script > 0
  <2>0. Patched(h, c) /\ h.result # "NO_INIT_SCRIPT"
    BY <1>0, <1>6 DEF Patched
  <2>1. t \in Run([s EXCEPT !.sub = "SEND_BAUD_CHANGE_BCM"])
    BY <1>3, <1>4, <2>0 DEF AfterSupported, Granted
  <2>2. Sent(s, t, "W4_BAUD_CHANGE_BCM", "set_baud")
    <3>1. s \in HostType /\ s.state = "INITIALIZING" /\ CanSend(s)
      BY <1>3 DEF Granted
    <3>2. /\ "SEND_BAUD_CHANGE_BCM" \in DOMAIN SendsOnly
          /\ NextState("SEND_BAUD_CHANGE_BCM") = "W4_BAUD_CHANGE_BCM"
          /\ SendsOnly["SEND_BAUD_CHANGE_BCM"] = "set_baud"
      BY SendsOnlyNames, NextStates
    <3> QED BY <3>1, <3>2, <2>1, MoveAndSend
  <2>3. Sent(h, t, "W4_BAUD_CHANGE_BCM", "set_baud")
    BY <1>3, <2>2, SentGranted
  <2>4. Patched(t, c)
    BY <2>0, <2>3 DEF Patched, Sent
  <2>5. BaudChange2(t, c, <<>>)
    BY <1>1, <1>2, <1>6, <1>b, <2>3, <2>4 DEF BaudChange2, Sent, Under
  <2> QED BY <1>2, <2>3, <2>5, GoodStage DEF Stage, NoScript, Sent
<1> QED BY <1>5, <1>6, <1>b

(* The main baud rate is set again: the UART follows.                      *)
LEMMA AnswerBaudChange2 ==
  ASSUME NEW h \in HostType, h.state = "INITIALIZING", NoScript(h), h.gap,
         setup \in SetupType, NEW c \in CtlType, NEW e, e # <<>>, BaudChange2(h, c, e)
  PROVE  Handled(h, c, e)
<1> SUFFICES ASSUME NEW t \in CommandComplete(h, Head(e).op)
             PROVE  t \in HostType /\ Good(t, c, Tail(e))
  BY DEF Handled
<1>1. /\ h.sub = "W4_BAUD_CHANGE_BCM" /\ h.last = "set_baud" /\ h.timer = "none"
      /\ c.up /\ c.baud = "main" /\ Loaded(c) /\ ~c.addr
      /\ Answered("set_baud", "init", h, c, e)
  BY DEF BaudChange2, Patched, Under
<1>2. Tail(e) = <<>> /\ c.cmdq = <<>>
  BY <1>1, NothingLeft
<1>3. PICK s : Granted(h, s) /\ t \in Run(Advance(s))
  BY <1>1, OnlyAnswer
<1> DEFINE r == [s EXCEPT !.baud = "main"]
<1>4. Advance(s) = Address(r)
  BY <1>1, <1>3 DEF Advance, Granted
<1>5. /\ r \in HostType /\ r.state = "INITIALIZING" /\ r.tx = s.tx /\ r.credit = s.credit
      /\ r.gap = s.gap /\ r.timer = s.timer /\ r.baud = "main" /\ r.result = s.result
  BY <1>3 DEF Granted, HostType, Bauds
<1> HIDE DEF r
<1>6. CanSend(r) /\ NoScript(r) /\ r.gap /\ r.timer = "none"
  BY <1>1, <1>3, <1>5 DEF CanSend, NoScript, Granted
<1>7. c.up /\ c.baud = "main" /\ c.cmdq = <<>> /\ Loaded(c) /\ ~c.addr /\ c.addr \in BOOLEAN
  BY <1>1, <1>2 DEF CtlType
<1>8. t \in Run(Address(r))
  BY <1>3, <1>4
<1> QED BY <1>2, <1>5, <1>6, <1>7, <1>8, RunAddress

(* The address is set: the configuration starts.                           *)
LEMMA AnswerSetAddress ==
  ASSUME NEW h \in HostType, h.state = "INITIALIZING", NoScript(h), h.gap,
         setup \in SetupType, NEW c \in CtlType, NEW e, e # <<>>, SetAddress(h, c, e)
  PROVE  Handled(h, c, e)
<1> SUFFICES ASSUME NEW t \in CommandComplete(h, Head(e).op)
             PROVE  t \in HostType /\ Good(t, c, Tail(e))
  BY DEF Handled
<1>c. Command("set_addr").op = "set_addr"
  BY CommandType
<1>0. /\ h.sub = "W4_SET_BD_ADDR" /\ setup.addr /\ Loaded(c)
      /\ Single(Command("set_addr"), "main", h, c, e)
      /\ Answered("set_addr", "main", h, c, e) => c.addr
  BY DEF SetAddress
<1>1. /\ h.last = "set_addr" /\ h.timer = "none" /\ h.baud = "main"
      /\ c.up /\ c.baud = "main" /\ Answered("set_addr", "main", h, c, e)
  BY <1>0, <1>c, OnlyEvent DEF Single
<1>2. Tail(e) = <<>> /\ c.cmdq = <<>>
  BY <1>1, NothingLeft
<1>3. PICK s : Granted(h, s) /\ t \in Run(Advance(s))
  BY <1>1, OnlyAnswer
<1> DEFINE r == [s EXCEPT !.sub = "CONFIGURE", !.step = 1]
<1>4. Advance(s) = r
  BY <1>0, <1>3 DEF Advance, Granted
<1>5. /\ r \in HostType /\ r.state = "INITIALIZING" /\ r.tx = s.tx /\ r.credit = s.credit
      /\ r.gap = s.gap /\ r.timer = s.timer /\ r.baud = s.baud /\ r.result = s.result
      /\ r.sub = "CONFIGURE"
  <2>1. "CONFIGURE" \in Substates /\ 1 \in 1..ConfigSteps + 1
    BY SubstateNames, SizeAssumption
  <2> QED BY <1>3, <2>1 DEF Granted, HostType
<1> HIDE DEF r
<1>6. CanSend(r) /\ NoScript(r) /\ r.gap /\ r.timer = "none" /\ r.baud = "main"
  BY <1>1, <1>3, <1>5 DEF CanSend, NoScript, Granted
<1>7. c.up /\ c.baud = "main" /\ c.cmdq = <<>> /\ Loaded(c) /\ c.addr = setup.addr
  BY <1>0, <1>1, <1>2 DEF CtlType, SetupType
<1>8. t \in Run(r)
  BY <1>3, <1>4
<1> QED BY <1>2, <1>5, <1>6, <1>7, <1>8, RunConfigure

(* One command of the configuration is answered.                           *)
LEMMA AnswerConfigure ==
  ASSUME NEW h \in HostType, h.state = "INITIALIZING", NoScript(h), h.gap,
         setup \in SetupType, NEW c \in CtlType, NEW e, e # <<>>, Configuring(h, c, e)
  PROVE  Handled(h, c, e)
<1> SUFFICES ASSUME NEW t \in CommandComplete(h, Head(e).op)
             PROVE  t \in HostType /\ Good(t, c, Tail(e))
  BY DEF Handled
<1>c. Command("config").op = "config"
  BY CommandType
<1>0. /\ h.sub = "W4_CONFIGURE" /\ h.step \in 1..ConfigSteps /\ Loaded(c)
      /\ c.addr = setup.addr /\ Single(Command("config"), "main", h, c, e)
  BY DEF Configuring
<1>1. /\ h.last = "config" /\ h.timer = "none" /\ h.baud = "main"
      /\ c.up /\ c.baud = "main" /\ Answered("config", "main", h, c, e)
  BY <1>0, <1>c, OnlyEvent DEF Single
<1>2. Tail(e) = <<>> /\ c.cmdq = <<>>
  BY <1>1, NothingLeft
<1>3. PICK s : Granted(h, s) /\ t \in Run(Advance(s))
  BY <1>1, OnlyAnswer
<1> DEFINE n == s.step + 1
           r == [s EXCEPT !.sub = "CONFIGURE", !.step = n]
<1>4. Advance(s) = r
  BY <1>0, <1>3 DEF Advance, Granted
<1>n. n \in 1..ConfigSteps + 1
  BY <1>0, <1>3, SizeAssumption DEF Granted
<1> HIDE DEF n
<1>5. /\ r \in HostType /\ r.state = "INITIALIZING" /\ r.tx = s.tx /\ r.credit = s.credit
      /\ r.gap = s.gap /\ r.timer = s.timer /\ r.baud = s.baud /\ r.result = s.result
      /\ r.sub = "CONFIGURE"
  <2>1. "CONFIGURE" \in Substates
    BY SubstateNames
  <2> QED BY <1>3, <1>n, <2>1 DEF Granted, HostType
<1> HIDE DEF r
<1>6. CanSend(r) /\ NoScript(r) /\ r.gap /\ r.timer = "none" /\ r.baud = "main"
  BY <1>1, <1>3, <1>5 DEF CanSend, NoScript, Granted
<1>7. c.up /\ c.baud = "main" /\ c.cmdq = <<>> /\ Loaded(c) /\ c.addr = setup.addr
  BY <1>0, <1>1, <1>2
<1>8. t \in Run(r)
  BY <1>3, <1>4
<1> QED BY <1>2, <1>5, <1>6, <1>7, <1>8, RunConfigure

(* The GAP settings are answered: HCI_STATE_WORKING.                       *)
LEMMA AnswerFinishing ==
  ASSUME NEW h \in HostType, h.state = "INITIALIZING", NoScript(h),
         setup \in SetupType, NEW c \in CtlType, NEW e, e # <<>>, Finishing(h, c, e)
  PROVE  Handled(h, c, e)
<1> SUFFICES ASSUME NEW t \in CommandComplete(h, Head(e).op)
             PROVE  t \in HostType /\ Good(t, c, Tail(e))
  BY DEF Handled
<1>c. Command("gap").op = "gap"
  BY CommandType
<1>0. /\ h.sub = "DONE" /\ ~h.gap /\ Loaded(c) /\ c.addr = setup.addr
      /\ Single(Command("gap"), "main", h, c, e)
  BY DEF Finishing
<1>1. /\ h.last = "gap" /\ h.timer = "none" /\ h.baud = "main"
      /\ c.up /\ c.baud = "main" /\ Answered("gap", "main", h, c, e)
  BY <1>0, <1>c, OnlyEvent DEF Single
<1>2. Tail(e) = <<>> /\ c.cmdq = <<>>
  BY <1>1, NothingLeft
<1>3. PICK s : Granted(h, s) /\ t \in Run(Advance(s))
  BY <1>1, OnlyAnswer
<1>4. Advance(s) = s
  BY <1>0, <1>3 DEF Advance, Granted
<1>5. s \in HostType /\ CanSend(s) /\ s.state = "INITIALIZING" /\ s.sub = "DONE" /\ ~s.gap
  BY <1>0, <1>3 DEF Granted
<1>6. Run(s) = {InitDone(s)}
  BY <1>5, SendsOnlyNames DEF Run
<1>7. t = [s EXCEPT !.sub = "DONE", !.state = "WORKING"]
  BY <1>3, <1>4, <1>5, <1>6 DEF InitDone
<1>8. /\ t \in HostType /\ t.state = "WORKING" /\ t.baud = s.baud /\ t.timer = s.timer
      /\ t.result = s.result /\ t.tx = s.tx
  BY <1>5, <1>7 DEF HostType
<1>9. NoScript(t) /\ t.baud = "main" /\ t.timer = "none" /\ t.tx = NoCommand
  BY <1>1, <1>3, <1>8 DEF NoScript, Granted
<1>10. Working(t, c, <<>>)
  BY <1>0, <1>1, <1>2, <1>9 DEF Working, Quiet
<1> QED BY <1>2, <1>8, <1>9, <1>10 DEF Good, GapAsked

(* The next command of the script is sent.                                 *)
LEMMA RunScript ==
  ASSUME NEW s \in HostType, s.state = "INITIALIZING", CanSend(s), s.sub = "CUSTOM_INIT",
         setup \in SetupType, setup.script > 0, s.script <= setup.script, NEW t \in Run(s)
  PROVE  /\ t \in HostType /\ t.sub = "W4_CUSTOM_INIT" /\ t.last = "script"
         /\ t.tx = [op |-> "script", arg |-> s.script] /\ t.script = s.script + 1
         /\ t.result = "VALID_COMMAND" /\ t.state = s.state /\ t.baud = s.baud
         /\ t.gap = s.gap /\ t.timer = s.timer
<1> DEFINE n == s.script + 1
           cmd == [op |-> "script", arg |-> s.script]
           r == [s EXCEPT !.result = "VALID_COMMAND", !.sub = "W4_CUSTOM_INIT", !.script = n]
<1>0. s.script \in 0..MaxScript /\ n \in 0..MaxScript + 1
  BY SizeAssumption DEF HostType, SetupType
<1>1. t = Send(r, cmd)
  <2>1. t = CustomInit(s)
    BY SendsOnlyNames DEF Run
  <2> QED BY <2>1, <1>0 DEF CustomInit, SetupType
<1>2. cmd \in Commands /\ cmd.op = "script"
  BY <1>0, CommandType
<1> HIDE DEF n, cmd
<1>3. /\ r \in HostType /\ r.credit = 1 /\ r.sub = "W4_CUSTOM_INIT"
      /\ r.result = "VALID_COMMAND" /\ r.script = n
      /\ r.state = s.state /\ r.baud = s.baud /\ r.gap = s.gap /\ r.timer = s.timer
  <2>1. "W4_CUSTOM_INIT" \in Substates
    BY SubstateNames
  <2> QED BY <1>0, <2>1, CanSendMeans DEF HostType
<1> HIDE DEF r
<1>4. /\ t \in HostType /\ t.sub = r.sub /\ t.last = cmd.op /\ t.tx = cmd
      /\ t.script = r.script /\ t.result = r.result /\ t.state = r.state
      /\ t.baud = r.baud /\ t.gap = r.gap /\ t.timer = r.timer
  <2>1. r \in HostType /\ r.credit = 1
    BY <1>3
  <2> QED BY <1>1, <1>2, <2>1, SendFields
<1>5. /\ t \in HostType /\ t.sub = "W4_CUSTOM_INIT" /\ t.last = "script" /\ t.tx = cmd
      /\ t.script = n /\ t.result = "VALID_COMMAND" /\ t.state = s.state
      /\ t.baud = s.baud /\ t.gap = s.gap /\ t.timer = s.timer
  BY <1>2, <1>3, <1>4
<1> QED BY <1>5 DEF n, cmd

(* Without a script it is skipped.                                         *)
LEMMA RunNoScript ==
  ASSUME NEW s \in HostType, s.state = "INITIALIZING", CanSend(s), s.sub = "CUSTOM_INIT",
         setup \in SetupType, setup.script = 0, NEW t \in Run(s)
  PROVE  /\ t \in HostType /\ t.sub = "W4_READ_SUPPORTED_COMMANDS" /\ t.last = "supported"
         /\ t.tx = Command("supported") /\ t.result = "NO_INIT_SCRIPT"
         /\ t.state = s.state /\ t.baud = s.baud /\ t.gap = s.gap /\ t.timer = s.timer
<1> DEFINE r == [s EXCEPT !.result = "NO_INIT_SCRIPT", !.sub = "W4_READ_SUPPORTED_COMMANDS"]
<1>1. t = Send(r, Command("supported"))
  BY SendsOnlyNames DEF Run, CustomInit
<1>2. Command("supported") \in Commands /\ Command("supported").op = "supported"
  BY CommandType
<1>3. /\ r \in HostType /\ r.credit = 1 /\ r.sub = "W4_READ_SUPPORTED_COMMANDS"
      /\ r.result = "NO_INIT_SCRIPT"
      /\ r.state = s.state /\ r.baud = s.baud /\ r.gap = s.gap /\ r.timer = s.timer
  <2>1. "W4_READ_SUPPORTED_COMMANDS" \in Substates
    BY SubstateNames
  <2> QED BY <2>1, CanSendMeans DEF HostType
<1> HIDE DEF r
<1>4. /\ t \in HostType /\ t.sub = r.sub /\ t.last = "supported"
      /\ t.tx = Command("supported") /\ t.result = r.result
      /\ t.state = r.state /\ t.baud = r.baud /\ t.gap = r.gap /\ t.timer = r.timer
  <2>1. r \in HostType /\ r.credit = 1
    BY <1>3
  <2> QED BY <1>1, <1>2, <2>1, SendFields
<1> QED BY <1>3, <1>4

(* The baud rate command is answered, or one of the commands before it.    *)
LEMMA AnswerBaudChange ==
  ASSUME NEW h \in HostType, h.state = "INITIALIZING", h.tx = NoCommand, NoScript(h), h.gap,
         setup \in SetupType, NEW c \in CtlType, NEW e \in Seq(EventType), e # <<>>,
         BaudChange(h, c, e)
  PROVE  Handled(h, c, e)
<1> SUFFICES ASSUME NEW t \in CommandComplete(h, Head(e).op)
             PROVE  t \in HostType /\ Good(t, c, Tail(e))
  BY DEF Handled
<1>0. /\ h.sub = "W4_BAUD_CHANGE" /\ h.last = "set_baud"
      /\ h.baud = "init" /\ h.script = 0 /\ h.timer = "none" /\ c.up
      /\ c.loaded = -1 /\ ~c.spoiled /\ ~c.patched /\ ~c.addr
      /\ \A i \in 1..Len(e) : e[i].baud = "init"
  BY DEF BaudChange
<1>e. /\ Head(e) = e[1] /\ Len(e) >= 1 /\ Len(e) \in Nat /\ Len(Tail(e)) = Len(e) - 1
      /\ Tail(e) = <<>> <=> Len(e) = 1
      /\ \A i \in 1..Len(e) - 1 : Tail(e)[i] = e[i + 1]
  BY Taken
<1>n. h.tx.op # "set_baud"
  BY DEF NoCommand
<1>1. PICK s \in HostType :
        /\ CanSend(s) /\ s.state = "INITIALIZING" /\ s.sub = h.sub /\ s.tx = NoCommand
        /\ s.credit = 1 /\ s.step = h.step /\ s.last = h.last /\ s.baud = h.baud
        /\ s.script = h.script /\ s.result = h.result /\ s.gap = h.gap
        /\ s.timer = h.timer
        /\ e[1].op = h.last => t \in Run(Advance(s))
        /\ e[1].op # h.last => t \in Run(Resends(s, e[1].op))
  BY <1>e, AnswerComes
<1>2. CASE e[1].op \in EarlyOps
  <2>1. e[1].op # h.last
    BY <1>0, <1>2 DEF EarlyOps
  <2>2. Resends(s, e[1].op) = s
    BY <1>0, <1>1 DEF Resends
  <2>3. t = s
    BY <1>0, <1>1, <2>1, <2>2, RunWaits
  <2>4. BaudChange(t, c, Tail(e))
    <3>1. \A i \in 1..Len(Tail(e)) : Tail(e)[i].baud = "init"
      BY <1>0, <1>e
    <3>2. CASE /\ c.baud = "init" /\ c.cmdq # <<>> /\ c.cmdq[Len(c.cmdq)].op = "set_baud"
               /\ QueueIn(c.cmdq, Len(c.cmdq) - 1, EarlyOps) /\ QueueIn(e, Len(e), EarlyOps)
      <4>1. QueueIn(Tail(e), Len(Tail(e)), EarlyOps)
        BY <3>2, <1>e DEF QueueIn
      <4> QED BY <1>0, <1>1, <2>3, <3>1, <3>2, <4>1 DEF BaudChange
    <3>3. CASE /\ c.baud = "main" /\ c.cmdq = <<>> /\ e[Len(e)].op = "set_baud"
               /\ QueueIn(e, Len(e) - 1, EarlyOps)
      <4>1. Len(e) # 1
        BY <1>0, <3>3, <2>1
      <4>2. /\ Tail(e) # <<>> /\ Tail(e)[Len(Tail(e))].op = "set_baud"
            /\ QueueIn(Tail(e), Len(Tail(e)) - 1, EarlyOps)
        <5>2. Tail(e) # <<>>
          BY <1>e, <4>1
        <5>3. Tail(e)[Len(Tail(e))] = e[Len(e)]
          BY <1>e, <4>1
        <5>4. \A i \in 1..Len(Tail(e)) - 1 : Tail(e)[i] = e[i + 1] /\ i + 1 \in 1..Len(e) - 1
          BY <1>e
        <5> QED BY <3>3, <5>2, <5>3, <5>4 DEF QueueIn
      <4> QED BY <1>0, <1>1, <2>3, <3>1, <3>3, <4>2 DEF BaudChange
    <3> QED BY <1>n, <3>2, <3>3 DEF BaudChange
  <2>5. NoScript(t) /\ t.gap /\ t.state = "INITIALIZING"
    BY <1>1, <2>3 DEF NoScript
  <2> QED BY <2>3, <2>4, <2>5, GoodStage DEF Stage
<1>3. CASE e[1].op \notin EarlyOps
  <2>1. /\ e[1].op = "set_baud" /\ c.baud = "main" /\ c.cmdq = <<>> /\ Len(e) = 1
    BY <1>3, <1>n, <1>e DEF BaudChange, QueueIn
  <2>2. Tail(e) = <<>>
    BY <1>e, <2>1
  <2> DEFINE r == [s EXCEPT !.baud = "main", !.sub = "CUSTOM_INIT"]
  <2>3. t \in Run(r)
    BY <1>0, <1>1, <2>1 DEF Advance
  <2>4. /\ r \in HostType /\ r.state = "INITIALIZING" /\ r.tx = s.tx /\ r.credit = s.credit
        /\ r.gap = s.gap /\ r.timer = s.timer /\ r.baud = "main" /\ r.result = s.result
        /\ r.sub = "CUSTOM_INIT" /\ r.script = s.script
    <3>1. "CUSTOM_INIT" \in Substates
      BY SubstateNames
    <3> QED BY <1>1, <3>1 DEF HostType, Bauds
  <2> HIDE DEF r
  <2>5. CanSend(r)
    BY <1>1, <2>4 DEF CanSend
  <2>6. CASE setup.script = 0
    <3>1. /\ t \in HostType /\ t.sub = "W4_READ_SUPPORTED_COMMANDS" /\ t.last = "supported"
          /\ t.tx = Command("supported") /\ t.result = "NO_INIT_SCRIPT"
          /\ t.state = r.state /\ t.baud = r.baud /\ t.gap = r.gap /\ t.timer = r.timer
      BY <2>3, <2>4, <2>5, <2>6, RunNoScript
    <3>2. /\ t.state = "INITIALIZING" /\ t.baud = "main" /\ t.gap /\ t.timer = "none"
      BY <1>0, <1>1, <2>4, <3>1
    <3>3. Single(Command("supported"), "main", t, c, <<>>)
      BY <1>0, <2>1, <3>1, <3>2, JustSent, CommandType
    <3>4. Loaded(c)
      BY <1>0, <2>6 DEF Loaded, CtlType
    <3>5. Supported(t, c, <<>>)
      BY <1>0, <2>6, <3>1, <3>3, <3>4 DEF Supported
    <3> QED BY <2>2, <3>1, <3>2, <3>5, GoodStage DEF Stage, NoScript
  <2>7. CASE setup.script > 0
    <3>1. /\ t \in HostType /\ t.sub = "W4_CUSTOM_INIT" /\ t.last = "script"
          /\ t.tx = [op |-> "script", arg |-> r.script] /\ t.script = r.script + 1
          /\ t.result = "VALID_COMMAND" /\ t.state = r.state /\ t.baud = r.baud
          /\ t.gap = r.gap /\ t.timer = r.timer
      <4>1. r.script <= setup.script
        BY <1>0, <1>1, <2>4, <2>7 DEF SetupType
      <4> QED BY <2>3, <2>4, <2>5, <2>7, <4>1, RunScript
    <3>2. /\ t.state = "INITIALIZING" /\ t.baud = "main" /\ t.gap /\ t.timer = "none"
          /\ t.script = 1 /\ t.tx = [op |-> "script", arg |-> t.script - 1]
      BY <1>0, <1>1, <2>4, <3>1
    <3>3. t.script \in 1..setup.script + 1
      BY <3>2, <2>7 DEF SetupType
    <3>4. Download(t, c, <<>>)
      BY <1>0, <2>1, <3>1, <3>2, <3>3 DEF Download, Under
    <3>5. NoScript(t)
      BY <2>7 DEF NoScript, SetupType
    <3> QED BY <2>2, <3>1, <3>2, <3>4, <3>5, GoodStage DEF Stage
  <2> QED BY <2>6, <2>7 DEF SetupType
<1> QED BY <1>2, <1>3

(* A command of the script is answered: the next one, or the end of it.    *)
LEMMA AnswerDownload ==
  ASSUME NEW h \in HostType, h.state = "INITIALIZING", NoScript(h), h.gap,
         setup \in SetupType, NEW c \in CtlType, NEW e, e # <<>>, Download(h, c, e)
  PROVE  Handled(h, c, e)
<1> SUFFICES ASSUME NEW t \in CommandComplete(h, Head(e).op)
             PROVE  t \in HostType /\ Good(t, c, Tail(e))
  BY DEF Handled
<1>0. /\ h.sub = "W4_CUSTOM_INIT" /\ h.last = "script" /\ h.timer = "none"
      /\ h.script \in 1..setup.script + 1 /\ h.result # "NO_INIT_SCRIPT"
      /\ h.baud = "main" /\ ~c.spoiled /\ ~c.addr
      /\ Answered("script", "main", h, c, e)
      /\ c.loaded = h.script - 1
      /\ IF h.script = setup.script + 1 THEN c.patched /\ c.baud = "init"
         ELSE c.up /\ ~c.patched /\ c.baud = "main"
  BY DEF Download, Under
<1>p. setup.script > 0 /\ setup.script \in Nat /\ h.script \in Nat
  BY <1>0 DEF NoScript, SetupType
<1>2. Tail(e) = <<>> /\ c.cmdq = <<>>
  BY <1>0, NothingLeft
<1>3. PICK s : Granted(h, s) /\ t \in Run(Advance(s))
  BY <1>0, OnlyAnswer
<1> DEFINE r == [s EXCEPT !.sub = "CUSTOM_INIT"]
<1>4. Advance(s) = r
  BY <1>0, <1>3 DEF Advance, Granted
<1>5. /\ r \in HostType /\ r.state = "INITIALIZING" /\ r.tx = s.tx /\ r.credit = s.credit
      /\ r.gap = s.gap /\ r.timer = s.timer /\ r.baud = s.baud /\ r.result = s.result
      /\ r.sub = "CUSTOM_INIT" /\ r.script = s.script
  <2>1. "CUSTOM_INIT" \in Substates
    BY SubstateNames
  <2> QED BY <1>3, <2>1 DEF Granted, HostType
<1>6. t \in Run(r) /\ CanSend(r)
  BY <1>3, <1>4, <1>5 DEF CanSend, Granted
<1> HIDE DEF r
<1>7. r.script = h.script /\ r.timer = "none" /\ r.gap /\ r.baud = "main" /\ r.tx = NoCommand
      /\ r.credit = 1
  BY <1>0, <1>3, <1>5 DEF Granted
<1>8. CASE h.script <= setup.script
  <2>1. /\ t \in HostType /\ t.sub = "W4_CUSTOM_INIT" /\ t.last = "script"
        /\ t.tx = [op |-> "script", arg |-> r.script] /\ t.script = r.script + 1
        /\ t.result = "VALID_COMMAND" /\ t.state = r.state /\ t.baud = r.baud
        /\ t.gap = r.gap /\ t.timer = r.timer
    <3>1. r.script <= setup.script
      BY <1>7, <1>8
    <3> QED BY <1>p, <1>5, <1>6, <3>1, RunScript
  <2>2. /\ t.state = "INITIALIZING" /\ t.baud = "main" /\ t.gap /\ t.timer = "none"
        /\ t.script = h.script + 1
    BY <1>5, <1>7, <2>1
  <2>3. /\ t.script \in 1..setup.script + 1 /\ t.script - 1 = h.script /\ c.loaded = t.script - 2
        /\ h.script # setup.script + 1
    BY <1>0, <1>8, <1>p, <2>2
  <2>4. t.tx = [op |-> "script", arg |-> t.script - 1]
    BY <1>7, <2>1, <2>3
  <2>5. Download(t, c, <<>>)
    BY <1>0, <1>2, <2>1, <2>2, <2>3, <2>4 DEF Download, Under
  <2>6. NoScript(t)
    BY <1>p DEF NoScript
  <2> QED BY <1>2, <2>1, <2>2, <2>5, <2>6, GoodStage DEF Stage
<1>9. CASE h.script = setup.script + 1
  <2>1. t = ScriptDone(r)
    <3>1. ~(r.script <= setup.script) /\ setup.script # 0
      BY <1>7, <1>9, <1>p
    <3>2. t = CustomInit(r)
      BY <1>5, <1>6, SendsOnlyNames DEF Run
    <3> QED BY <3>1, <3>2 DEF CustomInit
  <2>2. /\ t \in HostType /\ t.sub = "W4_BCM_DELAY" /\ t.result = "DONE" /\ t.baud = "init"
        /\ t.timer = "delay" /\ t.credit = r.credit /\ t.tx = r.tx /\ t.state = r.state
        /\ t.gap = r.gap
    <3>1. "W4_BCM_DELAY" \in Substates
      BY SubstateNames
    <3> QED BY <1>5, <2>1, <3>1 DEF ScriptDone, HostType, Bauds
  <2>3. Delay(t, c, <<>>)
    BY <1>0, <1>2, <1>7, <1>9, <1>p, <2>2 DEF Delay, Patched, Loaded, Quiet, CtlType
  <2>4. NoScript(t)
    BY <1>p DEF NoScript
  <2> QED BY <1>2, <1>5, <1>7, <2>2, <2>3, <2>4, GoodStage DEF Stage
<1> QED BY <1>0, <1>8, <1>9, <1>p

----------------------------------------------------------------------------
(* The first commands, while HCI_Reset is sent again and again *)

(* What the first substates are entered with.                              *)
LEMMA UpToNames ==
  /\ UpTo("SEND_RESET") = {"reset"} /\ UpTo("W4_RESET") = {"reset"}
  /\ UpTo("W4_READ_VERSION") = {"reset", "read_version"}
  /\ UpTo("W4_READ_NAME") = EarlyOps
BY DEF UpTo

(* A queue of fewer kinds of commands is one of more.                      *)
LEMMA QueueMore ==
  ASSUME NEW q, NEW n, NEW A, NEW B, QueueIn(q, n, A), A \subseteq B
  PROVE  QueueIn(q, n, B)
BY DEF QueueIn

(* The rest of the answers.                                                *)
LEMMA EarlyTail ==
  ASSUME NEW h, NEW c, NEW e \in Seq(EventType), e # <<>>, Early(h, c, e)
  PROVE  /\ c.up /\ Head(e).op \in UpTo(h.sub)
         /\ QueueIn(Tail(e), Len(Tail(e)), UpTo(h.sub))
         /\ \A i \in 1..Len(Tail(e)) : Tail(e)[i].baud = "init"
BY Taken DEF Early, QueueIn

(* A later substate of the first ones is entered: what was on its way      *)
(* still is.                                                               *)
LEMMA LaterEarly ==
  ASSUME NEW h, NEW c, NEW e \in Seq(EventType), e # <<>>, Early(h, c, e), NEW t,
         NEW sub, NEW op, <<sub, op>> \in {<<"W4_READ_VERSION", "read_version">>,
                                           <<"W4_READ_NAME", "read_name">>},
         h.sub = "W4_READ_NAME" => sub = "W4_READ_NAME",
         t.sub = sub, t.last = op, t.tx = NoCommand \/ t.tx = Command(op),
         t.baud = h.baud, t.script = h.script, t.timer = "none"
  PROVE  Early(t, c, Tail(e))
<1>0. h.sub \in {"SEND_RESET", "W4_RESET", "W4_READ_VERSION", "W4_READ_NAME"}
  BY DEF Early
<1>1. UpTo(h.sub) \subseteq UpTo(sub)
  BY <1>0, UpToNames DEF EarlyOps
<1>2. /\ QueueIn(c.cmdq, Len(c.cmdq), UpTo(sub))
      /\ QueueIn(Tail(e), Len(Tail(e)), UpTo(sub))
  BY <1>1, EarlyTail, QueueMore DEF Early
<1>3. t.tx.op \in UpTo(sub) \cup {"none"}
  <2>1. op \in UpTo(sub)
    BY UpToNames DEF EarlyOps
  <2>2. NoCommand.op = "none" /\ Command(op).op = op
    BY CommandType DEF NoCommand
  <2> QED BY <2>1, <2>2
<1>4. h.baud = "init" /\ h.script = 0 /\ Virgin(c)
  BY DEF Early
<1>5. c.up /\ \A i \in 1..Len(Tail(e)) : Tail(e)[i].baud = "init"
  BY EarlyTail
<1>6. /\ t.sub \in {"W4_READ_VERSION", "W4_READ_NAME"}
      /\ t.last = CASE t.sub \in {"SEND_RESET", "W4_RESET"} -> "reset"
                    [] t.sub = "W4_READ_VERSION" -> "read_version"
                    [] OTHER -> "read_name"
  OBVIOUS
<1> QED BY <1>2, <1>3, <1>4, <1>5, <1>6 DEF Early

(* One of the first commands is answered, or one sent before it.           *)
LEMMA AnswerEarly ==
  ASSUME NEW h \in HostType, h.state = "INITIALIZING", h.tx = NoCommand, NoScript(h), h.gap,
         setup \in SetupType, NEW c \in CtlType, NEW e \in Seq(EventType), e # <<>>,
         Early(h, c, e)
  PROVE  Handled(h, c, e)
<1> SUFFICES ASSUME NEW t \in CommandComplete(h, Head(e).op)
             PROVE  t \in HostType /\ Good(t, c, Tail(e))
  BY DEF Handled
<1> DEFINE op == Head(e).op
<1>0. op \in UpTo(h.sub) /\ c.up
  BY EarlyTail
<1>1. PICK s \in HostType :
        /\ CanSend(s) /\ s.state = "INITIALIZING" /\ s.sub = h.sub /\ s.tx = NoCommand
        /\ s.credit = 1 /\ s.step = h.step /\ s.last = h.last /\ s.baud = h.baud
        /\ s.script = h.script /\ s.result = h.result /\ s.gap = h.gap
        /\ s.timer = h.timer
        /\ op = h.last => t \in Run(Advance(s))
        /\ op # h.last => t \in Run(Resends(s, op))
  BY AnswerComes
<1> HIDE DEF op
<1>2. Granted(h, s)
  BY <1>1 DEF Granted
<1>3. CASE h.sub \in {"SEND_RESET", "W4_RESET"}
  <2>1. op = "reset" /\ h.last = "reset"
    BY <1>0, <1>3, UpToNames DEF Early
  <2> DEFINE r == [s EXCEPT !.timer = "none"]
  <2>2. t \in Run([r EXCEPT !.sub = "SEND_READ_VERSION"])
    <3>1. Advance(s) = [s EXCEPT !.timer = "none", !.sub = "SEND_READ_VERSION"]
      BY <1>1, <1>3 DEF Advance
    <3>2. [s EXCEPT !.timer = "none", !.sub = "SEND_READ_VERSION"]
            = [r EXCEPT !.sub = "SEND_READ_VERSION"]
      BY DEF HostType
    <3> QED BY <1>1, <2>1, <3>1, <3>2
  <2>3. /\ r \in HostType /\ r.state = "INITIALIZING" /\ r.tx = s.tx /\ r.credit = s.credit
        /\ r.gap = s.gap /\ r.timer = "none" /\ r.baud = s.baud /\ r.result = s.result
        /\ r.script = s.script
    BY <1>1 DEF HostType
  <2> HIDE DEF r
  <2>4. CanSend(r)
    BY <1>1, <2>3 DEF CanSend
  <2>5. Sent(r, t, "W4_READ_VERSION", "read_version")
    <3>1. /\ "SEND_READ_VERSION" \in DOMAIN SendsOnly
          /\ NextState("SEND_READ_VERSION") = "W4_READ_VERSION"
          /\ SendsOnly["SEND_READ_VERSION"] = "read_version"
      BY SendsOnlyNames, NextStates
    <3> QED BY <2>2, <2>3, <2>4, <3>1, MoveAndSend
  <2>6. /\ t \in HostType /\ t.sub = "W4_READ_VERSION" /\ t.tx = Command("read_version")
        /\ t.last = "read_version" /\ t.state = "INITIALIZING" /\ t.baud = h.baud
        /\ t.script = h.script /\ t.result = h.result /\ t.gap = h.gap /\ t.timer = "none"
    BY <1>1, <2>3, <2>5 DEF Sent
  <2>7. Early(t, c, Tail(e))
    BY <1>3, <2>6, LaterEarly
  <2> QED BY <2>6, <2>7, GoodStage DEF Stage, NoScript
<1>4. CASE h.sub = "W4_READ_VERSION"
  <2>0. h.last = "read_version" /\ op \in {"reset", "read_version"} /\ h.timer = "none"
    BY <1>0, <1>4, UpToNames DEF Early
  <2>1. CASE op = "read_version"
    <3>1. t \in Run([s EXCEPT !.sub = "SEND_READ_NAME"])
      BY <1>1, <1>4, <2>0, <2>1, NextStates DEF Advance
    <3>2. Sent(s, t, "W4_READ_NAME", "read_name")
      <4>1. /\ "SEND_READ_NAME" \in DOMAIN SendsOnly
            /\ NextState("SEND_READ_NAME") = "W4_READ_NAME"
            /\ SendsOnly["SEND_READ_NAME"] = "read_name"
        BY SendsOnlyNames, NextStates
      <4> QED BY <1>1, <3>1, <4>1, MoveAndSend
    <3>3. Sent(h, t, "W4_READ_NAME", "read_name")
      BY <1>2, <3>2, SentGranted
    <3>4. Early(t, c, Tail(e))
      BY <1>4, <2>0, <3>3, LaterEarly DEF Sent
    <3> QED BY <3>3, <3>4, GoodStage DEF Stage, NoScript, Sent
  <2>2. CASE op = "reset"
    <3>1. t \in Run([s EXCEPT !.sub = "SEND_READ_VERSION"])
      BY <1>1, <1>4, <2>0, <2>2 DEF Resends
    <3>2. Sent(s, t, "W4_READ_VERSION", "read_version")
      <4>1. /\ "SEND_READ_VERSION" \in DOMAIN SendsOnly
            /\ NextState("SEND_READ_VERSION") = "W4_READ_VERSION"
            /\ SendsOnly["SEND_READ_VERSION"] = "read_version"
        BY SendsOnlyNames, NextStates
      <4> QED BY <1>1, <3>1, <4>1, MoveAndSend
    <3>3. Sent(h, t, "W4_READ_VERSION", "read_version")
      BY <1>2, <3>2, SentGranted
    <3>4. Early(t, c, Tail(e))
      BY <1>4, <2>0, <3>3, LaterEarly DEF Sent
    <3> QED BY <3>3, <3>4, GoodStage DEF Stage, NoScript, Sent
  <2> QED BY <2>0, <2>1, <2>2
<1>5. CASE h.sub = "W4_READ_NAME"
  <2>0. h.last = "read_name" /\ op \in EarlyOps /\ h.timer = "none"
    BY <1>0, <1>5, UpToNames DEF Early
  <2>1. CASE op = "read_name"
    <3>1. t \in Run([s EXCEPT !.sub = "SEND_BAUD_CHANGE"])
      BY <1>1, <1>5, <2>0, <2>1, NextStates DEF Advance
    <3>2. Sent(s, t, "W4_BAUD_CHANGE", "set_baud")
      <4>1. /\ "SEND_BAUD_CHANGE" \in DOMAIN SendsOnly
            /\ NextState("SEND_BAUD_CHANGE") = "W4_BAUD_CHANGE"
            /\ SendsOnly["SEND_BAUD_CHANGE"] = "set_baud"
        BY SendsOnlyNames, NextStates
      <4> QED BY <1>1, <3>1, <4>1, MoveAndSend
    <3>3. Sent(h, t, "W4_BAUD_CHANGE", "set_baud")
      BY <1>2, <3>2, SentGranted
    <3>4. BaudChange(t, c, Tail(e))
      <4>1. /\ QueueIn(Tail(e), Len(Tail(e)), EarlyOps)
            /\ \A i \in 1..Len(Tail(e)) : Tail(e)[i].baud = "init"
        BY <1>5, EarlyTail, UpToNames
      <4>2. /\ QueueIn(c.cmdq, Len(c.cmdq), EarlyOps) /\ Virgin(c)
            /\ h.baud = "init" /\ h.script = 0
        BY <1>5, UpToNames DEF Early
      <4>3. t.tx.op = "set_baud"
        BY <3>3, CommandType DEF Sent
      <4> QED BY <1>0, <2>0, <3>3, <4>1, <4>2, <4>3 DEF BaudChange, Sent, Virgin
    <3> QED BY <3>3, <3>4, GoodStage DEF Stage, NoScript, Sent
  <2>2. CASE op # "read_name"
    <3>1. Resends(s, op) = s
      BY <1>1, <1>5, <2>2 DEF Resends
    <3>2. t = s
      BY <1>1, <1>5, <2>0, <2>2, <3>1, RunWaits
    <3>3. Early(t, c, Tail(e))
      BY <1>1, <1>5, <2>0, <3>2, LaterEarly
    <3> QED BY <1>1, <3>2, <3>3, GoodStage DEF Stage, NoScript
  <2> QED BY <2>1, <2>2
<1> QED BY <1>3, <1>4, <1>5 DEF Early

(* Every answer of the bring-up.                                           *)
LEMMA AnswerGood ==
  ASSUME NEW h \in HostType, h.state = "INITIALIZING", h.tx = NoCommand,
         setup \in SetupType, NEW c \in CtlType, NEW e \in Seq(EventType), e # <<>>,
         Good(h, c, e)
  PROVE  Handled(h, c, e)
<1>1. NoScript(h) /\ Stage(h, c, e) /\ (h.sub # "DONE" => h.gap)
  BY DEF Good, GapAsked
<1>2. CASE Early(h, c, e)
  BY <1>1, <1>2, AnswerEarly DEF Early
<1>3. CASE BaudChange(h, c, e)
  BY <1>1, <1>3, AnswerBaudChange DEF BaudChange
<1>4. CASE Download(h, c, e)
  BY <1>1, <1>4, AnswerDownload DEF Download
<1>5. CASE Delay(h, c, e)
  BY <1>5 DEF Delay, Quiet
<1>6. CASE Reset2(h, c, e)
  BY <1>1, <1>6, AnswerReset2 DEF Reset2
<1>7. CASE Supported(h, c, e)
  BY <1>1, <1>7, AnswerSupported DEF Supported
<1>8. CASE BaudChange2(h, c, e)
  BY <1>1, <1>8, AnswerBaudChange2 DEF BaudChange2
<1>9. CASE SetAddress(h, c, e)
  BY <1>1, <1>9, AnswerSetAddress DEF SetAddress
<1>10. CASE Configuring(h, c, e)
  BY <1>1, <1>10, AnswerConfigure DEF Configuring
<1>11. CASE Finishing(h, c, e)
  BY <1>1, <1>11, AnswerFinishing
<1> QED BY <1>1, <1>2, <1>3, <1>4, <1>5, <1>6, <1>7, <1>8, <1>9, <1>10, <1>11 DEF Stage

----------------------------------------------------------------------------
(* A command is written *)

(* The command of host h has reached the queue of controller c.            *)
Written(h, t, c, d) ==
  /\ t \in HostType /\ t.tx = NoCommand
  /\ t.state = h.state /\ t.sub = h.sub /\ t.step = h.step /\ t.credit = h.credit
  /\ t.last = h.last /\ t.baud = h.baud /\ t.script = h.script /\ t.result = h.result
  /\ t.gap = h.gap /\ t.timer = h.timer
  /\ d \in CtlType /\ d.cmdq = Append(c.cmdq, h.tx)
  /\ d.up = c.up /\ d.baud = c.baud /\ d.loaded = c.loaded /\ d.spoiled = c.spoiled
  /\ d.patched = c.patched /\ d.addr = c.addr

(* The host as it is once the transport is free.                           *)
LEMMA FreedFields ==
  ASSUME NEW h \in HostType, NEW r, r = [h EXCEPT !.tx = NoCommand]
  PROVE  /\ r \in HostType /\ r.tx = NoCommand
         /\ r.state = h.state /\ r.sub = h.sub /\ r.step = h.step /\ r.credit = h.credit
         /\ r.last = h.last /\ r.baud = h.baud /\ r.script = h.script /\ r.result = h.result
         /\ r.gap = h.gap /\ r.timer = h.timer
BY DEF HostType

(* The controller as it is with one command more.                          *)
LEMMA QueuedFields ==
  ASSUME NEW c \in CtlType, NEW cmd \in Commands, NEW d, d = [c EXCEPT !.cmdq = Append(@, cmd)]
  PROVE  /\ d \in CtlType /\ d.cmdq = Append(c.cmdq, cmd)
         /\ d.up = c.up /\ d.baud = c.baud /\ d.loaded = c.loaded /\ d.spoiled = c.spoiled
         /\ d.patched = c.patched /\ d.addr = c.addr
<1> DEFINE q == Append(c.cmdq, cmd)
<1>1. q \in Seq(Commands)
  BY DEF CtlType
<1>2. d = [c EXCEPT !.cmdq = q]
  OBVIOUS
<1> HIDE DEF q
<1>3. /\ d \in CtlType /\ d.cmdq = q
      /\ d.up = c.up /\ d.baud = c.baud /\ d.loaded = c.loaded /\ d.spoiled = c.spoiled
      /\ d.patched = c.patched /\ d.addr = c.addr
  BY <1>1, <1>2 DEF CtlType
<1> QED BY <1>3 DEF q

(* Two facts about Append.                                                 *)
LEMMA Appended ==
  ASSUME NEW S, NEW q \in Seq(S), NEW x \in S
  PROVE  /\ Append(q, x) \in Seq(S) /\ Append(q, x) # <<>>
         /\ Len(q) \in Nat /\ Len(Append(q, x)) = Len(q) + 1
         /\ Append(q, x)[Len(q) + 1] = x
         /\ \A i \in 1..Len(q) : Append(q, x)[i] = q[i]
         /\ q = <<>> => Append(q, x) = <<x>>
<1>1. /\ Append(q, x) \in Seq(S) /\ Len(q) \in Nat /\ Len(Append(q, x)) = Len(q) + 1
      /\ Append(q, x)[Len(q) + 1] = x
      /\ \A i \in 1..Len(q) : Append(q, x)[i] = q[i]
  OBVIOUS
<1>2. Append(q, x) # <<>>
  BY <1>1, EmptySeq
<1>3. q = <<>> => Append(q, x) = <<x>>
  OBVIOUS
<1> QED BY <1>1, <1>2, <1>3

(* What was under way is in the queue of the controller.                   *)
LEMMA WrittenUnder ==
  ASSUME NEW h, NEW t, NEW c \in CtlType, NEW d, NEW e, NEW cmd \in Commands, Under(cmd, h, c, e),
         h.tx # NoCommand, Written(h, t, c, d)
  PROVE  Under(cmd, t, d, e) /\ h.tx = cmd
<1>1. h.tx = cmd /\ c.cmdq = <<>> /\ e = <<>>
  BY DEF Under
<1>2. d.cmdq = <<cmd>>
  BY <1>1, Appended DEF Written, CtlType
<1> QED BY <1>1, <1>2 DEF Under, Written

(* The same of a command without an effect.                                *)
LEMMA WrittenSingle ==
  ASSUME NEW h, NEW t, NEW c \in CtlType, NEW d, NEW e, NEW cmd \in Commands, NEW b,
         Single(cmd, b, h, c, e), h.tx # NoCommand, Written(h, t, c, d)
  PROVE  Single(cmd, b, t, d, e) /\ ~Answered(cmd.op, b, t, d, e)
<1>1. Under(cmd, h, c, e)
  BY DEF Single, Answered
<1>2. Under(cmd, t, d, e)
  BY <1>1, WrittenUnder
<1>3. e = <<>>
  BY <1>1 DEF Under
<1> QED BY <1>2, <1>3 DEF Single, Written, Answered

(* Past the resets the host only waits.                                    *)
LEMMA WrittenStage ==
  ASSUME NEW h \in HostType, h.tx # NoCommand, NEW c \in CtlType, NEW e \in Seq(EventType),
         NEW t, NEW d, Written(h, t, c, d), setup \in SetupType,
         Stage(h, c, e), ~Early(h, c, e)
  PROVE  Stage(t, d, e)
<1>c. /\ h.tx \in Commands /\ Command("reset") \in Commands /\ Command("supported") \in Commands
      /\ Command("set_baud") \in Commands /\ Command("set_addr") \in Commands
      /\ Command("config") \in Commands /\ Command("gap") \in Commands
      /\ Command("set_addr").op = "set_addr"
  BY CommandType DEF HostType
<1>2. CASE BaudChange(h, c, e)
  <2>1. /\ h.tx.op = "set_baud" /\ c.baud = "init"
        /\ QueueIn(c.cmdq, Len(c.cmdq), EarlyOps) /\ QueueIn(e, Len(e), EarlyOps)
    BY <1>2 DEF BaudChange
  <2>2. /\ d.cmdq # <<>> /\ d.cmdq[Len(d.cmdq)] = h.tx /\ Len(d.cmdq) - 1 = Len(c.cmdq)
        /\ \A i \in 1..Len(c.cmdq) : d.cmdq[i] = c.cmdq[i]
    BY <1>c, Appended DEF Written, CtlType
  <2>3. QueueIn(d.cmdq, Len(d.cmdq) - 1, EarlyOps)
    BY <2>1, <2>2 DEF QueueIn
  <2>4. BaudChange(t, d, e)
    BY <1>2, <2>1, <2>2, <2>3 DEF BaudChange, Written
  <2> QED BY <2>4 DEF Stage
<1>3. CASE Download(h, c, e)
  <2> DEFINE cmd == [op |-> "script", arg |-> h.script - 1]
  <2>1. cmd \in Commands
    <3> DEFINE k == h.script - 1
    <3>1. k \in 0..MaxScript
      <4>1. h.script \in 1..setup.script + 1
        BY <1>3 DEF Download
      <4> QED BY <4>1, SizeAssumption DEF SetupType
    <3> HIDE DEF k
    <3>2. [op |-> "script", arg |-> k] \in Commands
      BY <3>1, CommandType
    <3> QED BY <3>2 DEF k
  <2>2. /\ Under(cmd, h, c, e)
        /\ c.up /\ c.baud = "main" /\ ~c.patched /\ c.loaded = h.script - 2
    BY <1>3 DEF Download, Answered
  <2>3. /\ h.sub = "W4_CUSTOM_INIT" /\ h.last = "script" /\ h.timer = "none"
        /\ h.script \in 1..setup.script + 1 /\ h.result # "NO_INIT_SCRIPT"
        /\ h.baud = "main" /\ ~c.spoiled /\ ~c.addr
    BY <1>3 DEF Download
  <2> HIDE DEF cmd
  <2>4. Under(cmd, t, d, e)
    BY <2>1, <2>2, WrittenUnder
  <2>5. Download(t, d, e)
    BY <2>2, <2>3, <2>4 DEF Download, Written, cmd
  <2> QED BY <2>5 DEF Stage
<1>5. CASE Delay(h, c, e)
  BY <1>5 DEF Delay, Quiet
<1>6. CASE Reset2(h, c, e)
  <2>1. Single(Command("reset"), "init", t, d, e)
    BY <1>c, <1>6, WrittenSingle DEF Reset2
  <2>2. Reset2(t, d, e)
    BY <1>6, <2>1 DEF Reset2, Patched, Loaded, Written
  <2> QED BY <2>2 DEF Stage
<1>7. CASE Supported(h, c, e)
  <2> DEFINE b == IF setup.script = 0 THEN "main" ELSE "init"
  <2>0. Single(Command("supported"), b, h, c, e)
    BY <1>7 DEF Supported
  <2> HIDE DEF b
  <2>1. Single(Command("supported"), b, t, d, e)
    BY <1>c, <2>0, WrittenSingle
  <2>2. Supported(t, d, e)
    BY <1>7, <2>1 DEF Supported, Patched, Loaded, Written, b
  <2> QED BY <2>2 DEF Stage
<1>8. CASE BaudChange2(h, c, e)
  <2>1. Under(Command("set_baud"), h, c, e) /\ c.baud = "init"
    BY <1>8 DEF BaudChange2, Answered
  <2>2. Under(Command("set_baud"), t, d, e)
    BY <1>c, <2>1, WrittenUnder
  <2>3. BaudChange2(t, d, e)
    BY <1>8, <2>1, <2>2 DEF BaudChange2, Patched, Loaded, Written
  <2> QED BY <2>3 DEF Stage
<1>9. CASE SetAddress(h, c, e)
  <2>1. Single(Command("set_addr"), "main", t, d, e) /\ ~Answered("set_addr", "main", t, d, e)
    BY <1>c, <1>9, WrittenSingle DEF SetAddress
  <2>2. SetAddress(t, d, e)
    BY <1>9, <2>1 DEF SetAddress, Loaded, Written
  <2> QED BY <2>2 DEF Stage
<1>10. CASE Configuring(h, c, e)
  <2>1. Single(Command("config"), "main", t, d, e)
    BY <1>c, <1>10, WrittenSingle DEF Configuring
  <2>2. Configuring(t, d, e)
    BY <1>10, <2>1 DEF Configuring, Loaded, Written
  <2> QED BY <2>2 DEF Stage
<1>11. CASE Finishing(h, c, e)
  <2>1. Single(Command("gap"), "main", t, d, e)
    BY <1>c, <1>11, WrittenSingle DEF Finishing
  <2>2. Finishing(t, d, e)
    BY <1>11, <2>1 DEF Finishing, Loaded, Written
  <2> QED BY <2>2 DEF Stage
<1> QED BY <1>2, <1>3, <1>5, <1>6, <1>7, <1>8, <1>9, <1>10, <1>11 DEF Stage

(* The reset is sent.                                                      *)
LEMMA RunReset ==
  ASSUME NEW s \in HostType, s.state = "INITIALIZING", CanSend(s), s.sub = "SEND_RESET",
         NEW t \in Run(s)
  PROVE  /\ t \in HostType /\ t.sub = "W4_RESET" /\ t.tx = Command("reset") /\ t.last = "reset"
         /\ t.gap /\ t.timer = "resend"
         /\ t.state = s.state /\ t.baud = s.baud /\ t.script = s.script /\ t.result = s.result
<1> DEFINE r == ResendTimer([s EXCEPT !.sub = "W4_RESET", !.gap = TRUE])
<1>1. t = Send(r, Command("reset"))
  BY SendsOnlyNames DEF Run, SendReset
<1>2. /\ r \in HostType /\ r.credit = 1 /\ r.sub = "W4_RESET" /\ r.gap /\ r.timer = "resend"
      /\ r.state = s.state /\ r.baud = s.baud /\ r.script = s.script /\ r.result = s.result
  <2>1. "W4_RESET" \in Substates
    BY SubstateNames
  <2> QED BY <2>1, CanSendMeans DEF HostType, ResendTimer
<1> HIDE DEF r
<1>3. Command("reset") \in Commands /\ Command("reset").op = "reset"
  BY CommandType
<1>4. /\ t \in HostType /\ t.tx = Command("reset") /\ t.last = "reset"
      /\ t.sub = r.sub /\ t.gap = r.gap /\ t.timer = r.timer
      /\ t.state = r.state /\ t.baud = r.baud /\ t.script = r.script /\ t.result = r.result
  <2>1. r \in HostType /\ r.credit = 1
    BY <1>2
  <2> QED BY <1>1, <1>3, <2>1, SendFields
<1> QED BY <1>2, <1>4

(* Waiting for an answer to HCI_Reset with one more of them under way.     *)
LEMMA AwaitReset ==
  ASSUME NEW t, t.sub \in {"SEND_RESET", "W4_RESET"}, t.last = "reset",
         t.tx = NoCommand \/ t.tx = Command("reset"), t.timer \in {"none", "resend"},
         t.baud = "init", t.script = 0, NEW c, Virgin(c), NEW e,
         QueueIn(c.cmdq, Len(c.cmdq), {"reset"}), QueueIn(e, Len(e), {"reset"}),
         \A i \in 1..Len(e) : e[i].baud = "init", ~c.up => c.cmdq = <<>> /\ e = <<>>
  PROVE  Early(t, c, e)
<1>1. UpTo(t.sub) = {"reset"} /\ t.tx.op \in UpTo(t.sub) \cup {"none"}
  BY UpToNames, CommandType DEF NoCommand
<1> QED BY <1>1 DEF Early

(* The last byte of one of the first commands is written.                  *)
LEMMA WrittenEarly ==
  ASSUME NEW h \in HostType, h.state = "INITIALIZING", h.tx # NoCommand, h.gap, NoScript(h),
         NEW c \in CtlType, NEW e \in Seq(EventType), Early(h, c, e),
         NEW d, IF c.up THEN d.cmdq = Append(c.cmdq, h.tx) ELSE d.cmdq = c.cmdq,
         d.up = c.up, Virgin(d), NEW t \in Run([h EXCEPT !.tx = NoCommand])
  PROVE  t \in HostType /\ Good(t, d, e)
<1> DEFINE r == [h EXCEPT !.tx = NoCommand]
<1>1. /\ r \in HostType /\ r.tx = NoCommand
      /\ r.state = h.state /\ r.sub = h.sub /\ r.step = h.step /\ r.credit = h.credit
      /\ r.last = h.last /\ r.baud = h.baud /\ r.script = h.script /\ r.result = h.result
      /\ r.gap = h.gap /\ r.timer = h.timer
  BY FreedFields
<1>2. t \in Run(r)
  OBVIOUS
<1> HIDE DEF r
<1>3. /\ h.sub \in {"SEND_RESET", "W4_RESET", "W4_READ_VERSION", "W4_READ_NAME"}
      /\ h.tx \in Commands /\ h.tx.op \in UpTo(h.sub)
    <2>1. h.tx \in Commands
      BY DEF HostType
    <2> QED BY <2>1, CommandType DEF Early
<1>4. QueueIn(d.cmdq, Len(d.cmdq), UpTo(h.sub))
  <2>1. CASE c.up
    <3>1. /\ d.cmdq[Len(c.cmdq) + 1] = h.tx /\ Len(d.cmdq) = Len(c.cmdq) + 1 /\ Len(c.cmdq) \in Nat
          /\ \A i \in 1..Len(c.cmdq) : d.cmdq[i] = c.cmdq[i]
      BY <2>1, <1>3, Appended DEF CtlType
    <3>2. \A i \in 1..Len(d.cmdq) : i = Len(c.cmdq) + 1 \/ i \in 1..Len(c.cmdq)
      BY <3>1
    <3> QED BY <1>3, <3>1, <3>2 DEF Early, QueueIn
  <2>2. CASE ~c.up
    BY <2>2 DEF Early
  <2> QED BY <2>1, <2>2
<1>5. CASE h.sub = "SEND_RESET" /\ CanSend(r)
  <2>1. /\ t \in HostType /\ t.sub = "W4_RESET" /\ t.tx = Command("reset") /\ t.last = "reset"
        /\ t.gap /\ t.timer = "resend"
        /\ t.state = r.state /\ t.baud = r.baud /\ t.script = r.script /\ t.result = r.result
    BY <1>1, <1>2, <1>5, RunReset
  <2>2. UpTo(h.sub) = {"reset"}
    BY <1>5, UpToNames
  <2>3. Early(t, d, e)
    <3>1. /\ t.baud = "init" /\ t.script = 0 /\ QueueIn(e, Len(e), {"reset"})
          /\ QueueIn(d.cmdq, Len(d.cmdq), {"reset"})
          /\ \A i \in 1..Len(e) : e[i].baud = "init"
          /\ ~d.up => d.cmdq = <<>> /\ e = <<>>
      BY <1>1, <1>4, <1>5, <2>1, <2>2 DEF Early
    <3> QED BY <2>1, <3>1, AwaitReset
  <2> QED BY <1>1, <2>1, <2>3, GoodStage DEF Stage, NoScript
<1>6. CASE ~(h.sub = "SEND_RESET" /\ CanSend(r))
  <2>1. t = r
    BY <1>1, <1>2, <1>3, <1>6, RunWaits
  <2>2. Early(r, d, e)
    <3>1. NoCommand.op = "none"
      BY DEF NoCommand
    <3> QED BY <1>1, <1>4, <3>1 DEF Early
  <2> QED BY <1>1, <2>1, <2>2, GoodStage DEF Stage, NoScript
<1> QED BY <1>5, <1>6

(* PacketSent                                                              *)
LEMMA PacketSentGood ==
  ASSUME setup \in SetupType, host \in HostType, ctl \in CtlType, events \in Seq(EventType),
         Good(host, ctl, events), PacketSent
  PROVE  host' \in HostType /\ ctl' \in CtlType /\ Good(host', ctl', events)
<1> DEFINE r == [host EXCEPT !.tx = NoCommand]
<1>1. /\ host.tx # NoCommand /\ host' \in Run(r)
      /\ ctl' = IF ctl.up /\ ctl.baud = host.baud THEN [ctl EXCEPT !.cmdq = Append(@, host.tx)]
                ELSE ctl
  BY DEF PacketSent
<1>2. /\ r \in HostType /\ r.tx = NoCommand
      /\ r.state = host.state /\ r.sub = host.sub /\ r.step = host.step /\ r.credit = host.credit
      /\ r.last = host.last /\ r.baud = host.baud /\ r.script = host.script
      /\ r.result = host.result /\ r.gap = host.gap /\ r.timer = host.timer
  BY FreedFields
<1>3. host.tx \in Commands
  BY <1>1 DEF HostType
<1>4. ctl.up /\ ctl.baud = host.baud =>
        /\ ctl' \in CtlType /\ ctl'.cmdq = Append(ctl.cmdq, host.tx)
        /\ ctl'.up = ctl.up /\ ctl'.baud = ctl.baud /\ ctl'.loaded = ctl.loaded
        /\ ctl'.spoiled = ctl.spoiled /\ ctl'.patched = ctl.patched /\ ctl'.addr = ctl.addr
  <2>1. ASSUME ctl.up /\ ctl.baud = host.baud
        PROVE  ctl' = [ctl EXCEPT !.cmdq = Append(@, host.tx)]
    BY <1>1, <2>1
  <2>2. ASSUME ctl' = [ctl EXCEPT !.cmdq = Append(@, host.tx)]
        PROVE  /\ ctl' \in CtlType /\ ctl'.cmdq = Append(ctl.cmdq, host.tx)
               /\ ctl'.up = ctl.up /\ ctl'.baud = ctl.baud /\ ctl'.loaded = ctl.loaded
               /\ ctl'.spoiled = ctl.spoiled /\ ctl'.patched = ctl.patched
               /\ ctl'.addr = ctl.addr
    BY <1>3, <2>2, QueuedFields
  <2> QED BY <2>1, <2>2
<1>5. ~(ctl.up /\ ctl.baud = host.baud) => ctl' = ctl
  BY <1>1
<1>6. NoScript(host) /\ NoScript(r)
  BY <1>2 DEF Good, NoScript
<1>7. CASE host.state = "INITIALIZING" /\ Early(host, ctl, events)
  <2>1. host.gap
    BY <1>7 DEF Good, GapAsked, Early
  <2>2. Virgin(ctl) /\ host.baud = "init"
    BY <1>7 DEF Early
  <2>3. /\ IF ctl.up THEN ctl'.cmdq = Append(ctl.cmdq, host.tx) ELSE ctl'.cmdq = ctl.cmdq
        /\ ctl'.up = ctl.up /\ Virgin(ctl')
    BY <1>4, <1>5, <2>2 DEF Virgin
  <2>4. ctl' \in CtlType
    BY <1>4, <1>5
  <2> HIDE DEF r
  <2>5. host' \in Run([host EXCEPT !.tx = NoCommand])
    BY <1>1 DEF r
  <2> QED BY <1>1, <1>6, <1>7, <2>1, <2>3, <2>4, <2>5, WrittenEarly
<1> HIDE DEF r
<1>8. CASE host.state = "INITIALIZING" /\ ~Early(host, ctl, events)
  <2>1. Stage(host, ctl, events)
    BY <1>8 DEF Good
  <2>2. ctl.up /\ ctl.baud = host.baud
    BY <1>1, <1>8, <2>1 DEF Stage, BaudChange, Download, Delay, Reset2, Supported, BaudChange2,
      SetAddress, Configuring, Finishing, Single, Quiet, Answered
  <2>3. host' = r
    <3>1. \/ host.sub \in {"W4_BAUD_CHANGE", "W4_CUSTOM_INIT", "W4_BCM_DELAY", "W4_BCM_RESET",
                           "W4_READ_SUPPORTED_COMMANDS", "W4_BAUD_CHANGE_BCM",
                           "W4_SET_BD_ADDR", "W4_CONFIGURE"}
          \/ host.credit = 0
      BY <1>8, <2>1 DEF Stage, BaudChange, Download, Delay, Reset2, Supported, BaudChange2,
        SetAddress, Configuring, Finishing
    <3> QED BY <1>1, <1>2, <3>1, CanSendMeans, RunWaits
  <2>4. Written(host, host', ctl, ctl')
    BY <1>2, <1>4, <2>2, <2>3 DEF Written
  <2>5. Stage(host', ctl', events)
    BY <1>1, <1>8, <2>1, <2>4, WrittenStage
  <2>6. host.gap \/ host.sub = "DONE"
    BY <1>8 DEF Good, GapAsked
  <2> QED BY <1>2, <1>4, <1>6, <1>8, <2>2, <2>3, <2>5, <2>6, GoodStage
<1>9. CASE host.state = "HALTING"
  <2>1. Under(Command("stop"), host, ctl, events) /\ ctl.up /\ ctl.baud = "main" /\ host.baud = "main"
    BY <1>1, <1>9 DEF Good, Halting, Quiet, Answered
  <2>2. host' = r
    BY <1>1, <1>2, <1>9, RunWaits
  <2>3. Written(host, host', ctl, ctl')
    BY <1>2, <1>4, <2>1, <2>2 DEF Written
  <2>4. Under(Command("stop"), host', ctl', events)
    BY <1>1, <2>1, <2>3, WrittenUnder, CommandType
  <2>5. Halting(host', ctl', events)
    BY <1>9, <2>1, <2>3, <2>4 DEF Good, Halting, Written
  <2> QED BY <1>2, <1>4, <1>6, <1>9, <2>1, <2>2, <2>5 DEF Good, GapAsked
<1>10. CASE host.state \in {"OFF", "WORKING"}
  BY <1>1, <1>10 DEF Good, Working, Quiet
<1> QED BY <1>7, <1>8, <1>9, <1>10 DEF HostType

----------------------------------------------------------------------------
(* The controller *)

(* The first command of controller c is executed.                          *)
Popped(c, d) ==
  /\ d \in CtlType /\ d.cmdq = Tail(c.cmdq)
  /\ d.up = c.up /\ d.loaded = c.loaded /\ d.spoiled = c.spoiled /\ d.patched = c.patched

(* A queue without its first element.                                      *)
LEMMA QueueTail ==
  ASSUME NEW S, NEW q \in Seq(S), q # <<>>, NEW A
  PROVE  /\ QueueIn(q, Len(q), A) => QueueIn(Tail(q), Len(Tail(q)), A)
         /\ QueueIn(q, Len(q) - 1, A) => QueueIn(Tail(q), Len(Tail(q)) - 1, A)
         /\ Len(q) # 1 => Tail(q) # <<>> /\ Tail(q)[Len(Tail(q))] = q[Len(q)]
<1> DEFINE t == Tail(q)
<1>1. /\ Len(q) \in Nat /\ Len(q) >= 1 /\ Len(t) = Len(q) - 1
      /\ t = <<>> <=> Len(q) = 1
      /\ \A i \in 1..Len(q) - 1 : t[i] = q[i + 1]
  BY Taken
<1> HIDE DEF t
<1>2. \A i \in 1..Len(t) : t[i] = q[i + 1] /\ i + 1 \in 1..Len(q)
  BY <1>1
<1>3. \A i \in 1..Len(t) - 1 : t[i] = q[i + 1] /\ i + 1 \in 1..Len(q) - 1
  BY <1>1
<1>4. QueueIn(q, Len(q), A) => QueueIn(t, Len(t), A)
  BY <1>2 DEF QueueIn
<1>5. QueueIn(q, Len(q) - 1, A) => QueueIn(t, Len(t) - 1, A)
  BY <1>3 DEF QueueIn
<1>6. Len(q) # 1 => t # <<>> /\ t[Len(t)] = q[Len(q)]
  BY <1>1
<1> QED BY <1>4, <1>5, <1>6 DEF t

(* A command without an effect of its own.                                 *)
LEMMA NoEffect ==
  ASSUME NEW c \in CtlType, c.cmdq # <<>>, NEW cmd, NEW d, d = Effect(c, cmd),
         NEW op \in {"reset", "read_version", "read_name", "supported", "config", "gap", "stop"},
         cmd.op = op
  PROVE  Popped(c, d) /\ d.baud = c.baud /\ d.addr = c.addr
<1> DEFINE q == Tail(c.cmdq)
<1>1. q \in Seq(Commands)
  BY Taken DEF CtlType
<1>2. d = [c EXCEPT !.cmdq = q]
  BY DEF Effect
<1> HIDE DEF q
<1>3. /\ d \in CtlType /\ d.cmdq = q
      /\ d.up = c.up /\ d.baud = c.baud /\ d.loaded = c.loaded /\ d.spoiled = c.spoiled
      /\ d.patched = c.patched /\ d.addr = c.addr
  BY <1>1, <1>2 DEF CtlType
<1> QED BY <1>3 DEF q, Popped

(* The main baud rate is set.                                              *)
LEMMA EffectBaud ==
  ASSUME NEW c \in CtlType, c.cmdq # <<>>, NEW cmd, NEW d, d = Effect(c, cmd),
         cmd.op = "set_baud"
  PROVE  Popped(c, d) /\ d.baud = "main" /\ d.addr = c.addr
<1> DEFINE q == Tail(c.cmdq)
<1>1. q \in Seq(Commands)
  BY Taken DEF CtlType
<1>2. d = [[c EXCEPT !.cmdq = q] EXCEPT !.baud = "main"]
  BY DEF Effect
<1> HIDE DEF q
<1>3. /\ d \in CtlType /\ d.cmdq = q /\ d.baud = "main"
      /\ d.up = c.up /\ d.loaded = c.loaded /\ d.spoiled = c.spoiled
      /\ d.patched = c.patched /\ d.addr = c.addr
  BY <1>1, <1>2 DEF CtlType, Bauds
<1> QED BY <1>3 DEF q, Popped

(* The address is set.                                                     *)
LEMMA EffectAddress ==
  ASSUME NEW c \in CtlType, c.cmdq # <<>>, NEW cmd, NEW d, d = Effect(c, cmd),
         cmd.op = "set_addr"
  PROVE  Popped(c, d) /\ d.baud = c.baud /\ d.addr
<1> DEFINE q == Tail(c.cmdq)
<1>1. q \in Seq(Commands)
  BY Taken DEF CtlType
<1>2. d = [[c EXCEPT !.cmdq = q] EXCEPT !.addr = TRUE]
  BY DEF Effect
<1> HIDE DEF q
<1>3. /\ d \in CtlType /\ d.cmdq = q /\ d.addr
      /\ d.up = c.up /\ d.baud = c.baud /\ d.loaded = c.loaded /\ d.spoiled = c.spoiled
      /\ d.patched = c.patched
  BY <1>1, <1>2 DEF CtlType
<1> QED BY <1>3 DEF q, Popped

(* A command of the script, in its place.                                  *)
Downloaded(c, d, k) ==
  /\ d \in CtlType /\ d.loaded = k /\ ~d.spoiled /\ ~d.addr
  /\ k < setup.script => d.cmdq = Tail(c.cmdq) /\ d.up /\ ~d.patched /\ d.baud = c.baud
  /\ k = setup.script => d.cmdq = <<>> /\ d.patched /\ d.baud = "init"

(* It is one more of the script, or the last one: then the PatchRAM runs.  *)
LEMMA EffectScript ==
  ASSUME NEW c \in CtlType, c.cmdq # <<>>, ~c.spoiled, ~c.patched, ~c.addr, c.up,
         setup \in SetupType,
         NEW k \in 0..setup.script, c.loaded = k - 1,
         NEW d, d = Effect(c, [op |-> "script", arg |-> k])
  PROVE  Downloaded(c, d, k)
<1> DEFINE q == Tail(c.cmdq)
<1>1. q \in Seq(Commands) /\ k \in -1..MaxScript /\ ~(k # c.loaded + 1)
  BY Taken, SizeAssumption DEF CtlType, SetupType
<1>i. k \in Int /\ setup.script \in Int
  BY SizeAssumption DEF SetupType
<1> HIDE DEF q
<1>2. CASE k < setup.script
  <2>1. d = [[c EXCEPT !.cmdq = q] EXCEPT !.loaded = k, !.spoiled = @ \/ k # c.loaded + 1]
    BY <1>2 DEF Effect, q, SetupType
  <2>2. d = [c EXCEPT !.cmdq = q, !.loaded = k, !.spoiled = FALSE]
    BY <1>1, <2>1 DEF CtlType
  <2>3. /\ d \in CtlType /\ d.loaded = k /\ d.spoiled = FALSE /\ d.addr = c.addr
        /\ d.cmdq = q /\ d.up = c.up /\ d.patched = c.patched /\ d.baud = c.baud
    BY <1>1, <2>2 DEF CtlType
  <2>4. k # setup.script
    BY <1>2, <1>i
  <2> QED BY <2>3, <2>4 DEF q, Downloaded
<1>3. CASE k = setup.script
  <2>1. d = [FreshCtl EXCEPT !.patched = TRUE, !.loaded = k,
                             !.spoiled = c.spoiled \/ k # c.loaded + 1]
    BY <1>3 DEF Effect, SetupType
  <2>2. d = [FreshCtl EXCEPT !.patched = TRUE, !.loaded = k, !.spoiled = FALSE]
    BY <1>1, <2>1
  <2>3. /\ d \in CtlType /\ d.loaded = k /\ d.spoiled = FALSE /\ d.addr = FALSE
        /\ d.cmdq = <<>> /\ d.patched = TRUE /\ d.baud = "init"
    <3>1. <<>> \in Seq(Commands)
      OBVIOUS
    <3>2. d = [up |-> FALSE, baud |-> "init", cmdq |-> <<>>, loaded |-> k, spoiled |-> FALSE,
               patched |-> TRUE, addr |-> FALSE]
      BY <2>2 DEF FreshCtl
    <3>3. \A n \in -1..MaxScript :
            [up |-> FALSE, baud |-> "init", cmdq |-> <<>>, loaded |-> n, spoiled |-> FALSE,
             patched |-> TRUE, addr |-> FALSE] \in CtlType
      BY <3>1 DEF CtlType, Bauds
    <3>4. d \in CtlType
      BY <1>1, <3>2, <3>3
    <3> QED BY <3>2, <3>4
  <2>4. ~(k < setup.script)
    BY <1>3, <1>i
  <2> QED BY <2>3, <2>4 DEF Downloaded
<1> QED BY <1>2, <1>3, <1>i

(* A single command without an effect is answered.                         *)
LEMMA ExecuteSingle ==
  ASSUME NEW h, NEW c \in CtlType, NEW e, NEW cmd \in Commands, NEW b, Single(cmd, b, h, c, e),
         c.cmdq # <<>>, NEW d, d.cmdq = Tail(c.cmdq), d.up = c.up, d.baud = c.baud,
         NEW f, f = Append(e, [op |-> Head(c.cmdq).op, baud |-> c.baud])
  PROVE  Head(c.cmdq) = cmd /\ Single(cmd, b, h, d, f)
<1>1. h.tx = NoCommand /\ c.cmdq = <<cmd>> /\ e = <<>>
  BY DEF Single, Under, Answered
<1>2. Head(c.cmdq) = cmd /\ Tail(c.cmdq) = <<>>
  BY <1>1
<1>3. f = <<[op |-> cmd.op, baud |-> b]>>
  BY <1>1, <1>2 DEF Single
<1>4. Answered(cmd.op, b, h, d, f)
  BY <1>1, <1>2, <1>3 DEF Answered
<1> QED BY <1>2, <1>4 DEF Single

(* While only resets and the reads behind them are under way.              *)
LEMMA ExecuteEarly ==
  ASSUME NEW h, NEW c \in CtlType, c.cmdq # <<>>, c.up, NEW e \in Seq(EventType), Early(h, c, e),
         NEW d, d = Effect(c, Head(c.cmdq)),
         NEW f, f = Append(e, [op |-> Head(c.cmdq).op, baud |-> c.baud])
  PROVE  d \in CtlType /\ Early(h, d, f)
<1> DEFINE cmd == Head(c.cmdq)
           ev == [op |-> cmd.op, baud |-> c.baud]
<1>1. /\ cmd = c.cmdq[1] /\ cmd \in Commands /\ Len(c.cmdq) >= 1
      /\ Len(c.cmdq) \in Nat /\ Len(Tail(c.cmdq)) = Len(c.cmdq) - 1
      /\ \A i \in 1..Len(c.cmdq) - 1 : Tail(c.cmdq)[i] = c.cmdq[i + 1]
  BY Taken DEF CtlType
<1>2. cmd.op \in UpTo(h.sub) /\ c.baud = "init"
  BY <1>1 DEF Early, QueueIn, Virgin
<1>3. UpTo(h.sub) \subseteq EarlyOps
  BY UpToNames DEF EarlyOps, UpTo
<1>4. ev \in EventType
  BY <1>1 DEF EventType, Opcodes, CtlType
<1>5. Popped(c, d) /\ d.baud = c.baud /\ d.addr = c.addr
  BY <1>2, <1>3, NoEffect DEF EarlyOps
<1>6. ev.op = cmd.op /\ ev.baud = "init"
  BY <1>2
<1> HIDE DEF ev
<1>7. f = Append(e, ev)
  BY DEF ev
<1>8. /\ Len(e) \in Nat /\ Len(f) = Len(e) + 1 /\ f[Len(e) + 1] = ev
      /\ \A i \in 1..Len(e) : f[i] = e[i]
  BY <1>4, <1>7, Appended
<1> HIDE DEF cmd
<1>9. QueueIn(f, Len(f), UpTo(h.sub)) /\ \A i \in 1..Len(f) : f[i].baud = "init"
  <2>1. \A i \in 1..Len(f) : i = Len(e) + 1 \/ i \in 1..Len(e)
    BY <1>8
  <2> QED BY <1>2, <1>6, <1>8, <2>1 DEF Early, QueueIn
<1>10. QueueIn(d.cmdq, Len(d.cmdq), UpTo(h.sub))
  <2>1. QueueIn(c.cmdq, Len(c.cmdq), UpTo(h.sub))
    BY DEF Early
  <2>2. c.cmdq \in Seq(Commands)
    BY DEF CtlType
  <2>3. d.cmdq = Tail(c.cmdq)
    BY <1>5 DEF Popped
  <2>4. QueueIn(Tail(c.cmdq), Len(Tail(c.cmdq)), UpTo(h.sub))
    BY <2>1, <2>2, QueueTail
  <2> QED BY <2>3, <2>4
<1>11. Virgin(d) /\ d.up
  BY <1>5 DEF Early, Virgin, Popped
<1> QED BY <1>5, <1>9, <1>10, <1>11 DEF Early, Popped

(* The command for the main baud rate is executed, or one before it.       *)
LEMMA ExecuteBaudChange ==
  ASSUME NEW h \in HostType, NEW c \in CtlType, c.cmdq # <<>>, c.up, NEW e \in Seq(EventType),
         BaudChange(h, c, e), NEW d, d = Effect(c, Head(c.cmdq)),
         NEW f, f = Append(e, [op |-> Head(c.cmdq).op, baud |-> c.baud])
  PROVE  d \in CtlType /\ BaudChange(h, d, f)
<1> DEFINE cmd == Head(c.cmdq)
           ev == [op |-> cmd.op, baud |-> c.baud]
<1>1. /\ cmd = c.cmdq[1] /\ cmd \in Commands /\ Len(c.cmdq) >= 1
      /\ Len(c.cmdq) \in Nat /\ Len(Tail(c.cmdq)) = Len(c.cmdq) - 1
      /\ Tail(c.cmdq) = <<>> <=> Len(c.cmdq) = 1
      /\ \A i \in 1..Len(c.cmdq) - 1 : Tail(c.cmdq)[i] = c.cmdq[i + 1]
  BY Taken DEF CtlType
<1>2. c.baud = "init" /\ (h.tx = NoCommand \/ h.tx.op = "set_baud")
  BY DEF BaudChange
<1>4. ev \in EventType
  BY <1>1 DEF EventType, Opcodes, CtlType
<1>6. ev.op = cmd.op /\ ev.baud = "init"
  BY <1>2
<1> HIDE DEF ev
<1>7. f = Append(e, ev)
  BY DEF ev
<1>8. /\ Len(e) \in Nat /\ Len(f) = Len(e) + 1 /\ f[Len(e) + 1] = ev /\ f # <<>>
      /\ \A i \in 1..Len(e) : f[i] = e[i]
  BY <1>4, <1>7, Appended
<1>9. QueueIn(e, Len(e), EarlyOps) /\ \A i \in 1..Len(f) : f[i].baud = "init"
  <2>1. \A i \in 1..Len(f) : i = Len(e) + 1 \/ i \in 1..Len(e)
    BY <1>8
  <2>2. \A i \in 1..Len(e) : e[i].baud = "init"
    BY DEF BaudChange
  <2>3. QueueIn(e, Len(e), EarlyOps)
    BY DEF BaudChange
  <2> QED BY <1>6, <1>8, <2>1, <2>2, <2>3
<1>10. CASE cmd.op \in EarlyOps
  <2>1. Popped(c, d) /\ d.baud = c.baud /\ d.addr = c.addr
    BY <1>10, NoEffect DEF EarlyOps
  <2>2. QueueIn(f, Len(f), EarlyOps)
    <3>1. \A i \in 1..Len(f) : i = Len(e) + 1 \/ i \in 1..Len(e)
      BY <1>8
    <3> QED BY <1>6, <1>8, <1>9, <1>10, <3>1 DEF QueueIn
  <2>3. CASE h.tx.op = "set_baud" /\ QueueIn(c.cmdq, Len(c.cmdq), EarlyOps)
    <3>1. QueueIn(d.cmdq, Len(d.cmdq), EarlyOps)
      BY <2>1, <2>3, QueueTail DEF CtlType, Popped
    <3> QED BY <1>2, <1>9, <2>1, <2>2, <2>3, <3>1 DEF BaudChange, Popped
  <2>4. CASE /\ h.tx = NoCommand /\ c.cmdq[Len(c.cmdq)].op = "set_baud"
             /\ QueueIn(c.cmdq, Len(c.cmdq) - 1, EarlyOps)
    <3>1. Len(c.cmdq) # 1
      BY <1>1, <1>10, <2>4 DEF EarlyOps
    <3>2. /\ d.cmdq # <<>> /\ d.cmdq[Len(d.cmdq)] = c.cmdq[Len(c.cmdq)]
      BY <2>1, <3>1, QueueTail DEF CtlType, Popped
    <3>3. QueueIn(d.cmdq, Len(d.cmdq) - 1, EarlyOps)
      BY <2>1, <2>4, QueueTail DEF CtlType, Popped
    <3> QED BY <1>2, <1>9, <2>1, <2>2, <2>4, <3>2, <3>3 DEF BaudChange, Popped
  <2> QED BY <2>3, <2>4 DEF BaudChange
<1>11. CASE cmd.op \notin EarlyOps
  <2>1. /\ h.tx = NoCommand /\ Len(c.cmdq) = 1 /\ cmd.op = "set_baud"
    BY <1>1, <1>11 DEF BaudChange, QueueIn
  <2>2. Popped(c, d) /\ d.baud = "main" /\ d.addr = c.addr
    BY <2>1, EffectBaud
  <2>3. d.cmdq = <<>>
    BY <1>1, <2>1, <2>2 DEF Popped
  <2>4. f[Len(f)].op = "set_baud" /\ QueueIn(f, Len(f) - 1, EarlyOps)
    BY <1>6, <1>8, <1>9, <2>1 DEF QueueIn
  <2> QED BY <1>8, <1>9, <2>1, <2>2, <2>3, <2>4 DEF BaudChange, Popped
<1> QED BY <1>10, <1>11

(* Past the resets the one command under way is executed.                  *)
LEMMA ExecuteStage ==
  ASSUME NEW h \in HostType, NEW c \in CtlType, c.cmdq # <<>>, c.up, NEW e \in Seq(EventType),
         setup \in SetupType, Stage(h, c, e), NEW d, d = Effect(c, Head(c.cmdq)),
         NEW f, f = Append(e, [op |-> Head(c.cmdq).op, baud |-> c.baud])
  PROVE  d \in CtlType /\ Stage(h, d, f)
<1>c. /\ Command("reset") \in Commands /\ Command("supported") \in Commands
      /\ Command("set_baud") \in Commands /\ Command("set_addr") \in Commands
      /\ Command("config") \in Commands /\ Command("gap") \in Commands
      /\ Command("reset").op = "reset" /\ Command("supported").op = "supported"
      /\ Command("set_baud").op = "set_baud" /\ Command("set_addr").op = "set_addr"
      /\ Command("config").op = "config" /\ Command("gap").op = "gap"
  BY CommandType
<1>q. /\ Tail(c.cmdq) \in Seq(Commands)
  BY Taken DEF CtlType
<1>1. CASE Early(h, c, e)
  BY <1>1, ExecuteEarly DEF Stage
<1>2. CASE BaudChange(h, c, e)
  BY <1>2, ExecuteBaudChange DEF Stage
<1>3. CASE Download(h, c, e)
  <2> DEFINE k == h.script - 1
             cmd == [op |-> "script", arg |-> k]
  <2>0. /\ h.sub = "W4_CUSTOM_INIT" /\ h.last = "script" /\ h.timer = "none"
        /\ h.script \in 1..setup.script + 1 /\ h.result # "NO_INIT_SCRIPT"
        /\ h.baud = "main" /\ ~c.spoiled /\ ~c.addr
    BY <1>3 DEF Download
  <2>1. /\ h.tx = NoCommand /\ c.cmdq = <<cmd>> /\ e = <<>>
        /\ c.baud = "main" /\ ~c.patched /\ c.loaded = h.script - 2
    BY <1>3 DEF Download, Under, Answered
  <2>2. k \in 0..setup.script /\ c.loaded = k - 1 /\ setup.script \in Int /\ k \in Int
    <3>1. setup.script \in Int
      BY SizeAssumption DEF SetupType
    <3> QED BY <2>0, <2>1, <3>1
  <2>k. h.script = k + 1 /\ (h.script = setup.script + 1 <=> k = setup.script)
    BY <2>0, <2>2
  <2> HIDE DEF k
  <2>3. /\ Head(c.cmdq) = cmd /\ Tail(c.cmdq) = <<>>
        /\ f = <<[op |-> "script", baud |-> "main"]>>
    BY <2>1
  <2>4. Downloaded(c, d, k)
    BY <2>0, <2>1, <2>2, <2>3, EffectScript
  <2>5. Answered("script", "main", h, d, f) /\ d.loaded = h.script - 1
    BY <2>1, <2>2, <2>3, <2>4, <2>k DEF Answered, Downloaded
  <2>6. IF h.script = setup.script + 1 THEN d.patched /\ d.baud = "init"
        ELSE d.up /\ ~d.patched /\ d.baud = "main"
    BY <2>1, <2>2, <2>4, <2>k DEF Downloaded
  <2>7. Download(h, d, f)
    BY <2>0, <2>4, <2>5, <2>6 DEF Download, Downloaded
  <2> QED BY <2>4, <2>7 DEF Stage, Downloaded
<1>5. CASE Delay(h, c, e)
  BY <1>5 DEF Delay, Quiet
<1>6. CASE Reset2(h, c, e)
  <2>1. Head(c.cmdq) = Command("reset")
    BY <1>6 DEF Reset2, Single, Under, Answered
  <2>2. Popped(c, d) /\ d.baud = c.baud /\ d.addr = c.addr
    BY <1>c, <2>1, NoEffect
  <2>3. Single(Command("reset"), "init", h, d, f)
    BY <1>c, <1>6, <2>2, ExecuteSingle DEF Reset2, Popped
  <2>4. Reset2(h, d, f)
    BY <1>6, <2>2, <2>3 DEF Reset2, Patched, Loaded, Popped
  <2> QED BY <2>2, <2>4 DEF Stage, Popped
<1>7. CASE Supported(h, c, e)
  <2> DEFINE b == IF setup.script = 0 THEN "main" ELSE "init"
  <2>0. Single(Command("supported"), b, h, c, e)
    BY <1>7 DEF Supported
  <2> HIDE DEF b
  <2>1. Head(c.cmdq) = Command("supported")
    BY <2>0 DEF Single, Under, Answered
  <2>2. Popped(c, d) /\ d.baud = c.baud /\ d.addr = c.addr
    BY <1>c, <2>1, NoEffect
  <2>3. Single(Command("supported"), b, h, d, f)
    BY <1>c, <2>0, <2>2, ExecuteSingle DEF Popped
  <2>4. Supported(h, d, f)
    BY <1>7, <2>2, <2>3 DEF Supported, Patched, Loaded, b, Popped
  <2> QED BY <2>2, <2>4 DEF Stage, Popped
<1>8. CASE BaudChange2(h, c, e)
  <2>1. /\ h.tx = NoCommand /\ c.cmdq = <<Command("set_baud")>> /\ e = <<>> /\ c.baud = "init"
    BY <1>8 DEF BaudChange2, Under, Answered
  <2>2. /\ Head(c.cmdq) = Command("set_baud") /\ Tail(c.cmdq) = <<>>
        /\ f = <<[op |-> "set_baud", baud |-> "init"]>>
    BY <1>c, <2>1
  <2>3. Popped(c, d) /\ d.baud = "main" /\ d.addr = c.addr
    BY <1>c, <2>2, EffectBaud
  <2>4. Answered("set_baud", "init", h, d, f)
    BY <2>1, <2>2, <2>3 DEF Answered, Popped
  <2>5. BaudChange2(h, d, f)
    BY <1>8, <2>3, <2>4 DEF BaudChange2, Patched, Loaded, Popped
  <2> QED BY <2>3, <2>5 DEF Stage, Popped
<1>9. CASE SetAddress(h, c, e)
  <2>1. Head(c.cmdq) = Command("set_addr")
    BY <1>9 DEF SetAddress, Single, Under, Answered
  <2>2. Popped(c, d) /\ d.baud = c.baud /\ d.addr
    BY <1>c, <2>1, EffectAddress
  <2>3. Single(Command("set_addr"), "main", h, d, f)
    BY <1>c, <1>9, <2>2, ExecuteSingle DEF SetAddress, Popped
  <2>4. SetAddress(h, d, f)
    BY <1>9, <2>2, <2>3 DEF SetAddress, Loaded, Popped
  <2> QED BY <2>2, <2>4 DEF Stage, Popped
<1>10. CASE Configuring(h, c, e)
  <2>1. Head(c.cmdq) = Command("config")
    BY <1>10 DEF Configuring, Single, Under, Answered
  <2>2. Popped(c, d) /\ d.baud = c.baud /\ d.addr = c.addr
    BY <1>c, <2>1, NoEffect
  <2>3. Single(Command("config"), "main", h, d, f)
    BY <1>c, <1>10, <2>2, ExecuteSingle DEF Configuring, Popped
  <2>4. Configuring(h, d, f)
    BY <1>10, <2>2, <2>3 DEF Configuring, Loaded, Popped
  <2> QED BY <2>2, <2>4 DEF Stage, Popped
<1>11. CASE Finishing(h, c, e)
  <2>1. Head(c.cmdq) = Command("gap")
    BY <1>11 DEF Finishing, Single, Under, Answered
  <2>2. Popped(c, d) /\ d.baud = c.baud /\ d.addr = c.addr
    BY <1>c, <2>1, NoEffect
  <2>3. Single(Command("gap"), "main", h, d, f)
    BY <1>c, <1>11, <2>2, ExecuteSingle DEF Finishing, Popped
  <2>4. Finishing(h, d, f)
    BY <1>11, <2>2, <2>3 DEF Finishing, Loaded, Popped
  <2> QED BY <2>2, <2>4 DEF Stage, Popped
<1> QED BY <1>1, <1>2, <1>3, <1>5, <1>6, <1>7, <1>8, <1>9, <1>10, <1>11 DEF Stage

(* Execute                                                                 *)
LEMMA ExecuteGood ==
  ASSUME setup \in SetupType, host \in HostType, ctl \in CtlType, events \in Seq(EventType),
         Good(host, ctl, events), Execute
  PROVE  ctl' \in CtlType /\ events' \in Seq(EventType) /\ Good(host, ctl', events')
<1>1. /\ ctl.up /\ ctl.cmdq # <<>> /\ ctl' = Effect(ctl, Head(ctl.cmdq))
      /\ events' = Append(events, [op |-> Head(ctl.cmdq).op, baud |-> ctl.baud])
  BY DEF Execute
<1>2. events' \in Seq(EventType)
  <2> DEFINE ev == [op |-> Head(ctl.cmdq).op, baud |-> ctl.baud]
  <2>1. Head(ctl.cmdq) \in Commands
    BY <1>1, Taken DEF CtlType
  <2>2. ev \in EventType
    BY <2>1 DEF EventType, Opcodes, CtlType
  <2> HIDE DEF ev
  <2>3. Append(events, ev) \in Seq(EventType)
    BY <2>2, Appended
  <2> QED BY <1>1, <2>3 DEF ev
<1>3. CASE host.state = "INITIALIZING"
  <2>1. ctl' \in CtlType /\ Stage(host, ctl', events')
    <3>1. Stage(host, ctl, events)
      BY <1>3 DEF Good
    <3> QED BY <1>1, <3>1, ExecuteStage
  <2>2. NoScript(host) /\ (host.gap \/ host.sub = "DONE")
    BY <1>3 DEF Good, GapAsked
  <2> QED BY <1>2, <1>3, <2>1, <2>2, GoodStage
<1>4. CASE host.state = "HALTING"
  <2>c. Command("stop").op = "stop"
    BY CommandType
  <2>1. /\ host.tx = NoCommand /\ ctl.cmdq = <<Command("stop")>> /\ events = <<>>
        /\ host.timer = "halting" /\ host.baud = "main" /\ ctl.baud = "main"
    BY <1>1, <1>4 DEF Good, Halting, Quiet, Under, Answered
  <2>2. /\ Head(ctl.cmdq) = Command("stop") /\ Tail(ctl.cmdq) = <<>>
        /\ events' = <<[op |-> "stop", baud |-> "main"]>>
    BY <1>1, <2>1, <2>c
  <2>3. Popped(ctl, ctl') /\ ctl'.baud = ctl.baud /\ ctl'.addr = ctl.addr
    BY <1>1, <2>2, <2>c, NoEffect
  <2>4. Halting(host, ctl', events')
    BY <1>1, <2>1, <2>2, <2>3 DEF Halting, Answered, Popped
  <2> QED BY <1>2, <1>4, <2>3, <2>4 DEF Good, GapAsked, Popped
<1>5. CASE host.state \in {"OFF", "WORKING"}
  BY <1>1, <1>5 DEF Good, Working, Quiet, FreshCtl
<1> QED BY <1>3, <1>4, <1>5 DEF HostType

(* Boots                                                                   *)
LEMMA BootsGood ==
  ASSUME setup \in SetupType, host \in HostType, ctl \in CtlType, events \in Seq(EventType),
         Good(host, ctl, events), Boots
  PROVE  ctl' \in CtlType /\ Good(host, ctl', events)
<1>1. host.state # "OFF" /\ ~ctl.up /\ ctl' = [ctl EXCEPT !.up = TRUE]
  BY DEF Boots
<1>2. /\ ctl' \in CtlType /\ ctl'.up /\ ctl'.baud = ctl.baud /\ ctl'.cmdq = ctl.cmdq
      /\ ctl'.loaded = ctl.loaded /\ ctl'.spoiled = ctl.spoiled
      /\ ctl'.patched = ctl.patched /\ ctl'.addr = ctl.addr
  BY <1>1 DEF CtlType
<1>3. CASE host.state = "INITIALIZING"
  <2>1. Stage(host, ctl, events)
    BY <1>3 DEF Good
  <2>2. Early(host, ctl, events) => Early(host, ctl', events)
    BY <1>2 DEF Early, Virgin
  <2>3. Download(host, ctl, events) => Download(host, ctl', events)
    BY <1>1, <1>2 DEF Download, Answered
  <2>4. Delay(host, ctl, events) => Delay(host, ctl', events)
    BY <1>2 DEF Delay, Patched, Loaded, Quiet
  <2>5. Stage(host, ctl', events)
    BY <1>1, <2>1, <2>2, <2>3, <2>4 DEF Stage, BaudChange, Reset2, Supported, BaudChange2,
      SetAddress, Configuring, Finishing, Single
  <2> QED BY <1>2, <1>3, <2>5, GoodStage DEF Good, GapAsked
<1>4. CASE host.state \in {"WORKING", "HALTING"}
  BY <1>1, <1>4 DEF Good, Working, Halting
<1> QED BY <1>1, <1>3, <1>4 DEF HostType

(* Every event left the controller at the baud rate of the UART.           *)
LEMMA SameRate ==
  ASSUME NEW h \in HostType, NEW c \in CtlType, NEW e \in Seq(EventType), Good(h, c, e)
  PROVE  /\ h.tx # NoCommand /\ c.up => h.baud = c.baud
         /\ \A i \in 1..Len(e) : e[i].baud = h.baud
<1>e. Len(<<>>) = 0
  OBVIOUS
<1>a. ASSUME NEW op, NEW b, Answered(op, b, h, c, e), h.baud = b
      PROVE  \A i \in 1..Len(e) : e[i].baud = h.baud
  BY <1>a DEF Answered
<1>s. ASSUME NEW cmd, NEW b, Single(cmd, b, h, c, e)
      PROVE  h.baud = c.baud /\ \A i \in 1..Len(e) : e[i].baud = h.baud
  BY <1>a, <1>e, <1>s DEF Single, Under
<1>1. CASE h.state = "INITIALIZING"
  <2>1. Stage(h, c, e)
    BY <1>1 DEF Good
  <2>2. CASE Early(h, c, e) \/ BaudChange(h, c, e)
    BY <2>2 DEF Early, Virgin, BaudChange
  <2>3. CASE Download(h, c, e)
    BY <1>a, <1>e, <2>3 DEF Download, Under, Answered
  <2>4. CASE Delay(h, c, e)
    BY <1>e, <2>4 DEF Delay, Quiet
  <2>5. CASE BaudChange2(h, c, e)
    <3>1. CASE Under(Command("set_baud"), h, c, e) /\ c.baud = "init"
      BY <1>e, <2>5, <3>1 DEF BaudChange2, Under
    <3>2. CASE Answered("set_baud", "init", h, c, e)
      BY <1>a, <2>5, <3>2 DEF BaudChange2, Answered
    <3> QED BY <2>5, <3>1, <3>2 DEF BaudChange2
  <2>6. CASE \E cmd, b : Single(cmd, b, h, c, e)
    BY <1>s, <2>6
  <2> QED BY <2>1, <2>2, <2>3, <2>4, <2>5, <2>6 DEF Stage, Reset2, Supported, SetAddress,
        Configuring, Finishing
<1>2. CASE h.state = "WORKING"
  BY <1>e, <1>2 DEF Good, Working, Quiet
<1>3. CASE h.state = "HALTING"
  <2>1. h.baud = "main" /\ c.baud = "main"
    BY <1>3 DEF Good, Halting
  <2>2. \A i \in 1..Len(e) : e[i].baud = h.baud
    BY <1>3, <1>a, <1>e, <2>1 DEF Good, Halting, Quiet, Under
  <2> QED BY <2>1, <2>2
<1>4. CASE h.state = "OFF"
  BY <1>e, <1>4 DEF Good
<1> QED BY <1>1, <1>2, <1>3, <1>4 DEF HostType

(* Deliver                                                                 *)
LEMMA DeliverGood ==
  ASSUME setup \in SetupType, host \in HostType, ctl \in CtlType, events \in Seq(EventType),
         Good(host, ctl, events), Deliver
  PROVE  host' \in HostType /\ events' \in Seq(EventType) /\ Good(host', ctl, events')
<1>1. /\ events # <<>> /\ host.tx = NoCommand /\ events' = Tail(events)
      /\ host' \in IF Head(events).baud = host.baud
                   THEN CommandComplete(host, Head(events).op) ELSE {host}
  BY DEF Deliver
<1>2. Head(events).baud = host.baud /\ events' \in Seq(EventType)
  <2>1. Head(events) = events[1] /\ Len(events) >= 1 /\ Tail(events) \in Seq(EventType)
    BY <1>1, Taken
  <2>2. \A i \in 1..Len(events) : events[i].baud = host.baud
    BY SameRate
  <2>3. 1 \in 1..Len(events)
    BY <2>1
  <2> QED BY <1>1, <2>1, <2>2, <2>3
<1>3. host' \in CommandComplete(host, Head(events).op)
  BY <1>1, <1>2
<1>4. CASE host.state = "INITIALIZING"
  <2>1. Handled(host, ctl, events)
    BY <1>1, <1>4, AnswerGood
  <2> QED BY <1>1, <1>2, <1>3, <2>1 DEF Handled
<1>5. CASE host.state = "HALTING"
  <2>1. host' = [host EXCEPT !.credit = 1]
    BY <1>3, <1>5 DEF CommandComplete, HostType
  <2>2. /\ host' \in HostType /\ host'.state = host.state /\ host'.tx = host.tx
        /\ host'.baud = host.baud /\ host'.timer = host.timer /\ host'.result = host.result
    BY <2>1 DEF HostType
  <2>3. Answered("stop", "main", host, ctl, events)
    BY <1>1, <1>5 DEF Good, Halting, Quiet, Under
  <2>4. events' = <<>> /\ ctl.cmdq = <<>>
    BY <1>1, <2>3, NothingLeft
  <2>5. Halting(host', ctl, events')
    BY <1>1, <1>5, <2>2, <2>4 DEF Good, Halting, Quiet
  <2> QED BY <1>2, <1>5, <2>2, <2>5 DEF Good, GapAsked, NoScript
<1>6. CASE host.state \in {"OFF", "WORKING"}
  BY <1>1, <1>6 DEF Good, Working, Quiet
<1> QED BY <1>4, <1>5, <1>6 DEF HostType

----------------------------------------------------------------------------
(* Power and timers *)

(* PowerOn: a cold start sends the first reset.                            *)
LEMMA PowerOnGood ==
  ASSUME ~WarmStart, setup \in SetupType, host \in HostType, ctl \in CtlType,
         events \in Seq(EventType), Good(host, ctl, events), PowerOn
  PROVE  host' \in HostType /\ Good(host', ctl, events)
<1> DEFINE r == ColdStart(host)
<1>1. host.state = "OFF" /\ host' \in Run(r)
  BY DEF PowerOn
<1>2. host.timer = "none" /\ ctl = FreshCtl /\ events = <<>> /\ NoScript(host)
  BY <1>1 DEF Good
<1>3. /\ r \in HostType /\ r.state = "INITIALIZING" /\ r.sub = "SEND_RESET" /\ r.credit = 1
      /\ r.tx = NoCommand /\ r.baud = "init" /\ r.script = 0 /\ r.result = host.result
  <2>1. "SEND_RESET" \in Substates /\ 0 \in 0..MaxScript + 1
    BY SubstateNames, SizeAssumption
  <2> DEFINE R(m, n) == [host EXCEPT !.tx = NoCommand, !.baud = "init", !.script = m,
                          !.state = "INITIALIZING", !.sub = "SEND_RESET", !.credit = n]
  <2>2. \A m \in 0..MaxScript + 1, n \in 0..1 : R(m, n) \in HostType
    BY <2>1 DEF HostType, Bauds
  <2>3. r = R(0, 1)
    BY DEF ColdStart, EnterInitializing, HostType
  <2>5. /\ R(0, 1).state = "INITIALIZING" /\ R(0, 1).sub = "SEND_RESET" /\ R(0, 1).credit = 1
        /\ R(0, 1).tx = NoCommand /\ R(0, 1).baud = "init" /\ R(0, 1).script = 0
        /\ R(0, 1).result = host.result
    BY DEF HostType
  <2> HIDE DEF R
  <2>4. R(0, 1) \in HostType
    BY <2>1, <2>2
  <2> QED BY <2>3, <2>4, <2>5
<1> HIDE DEF r
<1>4. CanSend(r)
  BY <1>3, CanSendMeans
<1>5. /\ host' \in HostType /\ host'.sub = "W4_RESET" /\ host'.tx = Command("reset")
      /\ host'.last = "reset" /\ host'.gap /\ host'.timer = "resend"
      /\ host'.state = r.state /\ host'.baud = r.baud /\ host'.script = r.script
      /\ host'.result = r.result
  BY <1>1, <1>3, <1>4, RunReset
<1>6. Early(host', ctl, events)
  <2>1. Virgin(ctl) /\ ctl.cmdq = <<>> /\ Len(<<>>) = 0
    BY <1>2 DEF FreshCtl, Virgin
  <2>2. QueueIn(ctl.cmdq, Len(ctl.cmdq), {"reset"}) /\ QueueIn(events, Len(events), {"reset"})
    BY <1>2, <2>1 DEF QueueIn
  <2> QED BY <1>2, <1>3, <1>5, <2>1, <2>2, AwaitReset
<1>7. NoScript(host')
  BY <1>2, <1>3, <1>5 DEF NoScript
<1> QED BY <1>3, <1>5, <1>6, <1>7, GoodStage DEF Stage

(* Without power everything starts over.                                   *)
LEMMA OffGood ==
  ASSUME NEW h \in HostType, NoScript(h)
  PROVE  Off(h) \in HostType /\ FreshCtl \in CtlType /\ Good(Off(h), FreshCtl, <<>>)
<1>1. /\ Off(h) \in HostType /\ Off(h).state = "OFF" /\ Off(h).tx = NoCommand
      /\ Off(h).timer = "none" /\ Off(h).result = h.result
  BY DEF Off, HostType
<1>2. FreshCtl \in CtlType
  <2>1. <<>> \in Seq(Commands) /\ -1 \in -1..MaxScript
    BY SizeAssumption
  <2> QED BY <2>1 DEF FreshCtl, CtlType, Bauds
<1> QED BY <1>1, <1>2 DEF Good, NoScript, GapAsked

(* PowerOff                                                                *)
LEMMA PowerOffGood ==
  ASSUME setup \in SetupType, host \in HostType, ctl \in CtlType,
         events \in Seq(EventType), Good(host, ctl, events), PowerOff
  PROVE  host' \in HostType /\ ctl' \in CtlType /\ events' \in Seq(EventType)
         /\ Good(host', ctl', events')
<1>1. CASE host' = Off(host) /\ ctl' = FreshCtl /\ events' = <<>>
  <2>1. NoScript(host)
    BY DEF Good
  <2>2. Off(host) \in HostType /\ FreshCtl \in CtlType /\ Good(Off(host), FreshCtl, <<>>)
    BY <2>1, OffGood
  <2>3. <<>> \in Seq(EventType)
    OBVIOUS
  <2> QED BY <1>1, <2>2, <2>3
<1>2. CASE host.state = "WORKING" /\ host' \in Halt(host) /\ ctl' = ctl /\ events' = events
  <2> DEFINE r == [host EXCEPT !.state = "HALTING", !.timer = "halting"]
  <2>1. /\ r \in HostType /\ r.state = "HALTING" /\ r.timer = "halting" /\ r.tx = host.tx
        /\ r.baud = host.baud /\ r.result = host.result /\ r.credit = host.credit
    BY DEF HostType
  <2>2. host' = r \/ (CanSend(r) /\ host' = Send(r, Command("stop")))
    BY <1>2 DEF Halt
  <2> HIDE DEF r
  <2>3. /\ NoScript(host) /\ host.baud = "main" /\ ctl.baud = "main" /\ ctl.up
        /\ host.tx = NoCommand /\ ctl.cmdq = <<>> /\ events = <<>>
    BY <1>2 DEF Good, Working, Quiet
  <2>4. CASE host' = r
    <3>1. Halting(r, ctl, events)
      BY <2>1, <2>3 DEF Halting, Quiet
    <3> QED BY <1>2, <2>1, <2>3, <2>4, <3>1 DEF Good, GapAsked, NoScript
  <2>5. CASE CanSend(r) /\ host' = Send(r, Command("stop"))
    <3>1. /\ host' \in HostType /\ host'.tx = Command("stop") /\ host'.state = r.state
          /\ host'.baud = r.baud /\ host'.result = r.result /\ host'.timer = r.timer
      <4>1. Command("stop") \in Commands /\ r.credit = 1
        BY <2>1, <2>5, CommandType, CanSendMeans
      <4> QED BY <2>1, <2>5, <4>1, SendFields
    <3>2. Halting(host', ctl, events)
      BY <2>1, <2>3, <3>1 DEF Halting, Under
    <3> QED BY <1>2, <2>1, <2>3, <3>1, <3>2 DEF Good, GapAsked, NoScript
  <2> QED BY <2>2, <2>4, <2>5
<1> QED BY <1>1, <1>2 DEF PowerOff

(* ResetTimeout                                                            *)
LEMMA ResetTimeoutGood ==
  ASSUME setup \in SetupType, host \in HostType, ctl \in CtlType,
         events \in Seq(EventType), Good(host, ctl, events), ResetTimeout
  PROVE  host' \in HostType /\ Good(host', ctl, events)
<1> DEFINE s == [host EXCEPT !.timer = "none"]
           r == [s EXCEPT !.sub = "SEND_RESET", !.credit = 1]
<1>1. /\ host.timer = "resend"
      /\ host' \in IF s.sub = "W4_RESET" THEN Run(r) ELSE {s}
  BY DEF ResetTimeout
<1>2. host.state = "INITIALIZING" /\ Early(host, ctl, events)
      /\ host.sub \in {"SEND_RESET", "W4_RESET"}
  <2>1. host.state = "INITIALIZING"
    BY <1>1 DEF Good, Working, Halting, HostType
  <2>2. Stage(host, ctl, events)
    BY <2>1 DEF Good
  <2> QED BY <1>1, <2>1, <2>2 DEF Stage, Early, BaudChange, Download, Delay, Reset2, Supported,
        BaudChange2, SetAddress, Configuring, Finishing, Single
<1>3. /\ s \in HostType /\ s.timer = "none" /\ s.sub = host.sub /\ s.tx = host.tx
      /\ s.state = host.state /\ s.baud = host.baud /\ s.script = host.script
      /\ s.result = host.result /\ s.gap = host.gap /\ s.last = host.last
  BY DEF HostType
<1>4. /\ r \in HostType /\ r.timer = "none" /\ r.sub = "SEND_RESET" /\ r.tx = host.tx
      /\ r.state = host.state /\ r.baud = host.baud /\ r.script = host.script
      /\ r.result = host.result /\ r.gap = host.gap /\ r.last = host.last
  <2>1. "SEND_RESET" \in Substates
    BY SubstateNames
  <2> DEFINE R(n) == [host EXCEPT !.timer = "none", !.sub = "SEND_RESET", !.credit = n]
  <2>2. \A n \in 0..1 : R(n) \in HostType
    BY <2>1 DEF HostType
  <2>3. r = R(1)
    BY DEF HostType
  <2>4. /\ R(1).timer = "none" /\ R(1).sub = "SEND_RESET" /\ R(1).tx = host.tx
        /\ R(1).state = host.state /\ R(1).baud = host.baud /\ R(1).script = host.script
        /\ R(1).result = host.result /\ R(1).gap = host.gap /\ R(1).last = host.last
    BY DEF HostType
  <2>5. R(1) \in HostType
    BY <2>2
  <2> QED BY <2>3, <2>4, <2>5
<1> HIDE DEF s, r
<1>5. /\ host.last = "reset" /\ (host.tx = NoCommand \/ host.tx = Command("reset"))
      /\ host.baud = "init" /\ host.script = 0 /\ Virgin(ctl)
      /\ QueueIn(ctl.cmdq, Len(ctl.cmdq), {"reset"})
      /\ QueueIn(events, Len(events), {"reset"})
      /\ \A i \in 1..Len(events) : events[i].baud = "init"
      /\ ~ctl.up => ctl.cmdq = <<>> /\ events = <<>>
  <2>1. UpTo(host.sub) = {"reset"}
    BY <1>2, UpToNames
  <2>2. host.tx = NoCommand \/ host.tx = Command("reset")
    <3>1. host.tx.op \in {"reset", "none"} /\ host.tx \in Commands \cup {NoCommand}
      BY <1>2, <2>1 DEF Early, HostType
    <3> QED BY <3>1 DEF Commands, Command, NoCommand
  <2> QED BY <1>2, <2>1, <2>2 DEF Early
<1>6. NoScript(host) /\ host.gap
  BY <1>2 DEF Good, GapAsked
<1>7. ASSUME NEW t \in HostType, t.state = "INITIALIZING", t.sub \in {"SEND_RESET", "W4_RESET"},
             t.last = "reset", t.tx = NoCommand \/ t.tx = Command("reset"),
             t.timer \in {"none", "resend"}, t.baud = "init", t.script = 0,
             t.result = host.result, t.gap
      PROVE  Good(t, ctl, events)
  <2>1. Early(t, ctl, events)
    BY <1>5, <1>7, AwaitReset
  <2>2. NoScript(t)
    BY <1>6, <1>7 DEF NoScript
  <2> QED BY <1>7, <2>1, <2>2, GoodStage DEF Stage
<1>8. CASE host' = s
  BY <1>2, <1>3, <1>5, <1>6, <1>7, <1>8
<1>9. CASE host' = r
  BY <1>2, <1>4, <1>5, <1>6, <1>7, <1>9
<1>10. CASE host' \in Run(r) /\ CanSend(r)
  <2>1. /\ host' \in HostType /\ host'.sub = "W4_RESET" /\ host'.tx = Command("reset")
        /\ host'.last = "reset" /\ host'.gap /\ host'.timer = "resend"
        /\ host'.state = r.state /\ host'.baud = r.baud /\ host'.script = r.script
        /\ host'.result = r.result
    BY <1>2, <1>4, <1>10, RunReset
  <2> QED BY <1>2, <1>4, <1>5, <1>7, <2>1
<1>11. host' \in Run(r) /\ ~CanSend(r) => host' = r
  BY RunWaits
<1> QED BY <1>1, <1>8, <1>9, <1>10, <1>11

(* DelayOver                                                               *)
LEMMA DelayOverGood ==
  ASSUME setup \in SetupType, host \in HostType, ctl \in CtlType,
         events \in Seq(EventType), Good(host, ctl, events), DelayOver
  PROVE  host' \in HostType /\ Good(host', ctl, events)
<1> DEFINE r == [host EXCEPT !.timer = "none", !.sub = "W4_BCM_RESET"]
<1>1. /\ host.timer = "delay" /\ ctl.up
      /\ host' = IF CanSend(r) THEN Send(r, Command("reset")) ELSE r
  BY DEF DelayOver
<1>2. /\ r \in HostType /\ r.timer = "none" /\ r.sub = "W4_BCM_RESET" /\ r.tx = host.tx
      /\ r.credit = host.credit /\ r.state = host.state /\ r.baud = host.baud
      /\ r.result = host.result /\ r.gap = host.gap
  <2>1. "W4_BCM_RESET" \in Substates
    BY SubstateNames
  <2> QED BY <2>1 DEF HostType
<1> HIDE DEF r
<1>3. host.state = "INITIALIZING"
  BY <1>1 DEF Good, Working, Halting, HostType
<1>4. Delay(host, ctl, events)
  <2>1. Stage(host, ctl, events)
    BY <1>3 DEF Good
  <2> QED BY <1>1, <2>1 DEF Stage, Early, BaudChange, Download, Reset2, Supported,
        BaudChange2, SetAddress, Configuring, Finishing, Single
<1>5. NoScript(host) /\ host.gap
  BY <1>3, <1>4 DEF Good, GapAsked, Delay
<1>6. /\ host.credit = 1 /\ host.baud = "init" /\ ctl.baud = "init" /\ Patched(host, ctl)
      /\ host.tx = NoCommand /\ ctl.cmdq = <<>> /\ events = <<>>
  BY <1>4 DEF Delay, Quiet
<1>7. CanSend(r) /\ Command("reset") \in Commands /\ Command("reset").op = "reset"
  BY <1>2, <1>6, CanSendMeans, CommandType
<1>8. /\ host' \in HostType /\ host'.tx = Command("reset") /\ host'.last = "reset"
      /\ host'.state = r.state /\ host'.sub = r.sub /\ host'.baud = r.baud
      /\ host'.result = r.result /\ host'.gap = r.gap /\ host'.timer = r.timer
  <2>1. host' = Send(r, Command("reset")) /\ r \in HostType /\ r.credit = 1
    BY <1>1, <1>2, <1>6, <1>7
  <2> QED BY <1>7, <2>1, SendFields
<1>9. Single(Command("reset"), "init", host', ctl, <<>>)
  BY <1>1, <1>2, <1>6, <1>7, <1>8, JustSent
<1>10. Reset2(host', ctl, <<>>)
  BY <1>2, <1>6, <1>8, <1>9 DEF Reset2, Patched
<1> QED BY <1>2, <1>3, <1>5, <1>6, <1>8, <1>10, GoodStage DEF Stage, NoScript

----------------------------------------------------------------------------
(* The invariant and what follows from it *)

(* What the application chose does not change.                             *)
LEMMA GoodNext ==
  ASSUME setup' = setup, Good(host', ctl', events')
  PROVE  Good(host, ctl, events)'
BY DEF Good, NoScript, GapAsked, Stage, Early, BaudChange, Download, Delay, Reset2, Supported,
  BaudChange2, SetAddress, Configuring, Finishing, Working, Halting, Patched, Loaded, Single

(* Before the first start nothing is under way.                            *)
LEMMA InitInv == Init => Inv
<1> SUFFICES ASSUME Init PROVE Inv
  OBVIOUS
<1>1. host \in HostType
  <2>1. "SEND_RESET" \in Substates /\ "reset" \in Opcodes
    BY SubstateNames, CommandType DEF Opcodes
  <2>2. /\ 1 \in 1..ConfigSteps + 1 /\ 0 \in 0..1 /\ 0 \in 0..MaxScript + 1
    BY SizeAssumption
  <2> QED BY <2>1, <2>2 DEF Init, InitialHost, HostType, Bauds
<1>2. ctl \in CtlType
  <2>1. <<>> \in Seq(Commands) /\ -1 \in -1..MaxScript
    BY SizeAssumption
  <2> QED BY <2>1 DEF Init, FreshCtl, CtlType, Bauds
<1>3. events \in Seq(EventType) /\ calls \in 0..MaxCalls /\ setup \in SetupType
  BY SizeAssumption DEF Init
<1>4. Good(host, ctl, events)
  BY DEF Init, InitialHost, Good, NoScript, GapAsked
<1> QED BY <1>1, <1>2, <1>3, <1>4 DEF Inv, TypeOK

(* Every step of the bring-up keeps it.                                    *)
LEMMA NextInv == ~WarmStart /\ Inv /\ [Next]_vars => Inv'
<1> SUFFICES ASSUME ~WarmStart, Inv, [Next]_vars PROVE Inv'
  OBVIOUS
<1>1. /\ setup \in SetupType /\ host \in HostType /\ ctl \in CtlType
      /\ events \in Seq(EventType) /\ calls \in 0..MaxCalls /\ Good(host, ctl, events)
  BY DEF Inv, TypeOK
<1>2. setup' = setup
  BY DEF Next, vars, PowerOn, PowerOff, ResetTimeout, DelayOver, HaltingTimeout, PacketSent,
    Boots, Execute, Deliver
<1>3. calls' \in 0..MaxCalls
  BY <1>1, SizeAssumption DEF Next, vars, PowerOn, PowerOff, ResetTimeout, DelayOver,
    HaltingTimeout, PacketSent, Boots, Execute, Deliver
<1> DEFINE Kept == /\ host' \in HostType /\ ctl' \in CtlType /\ events' \in Seq(EventType)
                   /\ Good(host', ctl', events')
<1>4. ASSUME PowerOn PROVE Kept
  <2>1. ctl' = ctl /\ events' = events
    BY <1>4 DEF PowerOn
  <2>2. host' \in HostType /\ Good(host', ctl, events)
    BY <1>1, <1>4, PowerOnGood
  <2> QED BY <1>1, <2>1, <2>2
<1>5. ASSUME PowerOff PROVE Kept
  BY <1>1, <1>5, PowerOffGood
<1>6. ASSUME ResetTimeout PROVE Kept
  <2>1. ctl' = ctl /\ events' = events
    BY <1>6 DEF ResetTimeout
  <2>2. host' \in HostType /\ Good(host', ctl, events)
    BY <1>1, <1>6, ResetTimeoutGood
  <2> QED BY <1>1, <2>1, <2>2
<1>7. ASSUME DelayOver PROVE Kept
  <2>1. ctl' = ctl /\ events' = events
    BY <1>7 DEF DelayOver
  <2>2. host' \in HostType /\ Good(host', ctl, events)
    BY <1>1, <1>7, DelayOverGood
  <2> QED BY <1>1, <2>1, <2>2
<1>8. ASSUME HaltingTimeout PROVE Kept
  <2>1. host' = Off(host) /\ ctl' = FreshCtl /\ events' = <<>>
    BY <1>8 DEF HaltingTimeout
  <2>2. NoScript(host)
    BY <1>1 DEF Good
  <2>3. Off(host) \in HostType /\ FreshCtl \in CtlType /\ Good(Off(host), FreshCtl, <<>>)
    BY <1>1, <2>2, OffGood
  <2>4. <<>> \in Seq(EventType)
    OBVIOUS
  <2> QED BY <2>1, <2>3, <2>4
<1>9. ASSUME PacketSent PROVE Kept
  <2>1. events' = events
    BY <1>9 DEF PacketSent
  <2>2. host' \in HostType /\ ctl' \in CtlType /\ Good(host', ctl', events)
    BY <1>1, <1>9, PacketSentGood
  <2> QED BY <1>1, <2>1, <2>2
<1>10. ASSUME Boots PROVE Kept
  <2>1. host' = host /\ events' = events
    BY <1>10 DEF Boots
  <2>2. ctl' \in CtlType /\ Good(host, ctl', events)
    BY <1>1, <1>10, BootsGood
  <2> QED BY <1>1, <2>1, <2>2
<1>11. ASSUME Execute PROVE Kept
  <2>1. host' = host
    BY <1>11 DEF Execute
  <2>2. ctl' \in CtlType /\ events' \in Seq(EventType) /\ Good(host, ctl', events')
    BY <1>1, <1>11, ExecuteGood
  <2> QED BY <1>1, <2>1, <2>2
<1>12. ASSUME Deliver PROVE Kept
  <2>1. ctl' = ctl
    BY <1>12 DEF Deliver
  <2>2. host' \in HostType /\ events' \in Seq(EventType) /\ Good(host', ctl, events')
    BY <1>1, <1>12, DeliverGood
  <2> QED BY <1>1, <2>1, <2>2
<1>13. ASSUME UNCHANGED vars PROVE Kept
  BY <1>1, <1>13 DEF vars
<1>14. Kept
  BY <1>4, <1>5, <1>6, <1>7, <1>8, <1>9, <1>10, <1>11, <1>12, <1>13 DEF Next
<1>15. Good(host, ctl, events)'
  BY <1>2, <1>14, GoodNext
<1> QED BY <1>1, <1>2, <1>3, <1>14, <1>15 DEF Inv, TypeOK

(* The invariant holds of every bring-up without a warm start.             *)
LEMMA InvHolds == ~WarmStart /\ Spec => []Inv
<1>1. Init => Inv
  BY InitInv
<1>2. ~WarmStart /\ Inv /\ [Next]_vars => Inv'
  BY NextInv
<1>3. ASSUME ~WarmStart PROVE Spec => []Inv
  BY <1>1, <1>2, <1>3, PTL DEF Spec
<1> QED BY <1>3

(* Every field keeps its type.                                             *)
THEOREM TypeCorrect == ~WarmStart /\ Spec => []TypeOK
<1>1. Inv => TypeOK
  BY DEF Inv
<1> QED BY <1>1, InvHolds, PTL

(* hci_uart_set_baudrate: no byte is ever written or read at another rate  *)
(* than the controller uses, whatever the script, the timeouts and the     *)
(* late answers.                                                           *)
THEOREM BaudAgreed == ~WarmStart /\ Spec => []SameBaud
<1>1. Inv => SameBaud
  BY SameRate DEF Inv, TypeOK, SameBaud
<1> QED BY <1>1, InvHolds, PTL

(* HCI_STATE_WORKING is reached with the script loaded once and in order,  *)
(* the address set and both ends at baudrate_main.                         *)
THEOREM ReadyWhenWorking == ~WarmStart /\ Spec => []WorkingIsReady
<1>1. Inv => WorkingIsReady
  BY DEF Inv, Good, Working, Loaded, WorkingIsReady
<1> QED BY <1>1, InvHolds, PTL
=============================================================================

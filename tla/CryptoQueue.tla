---------------------------- MODULE CryptoQueue ----------------------------
(***************************************************************************)
(* The queue of cryptographic operations (btstack_crypto.c): requests are  *)
(* served in turn, random numbers come from the controller, everything     *)
(* else is calculated at once.  The result is reported by a callback, from *)
(* which a client may make its next request: the functions call each       *)
(* other, and stack holds the calls that are under way.                    *)
(*                                                                         *)
(* A random number is 8 bytes long.  Of a message only its length matters; *)
(* x, s, tagged and plain in a CCM request are not part of the program and *)
(* say how many bytes have been authenticated and ciphered, whether the    *)
(* tag is there, and whether it is plaintext that has been authenticated.  *)
(***************************************************************************)
EXTENDS Integers, Sequences, SequencesExt, FiniteSetsExt

CONSTANTS
  Requests,    \* the request structures of the clients
  Sizes,       \* the sizes of a random request, in random numbers
  KeyRandom,   \* random numbers for a key pair: 8
  Block,       \* bytes of a cipher block: 16
  Messages,    \* lengths of a message
  Additional,  \* lengths of its additional data
  MaxCalls,    \* depth to which callbacks make requests
  Operates(_)  \* the operations a request is used for

VARIABLES
  hci,        \* state of the stack: "off", "starting", "working", "halting"
  slot,       \* what keeps hci from taking a command
  late,       \* a random number is on its way that was asked for in an earlier session
  operations, \* btstack_crypto_operations
  request,    \* the request structures
  wait,       \* btstack_crypto_wait_for_hci_result
  key,        \* btstack_crypto_ecc_p256_key_generation_state
  random,     \* btstack_crypto_ecc_p256_random_len
  stack

vars == <<hci, slot, late, operations, request, wait, key, random, stack>>

Ciphers == {"encrypt", "decrypt"}
Ccm == Ciphers \cup {"digest"}
Operations == Ccm \cup {"random", "calculate", "generate"}
CcmStates == {"x1", "aad", "sn", "xn", "s0", "waiting"}

(* What the command slot of hci is taken by: nothing, a command of someone *)
(* else, or a request for a random number by a client.                     *)
Free == "free"
Other == "other"

ASSUME CryptoAssumption ==
  /\ Free \notin Requests /\ Other \notin Requests
  /\ KeyRandom \in Nat \ {0} /\ Block \in Nat \ {0, 1, 2} /\ MaxCalls \in Nat
  /\ Sizes \subseteq Nat \ {0} /\ Messages \subseteq Nat \ {0} /\ Additional \subseteq Nat
  /\ \A r \in Requests : Operates(r) \subseteq Operations

Least(a, b) == IF a < b THEN a ELSE b
Queued(r) == r \in ToSet(operations)
Now == Head(operations)

----------------------------------------------------------------------------
(* AES-CCM on a request q: every step returns the request after it, and    *)
(* whether btstack_crypto_done is called.                                  *)

Step(q, done) == [request |-> q, done |-> done]

(* btstack_crypto_ccm_next_block                                           *)
NextBlock(q, then) ==
  LET n == Least(q.block, Block)
  IN Step([q EXCEPT !.block = @ - n, !.message = @ - n,
                    !.state = IF q.message = n THEN "s0" ELSE then],
          q.message # n /\ q.block = n)

(* btstack_crypto_ccm_calc_s0, btstack_crypto_ccm_handle_s0                *)
CalcS0(q) == Step([q EXCEPT !.state = "waiting", !.tagged = TRUE], TRUE)

(* btstack_crypto_ccm_calc_sn, btstack_crypto_ccm_handle_sn                *)
CalcSn(q) ==
  LET ciphered == [q EXCEPT !.s = @ + Least(q.block, Block)]
  IN IF q.operation = "encrypt"
     THEN NextBlock(ciphered, "xn")
     ELSE Step([ciphered EXCEPT !.state = "xn"], FALSE)

(* btstack_crypto_ccm_calc_x1, btstack_crypto_ccm_handle_x1                *)
CalcX1(q) ==
  CASE q.operation = "digest" -> Step([q EXCEPT !.state = "aad", !.remainder = 0], FALSE)
    [] q.operation = "decrypt" -> Step([q EXCEPT !.state = "sn"], FALSE)
    [] q.operation = "encrypt" -> Step([q EXCEPT !.state = "xn"], FALSE)

(* btstack_crypto_ccm_calc_xn, btstack_crypto_ccm_handle_xn: the block is  *)
(* read from the input to encrypt and from the output to decrypt, which    *)
(* may be the same memory                                                  *)
CalcXn(q) ==
  LET n == Least(q.block, Block)
      authenticated ==
        [q EXCEPT !.x = @ + n, !.plain = @ /\ q.s = q.x + (IF q.operation = "encrypt" THEN 0 ELSE n)]
  IN IF q.operation = "encrypt"
     THEN Step([authenticated EXCEPT !.state = "sn"], FALSE)
     ELSE NextBlock(authenticated, "sn")

(* btstack_crypto_ccm_calc_aad_xn, btstack_crypto_ccm_handle_aad_xn: the   *)
(* length of the additional data, in two bytes, goes before them           *)
CalcAad(q) ==
  LET length == IF q.offset = 0 THEN 2 ELSE 0
      n == Least(Block - q.remainder - length, q.block)
      filled == [q EXCEPT !.offset = @ + length + n, !.block = @ - n,
                          !.remainder = @ + length + n]
      last == filled.offset = q.aad + 2
  IN IF ~last /\ filled.remainder < Block
     THEN Step(filled, TRUE)
     ELSE Step([filled EXCEPT !.remainder = 0, !.state = IF last THEN "waiting" ELSE "aad"], last)

CcmStep(q) ==
  CASE q.state = "aad" -> CalcAad(q)
    [] q.state = "x1" -> CalcX1(q)
    [] q.state = "s0" -> CalcS0(q)
    [] q.state = "sn" -> CalcSn(q)
    [] q.state = "xn" -> CalcXn(q)
    [] OTHER -> Step(q, FALSE)

----------------------------------------------------------------------------
(* btstack_crypto_run *)

Top == Last(stack)
CanCall == stack # <<>> => Top = "call"

(* The client is called when its request has left the list.                *)
CallBack(calls) == operations' = Tail(operations) /\ stack' = Append(calls, "call")

AskController ==
  /\ wait' = TRUE /\ slot' = Now
  /\ UNCHANGED <<hci, late, operations, request, stack>>

(* The test of hci_can_send_command_packet_now is done for every operation *)
Ready ==
  hci = "working" /\ operations # <<>> /\ ~wait /\ slot = Free

Running(o) == stack # <<>> /\ Top = "run" /\ Ready /\ request[Now].operation \in o

RunRandom == Running({"random"}) /\ AskController /\ UNCHANGED <<key, random>>

(* BTSTACK_CRYPTO_AES128, BTSTACK_CRYPTO_CMAC_MESSAGE and _GENERATOR,      *)
(* BTSTACK_CRYPTO_ECC_P256_CALCULATE_DHKEY                                 *)
RunCalculate ==
  /\ Running({"calculate"}) /\ CallBack(stack)
  /\ UNCHANGED <<hci, slot, late, request, wait, key, random>>

RunCcm ==
  /\ Running(Ccm)
  /\ LET step == CcmStep(request[Now])
     IN /\ request' = [request EXCEPT ![Now] = step.request]
        /\ IF step.done THEN CallBack(stack) ELSE UNCHANGED <<operations, stack>>
  /\ UNCHANGED <<hci, slot, late, wait, key, random>>

StartKey ==
  Running({"generate"}) /\ key = "idle" /\ key' = "random" /\ random' = 0 /\ AskController
ContinueKey ==
  Running({"generate"}) /\ key = "random" /\ AskController /\ UNCHANGED <<key, random>>
DeliverKey ==
  /\ Running({"generate"}) /\ key = "done" /\ CallBack(stack)
  /\ UNCHANGED <<hci, slot, late, request, wait, key, random>>

RunReturns ==
  /\ stack # <<>> /\ Top = "run" /\ ~Ready
  /\ stack' = Front(stack)
  /\ UNCHANGED <<hci, slot, late, operations, request, wait, key, random>>

CallbackReturns ==
  /\ stack # <<>> /\ Top \in {"call", "called"}
  /\ stack' = Front(stack)
  /\ UNCHANGED <<hci, slot, late, operations, request, wait, key, random>>

Run ==
  \/ RunRandom \/ RunCalculate \/ RunCcm \/ StartKey \/ ContinueKey \/ DeliverKey
  \/ RunReturns \/ CallbackReturns

----------------------------------------------------------------------------
(* Requests *)

(* A callback makes one request; what it calls returns to it.             *)
Enter ==
  IF stack = <<>> THEN <<"run">> ELSE Append(Front(stack), "called") \o <<"run">>

(* A request that is in the list is not made again.                        *)
Submit(r, q) ==
  /\ CanCall /\ ~Queued(r) /\ Len(SelectSeq(stack, LAMBDA f : f # "run")) <= MaxCalls
  /\ request' = [request EXCEPT ![r] = q]
  /\ operations' = Append(operations, r)
  /\ stack' = Enter
  /\ UNCHANGED <<hci, slot, late, wait, random>>

(* btstack_crypto_random_generate                                          *)
RandomGenerate(r, n) ==
  /\ "random" \in Operates(r)
  /\ Submit(r, [request[r] EXCEPT !.operation = "random", !.size = n]) /\ UNCHANGED key

(* btstack_crypto_aes128_encrypt, btstack_crypto_aes128_cmac_message,      *)
(* _generator and _zero, btstack_crypto_ecc_p256_calculate_dhkey           *)
Calculate(r) ==
  /\ "calculate" \in Operates(r)
  /\ Submit(r, [request[r] EXCEPT !.operation = "calculate"]) /\ UNCHANGED key

(* btstack_crypto_ecc_p256_generate_key                                    *)
GenerateKey(r) ==
  /\ "generate" \in Operates(r)
  /\ Submit(r, [request[r] EXCEPT !.operation = "generate"])
  /\ key' = IF key = "done" THEN "idle" ELSE key

(* btstack_crypto_ccm_init                                                 *)
CcmInit(r, message, aad) ==
  /\ CanCall /\ ~Queued(r) /\ Operates(r) \cap Ccm # {}
  /\ request' =
       [request EXCEPT ![r] =
          [@ EXCEPT !.state = "x1", !.message = message, !.aad = aad, !.offset = 0,
                    !.x = 0, !.s = 0, !.tagged = FALSE, !.plain = TRUE]]
  /\ UNCHANGED <<hci, slot, late, operations, wait, key, random, stack>>

(* btstack_crypto_ccm_digest: the additional data come before the message  *)
CcmDigest(r, n) ==
  /\ "digest" \in Operates(r) /\ request[r].x = 0 /\ request[r].s = 0
  /\ n <= request[r].aad - (IF request[r].offset = 0 THEN 0 ELSE request[r].offset - 2)
  /\ Submit(r, [request[r] EXCEPT !.operation = "digest", !.block = n]) /\ UNCHANGED key

(* btstack_crypto_ccm_encrypt_block, btstack_crypto_ccm_decrypt_block:     *)
(* whole blocks, or the rest of the message; a message is encrypted or     *)
(* decrypted                                                               *)
\* Fault: authenticates what it decrypts before it is decrypted.
FirstState_Xn(o) == "xn"
FirstState(o) == IF o = "encrypt" THEN "xn" ELSE "sn"
CcmBlock(r, o, n) ==
  LET q == request[r]
  IN /\ o \in Operates(r) \cap Ciphers /\ (q.aad > 0 => q.offset = q.aad + 2)
     /\ n = q.message \/ (n < q.message /\ n % Block = 0)
     /\ q.s > 0 => q.operation = o
     /\ Submit(r, [q EXCEPT !.operation = o, !.block = n,
                            !.state = IF @ = "x1" THEN "x1" ELSE FirstState(o)])
     /\ UNCHANGED key

----------------------------------------------------------------------------
(* Events of hci: btstack_crypto_event_handler *)

(* Other handlers of the same event may send a command first.              *)
Release == slot' \in {Free, Other}

(* btstack_crypto_handle_random_data, for the first operation              *)
UseRandom ==
  LET q == request[Now]
  IN CASE q.operation = "random" ->
            /\ request' = [request EXCEPT ![Now].size = @ - 1]
            /\ IF q.size = 1 THEN CallBack(<<"run">>) ELSE stack' = <<"run">> /\ UNCHANGED operations
            /\ UNCHANGED <<key, random>>
       [] q.operation = "generate" ->
            /\ random' = random + 1
            /\ key' = IF random' = KeyRandom THEN "done" ELSE key
            /\ stack' = <<"run">> /\ UNCHANGED <<operations, request>>
       [] OTHER -> stack' = <<"run">> /\ UNCHANGED <<operations, request, key, random>>

(* HCI_OPCODE_HCI_LE_RAND                                                  *)
\* Fault: takes a random number without having asked for one.
TakeRandom_Always ==
  /\ wait' = FALSE
  /\ IF operations = <<>> THEN UNCHANGED <<operations, request, key, random, stack>> ELSE UseRandom
TakeRandom ==
  IF ~wait \/ operations = <<>>
  THEN wait' = FALSE /\ UNCHANGED <<operations, request, key, random, stack>>
  ELSE wait' = FALSE /\ UseRandom

RandomArrives ==
  /\ stack = <<>> /\ slot \in Requests
  /\ Release /\ TakeRandom /\ UNCHANGED <<hci, late>>

LateRandomArrives ==
  /\ stack = <<>> /\ late
  /\ late' = FALSE /\ TakeRandom /\ UNCHANGED <<hci, slot>>

(* Other commands, and ACL packets in the packet buffer.                   *)
OtherSends ==
  /\ CanCall /\ slot = Free /\ hci \in {"working", "halting"}
  /\ slot' = Other
  /\ UNCHANGED <<hci, late, operations, request, wait, key, random, stack>>

OtherDone ==
  /\ stack = <<>> /\ slot = Other
  /\ Release /\ stack' = <<"run">>
  /\ UNCHANGED <<hci, late, operations, request, wait, key, random>>

(* btstack_crypto_state_reset                                              *)
\* Fault: still waits for the answer to what has been dropped.
Reset_Waits == operations' = <<>> /\ key' = "idle" /\ UNCHANGED wait
Reset == operations' = <<>> /\ key' = "idle" /\ wait' = FALSE

(* HCI_STATE_HALTING, which a callback may bring about                     *)
Halt ==
  /\ CanCall /\ hci \in {"working", "starting"}
  /\ hci' = "halting" /\ Reset
  /\ stack' = IF stack = <<>> THEN <<>> ELSE Append(Front(stack), "called")
  /\ UNCHANGED <<slot, late, request, random>>

(* The transport is closed; or the stack is started, out of halting, too.  *)
Close ==
  /\ stack = <<>> /\ hci = "halting"
  /\ hci' = "off" /\ slot' = Free /\ late' = FALSE
  /\ UNCHANGED <<operations, request, wait, key, random, stack>>

PowerOn ==
  /\ stack = <<>> /\ hci \in {"off", "halting"}
  /\ hci' = "starting" /\ slot' = Free /\ late' = (late \/ slot \in Requests)
  /\ UNCHANGED <<operations, request, wait, key, random, stack>>

(* The controller has answered the commands of the start, and before them  *)
(* what it was asked earlier.                                              *)
Started ==
  /\ stack = <<>> /\ hci = "starting" /\ ~late
  /\ hci' = "working" /\ Release /\ stack' = <<"run">>
  /\ UNCHANGED <<late, operations, request, wait, key, random>>

Unused ==
  [operation |-> "calculate", size |-> 0, state |-> "waiting", block |-> 0, message |-> 0,
   aad |-> 0, offset |-> 0, remainder |-> 0, x |-> 0, s |-> 0, tagged |-> FALSE, plain |-> TRUE]

Init ==
  /\ hci = "off" /\ slot = Free /\ late = FALSE /\ operations = <<>> /\ wait = FALSE
  /\ request = [r \in Requests |-> Unused] /\ key = "idle" /\ random = 0 /\ stack = <<>>

Client(r) ==
  \/ \E n \in Sizes : RandomGenerate(r, n)
  \/ Calculate(r) \/ GenerateKey(r)
  \/ \E m \in Messages, a \in Additional : CcmInit(r, m, a)
  \/ \E n \in 1..request[r].aad : CcmDigest(r, n)
  \/ \E o \in Ciphers : \E n \in 1..request[r].message : CcmBlock(r, o, n)

Next ==
  \/ Run \/ RandomArrives \/ LateRandomArrives \/ OtherSends \/ OtherDone
  \/ Halt \/ Close \/ PowerOn \/ Started
  \/ \E r \in Requests : Client(r)

Spec == Init /\ [][Next]_vars

(* Handlers return, the controller answers, and others do not always win   *)
(* the race for the command slot.                                          *)
FairSpec ==
  /\ Spec /\ WF_vars(Run) /\ WF_vars(RandomArrives) /\ SF_vars(OtherDone /\ slot' = Free)

----------------------------------------------------------------------------
(* Properties *)

TypeOK ==
  /\ hci \in {"off", "starting", "working", "halting"} /\ slot \in {Free, Other} \cup Requests
  /\ late \in BOOLEAN /\ operations \in Seq(Requests) /\ wait \in BOOLEAN
  /\ \A r \in Requests : request[r].operation \in Operations /\ request[r].state \in CcmStates
  /\ key \in {"idle", "random", "done"} /\ random \in 0..KeyRandom
  /\ stack \in Seq({"run", "call", "called"})

(* A random number is used for the operation it has been asked for, in the *)
(* session in which it has been asked for, and those for a key fit into    *)
(* their buffer (btstack_assert in btstack_crypto_handle_random_data).     *)
Uses(r) == Queued(r) /\ request'[r].size < request[r].size
OwnRandom ==
  [][/\ \A r \in Requests : Uses(r) => slot = r
     /\ random' > random => slot = Now /\ random' <= KeyRandom]_vars

(* When a CCM operation is reported, all that was passed in is processed:  *)
(* the additional data are authenticated once they are complete, as many   *)
(* bytes are ciphered as authenticated, it is the plaintext that is        *)
(* authenticated, and the tag is there after the last one.                 *)
Finished(q) ==
  /\ q.block = 0
  /\ q.operation = "digest" /\ q.offset = q.aad + 2 => q.remainder = 0
  /\ q.operation \in Ciphers => q.x = q.s /\ q.plain /\ (q.message = 0 <=> q.tagged)
Reported ==
  operations # <<>> /\ operations' = Tail(operations) /\ stack' # <<>> /\ Last(stack') = "call"
Ciphered == [][Reported /\ request[Now].operation \in Ccm => Finished(request'[Now])]_vars

(* Every request is answered, or dropped when the stack is halted.         *)
Served == \A r \in Requests : []<>(~Queued(r) \/ hci # "working")
=============================================================================

------------------------- MODULE CryptoQueueProofs -------------------------
(***************************************************************************)
(* Proofs that a random number is used for the operation it has been asked *)
(* for (OwnRandom of CryptoQueue) and that a CCM operation is reported     *)
(* when all it was given is processed (Ciphered), for any number of        *)
(* clients and however their callbacks make further requests.              *)
(***************************************************************************)
EXTENDS CryptoQueue, SequenceTheorems, TLAPS

(* Of a request structure only its size and its operation matter here.     *)
Sized(q) == {"size", "operation"} \subseteq DOMAIN q /\ q.size \in Int

TypeInv ==
  /\ operations \in Seq(Requests) /\ random \in 0..KeyRandom
  /\ request = [r \in Requests |-> request[r]] /\ \A r \in Requests : Sized(request[r])

(* While an answer is waited for it is on its way, in a session that has   *)
(* not ended, for the first operation; if that is a key, random numbers    *)
(* are being collected for it.                                             *)
Asked ==
  wait => /\ hci = "working" /\ operations # <<>> /\ slot = Now
          /\ request[Now].operation = "generate" => key = "random"

Collects == key = "random" => random < KeyRandom

(* A late answer arrives before the next session.                          *)
Late == late => hci \in {"starting", "halting"}

Inv == TypeInv /\ Asked /\ Collects /\ Late

(* What OwnRandom says of a step.                                          *)
Own ==
  /\ \A r \in Requests : Uses(r) => slot = r
  /\ random' > random => slot = Now /\ random' <= KeyRandom

----------------------------------------------------------------------------
(* The first operation is queued.                                          *)
LEMMA FirstInQueue ==
  ASSUME TypeInv, operations # <<>>
  PROVE  /\ Now \in Requests /\ Queued(Now)
         /\ Tail(operations) \in Seq(Requests)
<1>1. Len(operations) \in Nat /\ Len(operations) # 0
  BY LenProperties, EmptySeq DEF TypeInv
<1>2. Now = operations[1] /\ 1 \in 1..Len(operations) /\ 1 \in DOMAIN operations
  BY <1>1, HeadTailProperties, LenProperties DEF Now, TypeInv
<1>3. Now \in Requests /\ Tail(operations) \in Seq(Requests)
  BY HeadTailProperties DEF Now, TypeInv
<1>4. Queued(Now)
  BY <1>2 DEF Queued, ToSet
<1> QED BY <1>3, <1>4

(* CCM leaves alone what random numbers are for.                           *)
Same(p, q) == DOMAIN p = DOMAIN q /\ p.size = q.size /\ p.operation = q.operation

(* CCM leaves what matters here alone.                                     *)
LEMMA CcmKeeps ==
  ASSUME NEW q, Sized(q), q.operation \in Ccm
  PROVE  Same(CcmStep(q).request, q)
<1> USE DEF Step, Sized, Same
<1>1. Same(CalcS0(q).request, q)
  BY DEF CalcS0
<1>2. Same(CalcSn(q).request, q)
  BY DEF CalcSn, NextBlock
<1>3. Same(CalcX1(q).request, q)
  BY DEF CalcX1, Ccm, Ciphers
<1>4. Same(CalcXn(q).request, q)
  BY DEF CalcXn, NextBlock
<1>5. Same(CalcAad(q).request, q)
  BY DEF CalcAad
<1> QED BY <1>1, <1>2, <1>3, <1>4, <1>5 DEF CcmStep

(* A structure is replaced by another one.                                 *)
LEMMA Replaced ==
  ASSUME TypeInv, NEW r \in Requests, NEW q, Sized(q), request' = [request EXCEPT ![r] = q]
  PROVE  /\ request' = [c \in Requests |-> request'[c]]
         /\ \A c \in Requests : Sized(request'[c])
         /\ \A c \in Requests : c # r => request'[c] = request[c]
         /\ request'[r] = q
BY DEF TypeInv

(* Nothing is used by a step that leaves the first request as it is.       *)
LEMMA NothingUsed ==
  ASSUME TypeInv, random' <= random, random' \in Int,
         \A c \in Requests : Queued(c) => request'[c].size = request[c].size
  PROVE  Own
<1>1. random \in Int /\ \A c \in Requests : request[c].size \in Int
  BY CryptoAssumption DEF TypeInv, Sized
<1> QED BY <1>1 DEF Own, Uses

(* Inv holds at first.                                                     *)
LEMMA InitInv == Init => Inv
BY CryptoAssumption DEF Init, Inv, TypeInv, Asked, Collects, Late, Unused, Sized

(* A structure that is not in the list is filled.                          *)
LEMMA FillStep ==
  ASSUME TypeInv, Asked, NEW r \in Requests, ~Queued(r), NEW q, Sized(q),
         request' = [request EXCEPT ![r] = q], random' = random
  PROVE  Own /\ (operations # <<>> => request'[Now] = request[Now])
<1>1. \A c \in Requests : Queued(c) => request'[c] = request[c]
  BY Replaced
<1>2. random \in Int
  BY CryptoAssumption DEF TypeInv
<1> QED BY <1>1, <1>2, NothingUsed, FirstInQueue

(* A request is made.                                                      *)
LEMMA SubmitStep ==
  ASSUME Inv, NEW r \in Requests, NEW q, Sized(q), Submit(r, q),
         key' = key \/ (key = "done" /\ key' = "idle")
  PROVE  Inv' /\ Own
<1>1. /\ TypeInv /\ Asked /\ Collects /\ Late
      /\ ~Queued(r) /\ request' = [request EXCEPT ![r] = q] /\ operations' = Append(operations, r)
      /\ UNCHANGED <<hci, slot, late, wait, random>>
  BY DEF Inv, Submit
<1>2. TypeInv'
  BY <1>1, Replaced, AppendProperties DEF TypeInv
<1>3. Own /\ (operations # <<>> => request'[Now] = request[Now])
  BY <1>1, FillStep
<1>4. Asked'
  <2> SUFFICES ASSUME wait PROVE operations' # <<>> /\ Now' = Now
    BY <1>1, <1>3 DEF Asked
  <2>1. operations # <<>>
    BY <1>1 DEF Asked
  <2>2. Len(operations) \in Nat /\ Len(operations) # 0
    BY <1>1, <2>1, LenProperties, EmptySeq DEF TypeInv
  <2>3. /\ operations' \in Seq(Requests) /\ Len(operations') = Len(operations) + 1
        /\ operations'[1] = operations[1]
    BY <1>1, <2>2, AppendProperties DEF TypeInv
  <2>4. operations' # <<>>
    BY <2>2, <2>3, EmptySeq
  <2> QED BY <1>1, <2>1, <2>3, <2>4, HeadTailProperties DEF Now, TypeInv
<1>5. Collects' /\ Late'
  BY <1>1 DEF Collects, Late
<1> QED BY <1>2, <1>3, <1>4, <1>5 DEF Inv

(* The controller answers a request.                                       *)
LEMMA TakeRandomStep ==
  ASSUME Inv, TakeRandom, hci' = hci, late' => late
  PROVE  Inv' /\ Own
<1>1. /\ TypeInv /\ Asked /\ Collects /\ Late /\ wait' = FALSE /\ random \in Int
      /\ KeyRandom \in Nat \ {0}
  BY CryptoAssumption DEF Inv, TakeRandom, TypeInv
<1>2. Asked' /\ Late'
  BY <1>1 DEF Asked, Late
<1>3. ASSUME UNCHANGED <<operations, request, key, random>> PROVE Inv' /\ Own
  BY <1>1, <1>2, <1>3, NothingUsed DEF Inv, TypeInv, Collects
<1>4. CASE ~wait \/ operations = <<>>
  BY <1>3, <1>4 DEF TakeRandom
<1>5. CASE wait /\ operations # <<>>
  <2>1. UseRandom /\ slot = Now /\ Now \in Requests /\ Tail(operations) \in Seq(Requests)
    BY <1>1, <1>5, FirstInQueue DEF TakeRandom, Asked
  <2>2. CASE request[Now].operation = "random"
    <3>1. /\ request' = [request EXCEPT ![Now].size = @ - 1]
          /\ operations' = operations \/ operations' = Tail(operations)
          /\ UNCHANGED <<key, random>>
      BY <2>1, <2>2 DEF UseRandom, CallBack
    <3>2. PICK q : q = [request[Now] EXCEPT !.size = @ - 1]
      OBVIOUS
    <3>3. Sized(q) /\ request' = [request EXCEPT ![Now] = q]
      BY <1>1, <2>1, <3>1, <3>2 DEF TypeInv, Sized
    <3>4. TypeInv' /\ Collects'
      BY <1>1, <2>1, <3>1, <3>3, Replaced DEF TypeInv, Collects
    <3>5. Own
      BY <1>1, <2>1, <3>1, <3>3, Replaced DEF Own, Uses, TypeInv, Sized
    <3> QED BY <1>2, <3>4, <3>5 DEF Inv
  <2>3. CASE request[Now].operation = "generate"
    <3>1. /\ random' = random + 1 /\ key' = IF random' = KeyRandom THEN "done" ELSE key
          /\ UNCHANGED <<operations, request>>
      BY <2>1, <2>3 DEF UseRandom
    <3>2. key = "random" /\ random < KeyRandom
      BY <1>1, <1>5, <2>3 DEF Asked, Collects
    <3>3. random' \in 0..KeyRandom /\ random' <= KeyRandom /\ Collects'
      BY <1>1, <3>1, <3>2 DEF TypeInv, Collects
    <3>4. TypeInv'
      BY <1>1, <3>1, <3>3 DEF TypeInv
    <3>5. Own
      BY <1>1, <2>1, <3>1, <3>3 DEF Own, Uses, TypeInv, Sized
    <3> QED BY <1>2, <3>3, <3>4, <3>5 DEF Inv
  <2>4. CASE request[Now].operation \notin {"random", "generate"}
    <3>1. UNCHANGED <<operations, request, key, random>>
      BY <2>1, <2>4 DEF UseRandom
    <3> QED BY <1>3, <3>1
  <2> QED BY <2>2, <2>3, <2>4
<1> QED BY <1>4, <1>5

(* A step of calls only.                                                   *)
LEMMA UnchangedStep ==
  ASSUME Inv, UNCHANGED <<hci, slot, late, operations, request, wait, key, random>>
  PROVE  Inv' /\ Own
<1>1. Own
  BY NothingUsed, CryptoAssumption DEF Inv, TypeInv
<1> QED BY <1>1 DEF Inv, TypeInv, Asked, Collects, Late, Now

(* A step after which nothing is waited for, and which uses nothing.       *)
LEMMA QuietStep ==
  ASSUME Inv, ~wait', operations' \in Seq(Requests), UNCHANGED <<request, random>>,
         key' = key \/ key' = "idle", Late'
  PROVE  Inv' /\ Own
BY NothingUsed, CryptoAssumption DEF Inv, TypeInv, Asked, Collects

(* btstack_crypto_run                                                      *)
LEMMA AskStep ==
  ASSUME Inv, AskController, NEW o, Running(o), random' = random \/ random' = 0,
         request[Now].operation = "generate" => key' = "random",
         key' = key \/ random' = 0
  PROVE  Inv' /\ Own
<1>1. /\ TypeInv /\ Asked /\ Collects /\ Late /\ random \in Int /\ random >= 0
      /\ KeyRandom \in Nat \ {0}
  BY CryptoAssumption DEF Inv, TypeInv
<1>2. /\ operations # <<>> /\ hci = "working" /\ UNCHANGED <<operations, request, hci, late>>
      /\ wait' = TRUE /\ slot' = Now
  BY DEF AskController, Running, Ready
<1>3. TypeInv' /\ Asked' /\ Collects' /\ Late'
  BY <1>1, <1>2 DEF TypeInv, Asked, Collects, Late, Now
<1>4. Own
  BY <1>1, <1>2, NothingUsed
<1> QED BY <1>3, <1>4 DEF Inv

(* A step of CCM asks the controller for nothing.                          *)
LEMMA CcmRunStep ==
  ASSUME Inv, RunCcm
  PROVE  Inv' /\ Own
<1>1. /\ TypeInv /\ Collects /\ Late /\ operations # <<>> /\ request[Now].operation \in Ccm
      /\ ~wait /\ UNCHANGED <<hci, late, wait, key, random>> /\ random \in Int
  BY CryptoAssumption DEF Inv, RunCcm, Running, Ready, TypeInv
<1>2. Now \in Requests /\ Tail(operations) \in Seq(Requests)
  BY <1>1, FirstInQueue
<1>3. PICK q : q = CcmStep(request[Now]).request
  OBVIOUS
<1>4. /\ request' = [request EXCEPT ![Now] = q]
      /\ operations' = operations \/ operations' = Tail(operations)
  BY <1>3 DEF RunCcm, CallBack
<1>5. Sized(request[Now]) /\ Same(q, request[Now])
  BY <1>1, <1>2, <1>3, CcmKeeps DEF TypeInv
<1>6. Sized(q) /\ q.size = request[Now].size
  BY <1>5 DEF Sized, Same
<1>7. TypeInv' /\ \A c \in Requests : request'[c].size = request[c].size
  BY <1>1, <1>2, <1>4, <1>6, Replaced DEF TypeInv
<1>8. Own
  BY <1>1, <1>7, NothingUsed
<1> QED BY <1>1, <1>7, <1>8 DEF Inv, Asked, Collects, Late

(* btstack_crypto_run asks once, and for the first operation.              *)
LEMMA RunStep ==
  ASSUME Inv, Run
  PROVE  Inv' /\ Own
<1>1. CASE RunRandom
  BY <1>1, AskStep DEF RunRandom, Running
<1>2. CASE StartKey \/ ContinueKey
  BY <1>2, AskStep DEF StartKey, ContinueKey
<1>3. CASE RunCcm
  BY <1>3, CcmRunStep
<1>4. CASE RunCalculate \/ DeliverKey
  <2>1. /\ operations # <<>> /\ ~wait /\ operations' = Tail(operations)
        /\ UNCHANGED <<hci, late, wait, request, key, random>>
    BY <1>4 DEF RunCalculate, DeliverKey, Running, Ready, CallBack
  <2>2. operations' \in Seq(Requests) /\ Late'
    BY <2>1, FirstInQueue DEF Inv, Late
  <2> QED BY <2>1, <2>2, QuietStep
<1>5. CASE RunReturns \/ CallbackReturns
  <2>1. UNCHANGED <<hci, slot, late, operations, request, wait, key, random>>
    BY <1>5 DEF RunReturns, CallbackReturns
  <2> QED BY <2>1, UnchangedStep
<1> QED BY <1>1, <1>2, <1>3, <1>4, <1>5 DEF Run

(* Requests                                                                *)
LEMMA ClientStep ==
  ASSUME Inv, NEW r \in Requests, Client(r)
  PROVE  Inv' /\ Own
<1>1. Sized(request[r])
  BY DEF Inv, TypeInv
<1>2. ASSUME NEW q, Submit(r, q), Sized(q), key' = key \/ (key = "done" /\ key' = "idle")
      PROVE  Inv' /\ Own
  BY <1>2, SubmitStep
<1>3. CASE \E n \in Sizes : RandomGenerate(r, n)
  <2>1. PICK n \in Sizes : RandomGenerate(r, n)
    BY <1>3
  <2>2. Sized([request[r] EXCEPT !.operation = "random", !.size = n])
    BY <1>1, CryptoAssumption DEF Sized
  <2> QED BY <1>2, <2>1, <2>2 DEF RandomGenerate
<1>4. CASE Calculate(r)
  <2>1. Sized([request[r] EXCEPT !.operation = "calculate"])
    BY <1>1 DEF Sized
  <2> QED BY <1>2, <1>4, <2>1 DEF Calculate
<1>5. CASE GenerateKey(r)
  <2>1. Sized([request[r] EXCEPT !.operation = "generate"])
    BY <1>1 DEF Sized
  <2> QED BY <1>2, <1>5, <2>1 DEF GenerateKey
<1>6. CASE \E m \in Messages, a \in Additional : CcmInit(r, m, a)
  <2>1. PICK m \in Messages, a \in Additional : CcmInit(r, m, a)
    BY <1>6
  <2>2. PICK q : q = [request[r] EXCEPT !.state = "x1", !.message = m, !.aad = a, !.offset = 0,
                                        !.x = 0, !.s = 0, !.tagged = FALSE, !.plain = TRUE]
    OBVIOUS
  <2>3. Sized(q)
    BY <1>1, <2>2 DEF Sized
  <2>4. /\ request' = [request EXCEPT ![r] = q] /\ ~Queued(r)
        /\ UNCHANGED <<hci, slot, late, operations, wait, key, random>>
    BY <2>1, <2>2 DEF CcmInit
  <2>5. Own /\ (operations # <<>> => request'[Now] = request[Now])
    BY <2>3, <2>4, FillStep DEF Inv
  <2>6. TypeInv'
    BY <2>3, <2>4, Replaced DEF Inv, TypeInv
  <2> QED BY <2>4, <2>5, <2>6 DEF Inv, Asked, Collects, Late, Now
<1>7. CASE \E n \in 1..request[r].aad : CcmDigest(r, n)
  <2>1. PICK n \in 1..request[r].aad : CcmDigest(r, n)
    BY <1>7
  <2>2. Sized([request[r] EXCEPT !.operation = "digest", !.block = n])
    BY <1>1 DEF Sized
  <2> QED BY <1>2, <2>1, <2>2 DEF CcmDigest
<1>8. CASE \E o \in Ciphers : \E n \in 1..request[r].message : CcmBlock(r, o, n)
  <2>1. PICK o \in Ciphers, n \in 1..request[r].message : CcmBlock(r, o, n)
    BY <1>8
  <2>2. \A t : Sized([request[r] EXCEPT !.operation = o, !.block = n, !.state = t])
    BY <1>1 DEF Sized
  <2>3. PICK t : t = IF request[r].state = "x1" THEN "x1" ELSE FirstState(o)
    OBVIOUS
  <2>4. Submit(r, [request[r] EXCEPT !.operation = o, !.block = n, !.state = t]) /\ UNCHANGED key
    BY <2>1, <2>3 DEF CcmBlock
  <2> QED BY <1>2, <2>2, <2>4
<1> QED BY <1>3, <1>4, <1>5, <1>6, <1>7, <1>8 DEF Client

(* Events                                                                  *)
LEMMA EventStep ==
  ASSUME Inv, OtherSends \/ OtherDone \/ Halt \/ Close \/ PowerOn \/ Started
  PROVE  Inv' /\ Own
<1>1. TypeInv /\ Asked /\ Collects /\ Late
  BY DEF Inv
<1>2. wait => /\ slot \in Requests /\ slot # Free /\ slot # Other
              /\ hci = "working"
  BY <1>1, FirstInQueue, CryptoAssumption DEF Asked
<1>3. operations \in Seq(Requests) /\ <<>> \in Seq(Requests)
  BY <1>1 DEF TypeInv
<1>4. CASE OtherSends \/ OtherDone
  BY <1>1, <1>2, <1>3, <1>4, QuietStep DEF OtherSends, OtherDone, Late
<1>5. CASE Halt
  BY <1>1, <1>3, <1>5, QuietStep DEF Halt, Reset, Late
<1>6. CASE Close \/ PowerOn \/ Started
  BY <1>1, <1>2, <1>3, <1>6, QuietStep DEF Close, PowerOn, Started, Late
<1> QED BY <1>4, <1>5, <1>6

(* Every step keeps Inv, and what is used is one's own.                    *)
LEMMA NextStep ==
  ASSUME Inv, [Next]_vars
  PROVE  Inv' /\ Own
<1>1. CASE Run
  BY <1>1, RunStep
<1>2. CASE RandomArrives \/ LateRandomArrives
  <2>1. TakeRandom /\ hci' = hci /\ (late' => late)
    BY <1>2 DEF RandomArrives, LateRandomArrives
  <2> QED BY <2>1, TakeRandomStep
<1>3. CASE OtherSends \/ OtherDone \/ Halt \/ Close \/ PowerOn \/ Started
  BY <1>3, EventStep
<1>4. CASE \E r \in Requests : Client(r)
  BY <1>4, ClientStep
<1>5. CASE UNCHANGED vars
  BY <1>5, UnchangedStep DEF vars
<1> QED BY <1>1, <1>2, <1>3, <1>4, <1>5 DEF Next

----------------------------------------------------------------------------
(* While an answer is waited for, it is on its way in this session and for *)
(* the first operation of the list.                                        *)
THEOREM AnswerIsAwaited == Spec => []Inv
<1>1. Init => Inv
  BY InitInv
<1>2. Inv /\ [Next]_vars => Inv'
  BY NextStep
<1> QED BY <1>1, <1>2, PTL DEF Spec

(* A random number is used for the operation it has been asked for, in the *)
(* session in which it has been asked for, and those for a key fit into    *)
(* their buffer.                                                           *)
THEOREM RandomIsOwn == Spec => OwnRandom
<1>1. Inv /\ [Next]_vars => [Own]_vars
  BY NextStep
<1>2. OwnRandom <=> [][Own]_vars
  BY DEF OwnRandom, Own
<1> QED BY <1>1, <1>2, AnswerIsAwaited, PTL DEF Spec

----------------------------------------------------------------------------
(* AES-CCM *)

RequestType ==
  [ operation : Operations, size : Int, state : CcmStates, block : Nat, message : Nat,
    aad : Nat, offset : Nat, remainder : Nat, x : Nat, s : Nat,
    tagged : BOOLEAN, plain : BOOLEAN ]

(* What holds of a request structure at any time: only plaintext has been  *)
(* authenticated, the tag comes after the last byte, and the message after *)
(* the additional data.                                                    *)
DataDone(q) == q.aad = 0 \/ q.offset = q.aad + 2
Shape(q) ==
  /\ q.plain /\ (q.tagged => q.message = 0)
  /\ q.remainder < Block
  /\ q.state = "x1" => q.offset = 0
  /\ q.state = "aad" /\ q.offset = 0 => q.remainder = 0
  /\ q.state \notin {"x1", "aad"} => DataDone(q)

(* As many bytes are ciphered as authenticated, except while a block is    *)
(* between the two.                                                        *)
Even(q) == q.x = q.s

(* The two steps on a block; the one that comes first is FirstState.       *)
Halfway(q) ==
  \/ q.operation = "encrypt" /\ q.state = "sn" /\ q.x = q.s + Least(q.block, Block)
  \/ q.operation = "decrypt" /\ q.state = "xn" /\ q.s = q.x + Least(q.block, Block)

(* A CCM request in the list can be served to its end.                     *)
DigestGoes(q) ==
  /\ q.state \in {"x1", "aad"}
  /\ q.block + q.offset + (IF q.offset = 0 THEN 2 ELSE 0) <= q.aad + 2
CipherGoes(q) ==
  /\ DataDone(q)
  /\ \/ q.state = "s0" /\ q.block = 0 /\ q.message = 0 /\ Even(q)
     \/ /\ q.block \in 1..q.message
        /\ (q.state \in {"x1", FirstState(q.operation)} /\ Even(q)) \/ Halfway(q)
Goes(q) ==
  /\ q.operation = "digest" => DigestGoes(q)
  /\ q.operation \in Ciphers => CipherGoes(q)

(* What a step of CCM makes of a request: one that goes on, or one that is *)
(* finished.                                                               *)
Advances(q, step) ==
  /\ step.request \in RequestType /\ Shape(step.request)
  /\ step.request.operation = q.operation
  /\ step.done \in BOOLEAN
  /\ step.done => Finished(step.request) /\ Even(step.request)
  /\ ~step.done => Goes(step.request) /\ (q.operation = "digest" => Even(step.request))

(* A step that fills a block with additional data.                         *)
LEMMA AadStep ==
  ASSUME NEW q \in RequestType, Shape(q), Even(q), q.operation = "digest", DigestGoes(q),
         q.state = "aad"
  PROVE  Advances(q, CalcAad(q))
<1>0. Block \in Nat /\ Block > 2
  BY CryptoAssumption
<1>1. PICK length : length = IF q.offset = 0 THEN 2 ELSE 0
  OBVIOUS
<1>2. PICK n : n = Least(Block - q.remainder - length, q.block)
  OBVIOUS
<1>3. length \in 0..2 /\ n \in Nat /\ n <= q.block /\ n + length + q.remainder <= Block
      /\ (n + length + q.remainder < Block => n = q.block)
      /\ (q.offset = 0 => length = 2)
  BY <1>0, <1>1, <1>2 DEF Least, RequestType, Shape
<1>4. PICK o \in Nat, b \in Nat, m \in Nat :
         o = q.offset + length + n /\ b = q.block - n /\ m = q.remainder + length + n
  BY <1>3 DEF RequestType
<1>5. PICK filled : filled = [q EXCEPT !.offset = o, !.block = b, !.remainder = m]
  OBVIOUS
<1>6. /\ filled \in RequestType /\ filled.offset = o /\ filled.block = b /\ filled.remainder = m
      /\ filled.operation = "digest" /\ filled.state = "aad" /\ filled.aad = q.aad
      /\ filled.x = q.x /\ filled.s = q.s /\ filled.plain = q.plain
      /\ filled.tagged = q.tagged /\ filled.message = q.message
  BY <1>4, <1>5 DEF RequestType
<1>7. o # 0 /\ b + o <= q.aad + 2 /\ (m < Block => b = 0) /\ q.aad \in Nat
  BY <1>1, <1>3, <1>4 DEF DigestGoes, RequestType
<1>8. PICK last \in BOOLEAN : last = (o = q.aad + 2)
  OBVIOUS
<1>9. CalcAad(q) =
        IF ~last /\ m < Block
        THEN Step(filled, TRUE)
        ELSE Step([filled EXCEPT !.remainder = 0, !.state = IF last THEN "waiting" ELSE "aad"], last)
  BY <1>1, <1>2, <1>4, <1>5, <1>6, <1>8, ZenonT(40) DEF CalcAad
<1>10. "digest" \notin Ciphers
  BY DEF Ciphers
<1>11. CASE ~last /\ m < Block
  <2>1. CalcAad(q).request = filled /\ CalcAad(q).done = TRUE
    BY <1>9, <1>11 DEF Step
  <2>2. Shape(filled) /\ Even(filled)
    BY <1>6, <1>7, <1>11 DEF Shape, Even
  <2>3. Finished(filled)
    BY <1>6, <1>7, <1>8, <1>10, <1>11 DEF Finished
  <2> QED BY <1>6, <2>1, <2>2, <2>3 DEF Advances
<1>12. CASE ~(~last /\ m < Block)
  <2>1. PICK st \in {"waiting", "aad"} : st = IF last THEN "waiting" ELSE "aad"
    OBVIOUS
  <2>2. PICK f : f = [filled EXCEPT !.remainder = 0, !.state = st]
    OBVIOUS
  <2>3. /\ f \in RequestType /\ f.offset = o /\ f.block = b /\ f.remainder = 0
        /\ f.operation = "digest" /\ f.state = st /\ f.aad = q.aad
        /\ f.x = q.x /\ f.s = q.s /\ f.plain = q.plain
        /\ f.tagged = q.tagged /\ f.message = q.message
    BY <1>6, <2>1, <2>2 DEF RequestType, CcmStates
  <2>4. CalcAad(q) = Step(f, last)
    <3>1. CalcAad(q) = Step([filled EXCEPT !.remainder = 0,
                                           !.state = IF last THEN "waiting" ELSE "aad"], last)
      BY <1>9, <1>12
    <3> QED BY <2>1, <2>2, <3>1, Zenon
  <2>5. CalcAad(q).request = f /\ CalcAad(q).done = last
    BY <2>4 DEF Step
  <2>6. Even(f)
    BY <2>3 DEF Even
  <2>7. CASE last
    <3>0. o = q.aad + 2 /\ st = "waiting"
      BY <1>8, <2>1, <2>7
    <3>1. b = 0 /\ st = "waiting" /\ o = q.aad + 2
      BY <1>4, <1>7, <3>0
    <3>2. Finished(f)
      BY <1>10, <2>3, <3>1 DEF Finished
    <3>3. Shape(f)
      BY <1>0, <2>3, <3>1 DEF Shape, DataDone
    <3> QED BY <2>3, <2>5, <2>6, <2>7, <3>2, <3>3 DEF Advances
  <2>8. CASE ~last
    <3>1. st = "aad"
      BY <2>1, <2>8
    <3>2. DigestGoes(f)
      BY <1>4, <1>7, <2>3, <3>1 DEF DigestGoes
    <3>3. Goes(f)
      BY <1>10, <2>3, <3>2 DEF Goes
    <3>4. Shape(f)
      BY <1>0, <1>7, <2>3, <3>1 DEF Shape, DataDone
    <3> QED BY <2>3, <2>5, <2>6, <2>8, <3>3, <3>4 DEF Advances
  <2> QED BY <2>7, <2>8
<1> QED BY <1>11, <1>12

(* btstack_crypto_ccm_next_block, which ends with the block or leaves more *)
(* of the message.                                                         *)
LEMMA NextBlockStep ==
  ASSUME NEW q \in RequestType, q.operation \in Ciphers, q.block \in 1..q.message, Shape(q),
         Even(q), DataDone(q), NEW then, then = FirstState(q.operation)
  PROVE  Advances(q, NextBlock(q, then))
<1>0. Block \in Nat /\ Block > 2 /\ q.message \in Nat /\ q.block \in Nat
  BY CryptoAssumption DEF RequestType
<1>1. PICK n : n = Least(q.block, Block)
  OBVIOUS
<1>2. n \in 1..q.block /\ n <= q.message
  BY <1>0, <1>1 DEF Least
<1>3. PICK b \in Nat, m \in Nat : b = q.block - n /\ m = q.message - n
  BY <1>0, <1>2
<1>4. PICK st : st = IF q.message = n THEN "s0" ELSE then
  OBVIOUS
<1>5. st \in CcmStates /\ st \notin {"x1", "aad"}
  BY <1>4 DEF CcmStates, FirstState
<1>6. PICK f : f = [q EXCEPT !.block = b, !.message = m, !.state = st]
  OBVIOUS
<1>7. /\ f \in RequestType /\ f.block = b /\ f.message = m /\ f.state = st
      /\ f.operation = q.operation /\ f.aad = q.aad /\ f.offset = q.offset
      /\ f.remainder = q.remainder /\ f.x = q.x /\ f.s = q.s
      /\ f.plain = q.plain /\ f.tagged = q.tagged
  BY <1>5, <1>6 DEF RequestType
<1>8. PICK d \in BOOLEAN : d <=> q.message # n /\ q.block = n
  OBVIOUS
<1>9. NextBlock(q, then) = Step(f, d)
  <2>1. f = [q EXCEPT !.block = @ - n, !.message = @ - n,
                      !.state = IF q.message = n THEN "s0" ELSE then]
    BY <1>3, <1>4, <1>6 DEF RequestType
  <2>2. d = (q.message # n /\ q.block = n)
    BY <1>8
  <2> QED BY <1>1, <2>1, <2>2, Zenon DEF NextBlock
<1>10. NextBlock(q, then).request = f /\ NextBlock(q, then).done = d
  BY <1>9 DEF Step
<1>11. Even(f) /\ DataDone(f)
  BY <1>7 DEF Even, DataDone
<1>12. Shape(f)
  <2>1. q.tagged => m = 0
    BY <1>0, <1>2, <1>3 DEF Shape
  <2> QED BY <1>5, <1>7, <1>11, <2>1 DEF Shape
<1>13. "digest" \notin Ciphers
  BY DEF Ciphers
<1>14. CASE d
  <2>1. b = 0 /\ m # 0
    BY <1>0, <1>2, <1>3, <1>8, <1>14
  <2>2. ~q.tagged
    BY <1>0, <1>2 DEF Shape
  <2>3. Finished(f)
    BY <1>7, <1>11, <1>12, <1>13, <2>1, <2>2 DEF Finished, Even, Shape
  <2> QED BY <1>7, <1>10, <1>11, <1>12, <1>14, <2>3 DEF Advances
<1>15. CASE ~d
  <2>1. CipherGoes(f)
    <3>1. CASE q.message = n
      <4>1. st = "s0" /\ b = 0 /\ m = 0
        BY <1>0, <1>2, <1>3, <1>4, <3>1
      <4> QED BY <1>7, <1>11, <4>1 DEF CipherGoes
    <3>2. CASE q.message # n
      <4>1. st = then
        BY <1>4, <3>2
      <4>2. b \in 1..m
        BY <1>0, <1>2, <1>3, <1>8, <1>15, <3>2
      <4> QED BY <1>7, <1>11, <4>1, <4>2 DEF CipherGoes
    <3> QED BY <3>1, <3>2
  <2>2. Goes(f)
    BY <1>7, <1>13, <2>1 DEF Goes
  <2> QED BY <1>7, <1>10, <1>12, <1>13, <1>15, <2>2 DEF Advances
<1> QED BY <1>14, <1>15

(* The first step on a block to encrypt authenticates it.                  *)
LEMMA EncryptFirst ==
  ASSUME NEW q \in RequestType, Shape(q), q.operation = "encrypt", CipherGoes(q), Even(q),
         q.state = "xn"
  PROVE  Advances(q, CalcXn(q))
<1>0. Block \in Nat /\ Block > 2 /\ q.block \in Nat /\ q.x \in Nat /\ DataDone(q)
      /\ q.block \in 1..q.message
  BY CryptoAssumption DEF RequestType, CipherGoes
<1>1. PICK n \in Nat : n = Least(q.block, Block)
  BY <1>0 DEF Least
<1>x. PICK k \in Nat : k = q.x + n
  BY <1>0, <1>1
<1>2. PICK f : f = [q EXCEPT !.x = k, !.state = "sn"]
  OBVIOUS
<1>3. /\ f \in RequestType /\ f.block = q.block /\ f.message = q.message /\ f.state = "sn"
      /\ f.operation = "encrypt" /\ f.aad = q.aad /\ f.offset = q.offset
      /\ f.remainder = q.remainder /\ f.x = k /\ f.s = q.s
      /\ f.plain = q.plain /\ f.tagged = q.tagged
  BY <1>0, <1>2 DEF RequestType, CcmStates
<1>4. CalcXn(q) = Step(f, FALSE)
  <2>1. q.plain \in BOOLEAN /\ q.plain /\ q.s = q.x + 0
    BY <1>0 DEF Shape, Even, RequestType
  <2>2. PICK g : g = [q EXCEPT !.x = @ + n, !.plain = @ /\ q.s = q.x + 0]
    OBVIOUS
  <2>3. g = [q EXCEPT !.x = k]
    BY <1>x, <2>1, <2>2 DEF RequestType
  <2>4. f = [g EXCEPT !.state = "sn"]
    BY <1>2, <2>3 DEF RequestType
  <2>5. CalcXn(q) = Step([g EXCEPT !.state = "sn"], FALSE)
    BY <1>1, <2>2 DEF CalcXn
  <2> QED BY <2>4, <2>5, Zenon
<1>5. CalcXn(q).request = f /\ CalcXn(q).done = FALSE
  BY <1>4 DEF Step
<1>6. Halfway(f)
  BY <1>1, <1>x, <1>3 DEF Halfway, Even
<1>7. DataDone(f) /\ Shape(f)
  BY <1>0, <1>3 DEF DataDone, Shape
<1>8. Goes(f) /\ "encrypt" # "digest"
  BY <1>0, <1>3, <1>6, <1>7 DEF Goes, CipherGoes
<1> QED BY <1>3, <1>5, <1>7, <1>8 DEF Advances

(* A block is ciphered: the second step to encrypt, the first to decrypt.  *)
LEMMA CipherStep ==
  ASSUME NEW q \in RequestType, Shape(q), q.operation \in Ciphers, CipherGoes(q),
         q.state = "sn"
  PROVE  Advances(q, CalcSn(q))
<1>0. /\ Block \in Nat /\ Block > 2 /\ q.block \in Nat /\ q.s \in Nat /\ DataDone(q)
      /\ q.block \in 1..q.message
      /\ q.operation = "encrypt" => Halfway(q)
      /\ q.operation = "decrypt" => Even(q)
  BY CryptoAssumption DEF RequestType, CipherGoes, Halfway, FirstState
<1>1. PICK n \in Nat : n = Least(q.block, Block)
  BY <1>0 DEF Least
<1>2. PICK k \in Nat : k = q.s + n
  BY <1>0, <1>1
<1>3. PICK f : f = [q EXCEPT !.s = k]
  OBVIOUS
<1>4. /\ f \in RequestType /\ f.block = q.block /\ f.message = q.message /\ f.state = "sn"
      /\ f.operation = q.operation /\ f.aad = q.aad /\ f.offset = q.offset
      /\ f.remainder = q.remainder /\ f.x = q.x /\ f.s = k
      /\ f.plain = q.plain /\ f.tagged = q.tagged
  BY <1>0, <1>2, <1>3 DEF RequestType
<1>5. DataDone(f) /\ Shape(f)
  BY <1>0, <1>4 DEF DataDone, Shape
<1>6. CASE q.operation = "encrypt"
  <2>1. CalcSn(q) = NextBlock(f, "xn")
    BY <1>1, <1>2, <1>3, <1>6 DEF CalcSn
  <2>2. Even(f)
    BY <1>0, <1>1, <1>2, <1>4, <1>6 DEF Halfway, Even
  <2> DEFINE then == "xn"
  <2>3. then = FirstState(f.operation)
    BY <1>4, <1>6 DEF FirstState
  <2> HIDE DEF then
  <2>4. Advances(f, NextBlock(f, then))
    BY <1>0, <1>4, <1>5, <2>2, <2>3, NextBlockStep
  <2> QED BY <1>4, <2>1, <2>4 DEF then, Advances
<1>7. CASE q.operation = "decrypt"
  <2>1. PICK g : g = [f EXCEPT !.state = "xn"]
    OBVIOUS
  <2>2. /\ g \in RequestType /\ g.block = q.block /\ g.message = q.message /\ g.state = "xn"
        /\ g.operation = "decrypt" /\ g.aad = q.aad /\ g.offset = q.offset
        /\ g.remainder = q.remainder /\ g.x = q.x /\ g.s = k
        /\ g.plain = q.plain /\ g.tagged = q.tagged
    BY <1>4, <1>7, <2>1 DEF RequestType, CcmStates
  <2>3. CalcSn(q) = Step(g, FALSE)
    <3>1. CalcSn(q) = Step([[q EXCEPT !.s = @ + Least(q.block, Block)] EXCEPT !.state = "xn"], FALSE)
      BY <1>7 DEF CalcSn
    <3>2. f = [q EXCEPT !.s = @ + Least(q.block, Block)]
      BY <1>1, <1>2, <1>3
    <3> QED BY <2>1, <3>1, <3>2, Zenon
  <2>4. CalcSn(q).request = g /\ CalcSn(q).done = FALSE
    BY <2>3 DEF Step
  <2>5. Halfway(g)
    BY <1>0, <1>1, <1>2, <1>7, <2>2 DEF Halfway, Even
  <2>6. DataDone(g) /\ Shape(g)
    BY <1>5, <2>2 DEF DataDone, Shape
  <2>7. Goes(g) /\ "decrypt" # "digest"
    BY <1>0, <2>2, <2>5, <2>6 DEF Goes, CipherGoes
  <2> QED BY <1>7, <2>2, <2>4, <2>6, <2>7 DEF Advances
<1> QED BY <1>6, <1>7 DEF Ciphers

(* The second step on a block to decrypt authenticates what has become of  *)
(* it.                                                                     *)
LEMMA DecryptSecond ==
  ASSUME NEW q \in RequestType, Shape(q), q.operation = "decrypt", CipherGoes(q),
         q.state = "xn"
  PROVE  Advances(q, CalcXn(q))
<1>0. /\ Block \in Nat /\ Block > 2 /\ q.block \in Nat /\ q.x \in Nat /\ DataDone(q)
      /\ q.block \in 1..q.message /\ Halfway(q)
  BY CryptoAssumption DEF RequestType, CipherGoes, FirstState
<1>1. PICK n \in Nat : n = Least(q.block, Block)
  BY <1>0 DEF Least
<1>2. PICK k \in Nat : k = q.x + n
  BY <1>0, <1>1
<1>3. PICK f : f = [q EXCEPT !.x = k]
  OBVIOUS
<1>4. /\ f \in RequestType /\ f.block = q.block /\ f.message = q.message /\ f.state = "xn"
      /\ f.operation = "decrypt" /\ f.aad = q.aad /\ f.offset = q.offset
      /\ f.remainder = q.remainder /\ f.x = k /\ f.s = q.s
      /\ f.plain = q.plain /\ f.tagged = q.tagged
  BY <1>0, <1>2, <1>3 DEF RequestType
<1>5. DataDone(f) /\ Shape(f) /\ Even(f)
  BY <1>0, <1>1, <1>2, <1>4 DEF DataDone, Shape, Even, Halfway
<1>6. CalcXn(q) = NextBlock(f, "sn")
  <2>1. q.plain \in BOOLEAN /\ q.plain /\ q.s = q.x + n
    BY <1>0, <1>1 DEF Shape, Halfway, RequestType
  <2>2. PICK g : g = [q EXCEPT !.x = @ + n, !.plain = @ /\ q.s = q.x + n]
    OBVIOUS
  <2>3. g = f
    BY <1>2, <1>3, <2>1, <2>2 DEF RequestType
  <2>4. CalcXn(q) = NextBlock(g, "sn")
    BY <1>1, <2>2 DEF CalcXn
  <2> QED BY <2>3, <2>4
<1> DEFINE then == "sn"
<1>7. then = FirstState(f.operation) /\ f.operation \in Ciphers
  BY <1>4 DEF FirstState, Ciphers
<1> HIDE DEF then
<1>8. Advances(f, NextBlock(f, then))
  BY <1>0, <1>4, <1>5, <1>7, NextBlockStep
<1> QED BY <1>4, <1>6, <1>8 DEF then, Advances

(* The first block of all has been authenticated.                          *)
LEMMA BeginStep ==
  ASSUME NEW q \in RequestType, Shape(q), q.operation \in Ccm, Goes(q), Even(q),
         q.state = "x1"
  PROVE  Advances(q, CalcX1(q))
<1>0. Block \in Nat /\ Block > 2 /\ q.offset = 0
  BY CryptoAssumption DEF Shape
<1>1. CASE q.operation = "digest"
  <2>1. PICK f : f = [q EXCEPT !.state = "aad", !.remainder = 0]
    OBVIOUS
  <2>2. CalcX1(q).request = f /\ CalcX1(q).done = FALSE
    BY <1>1, <2>1 DEF CalcX1, Step
  <2>3. /\ f \in RequestType /\ f.block = q.block /\ f.message = q.message /\ f.state = "aad"
        /\ f.operation = "digest" /\ f.aad = q.aad /\ f.offset = q.offset
        /\ f.remainder = 0 /\ f.x = q.x /\ f.s = q.s
        /\ f.plain = q.plain /\ f.tagged = q.tagged
    BY <1>1, <2>1 DEF RequestType, CcmStates
  <2>4. Shape(f) /\ Even(f)
    BY <1>0, <2>3 DEF Shape, Even
  <2>5. Goes(f)
    BY <1>1, <2>3 DEF Goes, DigestGoes, Ciphers
  <2> QED BY <1>1, <2>2, <2>3, <2>4, <2>5 DEF Advances
<1>2. CASE q.operation \in Ciphers
  <2>1. PICK st : st = FirstState(q.operation)
    OBVIOUS
  <2>2. PICK f : f = [q EXCEPT !.state = st]
    OBVIOUS
  <2>3. CalcX1(q).request = f /\ CalcX1(q).done = FALSE
    BY <1>2, <2>1, <2>2 DEF CalcX1, Step, Ciphers, FirstState
  <2>4. st \in CcmStates /\ st \notin {"x1", "aad"}
    BY <1>2, <2>1 DEF CcmStates, FirstState
  <2>5. /\ f \in RequestType /\ f.block = q.block /\ f.message = q.message /\ f.state = st
        /\ f.operation = q.operation /\ f.aad = q.aad /\ f.offset = q.offset
        /\ f.remainder = q.remainder /\ f.x = q.x /\ f.s = q.s
        /\ f.plain = q.plain /\ f.tagged = q.tagged
    BY <2>2, <2>4 DEF RequestType
  <2>6. CipherGoes(q) /\ DataDone(q) /\ q.block \in 1..q.message
    BY <1>2 DEF Goes, CipherGoes
  <2>7. Shape(f) /\ Even(f) /\ DataDone(f)
    BY <2>4, <2>5, <2>6 DEF Shape, Even, DataDone
  <2>8. CipherGoes(f)
    BY <2>1, <2>5, <2>6, <2>7 DEF CipherGoes
  <2>9. Goes(f) /\ q.operation # "digest"
    BY <1>2, <2>5, <2>8 DEF Goes, Ciphers
  <2> QED BY <2>3, <2>5, <2>7, <2>9 DEF Advances
<1> QED BY <1>1, <1>2 DEF Ccm

(* The tag is made.                                                        *)
LEMMA TagStep ==
  ASSUME NEW q \in RequestType, Shape(q), q.operation \in Ciphers, CipherGoes(q),
         q.state = "s0"
  PROVE  Advances(q, CalcS0(q))
<1>0. q.block = 0 /\ q.message = 0 /\ Even(q) /\ DataDone(q)
  BY DEF CipherGoes, Halfway, FirstState
<1>1. PICK f : f = [q EXCEPT !.state = "waiting", !.tagged = TRUE]
  OBVIOUS
<1>2. CalcS0(q).request = f /\ CalcS0(q).done = TRUE
  BY <1>1 DEF CalcS0, Step
<1>3. /\ f \in RequestType /\ f.block = q.block /\ f.message = q.message /\ f.state = "waiting"
      /\ f.operation = q.operation /\ f.aad = q.aad /\ f.offset = q.offset
      /\ f.remainder = q.remainder /\ f.x = q.x /\ f.s = q.s
      /\ f.plain = q.plain /\ f.tagged
  BY <1>1 DEF RequestType, CcmStates
<1>4. Shape(f) /\ Even(f)
  BY <1>0, <1>3 DEF Shape, Even, DataDone
<1>5. Finished(f)
  BY <1>0, <1>3, <1>4 DEF Finished, Even, Shape, Ciphers
<1> QED BY <1>2, <1>3, <1>4, <1>5 DEF Advances

(* btstack_crypto_run serves a CCM request step by step.                   *)
LEMMA CcmAdvances ==
  ASSUME NEW q \in RequestType, Shape(q), q.operation \in Ccm, Goes(q),
         Even(q) \/ q.operation \in Ciphers
  PROVE  Advances(q, CcmStep(q))
<1>1. CASE q.operation = "digest"
  <2>1. DigestGoes(q) /\ Even(q)
    BY <1>1 DEF Goes, Ciphers
  <2>2. q.state \in {"x1", "aad"}
    BY <2>1 DEF DigestGoes
  <2>3. CASE q.state = "x1"
    BY <2>1, <2>3, BeginStep DEF CcmStep
  <2>4. CASE q.state = "aad"
    BY <1>1, <2>1, <2>4, AadStep DEF CcmStep
  <2> QED BY <2>2, <2>3, <2>4
<1>2. CASE q.operation \in Ciphers
  <2>1. CipherGoes(q)
    BY <1>2 DEF Goes
  <2>2. CASE q.state = "x1"
    <3>1. Even(q)
      BY <2>1, <2>2 DEF CipherGoes, Halfway
    <3> QED BY <2>2, <3>1, BeginStep DEF CcmStep
  <2>3. CASE q.state = "sn"
    BY <1>2, <2>1, <2>3, CipherStep DEF CcmStep
  <2>4. CASE q.state = "s0"
    BY <1>2, <2>1, <2>4, TagStep DEF CcmStep
  <2>5. CASE q.state = "xn"
    <3>1. CASE q.operation = "encrypt"
      <4>1. Even(q)
        BY <2>1, <2>5, <3>1 DEF CipherGoes, Halfway
      <4> QED BY <2>1, <2>5, <3>1, <4>1, EncryptFirst DEF CcmStep
    <3>2. CASE q.operation = "decrypt"
      BY <2>1, <2>5, <3>2, DecryptSecond DEF CcmStep
    <3> QED BY <1>2, <3>1, <3>2 DEF Ciphers
  <2>6. q.state \in {"x1", "sn", "s0", "xn"}
    BY <1>2, <2>1 DEF CipherGoes, Halfway, FirstState, Ciphers
  <2> QED BY <2>2, <2>3, <2>4, <2>5, <2>6
<1> QED BY <1>1, <1>2 DEF Ccm

----------------------------------------------------------------------------
(* The list of operations and CCM *)

(* The calls under way, and no request twice in the list.                  *)
Frames == {"run", "call", "called"}
Once(list) == \A i, j \in 1..Len(list) : list[i] = list[j] => i = j

(* A request that btstack_crypto_run is in the middle of.                  *)
Serving(r) ==
  /\ stack # <<>> /\ Top = "run" /\ Ready
  /\ r = Now /\ request[r].operation \in Ciphers

CcmOK ==
  /\ request \in [Requests -> RequestType]
  /\ Once(operations) /\ stack \in Seq(Frames)
  /\ \A r \in Requests :
       /\ Shape(request[r])
       /\ Even(request[r]) \/ Serving(r)
       /\ Queued(r) /\ request[r].operation \in Ccm => Goes(request[r])
CcmInv == Inv /\ CcmOK

(* What Ciphered says of a step.                                           *)
Complete == Reported /\ request[Now].operation \in Ccm => Finished(request'[Now])

(* The first request leaves the list.                                      *)
LEMMA OnceTail ==
  ASSUME NEW list \in Seq(Requests), list # <<>>, Once(list)
  PROVE  /\ Once(Tail(list)) /\ Tail(list) # list
         /\ Head(list) \notin ToSet(Tail(list))
         /\ ToSet(Tail(list)) \subseteq ToSet(list)
<1>t. PICK t : t = Tail(list)
  OBVIOUS
<1>n. PICK n : n = Len(t)
  OBVIOUS
<1>1. /\ t \in Seq(Requests) /\ n \in Nat
      /\ t = Tail(list) /\ n = Len(t) /\ Len(list) = n + 1
      /\ \A i \in 1..n : t[i] = list[i + 1]
  <2>1. /\ t \in Seq(Requests) /\ Len(t) = Len(list) - 1
        /\ \A i \in 1..Len(t) : t[i] = list[i + 1]
    BY <1>t, HeadTailProperties
  <2>2. Len(t) \in Nat /\ Len(list) \in Nat
    BY <2>1, LenProperties
  <2> QED BY <1>t, <1>n, <2>1, <2>2
<1>2. DOMAIN t = 1..n /\ DOMAIN list = 1..(n + 1) /\ Head(list) = list[1]
  BY <1>1, LenProperties
<1>3. \A i \in 1..n : i + 1 \in 1..(n + 1) /\ i + 1 # 1
  BY <1>1
<1>4. 1 \in 1..(n + 1)
  BY <1>1
<1>5. ASSUME NEW i \in 1..n, NEW j \in 1..n, t[i] = t[j] PROVE i = j
  <2>1. list[i + 1] = list[j + 1]
    BY <1>1, <1>5
  <2>2. i + 1 = j + 1
    BY <1>1, <1>3, <2>1 DEF Once
  <2> QED BY <2>2
<1>6. Once(t)
  BY <1>1, <1>5 DEF Once
<1>7. ASSUME NEW i \in 1..n PROVE t[i] # list[1] /\ t[i] \in ToSet(list)
  <2>1. list[i + 1] # list[1]
    BY <1>1, <1>3, <1>4 DEF Once
  <2>2. list[i + 1] \in ToSet(list)
    BY <1>2, <1>3 DEF ToSet
  <2> QED BY <1>1, <2>1, <2>2
<1>8. list[1] \notin ToSet(t) /\ ToSet(t) \subseteq ToSet(list)
  BY <1>2, <1>7 DEF ToSet
<1>9. t # list
  BY <1>1
<1> QED BY <1>1, <1>2, <1>6, <1>8, <1>9

(* A request that is not in the list is put at its end.                    *)
LEMMA OnceAppend ==
  ASSUME NEW list \in Seq(Requests), Once(list), NEW r \in Requests, r \notin ToSet(list)
  PROVE  /\ Once(Append(list, r)) /\ (list # <<>> => Append(list, r) # Tail(list))
         /\ ToSet(Append(list, r)) \subseteq ToSet(list) \cup {r}
<1>t. PICK t : t = Append(list, r)
  OBVIOUS
<1>n. PICK n : n = Len(list)
  OBVIOUS
<1>1. /\ t \in Seq(Requests) /\ n \in Nat
      /\ t = Append(list, r) /\ n = Len(list) /\ Len(t) = n + 1
      /\ \A i \in 1..n : t[i] = list[i]
      /\ t[n + 1] = r
  BY <1>t, <1>n, AppendProperties, LenProperties
<1>2. DOMAIN list = 1..n /\ DOMAIN t = 1..(n + 1)
  BY <1>1, LenProperties
<1>3. \A i \in 1..n : t[i] # r /\ t[i] \in ToSet(list)
  BY <1>1, <1>2 DEF ToSet
<1>4. \A i \in 1..(n + 1) : i \in 1..n \/ i = n + 1
  BY <1>1
<1>5. Once(t)
  BY <1>1, <1>3, <1>4 DEF Once
<1>6. ToSet(t) \subseteq ToSet(list) \cup {r}
  BY <1>1, <1>2, <1>3, <1>4 DEF ToSet
<1>7. list # <<>> => Len(Tail(list)) = n - 1
  BY <1>1, HeadTailProperties
<1> QED BY <1>1, <1>5, <1>6, <1>7

(* The calls stay calls.                                                   *)
LEMMA CallsStay ==
  ASSUME stack \in Seq(Frames), stack # <<>>
  PROVE  /\ Front(stack) \in Seq(Frames)
         /\ Append(Front(stack), "called") \in Seq(Frames)
         /\ Last(Append(Front(stack), "called")) = "called"
<1>1. PICK f : f = Front(stack)
  OBVIOUS
<1>2. Len(stack) \in Nat /\ Len(stack) # 0
  BY EmptySeq, LenProperties
<1>3. f \in Seq(Frames)
  BY <1>1, <1>2, LenProperties, SubSeqProperties DEF Front
<1>4. "called" \in Frames
  BY DEF Frames
<1> HIDE DEF Frames
<1>5. /\ Append(f, "called") \in Seq(Frames) /\ Len(Append(f, "called")) = Len(f) + 1
      /\ Append(f, "called")[Len(f) + 1] = "called"
  BY <1>3, <1>4, AppendProperties
<1> QED BY <1>1, <1>3, <1>5 DEF Last

(* While no request is being served, a step that leaves the structures     *)
(* alone may do anything to the calls and drop requests from the list.     *)
LEMMA AloneStep ==
  ASSUME CcmOK, \A r \in Requests : ~Serving(r), UNCHANGED request,
         stack' \in Seq(Frames), Once(operations'),
         ToSet(operations') \subseteq ToSet(operations)
  PROVE  CcmOK'
<1>1. \A r \in Requests : /\ request'[r] = request[r] /\ (Queued(r)' => Queued(r))
                          /\ Shape(request[r]) /\ Even(request[r])
  BY DEF CcmOK, Queued
<1> QED BY <1>1 DEF CcmOK

(* Nothing is reported by a step that leaves the list alone.               *)
LEMMA NotReported ==
  ASSUME Inv, CcmOK, operations' = operations
  PROVE  Complete
<1>1. operations # <<>> => Tail(operations) # operations
  BY OnceTail DEF Inv, TypeInv, CcmOK
<1> QED BY <1>1 DEF Complete, Reported

(* A client puts a request into the list, from nowhere or from a callback. *)
LEMMA SubmitCcm ==
  ASSUME CcmInv, NEW r \in Requests, NEW q \in RequestType, Submit(r, q), Shape(q), Even(q),
         q.operation \in Ccm => Goes(q)
  PROVE  CcmOK' /\ Complete
<1>1. /\ operations \in Seq(Requests) /\ ~Queued(r) /\ CanCall
      /\ operations' = Append(operations, r) /\ request' = [request EXCEPT ![r] = q]
      /\ stack' = Enter
  BY DEF CcmInv, Inv, TypeInv, Submit
<1>2. /\ request \in [Requests -> RequestType] /\ Once(operations) /\ stack \in Seq(Frames)
      /\ \A c \in Requests : Shape(request[c]) /\ Even(request[c])
                             /\ (Queued(c) /\ request[c].operation \in Ccm => Goes(request[c]))
  BY <1>1 DEF CcmInv, CcmOK, Serving, CanCall
<1>3. /\ Once(operations') /\ (operations # <<>> => operations' # Tail(operations))
      /\ \A c \in Requests : Queued(c)' => Queued(c) \/ c = r
  BY <1>1, <1>2, OnceAppend DEF Queued
<1>4. stack' \in Seq(Frames)
  <2>1. <<"run">> \in Seq(Frames)
    BY DEF Frames
  <2> HIDE DEF Frames
  <2>2. stack # <<>> => Append(Front(stack), "called") \in Seq(Frames)
    BY <1>2, CallsStay
  <2> QED BY <1>1, <2>1, <2>2, ConcatProperties DEF Enter
<1>5. /\ request' \in [Requests -> RequestType] /\ request'[r] = q
      /\ \A c \in Requests : c # r => request'[c] = request[c]
  BY <1>1, <1>2
<1>6. \A c \in Requests :
        Shape(request'[c]) /\ Even(request'[c])
        /\ (Queued(c)' /\ request'[c].operation \in Ccm => Goes(request'[c]))
  BY <1>2, <1>3, <1>5
<1>7. CcmOK'
  BY <1>3, <1>4, <1>5, <1>6 DEF CcmOK
<1>8. Complete
  BY <1>3 DEF Complete, Reported
<1> QED BY <1>7, <1>8

(* btstack_crypto_ccm_init, and the calls that make a request.             *)
LEMMA ClientCcm ==
  ASSUME CcmInv, NEW r \in Requests, Client(r)
  PROVE  CcmOK' /\ Complete
<1>0. /\ CanCall /\ ~Queued(r)
      /\ "random" \notin Ccm /\ "calculate" \notin Ccm /\ "generate" \notin Ccm
  BY DEF Client, RandomGenerate, Calculate, GenerateKey, CcmInit, CcmDigest, CcmBlock, Submit,
         Ccm, Ciphers
<1>1. /\ request \in [Requests -> RequestType] /\ Once(operations) /\ stack \in Seq(Frames)
      /\ Block \in Nat /\ Block > 2
      /\ \A c \in Requests : Shape(request[c]) /\ Even(request[c])
                             /\ (Queued(c) /\ request[c].operation \in Ccm => Goes(request[c]))
  BY <1>0, CryptoAssumption DEF CcmInv, CcmOK, Serving, CanCall
<1>2. PICK p \in RequestType : p = request[r] /\ Shape(p) /\ Even(p)
  BY <1>1
<1>3. ASSUME NEW o \in Operations \ Ccm, NEW n \in Int,
             NEW q, q = [p EXCEPT !.operation = o, !.size = n], Submit(r, q)
      PROVE  CcmOK' /\ Complete
  <2>2. /\ q \in RequestType /\ q.operation = o /\ q.state = p.state /\ q.message = p.message
        /\ q.aad = p.aad /\ q.offset = p.offset /\ q.remainder = p.remainder /\ q.x = p.x
        /\ q.s = p.s /\ q.tagged = p.tagged /\ q.plain = p.plain
    BY <1>3 DEF RequestType
  <2>3. Shape(q) /\ Even(q) /\ q.operation \notin Ccm
    BY <1>2, <2>2 DEF Shape, Even, DataDone
  <2> QED BY <1>3, <2>2, <2>3, SubmitCcm
<1>4. CASE \E n \in Sizes : RandomGenerate(r, n)
  <2>0. PICK n \in Sizes : RandomGenerate(r, n)
    BY <1>4
  <2>1. n \in Int /\ Submit(r, [p EXCEPT !.operation = "random", !.size = n])
    BY <1>2, <2>0, CryptoAssumption DEF RandomGenerate
  <2>2. PICK o \in Operations \ Ccm : o = "random"
    BY <1>0 DEF Operations
  <2>3. PICK q : q = [p EXCEPT !.operation = o, !.size = n]
    OBVIOUS
  <2>4. Submit(r, q)
    BY <2>1, <2>2, <2>3
  <2> QED BY <1>3, <2>1, <2>3, <2>4
<1>5. CASE Calculate(r) \/ GenerateKey(r)
  <2>1. PICK o \in Operations \ Ccm : Submit(r, [p EXCEPT !.operation = o])
    BY <1>0, <1>2, <1>5 DEF Calculate, GenerateKey, Operations
  <2>2. PICK n \in Int : n = p.size
    BY DEF RequestType
  <2>3. PICK q : q = [p EXCEPT !.operation = o, !.size = n]
    OBVIOUS
  <2>4. q = [p EXCEPT !.operation = o]
    BY <2>2, <2>3 DEF RequestType
  <2> QED BY <1>3, <2>1, <2>2, <2>3, <2>4
<1>6. CASE \E m \in Messages, a \in Additional : CcmInit(r, m, a)
  <2>1. PICK m \in Nat, a \in Nat : CcmInit(r, m, a)
    BY <1>6, CryptoAssumption
  <2>2. PICK q : q = [p EXCEPT !.state = "x1", !.message = m, !.aad = a, !.offset = 0,
                               !.x = 0, !.s = 0, !.tagged = FALSE, !.plain = TRUE]
    OBVIOUS
  <2>3. /\ q \in RequestType /\ q.state = "x1" /\ q.offset = 0 /\ q.x = 0 /\ q.s = 0
        /\ ~q.tagged /\ q.plain /\ q.remainder = p.remainder
    BY <2>2 DEF RequestType, CcmStates
  <2>4. Shape(q) /\ Even(q)
    BY <1>2, <2>3 DEF Shape, Even
  <2>5. /\ request' = [request EXCEPT ![r] = q]
        /\ UNCHANGED <<operations, stack>>
    BY <1>2, <2>1, <2>2 DEF CcmInit
  <2>6. CcmOK'
    BY <1>0, <1>1, <2>3, <2>4, <2>5 DEF CcmOK, Queued
  <2> QED BY <2>5, <2>6, NotReported DEF CcmInv
<1>7. CASE \E n \in 1..request[r].aad : CcmDigest(r, n)
  <2>1. PICK n \in 1..p.aad : CcmDigest(r, n)
    BY <1>2, <1>7
  <2>2. PICK q : q = [p EXCEPT !.operation = "digest", !.block = n]
    OBVIOUS
  <2>n. /\ n \in Nat /\ n > 0 /\ p.aad \in Nat /\ p.offset \in Nat
        /\ "digest" \in Operations
    BY DEF RequestType, Operations, Ccm
  <2>3. /\ q \in RequestType /\ q.operation = "digest" /\ q.state = p.state
        /\ q.message = p.message /\ q.block = n
        /\ q.aad = p.aad /\ q.offset = p.offset /\ q.remainder = p.remainder /\ q.x = p.x
        /\ q.s = p.s /\ q.tagged = p.tagged /\ q.plain = p.plain
    BY <2>2, <2>n DEF RequestType
  <2>4. Shape(q) /\ Even(q)
    BY <1>2, <2>3 DEF Shape, Even, DataDone
  <2>5. n <= p.aad - (IF p.offset = 0 THEN 0 ELSE p.offset - 2) /\ Submit(r, q)
    BY <1>2, <2>1, <2>2 DEF CcmDigest
  <2>6. q.state \in {"x1", "aad"}
    BY <1>2, <2>3, <2>n, <2>5 DEF Shape, DataDone
  <2>7. DigestGoes(q) /\ "digest" \notin Ciphers
    BY <2>3, <2>n, <2>5, <2>6 DEF DigestGoes, Ciphers
  <2>8. Goes(q)
    BY <2>3, <2>7 DEF Goes
  <2> QED BY <2>3, <2>4, <2>5, <2>8, SubmitCcm
<1>8. CASE \E o \in Ciphers : \E n \in 1..request[r].message : CcmBlock(r, o, n)
  <2>1. PICK o \in Ciphers, n \in 1..p.message : CcmBlock(r, o, n)
    BY <1>2, <1>8
  <2>2. PICK st : st = IF p.state = "x1" THEN "x1" ELSE FirstState(o)
    OBVIOUS
  <2>3. st \in CcmStates /\ st # "aad" /\ (st = "x1" => p.state = "x1")
    BY <2>2 DEF CcmStates, FirstState
  <2>4. PICK q : q = [p EXCEPT !.operation = o, !.block = n, !.state = st]
    OBVIOUS
  <2>n. n \in Nat /\ o \in Operations
    BY DEF RequestType, Operations, Ccm
  <2>5. /\ q \in RequestType /\ q.operation = o /\ q.state = st
        /\ q.message = p.message /\ q.block = n
        /\ q.aad = p.aad /\ q.offset = p.offset /\ q.remainder = p.remainder /\ q.x = p.x
        /\ q.s = p.s /\ q.tagged = p.tagged /\ q.plain = p.plain
    BY <2>3, <2>4, <2>n DEF RequestType
  <2>6. DataDone(p) /\ Submit(r, q)
    BY <1>2, <2>1, <2>2, <2>4 DEF CcmBlock, DataDone, RequestType
  <2>7. DataDone(q) /\ Shape(q) /\ Even(q)
    BY <1>2, <2>3, <2>5, <2>6 DEF Shape, Even, DataDone
  <2>8. CipherGoes(q)
    BY <2>2, <2>5, <2>7 DEF CipherGoes
  <2>9. Goes(q)
    BY <2>5, <2>8 DEF Goes, Ciphers
  <2> QED BY <2>5, <2>6, <2>7, <2>9, SubmitCcm
<1> QED BY <1>4, <1>5, <1>6, <1>7, <1>8 DEF Client

(* btstack_crypto_run takes a step of the first request.                   *)
LEMMA CcmRun ==
  ASSUME CcmInv, RunCcm
  PROVE  CcmOK' /\ Complete
<1>1. /\ operations \in Seq(Requests) /\ operations # <<>> /\ request[Now].operation \in Ccm
      /\ stack # <<>> /\ Top = "run" /\ Ready
      /\ request \in [Requests -> RequestType] /\ Once(operations) /\ stack \in Seq(Frames)
      /\ Now \in Requests /\ Queued(Now)
  BY FirstInQueue DEF CcmInv, CcmOK, Inv, TypeInv, RunCcm, Running, Ready
<1>2. PICK q \in RequestType : q = request[Now]
  BY <1>1
<1>3. /\ Shape(q) /\ Goes(q) /\ q.operation \in Ccm /\ (Even(q) \/ q.operation \in Ciphers)
  BY <1>1, <1>2 DEF CcmInv, CcmOK, Serving
<1>4. PICK step : step = CcmStep(q)
  OBVIOUS
<1>5. Advances(q, step)
  BY <1>3, <1>4, CcmAdvances
<1>6. PICK f \in RequestType : f = step.request
  BY <1>5 DEF Advances
<1>7. /\ request' = [request EXCEPT ![Now] = f]
      /\ IF step.done THEN CallBack(stack) ELSE UNCHANGED <<operations, stack>>
      /\ UNCHANGED <<hci, slot, late, wait, key, random>>
  BY <1>2, <1>4, <1>6 DEF RunCcm
<1>8. /\ request' \in [Requests -> RequestType] /\ request'[Now] = f
      /\ \A c \in Requests : c # Now => request'[c] = request[c]
  BY <1>1, <1>7
<1>9. /\ Shape(f) /\ f.operation = q.operation
      /\ step.done => Finished(f) /\ Even(f)
      /\ ~step.done => Goes(f) /\ (q.operation = "digest" => Even(f))
  BY <1>5, <1>6 DEF Advances
<1>10. \A c \in Requests : c # Now =>
         /\ Shape(request[c]) /\ Even(request[c])
         /\ Queued(c) /\ request[c].operation \in Ccm => Goes(request[c])
  BY DEF CcmInv, CcmOK, Serving
<1>11. CASE step.done
  <2>1. operations' = Tail(operations) /\ stack' = Append(stack, "call")
    BY <1>7, <1>11 DEF CallBack
  <2>2. /\ Once(operations') /\ Now \notin ToSet(operations')
        /\ ToSet(operations') \subseteq ToSet(operations)
    BY <1>1, <2>1, OnceTail DEF Now
  <2>3. "call" \in Frames
    BY DEF Frames
  <2>4. stack' \in Seq(Frames)
    <3> HIDE DEF Frames
    <3> QED BY <1>1, <2>1, <2>3, AppendProperties
  <2>5. \A c \in Requests :
          /\ Shape(request'[c]) /\ Even(request'[c])
          /\ Queued(c)' /\ request'[c].operation \in Ccm => Goes(request'[c])
    BY <1>8, <1>9, <1>10, <1>11, <2>2 DEF Queued
  <2>6. CcmOK'
    BY <1>8, <2>2, <2>4, <2>5 DEF CcmOK
  <2>7. Complete
    BY <1>8, <1>9, <1>11 DEF Complete
  <2> QED BY <2>6, <2>7
<1>12. CASE ~step.done
  <2>1. UNCHANGED <<operations, stack, hci, slot, wait>>
    BY <1>7, <1>12
  <2>2. q.operation \in Ciphers => Serving(Now)'
    <3>1. Now' = Now
      BY <2>1 DEF Now
    <3>2. (stack # <<>> /\ Top = "run" /\ Ready)'
      BY <1>1, <2>1 DEF Top, Ready
    <3>3. (request[Now].operation)' = q.operation
      BY <1>8, <1>9, <3>1
    <3> QED BY <3>1, <3>2, <3>3 DEF Serving
  <2>3. Even(f) \/ q.operation \in Ciphers
    BY <1>3, <1>9, <1>12 DEF Ccm
  <2>4. \A c \in Requests :
          /\ Shape(request'[c]) /\ (Even(request'[c]) \/ Serving(c)')
          /\ Queued(c)' /\ request'[c].operation \in Ccm => Goes(request'[c])
    <3>1. ASSUME NEW c \in Requests, c # Now
          PROVE  /\ Shape(request'[c]) /\ Even(request'[c])
                 /\ Queued(c)' /\ request'[c].operation \in Ccm => Goes(request'[c])
      BY <1>8, <1>10, <2>1, <3>1 DEF Queued
    <3>2. /\ Shape(request'[Now]) /\ (Even(request'[Now]) \/ Serving(Now)')
          /\ Goes(request'[Now])
      BY <1>8, <1>9, <1>12, <2>2, <2>3
    <3> QED BY <2>1, <3>1, <3>2 DEF Serving, Now
  <2>5. CcmOK'
    BY <1>1, <1>8, <2>1, <2>4 DEF CcmOK
  <2> QED BY <2>1, <2>5, NotReported DEF CcmInv
<1> QED BY <1>11, <1>12

(* The rest of btstack_crypto_run.                                         *)
LEMMA OtherRun ==
  ASSUME CcmInv, Run, ~RunCcm
  PROVE  CcmOK' /\ Complete
<1>0. /\ operations \in Seq(Requests) /\ Once(operations) /\ stack \in Seq(Frames)
      /\ CcmOK /\ Inv
  BY DEF CcmInv, CcmOK, Inv, TypeInv
<1>1. CASE RunRandom \/ StartKey \/ ContinueKey
  <2>1. UNCHANGED <<operations, request, stack>>
    BY <1>1 DEF RunRandom, StartKey, ContinueKey, AskController
  <2>2. \A r \in Requests : ~Serving(r)
    BY <1>1 DEF RunRandom, StartKey, ContinueKey, Running, Serving, Ciphers
  <2> QED BY <1>0, <2>1, <2>2, AloneStep, NotReported
<1>2. CASE RunCalculate \/ DeliverKey
  <2>1. /\ operations # <<>> /\ operations' = Tail(operations) /\ UNCHANGED request
        /\ stack' = Append(stack, "call") /\ request[Now].operation \notin Ccm
    BY <1>2 DEF RunCalculate, DeliverKey, Running, Ready, CallBack, Ccm, Ciphers
  <2>2. \A r \in Requests : ~Serving(r)
    BY <2>1 DEF Serving, Ccm
  <2>3. Once(operations') /\ ToSet(operations') \subseteq ToSet(operations)
    BY <1>0, <2>1, OnceTail
  <2>4. "call" \in Frames
    BY DEF Frames
  <2>5. stack' \in Seq(Frames)
    <3> HIDE DEF Frames
    <3> QED BY <1>0, <2>1, <2>4, AppendProperties
  <2>6. CcmOK'
    BY <1>0, <2>1, <2>2, <2>3, <2>5, AloneStep
  <2>7. Complete
    BY <2>1 DEF Complete
  <2> QED BY <2>6, <2>7
<1>3. CASE RunReturns \/ CallbackReturns
  <2>1. UNCHANGED <<operations, request>> /\ stack' = Front(stack) /\ stack # <<>>
    BY <1>3 DEF RunReturns, CallbackReturns
  <2>2. \A r \in Requests : ~Serving(r)
    BY <1>3 DEF RunReturns, CallbackReturns, Serving
  <2>3. stack' \in Seq(Frames)
    BY <1>0, <2>1, CallsStay
  <2> QED BY <1>0, <2>1, <2>2, <2>3, AloneStep, NotReported
<1> QED BY <1>1, <1>2, <1>3 DEF Run

(* A random number is for a request that is not one of CCM.                *)
LEMMA RandomCcm ==
  ASSUME CcmInv, TakeRandom, stack = <<>>
  PROVE  CcmOK' /\ Complete
<1>0. /\ operations \in Seq(Requests) /\ Once(operations)
      /\ CcmOK /\ Inv /\ \A r \in Requests : ~Serving(r)
  BY DEF CcmInv, CcmOK, Inv, TypeInv, Serving
<1>1. <<>> \in Seq(Frames) /\ <<"run">> \in Seq(Frames) /\ Append(<<"run">>, "call") \in Seq(Frames)
  BY DEF Frames
<1>2. ASSUME UNCHANGED <<operations, request>>, stack' \in {<<>>, <<"run">>}
      PROVE  CcmOK' /\ Complete
  BY <1>0, <1>1, <1>2, AloneStep, NotReported
<1>3. CASE ~wait \/ operations = <<>>
  BY <1>2, <1>3 DEF TakeRandom
<1>4. CASE wait /\ operations # <<>>
  <2>1. UseRandom /\ Now \in Requests
    BY <1>0, <1>4, FirstInQueue DEF TakeRandom, Inv
  <2>2. CASE request[Now].operation = "random"
    <3>1. /\ request' = [request EXCEPT ![Now].size = @ - 1]
          /\ \/ operations' = operations /\ stack' = <<"run">>
             \/ operations' = Tail(operations) /\ stack' = Append(<<"run">>, "call")
      BY <2>1, <2>2 DEF UseRandom, CallBack
    <3>2. PICK p \in RequestType : p = request[Now] /\ Shape(p) /\ Even(p)
      BY <1>0, <2>1 DEF CcmOK
    <3>3. PICK n \in Int : n = p.size - 1
      BY DEF RequestType
    <3>4. PICK q : q = [p EXCEPT !.size = n]
      OBVIOUS
    <3>5. /\ q \in RequestType /\ q.operation = "random" /\ q.state = p.state
          /\ q.message = p.message /\ q.aad = p.aad /\ q.offset = p.offset
          /\ q.remainder = p.remainder /\ q.x = p.x
          /\ q.s = p.s /\ q.tagged = p.tagged /\ q.plain = p.plain
      BY <2>2, <3>2, <3>4 DEF RequestType
    <3>6. Shape(q) /\ Even(q) /\ q.operation \notin Ccm
      BY <3>2, <3>5 DEF Shape, Even, DataDone, Ccm, Ciphers
    <3>7. request' = [request EXCEPT ![Now] = q]
      BY <1>0, <2>1, <3>1, <3>2, <3>3, <3>4 DEF CcmOK
    <3>8. /\ request' \in [Requests -> RequestType] /\ request'[Now] = q
          /\ \A c \in Requests : c # Now => request'[c] = request[c]
      BY <1>0, <2>1, <3>5, <3>7 DEF CcmOK
    <3>9. Once(operations') /\ ToSet(operations') \subseteq ToSet(operations)
      BY <1>0, <1>4, <3>1, OnceTail
    <3>10. stack' \in Seq(Frames)
      BY <1>1, <3>1
    <3>11. \A c \in Requests :
             /\ Shape(request'[c]) /\ Even(request'[c])
             /\ Queued(c)' /\ request'[c].operation \in Ccm => Goes(request'[c])
      BY <1>0, <3>6, <3>8, <3>9 DEF CcmOK, Queued
    <3>12. CcmOK'
      BY <3>8, <3>9, <3>10, <3>11 DEF CcmOK
    <3>13. Complete
      BY <2>2 DEF Complete, Ccm, Ciphers
    <3> QED BY <3>12, <3>13
  <2>3. CASE request[Now].operation # "random"
    <3>1. UNCHANGED <<operations, request>> /\ stack' = <<"run">>
      BY <2>1, <2>3 DEF UseRandom
    <3> QED BY <1>2, <3>1
  <2> QED BY <2>2, <2>3
<1> QED BY <1>3, <1>4

(* Other events of hci.                                                    *)
LEMMA EventCcm ==
  ASSUME CcmInv, OtherSends \/ OtherDone \/ Halt \/ Close \/ PowerOn \/ Started
  PROVE  CcmOK' /\ Complete
<1>0. /\ operations \in Seq(Requests) /\ Once(operations) /\ stack \in Seq(Frames)
      /\ CcmOK /\ Inv /\ \A r \in Requests : ~Serving(r)
  BY DEF CcmInv, CcmOK, Inv, TypeInv, Serving, CanCall, OtherSends, OtherDone, Halt, Close,
         PowerOn, Started
<1>1. CASE ~Halt
  <2>1. UNCHANGED <<operations, request>> /\ (stack' = stack \/ stack' = <<"run">>)
    BY <1>1 DEF OtherSends, OtherDone, Close, PowerOn, Started
  <2>2. <<"run">> \in Seq(Frames)
    BY DEF Frames
  <2>3. stack' \in Seq(Frames)
    BY <1>0, <2>1, <2>2
  <2> QED BY <1>0, <2>1, <2>3, AloneStep, NotReported
<1>2. CASE Halt
  <2>1. operations' = <<>> /\ UNCHANGED request
        /\ stack' = IF stack = <<>> THEN <<>> ELSE Append(Front(stack), "called")
    BY <1>2 DEF Halt, Reset
  <2>2. <<>> \in Seq(Frames) /\ Once(<<>>) /\ ToSet(<<>>) = {}
    BY DEF Once, ToSet
  <2>3. stack' \in Seq(Frames) /\ (stack' = <<>> \/ Last(stack') = "called")
    BY <1>0, <2>1, <2>2, CallsStay
  <2>4. CcmOK'
    BY <1>0, <2>1, <2>2, <2>3, AloneStep
  <2>5. Complete
    BY <2>3 DEF Complete, Reported
  <2> QED BY <2>4, <2>5
<1> QED BY <1>1, <1>2

(* It holds when the program starts, with every structure still Unused.   *)
LEMMA InitCcm == Init => CcmInv
<1> SUFFICES ASSUME Init PROVE CcmInv
  OBVIOUS
<1>1. Unused \in RequestType /\ Shape(Unused) /\ Even(Unused)
  BY CryptoAssumption
     DEF Unused, RequestType, Shape, Even, DataDone, Operations, Ccm, Ciphers, CcmStates
<1>2. <<>> \in Seq(Frames) /\ Once(<<>>) /\ ToSet(<<>>) = {}
  BY DEF Once, ToSet
<1>3. request = [r \in Requests |-> Unused] /\ operations = <<>> /\ stack = <<>>
  BY DEF Init
<1>4. CcmOK
  BY <1>1, <1>2, <1>3 DEF CcmOK, Queued
<1> QED BY <1>4, InitInv DEF CcmInv

(* Every step keeps it, and reports a CCM request only when it is complete. *)
LEMMA NextCcm ==
  ASSUME CcmInv, [Next]_vars
  PROVE  CcmInv' /\ Complete
<1>1. Inv'
  BY NextStep DEF CcmInv
<1>2. CASE Run
  BY <1>1, <1>2, CcmRun, OtherRun DEF CcmInv
<1>3. CASE RandomArrives \/ LateRandomArrives
  BY <1>1, <1>3, RandomCcm DEF RandomArrives, LateRandomArrives, CcmInv
<1>4. CASE OtherSends \/ OtherDone \/ Halt \/ Close \/ PowerOn \/ Started
  BY <1>1, <1>4, EventCcm DEF CcmInv
<1>5. CASE \E r \in Requests : Client(r)
  BY <1>1, <1>5, ClientCcm DEF CcmInv
<1>6. CASE UNCHANGED vars
  <2>1. CcmOK'
    BY <1>6 DEF CcmInv, CcmOK, Serving, Ready, Queued, Top, Now, vars
  <2> QED BY <1>1, <1>6, <2>1, NotReported DEF CcmInv, vars
<1> QED BY <1>2, <1>3, <1>4, <1>5, <1>6 DEF Next

(* When a CCM operation is reported, all that was passed in is processed,  *)
(* whatever other operations, callbacks and restarts come in between.      *)
THEOREM CcmIsComplete == Spec => Ciphered
<1>1. Init => CcmInv
  BY InitCcm
<1>2. CcmInv /\ [Next]_vars => CcmInv' /\ [Complete]_vars
  BY NextCcm
<1>3. Ciphered <=> [][Complete]_vars
  BY DEF Ciphered, Complete
<1> QED BY <1>1, <1>2, <1>3, PTL DEF Spec
=============================================================================

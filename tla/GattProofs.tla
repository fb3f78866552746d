------------------------------ MODULE GattProofs ------------------------------
(***************************************************************************)
(* Proofs about Gatt for any plans, MTUs, buffers and faults.              *)
(*                                                                         *)
(* The invariant Inv says of each device s and its peer m that s is Good:  *)
(*   Book      the queries that wait are told apart from those accepted or *)
(*             dropped, and no query is answered twice unless it is in     *)
(*             doubt;                                                      *)
(*   AtWork    the query in work is the only one accepted and unanswered,  *)
(*             and no query waits for a response while the MTU is exchanged*)
(*   Updating  an indication waits, is in work, or was reported;           *)
(*   Valid     the MTU of the server is the default or the common one, and *)
(*             the client of the device works with the same;               *)
(*   Links     there is a link for both or for none;                       *)
(*   Asking    the request of s is in one place on its way to m and back,  *)
(*             and it and its response are of the kind that s waits for;   *)
(*   Agreeing  when only m knows of an exchange, the response is under way;*)
(*   Indicating  an indication of s, or its confirmation, is in one place. *)
(* After a timeout of s Asking is given up, but for an exchange of the MTU:*)
(* the late response may meet the next request.                            *)
(*                                                                         *)
(* Every function of Gatt maps a Good device to a Good one (the lemmas     *)
(* ...Keeps), and what takes a PDU from the peer maps a Good pair to one   *)
(* with a PDU less on its way (...Pops); the actions are made of them.     *)
(***************************************************************************)
EXTENDS Gatt, Lists, FiniteSetTheorems, FunctionTheorems, TLAPS

----------------------------------------------------------------------------
(* PDUs on their way *)

On(out) == {out[k] : k \in 1..Len(out)}

(* There are as many of some kind in two queues, and the same ones.        *)
Alike(o, r, S) ==
  Count(r, S) = Count(o, S) /\ {p \in On(r) : p.op \in S} = {p \in On(o) : p.op \in S}

(* The places of some kind in a queue.                                     *)
Places(out, S) == {k \in 1..Len(out) : out[k].op \in S}

LEMMA PlacesFacts ==
  ASSUME NEW out \in Seq(PduType), NEW S
  PROVE  /\ Count(out, S) = Cardinality(Places(out, S)) /\ Count(out, S) \in Nat
         /\ IsFiniteSet(Places(out, S))
         /\ Count(out, S) = 0 <=> \A p \in On(out) : p.op \notin S
<1>1. Count(out, S) = Cardinality(Places(out, S))
  BY LenProperties DEF Count, Places
<1>2. IsFiniteSet(Places(out, S))
  <2>1. IsFiniteSet(1..Len(out))
    BY FS_Interval, LenProperties
  <2> QED BY <2>1, FS_Subset DEF Places
<1>3. Count(out, S) \in Nat /\ (Count(out, S) = 0 <=> Places(out, S) = {})
  BY <1>1, <1>2, FS_CardinalityType, FS_EmptySet
<1>4. Places(out, S) = {} <=> \A p \in On(out) : p.op \notin S
  BY DEF Places, On
<1> QED BY <1>1, <1>2, <1>3, <1>4

(* One more in a sequence.                                                 *)
LEMMA AppendFacts ==
  ASSUME NEW S, NEW seq \in Seq(S), NEW x \in S
  PROVE  /\ Append(seq, x) \in Seq(S) /\ Append(seq, x) # <<>>
         /\ Len(Append(seq, x)) = Len(seq) + 1 /\ Len(seq) \in Nat
         /\ Append(seq, x)[Len(seq) + 1] = x
         /\ \A k \in 1..Len(seq) : Append(seq, x)[k] = seq[k]
         /\ seq = <<>> => Len(Append(seq, x)) = 1
BY AppendProperties, LenProperties, EmptySeq

(* Queues in which nothing is twice.                                       *)
Elements(seq) == {seq[i] : i \in 1..Len(seq)}
Distinct(seq) == \A i, j \in 1..Len(seq) : seq[i] = seq[j] => i = j

LEMMA AppendDistinct ==
  ASSUME NEW S, NEW seq \in Seq(S), Distinct(seq), NEW x \in S
  PROVE  /\ Append(seq, x) \in Seq(S) /\ Elements(Append(seq, x)) = Elements(seq) \cup {x}
         /\ x \notin Elements(seq) => Distinct(Append(seq, x))
<1> DEFINE new == Append(seq, x)
           n == Len(seq)
<1>1. n \in Nat /\ new \in Seq(S) /\ Len(new) = n + 1 /\ new[n + 1] = x
      /\ \A k \in 1..n : new[k] = seq[k]
  BY AppendProperties, LenProperties
<1> HIDE DEF new, n
<1>2. 1..n + 1 = (1..n) \cup {n + 1}
  BY <1>1
<1>3. Elements(new) = Elements(seq) \cup {x}
  BY <1>1, <1>2 DEF Elements, n
<1>4. x \notin Elements(seq) => Distinct(new)
  BY <1>1, <1>2 DEF Elements, Distinct, n
<1> QED BY <1>1, <1>3, <1>4 DEF new

LEMMA TailDistinct ==
  ASSUME NEW S, NEW seq \in Seq(S), Distinct(seq), seq # <<>>
  PROVE  /\ Tail(seq) \in Seq(S) /\ Distinct(Tail(seq)) /\ Head(seq) \in Elements(seq)
         /\ Elements(Tail(seq)) \subseteq Elements(seq) /\ Head(seq) \notin Elements(Tail(seq))
<1> DEFINE new == Tail(seq)
           n == Len(seq)
<1>1. /\ n \in Nat \ {0} /\ new \in Seq(S) /\ Len(new) = n - 1
      /\ Head(seq) = seq[1] /\ \A k \in 1..n - 1 : new[k] = seq[k + 1]
  BY HeadTailProperties, LenProperties, EmptySeq
<1> HIDE DEF new, n
<1>2. 1 \in 1..n /\ \A k \in 1..n - 1 : k + 1 \in 1..n /\ k + 1 # 1
  BY <1>1
<1>3. \A i, j \in 1..n : seq[i] = seq[j] => i = j
  BY DEF Distinct, n
<1>4. Distinct(new)
  <2>1. SUFFICES ASSUME NEW i \in 1..n - 1, NEW j \in 1..n - 1, new[i] = new[j] PROVE i = j
    BY <1>1 DEF Distinct
  <2>2. i + 1 = j + 1
    BY <1>1, <1>2, <1>3, <2>1
  <2> QED BY <1>1, <2>2
<1>5. \A x \in Elements(new) : x \in Elements(seq) /\ x # seq[1]
  <2>1. SUFFICES ASSUME NEW k \in 1..n - 1
                 PROVE  seq[k + 1] \in Elements(seq) /\ seq[k + 1] # seq[1]
    BY SMTT(30), <1>1 DEF Elements
  <2> QED BY <1>2, <1>3 DEF Elements, n
<1>6. Head(seq) \in Elements(seq)
  BY <1>1, <1>2 DEF Elements, n
<1> QED BY <1>1, <1>4, <1>5, <1>6 DEF new

(* A PDU is sent.                                                          *)
LEMMA CountAppend ==
  ASSUME NEW out \in Seq(PduType), NEW p \in PduType, NEW S
  PROVE  /\ Append(out, p) \in Seq(PduType)
         /\ On(Append(out, p)) = On(out) \cup {p}
         /\ Count(Append(out, p), S) = Count(out, S) + IF p.op \in S THEN 1 ELSE 0
         /\ p.op \notin S => Alike(out, Append(out, p), S)
<1> DEFINE new == Append(out, p)
           n == Len(out)
<1>1. n \in Nat /\ new \in Seq(PduType) /\ Len(new) = n + 1 /\ new[n + 1] = p
      /\ \A k \in 1..n : new[k] = out[k]
  BY AppendProperties, LenProperties
<1> HIDE DEF new, n
<1>2. On(new) = On(out) \cup {p}
  <2>1. 1..n + 1 = (1..n) \cup {n + 1}
    BY <1>1
  <2> QED BY <1>1, <2>1 DEF On, n
<1>3. Places(new, S) = Places(out, S) \cup (IF p.op \in S THEN {n + 1} ELSE {})
  <2>1. 1..n + 1 = (1..n) \cup {n + 1}
    BY <1>1
  <2> QED BY <1>1, <2>1 DEF Places, n
<1>4. n + 1 \notin Places(out, S)
  BY <1>1 DEF Places, n
<1>5. Count(new, S) = Count(out, S) + IF p.op \in S THEN 1 ELSE 0
  <2>1. CASE p.op \in S
    BY <1>1, <1>3, <1>4, <2>1, PlacesFacts, FS_AddElement
  <2>2. CASE p.op \notin S
    <3>1. Places(new, S) = Places(out, S)
      BY <1>3, <2>2
    <3> QED BY <1>1, <2>2, <3>1, PlacesFacts
  <2> QED BY <2>1, <2>2
<1>6. p.op \notin S => Alike(out, new, S)
  BY <1>2, <1>5, PlacesFacts DEF Alike
<1> QED BY <1>1, <1>2, <1>5, <1>6 DEF new

(* A PDU arrives.                                                          *)
LEMMA CountTail ==
  ASSUME NEW out \in Seq(PduType), out # <<>>, NEW S
  PROVE  /\ Tail(out) \in Seq(PduType) /\ Head(out) \in PduType
         /\ On(out) = On(Tail(out)) \cup {Head(out)}
         /\ Count(out, S) = Count(Tail(out), S) + IF Head(out).op \in S THEN 1 ELSE 0
         /\ Head(out).op \notin S => Alike(out, Tail(out), S)
<1> DEFINE new == Tail(out)
           p == Head(out)
           n == Len(out)
<1>1. /\ n \in Nat \ {0} /\ new \in Seq(PduType) /\ Len(new) = n - 1
      /\ p = out[1] /\ p \in PduType /\ \A k \in 1..n - 1 : new[k] = out[k + 1]
  BY HeadTailProperties, LenProperties, EmptySeq
<1> HIDE DEF new, n, p
<1>2. On(out) = On(new) \cup {p}
  <2>1. ASSUME NEW q \in On(out) PROVE q \in On(new) \cup {p}
    <3>1. PICK k \in 1..n : q = out[k]
      BY DEF On, n
    <3>2. k = 1 \/ (k - 1 \in 1..n - 1 /\ (k - 1) + 1 = k)
      BY <1>1
    <3> QED BY <1>1, <3>1, <3>2 DEF On
  <2>2. ASSUME NEW q \in On(new) PROVE q \in On(out)
    <3>1. PICK k \in 1..n - 1 : q = new[k]
      BY <1>1, <2>2 DEF On
    <3>2. k + 1 \in 1..n
      BY <1>1
    <3> QED BY <1>1, <3>1, <3>2 DEF On, n
  <2>3. p \in On(out)
    <3>1. 1 \in 1..n
      BY <1>1
    <3> QED BY <1>1, <3>1 DEF On, n
  <2> QED BY <2>1, <2>2, <2>3
<1> DEFINE P == Places(out, S)
           N == Places(new, S)
           R == P \ {1}
<1>3. Cardinality(N) = Cardinality(R) /\ IsFiniteSet(R)
  <2> DEFINE f == [k \in N |-> k + 1]
  <2>1. \A k \in N : k \in Int /\ k + 1 \in R
    BY <1>1 DEF Places, n
  <2>2. \A j \in R : j - 1 \in N /\ (j - 1) + 1 = j
    BY <1>1 DEF Places, n
  <2>3. f \in Bijection(N, R)
    <3> HIDE DEF N, R
    <3>1. f \in [N -> R] /\ \A a, b \in N : f[a] = f[b] => a = b
      BY <2>1
    <3>2. \A j \in R : \E a \in N : f[a] = j
      BY <2>2
    <3> QED BY <3>1, <3>2, Fun_IsBij
  <2>4. IsFiniteSet(N)
    BY <1>1, PlacesFacts
  <2> HIDE DEF f
  <2> QED BY <2>3, <2>4, FS_Bijection DEF ExistsBijection
<1>4. 1 \in P <=> p.op \in S
  BY <1>1 DEF Places, n
<1>5. Cardinality(P) = Cardinality(R) + IF p.op \in S THEN 1 ELSE 0
  <2>1. Cardinality(R) = IF 1 \in P THEN Cardinality(P) - 1 ELSE Cardinality(P)
    BY FS_RemoveElement, PlacesFacts
  <2>2. Cardinality(P) \in Nat
    BY PlacesFacts
  <2> HIDE DEF P, R
  <2> QED BY <1>4, <2>1, <2>2
<1>6. Count(out, S) = Count(new, S) + IF p.op \in S THEN 1 ELSE 0
  BY <1>1, <1>3, <1>5, PlacesFacts
<1>7. p.op \notin S => Alike(out, new, S)
  BY <1>1, <1>2, <1>6, PlacesFacts DEF Alike
<1> QED BY <1>1, <1>2, <1>6, <1>7 DEF new, p

----------------------------------------------------------------------------
(* The invariant                                                           *)

(* Links: both devices have one or none; without it nothing is on its way. *)
Links(s, m) ==
  /\ s.link = "up" <=> m.link = "up"
  /\ s.link # "up" => s.out = <<>>

(* What a device knows of its queries.                                     *)
Queued(s) == {s.client.queue[i] : i \in 1..Len(s.client.queue)}
Book(p, s) ==
  /\ s.accepted \subseteq 1..s.todo - 1 /\ s.dropped \subseteq 1..s.todo - 1
  /\ s.doubtful \subseteq s.accepted
  /\ \A i, j \in 1..Len(s.client.queue) : s.client.queue[i] = s.client.queue[j] => i = j
  /\ \A q \in Queued(s) : /\ q \in 1..s.todo - 1 /\ q \notin s.accepted \cup s.dropped
                          /\ p[s.me].queries[q].kind # "command"
  /\ \A q \in 1..Len(p[s.me].queries) :
       /\ s.answers[q] # <<>> => q \in s.accepted
       /\ q \notin s.doubtful => Len(s.answers[q]) <= 1
Unanswered(s, q) == s.answers[q] = <<>> /\ q \notin s.dropped
AtWork(s) ==
  /\ s.client.state # "READY" =>
       s.client.known /\ s.client.callback \in s.accepted /\ s.client.stage \in Stages
  /\ ~s.late => \A q \in s.accepted :
                  Unanswered(s, q) <=> s.client.state # "READY" /\ q = s.client.callback
  /\ s.late /\ s.client.known => s.client.callback \in s.doubtful
  /\ s.late /\ s.link # "down" => s.client.known
  /\ ~s.client.known => s.client = NoContext
  /\ s.client.state = "WAIT" => s.client.mtuState \notin {"SEND", "SENT"}
  /\ s.link = "down" => /\ s.client = NoContext /\ s.server = NewConnection
                        /\ \A q \in s.accepted : ~Unanswered(s, q)

(* What a device knows of its indications.                                 *)
Waiting(s) == {s.server.indications[i] : i \in 1..Len(s.server.indications)}
Told(r) ==
  Len(r) < 2 \/ (Len(r) = 2 /\ r[1] = "timeout" /\ r[2] # "timeout")
Updating(p, s) ==
  /\ \A i, j \in 1..Len(s.server.indications) :
       s.server.indications[i] = s.server.indications[j] => i = j
  /\ \A u \in Waiting(s) : /\ u \in 1..s.next - 1 /\ u # s.server.indication
                           /\ s.reports[u] = <<>>
  /\ s.server.indication # 0 =>
       /\ s.server.indication \in 1..s.next - 1
       /\ s.reports[s.server.indication] \in {<<>>, <<"timeout">>}
  /\ s.server.timer <=>
       s.server.indication # 0 /\ s.reports[s.server.indication] = <<>>
  /\ \A u \in 1..Len(p[s.me].updates) :
       Told(s.reports[u]) /\ (u >= s.next => s.reports[u] = <<>>)

(* A request of s, its way through m, and the response.                    *)
RequestOf == [read |-> "READ_REQ", blob |-> "BLOB_REQ", find |-> "FIND_REQ", ccc |-> "TYPE_REQ",
              write |-> "WRITE_REQ", cccWrite |-> "WRITE_REQ", prepare |-> "PREPARE_REQ",
              reliable |-> "PREPARE_REQ", execute |-> "EXECUTE_REQ", cancel |-> "EXECUTE_REQ"]
Awaited(c) == IF c.mtuState = "SENT" THEN "MTU_REQ" ELSE RequestOf[c.stage]
Answers(op) ==
  CASE op = "MTU_REQ" -> {"MTU_RSP"}
    [] op = "READ_REQ" -> {"READ_RSP"}
    [] op = "BLOB_REQ" -> {"BLOB_RSP", "ERROR"}
    [] op = "FIND_REQ" -> {"FIND_RSP"}
    [] op = "TYPE_REQ" -> {"TYPE_RSP"}
    [] op = "WRITE_REQ" -> {"WRITE_RSP", "ERROR"}
    [] op = "PREPARE_REQ" -> {"PREPARE_RSP"}
    [] op = "EXECUTE_REQ" -> {"EXECUTE_RSP", "ERROR"}
Open(s) == ~s.late \/ s.client.mtuState \in {"SEND", "SENT"}
Working(s) == s.client.state = "WAIT" \/ s.client.mtuState = "SENT"
Underway(s, m) ==
  Count(s.out, Requests) + Count(m.out, Responses) + IF m.server.state = "IDLE" THEN 0 ELSE 1
Fits(s, m) ==
  /\ \A p \in On(s.out) : p.op \in Requests => p.op = Awaited(s.client)
  /\ m.server.state = "VALIDATED" => m.server.request.op = Awaited(s.client)
  /\ \A p \in On(m.out) : p.op \in Responses => p.op \in Answers(Awaited(s.client))
Exchange(s, m) ==
  /\ \A p \in On(s.out) : p.op = "MTU_REQ" => s.client.mtuState = "SENT"
  /\ m.server.state = "VALIDATED" /\ m.server.request.op = "MTU_REQ" => s.client.mtuState = "SENT"
  /\ \A p \in On(m.out) : p.op = "MTU_RSP" => s.client.mtuState = "SENT"
Asking(s, m) ==
  s.link = "up" =>
    /\ Open(s) => Underway(s, m) = (IF Working(s) THEN 1 ELSE 0) /\ Fits(s, m)
    /\ Exchange(s, m)

(* The lengths in the requests and responses of an exchange of the MTU.    *)
CommonMtu(s) == Smaller(MaxMtu[s.me], MaxMtu[Peer(s.me)])
Valid(s) ==
  /\ \A p \in On(s.out) :
       /\ p.op = "MTU_REQ" => p.len = MaxMtu[s.me]
       /\ p.op = "MTU_RSP" => p.len = CommonMtu(s) /\ s.server.exchanged
  /\ s.server.state = "VALIDATED" => s.server.request.op \in Requests
  /\ s.server.state = "VALIDATED" /\ s.server.request.op = "MTU_REQ" =>
       s.server.request.len = MaxMtu[Peer(s.me)]
  /\ s.client.known => s.client.mtu = s.server.mtu
  /\ s.server.mtu = IF s.server.exchanged THEN CommonMtu(s) ELSE DefaultMtu
Agreeing(s, m) ==
  s.link = "up" /\ m.server.exchanged /\ ~s.server.exchanged =>
    \E p \in On(m.out) : p.op = "MTU_RSP"

(* An indication of s, and its confirmation by m.                          *)
Heard(m, u) == \E k \in 1..Len(m.heard) : m.heard[k] = u
Indicating(p, s, m) ==
  /\ s.link = "up" =>
       /\ Count(s.out, {"IND"}) + Count(m.out, {"CONFIRM"}) + (IF m.client.confirm THEN 1 ELSE 0)
            = IF s.server.indication = 0 THEN 0 ELSE 1
       /\ \A r \in On(s.out) : r.op = "IND" => r.q = s.server.indication
       /\ s.server.indication # 0 => Heard(m, s.server.indication) \/ Count(s.out, {"IND"}) = 1
  /\ \A u \in 1..Len(p[s.me].updates) : \A i \in 1..Len(s.reports[u]) :
       s.reports[u][i] = "complete" => Heard(m, u)

Own(p, s) ==
  /\ s.me \in Nodes /\ s \in DeviceType(p, s.me)
  /\ Book(p, s) /\ AtWork(s) /\ Updating(p, s) /\ Valid(s)
Pair(p, s, m) == Links(s, m) /\ Asking(s, m) /\ Agreeing(s, m) /\ Indicating(p, s, m)
Good(p, s, m) == m.me = Peer(s.me) /\ Own(p, s) /\ Own(p, m) /\ Pair(p, s, m) /\ Pair(p, m, s)
Inv ==
  /\ plan \in Plans /\ faults \in 0..MaxFaults /\ node = [n \in Nodes |-> node[n]]
  /\ \A n \in Nodes : node[n].me = n /\ Good(plan, node[n], node[Peer(n)])

----------------------------------------------------------------------------
(* What a part of the invariant looks at                                   *)

SameLink(s, t) == t.me = s.me /\ t.link = s.link /\ t.late = s.late
SameBook(s, t) ==
  /\ t.todo = s.todo /\ t.accepted = s.accepted /\ t.dropped = s.dropped
  /\ t.answers = s.answers /\ t.doubtful = s.doubtful
SameNews(s, t) == t.next = s.next /\ t.heard = s.heard /\ t.reports = s.reports
Same(s, t) ==
  /\ SameLink(s, t) /\ SameBook(s, t) /\ SameNews(s, t)
  /\ t.out = s.out /\ t.client = s.client /\ t.server = s.server

(* The other device.                                                       *)
LEMMA Peers ==
  ASSUME NEW n \in Nodes
  PROVE  Peer(n) \in Nodes /\ Peer(n) # n /\ Peer(Peer(n)) = n /\ Nodes = {n, Peer(n)}
<1>1. PICK a \in Nodes, b \in Nodes : a # b /\ Nodes = {a, b}
  BY NodesAssumption
<1>2. Peer(n) \in Nodes /\ Peer(n) # n
  BY <1>1 DEF Peer
<1>3. Peer(Peer(n)) \in Nodes /\ Peer(Peer(n)) # Peer(n)
  <2>1. \E x \in Nodes : x # Peer(n)
    BY <1>2
  <2> QED BY <2>1 DEF Peer
<1> QED BY <1>1, <1>2, <1>3

LEMMA Mutual ==
  ASSUME NEW s, NEW m, Good(plan, s, m)
  PROVE  Good(plan, m, s)
<1>1. Peer(m.me) = s.me
  BY Peers DEF Good, Own
<1> QED BY <1>1 DEF Good

LEMMA LinksFrame ==
  ASSUME NEW s, NEW m, Links(s, m), NEW t, t.link = s.link, t.out = s.out \/ s.link = "up",
         NEW u, u.link = m.link
  PROVE  Links(t, u)
BY DEF Links

LEMMA BookFrame ==
  ASSUME NEW s, Book(plan, s), NEW t, t.me = s.me, SameBook(s, t), t.client.queue = s.client.queue
  PROVE  Book(plan, t)
BY DEF Book, SameBook, Queued

LEMMA AtWorkFrame ==
  ASSUME NEW s, AtWork(s), NEW t, SameLink(s, t), SameBook(s, t), t.client = s.client,
         t.server = s.server \/ s.link # "down"
  PROVE  AtWork(t)
BY DEF AtWork, SameBook, SameLink, Unanswered

LEMMA UpdatingFrame ==
  ASSUME NEW s, Updating(plan, s), NEW t, t.me = s.me, t.next = s.next, t.reports = s.reports,
         t.server.indications = s.server.indications, t.server.indication = s.server.indication,
         t.server.timer = s.server.timer
  PROVE  Updating(plan, t)
BY DEF Updating, Waiting

LEMMA ValidFrame ==
  ASSUME NEW s, Valid(s), NEW t, t.me = s.me,
         \A p \in On(t.out) : p \in On(s.out) \/ p.op \notin {"MTU_REQ", "MTU_RSP"},
         t.server.state = s.server.state, t.server.request = s.server.request,
         t.server.mtu = s.server.mtu, t.server.exchanged = s.server.exchanged,
         t.client.known = s.client.known, t.client.mtu = s.client.mtu
  PROVE  Valid(t)
BY DEF Valid, CommonMtu

LEMMA AskingFrame ==
  ASSUME NEW s, NEW m, Asking(s, m), NEW t, t.link = s.link, Open(t) => Open(s),
         t.client.state = s.client.state, t.client.stage = s.client.stage,
         t.client.mtuState = s.client.mtuState, Alike(s.out, t.out, Requests),
         NEW u, u.server.state = m.server.state, u.server.request = m.server.request,
         Alike(m.out, u.out, Responses)
  PROVE  Asking(t, u)
<1>1. Underway(t, u) = Underway(s, m) /\ Working(t) = Working(s)
  BY DEF Underway, Working, Alike
<1>2. Awaited(t.client) = Awaited(s.client)
  BY DEF Awaited
<1>3. Fits(s, m) => Fits(t, u)
  BY <1>2 DEF Fits, Alike
<1>4. Exchange(s, m) => Exchange(t, u)
  BY DEF Exchange, Alike, Requests, Responses
<1> QED BY <1>1, <1>3, <1>4 DEF Asking

LEMMA AgreeingFrame ==
  ASSUME NEW s, NEW m, Agreeing(s, m), NEW t, t.link = s.link,
         t.server.exchanged = s.server.exchanged,
         NEW u, u.server.exchanged = m.server.exchanged, Alike(m.out, u.out, Responses)
  PROVE  Agreeing(t, u)
BY DEF Agreeing, Alike, Responses

LEMMA IndicatingFrame ==
  ASSUME NEW s, NEW m, Indicating(plan, s, m), NEW t, t.me = s.me, t.link = s.link,
         t.server.indication = s.server.indication, t.reports = s.reports,
         Alike(s.out, t.out, {"IND"}),
         NEW u, u.client.confirm = m.client.confirm, \A x : Heard(m, x) => Heard(u, x),
         Alike(m.out, u.out, {"CONFIRM"})
  PROVE  Indicating(plan, t, u)
BY DEF Indicating, Alike

LEMMA AlikeItself == \A o, S : Alike(o, o, S)
BY DEF Alike

(* The parts of a device.                                                  *)
LEMMA Parts ==
  ASSUME NEW s, Own(plan, s)
  PROVE  /\ s \in DeviceType(plan, s.me) /\ s.me \in Nodes /\ s.out \in Seq(PduType)
         /\ s.client \in ClientType(plan, s.me) /\ s.server \in ServerType
         /\ s.client.known => s.link # "down"
         /\ s.client.state # "READY" \/ s.client.confirm \/ s.client.mtuState # "DISABLED" =>
              s.client.known
<1>1. /\ s \in DeviceType(plan, s.me) /\ s.me \in Nodes /\ s.out \in Seq(PduType)
      /\ s.client \in ClientType(plan, s.me) /\ s.server \in ServerType
  BY DEF Own, DeviceType
<1>2. s.client.known => s.link # "down"
  BY DEF Own, AtWork, NoContext
<1>3. s.client.state # "READY" \/ s.client.confirm \/ s.client.mtuState # "DISABLED" =>
        s.client.known
  BY DEF Own, AtWork, NoContext
<1> QED BY <1>1, <1>2, <1>3

(* One part is replaced.                                                   *)
LEMMA WithClient ==
  ASSUME NEW s, s \in DeviceType(plan, s.me), NEW c \in ClientType(plan, s.me)
  PROVE  LET t == [s EXCEPT !.client = c]
         IN  /\ t \in DeviceType(plan, s.me) /\ SameLink(s, t) /\ SameBook(s, t) /\ SameNews(s, t)
             /\ t.client = c /\ t.server = s.server /\ t.out = s.out
BY DEF DeviceType, SameLink, SameBook, SameNews

LEMMA WithServer ==
  ASSUME NEW s, s \in DeviceType(plan, s.me), NEW v \in ServerType
  PROVE  LET t == [s EXCEPT !.server = v]
         IN  /\ t \in DeviceType(plan, s.me) /\ SameLink(s, t) /\ SameBook(s, t) /\ SameNews(s, t)
             /\ t.server = v /\ t.client = s.client /\ t.out = s.out
BY DEF DeviceType, SameLink, SameBook, SameNews

(* Nothing of this is changed.                                             *)
LEMMA SameKeeps ==
  ASSUME NEW s, NEW m, Good(plan, s, m), NEW t \in DeviceType(plan, s.me), Same(s, t)
  PROVE  Good(plan, t, m)
<1>1. Own(plan, t)
  BY BookFrame, AtWorkFrame, UpdatingFrame, ValidFrame DEF Good, Own, Same, SameLink, SameNews
<1>2. Pair(plan, t, m)
  BY LinksFrame, AskingFrame, AgreeingFrame, IndicatingFrame, AlikeItself
     DEF Good, Pair, Same, SameLink, SameNews, Open
<1>3. Pair(plan, m, t)
  BY LinksFrame, AskingFrame, AgreeingFrame, IndicatingFrame, AlikeItself
     DEF Good, Pair, Same, SameLink, SameNews, Heard
<1> QED BY <1>1, <1>2, <1>3 DEF Good, Same, SameLink

----------------------------------------------------------------------------
(* The queries of a client *)

(* Whoever asks to send is noted.                                          *)
LEMMA AskKeeps ==
  ASSUME NEW s, NEW m, Good(plan, s, m), NEW role \in {Server, Client}
  PROVE  Good(plan, Ask(s, role), m) /\ Same(s, Ask(s, role))
<1> DEFINE t == Ask(s, role)
<1>1. s \in DeviceType(plan, s.me)
  BY DEF Good, Own
<1>2. t \in DeviceType(plan, s.me) /\ Same(s, t)
  BY ZenonT(40), <1>1 DEF Ask, DeviceType, Same, SameLink, SameBook, SameNews
<1> QED BY <1>2, SameKeeps

(* No request waits for an answer, neither before nor after.               *)
LEMMA AskingIdle ==
  ASSUME NEW s, NEW m, Asking(s, m), s.out \in Seq(PduType), m.out \in Seq(PduType),
         NEW t, t.link = s.link, t.late = s.late, t.out = s.out,
         t.client.mtuState = s.client.mtuState, t.client.state # "WAIT",
         s.client.state # "WAIT" \/ ~Open(s) \/ s.link # "up"
  PROVE  Asking(t, m)
<1>1. SUFFICES ASSUME s.link = "up" PROVE Asking(t, m)
  BY DEF Asking
<1>2. Exchange(t, m)
  BY <1>1 DEF Asking, Exchange
<1>3. ASSUME Open(t) PROVE Underway(t, m) = (IF Working(t) THEN 1 ELSE 0) /\ Fits(t, m)
  <2>1. Open(s) /\ s.client.state # "WAIT"
    BY <1>1, <1>3 DEF Open
  <2>2. Underway(t, m) = (IF Working(t) THEN 1 ELSE 0) /\ Fits(s, m) /\ (Working(t) <=> Working(s))
    BY <1>1, <2>1 DEF Asking, Underway, Working
  <2>3. CASE Working(t)
    <3>1. Awaited(t.client) = Awaited(s.client)
      BY <2>1, <2>3 DEF Working, Awaited
    <3> QED BY <2>2, <3>1 DEF Fits
  <2>4. CASE ~Working(t)
    <3>1. Count(s.out, Requests) = 0 /\ Count(m.out, Responses) = 0 /\ m.server.state = "IDLE"
      BY <2>2, <2>4, PlacesFacts DEF Underway
    <3> QED BY <2>2, <3>1, PlacesFacts DEF Fits
  <2> QED BY <2>3, <2>4
<1> QED BY <1>1, <1>2, <1>3 DEF Asking

(* What a client does without sending.                                     *)
LEMMA ClientMoves ==
  ASSUME NEW s, NEW m, Good(plan, s, m),
         NEW t \in DeviceType(plan, s.me), SameLink(s, t), SameNews(s, t), t.out = s.out,
         t.server = s.server, t.client.known = s.client.known, t.client.mtu = s.client.mtu,
         t.client.mtuState = s.client.mtuState, t.client.confirm = s.client.confirm,
         t.client.state # "WAIT", s.client.state # "WAIT" \/ ~Open(s) \/ s.link # "up",
         Book(plan, t), AtWork(t)
  PROVE  Good(plan, t, m)
<1>1. s.out \in Seq(PduType) /\ m.out \in Seq(PduType)
  BY DEF Good, Own, DeviceType
<1>2. Own(plan, t)
  BY UpdatingFrame, ValidFrame DEF Good, Own, SameLink, SameNews
<1>3. Pair(plan, t, m)
  BY <1>1, LinksFrame, AskingIdle, AgreeingFrame, IndicatingFrame, AlikeItself
     DEF Good, Pair, SameLink, SameNews
<1>4. Pair(plan, m, t)
  BY LinksFrame, AskingFrame, AgreeingFrame, IndicatingFrame, AlikeItself
     DEF Good, Pair, SameLink, SameNews, Heard
<1> QED BY <1>2, <1>3, <1>4 DEF Good, SameLink

(* A query that may begin.                                                 *)
Free(s, q) ==
  /\ s.client.known /\ s.client.state = "READY"
  /\ q \in 1..s.todo - 1 /\ q \notin s.accepted \cup s.dropped \cup Queued(s)
  /\ plan[s.me].queries[q].kind # "command"

(* What the plans are made of.                                             *)
LEMMA PlanFacts ==
  ASSUME plan \in Plans, NEW n \in Nodes
  PROVE  /\ plan[n].queries \in Seq([kind : Kinds, how : {"call", "queue", "chain"}])
         /\ plan[n].updates \in Seq({"ntf", "ind"})
         /\ Len(plan[n].queries) \in Nat /\ Len(plan[n].updates) \in Nat
         /\ DOMAIN plan[n].queries = 1..Len(plan[n].queries)
         /\ DOMAIN plan[n].updates = 1..Len(plan[n].updates)
         /\ \A q \in 1..Len(plan[n].queries) :
              /\ plan[n].queries[q].kind \in Kinds
              /\ plan[n].queries[q].kind # "command" =>
                   FirstStage[plan[n].queries[q].kind] \in Stages
              /\ WriteLen[plan[n].queries[q].kind] \in Nat
              /\ plan[n].queries[q].kind = "command" => plan[n].queries[q].how = "call"
<1>1. plan \in [Nodes -> [queries : Seq([kind : Kinds, how : {"call", "queue", "chain"}]),
                          updates : Seq({"ntf", "ind"})]]
  BY BoundsAssumption
<1>2. /\ plan[n].queries \in Seq([kind : Kinds, how : {"call", "queue", "chain"}])
      /\ plan[n].updates \in Seq({"ntf", "ind"})
  BY <1>1
<1>3. /\ Len(plan[n].queries) \in Nat /\ Len(plan[n].updates) \in Nat
      /\ DOMAIN plan[n].queries = 1..Len(plan[n].queries)
      /\ DOMAIN plan[n].updates = 1..Len(plan[n].updates)
  BY <1>2, LenProperties
<1>4. ASSUME NEW q \in 1..Len(plan[n].queries)
      PROVE  /\ plan[n].queries[q].kind \in Kinds
             /\ plan[n].queries[q].kind # "command" =>
                  FirstStage[plan[n].queries[q].kind] \in Stages
             /\ WriteLen[plan[n].queries[q].kind] \in Nat
             /\ plan[n].queries[q].kind = "command" => plan[n].queries[q].how = "call"
  <2>1. plan[n].queries[q] \in [kind : Kinds, how : {"call", "queue", "chain"}]
    BY <1>2, ElementOfSeq
  <2>2. plan[n].queries[q].kind \in Kinds
    BY <2>1
  <2>3. \A k \in Kinds \ {"command"} : FirstStage[k] \in Stages
    BY DEF Kinds, FirstStage, Stages
  <2>4. WriteLen[plan[n].queries[q].kind] \in Nat
    BY <2>2, BoundsAssumption
  <2>5. plan[n].queries[q].kind = "command" => plan[n].queries[q].how = "call"
    BY <1>3, BoundsAssumption
  <2> QED BY <2>2, <2>3, <2>4, <2>5
<1> QED BY <1>2, <1>3, <1>4

(* A query begins.                                                         *)
LEMMA BeginKeeps ==
  ASSUME plan \in Plans, NEW s, NEW m, Good(plan, s, m), NEW q, Free(s, q)
  PROVE  /\ Good(plan, Begin(s, q), m)
         /\ Begin(s, q).client.known /\ Begin(s, q).client.state # "READY"
         /\ Begin(s, q).client.mtuState = s.client.mtuState
<1> DEFINE t == Begin(s, q)
           n == s.me
           N == Len(plan[n].queries)
<1>1. n \in Nodes /\ s \in DeviceType(plan, n) /\ s.link # "down"
  BY DEF Good, Own, Free, AtWork, NoContext
<1>2. N \in Nat /\ q \in 1..N /\ q \in Nat
  BY <1>1, PlanFacts DEF Free, DeviceType
<1>3. FirstStage[Query(s, q).kind] \in Stages /\ WriteLen[Query(s, q).kind] \in Nat
  BY <1>1, <1>2, PlanFacts DEF Free, Query, Queries
<1> DEFINE c == [s.client EXCEPT !.state = "SEND", !.stage = FirstStage[Query(s, q).kind],
                    !.callback = q, !.value = q, !.timer = TRUE, !.offset = 0, !.from = 1,
                    !.length = WriteLen[Query(s, q).kind]]
           a == s.accepted \cup {q}
           d == IF s.late THEN s.doubtful \cup {q} ELSE s.doubtful
<1>4. c \in ClientType(plan, s.me) /\ a \in SUBSET (1..N) /\ d \in SUBSET (1..N)
  BY <1>1, <1>2, <1>3 DEF DeviceType, ClientType
<1>5. t = [s EXCEPT !.client = c, !.accepted = a, !.doubtful = d]
  BY DEF Begin
<1>6. /\ t \in DeviceType(plan, n) /\ SameLink(s, t) /\ SameNews(s, t) /\ t.out = s.out
      /\ t.server = s.server /\ t.client = c
  <2> HIDE DEF c, a, d, t
  <2> QED BY <1>1, <1>4, <1>5 DEF DeviceType, SameLink, SameNews
<1>7. /\ t.todo = s.todo /\ t.dropped = s.dropped /\ t.answers = s.answers
      /\ t.accepted = a /\ t.doubtful = d
  <2> HIDE DEF c, a, d, t
  <2> QED BY <1>1, <1>5 DEF DeviceType
<1>8. /\ t.client.known /\ t.client.state = "SEND" /\ t.client.callback = q
      /\ t.client.stage \in Stages /\ t.client.queue = s.client.queue
      /\ t.client.mtu = s.client.mtu /\ t.client.mtuState = s.client.mtuState
      /\ t.client.confirm = s.client.confirm
  BY <1>1, <1>3, <1>6 DEF DeviceType, ClientType, Free
<1> HIDE DEF t, N
<1>9. Book(plan, t)
  BY <1>6, <1>7, <1>8 DEF Good, Own, Book, Free, Queued, SameLink
<1>10. AtWork(t)
  <2>1. s.answers[q] = <<>>
    BY <1>2 DEF Good, Own, Book, Free, N
  <2>2. ASSUME ~t.late, NEW x \in t.accepted
        PROVE  Unanswered(t, x) <=> t.client.state # "READY" /\ x = t.client.callback
    BY <1>6, <1>7, <1>8, <2>1, <2>2 DEF Good, Own, AtWork, Free, Unanswered, SameLink
  <2> QED BY <1>1, <1>6, <1>7, <1>8, <2>2 DEF AtWork, SameLink
<1>11. Good(plan, t, m)
  BY <1>6, <1>8, <1>9, <1>10, ClientMoves DEF Free
<1> QED BY <1>8, <1>11 DEF t

(* The query in work is answered.                                          *)
Done(s, status) ==
  [s EXCEPT !.client.state = "READY", !.client.timer = FALSE,
            !.answers[s.client.callback] = Append(@, status)]

LEMMA DoneFacts ==
  ASSUME NEW s, Own(plan, s), s.client.known, s.client.state # "READY" \/ s.late,
         NEW status \in Statuses
  PROVE  LET t == Done(s, status)
         IN  /\ t \in DeviceType(plan, s.me) /\ SameLink(s, t) /\ SameNews(s, t)
             /\ t.out = s.out /\ t.server = s.server /\ Book(plan, t) /\ AtWork(t)
             /\ t.client = [s.client EXCEPT !.state = "READY", !.timer = FALSE]
<1> DEFINE t == Done(s, status)
           n == s.me
           N == Len(plan[n].queries)
           c == [s.client EXCEPT !.state = "READY", !.timer = FALSE]
           q == s.client.callback
           a == [s.answers EXCEPT ![q] = Append(@, status)]
<1>1. s \in DeviceType(plan, n) /\ s.link # "down"
  BY DEF Own, AtWork, NoContext
<1>2. q \in s.accepted /\ q \in 1..N /\ (s.late => q \in s.doubtful)
  BY <1>1 DEF Own, AtWork, Book, DeviceType
<1>3. /\ s.answers \in [1..N -> Seq(Statuses)] /\ Append(s.answers[q], status) \in Seq(Statuses)
      /\ Append(s.answers[q], status) # <<>>
      /\ s.answers[q] = <<>> => Len(Append(s.answers[q], status)) = 1
  <2>1. s.answers \in [1..N -> Seq(Statuses)]
    BY <1>1 DEF DeviceType
  <2>2. s.answers[q] \in Seq(Statuses)
    BY <1>2, <2>1
  <2> QED BY <2>1, <2>2, AppendFacts
<1>4. /\ a \in [1..N -> Seq(Statuses)] /\ a[q] # <<>> /\ (s.answers[q] = <<>> => Len(a[q]) = 1)
      /\ \A x \in 1..N : x # q => a[x] = s.answers[x]
  BY <1>2, <1>3
<1>5. c \in ClientType(plan, s.me)
  BY <1>1 DEF DeviceType, ClientType
<1>6. t = [s EXCEPT !.client = c, !.answers = a]
  BY DEF Done
<1>7. /\ t \in DeviceType(plan, n) /\ SameLink(s, t) /\ SameNews(s, t) /\ t.out = s.out
      /\ t.server = s.server /\ t.client = c
      /\ t.todo = s.todo /\ t.accepted = s.accepted /\ t.dropped = s.dropped
      /\ t.doubtful = s.doubtful /\ t.answers = a
  <2> HIDE DEF c, a, t
  <2> QED BY <1>1, <1>4, <1>5, <1>6 DEF DeviceType, SameLink, SameNews
<1>8. /\ c.state = "READY" /\ c.known /\ c.callback = q /\ c.queue = s.client.queue
      /\ c.mtuState = s.client.mtuState
  BY <1>1 DEF DeviceType, ClientType
<1> HIDE DEF c, a, t
<1>9. ASSUME ~s.late PROVE s.answers[q] = <<>>
  BY <1>2, <1>9 DEF Own, AtWork, Unanswered, q
<1>10. ASSUME NEW x \in 1..N
       PROVE  /\ t.answers[x] # <<>> => x \in t.accepted
              /\ x \notin t.doubtful => Len(t.answers[x]) <= 1
  <2>1. CASE x = q
    <3>1. q \notin s.doubtful => ~s.late
      BY <1>2
    <3>2. q \notin s.doubtful => Len(a[q]) = 1
      BY <1>4, <1>9, <3>1
    <3>3. t.answers[x] = a[q] /\ t.doubtful = s.doubtful /\ x \in t.accepted
      BY <1>2, <1>7, <2>1
    <3>4. x \notin t.doubtful => Len(t.answers[x]) = 1
      BY <2>1, <3>2, <3>3
    <3>5. x \notin t.doubtful => Len(t.answers[x]) <= 1
      <4>1. 1 <= 1
        OBVIOUS
      <4> QED BY <3>4, <4>1, Zenon
    <3> QED BY <3>3, <3>5
  <2>2. CASE x # q
    BY <1>4, <1>7, <2>2 DEF Own, Book, N
  <2> QED BY <2>1, <2>2
<1>11. Book(plan, t)
  <2>1. Queued(t) = Queued(s) /\ t.me = n
    BY <1>7, <1>8 DEF Queued, SameLink
  <2> QED BY <1>7, <1>8, <1>10, <2>1 DEF Own, Book, N
<1>12. AtWork(t)
  <2>1. ASSUME ~t.late, NEW x \in t.accepted
        PROVE  Unanswered(t, x) <=> t.client.state # "READY" /\ x = t.client.callback
    <3>1. ~s.late /\ x \in s.accepted /\ x \in 1..N
      BY <1>1, <1>7, <2>1 DEF SameLink, DeviceType
    <3>2. CASE x = q
      BY <1>4, <1>7, <1>8, <3>2 DEF Unanswered
    <3>3. CASE x # q
      BY <1>4, <1>7, <1>8, <3>1, <3>3 DEF Own, AtWork, Unanswered, q
    <3> QED BY <3>2, <3>3
  <2> QED BY <1>1, <1>2, <1>7, <1>8, <2>1 DEF AtWork, SameLink
<1> QED BY <1>7, <1>11, <1>12 DEF t, c

LEMMA DoneKeeps ==
  ASSUME NEW s, NEW m, Good(plan, s, m), s.client.known, s.client.state # "READY" \/ s.late,
         s.client.state # "WAIT" \/ ~Open(s) \/ s.link # "up", NEW status \in Statuses
  PROVE  Good(plan, Done(s, status), m) /\ Done(s, status).client.known
<1> DEFINE t == Done(s, status)
<1>1. /\ t \in DeviceType(plan, s.me) /\ SameLink(s, t) /\ SameNews(s, t)
      /\ t.out = s.out /\ t.server = s.server /\ Book(plan, t) /\ AtWork(t)
      /\ t.client = [s.client EXCEPT !.state = "READY", !.timer = FALSE]
  BY DoneFacts DEF Good
<1> HIDE DEF t
<1>2. s.client \in ClientType(plan, s.me)
  BY DEF Good, Own, DeviceType
<1>3. /\ t.client.known = s.client.known /\ t.client.mtu = s.client.mtu
      /\ t.client.mtuState = s.client.mtuState /\ t.client.confirm = s.client.confirm
      /\ t.client.state = "READY"
  BY <1>1, <1>2 DEF ClientType
<1>4. Good(plan, t, m)
  BY <1>1, <1>3, ClientMoves
<1> QED BY <1>3, <1>4 DEF t

(* The next query that waits begins.                                       *)
LEMMA NextQueryKeeps ==
  ASSUME plan \in Plans, NEW s, NEW m, Good(plan, s, m)
  PROVE  /\ Good(plan, NextQuery(s), m) /\ (s.client.known => NextQuery(s).client.known)
         /\ NextQuery(s).client.mtuState = s.client.mtuState
<1>1. CASE s.client.state # "READY" \/ s.client.queue = <<>>
  BY <1>1 DEF NextQuery
<1>2. CASE s.client.state = "READY" /\ s.client.queue # <<>>
  <2> DEFINE c == [s.client EXCEPT !.queue = Tail(s.client.queue)]
             q == Head(s.client.queue)
             old == s.client.queue
             t == [s EXCEPT !.client = c]
  <2>1. s \in DeviceType(plan, s.me) /\ old \in Seq(Nat) /\ s.client \in ClientType(plan, s.me)
    BY DEF Good, Own, DeviceType, ClientType
  <2>2. s.client.known
    BY <1>2 DEF Good, Own, AtWork, NoContext
  <2>3. Book(plan, s) /\ Distinct(old) /\ Queued(s) = Elements(old)
    BY DEF Good, Own, Book, Distinct, Elements, Queued
  <2>4. /\ Tail(old) \in Seq(Nat) /\ Distinct(Tail(old)) /\ q \in Elements(old)
        /\ Elements(Tail(old)) \subseteq Elements(old) /\ q \notin Elements(Tail(old))
    BY <1>2, <2>1, <2>3, TailDistinct
  <2>5. /\ c \in ClientType(plan, s.me) /\ c.known /\ c.state = "READY"
        /\ c.callback = s.client.callback /\ c.mtu = s.client.mtu
        /\ c.mtuState = s.client.mtuState /\ c.confirm = s.client.confirm /\ c.queue = Tail(old)
    BY <1>2, <2>1, <2>2, <2>4 DEF ClientType
  <2>6. /\ t \in DeviceType(plan, s.me) /\ SameLink(s, t) /\ SameBook(s, t) /\ SameNews(s, t)
        /\ t.out = s.out /\ t.server = s.server /\ t.client = c
    <3> HIDE DEF c
    <3> QED BY <2>1, <2>5 DEF DeviceType, SameLink, SameBook, SameNews
  <2> HIDE DEF c, t
  <2>7. Queued(t) = Elements(Tail(old))
    BY <2>5, <2>6 DEF Queued, Elements
  <2>8. Book(plan, t)
    <3>1. \A i, j \in 1..Len(t.client.queue) :
            t.client.queue[i] = t.client.queue[j] => i = j
      BY <2>4, <2>5, <2>6 DEF Distinct
    <3> QED BY <2>3, <2>4, <2>6, <2>7, <3>1 DEF Book, SameBook, SameLink
  <2>9. AtWork(t)
    BY <1>2, <2>2, <2>5, <2>6 DEF Good, Own, AtWork, Unanswered, SameBook, SameLink, NoContext
  <2>10. Good(plan, t, m)
    BY <1>2, <2>2, <2>5, <2>6, <2>8, <2>9, ClientMoves
  <2>11. Free(t, q)
    BY <2>3, <2>4, <2>5, <2>6, <2>7 DEF Book, Free, SameBook, SameLink
  <2>12. NextQuery(s) = Begin(t, q)
    BY <1>2 DEF NextQuery, t, c
  <2> QED BY <2>5, <2>6, <2>10, <2>11, <2>12, BeginKeeps
<1> QED BY <1>1, <1>2, Zenon

(* What a client notes while its transaction goes on.                      *)
LEMMA ClientNotes ==
  ASSUME NEW s, NEW m, Good(plan, s, m),
         NEW t \in DeviceType(plan, s.me), SameLink(s, t), SameNews(s, t), t.out = s.out,
         t.server = s.server, t.client.known = s.client.known, t.client.mtu = s.client.mtu,
         t.client.mtuState = s.client.mtuState, t.client.confirm = s.client.confirm,
         t.client.state = s.client.state, t.client.stage = s.client.stage,
         Book(plan, t), AtWork(t)
  PROVE  Good(plan, t, m)
<1>1. Own(plan, t)
  BY UpdatingFrame, ValidFrame DEF Good, Own, SameLink, SameNews
<1>2. Pair(plan, t, m)
  BY LinksFrame, AskingFrame, AgreeingFrame, IndicatingFrame, AlikeItself
     DEF Good, Pair, SameLink, SameNews, Open
<1>3. Pair(plan, m, t)
  BY LinksFrame, AskingFrame, AgreeingFrame, IndicatingFrame, AlikeItself
     DEF Good, Pair, SameLink, SameNews, Heard
<1> QED BY <1>1, <1>2, <1>3 DEF Good, SameLink

(* The application takes its next query up.                                *)
LEMMA TodoKeeps ==
  ASSUME plan \in Plans, NEW s, NEW m, Good(plan, s, m), s.todo \in DOMAIN Queries(s.me)
  PROVE  LET t == [s EXCEPT !.todo = @ + 1]
         IN  /\ Good(plan, t, m) /\ t.todo = s.todo + 1 /\ s.todo \in 1..t.todo - 1
             /\ t.me = s.me /\ t.client = s.client /\ t.link = s.link
             /\ s.todo \notin t.accepted \cup t.dropped \cup Queued(t)
<1> DEFINE t == [s EXCEPT !.todo = @ + 1]
           N == Len(plan[s.me].queries)
<1>1. s \in DeviceType(plan, s.me) /\ s.me \in Nodes
  BY DEF Good, Own
<1>2. N \in Nat /\ s.todo \in 1..N
  BY <1>1, PlanFacts DEF Queries
<1>3. /\ t \in DeviceType(plan, s.me) /\ SameLink(s, t) /\ SameNews(s, t) /\ t.out = s.out
      /\ t.server = s.server /\ t.client = s.client /\ t.todo = s.todo + 1
      /\ t.accepted = s.accepted /\ t.dropped = s.dropped /\ t.doubtful = s.doubtful
      /\ t.answers = s.answers
  <2>1. s.todo + 1 \in 1..Len(plan[s.me].queries) + 1
    BY <1>2
  <2> QED BY <1>1, <2>1 DEF DeviceType, SameLink, SameNews
<1> HIDE DEF t
<1>4. 1..s.todo - 1 \subseteq 1..t.todo - 1 /\ s.todo \in 1..t.todo - 1 /\ s.todo \notin 1..s.todo - 1
  BY <1>2, <1>3
<1>5. Book(plan, t)
  BY <1>3, <1>4 DEF Good, Own, Book, Queued, SameLink
<1>6. AtWork(t)
  BY <1>3 DEF Good, Own, AtWork, Unanswered, SameLink
<1>7. Good(plan, t, m)
  BY <1>3, <1>5, <1>6, ClientNotes
<1>8. s.todo \notin t.accepted \cup t.dropped \cup Queued(t)
  BY <1>3, <1>4 DEF Good, Own, Book, Queued
<1> QED BY <1>3, <1>4, <1>7, <1>8 DEF t, SameLink

(* A query is finished; the client may go on from the handler, and the     *)
(* next query may begin.                                                   *)
LEMMA FinishKeeps ==
  ASSUME plan \in Plans, NEW s, NEW m, s \in DeviceType(plan, s.me), NEW status,
         Good(plan, Done(s, status), m), Done(s, status).client.known
  PROVE  /\ Good(plan, Finish(s, status), m) /\ Finish(s, status).client.known
         /\ Finish(s, status).client.mtuState = s.client.mtuState
<1> DEFINE d == Done(s, status)
           r == [s EXCEPT !.client.state = "READY", !.client.timer = FALSE]
           q == d.todo
           chained == /\ q \in DOMAIN Queries(d.me) /\ Query(d, q).how = "chain"
                      /\ d.client.callback = q - 1 /\ status # "disconnected"
           g == [d EXCEPT !.todo = @ + 1]
           e == Emit(r, status)
<1>1. /\ d.me = s.me /\ r.me = s.me /\ r.todo = q /\ r.client = d.client
      /\ d.client.mtuState = s.client.mtuState
      /\ d.client.callback = s.client.callback /\ d.client.state = "READY"
      /\ d = [r EXCEPT !.answers[r.client.callback] = Append(@, status)]
  BY DEF Done, DeviceType, ClientType
<1>2. e = IF chained THEN Begin(g, q) ELSE d
  <2> DEFINE x == [r EXCEPT !.answers[r.client.callback] = Append(@, status)]
  <2>1. e = IF /\ r.todo \in DOMAIN Queries(r.me) /\ Query(r, r.todo).how = "chain"
               /\ r.client.callback = r.todo - 1 /\ status # "disconnected"
            THEN Begin([x EXCEPT !.todo = @ + 1], r.todo) ELSE x
    BY DEF Emit
  <2>2. d = x /\ Query(d, q) = Query(r, q)
    BY <1>1 DEF Query
  <2> HIDE DEF d, r, x
  <2> QED BY <1>1, <2>1, <2>2
<1> HIDE DEF d, r, chained
<1>3. Good(plan, e, m) /\ e.client.known /\ e.client.mtuState = s.client.mtuState
  <2>1. CASE chained
    <3>1. q \in DOMAIN Queries(d.me) /\ Query(d, q).how = "chain" /\ s.me \in Nodes
      BY <1>1, <2>1 DEF chained, Good, Own, d
    <3>2. plan[s.me].queries[q].kind # "command"
      BY <1>1, <3>1, PlanFacts DEF Query, Queries
    <3>3. /\ Good(plan, g, m) /\ g.todo = q + 1 /\ q \in 1..g.todo - 1 /\ g.me = d.me
          /\ g.client = d.client /\ q \notin g.accepted \cup g.dropped \cup Queued(g)
      BY <3>1, TodoKeeps DEF d
    <3> HIDE DEF g
    <3>4. Free(g, q)
      BY <1>1, <3>2, <3>3 DEF Free, d
    <3> QED BY <1>1, <1>2, <2>1, <3>3, <3>4, BeginKeeps
  <2>2. CASE ~chained
    BY <1>1, <1>2, <2>2 DEF d
  <2> QED BY <2>1, <2>2
<1>4. Finish(s, status) = NextQuery(e)
  BY DEF Finish, With, e, r
<1> QED BY <1>3, <1>4, NextQueryKeeps

(* Writes that are too long are refused, one after the other.              *)
LEMMA RefuseOneKeeps ==
  ASSUME plan \in Plans, NEW s, NEW m, Good(plan, s, m), s.client.known
  PROVE  /\ Good(plan, RefuseOne(s), m) /\ RefuseOne(s).client.known
         /\ RefuseOne(s).client.mtuState = s.client.mtuState
<1>1. CASE Refusable(s)
  <2>1. /\ s.client.state # "READY" /\ s.client.state # "WAIT" /\ "length" \in Statuses
        /\ s \in DeviceType(plan, s.me)
    BY <1>1 DEF Refusable, Statuses, Good, Own
  <2>2. Good(plan, Done(s, "length"), m) /\ Done(s, "length").client.known
    BY <2>1, DoneKeeps
  <2> QED BY <1>1, <2>1, <2>2, FinishKeeps DEF RefuseOne
<1>2. CASE ~Refusable(s)
  BY <1>2 DEF RefuseOne
<1> QED BY <1>1, <1>2

LEMMA RefuseKeeps ==
  ASSUME plan \in Plans, NEW s, NEW m, Good(plan, s, m), s.client.known
  PROVE  /\ Good(plan, Refuse(s), m) /\ Refuse(s).client.known
         /\ Refuse(s).client.mtuState = s.client.mtuState
<1> DEFINE n == Len(Queries(s.me))
           S == {t \in DeviceType(plan, s.me) :
                   Good(plan, t, m) /\ t.client.known /\ t.client.mtuState = s.client.mtuState}
           R == [i \in 1..n |-> [t \in S |-> RefuseOne(t)]]
           Run(g) == g = [k \in 0..n |-> IF k = 0 THEN s ELSE With(g[k - 1], RefuseOne)]
           after == CHOOSE g : Run(g)
<1>1. n \in Nat /\ s.me \in Nodes /\ s \in S
  BY PlanFacts DEF Good, Own, Queries
<1>2. ASSUME NEW t \in S PROVE RefuseOne(t) \in S
  <2>1. /\ Good(plan, RefuseOne(t), m) /\ RefuseOne(t).client.known
        /\ RefuseOne(t).client.mtuState = s.client.mtuState
    BY RefuseOneKeeps
  <2>2. RefuseOne(t).me = s.me
    <3>1. m.me = Peer(s.me) /\ m.me = Peer(RefuseOne(t).me) /\ RefuseOne(t).me \in Nodes
      BY <2>1 DEF Good, Own
    <3> QED BY <1>1, <3>1, Peers
  <2> QED BY <2>1, <2>2 DEF Good, Own
<1> HIDE DEF S, n
<1>3. PICK h : Iterates(h, n, s, R)
  BY <1>1, LoopExists
<1>4. ASSUME NEW i \in 1..n, NEW t \in S PROVE R[i][t] = RefuseOne(t)
  OBVIOUS
<1> HIDE DEF R
<1>5. h = [k \in 0..n |-> IF k = 0 THEN s ELSE R[k][h[k - 1]]]
  BY <1>3 DEF Iterates
<1>6. \A i \in 0..n : h[i] \in S
  <2> DEFINE G == [i \in 0..n |-> S]
  <2>1. h[0] \in G[0]
    BY <1>1, <1>5
  <2>2. ASSUME NEW i \in 1..n, h[i - 1] \in G[i - 1] PROVE h[i] \in G[i]
    <3>1. i - 1 \in 0..n /\ i \in 0..n /\ i # 0
      BY <1>1
    <3>2. h[i - 1] \in S
      BY <2>2, <3>1
    <3>3. h[i] = RefuseOne(h[i - 1])
      BY <1>4, <1>5, <3>1, <3>2
    <3> QED BY <1>2, <3>1, <3>2, <3>3
  <2> HIDE DEF G
  <2>3. \A i \in 0..n : h[i] \in G[i]
    BY <1>1, <2>1, <2>2, LoopIn
  <2> QED BY <2>3 DEF G
<1>7. Run(h)
  <2>1. \A k \in 0..n : (IF k = 0 THEN s ELSE R[k][h[k - 1]])
                        = (IF k = 0 THEN s ELSE With(h[k - 1], RefuseOne))
    <3>1. SUFFICES ASSUME NEW k \in 0..n, k # 0 PROVE R[k][h[k - 1]] = With(h[k - 1], RefuseOne)
      OBVIOUS
    <3>2. k - 1 \in 0..n /\ k \in 1..n
      BY <1>1, <3>1
    <3>3. R[k][h[k - 1]] = RefuseOne(h[k - 1])
      BY <1>4, <1>6, <3>2
    <3> QED BY <3>3 DEF With
  <2> QED BY <1>5, <2>1
<1>8. Run(after)
  BY <1>7
<1>9. after[n] \in S
  <2> HIDE DEF after
  <2>1. after = [k \in 0..n |-> IF k = 0 THEN s ELSE With(after[k - 1], RefuseOne)]
    BY <1>8
  <2> DEFINE G == [i \in 0..n |-> S]
  <2>2. after[0] \in G[0]
    BY <1>1, <2>1
  <2>3. ASSUME NEW i \in 1..n, after[i - 1] \in G[i - 1] PROVE after[i] \in G[i]
    <3>1. i - 1 \in 0..n /\ i \in 0..n /\ i # 0
      BY <1>1
    <3>2. after[i] = With(after[i - 1], RefuseOne)
      BY <2>1, <3>1
    <3>3. after[i] = RefuseOne(after[i - 1])
      BY <3>2 DEF With
    <3> QED BY <1>2, <2>3, <3>1, <3>3
  <2> HIDE DEF G
  <2>4. \A i \in 0..n : after[i] \in G[i]
    BY <1>1, <2>2, <2>3, LoopIn
  <2>5. n \in 0..n
    BY <1>1
  <2> QED BY <2>4, <2>5 DEF G
<1>10. Refuse(s) = after[n]
  BY DEF Refuse, after, Run, n
<1> QED BY <1>9, <1>10 DEF S

----------------------------------------------------------------------------
(* What a device sends *)

Put(s, p) == IF s.link = "up" THEN Append(s.out, p) ELSE s.out

LEMMA PutFacts ==
  ASSUME NEW s, s.out \in Seq(PduType), NEW p \in PduType
  PROVE  /\ Put(s, p) \in Seq(PduType)
         /\ Put(s, p) = s.out \/ s.link = "up"
         /\ \A x \in On(Put(s, p)) : x \in On(s.out) \/ x = p
         /\ \A S : p.op \notin S => Alike(s.out, Put(s, p), S)
         /\ s.link = "up" =>
              /\ p \in On(Put(s, p))
              /\ On(Put(s, p)) = On(s.out) \cup {p}
              /\ \A S : Count(Put(s, p), S) = Count(s.out, S) + IF p.op \in S THEN 1 ELSE 0
<1>1. CASE s.link = "up"
  <2>1. Put(s, p) = Append(s.out, p)
    BY <1>1 DEF Put
  <2> QED BY <1>1, <2>1, CountAppend
<1>2. CASE s.link # "up"
  <2>1. Put(s, p) = s.out
    BY <1>2 DEF Put
  <2> QED BY <1>2, <2>1, AlikeItself
<1> QED BY <1>1, <1>2

LEMMA TransmitFacts ==
  ASSUME NEW n, NEW s \in DeviceType(plan, n), NEW p \in PduType
  PROVE  LET t == Transmit(s, p)
         IN  /\ t \in DeviceType(plan, n) /\ SameLink(s, t) /\ SameBook(s, t) /\ SameNews(s, t)
             /\ t.client = s.client /\ t.server = s.server /\ t.out = Put(s, p)
<1> DEFINE o == Put(s, p)
           t == Transmit(s, p)
<1>1. o \in Seq(PduType)
  BY PutFacts DEF DeviceType
<1>2. t = [s EXCEPT !.busy = TRUE, !.out = o]
  BY DEF Transmit, Put
<1> HIDE DEF o, t
<1>3. /\ t \in DeviceType(plan, n) /\ SameLink(s, t) /\ SameBook(s, t) /\ SameNews(s, t)
      /\ t.client = s.client /\ t.server = s.server /\ t.out = o
  BY <1>1, <1>2 DEF DeviceType, SameLink, SameBook, SameNews
<1> QED BY <1>3 DEF t, o

(* An MTU is one of two numbers.                                           *)
LEMMA MtuFacts ==
  ASSUME NEW s, s.me \in Nodes, Valid(s)
  PROVE  /\ CommonMtu(s) \in Nat /\ CommonMtu(s) > 5
         /\ s.server.mtu \in Nat /\ s.server.mtu > 5
         /\ s.client.known => s.client.mtu = s.server.mtu
<1>1. /\ MaxMtu[s.me] \in Nat /\ MaxMtu[Peer(s.me)] \in Nat /\ DefaultMtu \in Nat
      /\ DefaultMtu > 5 /\ MaxMtu[s.me] >= DefaultMtu /\ MaxMtu[Peer(s.me)] >= DefaultMtu
  BY Peers, BoundsAssumption
<1>2. CommonMtu(s) \in Nat /\ CommonMtu(s) > 5
  BY <1>1 DEF CommonMtu, Smaller
<1> QED BY <1>1, <1>2 DEF Valid

(* The PDU of a stage.                                                     *)
LEMMA RequestFacts ==
  ASSUME NEW n, NEW c \in ClientType(plan, n), c.stage \in Stages, c.mtu > 5
  PROVE  /\ Request(c) \in PduType /\ Request(c).op = RequestOf[c.stage]
         /\ RequestOf[c.stage] \in Requests \ {"MTU_REQ"}
<1>1. NoPdu \in PduType /\ \A op \in Ops : Pdu(op) \in PduType /\ Pdu(op).op = op
  BY DEF NoPdu, Pdu, PduType, Ops, Codes
<1>3. /\ c.offset \in Nat /\ c.from \in Nat /\ c.value \in Nat /\ c.length \in Nat
      /\ c.mtu \in Nat
  BY DEF ClientType
<1>4. WriteBlob(c) \in Nat
  BY <1>3 DEF WriteBlob, Smaller
<1>5. Requests \subseteq Ops /\ \A x \in Stages : RequestOf[x] \in Requests \ {"MTU_REQ"}
  BY DEF Requests, Ops, Stages, RequestOf
<1>6. Request(c) \in PduType /\ Request(c).op = RequestOf[c.stage]
  <2>1. CASE c.stage = "read"
    <3>1. Request(c) = Pdu("READ_REQ")
      BY <2>1 DEF Request
    <3>2. RequestOf[c.stage] = "READ_REQ" /\ "READ_REQ" \in Ops
      BY <2>1 DEF RequestOf, Ops, Requests
    <3> QED BY <1>1, <3>1, <3>2
  <2>2. CASE c.stage = "ccc"
    <3>1. Request(c) = Pdu("TYPE_REQ")
      BY <2>2 DEF Request
    <3>2. RequestOf[c.stage] = "TYPE_REQ" /\ "TYPE_REQ" \in Ops
      BY <2>2 DEF RequestOf, Ops, Requests
    <3> QED BY <1>1, <3>1, <3>2
  <2>3. CASE c.stage = "cancel"
    <3>1. Request(c) = Pdu("EXECUTE_REQ")
      BY <2>3 DEF Request
    <3>2. RequestOf[c.stage] = "EXECUTE_REQ" /\ "EXECUTE_REQ" \in Ops
      BY <2>3 DEF RequestOf, Ops, Requests
    <3> QED BY <1>1, <3>1, <3>2
  <2>4. CASE c.stage = "blob"
    <3>1. Request(c) = [Pdu("BLOB_REQ") EXCEPT !.off = c.offset]
      BY <2>4 DEF Request
    <3>2. RequestOf[c.stage] = "BLOB_REQ" /\ "BLOB_REQ" \in Ops
      BY <2>4 DEF RequestOf, Ops, Requests
    <3> QED BY <1>1, <1>3, <3>1, <3>2 DEF PduType
  <2>5. CASE c.stage = "find"
    <3>1. Request(c) = [Pdu("FIND_REQ") EXCEPT !.off = c.from]
      BY <2>5 DEF Request
    <3>2. RequestOf[c.stage] = "FIND_REQ" /\ "FIND_REQ" \in Ops
      BY <2>5 DEF RequestOf, Ops, Requests
    <3> QED BY <1>1, <1>3, <3>1, <3>2 DEF PduType
  <2>6. CASE c.stage = "execute"
    <3>1. Request(c) = [Pdu("EXECUTE_REQ") EXCEPT !.len = 1]
      BY <2>6 DEF Request
    <3>2. RequestOf[c.stage] = "EXECUTE_REQ" /\ "EXECUTE_REQ" \in Ops
      BY <2>6 DEF RequestOf, Ops, Requests
    <3> QED BY <1>1, <3>1, <3>2 DEF PduType
  <2>7. CASE c.stage = "write"
    <3>1. Request(c) = [Pdu("WRITE_REQ") EXCEPT !.q = c.value, !.len = c.length]
      BY <2>7 DEF Request
    <3>2. RequestOf[c.stage] = "WRITE_REQ" /\ "WRITE_REQ" \in Ops
      BY <2>7 DEF RequestOf, Ops, Requests
    <3> QED BY <1>1, <1>3, <3>1, <3>2 DEF PduType
  <2>8. CASE c.stage = "cccWrite"
    <3>1. Request(c) = [Pdu("WRITE_REQ") EXCEPT !.q = c.value, !.len = c.length]
      BY <2>8 DEF Request
    <3>2. RequestOf[c.stage] = "WRITE_REQ" /\ "WRITE_REQ" \in Ops
      BY <2>8 DEF RequestOf, Ops, Requests
    <3> QED BY <1>1, <1>3, <3>1, <3>2 DEF PduType
  <2>9. CASE c.stage = "prepare"
    <3>1. Request(c) = [Pdu("PREPARE_REQ") EXCEPT !.q = c.value, !.off = c.offset, !.len = WriteBlob(c)]
      BY <2>9 DEF Request
    <3>2. RequestOf[c.stage] = "PREPARE_REQ" /\ "PREPARE_REQ" \in Ops
      BY <2>9 DEF RequestOf, Ops, Requests
    <3> QED BY <1>1, <1>3, <1>4, <3>1, <3>2 DEF PduType
  <2>10. CASE c.stage = "reliable"
    <3>1. Request(c) = [Pdu("PREPARE_REQ") EXCEPT !.q = c.value, !.off = c.offset, !.len = WriteBlob(c)]
      BY <2>10 DEF Request
    <3>2. RequestOf[c.stage] = "PREPARE_REQ" /\ "PREPARE_REQ" \in Ops
      BY <2>10 DEF RequestOf, Ops, Requests
    <3> QED BY <1>1, <1>3, <1>4, <3>1, <3>2 DEF PduType
  <2> QED BY <2>1, <2>2, <2>3, <2>4, <2>5, <2>6, <2>7, <2>8, <2>9, <2>10 DEF Stages
<1> QED BY <1>5, <1>6

(* A request goes out when no other is underway.                           *)
LEMMA AskingStarts ==
  ASSUME NEW s, NEW m, Asking(s, m), s.out \in Seq(PduType), m.out \in Seq(PduType),
         NEW p \in PduType, p.op \in Requests, ~Working(s),
         NEW t, t.link = s.link, t.late = s.late, t.out = Put(s, p), Working(t),
         Open(t) => Open(s) /\ p.op = Awaited(t.client),
         p.op = "MTU_REQ" => t.client.mtuState = "SENT"
  PROVE  Asking(t, m)
<1>1. SUFFICES ASSUME s.link = "up" PROVE Asking(t, m)
  BY DEF Asking
<1>2. On(t.out) = On(s.out) \cup {p} /\ Count(t.out, Requests) = Count(s.out, Requests) + 1
  BY <1>1, PutFacts
<1>3. Exchange(t, m)
  BY <1>1, <1>2 DEF Asking, Exchange, Working
<1>4. ASSUME Open(t) PROVE Underway(t, m) = 1 /\ Fits(t, m)
  <2>1. Underway(s, m) = 0
    BY <1>1, <1>4 DEF Asking
  <2>2. Count(s.out, Requests) = 0 /\ Count(m.out, Responses) = 0 /\ m.server.state = "IDLE"
    BY <2>1, PlacesFacts DEF Underway
  <2>3. Underway(t, m) = 1
    BY <1>2, <2>2 DEF Underway
  <2> QED BY <1>2, <1>4, <2>2, <2>3, PlacesFacts DEF Fits
<1> QED BY <1>1, <1>3, <1>4 DEF Asking

LEMMA SendRequestKeeps ==
  ASSUME NEW s, NEW m, Good(plan, s, m), s.client.state = "SEND",
         s.client.mtuState \notin {"SEND", "SENT"}
  PROVE  Good(plan, SendRequest(s), m)
<1> DEFINE c == [s.client EXCEPT !.state = "WAIT"]
           w == [s EXCEPT !.client = c]
           p == Request(s.client)
           t == Transmit(w, p)
<1>1. /\ s \in DeviceType(plan, s.me) /\ s.client \in ClientType(plan, s.me) /\ s.out \in Seq(PduType)
      /\ m.out \in Seq(PduType) /\ s.me \in Nodes
  BY DEF Good, Own, DeviceType
<1>2. s.client.known /\ s.client.stage \in Stages /\ s.client.mtu > 5
  BY MtuFacts DEF Good, Own, AtWork
<1>3. p \in PduType /\ p.op = RequestOf[s.client.stage] /\ p.op \in Requests \ {"MTU_REQ"}
  BY <1>1, <1>2, RequestFacts
<1>4. /\ c \in ClientType(plan, s.me) /\ c.state = "WAIT" /\ c.known = s.client.known
      /\ c.stage = s.client.stage /\ c.callback = s.client.callback
      /\ c.mtu = s.client.mtu /\ c.mtuState = s.client.mtuState
      /\ c.confirm = s.client.confirm /\ c.queue = s.client.queue
  BY <1>1 DEF ClientType
<1> HIDE DEF c, p
<1>5. /\ w \in DeviceType(plan, s.me) /\ SameLink(s, w) /\ SameBook(s, w) /\ SameNews(s, w)
      /\ w.client = c /\ w.server = s.server /\ w.out = s.out
  BY <1>1, <1>4 DEF DeviceType, SameLink, SameBook, SameNews
<1> HIDE DEF w
<1>6. /\ t \in DeviceType(plan, s.me) /\ SameLink(s, t) /\ SameBook(s, t) /\ SameNews(s, t)
      /\ t.client = c /\ t.server = s.server /\ t.out = Put(s, p)
  BY <1>3, <1>5, TransmitFacts DEF SameLink, SameBook, SameNews, Put
<1> HIDE DEF t
<1>7. /\ \A S : p.op \notin S => Alike(s.out, t.out, S)
      /\ t.out = s.out \/ s.link = "up"
      /\ \A x \in On(t.out) : x \in On(s.out) \/ x.op \notin {"MTU_REQ", "MTU_RSP"}
  BY <1>1, <1>3, <1>6, PutFacts DEF Requests
<1>8. p.op \notin Responses /\ p.op # "IND" /\ p.op # "CONFIRM"
  BY <1>3 DEF Requests, Responses
<1>9. Own(plan, t)
  <2>1. Book(plan, t) /\ Updating(plan, t) /\ Valid(t)
    BY <1>4, <1>6, <1>7, BookFrame, UpdatingFrame, ValidFrame DEF Good, Own, SameLink, SameNews
  <2>2. AtWork(t)
    <3>1. AtWork(s) /\ s.link # "down"
      BY <1>2 DEF Good, Own, AtWork, NoContext
    <3>2. ASSUME ~t.late, NEW x \in t.accepted
          PROVE  Unanswered(t, x) <=> t.client.state # "READY" /\ x = t.client.callback
      BY <1>4, <1>6, <3>1, <3>2 DEF AtWork, Unanswered, SameLink, SameBook
    <3> QED BY <1>2, <1>4, <1>6, <3>1, <3>2 DEF AtWork, SameLink, SameBook
  <2> QED BY <1>1, <1>6, <2>1, <2>2 DEF Own, SameLink
<1>10. Pair(plan, t, m)
  <2>1. Asking(t, m)
    <3>1. Open(t) => Open(s) /\ p.op = Awaited(t.client)
      BY <1>3, <1>4, <1>6 DEF Open, Awaited, SameLink
    <3>2. ~Working(s) /\ Working(t)
      BY <1>4, <1>6 DEF Working
    <3> QED BY <1>1, <1>3, <1>6, <3>1, <3>2, AskingStarts DEF Good, Pair, SameLink
  <2>2. Links(t, m) /\ Agreeing(t, m) /\ Indicating(plan, t, m)
    BY <1>6, <1>7, <1>8, LinksFrame, AgreeingFrame, IndicatingFrame, AlikeItself
       DEF Good, Pair, SameLink, SameNews
  <2> QED BY <2>1, <2>2 DEF Pair
<1>11. Pair(plan, m, t)
  BY <1>4, <1>6, <1>7, <1>8, LinksFrame, AskingFrame, AgreeingFrame, IndicatingFrame, AlikeItself
     DEF Good, Pair, SameLink, SameNews, Heard
<1>12. Good(plan, t, m)
  BY <1>6, <1>9, <1>10, <1>11 DEF Good, SameLink
<1>13. SendRequest(s) = Ask(t, Client)
  BY DEF SendRequest, Sent, t, w, c, p
<1> QED BY <1>12, <1>13, AskKeeps

(* A client asks for the MTU of the server.                                *)
LEMMA SendMtuKeeps ==
  ASSUME NEW s, NEW m, Good(plan, s, m), s.client.mtuState = "SEND"
  PROVE  LET p == [Pdu("MTU_REQ") EXCEPT !.len = MaxMtu[s.me]]
         IN  Good(plan, Sent(Transmit([s EXCEPT !.client.mtuState = "SENT"], p)), m)
<1> DEFINE c == [s.client EXCEPT !.mtuState = "SENT"]
           w == [s EXCEPT !.client = c]
           p == [Pdu("MTU_REQ") EXCEPT !.len = MaxMtu[s.me]]
           t == Transmit(w, p)
<1>1. /\ s \in DeviceType(plan, s.me) /\ s.client \in ClientType(plan, s.me) /\ s.out \in Seq(PduType)
      /\ m.out \in Seq(PduType) /\ s.me \in Nodes
  BY DEF Good, Own, DeviceType
<1>2. s.client.known /\ s.client.state # "WAIT" /\ s.link # "down"
  BY DEF Good, Own, AtWork, NoContext
<1>3. p \in PduType /\ p.op = "MTU_REQ" /\ p.len = MaxMtu[s.me]
  BY <1>1, BoundsAssumption DEF Pdu, NoPdu, PduType, Ops, Requests, Codes
<1>4. /\ c \in ClientType(plan, s.me) /\ c.state = s.client.state /\ c.known = s.client.known
      /\ c.stage = s.client.stage /\ c.callback = s.client.callback
      /\ c.mtu = s.client.mtu /\ c.mtuState = "SENT"
      /\ c.confirm = s.client.confirm /\ c.queue = s.client.queue
  BY <1>1 DEF ClientType
<1> HIDE DEF c, p
<1>5. /\ w \in DeviceType(plan, s.me) /\ SameLink(s, w) /\ SameBook(s, w) /\ SameNews(s, w)
      /\ w.client = c /\ w.server = s.server /\ w.out = s.out
  BY <1>1, <1>4 DEF DeviceType, SameLink, SameBook, SameNews
<1> HIDE DEF w
<1>6. /\ t \in DeviceType(plan, s.me) /\ SameLink(s, t) /\ SameBook(s, t) /\ SameNews(s, t)
      /\ t.client = c /\ t.server = s.server /\ t.out = Put(s, p)
  BY <1>3, <1>5, TransmitFacts DEF SameLink, SameBook, SameNews, Put
<1> HIDE DEF t
<1>7. /\ \A S : p.op \notin S => Alike(s.out, t.out, S)
      /\ t.out = s.out \/ s.link = "up"
      /\ \A x \in On(t.out) : x \in On(s.out) \/ x = p
  BY <1>1, <1>3, <1>6, PutFacts
<1>8. p.op \notin Responses /\ p.op # "IND" /\ p.op # "CONFIRM" /\ p.op \in Requests
  BY <1>3 DEF Requests, Responses
<1>9. Own(plan, t)
  <2>1. Book(plan, t) /\ Updating(plan, t)
    BY <1>4, <1>6, BookFrame, UpdatingFrame DEF Good, Own, SameLink, SameNews
  <2>2. Valid(t)
    BY <1>3, <1>4, <1>6, <1>7 DEF Good, Own, Valid, CommonMtu, SameLink
  <2>3. AtWork(t)
    <3>1. AtWork(s)
      BY DEF Good, Own
    <3>2. ASSUME ~t.late, NEW x \in t.accepted
          PROVE  Unanswered(t, x) <=> t.client.state # "READY" /\ x = t.client.callback
      BY <1>4, <1>6, <3>1, <3>2 DEF AtWork, Unanswered, SameLink, SameBook
    <3> QED BY <1>2, <1>4, <1>6, <3>1, <3>2 DEF AtWork, SameLink, SameBook
  <2> QED BY <1>1, <1>6, <2>1, <2>2, <2>3 DEF Own, SameLink
<1>10. Pair(plan, t, m)
  <2>1. Asking(t, m)
    <3>1. Open(s) /\ p.op = Awaited(t.client)
      BY <1>3, <1>4, <1>6 DEF Open, Awaited
    <3>2. ~Working(s) /\ Working(t)
      BY <1>2, <1>4, <1>6 DEF Working
    <3> QED BY <1>1, <1>3, <1>4, <1>6, <1>8, <3>1, <3>2, AskingStarts DEF Good, Pair, SameLink
  <2>2. Links(t, m) /\ Agreeing(t, m) /\ Indicating(plan, t, m)
    BY <1>6, <1>7, <1>8, LinksFrame, AgreeingFrame, IndicatingFrame, AlikeItself
       DEF Good, Pair, SameLink, SameNews
  <2> QED BY <2>1, <2>2 DEF Pair
<1>11. Pair(plan, m, t)
  BY <1>4, <1>6, <1>7, <1>8, LinksFrame, AskingFrame, AgreeingFrame, IndicatingFrame, AlikeItself
     DEF Good, Pair, SameLink, SameNews, Heard
<1>12. Good(plan, t, m)
  BY <1>6, <1>9, <1>10, <1>11 DEF Good, SameLink
<1>13. [s EXCEPT !.client.mtuState = "SENT"] = w
  BY DEF w, c
<1> QED BY <1>12, <1>13, AskKeeps DEF Sent, t, p

(* A client sends a confirmation, or a command.                            *)
LEMMA SendOtherKeeps ==
  ASSUME NEW s, NEW m, Good(plan, s, m), NEW p \in PduType, NEW c \in ClientType(plan, s.me),
         s.client.known, c.known, c.state = s.client.state, c.stage = s.client.stage,
         c.callback = s.client.callback, c.mtu = s.client.mtu, c.queue = s.client.queue,
         c.mtuState = s.client.mtuState,
         \/ p.op = "CONFIRM" /\ s.client.confirm /\ ~c.confirm
         \/ p.op = "COMMAND" /\ c.confirm = s.client.confirm
  PROVE  Good(plan, Sent(Transmit([s EXCEPT !.client = c], p)), m)
<1> DEFINE w == [s EXCEPT !.client = c]
           t == Transmit(w, p)
<1>1. /\ s \in DeviceType(plan, s.me) /\ s.out \in Seq(PduType) /\ s.me \in Nodes
      /\ s.link # "down" /\ s.client \in ClientType(plan, s.me)
  BY Parts DEF Good
<1>2. /\ w \in DeviceType(plan, s.me) /\ SameLink(s, w) /\ SameBook(s, w) /\ SameNews(s, w)
      /\ w.client = c /\ w.server = s.server /\ w.out = s.out
  BY <1>1 DEF DeviceType, SameLink, SameBook, SameNews
<1> HIDE DEF w
<1>3. /\ t \in DeviceType(plan, s.me) /\ SameLink(s, t) /\ SameBook(s, t) /\ SameNews(s, t)
      /\ t.client = c /\ t.server = s.server /\ t.out = Put(s, p)
  BY <1>2, TransmitFacts DEF SameLink, SameBook, SameNews, Put
<1> HIDE DEF t
<1>4. /\ \A S : p.op \notin S => Alike(s.out, t.out, S)
      /\ t.out = s.out \/ s.link = "up"
      /\ \A x \in On(t.out) : x \in On(s.out) \/ x.op \notin {"MTU_REQ", "MTU_RSP"}
      /\ s.link = "up" => \A S : Count(t.out, S) = Count(s.out, S) + IF p.op \in S THEN 1 ELSE 0
  <2>1. p.op \notin {"MTU_REQ", "MTU_RSP"}
    OBVIOUS
  <2>2. /\ \A S : p.op \notin S => Alike(s.out, t.out, S)
        /\ t.out = s.out \/ s.link = "up"
        /\ \A x \in On(t.out) : x \in On(s.out) \/ x = p
        /\ s.link = "up" => \A S : Count(t.out, S) = Count(s.out, S) + IF p.op \in S THEN 1 ELSE 0
    BY <1>1, <1>3, PutFacts
  <2> QED BY <2>1, <2>2
<1>5. p.op \notin Responses /\ p.op \notin Requests /\ p.op # "IND"
  BY DEF Requests, Responses
<1>6. Own(plan, t)
  <2>1. Book(plan, t) /\ Updating(plan, t) /\ Valid(t)
    BY <1>3, <1>4, BookFrame, UpdatingFrame, ValidFrame DEF Good, Own, SameLink, SameNews
  <2>2. AtWork(t)
    <3>1. AtWork(s)
      BY DEF Good, Own
    <3>2. ASSUME ~t.late, NEW x \in t.accepted
          PROVE  Unanswered(t, x) <=> t.client.state # "READY" /\ x = t.client.callback
      BY <1>3, <3>1, <3>2 DEF AtWork, Unanswered, SameLink, SameBook
    <3> QED BY <1>1, <1>3, <3>1, <3>2 DEF AtWork, SameLink, SameBook
  <2> QED BY <1>1, <1>3, <2>1, <2>2 DEF Own, SameLink
<1>7. Pair(plan, t, m)
  BY <1>3, <1>4, <1>5, LinksFrame, AskingFrame, AgreeingFrame, IndicatingFrame, AlikeItself
     DEF Good, Pair, SameLink, SameNews, Open
<1>8. Pair(plan, m, t)
  <2>1. Links(m, t) /\ Asking(m, t) /\ Agreeing(m, t)
    BY <1>3, <1>4, <1>5, LinksFrame, AskingFrame, AgreeingFrame, AlikeItself
       DEF Good, Pair, SameLink
  <2>2. Indicating(plan, m, t)
    <3>1. CASE p.op = "COMMAND"
      BY <1>3, <1>4, <3>1, IndicatingFrame, AlikeItself
         DEF Good, Pair, SameLink, SameNews, Heard
    <3>2. CASE p.op = "CONFIRM" /\ s.client.confirm /\ ~c.confirm
      <4>1. Indicating(plan, m, s) /\ \A x : Heard(t, x) <=> Heard(s, x)
        BY <1>3 DEF Good, Pair, Heard, SameNews
      <4>2. m.link = "up" => Count(t.out, {"CONFIRM"}) = Count(s.out, {"CONFIRM"}) + 1
        BY <1>4, <3>2 DEF Good, Pair, Links
      <4>3. Count(s.out, {"CONFIRM"}) \in Nat /\ Count(m.out, {"IND"}) \in Nat
        BY PlacesFacts DEF Good, Own, DeviceType
      <4> QED BY <1>3, <3>2, <4>1, <4>2, <4>3 DEF Indicating
    <3> QED BY <3>1, <3>2
  <2> QED BY <2>1, <2>2 DEF Pair
<1>9. Good(plan, t, m)
  BY <1>3, <1>6, <1>7, <1>8 DEF Good, SameLink
<1> QED BY <1>9, AskKeeps DEF Sent, t, w

LEMMA SendConfirmKeeps ==
  ASSUME NEW s, NEW m, Good(plan, s, m), s.client.confirm
  PROVE  Good(plan, Sent(Transmit([s EXCEPT !.client.confirm = FALSE], Pdu("CONFIRM"))), m)
<1> DEFINE c == [s.client EXCEPT !.confirm = FALSE]
           p == Pdu("CONFIRM")
<1>1. s.client \in ClientType(plan, s.me) /\ s.client.known
  BY DEF Good, Own, DeviceType, AtWork, NoContext
<1>2. /\ c \in ClientType(plan, s.me) /\ c.known /\ c.state = s.client.state /\ c.stage = s.client.stage
      /\ c.callback = s.client.callback /\ c.mtu = s.client.mtu /\ c.queue = s.client.queue
      /\ c.mtuState = s.client.mtuState /\ ~c.confirm
  BY <1>1 DEF ClientType
<1>3. p \in PduType /\ p.op = "CONFIRM"
  BY DEF Pdu, NoPdu, PduType, Ops, Codes
<1> HIDE DEF c, p
<1>4. Good(plan, Sent(Transmit([s EXCEPT !.client = c], p)), m)
  BY <1>1, <1>2, <1>3, SendOtherKeeps
<1> QED BY <1>4 DEF c, p

LEMMA SendCommandKeeps ==
  ASSUME plan \in Plans, NEW s, NEW m, Good(plan, s, m), s.client.commands # <<>>
  PROVE  Good(plan, Sent(WriteCommand([s EXCEPT !.client.commands = Tail(@)],
                                      Head(s.client.commands))), m)
<1> DEFINE N == Len(plan[s.me].queries)
           old == s.client.commands
           c == [s.client EXCEPT !.commands = Tail(old)]
           q == Head(old)
           w == [s EXCEPT !.client = c]
           p == [Pdu("COMMAND") EXCEPT !.q = q, !.len = WriteLen[Query(w, q).kind]]
<1>1. /\ s.client \in ClientType(plan, s.me) /\ s.client.known /\ s.me \in Nodes
      /\ s \in DeviceType(plan, s.me)
  BY SMTT(30) DEF Good, Own, DeviceType, AtWork, NoContext
<1>2. old \in Seq(1..N) /\ Tail(old) \in Seq(1..N) /\ q \in 1..N
  BY <1>1, HeadTailProperties DEF ClientType
<1>3. /\ c \in ClientType(plan, s.me) /\ c.known /\ c.state = s.client.state
      /\ c.stage = s.client.stage /\ c.callback = s.client.callback /\ c.mtu = s.client.mtu
      /\ c.queue = s.client.queue /\ c.mtuState = s.client.mtuState
      /\ c.confirm = s.client.confirm
  BY <1>1, <1>2 DEF ClientType
<1>4. w.me = s.me
  BY <1>1 DEF DeviceType
<1>5. WriteLen[Query(w, q).kind] \in Nat /\ q \in Nat
  BY SMTT(30), <1>1, <1>2, <1>4, PlanFacts DEF Query, Queries
<1>6. p \in PduType /\ p.op = "COMMAND"
  BY <1>5 DEF Pdu, NoPdu, PduType, Ops, Codes
<1>7. WriteCommand([s EXCEPT !.client.commands = Tail(@)], q) = Transmit(w, p)
  BY DEF WriteCommand, c, w, p
<1> HIDE DEF c, p
<1>8. Good(plan, Sent(Transmit([s EXCEPT !.client = c], p)), m)
  BY <1>1, <1>3, <1>6, SendOtherKeeps
<1> QED BY <1>7, <1>8

(* The client does what it may do next.                                    *)
LEMMA RunContextKeeps ==
  ASSUME plan \in Plans, NEW s, NEW m, Good(plan, s, m), s.client.known
  PROVE  Good(plan, RunContext(s), m)
<1> DEFINE c == s.client
<1>1. CASE c.mtuState = "SEND"
  BY <1>1, SendMtuKeeps DEF RunContext
<1>2. CASE c.mtuState = "SENT"
  BY <1>2 DEF RunContext, Exchanging
<1>3. CASE c.mtuState \notin {"SEND", "SENT"}
  <2>1. CASE c.confirm
    BY <1>3, <2>1, SendConfirmKeeps DEF RunContext, Exchanging
  <2>2. CASE ~c.confirm /\ Refusable(s)
    <3> DEFINE t == Refuse(s)
    <3>1. Good(plan, t, m) /\ t.client.mtuState \notin {"SEND", "SENT"}
      BY <1>3, RefuseKeeps
    <3>2. RunContext(s) = IF t.client.state = "SEND" THEN SendRequest(t) ELSE t
      BY <1>3, <2>2 DEF RunContext, Exchanging, With
    <3> HIDE DEF t
    <3> QED BY <3>1, <3>2, SendRequestKeeps
  <2>3. CASE ~c.confirm /\ ~Refusable(s) /\ c.state = "SEND"
    BY <1>3, <2>3, SendRequestKeeps DEF RunContext, Exchanging
  <2>4. CASE ~c.confirm /\ ~Refusable(s) /\ c.state # "SEND" /\ c.commands # <<>>
    BY <1>3, <2>4, SendCommandKeeps DEF RunContext, Exchanging
  <2>5. CASE ~c.confirm /\ ~Refusable(s) /\ c.state # "SEND" /\ c.commands = <<>>
    BY <1>3, <2>5 DEF RunContext, Exchanging
  <2> QED BY <2>1, <2>2, <2>3, <2>4, <2>5
<1> QED BY <1>1, <1>2, <1>3

LEMMA ClientRunKeeps ==
  ASSUME plan \in Plans, NEW s, NEW m, Good(plan, s, m)
  PROVE  Good(plan, ClientRun(s), m)
BY RunContextKeeps, AskKeeps DEF ClientRun

LEMMA CompleteKeeps ==
  ASSUME plan \in Plans, NEW s, NEW m, s \in DeviceType(plan, s.me), NEW status,
         Good(plan, Done(s, status), m), Done(s, status).client.known
  PROVE  Good(plan, Complete(s, status), m)
<1> DEFINE t == Finish(s, status)
<1>1. Good(plan, t, m)
  BY FinishKeeps
<1>2. Complete(s, status) = RunIfBegun(t)
  BY DEF Complete, With
<1> HIDE DEF t
<1> QED BY <1>1, <1>2, ClientRunKeeps DEF RunIfBegun

LEMMA NotifyCanSendQueryKeeps ==
  ASSUME plan \in Plans, NEW s, NEW m, Good(plan, s, m)
  PROVE  Good(plan, NotifyCanSendQuery(s), m)
<1> DEFINE t == NextQuery(s)
<1>1. Good(plan, t, m)
  BY NextQueryKeeps
<1>2. NotifyCanSendQuery(s) = IF s.client.state # "READY" THEN s ELSE RunIfBegun(t)
  BY DEF NotifyCanSendQuery, With
<1> HIDE DEF t
<1> QED BY <1>1, <1>2, ClientRunKeeps DEF RunIfBegun

(* A client gets its context.                                              *)
LEMMA ProvideKeeps ==
  ASSUME NEW s, NEW m, Good(plan, s, m), s.link # "down"
  PROVE  /\ Good(plan, Provide(s), m) /\ Provide(s).client.known
         /\ SameLink(s, Provide(s)) /\ SameBook(s, Provide(s)) /\ SameNews(s, Provide(s))
         /\ Provide(s).out = s.out /\ Provide(s).server = s.server
         /\ s.client.known => Provide(s) = s
<1>1. CASE s.client.known
  BY <1>1 DEF Provide, SameLink, SameBook, SameNews
<1>2. CASE ~s.client.known
  <2> DEFINE mtu == IF s.server.exchanged THEN s.server.mtu ELSE DefaultMtu
             next == IF s.server.exchanged THEN "EXCHANGED"
                     ELSE IF s.me \in AutoMtu THEN "SEND" ELSE "DISABLED"
             c == [NoContext EXCEPT !.known = TRUE, !.mtu = mtu, !.mtuState = next]
             t == [s EXCEPT !.client = c]
  <2>1. /\ s \in DeviceType(plan, s.me) /\ s.me \in Nodes /\ s.out \in Seq(PduType)
        /\ s.client \in ClientType(plan, s.me) /\ s.server \in ServerType /\ m.out \in Seq(PduType)
    BY Parts DEF Good
  <2>2. s.client = NoContext /\ ~s.late
    BY <1>2 DEF Good, Own, AtWork
  <2>3. /\ mtu \in Nat /\ mtu = s.server.mtu
        /\ next \in {"DISABLED", "SEND", "EXCHANGED"}
    BY <2>1, BoundsAssumption DEF ServerType, Good, Own, Valid
  <2> HIDE DEF mtu, next
  <2>4. /\ c \in ClientType(plan, s.me) /\ c.known /\ c.state = "READY" /\ c.mtu = s.server.mtu
        /\ c.mtuState \in {"DISABLED", "SEND", "EXCHANGED"} /\ c.queue = <<>>
        /\ c.confirm = NoContext.confirm
    <3>1. <<>> \in Seq(Nat) /\ <<>> \in Seq(1..Len(plan[s.me].queries))
      BY EmptySeq
    <3> QED BY <2>3, <3>1 DEF NoContext, ClientType
  <2>5. /\ NoContext.state = "READY" /\ NoContext.mtuState = "DISABLED"
        /\ NoContext.queue = <<>>
    BY DEF NoContext
  <2> HIDE DEF c
  <2>6. /\ t \in DeviceType(plan, s.me) /\ SameLink(s, t) /\ SameBook(s, t) /\ SameNews(s, t)
        /\ t.out = s.out /\ t.server = s.server /\ t.client = c
    BY <2>1, <2>4 DEF DeviceType, SameLink, SameBook, SameNews
  <2> HIDE DEF t
  <2>7. Own(plan, t)
    <3>1. Book(plan, t) /\ Updating(plan, t)
      BY <2>2, <2>4, <2>5, <2>6, BookFrame, UpdatingFrame DEF Good, Own, SameLink, SameNews
    <3>2. Valid(t)
      BY <2>4, <2>6 DEF Good, Own, Valid, CommonMtu, SameLink
    <3>3. AtWork(t)
      <4>1. ASSUME NEW x \in t.accepted PROVE ~Unanswered(t, x)
        BY <2>2, <2>5, <2>6, <4>1 DEF Good, Own, AtWork, Unanswered, SameBook
      <4> QED BY <2>2, <2>4, <2>6, <4>1 DEF AtWork, SameLink
    <3> QED BY <2>1, <2>6, <3>1, <3>2, <3>3 DEF Own, SameLink
  <2>8. Pair(plan, t, m)
    <3>1. Asking(t, m)
      <4>1. Open(s) /\ ~Working(s) /\ ~Working(t) /\ Open(t)
        BY <2>2, <2>4, <2>5, <2>6 DEF Open, Working, SameLink
      <4>2. ASSUME s.link = "up"
            PROVE  Count(s.out, Requests) = 0 /\ Count(m.out, Responses) = 0 /\ m.server.state = "IDLE"
        <5>1. Underway(s, m) = 0
          BY <4>1, <4>2 DEF Good, Pair, Asking
        <5> QED BY <2>1, <5>1, PlacesFacts DEF Underway
      <4>3. ASSUME s.link = "up"
            PROVE  /\ \A p \in On(s.out) : p.op \notin Requests
                   /\ \A p \in On(m.out) : p.op \notin Responses
        BY <2>1, <4>2, <4>3, PlacesFacts
      <4>4. s.link = "up" => Underway(t, m) = 0 /\ Fits(t, m) /\ Exchange(t, m)
        <5>1. s.link = "up" => Underway(t, m) = 0
          BY <2>6, <4>2 DEF Underway
        <5>2. s.link = "up" => Fits(t, m)
          BY <2>6, <4>2, <4>3 DEF Fits
        <5>3. s.link = "up" => Exchange(t, m)
          BY <2>6, <4>2, <4>3 DEF Exchange, Requests, Responses
        <5> QED BY <5>1, <5>2, <5>3
      <4> QED BY <2>6, <4>1, <4>4 DEF Asking, SameLink
    <3> QED BY <2>6, <3>1, LinksFrame, AgreeingFrame, IndicatingFrame, AlikeItself
            DEF Good, Pair, SameLink, SameNews
  <2>9. Pair(plan, m, t)
    BY <2>2, <2>4, <2>5, <2>6, LinksFrame, AskingFrame, AgreeingFrame, IndicatingFrame, AlikeItself
       DEF Good, Pair, SameLink, SameNews, Heard
  <2>10. Good(plan, t, m)
    BY <2>6, <2>7, <2>8, <2>9 DEF Good, SameLink
  <2>11. Provide(s) = t
    BY <1>2 DEF Provide, t, c, mtu, next
  <2> QED BY <1>2, <2>4, <2>6, <2>10, <2>11
<1> QED BY <1>1, <1>2

----------------------------------------------------------------------------
(* What the server does *)

(* A server does one thing for a request, and has one answer to it.        *)
LEMMA HandledFacts ==
  ASSUME NEW s, Own(plan, s), NEW p \in PduType, p.op \in Requests
  PROVE  LET r == Handled(s, p)
             mtu == Larger(DefaultMtu, Smaller(p.len, MaxMtu[s.me]))
         IN  /\ r.pdu \in PduType /\ r.pdu.op \in Answers(p.op)
             /\ r.s \in DeviceType(plan, s.me) /\ SameLink(s, r.s) /\ SameBook(s, r.s)
             /\ SameNews(s, r.s) /\ r.s.out = s.out /\ r.s.client = s.client
             /\ p.op = "MTU_REQ" =>
                  /\ r.pdu.len = mtu
                  /\ r.s.server = [s.server EXCEPT !.mtu = mtu, !.exchanged = TRUE]
             /\ p.op # "MTU_REQ" => r.s.server = s.server
<1> DEFINE mtu == Larger(DefaultMtu, Smaller(p.len, MaxMtu[s.me]))
           Kept(t) == /\ t \in DeviceType(plan, s.me) /\ SameLink(s, t) /\ SameBook(s, t)
                      /\ SameNews(s, t) /\ t.out = s.out /\ t.client = s.client
           AsWas(t) == Kept(t) /\ t.server = s.server
           Fine(r) == /\ r.pdu \in PduType /\ r.pdu.op \in Answers(p.op) /\ Kept(r.s)
                      /\ p.op = "MTU_REQ" =>
                           /\ r.pdu.len = mtu
                           /\ r.s.server = [s.server EXCEPT !.mtu = mtu, !.exchanged = TRUE]
                      /\ p.op # "MTU_REQ" => r.s.server = s.server
<1>1. s \in DeviceType(plan, s.me) /\ s.me \in Nodes /\ s.server \in ServerType
  BY Parts
<1>2. /\ p.q \in Nat /\ p.off \in Nat /\ p.len \in Nat /\ ValueLen \in Nat /\ DefaultMtu \in Nat
      /\ MaxMtu[s.me] \in Nat /\ s.server.mtu \in Nat /\ s.server.mtu > 5
  BY <1>1, MtuFacts, BoundsAssumption DEF Own, PduType
<1>3. /\ \A op \in Ops : Pdu(op) \in PduType /\ Pdu(op).op = op
      /\ \A code \in Codes : ErrorPdu(code) \in PduType /\ ErrorPdu(code).op = "ERROR"
      /\ NothingPrepared \in ValueType /\ Responses \subseteq Ops
  BY DEF Pdu, NoPdu, ErrorPdu, PduType, Ops, Codes, Responses, NothingPrepared, ValueType
<1>4. s.prepared \in ValueType /\ s.written \in Seq(ValueType) /\ s.writeError \in BOOLEAN
  BY <1>1 DEF DeviceType
<1>5. ASSUME NEW e \in BOOLEAN, NEW v \in ValueType, NEW w \in Seq(ValueType)
      PROVE  AsWas([s EXCEPT !.writeError = e, !.prepared = v, !.written = w])
  BY <1>1 DEF DeviceType, SameLink, SameBook, SameNews
<1>6. \A v \in ValueType : Append(s.written, v) \in Seq(ValueType)
  BY <1>4, AppendProperties
<1> HIDE DEF Kept, AsWas, mtu
<1>7. /\ AsWas(s) /\ AsWas([s EXCEPT !.writeError = TRUE])
      /\ \A v \in ValueType : AsWas([s EXCEPT !.prepared = v])
      /\ \A w \in Seq(ValueType) : AsWas([s EXCEPT !.written = w])
  <2>1. AsWas(s) /\ AsWas([s EXCEPT !.writeError = TRUE])
    BY <1>1 DEF AsWas, Kept, DeviceType, SameLink, SameBook, SameNews
  <2>2. ASSUME NEW v \in ValueType PROVE AsWas([s EXCEPT !.prepared = v])
    BY <1>1 DEF AsWas, Kept, DeviceType, SameLink, SameBook, SameNews
  <2>3. ASSUME NEW w \in Seq(ValueType) PROVE AsWas([s EXCEPT !.written = w])
    BY <1>1 DEF AsWas, Kept, DeviceType, SameLink, SameBook, SameNews
  <2> QED BY <2>1, <2>2, <2>3
<1>8. ASSUME p.op # "MTU_REQ", NEW t, AsWas(t), NEW u \in PduType, u.op \in Answers(p.op)
       PROVE  Fine([s |-> t, pdu |-> u])
  BY <1>8 DEF AsWas
<1>9. ASSUME NEW op \in {"READ_RSP", "BLOB_RSP"}, NEW off \in Nat, off <= ValueLen
       PROVE  LET x == [Pdu(op) EXCEPT !.len = Smaller(ValueLen - off, s.server.mtu - 1)]
              IN  x \in PduType /\ x.op = op
  <2>1. Smaller(ValueLen - off, s.server.mtu - 1) \in Nat
    BY <1>2, <1>9 DEF Smaller
  <2>2. op \in Ops
    BY DEF Ops, Responses
  <2> QED BY <1>3, <2>1, <2>2 DEF PduType
<1>10. Responses = {"MTU_RSP", "READ_RSP", "BLOB_RSP", "FIND_RSP", "TYPE_RSP", "WRITE_RSP",
                    "PREPARE_RSP", "EXECUTE_RSP", "ERROR"}
       /\ {"offset", "denied", "unsupported"} \subseteq Codes
  BY DEF Responses, Codes
<1> SUFFICES Fine(Handled(s, p))
  BY DEF Fine, Kept, mtu
<1>11. CASE p.op = "MTU_REQ"
  <2> DEFINE v == [s.server EXCEPT !.mtu = mtu, !.exchanged = TRUE]
             t == [s EXCEPT !.server = v]
             u == [Pdu("MTU_RSP") EXCEPT !.len = mtu]
  <2>1. mtu \in Nat
    BY <1>2 DEF Larger, Smaller, mtu
  <2>2. Handled(s, p) = [s |-> t, pdu |-> u]
    BY <1>11 DEF Handled, mtu
  <2>3. v \in ServerType
    BY <1>1, <2>1 DEF ServerType
  <2>4. u \in PduType /\ u.op = "MTU_RSP" /\ u.len = mtu
    BY <2>1 DEF Pdu, NoPdu, PduType, Ops, Responses, Codes
  <2>5. Kept(t) /\ t.server = v
    <3> HIDE DEF v
    <3> QED BY <1>1, <2>3 DEF Kept, DeviceType, SameLink, SameBook, SameNews
  <2>6. u.op \in Answers(p.op)
    BY <1>11, <2>4 DEF Answers
  <2> HIDE DEF t, u
  <2>7. Fine([s |-> t, pdu |-> u])
    BY <1>11, <2>4, <2>5, <2>6
  <2> HIDE DEF Fine
  <2> QED BY <2>2, <2>7
<1> HIDE DEF Fine
<1>12. CASE p.op = "READ_REQ"
  <2> DEFINE u == [Pdu("READ_RSP") EXCEPT !.len = Smaller(ValueLen - 0, s.server.mtu - 1)]
  <2>1. Handled(s, p) = [s |-> s, pdu |-> u]
    BY <1>12 DEF Handled
  <2>2. u \in PduType /\ u.op = "READ_RSP"
    BY <1>2, <1>9
  <2> HIDE DEF u
  <2> QED BY <1>7, <1>8, <1>12, <2>1, <2>2 DEF Answers
<1>13. CASE p.op = "BLOB_REQ"
  <2>1. CASE p.off > ValueLen
    <3>1. Handled(s, p) = [s |-> s, pdu |-> ErrorPdu("offset")]
      BY <1>13, <2>1 DEF Handled
    <3> QED BY <1>3, <1>7, <1>8, <1>10, <1>13, <3>1 DEF Answers
  <2>2. CASE ~(p.off > ValueLen)
    <3> DEFINE u == [Pdu("BLOB_RSP") EXCEPT !.len = Smaller(ValueLen - p.off, s.server.mtu - 1)]
    <3>1. Handled(s, p) = [s |-> s, pdu |-> u]
      BY <1>13, <2>2 DEF Handled
    <3>2. p.off <= ValueLen
      BY <1>2, <2>2
    <3>3. u \in PduType /\ u.op = "BLOB_RSP"
      BY <1>2, <1>9, <3>2
    <3> HIDE DEF u
    <3> QED BY <1>7, <1>8, <1>13, <3>1, <3>3 DEF Answers
  <2> QED BY <2>1, <2>2
<1>14. CASE p.op = "FIND_REQ"
  <2> DEFINE u == [Pdu("FIND_RSP") EXCEPT !.off = p.off]
  <2>1. Handled(s, p) = [s |-> s, pdu |-> u]
    BY <1>14 DEF Handled
  <2>2. u \in PduType /\ u.op = "FIND_RSP"
    BY <1>2 DEF Pdu, NoPdu, PduType, Ops, Responses, Codes
  <2> HIDE DEF u
  <2> QED BY <1>7, <1>8, <1>14, <2>1, <2>2 DEF Answers
<1>15. CASE p.op = "TYPE_REQ"
  <2>1. Handled(s, p) = [s |-> s, pdu |-> Pdu("TYPE_RSP")]
    BY <1>15 DEF Handled
  <2> QED BY <1>3, <1>7, <1>8, <1>10, <1>15, <2>1 DEF Answers
<1>16. CASE p.op = "WRITE_REQ"
  <2>1. CASE Queries(Peer(s.me))[p.q].kind = "denied"
    <3>1. Handled(s, p) = [s |-> s, pdu |-> ErrorPdu("denied")]
      BY <1>16, <2>1 DEF Handled
    <3> QED BY <1>3, <1>7, <1>8, <1>10, <1>16, <3>1 DEF Answers
  <2>2. CASE Queries(Peer(s.me))[p.q].kind # "denied"
    <3> DEFINE w == Append(s.written, [q |-> p.q, len |-> p.len])
    <3>1. Handled(s, p) = [s |-> [s EXCEPT !.written = w], pdu |-> Pdu("WRITE_RSP")]
      BY <1>16, <2>2 DEF Handled
    <3>2. w \in Seq(ValueType)
      BY <1>2, <1>6 DEF ValueType
    <3> HIDE DEF w
    <3>3. AsWas([s EXCEPT !.written = w])
      BY <1>7, <3>2
    <3> QED BY <1>3, <1>8, <1>10, <1>16, <3>1, <3>3 DEF Answers
  <2> QED BY <2>1, <2>2
<1>17. CASE p.op = "PREPARE_REQ"
  <2> DEFINE u == [p EXCEPT !.op = "PREPARE_RSP"]
             v == [q |-> p.q, len |-> p.off + p.len]
             t == IF p.off # s.prepared.len THEN [s EXCEPT !.writeError = TRUE]
                  ELSE [s EXCEPT !.prepared = v]
  <2>1. Handled(s, p) = [s |-> t, pdu |-> u]
    BY <1>17 DEF Handled
  <2>2. u \in PduType /\ u.op = "PREPARE_RSP"
    BY DEF PduType, Ops, Responses
  <2>3. v \in ValueType
    BY <1>2 DEF ValueType
  <2> HIDE DEF v
  <2>4. AsWas(t)
    BY <1>7, <2>3
  <2> HIDE DEF u, t
  <2> QED BY <1>8, <1>17, <2>1, <2>2, <2>4 DEF Answers
<1>18. CASE p.op = "EXECUTE_REQ"
  <2> DEFINE t == [s EXCEPT !.prepared = NothingPrepared]
  <2>1. CASE p.len = 0
    <3>1. Handled(s, p) = [s |-> t, pdu |-> Pdu("EXECUTE_RSP")]
      BY <1>18, <2>1 DEF Handled
    <3>2. AsWas(t)
      BY <1>3, <1>7
    <3> HIDE DEF t
    <3> QED BY <1>3, <1>8, <1>10, <1>18, <3>1, <3>2 DEF Answers
  <2>2. CASE p.len # 0 /\ s.writeError
    <3> DEFINE u == [t EXCEPT !.writeError = FALSE]
    <3>1. Handled(s, p) = [s |-> u, pdu |-> ErrorPdu("offset")]
      BY <1>18, <2>2 DEF Handled
    <3>2. u = [s EXCEPT !.writeError = FALSE, !.prepared = NothingPrepared, !.written = s.written]
      BY <1>1 DEF DeviceType
    <3>3. AsWas(u)
      BY <1>3, <1>4, <1>5, <3>2
    <3> HIDE DEF u
    <3> QED BY <1>3, <1>8, <1>10, <1>18, <3>1, <3>3 DEF Answers
  <2>3. CASE p.len # 0 /\ ~s.writeError
    <3> DEFINE u == [t EXCEPT !.written = Append(@, s.prepared)]
    <3>1. Handled(s, p) = [s |-> u, pdu |-> Pdu("EXECUTE_RSP")]
      BY <1>18, <2>3 DEF Handled
    <3>2. u = [s EXCEPT !.writeError = s.writeError, !.prepared = NothingPrepared,
                        !.written = Append(s.written, s.prepared)]
      BY <1>1 DEF DeviceType
    <3>3. AsWas(u)
      BY <1>3, <1>4, <1>5, <1>6, <3>2
    <3> HIDE DEF u
    <3> QED BY <1>3, <1>8, <1>10, <1>18, <3>1, <3>3 DEF Answers
  <2> QED BY <2>1, <2>2, <2>3
<1> QED BY <1>11, <1>12, <1>13, <1>14, <1>15, <1>16, <1>17, <1>18 DEF Requests

(* The answer goes out in the place of the request.                        *)
LEMMA ProcessRequestKeeps ==
  ASSUME NEW s, NEW m, Good(plan, s, m), s.server.state = "VALIDATED"
  PROVE  Good(plan, ProcessRequest(s), m)
<1> DEFINE q == s.server.request
           r == Handled(s, q)
           v == [r.s.server EXCEPT !.state = "IDLE", !.request = NoPdu]
           w == [r.s EXCEPT !.server = v]
           x == Transmit(w, r.pdu)
           told == r.pdu.op = "MTU_RSP" /\ s.client.known
           c == [s.client EXCEPT !.mtu = r.s.server.mtu]
           t == IF told THEN [x EXCEPT !.client = c] ELSE x
<1>1. /\ s \in DeviceType(plan, s.me) /\ s.me \in Nodes /\ s.out \in Seq(PduType)
      /\ s.client \in ClientType(plan, s.me) /\ s.server \in ServerType /\ m.out \in Seq(PduType)
  BY Parts DEF Good
<1>2. q \in PduType /\ q.op \in Requests /\ s.link # "down"
  BY <1>1 DEF ServerType, Good, Own, Valid, AtWork, NewConnection
<1>3. /\ r.pdu \in PduType /\ r.pdu.op \in Answers(q.op)
      /\ r.s \in DeviceType(plan, s.me) /\ SameLink(s, r.s) /\ SameBook(s, r.s)
      /\ SameNews(s, r.s) /\ r.s.out = s.out /\ r.s.client = s.client
      /\ q.op = "MTU_REQ" =>
           /\ r.pdu.len = Larger(DefaultMtu, Smaller(q.len, MaxMtu[s.me]))
           /\ r.s.server = [s.server EXCEPT !.mtu = r.pdu.len, !.exchanged = TRUE]
      /\ q.op # "MTU_REQ" => r.s.server = s.server
  <2> DEFINE mtu == Larger(DefaultMtu, Smaller(q.len, MaxMtu[s.me]))
  <2>1. Own(plan, s)
    BY DEF Good
  <2> HIDE DEF q
  <2>2. /\ r.pdu \in PduType /\ r.pdu.op \in Answers(q.op)
        /\ r.s \in DeviceType(plan, s.me) /\ SameLink(s, r.s) /\ SameBook(s, r.s)
        /\ SameNews(s, r.s) /\ r.s.out = s.out /\ r.s.client = s.client
        /\ q.op = "MTU_REQ" =>
             r.pdu.len = mtu /\ r.s.server = [s.server EXCEPT !.mtu = mtu, !.exchanged = TRUE]
        /\ q.op # "MTU_REQ" => r.s.server = s.server
    BY <1>2, <2>1, HandledFacts
  <2> HIDE DEF r
  <2> QED BY <2>2
<1>4. /\ r.pdu.op = "MTU_RSP" <=> q.op = "MTU_REQ"
      /\ r.pdu.op \in Responses /\ r.pdu.op \notin Requests
      /\ r.pdu.op \notin {"IND", "CONFIRM", "MTU_REQ"}
  BY <1>2, <1>3 DEF Answers, Requests, Responses
<1>5. q.op = "MTU_REQ" => r.pdu.len = CommonMtu(s)
  <2>1. q.op = "MTU_REQ" => q.len = MaxMtu[Peer(s.me)]
    BY DEF Good, Own, Valid
  <2>2. /\ MaxMtu[s.me] \in Nat /\ MaxMtu[Peer(s.me)] \in Nat /\ DefaultMtu \in Nat
        /\ MaxMtu[s.me] >= DefaultMtu /\ MaxMtu[Peer(s.me)] >= DefaultMtu
    BY <1>1, Peers, BoundsAssumption
  <2> QED BY <1>3, <2>1, <2>2 DEF Larger, Smaller, CommonMtu
<1> HIDE DEF r
<1>6. /\ r.s.server \in ServerType /\ r.s.server.indications = s.server.indications
      /\ r.s.server.indication = s.server.indication /\ r.s.server.timer = s.server.timer
      /\ q.op = "MTU_REQ" => r.s.server.mtu = CommonMtu(s) /\ r.s.server.exchanged
      /\ q.op # "MTU_REQ" => /\ r.s.server.mtu = s.server.mtu
                             /\ r.s.server.exchanged = s.server.exchanged
  <2>1. r.s.server \in ServerType
    BY <1>3 DEF DeviceType
  <2>2. CASE q.op = "MTU_REQ"
    BY <1>1, <1>3, <1>5, <2>1, <2>2 DEF ServerType
  <2>3. CASE q.op # "MTU_REQ"
    BY <1>3, <2>1, <2>3
  <2> QED BY <2>1, <2>2, <2>3
<1>7. /\ v \in ServerType /\ v.state = "IDLE" /\ v.mtu = r.s.server.mtu
      /\ v.exchanged = r.s.server.exchanged /\ v.indications = s.server.indications
      /\ v.indication = s.server.indication /\ v.timer = s.server.timer
  <2>1. NoPdu \in PduType
    BY DEF NoPdu, PduType, Ops, Codes
  <2> QED BY <1>6, <2>1 DEF ServerType
<1>8. /\ c \in ClientType(plan, s.me) /\ c.known = s.client.known /\ c.state = s.client.state
      /\ c.stage = s.client.stage /\ c.callback = s.client.callback /\ c.queue = s.client.queue
      /\ c.mtuState = s.client.mtuState /\ c.confirm = s.client.confirm /\ c.mtu = v.mtu
  BY <1>1, <1>6, <1>7 DEF ClientType, ServerType
<1> HIDE DEF v, c
<1>9. /\ w \in DeviceType(plan, s.me) /\ SameLink(s, w) /\ SameBook(s, w) /\ SameNews(s, w)
      /\ w.client = s.client /\ w.server = v /\ w.out = s.out
  BY <1>3, <1>7 DEF DeviceType, SameLink, SameBook, SameNews
<1> HIDE DEF w
<1>10. /\ x \in DeviceType(plan, s.me) /\ SameLink(s, x) /\ SameBook(s, x) /\ SameNews(s, x)
       /\ x.client = s.client /\ x.server = v /\ x.out = Put(s, r.pdu)
  BY <1>3, <1>9, TransmitFacts DEF SameLink, SameBook, SameNews, Put
<1> HIDE DEF x
<1>11. /\ t \in DeviceType(plan, s.me) /\ SameLink(s, t) /\ SameBook(s, t) /\ SameNews(s, t)
       /\ t.client = (IF told THEN c ELSE s.client) /\ t.server = v /\ t.out = Put(s, r.pdu)
  BY ZenonT(40), <1>8, <1>10 DEF DeviceType, SameLink, SameBook, SameNews
<1> HIDE DEF t
<1>12. /\ t.client.known = s.client.known /\ t.client.state = s.client.state
       /\ t.client.stage = s.client.stage /\ t.client.callback = s.client.callback
       /\ t.client.queue = s.client.queue /\ t.client.mtuState = s.client.mtuState
       /\ t.client.confirm = s.client.confirm /\ (~s.client.known => t.client = s.client)
       /\ t.client.known => t.client.mtu = t.server.mtu
  <2>1. CASE told
    BY <1>8, <1>11, <2>1
  <2>2. CASE ~told
    <3>1. s.client.known => s.client.mtu = s.server.mtu /\ q.op # "MTU_REQ"
      BY <1>4, <2>2 DEF Good, Own, Valid
    <3> QED BY <1>6, <1>7, <1>11, <2>2, <3>1
  <2> QED BY <2>1, <2>2
<1>13. /\ \A S : r.pdu.op \notin S => Alike(s.out, t.out, S)
       /\ t.out = s.out \/ s.link = "up"
       /\ \A p \in On(t.out) : p \in On(s.out) \/ p = r.pdu
       /\ s.link = "up" => /\ r.pdu \in On(t.out) /\ On(t.out) = On(s.out) \cup {r.pdu}
                           /\ Count(t.out, Responses) = Count(s.out, Responses) + 1
  BY <1>1, <1>3, <1>4, <1>11, PutFacts
<1>14. Own(plan, t)
  <2>1. Book(plan, t) /\ Updating(plan, t)
    BY <1>7, <1>11, <1>12, BookFrame, UpdatingFrame DEF Good, Own, SameLink, SameNews
  <2>2. AtWork(t)
    <3>1. AtWork(s)
      BY DEF Good, Own
    <3>2. ASSUME ~t.late, NEW y \in t.accepted
          PROVE  Unanswered(t, y) <=> t.client.state # "READY" /\ y = t.client.callback
      BY <1>11, <1>12, <3>1, <3>2 DEF AtWork, Unanswered, SameLink, SameBook
    <3> QED BY <1>2, <1>11, <1>12, <3>1, <3>2 DEF AtWork, SameLink, SameBook
  <2>3. Valid(t)
    <3>1. CommonMtu(t) = CommonMtu(s) /\ t.me = s.me
      BY <1>11 DEF CommonMtu, SameLink
    <3>2. ASSUME NEW p \in On(t.out)
          PROVE  /\ p.op = "MTU_REQ" => p.len = MaxMtu[t.me]
                 /\ p.op = "MTU_RSP" => p.len = CommonMtu(t) /\ t.server.exchanged
      <4>1. CASE p \in On(s.out)
        BY <1>6, <1>7, <1>11, <3>1, <4>1 DEF Good, Own, Valid
      <4>2. CASE p = r.pdu
        BY <1>4, <1>5, <1>6, <1>7, <1>11, <3>1, <4>2
      <4> QED BY <1>13, <4>1, <4>2
    <3>3. t.server.mtu = IF t.server.exchanged THEN CommonMtu(t) ELSE DefaultMtu
      BY <1>6, <1>7, <1>11, <3>1 DEF Good, Own, Valid
    <3> QED BY <1>7, <1>11, <1>12, <3>2, <3>3 DEF Valid
  <2> QED BY <1>1, <1>11, <2>1, <2>2, <2>3 DEF Own, SameLink
<1>15. Pair(plan, t, m)
  <2>1. Links(t, m) /\ Asking(t, m) /\ Indicating(plan, t, m)
    BY <1>4, <1>7, <1>11, <1>12, <1>13, LinksFrame, AskingFrame, IndicatingFrame, AlikeItself
       DEF Good, Pair, SameLink, SameNews, Open
  <2>2. Agreeing(t, m)
    BY <1>6, <1>7, <1>11 DEF Good, Pair, Agreeing, SameLink
  <2> QED BY <2>1, <2>2 DEF Pair
<1>16. Pair(plan, m, t)
  <2>1. Links(m, t) /\ Indicating(plan, m, t)
    BY <1>4, <1>11, <1>12, <1>13, LinksFrame, IndicatingFrame, AlikeItself
       DEF Good, Pair, SameLink, SameNews, Heard
  <2>2. m.link = "up" => s.link = "up"
    BY DEF Good, Pair, Links
  <2>3. Asking(m, t)
    <3>1. SUFFICES ASSUME m.link = "up" PROVE Asking(m, t)
      BY DEF Asking
    <3>2. Underway(m, t) = Underway(m, s)
      <4>1. Count(m.out, Requests) \in Nat /\ Count(s.out, Responses) \in Nat
        BY <1>1, PlacesFacts
      <4> QED BY <1>7, <1>11, <1>13, <2>2, <3>1, <4>1 DEF Underway
    <3>3. Fits(m, s) => Fits(m, t)
      BY <1>3, <1>7, <1>11, <1>13 DEF Fits
    <3>4. Exchange(m, s) => Exchange(m, t)
      BY <1>4, <1>7, <1>11, <1>13 DEF Exchange
    <3> QED BY <3>1, <3>2, <3>3, <3>4 DEF Good, Pair, Asking
  <2>4. Agreeing(m, t)
    BY <1>4, <1>6, <1>7, <1>11, <1>13, <2>2 DEF Good, Pair, Agreeing
  <2> QED BY <2>1, <2>3, <2>4 DEF Pair
<1>17. Good(plan, t, m)
  BY <1>11, <1>14, <1>15, <1>16 DEF Good, SameLink
<1>18. ProcessRequest(s) = t
  <2> DEFINE y == [r.s EXCEPT !.server.state = "IDLE", !.server.request = NoPdu]
  <2>1. y = w
    BY DEF w, v
  <2>2. ProcessRequest(s) = LET z == Transmit(y, r.pdu)
                            IN  IF r.pdu.op = "MTU_RSP" /\ z.client.known
                                THEN [z EXCEPT !.client.mtu = z.server.mtu] ELSE z
    BY DEF ProcessRequest, r
  <2> HIDE DEF y
  <2>3. [x EXCEPT !.client.mtu = x.server.mtu] = [x EXCEPT !.client = c]
    BY <1>7, <1>10 DEF c
  <2>4. Transmit(y, r.pdu) = x
    BY <2>1 DEF x
  <2> QED BY <1>10, <2>2, <2>3, <2>4 DEF t
<1> QED BY <1>17, <1>18

(* An indication goes out when none waits for its confirmation.            *)
LEMMA IndicateKeeps ==
  ASSUME NEW s, NEW m, Good(plan, s, m), s.server.indications # <<>>, s.server.indication = 0
  PROVE  Good(plan, Indicate(s), m)
<1> DEFINE old == s.server.indications
           u == Head(old)
           v == [s.server EXCEPT !.indications = Tail(old), !.indication = u, !.timer = TRUE]
           w == [s EXCEPT !.server = v]
           p == [Pdu("IND") EXCEPT !.q = u]
           t == Transmit(w, p)
<1>1. /\ s \in DeviceType(plan, s.me) /\ s.me \in Nodes /\ s.out \in Seq(PduType)
      /\ s.server \in ServerType /\ m.out \in Seq(PduType) /\ old \in Seq(Nat)
  BY Parts DEF Good, ServerType
<1>2. s.link # "down"
  BY DEF Good, Own, AtWork, NewConnection
<1>3. Updating(plan, s) /\ Distinct(old) /\ Waiting(s) = Elements(old)
  BY DEF Good, Own, Updating, Distinct, Elements, Waiting
<1>4. /\ Tail(old) \in Seq(Nat) /\ Distinct(Tail(old)) /\ u \in Elements(old)
      /\ Elements(Tail(old)) \subseteq Elements(old) /\ u \notin Elements(Tail(old))
  BY <1>1, <1>3, TailDistinct
<1>5. u \in 1..s.next - 1 /\ s.reports[u] = <<>> /\ u \in Nat /\ u # 0
  BY SMTT(30), <1>1, <1>3, <1>4 DEF Updating, DeviceType
<1>6. p \in PduType /\ p.op = "IND" /\ p.q = u
  BY <1>5 DEF Pdu, NoPdu, PduType, Ops, Codes
<1>7. /\ v \in ServerType /\ v.state = s.server.state /\ v.request = s.server.request
      /\ v.mtu = s.server.mtu /\ v.exchanged = s.server.exchanged
      /\ v.indications = Tail(old) /\ v.indication = u /\ v.timer
  BY <1>1, <1>4, <1>5 DEF ServerType
<1> HIDE DEF v, p, u
<1>8. /\ w \in DeviceType(plan, s.me) /\ SameLink(s, w) /\ SameBook(s, w) /\ SameNews(s, w)
      /\ w.client = s.client /\ w.server = v /\ w.out = s.out
  BY <1>1, <1>7, WithServer
<1> HIDE DEF w
<1>9. /\ t \in DeviceType(plan, s.me) /\ SameLink(s, t) /\ SameBook(s, t) /\ SameNews(s, t)
      /\ t.client = s.client /\ t.server = v /\ t.out = Put(s, p)
  BY <1>6, <1>8, TransmitFacts DEF SameLink, SameBook, SameNews, Put
<1> HIDE DEF t
<1>10. /\ \A S : p.op \notin S => Alike(s.out, t.out, S)
       /\ t.out = s.out \/ s.link = "up"
       /\ \A x \in On(t.out) : x \in On(s.out) \/ x = p
       /\ s.link = "up" => Count(t.out, {"IND"}) = Count(s.out, {"IND"}) + 1
  BY <1>1, <1>6, <1>9, PutFacts
<1>11. p.op \notin Requests /\ p.op \notin Responses /\ p.op \notin {"MTU_REQ", "MTU_RSP", "CONFIRM"}
  BY <1>6 DEF Requests, Responses
<1>12. Own(plan, t)
  <2>1. Book(plan, t) /\ AtWork(t) /\ Valid(t)
    BY <1>2, <1>7, <1>9, <1>10, <1>11, BookFrame, AtWorkFrame, ValidFrame DEF Good, Own, SameLink
  <2>2. Updating(plan, t)
    <3> DEFINE new == Tail(old)
    <3>0. /\ t.server.indications = new /\ Distinct(new)
      BY <1>4, <1>7, <1>9
    <3> HIDE DEF new
    <3>1. Waiting(t) = Elements(new) /\ Distinct(t.server.indications)
      BY <3>0 DEF Waiting, Elements
    <3>2. \A i, j \in 1..Len(t.server.indications) :
            t.server.indications[i] = t.server.indications[j] => i = j
      BY <3>1 DEF Distinct
    <3> QED BY <1>3, <1>4, <1>5, <1>7, <1>9, <3>1, <3>2 DEF Updating, SameLink, SameNews, new
  <2> QED BY <1>1, <1>9, <2>1, <2>2 DEF Own, SameLink
<1>13. Pair(plan, t, m)
  <2>1. Links(t, m) /\ Asking(t, m) /\ Agreeing(t, m)
    BY <1>7, <1>9, <1>10, <1>11, LinksFrame, AskingFrame, AgreeingFrame, AlikeItself
       DEF Good, Pair, SameLink, Open
  <2>2. Indicating(plan, t, m)
    <3>1. Indicating(plan, s, m)
      BY DEF Good, Pair
    <3>2. ASSUME s.link = "up"
          PROVE  /\ Count(s.out, {"IND"}) = 0 /\ Count(m.out, {"CONFIRM"}) = 0 /\ ~m.client.confirm
                 /\ \A x \in On(s.out) : x.op # "IND"
      <4>1. Count(s.out, {"IND"}) \in Nat /\ Count(m.out, {"CONFIRM"}) \in Nat
        BY <1>1, PlacesFacts
      <4>2. Count(s.out, {"IND"}) = 0 /\ Count(m.out, {"CONFIRM"}) = 0 /\ ~m.client.confirm
        BY <3>1, <3>2, <4>1 DEF Indicating
      <4> QED BY <1>1, <4>2, PlacesFacts
    <3>3. /\ \A x : x \in 1..Len(plan[s.me].updates) => t.reports[x] = s.reports[x]
          /\ t.link = s.link /\ t.me = s.me
      BY <1>9 DEF SameLink, SameNews
    <3>4. ASSUME t.link = "up"
          PROVE  /\ Count(t.out, {"IND"}) + Count(m.out, {"CONFIRM"})
                      + (IF m.client.confirm THEN 1 ELSE 0) = 1
                 /\ \A r \in On(t.out) : r.op = "IND" => r.q = t.server.indication
                 /\ Count(t.out, {"IND"}) = 1
      BY <1>6, <1>7, <1>9, <1>10, <3>2, <3>3, <3>4
    <3> QED BY <1>5, <1>7, <1>9, <3>1, <3>3, <3>4 DEF Indicating
  <2> QED BY <2>1, <2>2 DEF Pair
<1>14. Pair(plan, m, t)
  BY <1>7, <1>9, <1>10, <1>11, LinksFrame, AskingFrame, AgreeingFrame, IndicatingFrame, AlikeItself
     DEF Good, Pair, SameLink, SameNews, Heard
<1>15. Good(plan, t, m)
  BY <1>9, <1>12, <1>13, <1>14 DEF Good, SameLink
<1>16. Indicate(s) = t
  BY DEF Indicate, t, w, v, p, u
<1> QED BY <1>15, <1>16

(* A notification goes out.                                                *)
LEMMA NotifyValueKeeps ==
  ASSUME NEW s, NEW m, Good(plan, s, m), s.server.notifications # <<>>
  PROVE  Good(plan, NotifyValue(s), m)
<1> DEFINE old == s.server.notifications
           u == Head(old)
           v == [s.server EXCEPT !.notifications = Tail(old)]
           w == [s EXCEPT !.server = v]
           p == [Pdu("NTF") EXCEPT !.q = u]
           t == Transmit(w, p)
<1>1. /\ s \in DeviceType(plan, s.me) /\ s.me \in Nodes /\ s.out \in Seq(PduType)
      /\ s.server \in ServerType
  BY Parts DEF Good
<1>2. s.link # "down"
  BY DEF Good, Own, AtWork, NewConnection
<1>3. Tail(old) \in Seq(Nat) /\ u \in Nat
  BY <1>1, HeadTailProperties DEF ServerType
<1>4. p \in PduType /\ p.op = "NTF"
  BY <1>3 DEF Pdu, NoPdu, PduType, Ops, Codes
<1>5. /\ v \in ServerType /\ v.state = s.server.state /\ v.request = s.server.request
      /\ v.mtu = s.server.mtu /\ v.exchanged = s.server.exchanged /\ v.timer = s.server.timer
      /\ v.indications = s.server.indications /\ v.indication = s.server.indication
  BY <1>1, <1>3 DEF ServerType
<1> HIDE DEF v, p
<1>6. /\ w \in DeviceType(plan, s.me) /\ SameLink(s, w) /\ SameBook(s, w) /\ SameNews(s, w)
      /\ w.client = s.client /\ w.server = v /\ w.out = s.out
  BY <1>1, <1>5, WithServer
<1> HIDE DEF w
<1>7. /\ t \in DeviceType(plan, s.me) /\ SameLink(s, t) /\ SameBook(s, t) /\ SameNews(s, t)
      /\ t.client = s.client /\ t.server = v /\ t.out = Put(s, p)
  BY <1>4, <1>6, TransmitFacts DEF SameLink, SameBook, SameNews, Put
<1> HIDE DEF t
<1>8. /\ \A S : p.op \notin S => Alike(s.out, t.out, S)
      /\ t.out = s.out \/ s.link = "up"
      /\ \A x \in On(t.out) : x \in On(s.out) \/ x = p
  BY <1>1, <1>4, <1>7, PutFacts
<1>9. p.op \notin Requests /\ p.op \notin Responses /\ p.op \notin {"MTU_REQ", "MTU_RSP", "IND", "CONFIRM"}
  BY <1>4 DEF Requests, Responses
<1>10. Own(plan, t)
  BY <1>1, <1>2, <1>5, <1>7, <1>8, <1>9, BookFrame, AtWorkFrame, UpdatingFrame, ValidFrame
     DEF Good, Own, SameLink, SameNews
<1>11. Pair(plan, t, m)
  BY <1>5, <1>7, <1>8, <1>9, LinksFrame, AskingFrame, AgreeingFrame, IndicatingFrame, AlikeItself
     DEF Good, Pair, SameLink, SameNews, Open
<1>12. Pair(plan, m, t)
  BY <1>5, <1>7, <1>8, <1>9, LinksFrame, AskingFrame, AgreeingFrame, IndicatingFrame, AlikeItself
     DEF Good, Pair, SameLink, SameNews, Heard
<1>13. Good(plan, t, m)
  BY <1>7, <1>10, <1>11, <1>12 DEF Good, SameLink
<1>14. NotifyValue(s) = t
  BY DEF NotifyValue, t, w, v, p
<1> QED BY <1>13, <1>14

LEMMA AskIfReadyKeeps ==
  ASSUME NEW s, NEW m, Good(plan, s, m)
  PROVE  Good(plan, AskIfReady(s), m)
BY AskKeeps DEF AskIfReady

(* The server sends the first that it has.                                 *)
LEMMA ServePhasesKeeps ==
  ASSUME NEW s, NEW m, Good(plan, s, m)
  PROVE  Good(plan, ServePhases(s), m)
<1> DEFINE ready == {k \in Phases : DataReady(s.server, k)}
           first == CHOOSE k \in ready : \A j \in ready : k <= j
           t == ServePhase(s, first)
<1>1. CASE CanSend(s) /\ ready # {}
  <2>1. first \in ready
    <3>1. \E k \in ready : \A j \in ready : k <= j
      <4>1. ready \subseteq 1..3
        BY DEF Phases
      <4>2. CASE 1 \in ready
        BY <4>1, <4>2
      <4>3. CASE 1 \notin ready /\ 2 \in ready
        BY <4>1, <4>3
      <4>4. CASE 1 \notin ready /\ 2 \notin ready
        BY <1>1, <4>1, <4>4
      <4> QED BY <4>2, <4>3, <4>4
    <3> HIDE DEF ready
    <3> QED BY <3>1
  <2>2. first \in {1, 2, 3} /\ DataReady(s.server, first)
    BY <2>1 DEF Phases
  <2> HIDE DEF first
  <2>3. Good(plan, t, m)
    <3>1. CASE first = 1
      BY <2>2, <3>1, ProcessRequestKeeps DEF DataReady, ServePhase
    <3>2. CASE first = 2
      BY <2>2, <3>2, IndicateKeeps DEF DataReady, ServePhase
    <3>3. CASE first = 3
      BY <2>2, <3>3, NotifyValueKeeps DEF DataReady, ServePhase
    <3> QED BY <2>2, <3>1, <3>2, <3>3
  <2>4. ServePhases(s) = AskIfReady(t)
    BY <1>1 DEF ServePhases, With, first
  <2> QED BY <2>3, <2>4, AskIfReadyKeeps
<1>2. CASE ~(CanSend(s) /\ ready # {})
  <2>1. ServePhases(s) = AskIfReady(s)
    BY <1>2 DEF ServePhases
  <2> QED BY <2>1, AskIfReadyKeeps
<1> QED BY <1>1, <1>2

----------------------------------------------------------------------------
(* Who is served *)

LEMMA ServeKeeps ==
  ASSUME plan \in Plans, NEW s, NEW m, Good(plan, s, m), NEW i \in {0, 1}
  PROVE  Good(plan, Serve(s, i), m)
<1> DEFINE role == (s.first + i) % 2
           t == [s EXCEPT !.wants[role] = FALSE]
           u == IF role = Server THEN ServePhases(t) ELSE ClientRun(t)
           x == [u EXCEPT !.first = (role + 1) % 2]
<1>1. s \in DeviceType(plan, s.me)
  BY DEF Good, Own
<1>2. role \in {Server, Client} /\ (role + 1) % 2 \in {Server, Client}
  <2>1. s.first \in {0, 1}
    BY <1>1 DEF DeviceType, Server, Client
  <2>2. s.first + i \in {0, 1, 2}
    BY <2>1
  <2>3. role \in {0, 1}
    BY <2>2
  <2>4. (role + 1) % 2 \in {0, 1}
    BY <2>3
  <2> QED BY <2>3, <2>4 DEF Server, Client
<1> HIDE DEF role
<1>3. Good(plan, t, m)
  <2>1. t \in DeviceType(plan, s.me) /\ Same(s, t)
    BY <1>1, <1>2 DEF DeviceType, Same, SameLink, SameBook, SameNews
  <2> QED BY <2>1, SameKeeps
<1> HIDE DEF t
<1>4. Good(plan, u, m)
  BY <1>3, ServePhasesKeeps, ClientRunKeeps
<1> HIDE DEF u
<1>5. Good(plan, x, m)
  <2> DEFINE k == (role + 1) % 2
  <2>1. k \in {Server, Client}
    BY <1>2
  <2> HIDE DEF k
  <2>2. u \in DeviceType(plan, u.me)
    BY <1>4 DEF Good, Own
  <2>3. x = [u EXCEPT !.first = k]
    BY DEF k
  <2> HIDE DEF x
  <2>4. x \in DeviceType(plan, u.me) /\ Same(u, x)
    BY <2>1, <2>2, <2>3 DEF DeviceType, Same, SameLink, SameBook, SameNews
  <2> QED BY <1>4, <2>4, SameKeeps
<1>6. Serve(s, i) = IF ~s.wants[role] THEN s ELSE x
  BY DEF Serve, x, u, t, role
<1> QED BY <1>5, <1>6

LEMMA DispatchCanSendKeeps ==
  ASSUME plan \in Plans, NEW s, NEW m, Good(plan, s, m)
  PROVE  Good(plan, DispatchCanSend(s), m)
<1> DEFINE a == [s EXCEPT !.pending = FALSE]
           b == Serve(a, 0)
           c == IF s.wants[s.first] /\ ~CanSend(b) THEN b ELSE Serve(b, 1)
           again == ~c.pending /\ \E r \in {Server, Client} : c.wants[r]
           d == [c EXCEPT !.pending = TRUE, !.channelWants = TRUE]
<1>1. Good(plan, a, m)
  <2>1. s \in DeviceType(plan, s.me)
    BY DEF Good, Own
  <2>2. a \in DeviceType(plan, s.me) /\ Same(s, a)
    BY <2>1 DEF DeviceType, Same, SameLink, SameBook, SameNews
  <2> QED BY <2>2, SameKeeps
<1> HIDE DEF a
<1>2. Good(plan, b, m)
  BY <1>1, ServeKeeps
<1> HIDE DEF b
<1>3. Good(plan, c, m)
  BY <1>2, ServeKeeps
<1> HIDE DEF c
<1>4. Good(plan, d, m)
  <2>1. c \in DeviceType(plan, c.me)
    BY <1>3 DEF Good, Own
  <2>2. d \in DeviceType(plan, c.me) /\ Same(c, d)
    BY <2>1 DEF DeviceType, Same, SameLink, SameBook, SameNews
  <2> QED BY <1>3, <2>2, SameKeeps
<1>5. DispatchCanSend(s) = IF again THEN d ELSE c
  BY DEF DispatchCanSend, With, c, b, a
<1> QED BY <1>3, <1>4, <1>5

LEMMA TurnKeeps ==
  ASSUME plan \in Plans, NEW s, NEW m, Good(plan, s, m)
  PROVE  Good(plan, Turn(s), m)
<1> DEFINE t == [s EXCEPT !.channelWants = FALSE]
<1>1. s \in DeviceType(plan, s.me)
  BY DEF Good, Own
<1>2. t \in DeviceType(plan, s.me) /\ Same(s, t)
  BY <1>1 DEF DeviceType, Same, SameLink, SameBook, SameNews
<1>3. Good(plan, t, m)
  BY <1>2, SameKeeps
<1> HIDE DEF t
<1>4. Turn(s) = IF s.channelWants /\ CanSend(s) THEN DispatchCanSend(t) ELSE s
  BY DEF Turn, t
<1> QED BY <1>3, <1>4, DispatchCanSendKeeps

LEMMA NotifyKeeps ==
  ASSUME plan \in Plans, NEW s, NEW m, Good(plan, s, m)
  PROVE  Good(plan, Notify(s), m)
<1> DEFINE t == Turn(s)
<1>1. Good(plan, t, m)
  BY TurnKeeps
<1>2. Notify(s) = Turn(t)
  BY DEF Notify, With
<1> HIDE DEF t
<1> QED BY <1>1, <1>2, TurnKeeps

LEMMA DispatchRequestKeeps ==
  ASSUME plan \in Plans, NEW s, NEW m, Good(plan, s, m), NEW role \in {Server, Client}
  PROVE  Good(plan, DispatchRequest(s, role), m)
<1> DEFINE t == Ask(s, role)
<1>1. Good(plan, t, m)
  BY AskKeeps
<1>2. DispatchRequest(s, role) = IF s.pending THEN t ELSE Notify(t)
  BY DEF DispatchRequest, With
<1> HIDE DEF t
<1> QED BY <1>1, <1>2, NotifyKeeps

LEMMA RequestKeeps ==
  ASSUME plan \in Plans, NEW s, NEW m, Good(plan, s, m)
  PROVE  Good(plan, ClientRequest(s), m) /\ Good(plan, ServerRequest(s), m)
BY DispatchRequestKeeps DEF ClientRequest, ServerRequest

----------------------------------------------------------------------------
(* A PDU arrives *)

Pop(m) == [m EXCEPT !.out = Tail(@)]

(* What is known of the PDU, and of its sender without it.                 *)
LEMMA PopFacts ==
  ASSUME NEW s, NEW m, Good(plan, s, m), m.out # <<>>
  PROVE  LET r == Pop(m)
             p == Head(m.out)
         IN  /\ s.link = "up" /\ m.link = "up" /\ p \in PduType /\ p \in On(m.out)
             /\ Own(plan, r) /\ SameLink(m, r) /\ SameBook(m, r) /\ SameNews(m, r)
             /\ r.client = m.client /\ r.server = m.server /\ r.out \in Seq(PduType)
             /\ On(m.out) = On(r.out) \cup {p}
             /\ \A S : Count(m.out, S) = Count(r.out, S) + IF p.op \in S THEN 1 ELSE 0
             /\ \A S : p.op \notin S => Alike(m.out, r.out, S)
<1> DEFINE o == Tail(m.out)
           r == Pop(m)
           p == Head(m.out)
<1>1. m \in DeviceType(plan, m.me) /\ m.out \in Seq(PduType) /\ Own(plan, m)
  BY Parts DEF Good
<1>2. s.link = "up" /\ m.link = "up"
  BY DEF Good, Pair, Links
<1>3. /\ o \in Seq(PduType) /\ p \in PduType /\ On(m.out) = On(o) \cup {p}
      /\ \A S : Count(m.out, S) = Count(o, S) + IF p.op \in S THEN 1 ELSE 0
      /\ \A S : p.op \notin S => Alike(m.out, o, S)
  BY <1>1, CountTail
<1> HIDE DEF o, p
<1>4. /\ r \in DeviceType(plan, m.me) /\ SameLink(m, r) /\ SameBook(m, r) /\ SameNews(m, r)
      /\ r.client = m.client /\ r.server = m.server /\ r.out = o
  BY <1>1, <1>3 DEF DeviceType, SameLink, SameBook, SameNews, Pop, o
<1> HIDE DEF r
<1>5. \A x \in On(r.out) : x \in On(m.out)
  BY <1>3, <1>4
<1>6. Own(plan, r)
  BY <1>1, <1>2, <1>4, <1>5, BookFrame, AtWorkFrame, UpdatingFrame, ValidFrame
     DEF Own, SameLink, SameNews
<1> QED BY <1>2, <1>3, <1>4, <1>6 DEF r, p

(* It is no part of a transaction, or of an indication.                    *)
LEMMA PopOther ==
  ASSUME NEW s, NEW m, Good(plan, s, m), m.out # <<>>,
         Head(m.out).op \notin Requests \cup Responses \cup {"IND", "CONFIRM"}
  PROVE  Good(plan, s, Pop(m))
<1> DEFINE r == Pop(m)
           p == Head(m.out)
<1>1. /\ s.link = "up" /\ m.link = "up" /\ Own(plan, r) /\ SameLink(m, r) /\ SameBook(m, r)
      /\ SameNews(m, r) /\ r.client = m.client /\ r.server = m.server
      /\ \A S : p.op \notin S => Alike(m.out, r.out, S)
  BY PopFacts
<1> HIDE DEF r
<1>2. /\ Alike(m.out, r.out, Requests) /\ Alike(m.out, r.out, Responses)
      /\ Alike(m.out, r.out, {"IND"}) /\ Alike(m.out, r.out, {"CONFIRM"})
  BY <1>1
<1>3. Pair(plan, s, r)
  BY <1>1, <1>2, LinksFrame, AskingFrame, AgreeingFrame, IndicatingFrame, AlikeItself
     DEF Good, Pair, SameLink, SameNews, Heard
<1>4. Pair(plan, r, s)
  BY <1>1, <1>2, LinksFrame, AskingFrame, AgreeingFrame, IndicatingFrame, AlikeItself
     DEF Good, Pair, SameLink, SameNews, Open
<1>5. Good(plan, s, r)
  BY <1>1, <1>3, <1>4 DEF Good, SameLink
<1> QED BY <1>5 DEF r

(* It is a response: the transaction is over, or it is an answer that came *)
(* too late.                                                               *)
LEMMA PopResponse ==
  ASSUME NEW s, NEW m, Good(plan, s, m), m.out # <<>>, Head(m.out).op \in Responses \ {"MTU_RSP"},
         NEW t \in DeviceType(plan, s.me), SameLink(s, t), SameNews(s, t), t.out = s.out,
         t.server = s.server, t.client.known = s.client.known, t.client.mtu = s.client.mtu,
         t.client.mtuState = s.client.mtuState, t.client.confirm = s.client.confirm,
         \/ ~Open(s)
         \/ s.client.state = "WAIT" /\ t.client.state # "WAIT",
         Book(plan, t), AtWork(t)
  PROVE  Good(plan, t, Pop(m))
<1> DEFINE r == Pop(m)
           p == Head(m.out)
<1>1. /\ s.link = "up" /\ m.link = "up" /\ Own(plan, r) /\ SameLink(m, r) /\ SameBook(m, r)
      /\ SameNews(m, r) /\ r.client = m.client /\ r.server = m.server
      /\ m.out \in Seq(PduType) /\ r.out \in Seq(PduType) /\ s.out \in Seq(PduType)
      /\ On(m.out) = On(r.out) \cup {p}
      /\ Count(m.out, Responses) = Count(r.out, Responses) + 1
      /\ \A S : p.op \notin S => Alike(m.out, r.out, S)
  BY PopFacts, Parts DEF Good
<1>2. p.op \notin Requests /\ p.op \notin {"IND", "CONFIRM", "MTU_RSP", "MTU_REQ"}
  BY DEF Requests, Responses
<1> HIDE DEF r, p
<1>3. /\ Alike(m.out, r.out, Requests) /\ Alike(m.out, r.out, {"IND"})
      /\ Alike(m.out, r.out, {"CONFIRM"})
  BY <1>1, <1>2
<1>4. Own(plan, t)
  BY UpdatingFrame, ValidFrame DEF Good, Own, SameLink, SameNews
<1>5. Pair(plan, t, r)
  <2>1. Asking(t, r)
    <3>1. Exchange(t, r)
      BY <1>1 DEF Good, Pair, Asking, Exchange
    <3>2. ASSUME Open(t) PROVE Underway(t, r) = (IF Working(t) THEN 1 ELSE 0) /\ Fits(t, r)
      <4>1. Open(s) /\ s.client.state = "WAIT" /\ t.client.state # "WAIT"
        BY <3>2 DEF Open, SameLink
      <4>2. ~Working(t)
        BY <4>1 DEF Working, Good, Own, AtWork
      <4>3. Underway(s, m) = 1
        BY <1>1, <4>1 DEF Good, Pair, Asking, Working
      <4>4. Count(t.out, Requests) = 0 /\ Count(r.out, Responses) = 0 /\ r.server.state = "IDLE"
        BY <1>1, <4>3, PlacesFacts DEF Underway
      <4> QED BY <1>1, <4>2, <4>4, PlacesFacts DEF Underway, Fits
    <3> QED BY <3>1, <3>2 DEF Asking
  <2>2. Agreeing(t, r)
    BY <1>1, <1>2 DEF Good, Pair, Agreeing, SameLink
  <2>3. Links(t, r) /\ Indicating(plan, t, r)
    BY <1>1, <1>3, LinksFrame, IndicatingFrame, AlikeItself
       DEF Good, Pair, SameLink, SameNews, Heard
  <2> QED BY <2>1, <2>2, <2>3 DEF Pair
<1>6. Pair(plan, r, t)
  BY SMTT(30), <1>1, <1>3, LinksFrame, AskingFrame, AgreeingFrame, IndicatingFrame, AlikeItself
     DEF Good, Pair, SameLink, SameNews, Open, Heard
<1>7. Good(plan, t, r)
  BY <1>1, <1>4, <1>5, <1>6 DEF Good, SameLink
<1> QED BY <1>7 DEF r

(* When a response arrives the client waits for it, or it is too late.     *)
LEMMA Expected ==
  ASSUME NEW s, NEW m, Good(plan, s, m), NEW p \in On(m.out), p.op \in Responses, s.link = "up"
  PROVE  /\ s.client.known
         /\ p.op = "MTU_RSP" => s.client.mtuState = "SENT"
         /\ Open(s) /\ p.op # "MTU_RSP" =>
              /\ s.client.state = "WAIT" /\ s.client.stage \in Stages
              /\ p.op \in Answers(RequestOf[s.client.stage])
<1>1. s.out \in Seq(PduType) /\ m.out \in Seq(PduType)
  BY Parts DEF Good
<1>2. Count(m.out, Responses) \in Nat /\ Count(m.out, Responses) # 0
  BY <1>1, PlacesFacts
<1>3. Open(s) => Working(s) /\ p.op \in Answers(Awaited(s.client))
  <2>1. Open(s) => Underway(s, m) = (IF Working(s) THEN 1 ELSE 0) /\ Fits(s, m)
    BY DEF Good, Pair, Asking
  <2>2. Count(s.out, Requests) \in Nat
    BY <1>1, PlacesFacts
  <2>3. Open(s) => Working(s)
    BY <1>2, <2>1, <2>2 DEF Underway
  <2> QED BY <2>1, <2>3 DEF Fits
<1>4. s.client.known
  <2>1. ~s.client.known => s.client = NoContext /\ ~s.late
    BY DEF Good, Own, AtWork
  <2>2. ~s.client.known => Open(s) /\ ~Working(s)
    BY <2>1 DEF Open, Working, NoContext
  <2> QED BY <1>3, <2>2
<1>5. p.op = "MTU_RSP" => s.client.mtuState = "SENT"
  BY DEF Good, Pair, Asking, Exchange
<1>6. ASSUME Open(s), p.op # "MTU_RSP"
      PROVE  /\ s.client.state = "WAIT" /\ s.client.stage \in Stages
             /\ p.op \in Answers(RequestOf[s.client.stage])
  <2>1. s.client.mtuState # "SENT"
    BY <1>3, <1>6 DEF Awaited, Answers
  <2> QED BY <1>3, <1>6, <2>1 DEF Working, Awaited, Good, Own, AtWork
<1> QED BY <1>4, <1>5, <1>6

LEMMA CompletePops ==
  ASSUME plan \in Plans, NEW s, NEW m, Good(plan, s, m), m.out # <<>>,
         Head(m.out).op \in Responses \ {"MTU_RSP"},
         s.client.known, s.client.state # "READY" \/ s.late,
         ~Open(s) \/ s.client.state = "WAIT", NEW status \in Statuses
  PROVE  Good(plan, Complete(s, status), Pop(m))
<1> DEFINE t == Done(s, status)
<1>1. /\ s \in DeviceType(plan, s.me) /\ s.client \in ClientType(plan, s.me)
  BY Parts DEF Good
<1>2. /\ t \in DeviceType(plan, s.me) /\ SameLink(s, t) /\ SameNews(s, t)
      /\ t.out = s.out /\ t.server = s.server /\ Book(plan, t) /\ AtWork(t)
      /\ t.client = [s.client EXCEPT !.state = "READY", !.timer = FALSE]
  BY DoneFacts DEF Good
<1> HIDE DEF t
<1>3. /\ t.client.known = s.client.known /\ t.client.mtu = s.client.mtu
      /\ t.client.mtuState = s.client.mtuState /\ t.client.confirm = s.client.confirm
      /\ t.client.state = "READY"
  BY <1>1, <1>2 DEF ClientType
<1>4. Good(plan, t, Pop(m))
  BY <1>2, <1>3, PopResponse
<1> QED BY <1>1, <1>3, <1>4, CompleteKeeps DEF t

(* The query goes on with another request.                                 *)
LEMMA AgainPops ==
  ASSUME NEW s, NEW m, Good(plan, s, m), m.out # <<>>,
         Head(m.out).op \in Responses \ {"MTU_RSP"},
         s.client.known, s.client.state # "READY" \/ s.late,
         ~Open(s) \/ s.client.state = "WAIT",
         NEW c \in ClientType(plan, s.me), c.state = "SEND", c.stage \in Stages, c.known,
         c.callback = s.client.callback, c.queue = s.client.queue, c.mtu = s.client.mtu,
         c.mtuState = s.client.mtuState, c.confirm = s.client.confirm
  PROVE  Good(plan, [s EXCEPT !.client = c], Pop(m))
<1> DEFINE t == [s EXCEPT !.client = c]
<1>1. s \in DeviceType(plan, s.me) /\ s.link # "down"
  BY Parts DEF Good
<1>2. /\ t \in DeviceType(plan, s.me) /\ SameLink(s, t) /\ SameBook(s, t) /\ SameNews(s, t)
      /\ t.client = c /\ t.server = s.server /\ t.out = s.out
  BY <1>1, WithClient
<1> HIDE DEF t
<1>3. Book(plan, t)
  BY <1>2, BookFrame DEF Good, Own, SameLink
<1>4. AtWork(t)
  <2>1. AtWork(s) /\ (s.late => s.client.callback \in s.accepted)
    BY DEF Good, Own, AtWork, Book
  <2>2. ASSUME ~t.late, NEW x \in t.accepted
        PROVE  Unanswered(t, x) <=> t.client.state # "READY" /\ x = t.client.callback
    BY <1>2, <2>1, <2>2 DEF AtWork, Unanswered, SameLink, SameBook
  <2> QED BY <1>1, <1>2, <2>1, <2>2 DEF AtWork, SameLink, SameBook
<1>5. Good(plan, t, Pop(m))
  BY <1>2, <1>3, <1>4, PopResponse
<1> QED BY <1>5 DEF t

(* What was found is no part of the invariant.                             *)
LEMMA FoundKeeps ==
  ASSUME NEW s, NEW m, Good(plan, s, m), NEW off \in Int, NEW len \in Int
  PROVE  LET t == Found(s, off, len)
         IN  Good(plan, t, m) /\ t.client = s.client /\ t.late = s.late /\ t.me = s.me
<1> DEFINE t == Found(s, off, len)
           q == s.client.callback
           x == IF s.got[q] = off THEN off + len ELSE -1
           g == [s.got EXCEPT ![q] = x]
<1>1. s \in DeviceType(plan, s.me)
  BY DEF Good, Own
<1>2. t \in DeviceType(plan, s.me) /\ Same(s, t)
  <2>1. g \in [1..Len(plan[s.me].queries) -> Int]
    <3>1. x \in Int /\ s.got \in [1..Len(plan[s.me].queries) -> Int]
      BY <1>1 DEF DeviceType
    <3> HIDE DEF x, q
    <3> QED BY <3>1
  <2>2. t = [s EXCEPT !.got = g]
    BY DEF Found
  <2> HIDE DEF g, t
  <2> QED BY <1>1, <2>1, <2>2 DEF DeviceType, Same, SameLink, SameBook, SameNews
<1> HIDE DEF t
<1>3. Good(plan, t, m) /\ t.client = s.client /\ t.late = s.late /\ t.me = s.me
  BY <1>2, SameKeeps DEF Same, SameLink
<1> QED BY <1>3 DEF t

LEMMA NextBlobPops ==
  ASSUME plan \in Plans, NEW s, NEW m, Good(plan, s, m), m.out # <<>>,
         Head(m.out).op \in Responses \ {"MTU_RSP"},
         s.client.known, s.client.state = "WAIT", NEW len \in Nat
  PROVE  Good(plan, NextBlob(s, len), Pop(m))
<1> DEFINE k == s.client.offset + len
           c == [s.client EXCEPT !.offset = k, !.state = "SEND"]
<1>1. s.client \in ClientType(plan, s.me) /\ s.client.stage \in Stages /\ "success" \in Statuses
  BY Parts DEF Good, Own, AtWork, Statuses
<1> HIDE DEF k
<1>2. /\ c \in ClientType(plan, s.me) /\ c.state = "SEND" /\ c.stage \in Stages /\ c.known
      /\ c.callback = s.client.callback /\ c.queue = s.client.queue /\ c.mtu = s.client.mtu
      /\ c.mtuState = s.client.mtuState /\ c.confirm = s.client.confirm
  <2>1. k \in Nat
    BY <1>1 DEF ClientType, k
  <2> QED BY <1>1, <2>1 DEF ClientType
<1>3. NextBlob(s, len) = IF len < s.client.mtu - 1 THEN Complete(s, "success")
                         ELSE [s EXCEPT !.client = c]
  BY DEF NextBlob, k
<1> HIDE DEF c
<1> QED BY <1>1, <1>2, <1>3, CompletePops, AgainPops

LEMMA NextDescriptorPops ==
  ASSUME plan \in Plans, NEW s, NEW m, Good(plan, s, m), m.out # <<>>,
         Head(m.out).op \in Responses \ {"MTU_RSP"},
         s.client.known, ~Open(s) \/ s.client.state = "WAIT", NEW last \in Nat
  PROVE  Good(plan, NextDescriptor(s, last), Pop(m))
<1> DEFINE k == last + 1
           c == [s.client EXCEPT !.from = k, !.state = "SEND", !.stage = "find"]
<1>1. /\ s.client \in ClientType(plan, s.me) /\ "find" \in Stages /\ "success" \in Statuses
      /\ s.client.state # "READY" \/ s.late
  BY Parts DEF Good, Stages, Statuses, Open
<1> HIDE DEF k
<1>2. /\ c \in ClientType(plan, s.me) /\ c.state = "SEND" /\ c.stage \in Stages /\ c.known
      /\ c.callback = s.client.callback /\ c.queue = s.client.queue /\ c.mtu = s.client.mtu
      /\ c.mtuState = s.client.mtuState /\ c.confirm = s.client.confirm
  <2>1. k \in Nat
    BY DEF k
  <2> QED BY <1>1, <2>1 DEF ClientType
<1>3. NextDescriptor(s, last) = IF last >= Handles THEN Complete(s, "success")
                                ELSE [s EXCEPT !.client = c]
  BY DEF NextDescriptor, k
<1> HIDE DEF c
<1> QED BY <1>1, <1>2, <1>3, CompletePops, AgainPops

LEMMA NextPreparePops ==
  ASSUME NEW s, NEW m, Good(plan, s, m), m.out # <<>>, Head(m.out).op \in Responses \ {"MTU_RSP"},
         s.client.known, s.client.state = "WAIT", NEW off \in Nat
  PROVE  Good(plan, NextPrepare(s, off), Pop(m))
<1> DEFINE c == [s.client EXCEPT !.offset = off]
           d == [c EXCEPT !.offset = off + WriteBlob(c), !.state = "SEND"]
           e == IF WriteBlob(d) = 0 THEN [d EXCEPT !.stage = "execute"] ELSE d
<1>1. /\ s.client \in ClientType(plan, s.me) /\ s.client.stage \in Stages /\ "execute" \in Stages
      /\ s.client.mtu \in Nat /\ s.client.mtu > 5 /\ s.client.length \in Nat
  BY Parts, MtuFacts DEF Good, Own, AtWork, Stages, ClientType
<1>2. WriteBlob(c) \in Nat
  <2>1. c.mtu = s.client.mtu /\ c.length = s.client.length /\ c.offset = off
    BY <1>1 DEF ClientType
  <2> HIDE DEF c
  <2> QED BY <1>1, <2>1 DEF WriteBlob, Smaller
<1>3. d = [s.client EXCEPT !.offset = off + WriteBlob(c), !.state = "SEND"]
  BY <1>1 DEF ClientType
<1> DEFINE k == off + WriteBlob(c)
<1>4. k \in Nat
  BY <1>2
<1>5. d = [s.client EXCEPT !.offset = k, !.state = "SEND"]
  BY <1>3
<1> HIDE DEF c, d, k
<1>6. /\ d \in ClientType(plan, s.me) /\ d.state = "SEND" /\ d.stage \in Stages /\ d.known
      /\ d.callback = s.client.callback /\ d.queue = s.client.queue /\ d.mtu = s.client.mtu
      /\ d.mtuState = s.client.mtuState /\ d.confirm = s.client.confirm
  BY <1>1, <1>4, <1>5 DEF ClientType
<1>7. /\ e \in ClientType(plan, s.me) /\ e.state = "SEND" /\ e.stage \in Stages /\ e.known
      /\ e.callback = s.client.callback /\ e.queue = s.client.queue /\ e.mtu = s.client.mtu
      /\ e.mtuState = s.client.mtuState /\ e.confirm = s.client.confirm
  BY <1>1, <1>6 DEF ClientType
<1>8. NextPrepare(s, off) = [s EXCEPT !.client = e]
  BY DEF NextPrepare, c, d
<1> HIDE DEF e
<1> QED BY <1>7, <1>8, AgainPops

(* The exchange of the MTU is over.                                        *)
LEMMA TakeMtuPops ==
  ASSUME plan \in Plans, NEW s, NEW m, Good(plan, s, m), m.out # <<>>, Head(m.out).op = "MTU_RSP"
  PROVE  Good(plan, TakeMtu(s, Head(m.out)), Pop(m))
<1> DEFINE r == Pop(m)
           p == Head(m.out)
           mtu == Smaller(MaxMtu[s.me], p.len)
           c == [s.client EXCEPT !.mtu = mtu, !.mtuState = "EXCHANGED"]
           v == [s.server EXCEPT !.mtu = mtu, !.exchanged = TRUE]
           w == [s EXCEPT !.client = c]
           t == [w EXCEPT !.server = v]
<1>1. /\ s \in DeviceType(plan, s.me) /\ s.me \in Nodes /\ m.me = Peer(s.me)
      /\ s.client \in ClientType(plan, s.me) /\ s.server \in ServerType
      /\ s.out \in Seq(PduType) /\ m.out \in Seq(PduType) /\ s.link # "down"
  BY PopFacts, Parts DEF Good
<1>2. /\ s.link = "up" /\ m.link = "up" /\ p \in On(m.out) /\ Own(plan, r) /\ SameLink(m, r)
      /\ SameBook(m, r) /\ SameNews(m, r) /\ r.client = m.client /\ r.server = m.server
      /\ r.out \in Seq(PduType) /\ On(m.out) = On(r.out) \cup {p}
      /\ \A S : Count(m.out, S) = Count(r.out, S) + IF p.op \in S THEN 1 ELSE 0
      /\ \A S : p.op \notin S => Alike(m.out, r.out, S)
  BY PopFacts
<1>3. p.op \in Responses /\ p.op \notin Requests /\ p.op \notin {"IND", "CONFIRM"}
  BY DEF Responses, Requests
<1>4. s.client.known /\ s.client.mtuState = "SENT" /\ s.client.state # "WAIT"
  BY <1>2, <1>3, Expected DEF Good, Own, AtWork
<1>5. mtu = CommonMtu(s) /\ mtu \in Nat /\ m.server.exchanged
  <2>1. p.len = CommonMtu(m) /\ m.server.exchanged
    BY <1>2 DEF Good, Own, Valid
  <2>2. CommonMtu(m) = Smaller(MaxMtu[m.me], MaxMtu[s.me])
    BY <1>1, Peers DEF CommonMtu
  <2>3. MaxMtu[s.me] \in Nat /\ MaxMtu[m.me] \in Nat
    BY <1>1, Peers, BoundsAssumption
  <2> QED BY <1>1, <2>1, <2>2, <2>3 DEF CommonMtu, Smaller
<1> HIDE DEF mtu, r, p
<1>6. /\ c \in ClientType(plan, s.me) /\ c.state = s.client.state /\ c.known = s.client.known
      /\ c.stage = s.client.stage /\ c.callback = s.client.callback
      /\ c.mtu = mtu /\ c.mtuState = "EXCHANGED"
      /\ c.confirm = s.client.confirm /\ c.queue = s.client.queue
  BY <1>1, <1>5 DEF ClientType
<1>7. /\ v \in ServerType /\ v.state = s.server.state /\ v.request = s.server.request
      /\ v.mtu = mtu /\ v.exchanged /\ v.indications = s.server.indications
      /\ v.indication = s.server.indication /\ v.timer = s.server.timer
  BY <1>1, <1>5 DEF ServerType
<1> HIDE DEF c, v
<1>8. /\ w \in DeviceType(plan, s.me) /\ SameLink(s, w) /\ SameBook(s, w) /\ SameNews(s, w)
      /\ w.client = c /\ w.server = s.server /\ w.out = s.out
  BY <1>1, <1>6, WithClient
<1> HIDE DEF w
<1>9. /\ t \in DeviceType(plan, s.me) /\ SameLink(s, t) /\ SameBook(s, t) /\ SameNews(s, t)
      /\ t.client = c /\ t.server = v /\ t.out = s.out
  BY <1>7, <1>8, WithServer DEF SameLink, SameBook, SameNews
<1> HIDE DEF t
<1>10. Own(plan, t)
  <2>1. Book(plan, t) /\ Updating(plan, t)
    BY <1>6, <1>7, <1>9, BookFrame, UpdatingFrame DEF Good, Own, SameLink, SameNews
  <2>2. AtWork(t)
    <3>1. AtWork(s)
      BY DEF Good, Own
    <3>2. ASSUME ~t.late, NEW x \in t.accepted
          PROVE  Unanswered(t, x) <=> t.client.state # "READY" /\ x = t.client.callback
      BY <1>6, <1>9, <3>1, <3>2 DEF AtWork, Unanswered, SameLink, SameBook
    <3> QED BY <1>1, <1>4, <1>6, <1>9, <3>1, <3>2 DEF AtWork, SameLink, SameBook
  <2>3. Valid(t)
    <3>1. CommonMtu(t) = CommonMtu(s) /\ t.me = s.me
      BY <1>9 DEF CommonMtu, SameLink
    <3> QED BY <1>5, <1>6, <1>7, <1>9, <3>1 DEF Good, Own, Valid
  <2> QED BY <1>1, <1>9, <2>1, <2>2, <2>3 DEF Own, SameLink
<1>11. /\ Alike(m.out, r.out, Requests) /\ Alike(m.out, r.out, {"IND"})
       /\ Alike(m.out, r.out, {"CONFIRM"})
  BY <1>2, <1>3
<1>12. Pair(plan, t, r)
  <2>1. Links(t, r) /\ Indicating(plan, t, r)
    BY <1>2, <1>6, <1>7, <1>9, <1>11, LinksFrame, IndicatingFrame, AlikeItself
       DEF Good, Pair, SameLink, SameNews, Heard
  <2>2. Asking(t, r)
    <3>1. Underway(s, m) = 1 /\ ~Working(t)
      BY <1>2, <1>4, <1>6, <1>9 DEF Good, Pair, Asking, Open, Working
    <3>2. Count(t.out, Requests) = 0 /\ Count(r.out, Responses) = 0 /\ r.server.state = "IDLE"
      <4>1. Count(m.out, Responses) = Count(r.out, Responses) + 1
        BY <1>2, <1>3
      <4>2. Count(s.out, Requests) \in Nat /\ Count(r.out, Responses) \in Nat
        BY <1>1, <1>2, PlacesFacts
      <4> QED BY <1>2, <1>9, <3>1, <4>1, <4>2 DEF Underway
    <3>3. (\A x \in On(t.out) : x.op \notin Requests) /\ \A x \in On(r.out) : x.op \notin Responses
      BY <1>1, <1>2, <1>9, <3>2, PlacesFacts
    <3>4. Underway(t, r) = 0
      BY <3>2 DEF Underway
    <3>5. Fits(t, r)
      BY <3>2, <3>3 DEF Fits
    <3>6. Exchange(t, r)
      BY <3>2, <3>3 DEF Exchange, Requests, Responses
    <3> QED BY <3>1, <3>4, <3>5, <3>6 DEF Asking
  <2>3. Agreeing(t, r)
    BY <1>7, <1>9 DEF Agreeing
  <2> QED BY <2>1, <2>2, <2>3 DEF Pair
<1>13. Pair(plan, r, t)
  <2>1. Links(r, t) /\ Asking(r, t) /\ Indicating(plan, r, t)
    BY SMTT(30), <1>2, <1>6, <1>7, <1>9, <1>11, LinksFrame, AskingFrame, IndicatingFrame,
       AlikeItself DEF Good, Pair, SameLink, SameNews, Open, Heard
  <2>2. Agreeing(r, t)
    BY <1>2, <1>5 DEF Agreeing
  <2> QED BY <2>1, <2>2 DEF Pair
<1>14. Good(plan, t, r)
  BY <1>2, <1>9, <1>10, <1>12, <1>13 DEF Good, SameLink
<1>15. TakeMtu(s, p) = NotifyCanSendQuery(t)
  <2>1. t = [s EXCEPT !.client.mtu = mtu, !.client.mtuState = "EXCHANGED",
                      !.server.mtu = mtu, !.server.exchanged = TRUE]
    BY <1>1 DEF t, w, c, v, DeviceType
  <2> HIDE DEF mtu
  <2>2. TakeMtu(s, p) = NotifyCanSendQuery([s EXCEPT !.client.mtu = mtu,
             !.client.mtuState = "EXCHANGED", !.server.mtu = mtu, !.server.exchanged = TRUE])
    BY DEF TakeMtu, mtu
  <2> QED BY <2>1, <2>2
<1> QED BY <1>14, <1>15, NotifyCanSendQueryKeeps DEF r, p

(* What the client does with a response.                                   *)
LEMMA RespondPops ==
  ASSUME plan \in Plans, NEW s, NEW m, Good(plan, s, m), m.out # <<>>, Head(m.out).op \in Responses
  PROVE  Good(plan, Respond(s, Head(m.out)), Pop(m))
<1> DEFINE p == Head(m.out)
           c == s.client
           Waits(stages) == c.state = "WAIT" /\ c.stage \in stages
<1>1. /\ s.link = "up" /\ p \in PduType /\ p \in On(m.out) /\ s \in DeviceType(plan, s.me)
      /\ c \in ClientType(plan, s.me) /\ "success" \in Statuses /\ "mismatch" \in Statuses
  BY PopFacts, Parts DEF Good, Statuses
<1>2. /\ p.off \in Nat /\ p.len \in Nat /\ p.code \in Statuses
      /\ c.offset \in Nat /\ c.from \in Nat
  BY <1>1 DEF PduType, ClientType, Statuses
<1>3. /\ c.known /\ (p.op = "MTU_RSP" => c.mtuState = "SENT")
      /\ Open(s) /\ p.op # "MTU_RSP" =>
           c.state = "WAIT" /\ c.stage \in Stages /\ p.op \in Answers(RequestOf[c.stage])
  BY <1>1, Expected
<1>4. ASSUME ~Open(s), p.op # "MTU_RSP" PROVE Good(plan, s, Pop(m))
  BY <1>1, <1>4, PopResponse DEF Good, Own, SameLink, SameNews
<1>5. ASSUME NEW stage \in Stages
      PROVE  LET d == [c EXCEPT !.state = "SEND", !.stage = stage]
             IN  /\ d \in ClientType(plan, s.me) /\ d.state = "SEND" /\ d.stage \in Stages /\ d.known
                 /\ d.callback = c.callback /\ d.queue = c.queue /\ d.mtu = c.mtu
                 /\ d.mtuState = c.mtuState /\ d.confirm = c.confirm
  BY <1>1, <1>3 DEF ClientType
<1>6. ASSUME p.op # "MTU_RSP", c.state = "WAIT", NEW stage \in Stages
      PROVE  Good(plan, [s EXCEPT !.client.state = "SEND", !.client.stage = stage], Pop(m))
  <2> DEFINE d == [c EXCEPT !.state = "SEND", !.stage = stage]
  <2>1. /\ d \in ClientType(plan, s.me) /\ d.state = "SEND" /\ d.stage \in Stages /\ d.known
        /\ d.callback = c.callback /\ d.queue = c.queue /\ d.mtu = c.mtu
        /\ d.mtuState = c.mtuState /\ d.confirm = c.confirm
    BY <1>5
  <2>2. [s EXCEPT !.client.state = "SEND", !.client.stage = stage] = [s EXCEPT !.client = d]
    OBVIOUS
  <2> HIDE DEF d
  <2> QED BY <1>3, <1>6, <2>1, <2>2, AgainPops
<1>7. ASSUME p.op # "MTU_RSP", c.state = "WAIT", NEW status \in Statuses
      PROVE  Good(plan, Complete(s, status), Pop(m))
  BY <1>3, <1>7, CompletePops
<1>8. ASSUME NEW off \in Int, NEW len \in Int
      PROVE  LET t == Found(s, off, len)
             IN  /\ Good(plan, t, m) /\ t.client = c /\ (Open(t) <=> Open(s))
                 /\ t.late = s.late
  BY FoundKeeps DEF Open
<1>9. CASE p.op = "MTU_RSP"
  BY <1>3, <1>9, TakeMtuPops DEF Respond
<1>10. CASE p.op = "TYPE_RSP"
  <2>1. CASE Waits({"ccc"})
    BY <1>6, <1>10, <2>1 DEF Respond, Stages
  <2>2. CASE ~Waits({"ccc"})
    <3>1. ~Open(s)
      BY <1>3, <1>10, <2>2 DEF Answers, RequestOf, Stages
    <3> QED BY <1>4, <1>10, <2>2, <3>1 DEF Respond
  <2> QED BY <2>1, <2>2
<1>11. CASE p.op = "READ_RSP"
  <2>1. CASE Waits({"read"})
    <3> DEFINE t == Found(s, 0, p.len)
    <3>1. Good(plan, t, m) /\ t.client = c
      BY <1>2, <1>8
    <3>2. Respond(s, p) = Complete(t, "success")
      BY <1>11, <2>1 DEF Respond
    <3> HIDE DEF t
    <3> QED BY <1>1, <1>3, <1>11, <2>1, <3>1, <3>2, CompletePops
  <2>2. CASE ~Waits({"read"})
    <3>1. ~Open(s)
      BY <1>3, <1>11, <2>2 DEF Answers, RequestOf, Stages
    <3> QED BY <1>4, <1>11, <2>2, <3>1 DEF Respond
  <2> QED BY <2>1, <2>2
<1>12. CASE p.op = "BLOB_RSP"
  <2>1. CASE Waits({"blob"})
    <3> DEFINE t == Found(s, c.offset, p.len)
    <3>1. Good(plan, t, m) /\ t.client = c
      BY <1>2, <1>8
    <3>2. Respond(s, p) = NextBlob(t, p.len)
      BY <1>12, <2>1 DEF Respond
    <3> HIDE DEF t
    <3> QED BY <1>2, <1>3, <1>12, <2>1, <3>1, <3>2, NextBlobPops
  <2>2. CASE ~Waits({"blob"})
    <3>1. ~Open(s)
      BY <1>3, <1>12, <2>2 DEF Answers, RequestOf, Stages
    <3> QED BY <1>4, <1>12, <2>2, <3>1 DEF Respond
  <2> QED BY <2>1, <2>2
<1>13. CASE p.op = "FIND_RSP"
  <2> DEFINE t == Found(s, c.from - 1, p.off - c.from + 1)
  <2>1. c.from - 1 \in Int /\ p.off - c.from + 1 \in Int
    BY <1>2
  <2>2. Good(plan, t, m) /\ t.client = c /\ (Open(t) <=> Open(s))
    BY <1>8, <2>1
  <2>3. Respond(s, p) = NextDescriptor(t, p.off)
    BY <1>13 DEF Respond
  <2> HIDE DEF t
  <2> QED BY <1>2, <1>3, <1>13, <2>2, <2>3, NextDescriptorPops
<1>14. CASE p.op = "WRITE_RSP"
  <2>1. CASE Waits({"write", "cccWrite"})
    BY <1>1, <1>7, <1>14, <2>1 DEF Respond
  <2>2. CASE ~Waits({"write", "cccWrite"})
    <3>1. ~Open(s)
      BY <1>3, <1>14, <2>2 DEF Answers, RequestOf, Stages
    <3> QED BY <1>4, <1>14, <2>2, <3>1 DEF Respond
  <2> QED BY <2>1, <2>2
<1>15. CASE p.op = "PREPARE_RSP"
  <2>1. CASE Waits({"prepare"})
    <3>1. Respond(s, p) = NextPrepare(s, p.off)
      BY <1>15, <2>1 DEF Respond
    <3> QED BY <1>2, <1>3, <1>15, <2>1, <3>1, NextPreparePops
  <2>2. CASE Waits({"reliable"})
    <3>1. Respond(s, p) = IF Echoed(c, p) THEN NextPrepare(s, p.off)
                          ELSE [s EXCEPT !.client.state = "SEND", !.client.stage = "cancel"]
      BY <1>15, <2>2 DEF Respond
    <3>2. "cancel" \in Stages
      BY DEF Stages
    <3> QED BY ZenonT(40), <1>2, <1>3, <1>6, <1>15, <2>2, <3>1, <3>2, NextPreparePops
  <2>3. CASE ~Waits({"prepare"}) /\ ~Waits({"reliable"})
    <3>1. ~Open(s)
      BY <1>3, <1>15, <2>3 DEF Answers, RequestOf, Stages
    <3> QED BY <1>4, <1>15, <2>3, <3>1 DEF Respond
  <2> QED BY <2>1, <2>2, <2>3
<1>16. CASE p.op = "EXECUTE_RSP"
  <2>1. CASE Waits({"execute"})
    BY <1>1, <1>7, <1>16, <2>1 DEF Respond
  <2>2. CASE Waits({"cancel"})
    BY <1>1, <1>7, <1>16, <2>2 DEF Respond
  <2>3. CASE ~Waits({"execute"}) /\ ~Waits({"cancel"})
    <3>1. ~Open(s)
      BY <1>3, <1>16, <2>3 DEF Answers, RequestOf, Stages
    <3> QED BY <1>4, <1>16, <2>3, <3>1 DEF Respond
  <2> QED BY <2>1, <2>2, <2>3
<1>17. CASE p.op = "ERROR"
  <2>1. Respond(s, p) = IF c.state = "READY" THEN s ELSE Complete(s, p.code)
    BY <1>17 DEF Respond, ReportError
  <2>2. CASE c.state = "READY"
    BY <1>3, <1>4, <1>17, <2>1, <2>2
  <2>3. CASE c.state # "READY"
    BY <1>2, <1>3, <1>17, <2>1, <2>3, CompletePops
  <2> QED BY <2>2, <2>3
<1> QED BY <1>9, <1>10, <1>11, <1>12, <1>13, <1>14, <1>15, <1>16, <1>17 DEF Responses

(* A value arrives; an indication is to be confirmed.                      *)
LEMMA NewsPops ==
  ASSUME NEW s, NEW m, Good(plan, s, m), m.out # <<>>, Head(m.out).op \in {"NTF", "IND"},
         s.client.known
  PROVE  Good(plan, Respond(s, Head(m.out)), Pop(m))
<1> DEFINE r == Pop(m)
           p == Head(m.out)
           c == [s.client EXCEPT !.confirm = @ \/ p.op = "IND"]
           h == Append(s.heard, p.q)
           t == [s EXCEPT !.heard = h, !.client = c]
<1>1. /\ s \in DeviceType(plan, s.me) /\ s.me \in Nodes
      /\ s.client \in ClientType(plan, s.me) /\ s.out \in Seq(PduType) /\ m.out \in Seq(PduType)
      /\ s.link # "down" /\ s.heard \in Seq(Nat)
  BY ZenonT(40), PopFacts, Parts DEF Good, DeviceType
<1>2. /\ s.link = "up" /\ m.link = "up" /\ p \in PduType /\ p \in On(m.out) /\ Own(plan, r)
      /\ SameLink(m, r) /\ SameBook(m, r) /\ SameNews(m, r) /\ r.client = m.client
      /\ r.server = m.server /\ r.out \in Seq(PduType) /\ On(m.out) = On(r.out) \cup {p}
      /\ \A S : Count(m.out, S) = Count(r.out, S) + IF p.op \in S THEN 1 ELSE 0
      /\ \A S : p.op \notin S => Alike(m.out, r.out, S)
  BY PopFacts
<1>3. p.op \notin Requests /\ p.op \notin Responses /\ p.op # "CONFIRM"
  BY DEF Requests, Responses
<1>4. Respond(s, p) = t
  <2>1. Respond(s, p) = [s EXCEPT !.heard = Append(@, p.q), !.client.confirm = @ \/ p.op = "IND"]
    BY DEF Respond
  <2> QED BY <2>1, <1>1 DEF DeviceType
<1>5. h \in Seq(Nat) /\ Len(h) = Len(s.heard) + 1 /\ Len(s.heard) \in Nat
      /\ h[Len(s.heard) + 1] = p.q /\ \A k \in 1..Len(s.heard) : h[k] = s.heard[k]
  <2>1. p.q \in Nat
    BY <1>2 DEF PduType
  <2> QED BY <1>1, <2>1, AppendFacts
<1> HIDE DEF r, p, h
<1>6. /\ c \in ClientType(plan, s.me) /\ c.state = s.client.state /\ c.known
      /\ c.stage = s.client.stage /\ c.callback = s.client.callback
      /\ c.mtu = s.client.mtu /\ c.mtuState = s.client.mtuState /\ c.queue = s.client.queue
      /\ c.confirm = (s.client.confirm \/ p.op = "IND")
  BY <1>1 DEF ClientType
<1> HIDE DEF c
<1>7. /\ t \in DeviceType(plan, s.me) /\ SameLink(s, t) /\ SameBook(s, t) /\ t.next = s.next
      /\ t.reports = s.reports /\ t.heard = h /\ t.client = c /\ t.server = s.server
      /\ t.out = s.out
  BY <1>1, <1>5, <1>6 DEF DeviceType, SameLink, SameBook
<1> HIDE DEF t
<1>8. Heard(t, p.q) /\ \A u : Heard(s, u) => Heard(t, u)
  <2>1. Len(h) \in 1..Len(h) /\ 1..Len(s.heard) \subseteq 1..Len(h)
    BY <1>5
  <2>2. Heard(t, p.q)
    BY <1>5, <1>7, <2>1 DEF Heard
  <2>3. ASSUME NEW u, Heard(s, u) PROVE Heard(t, u)
    BY <1>5, <1>7, <2>1, <2>3 DEF Heard
  <2> QED BY <2>2, <2>3
<1>9. Own(plan, t)
  <2>1. Book(plan, t) /\ Updating(plan, t) /\ Valid(t)
    BY <1>6, <1>7, BookFrame, UpdatingFrame, ValidFrame DEF Good, Own, SameLink
  <2>2. AtWork(t)
    <3>1. AtWork(s)
      BY DEF Good, Own
    <3>2. ASSUME ~t.late, NEW x \in t.accepted
          PROVE  Unanswered(t, x) <=> t.client.state # "READY" /\ x = t.client.callback
      BY <1>6, <1>7, <3>1, <3>2 DEF AtWork, Unanswered, SameLink, SameBook
    <3> QED BY <1>1, <1>6, <1>7, <3>1, <3>2 DEF AtWork, SameLink, SameBook
  <2> QED BY <1>1, <1>7, <2>1, <2>2 DEF Own, SameLink
<1>10. /\ Alike(m.out, r.out, Requests) /\ Alike(m.out, r.out, Responses)
       /\ Alike(m.out, r.out, {"CONFIRM"})
  BY <1>2, <1>3
<1>11. Pair(plan, t, r)
  BY <1>2, <1>6, <1>7, <1>10, LinksFrame, AskingFrame, AgreeingFrame, IndicatingFrame, AlikeItself
     DEF Good, Pair, SameLink, SameNews, Open, Heard
<1>12. Pair(plan, r, t)
  <2>1. Links(r, t) /\ Asking(r, t) /\ Agreeing(r, t)
    BY <1>2, <1>6, <1>7, <1>10, LinksFrame, AskingFrame, AgreeingFrame, AlikeItself
       DEF Good, Pair, SameLink, Open
  <2>2. Indicating(plan, r, t)
    <3>1. CASE p.op = "NTF"
      <4>1. Alike(m.out, r.out, {"IND"}) /\ t.client.confirm = s.client.confirm
        BY <1>1, <1>2, <1>6, <1>7, <3>1 DEF ClientType
      <4> QED BY <1>2, <1>7, <1>8, <4>1, IndicatingFrame, AlikeItself
              DEF Good, Pair, SameLink, SameNews
    <3>2. CASE p.op = "IND"
      <4>1. Indicating(plan, m, s)
        BY DEF Good, Pair
      <4>2. Count(m.out, {"IND"}) = Count(r.out, {"IND"}) + 1
        BY <1>2, <3>2
      <4>3. Count(r.out, {"IND"}) \in Nat /\ Count(s.out, {"CONFIRM"}) \in Nat
        BY <1>1, <1>2, PlacesFacts
      <4>4. /\ m.server.indication # 0 /\ p.q = m.server.indication
            /\ Count(r.out, {"IND"}) = 0 /\ Count(s.out, {"CONFIRM"}) = 0
        BY <1>2, <3>2, <4>1, <4>2, <4>3 DEF Indicating
      <4>5. t.client.confirm
        BY <1>6, <1>7, <3>2
      <4>6. \A u \in 1..Len(plan[r.me].updates) : \A i \in 1..Len(r.reports[u]) :
              r.reports[u][i] = "complete" => Heard(t, u)
        BY <1>2, <1>8, <4>1 DEF Indicating, SameLink, SameNews
      <4>7. \A x \in On(r.out) : x.op # "IND"
        BY <1>2, <4>4, PlacesFacts
      <4> QED BY <1>2, <1>7, <1>8, <4>4, <4>5, <4>6, <4>7 DEF Indicating
    <3> QED BY <3>1, <3>2 DEF p
  <2> QED BY <2>1, <2>2 DEF Pair
<1>13. Good(plan, t, r)
  BY <1>2, <1>7, <1>9, <1>11, <1>12 DEF Good, SameLink
<1> QED BY <1>4, <1>13 DEF r, p

LEMMA ClientPduPops ==
  ASSUME plan \in Plans, NEW s, NEW m, Good(plan, s, m), m.out # <<>>,
         Head(m.out).op \notin Requests \cup {"COMMAND", "CONFIRM"}
  PROVE  Good(plan, ClientPdu(s, Head(m.out)), Pop(m))
<1> DEFINE p == Head(m.out)
           news == p.op \in {"NTF", "IND"}
           t == IF news THEN Provide(s) ELSE s
           u == Respond(t, p)
<1>1. s.link = "up" /\ p \in On(m.out)
  BY PopFacts
<1>2. Good(plan, t, m) /\ (news => t.client.known)
  BY <1>1, ProvideKeeps
<1>3. ClientPdu(s, p) = IF t.client.known THEN ClientRun(u) ELSE t
  BY DEF ClientPdu, With
<1> HIDE DEF t
<1>4. CASE news
  <2>1. Good(plan, u, Pop(m))
    BY <1>2, <1>4, NewsPops
  <2> HIDE DEF u
  <2> QED BY <1>2, <1>3, <1>4, <2>1, ClientRunKeeps
<1>5. CASE p.op \in Responses
  <2>1. Good(plan, u, Pop(m))
    BY <1>2, <1>5, RespondPops
  <2>2. t.client.known
    <3>1. t = s
      BY <1>5 DEF t, Responses
    <3> QED BY <1>1, <1>5, <3>1, Expected
  <2> HIDE DEF u
  <2> QED BY <1>3, <2>1, <2>2, ClientRunKeeps
<1>6. CASE ~news /\ p.op \notin Responses
  <2>1. Good(plan, t, Pop(m))
    BY <1>2, <1>6, PopOther
  <2>2. u = t
    BY <1>6 DEF Respond, Responses
  <2> HIDE DEF u
  <2> QED BY <1>3, <2>1, <2>2, ClientRunKeeps
<1> QED BY <1>4, <1>5, <1>6

(* What is said of an indication.                                          *)
LEMMA ToldOnceMore ==
  ASSUME NEW what \in {"complete", "timeout", "disconnect"}, NEW old \in {<<>>, <<"timeout">>},
         what = "timeout" => old = <<>>
  PROVE  LET new == Append(old, what)
         IN  /\ new \in Seq({"complete", "timeout", "disconnect"}) /\ new # <<>> /\ Told(new)
             /\ old = <<>> => new = <<what>>
             /\ \A k \in 1..Len(new) :
                  new[k] = "complete" => (k \in 1..Len(old) /\ old[k] = "complete") \/ what = "complete"
<1> DEFINE Whats == {"complete", "timeout", "disconnect"}
           new == Append(old, what)
<1>1. old \in Seq(Whats)
  <2>1. <<>> \in Seq(Whats) /\ <<"timeout">> \in Seq(Whats)
    OBVIOUS
  <2> HIDE DEF Whats
  <2> QED BY <2>1
<1>2. CASE old = <<>>
  <2>1. new = <<what>>
    BY <1>2
  <2>2. Len(new) = 1 /\ new[1] = what
    BY <2>1
  <2>3. new \in Seq(Whats) /\ new # <<>>
    BY <1>1, AppendFacts
  <2>4. Told(new)
    BY <2>2 DEF Told
  <2>5. \A k \in 1..Len(new) : new[k] = "complete" => what = "complete"
    <3>1. \A k \in 1..1 : k = 1
      OBVIOUS
    <3> HIDE DEF new
    <3> QED BY <2>2, <3>1
  <2> HIDE DEF new
  <2> QED BY <2>1, <2>3, <2>4, <2>5 DEF new
<1>3. CASE old = <<"timeout">>
  <2>1. Len(old) = 1 /\ old[1] = "timeout" /\ what # "timeout"
    BY <1>3
  <2>2. new \in Seq(Whats) /\ new # <<>> /\ Len(new) = 2 /\ new[2] = what /\ new[1] = "timeout"
    <3>1. /\ new \in Seq(Whats) /\ new # <<>> /\ Len(new) = Len(old) + 1
          /\ new[Len(old) + 1] = what /\ \A k \in 1..Len(old) : new[k] = old[k]
      BY <1>1, AppendFacts
    <3> HIDE DEF new, Whats
    <3> QED BY <2>1, <3>1
  <2>3. \A k \in 1..Len(new) : k = 1 \/ k = 2
    BY <2>2
  <2> HIDE DEF new
  <2>4. \A k \in 1..Len(new) : new[k] = "complete" => what = "complete"
    BY <2>2, <2>3
  <2>5. old # <<>>
    BY <2>1
  <2> QED BY <2>2, <2>1, <2>4, <2>5 DEF Told, new
<1> QED BY <1>2, <1>3

(* An indication is reported: at last, or because it timed out.            *)
Reported(p, s, what, i, t) ==
  /\ Own(p, t) /\ SameLink(s, t) /\ SameBook(s, t) /\ t.heard = s.heard
  /\ t.client = s.client /\ t.out = s.out
  /\ t.server.state = s.server.state /\ t.server.request = s.server.request
  /\ t.server.mtu = s.server.mtu /\ t.server.exchanged = s.server.exchanged
  /\ t.server.indication = i
  /\ \A x \in 1..Len(p[s.me].updates) : \A k \in 1..Len(t.reports[x]) :
       t.reports[x][k] = "complete" =>
         \/ k \in 1..Len(s.reports[x]) /\ s.reports[x][k] = "complete"
         \/ x = s.server.indication /\ what = "complete"

LEMMA ReportFacts ==
  ASSUME NEW s, Own(plan, s), s.server.indication # 0,
         NEW what \in {"complete", "timeout", "disconnect"}, NEW i \in {0, s.server.indication},
         \/ what = "timeout" /\ s.server.timer /\ i = s.server.indication
         \/ what # "timeout" /\ i = 0
  PROVE  Reported(plan, s, what, i, [ReportIndication(s, what) EXCEPT !.server.indication = i])
<1> DEFINE u == s.server.indication
           N == Len(plan[s.me].updates)
           Whats == {"complete", "timeout", "disconnect"}
           v == [s.server EXCEPT !.timer = FALSE, !.indication = i]
           g == [s.reports EXCEPT ![u] = Append(@, what)]
           t == [ReportIndication(s, what) EXCEPT !.server.indication = i]
           old == s.reports[u]
           new == Append(old, what)
<1>1. /\ s \in DeviceType(plan, s.me) /\ s.me \in Nodes /\ s.server \in ServerType
      /\ u \in Nat /\ i \in Nat
  BY Parts DEF ServerType
<1>2. s.link # "down" /\ Updating(plan, s)
  BY DEF Own, AtWork, NewConnection
<1>3. u \in 1..N /\ u < s.next /\ s.next \in Nat /\ s.reports \in [1..N -> Seq(Whats)]
  <2>1. s.next \in 1..N + 1 /\ s.reports \in [1..N -> Seq(Whats)]
    BY <1>1 DEF DeviceType
  <2>2. u \in 1..s.next - 1
    BY <1>2 DEF Updating
  <2> QED BY <2>1, <2>2
<1>4. old \in {<<>>, <<"timeout">>} /\ (what = "timeout" => old = <<>>) /\ old \in Seq(Whats)
  BY <1>2, <1>3 DEF Updating
<1>5. /\ new \in Seq(Whats) /\ new # <<>> /\ Told(new) /\ (old = <<>> => new = <<what>>)
      /\ \A k \in 1..Len(new) :
           new[k] = "complete" => (k \in 1..Len(old) /\ old[k] = "complete") \/ what = "complete"
  BY <1>4, ToldOnceMore
<1> HIDE DEF new
<1>6. /\ g \in [1..N -> Seq(Whats)] /\ g[u] = new /\ \A x \in 1..N : x # u => g[x] = s.reports[x]
  <2>1. g = [s.reports EXCEPT ![u] = new]
    BY DEF new
  <2> HIDE DEF g, Whats
  <2> QED BY <1>3, <1>5, <2>1
<1>7. /\ v \in ServerType /\ ~v.timer /\ v.indication = i /\ v.state = s.server.state
      /\ v.request = s.server.request /\ v.mtu = s.server.mtu
      /\ v.exchanged = s.server.exchanged /\ v.indications = s.server.indications
  BY <1>1 DEF ServerType
<1>8. t = [s EXCEPT !.reports = g, !.server = v]
  BY <1>1 DEF ReportIndication, DeviceType, ServerType
<1> HIDE DEF g, v, t, old
<1>9. /\ t \in DeviceType(plan, s.me) /\ SameLink(s, t) /\ SameBook(s, t) /\ t.heard = s.heard
      /\ t.next = s.next /\ t.client = s.client /\ t.out = s.out /\ t.server = v /\ t.reports = g
  BY <1>1, <1>6, <1>7, <1>8 DEF DeviceType, SameLink, SameBook
<1>10. Updating(plan, t)
  <2>1. Waiting(t) = Waiting(s)
    BY <1>7, <1>9 DEF Waiting
  <2>2. ASSUME NEW x \in Waiting(t)
        PROVE  x \in 1..t.next - 1 /\ x # t.server.indication /\ t.reports[x] = <<>>
    <3>1. x \in 1..s.next - 1 /\ x # u /\ s.reports[x] = <<>>
      BY <1>2, <2>1, <2>2 DEF Updating
    <3>2. x \in 1..N
      BY <1>1, <1>3, <3>1 DEF DeviceType
    <3> QED BY <1>6, <1>7, <1>9, <3>1, <3>2
  <2>3. t.server.indication # 0 =>
          /\ t.server.indication \in 1..t.next - 1
          /\ t.reports[t.server.indication] = <<"timeout">>
    BY <1>2, <1>4, <1>5, <1>6, <1>7, <1>9 DEF Updating
  <2>4. t.server.timer <=> t.server.indication # 0 /\ t.reports[t.server.indication] = <<>>
    BY <1>5, <1>6, <1>7, <1>9
  <2>5. ASSUME NEW x \in 1..N PROVE Told(t.reports[x]) /\ (x >= t.next => t.reports[x] = <<>>)
    <3>1. Told(s.reports[x]) /\ (x >= s.next => s.reports[x] = <<>>)
      BY <1>2 DEF Updating
    <3>2. u >= s.next => FALSE
      BY <1>1, <1>3
    <3> QED BY <1>5, <1>6, <1>9, <3>1, <3>2
  <2>6. \A a, b \in 1..Len(t.server.indications) :
          t.server.indications[a] = t.server.indications[b] => a = b
    BY <1>2, <1>7, <1>9 DEF Updating
  <2> QED BY <1>9, <2>2, <2>3, <2>4, <2>5, <2>6 DEF Updating, SameLink
<1>11. Own(plan, t)
  BY <1>1, <1>2, <1>7, <1>9, <1>10, BookFrame, AtWorkFrame, ValidFrame DEF Own, SameLink
<1>12. ASSUME NEW x \in 1..N, NEW k \in 1..Len(t.reports[x]), t.reports[x][k] = "complete"
       PROVE  \/ k \in 1..Len(s.reports[x]) /\ s.reports[x][k] = "complete"
              \/ x = u /\ what = "complete"
  <2>1. CASE x = u
    BY <1>5, <1>6, <1>9, <1>12, <2>1 DEF old
  <2>2. CASE x # u
    BY <1>6, <1>9, <1>12, <2>2
  <2> QED BY <2>1, <2>2
<1>13. Reported(plan, s, what, i, t)
  BY <1>7, <1>9, <1>11, <1>12 DEF Reported
<1> QED BY <1>13 DEF t

(* An indication is confirmed.                                             *)
LEMMA ConfirmPops ==
  ASSUME NEW s, NEW m, Good(plan, s, m), m.out # <<>>, Head(m.out).op = "CONFIRM"
  PROVE  /\ s.server.indication # 0
         /\ Good(plan, [ReportIndication(s, "complete") EXCEPT !.server.indication = 0], Pop(m))
<1> DEFINE r == Pop(m)
           p == Head(m.out)
           u == s.server.indication
           t == [ReportIndication(s, "complete") EXCEPT !.server.indication = 0]
<1>1. /\ s.link = "up" /\ m.link = "up" /\ Own(plan, r) /\ SameLink(m, r) /\ SameBook(m, r)
      /\ SameNews(m, r) /\ r.client = m.client /\ r.server = m.server
      /\ r.out \in Seq(PduType) /\ s.out \in Seq(PduType)
      /\ \A S : Count(m.out, S) = Count(r.out, S) + IF p.op \in S THEN 1 ELSE 0
      /\ \A S : p.op \notin S => Alike(m.out, r.out, S)
  BY PopFacts, Parts DEF Good
<1> HIDE DEF r
<1>2. /\ Alike(m.out, r.out, Requests) /\ Alike(m.out, r.out, Responses)
      /\ Alike(m.out, r.out, {"IND"})
  BY <1>1 DEF Requests, Responses
<1>3. Indicating(plan, s, m) /\ Count(m.out, {"CONFIRM"}) = Count(r.out, {"CONFIRM"}) + 1
  BY <1>1 DEF Good, Pair
<1>4. /\ u # 0 /\ Count(s.out, {"IND"}) = 0 /\ Count(r.out, {"CONFIRM"}) = 0 /\ ~m.client.confirm
      /\ Heard(m, u)
  <2>1. Count(s.out, {"IND"}) \in Nat /\ Count(r.out, {"CONFIRM"}) \in Nat
    BY <1>1, PlacesFacts
  <2>2. u # 0 /\ Count(s.out, {"IND"}) = 0 /\ Count(r.out, {"CONFIRM"}) = 0 /\ ~m.client.confirm
    BY <1>1, <1>3, <2>1 DEF Indicating
  <2> QED BY <1>1, <1>3, <2>2 DEF Indicating
<1>5. /\ Own(plan, t) /\ SameLink(s, t) /\ SameBook(s, t) /\ t.heard = s.heard
      /\ t.client = s.client /\ t.out = s.out
      /\ t.server.state = s.server.state /\ t.server.request = s.server.request
      /\ t.server.mtu = s.server.mtu /\ t.server.exchanged = s.server.exchanged
      /\ t.server.indication = 0
      /\ \A x \in 1..Len(plan[s.me].updates) : \A k \in 1..Len(t.reports[x]) :
           t.reports[x][k] = "complete" =>
             (k \in 1..Len(s.reports[x]) /\ s.reports[x][k] = "complete") \/ x = u
  <2>1. Reported(plan, s, "complete", 0, t)
    BY <1>4, ReportFacts DEF Good
  <2> HIDE DEF t
  <2> QED BY <2>1 DEF Reported
<1> HIDE DEF t
<1>6. Pair(plan, t, r)
  <2>1. Links(t, r) /\ Asking(t, r) /\ Agreeing(t, r)
    BY <1>1, <1>2, <1>5, LinksFrame, AskingFrame, AgreeingFrame, AlikeItself
       DEF Good, Pair, SameLink, Open
  <2>2. Indicating(plan, t, r)
    <3>1. \A x \in On(t.out) : x.op # "IND"
      BY <1>1, <1>4, <1>5, PlacesFacts
    <3>2. \A x : Heard(r, x) <=> Heard(m, x)
      BY <1>1 DEF Heard, SameNews
    <3>3. \A x \in 1..Len(plan[t.me].updates) : \A k \in 1..Len(t.reports[x]) :
            t.reports[x][k] = "complete" => Heard(r, x)
      BY <1>3, <1>4, <1>5, <3>2 DEF Indicating, SameLink
    <3> QED BY <1>1, <1>4, <1>5, <3>1, <3>3 DEF Indicating
  <2> QED BY <2>1, <2>2 DEF Pair
<1>7. Pair(plan, r, t)
  BY <1>1, <1>2, <1>5, LinksFrame, AskingFrame, AgreeingFrame, IndicatingFrame, AlikeItself
     DEF Good, Pair, SameLink, SameNews, Open, Heard
<1>8. Good(plan, t, r)
  BY <1>1, <1>5, <1>6, <1>7 DEF Good, SameLink
<1> QED BY <1>4, <1>8 DEF t, r

(* A request is taken, or dropped: an answer to the one before came late.  *)
LEMMA RequestPops ==
  ASSUME NEW s, NEW m, Good(plan, s, m), m.out # <<>>, Head(m.out).op \in Requests
  PROVE  Good(plan, IF s.server.state # "IDLE" THEN s
                    ELSE [s EXCEPT !.server.state = "VALIDATED", !.server.request = Head(m.out)],
              Pop(m))
<1> DEFINE r == Pop(m)
           p == Head(m.out)
           v == [s.server EXCEPT !.state = "VALIDATED", !.request = p]
           t == [s EXCEPT !.server = v]
<1>1. /\ s \in DeviceType(plan, s.me) /\ s.me \in Nodes /\ m.me = Peer(s.me)
      /\ s.server \in ServerType /\ s.out \in Seq(PduType) /\ m.out \in Seq(PduType)
  BY Parts DEF Good
<1>2. /\ s.link = "up" /\ m.link = "up" /\ p \in PduType /\ p \in On(m.out) /\ Own(plan, r)
      /\ SameLink(m, r) /\ SameBook(m, r) /\ SameNews(m, r) /\ r.client = m.client
      /\ r.server = m.server /\ r.out \in Seq(PduType) /\ On(m.out) = On(r.out) \cup {p}
      /\ Count(m.out, Requests) = Count(r.out, Requests) + 1
      /\ \A S : p.op \notin S => Alike(m.out, r.out, S)
  BY PopFacts
<1>3. p.op \notin Responses /\ p.op \notin {"IND", "CONFIRM", "MTU_RSP"} /\ p.op \in Requests
  BY DEF Requests, Responses
<1> HIDE DEF r, p
<1>4. /\ Alike(m.out, r.out, Responses) /\ Alike(m.out, r.out, {"IND"})
      /\ Alike(m.out, r.out, {"CONFIRM"})
  BY <1>2, <1>3
<1>5. Asking(m, s) /\ Count(s.out, Responses) \in Nat /\ Count(r.out, Requests) \in Nat
  BY <1>1, <1>2, PlacesFacts DEF Good, Pair
<1>6. CASE s.server.state = "IDLE"
  <2>1. /\ v \in ServerType /\ v.state = "VALIDATED" /\ v.request = p
        /\ v.mtu = s.server.mtu /\ v.exchanged = s.server.exchanged
        /\ v.indications = s.server.indications /\ v.indication = s.server.indication
        /\ v.timer = s.server.timer
    BY <1>1, <1>2 DEF ServerType
  <2> HIDE DEF v
  <2>2. /\ t \in DeviceType(plan, s.me) /\ SameLink(s, t) /\ SameBook(s, t) /\ SameNews(s, t)
        /\ t.server = v /\ t.client = s.client /\ t.out = s.out
    BY <1>1, <2>1, WithServer
  <2> HIDE DEF t
  <2>3. Own(plan, t)
    <3>1. Valid(t)
      <4>1. p.op = "MTU_REQ" => p.len = MaxMtu[Peer(s.me)]
        BY <1>1, <1>2 DEF Good, Own, Valid
      <4> QED BY <1>3, <2>1, <2>2, <4>1 DEF Good, Own, Valid, CommonMtu, SameLink
    <3> QED BY <1>1, <1>2, <2>1, <2>2, <3>1, BookFrame, AtWorkFrame, UpdatingFrame
            DEF Good, Own, SameLink, SameNews
  <2>4. Pair(plan, t, r)
    BY SMTT(30), <1>2, <1>4, <2>1, <2>2, LinksFrame, AskingFrame, AgreeingFrame,
       IndicatingFrame, AlikeItself DEF Good, Pair, SameLink, SameNews, Open, Heard
  <2>5. Pair(plan, r, t)
    <3>1. Links(r, t) /\ Agreeing(r, t) /\ Indicating(plan, r, t)
      BY <1>2, <1>4, <2>1, <2>2, LinksFrame, AgreeingFrame, IndicatingFrame, AlikeItself
         DEF Good, Pair, SameLink, SameNews, Heard
    <3>2. Underway(r, t) = Underway(m, s)
      BY <1>2, <1>5, <1>6, <2>1, <2>2 DEF Underway
    <3>3. Fits(m, s) => Fits(r, t)
      BY <1>2, <1>3, <2>1, <2>2 DEF Fits
    <3>4. Exchange(m, s) => Exchange(r, t)
      BY <1>2, <2>1, <2>2 DEF Exchange
    <3>5. Asking(r, t)
      BY <1>2, <1>5, <3>2, <3>3, <3>4 DEF Asking, Open, Working, SameLink
    <3> QED BY <3>1, <3>5 DEF Pair
  <2>6. Good(plan, t, r)
    BY <1>2, <2>2, <2>3, <2>4, <2>5 DEF Good, SameLink
  <2>7. t = [s EXCEPT !.server.state = "VALIDATED", !.server.request = p]
    BY DEF t, v
  <2> QED BY <1>6, <2>6, <2>7 DEF r, p
<1>7. CASE s.server.state # "IDLE"
  <2>1. ~Open(m)
    <3>1. Open(m) => Underway(m, s) <= 1
      BY <1>2, <1>5 DEF Asking
    <3>2. Underway(m, s) = Count(r.out, Requests) + 1 + Count(s.out, Responses) + 1
      BY <1>2, <1>7 DEF Underway
    <3> QED BY <1>5, <3>1, <3>2
  <2>2. Pair(plan, s, r)
    BY <1>2, <1>4, LinksFrame, AskingFrame, AgreeingFrame, IndicatingFrame, AlikeItself
       DEF Good, Pair, SameLink, SameNews, Heard
  <2>3. Pair(plan, r, s)
    <3>1. Links(r, s) /\ Agreeing(r, s) /\ Indicating(plan, r, s)
      BY <1>2, <1>4, LinksFrame, AgreeingFrame, IndicatingFrame, AlikeItself
         DEF Good, Pair, SameLink, SameNews
    <3>2. Exchange(m, s) => Exchange(r, s)
      BY <1>2 DEF Exchange
    <3>3. Asking(r, s)
      BY <1>2, <1>5, <2>1, <3>2 DEF Asking, Open, SameLink
    <3> QED BY <3>1, <3>3 DEF Pair
  <2>4. Good(plan, s, r)
    BY <1>2, <2>2, <2>3 DEF Good, SameLink
  <2> QED BY <1>7, <2>4 DEF r
<1> QED BY <1>6, <1>7

LEMMA ServerPduPops ==
  ASSUME plan \in Plans, NEW s, NEW m, Good(plan, s, m), m.out # <<>>,
         Head(m.out).op \in Requests \cup {"COMMAND", "CONFIRM"}
  PROVE  Good(plan, ServerPdu(s, Head(m.out)), Pop(m))
<1> DEFINE p == Head(m.out)
           u == s.server.indication
<1>1. CASE p.op = "CONFIRM"
  BY <1>1, ConfirmPops, RequestKeeps DEF ServerPdu
<1>2. CASE p.op = "COMMAND"
  <2> DEFINE w == Append(s.written, [q |-> p.q, len |-> p.len])
             t == [s EXCEPT !.written = w]
  <2>1. s \in DeviceType(plan, s.me) /\ p \in PduType
    BY PopFacts, Parts DEF Good
  <2>2. w \in Seq(ValueType)
    BY <2>1, AppendProperties DEF DeviceType, PduType, ValueType
  <2>3. Good(plan, s, Pop(m))
    BY <1>2, PopOther DEF Requests, Responses
  <2> HIDE DEF w
  <2>4. t \in DeviceType(plan, s.me) /\ Same(s, t)
    BY <2>1, <2>2 DEF DeviceType, Same, SameLink, SameBook, SameNews
  <2>5. ServerPdu(s, p) = t
    BY <1>2 DEF ServerPdu, w
  <2> QED BY <2>3, <2>4, <2>5, SameKeeps
<1>3. CASE p.op \in Requests
  <2>1. ServerPdu(s, p) = IF s.server.state # "IDLE" THEN s
          ELSE ServerRequest([s EXCEPT !.server.state = "VALIDATED", !.server.request = p])
    BY <1>3 DEF ServerPdu, Requests
  <2> QED BY <1>3, <2>1, RequestPops, RequestKeeps
<1> QED BY <1>1, <1>2, <1>3

LEMMA DispatchPops ==
  ASSUME plan \in Plans, NEW s, NEW m, Good(plan, s, m), m.out # <<>>
  PROVE  Good(plan, Dispatch(s, Head(m.out)), Pop(m))
BY ServerPduPops, ClientPduPops DEF Dispatch

----------------------------------------------------------------------------
(* The steps of a device                                                   *)

(* The application sends a value.                                          *)
LEMMA AskUpdateKeeps ==
  ASSUME plan \in Plans, NEW s, NEW m, Good(plan, s, m), s.link # "down",
         s.next \in 1..Len(plan[s.me].updates)
  PROVE  LET u == s.next
             t == [s EXCEPT !.next = u + 1]
         IN  /\ Good(plan, [t EXCEPT !.server.indications = Append(@, u)], m)
             /\ Good(plan, [t EXCEPT !.server.notifications = Append(@, u)], m)
<1> DEFINE u == s.next
           N == Len(plan[s.me].updates)
           k == u + 1
           old == s.server.indications
           new == Append(old, u)
           nots == Append(s.server.notifications, u)
           v == [s.server EXCEPT !.indications = new]
           w == [s.server EXCEPT !.notifications = nots]
           t == [s EXCEPT !.next = k, !.server = v]
           r == [s EXCEPT !.next = k, !.server = w]
<1>1. /\ s \in DeviceType(plan, s.me) /\ s.me \in Nodes /\ s.server \in ServerType
      /\ Updating(plan, s) /\ old \in Seq(Nat) /\ s.server.notifications \in Seq(Nat)
  BY Parts DEF Good, Own, ServerType
<1>2. N \in Nat /\ u \in 1..N /\ u \in Nat /\ k \in 1..N + 1 /\ k = u + 1
  BY <1>1, PlanFacts
<1>3. Distinct(old) /\ Waiting(s) = Elements(old)
  BY <1>1 DEF Updating, Distinct, Elements, Waiting
<1>4. u \notin 1..u - 1 /\ 1..u - 1 \subseteq 1..k - 1 /\ u \in 1..k - 1 /\ u # 0
      /\ \A x \in Int : x >= k => x >= u
  BY <1>2
<1>5. u \notin Elements(old) /\ u # s.server.indication /\ s.reports[u] = <<>>
  BY <1>1, <1>2, <1>3, <1>4 DEF Updating
<1>6. new \in Seq(Nat) /\ Elements(new) = Elements(old) \cup {u} /\ Distinct(new)
  BY <1>1, <1>2, <1>3, <1>5, AppendDistinct
<1>7. nots \in Seq(Nat)
  BY <1>1, <1>2, AppendFacts
<1> HIDE DEF new, nots, k
<1>8. /\ v \in ServerType /\ v.state = s.server.state /\ v.request = s.server.request
      /\ v.mtu = s.server.mtu /\ v.exchanged = s.server.exchanged /\ v.indications = new
      /\ v.indication = s.server.indication /\ v.timer = s.server.timer
  BY <1>1, <1>6 DEF ServerType
<1>9. /\ w \in ServerType /\ w.state = s.server.state /\ w.request = s.server.request
      /\ w.mtu = s.server.mtu /\ w.exchanged = s.server.exchanged /\ w.indications = old
      /\ w.indication = s.server.indication /\ w.timer = s.server.timer
  BY <1>1, <1>7 DEF ServerType
<1>10. /\ t = [[s EXCEPT !.next = u + 1] EXCEPT !.server.indications = Append(@, u)]
       /\ r = [[s EXCEPT !.next = u + 1] EXCEPT !.server.notifications = Append(@, u)]
  BY <1>1 DEF DeviceType, new, nots, k
<1> HIDE DEF v, w
<1>11. /\ t \in DeviceType(plan, s.me) /\ SameLink(s, t) /\ SameBook(s, t) /\ t.next = k
       /\ t.heard = s.heard /\ t.reports = s.reports /\ t.client = s.client /\ t.server = v
       /\ t.out = s.out
       /\ r \in DeviceType(plan, s.me) /\ SameLink(s, r) /\ SameBook(s, r) /\ r.next = k
       /\ r.heard = s.heard /\ r.reports = s.reports /\ r.client = s.client /\ r.server = w
       /\ r.out = s.out
  BY <1>1, <1>2, <1>8, <1>9 DEF DeviceType, SameLink, SameBook
<1> HIDE DEF t, r
<1>12. Updating(plan, t)
  <2>1. Waiting(t) = Elements(new) /\ Distinct(t.server.indications)
    BY <1>6, <1>8, <1>11 DEF Waiting, Elements
  <2>2. \A x \in Waiting(t) : /\ x \in 1..k - 1 /\ x # t.server.indication
                              /\ t.reports[x] = <<>>
    BY <1>1, <1>3, <1>4, <1>5, <1>6, <1>8, <1>11, <2>1 DEF Updating
  <2>3. \A x \in 1..N : Told(t.reports[x]) /\ (x >= k => t.reports[x] = <<>>)
    BY <1>1, <1>4, <1>11 DEF Updating
  <2> QED BY <1>1, <1>4, <1>8, <1>11, <2>1, <2>2, <2>3 DEF Updating, Distinct, SameLink
<1>13. Updating(plan, r)
  <2>1. Waiting(r) = Waiting(s)
    BY <1>9, <1>11 DEF Waiting
  <2>2. \A x \in 1..N : Told(r.reports[x]) /\ (x >= k => r.reports[x] = <<>>)
    BY <1>1, <1>4, <1>11 DEF Updating
  <2> QED BY <1>1, <1>4, <1>9, <1>11, <2>1, <2>2 DEF Updating, SameLink
<1>14. ASSUME NEW x \in {t, r} PROVE Good(plan, x, m)
  <2>1. /\ x \in DeviceType(plan, s.me) /\ SameLink(s, x) /\ SameBook(s, x) /\ x.heard = s.heard
        /\ x.reports = s.reports /\ x.client = s.client /\ x.out = s.out /\ Updating(plan, x)
        /\ x.server.state = s.server.state /\ x.server.request = s.server.request
        /\ x.server.mtu = s.server.mtu /\ x.server.exchanged = s.server.exchanged
        /\ x.server.indication = s.server.indication
    BY <1>8, <1>9, <1>11, <1>12, <1>13
  <2>2. Own(plan, x)
    BY <1>1, <2>1, BookFrame, AtWorkFrame, ValidFrame DEF Good, Own, SameLink
  <2>3. Pair(plan, x, m)
    BY <2>1, LinksFrame, AskingFrame, AgreeingFrame, IndicatingFrame, AlikeItself
       DEF Good, Pair, SameLink, Open
  <2>4. Pair(plan, m, x)
    BY <2>1, LinksFrame, AskingFrame, AgreeingFrame, IndicatingFrame, AlikeItself
       DEF Good, Pair, SameLink, Heard
  <2> QED BY <2>1, <2>2, <2>3, <2>4 DEF Good, SameLink
<1> QED BY <1>10, <1>14

(* A packet has left the buffer.                                           *)
LEMMA PacketSentKeeps ==
  ASSUME plan \in Plans, NEW s, NEW m, Good(plan, s, m)
  PROVE  Good(plan, ClientRun(Notify([s EXCEPT !.busy = FALSE])), m)
<1> DEFINE t == [s EXCEPT !.busy = FALSE]
<1>1. t \in DeviceType(plan, s.me) /\ Same(s, t)
  <2>1. s \in DeviceType(plan, s.me)
    BY Parts DEF Good
  <2> QED BY <2>1 DEF DeviceType, Same, SameLink, SameBook, SameNews
<1>2. Good(plan, t, m)
  BY <1>1, SameKeeps
<1> HIDE DEF t
<1>3. Good(plan, ClientRun(Notify(t)), m)
  BY <1>2, NotifyKeeps, ClientRunKeeps
<1> QED BY <1>3 DEF t

(* An indication times out.                                                *)
LEMMA IndicationTimeoutKeeps ==
  ASSUME plan \in Plans, NEW s, NEW m, Good(plan, s, m), s.server.timer
  PROVE  Good(plan, ReportIndication(s, "timeout"), m)
<1> DEFINE u == s.server.indication
           t == [ReportIndication(s, "timeout") EXCEPT !.server.indication = u]
<1>1. /\ s \in DeviceType(plan, s.me) /\ s.server \in ServerType /\ Own(plan, s)
      /\ Updating(plan, s)
  BY Parts DEF Good, Own
<1>2. u # 0
  BY <1>1 DEF Updating
<1>3. Reported(plan, s, "timeout", u, t)
  BY <1>1, <1>2, ReportFacts
<1>4. ReportIndication(s, "timeout") = t
  BY <1>1 DEF ReportIndication, DeviceType, ServerType
<1> HIDE DEF t
<1>5. /\ Own(plan, t) /\ SameLink(s, t) /\ t.heard = s.heard /\ t.client = s.client
      /\ t.out = s.out /\ t.server.state = s.server.state
      /\ t.server.request = s.server.request /\ t.server.mtu = s.server.mtu
      /\ t.server.exchanged = s.server.exchanged /\ t.server.indication = s.server.indication
      /\ \A x \in 1..Len(plan[s.me].updates) : \A k \in 1..Len(t.reports[x]) :
           t.reports[x][k] = "complete" =>
             k \in 1..Len(s.reports[x]) /\ s.reports[x][k] = "complete"
  BY <1>3 DEF Reported
<1>6. Pair(plan, t, m)
  <2>1. Links(t, m) /\ Asking(t, m) /\ Agreeing(t, m)
    BY <1>5, LinksFrame, AskingFrame, AgreeingFrame, AlikeItself
       DEF Good, Pair, SameLink, Open
  <2>2. Indicating(plan, t, m)
    BY <1>5 DEF Good, Pair, Indicating, SameLink
  <2> QED BY <2>1, <2>2 DEF Pair
<1>7. Pair(plan, m, t)
  BY <1>5, LinksFrame, AskingFrame, AgreeingFrame, IndicatingFrame, AlikeItself
     DEF Good, Pair, SameLink, Heard
<1> QED BY <1>4, <1>5, <1>6, <1>7 DEF Good, SameLink

(* A query times out: what comes for it from now on is doubtful.           *)
LEMMA TimeoutKeeps ==
  ASSUME plan \in Plans, NEW s, NEW m, Good(plan, s, m), s.client.known
  PROVE  LET t == [s EXCEPT !.client.timer = FALSE]
             l == [t EXCEPT !.late = TRUE, !.doubtful = @ \cup {t.client.callback}]
         IN  Good(plan, IF t.client.state = "READY" THEN t ELSE Complete(l, "timeout"), m)
<1> DEFINE c == [s.client EXCEPT !.timer = FALSE]
           t == [s EXCEPT !.client = c]
           d == s.doubtful \cup {s.client.callback}
           l == [t EXCEPT !.late = TRUE, !.doubtful = d]
<1>1. /\ s \in DeviceType(plan, s.me) /\ s.me \in Nodes /\ s.client \in ClientType(plan, s.me)
      /\ s.out \in Seq(PduType)
  BY Parts DEF Good
<1>2. /\ c \in ClientType(plan, s.me) /\ c.known = s.client.known /\ c.state = s.client.state
      /\ c.stage = s.client.stage /\ c.callback = s.client.callback /\ c.mtu = s.client.mtu
      /\ c.mtuState = s.client.mtuState /\ c.confirm = s.client.confirm
      /\ c.queue = s.client.queue
  BY <1>1 DEF ClientType
<1> HIDE DEF c
<1>3. /\ t \in DeviceType(plan, s.me) /\ SameLink(s, t) /\ SameBook(s, t) /\ SameNews(s, t)
      /\ t.client = c /\ t.server = s.server /\ t.out = s.out
  BY <1>1, <1>2, WithClient
<1> HIDE DEF t
<1>4. s.link # "down"
  BY DEF Good, Own, AtWork, NoContext
<1>5. Book(plan, t)
  BY <1>2, <1>3, BookFrame DEF Good, Own, SameLink
<1>6. AtWork(t)
  BY ZenonT(40), <1>2, <1>3, <1>4 DEF Good, Own, AtWork, SameBook, SameLink, Unanswered
<1>7. Good(plan, t, m)
  BY <1>2, <1>3, <1>5, <1>6, ClientNotes
<1>8. CASE t.client.state # "READY"
  <2>1. s.client.callback \in s.accepted
    BY <1>2, <1>3, <1>8 DEF Good, Own, AtWork
  <2>2. d \in SUBSET (1..Len(plan[s.me].queries)) /\ s.client.callback \in d /\ s.doubtful \subseteq d
    BY <1>1, <2>1 DEF DeviceType
  <2> HIDE DEF d
  <2>3. /\ l \in DeviceType(plan, s.me) /\ l.me = s.me /\ l.link = s.link /\ l.late
        /\ SameNews(s, l) /\ l.client = c /\ l.server = s.server /\ l.out = s.out
        /\ l.todo = s.todo /\ l.accepted = s.accepted /\ l.dropped = s.dropped
        /\ l.answers = s.answers /\ l.doubtful = d
    BY <1>3, <2>2 DEF DeviceType, SameLink, SameBook, SameNews
  <2> HIDE DEF l
  <2>4. Book(plan, l)
    BY <1>2, <2>1, <2>2, <2>3 DEF Good, Own, Book, Queued, d
  <2>5. AtWork(l)
    BY <1>2, <1>4, <1>7, <1>3, <1>8, <2>1, <2>2, <2>3 DEF Good, Own, AtWork
  <2>6. Own(plan, l)
    BY <1>2, <2>3, <2>4, <2>5, UpdatingFrame, ValidFrame DEF Good, Own, SameNews
  <2>7. Pair(plan, l, m)
    BY <1>2, <2>3, LinksFrame, AskingFrame, AgreeingFrame, IndicatingFrame, AlikeItself
       DEF Good, Pair, SameNews, Open
  <2>8. Pair(plan, m, l)
    BY <1>2, <2>3, LinksFrame, AskingFrame, AgreeingFrame, IndicatingFrame, AlikeItself
       DEF Good, Pair, SameNews, Heard
  <2>9. Good(plan, l, m)
    BY <2>3, <2>6, <2>7, <2>8 DEF Good
  <2>10. l.client.known /\ (l.client.state # "READY" \/ l.late) /\ "timeout" \in Statuses
    BY <1>2, <2>3 DEF Statuses
  <2>11. l.client.state # "WAIT" \/ ~Open(l)
    BY <2>3, <2>5 DEF AtWork, Open
  <2>12. Good(plan, Complete(l, "timeout"), m)
    BY <2>3, <2>9, <2>10, <2>11, DoneKeeps, CompleteKeeps
  <2>13. l = [t EXCEPT !.late = TRUE, !.doubtful = @ \cup {t.client.callback}]
    BY <1>2, <1>3 DEF l, d, SameBook
  <2> QED BY <1>8, <2>12, <2>13 DEF t, c
<1> QED BY <1>7, <1>8 DEF t, c

(* A client asks.                                                          *)
LEMMA AskQueryKeeps ==
  ASSUME plan \in Plans, NEW s, NEW m, Good(plan, s, m), s.link # "down",
         s.todo \in DOMAIN Queries(s.me)
  PROVE  LET q == s.todo
             t == [Provide(s) EXCEPT !.todo = q + 1]
             command == plan[s.me].queries[q].kind = "command"
         IN  /\ Good(plan, ClientRequest([t EXCEPT !.client.commands = Append(@, q)]), m)
             /\ ~command =>
                  Good(plan, NotifyCanSendQuery([t EXCEPT !.client.queue = Append(@, q)]), m)
             /\ ~command /\ t.client.state = "READY" => Good(plan, ClientRun(Begin(t, q)), m)
<1> DEFINE q == s.todo
           N == Len(plan[s.me].queries)
           p == Provide(s)
           t == [p EXCEPT !.todo = @ + 1]
           command == plan[s.me].queries[q].kind = "command"
<1>1. /\ Good(plan, p, m) /\ p.client.known /\ p.todo = q /\ p.me = s.me
  BY ProvideKeeps DEF SameLink, SameBook
<1> HIDE DEF p
<1>2. /\ Good(plan, t, m) /\ q \in 1..t.todo - 1 /\ t.me = s.me /\ t.client = p.client
      /\ q \notin t.accepted \cup t.dropped \cup Queued(t)
  BY <1>1, TodoKeeps DEF Queries
<1>3. t = [p EXCEPT !.todo = q + 1]
  BY <1>1
<1> HIDE DEF t
<1>4. /\ t \in DeviceType(plan, t.me) /\ t.me \in Nodes /\ t.client \in ClientType(plan, t.me)
      /\ t.client.known /\ t.link # "down"
  BY <1>1, <1>2, Parts DEF Good
<1>5. q \in 1..N /\ q \in Nat
  BY <1>2, <1>4, PlanFacts DEF Queries
<1>6. ASSUME NEW c \in ClientType(plan, t.me), c.known = t.client.known, c.mtu = t.client.mtu,
             c.mtuState = t.client.mtuState, c.confirm = t.client.confirm,
             c.state = t.client.state, c.stage = t.client.stage, c.callback = t.client.callback,
             Distinct(c.queue),
             \A x \in Elements(c.queue) :
               x \in Queued(t) \/ (x = q /\ plan[t.me].queries[q].kind # "command")
      PROVE  Good(plan, [t EXCEPT !.client = c], m)
  <2> DEFINE u == [t EXCEPT !.client = c]
  <2>1. /\ u \in DeviceType(plan, t.me) /\ SameLink(t, u) /\ SameBook(t, u) /\ SameNews(t, u)
        /\ u.client = c /\ u.server = t.server /\ u.out = t.out
    BY <1>4, <1>6, WithClient
  <2> HIDE DEF u
  <2>2. Queued(u) = Elements(c.queue)
    BY <2>1 DEF Queued, Elements
  <2>3. Book(plan, u)
    <3>1. \A x \in Queued(u) : /\ x \in 1..u.todo - 1 /\ x \notin u.accepted \cup u.dropped
                               /\ plan[u.me].queries[x].kind # "command"
      BY <1>2, <1>6, <2>1, <2>2 DEF Good, Own, Book, SameBook, SameLink
    <3>2. \A i, j \in 1..Len(u.client.queue) : u.client.queue[i] = u.client.queue[j] => i = j
      BY <1>6, <2>1 DEF Distinct
    <3> QED BY <1>2, <2>1, <3>1, <3>2 DEF Good, Own, Book, SameBook, SameLink
  <2>4. AtWork(u)
    <3>1. AtWork(t)
      BY <1>2 DEF Good, Own
    <3>2. ASSUME ~u.late, NEW x \in u.accepted
          PROVE  Unanswered(u, x) <=> u.client.state # "READY" /\ x = u.client.callback
      <4>1. Unanswered(u, x) <=> Unanswered(t, x)
        BY <2>1 DEF Unanswered, SameBook
      <4> QED BY <1>6, <2>1, <3>1, <3>2, <4>1 DEF AtWork, SameBook, SameLink
    <3>3. u.link = t.link /\ u.late = t.late /\ u.doubtful = t.doubtful /\ u.accepted = t.accepted
      BY <2>1 DEF SameLink, SameBook
    <3> QED BY <1>4, <1>6, <2>1, <3>1, <3>2, <3>3 DEF AtWork
  <2>5. Good(plan, u, m)
    BY <1>2, <1>6, <2>1, <2>3, <2>4, ClientNotes
  <2> QED BY <2>5 DEF u
<1>7. Distinct(t.client.queue) /\ Elements(t.client.queue) = Queued(t)
  BY <1>2 DEF Good, Own, Book, Distinct, Elements, Queued
<1>8. Good(plan, ClientRequest([t EXCEPT !.client.commands = Append(@, q)]), m)
  <2> DEFINE new == Append(t.client.commands, q)
             c == [t.client EXCEPT !.commands = new]
  <2>1. new \in Seq(1..Len(plan[t.me].queries))
    BY <1>2, <1>4, <1>5, AppendFacts DEF ClientType
  <2> HIDE DEF new
  <2>2. /\ c \in ClientType(plan, t.me) /\ c.known = t.client.known /\ c.mtu = t.client.mtu
        /\ c.mtuState = t.client.mtuState /\ c.confirm = t.client.confirm
        /\ c.state = t.client.state /\ c.stage = t.client.stage
        /\ c.callback = t.client.callback /\ c.queue = t.client.queue
    BY <1>4, <2>1 DEF ClientType
  <2> HIDE DEF c
  <2>3. Good(plan, [t EXCEPT !.client = c], m)
    BY <1>6, <1>7, <2>2
  <2>4. [t EXCEPT !.client = c] = [t EXCEPT !.client.commands = Append(@, q)]
    BY DEF c, new
  <2> QED BY <2>3, <2>4, RequestKeeps
<1>9. ASSUME ~command
      PROVE  Good(plan, NotifyCanSendQuery([t EXCEPT !.client.queue = Append(@, q)]), m)
  <2> DEFINE new == Append(t.client.queue, q)
             c == [t.client EXCEPT !.queue = new]
  <2>1. t.client.queue \in Seq(Nat)
    BY <1>4 DEF ClientType
  <2>2. new \in Seq(Nat) /\ Distinct(new) /\ Elements(new) = Queued(t) \cup {q}
    BY <1>2, <1>5, <1>7, <2>1, AppendDistinct
  <2> HIDE DEF new
  <2>3. /\ c \in ClientType(plan, t.me) /\ c.known = t.client.known /\ c.mtu = t.client.mtu
        /\ c.mtuState = t.client.mtuState /\ c.confirm = t.client.confirm
        /\ c.state = t.client.state /\ c.stage = t.client.stage
        /\ c.callback = t.client.callback /\ c.queue = new
    BY <1>4, <2>2 DEF ClientType
  <2> HIDE DEF c
  <2>4. Good(plan, [t EXCEPT !.client = c], m)
    BY <1>2, <1>6, <1>9, <2>2, <2>3
  <2>5. [t EXCEPT !.client = c] = [t EXCEPT !.client.queue = Append(@, q)]
    BY DEF c, new
  <2> QED BY <2>4, <2>5, NotifyCanSendQueryKeeps
<1>10. ASSUME ~command, t.client.state = "READY" PROVE Good(plan, ClientRun(Begin(t, q)), m)
  <2>1. Free(t, q)
    BY <1>2, <1>4, <1>10 DEF Free
  <2> QED BY <1>2, <2>1, BeginKeeps, ClientRunKeeps
<1> HIDE DEF command
<1> QED BY <1>3, <1>8, <1>9, <1>10 DEF command, p

(* The fields of a device whose connection is gone.                        *)
LEMMA GoneFacts ==
  ASSUME NEW n \in Nodes
  PROVE  /\ NoContext \in ClientType(plan, n) /\ NewConnection \in ServerType
         /\ NothingPrepared \in ValueType /\ NoPdu \in PduType
         /\ ~NoContext.known /\ NoContext.state = "READY" /\ NoContext.mtuState = "DISABLED"
         /\ NoContext.queue = <<>> /\ ~NoContext.confirm
         /\ NewConnection.state = "IDLE" /\ NewConnection.mtu = DefaultMtu
         /\ ~NewConnection.exchanged /\ NewConnection.indication = 0 /\ ~NewConnection.timer
         /\ NewConnection.indications = <<>>
<1>1. <<>> \in Seq(Nat) /\ <<>> \in Seq(1..Len(plan[n].queries))
  BY EmptySeq
<1>2. NoPdu \in PduType
  BY DEF NoPdu, PduType, Ops, Codes
<1>3. /\ NoContext \in ClientType(plan, n)
      /\ ~NoContext.known /\ NoContext.state = "READY" /\ NoContext.mtuState = "DISABLED"
      /\ NoContext.queue = <<>> /\ ~NoContext.confirm
  BY <1>1, BoundsAssumption DEF NoContext, ClientType
<1>4. /\ NewConnection \in ServerType /\ NewConnection.state = "IDLE"
      /\ NewConnection.mtu = DefaultMtu
      /\ ~NewConnection.exchanged /\ NewConnection.indication = 0 /\ ~NewConnection.timer
      /\ NewConnection.indications = <<>>
  BY <1>1, <1>2, BoundsAssumption DEF NewConnection, ServerType
<1> QED BY <1>2, <1>3, <1>4 DEF NothingPrepared, ValueType

(* The link is lost for both.                                              *)
LEMMA LostKeeps ==
  ASSUME plan \in Plans, NEW s, NEW m, Good(plan, s, m), s.link = "up", m.link = "up"
  PROVE  Good(plan, [s EXCEPT !.link = "lost", !.out = <<>>], [m EXCEPT !.link = "lost", !.out = <<>>])
<1> DEFINE L(x) == [x EXCEPT !.link = "lost", !.out = <<>>]
<1>1. ASSUME NEW x \in {s, m}
      PROVE  /\ Own(plan, L(x)) /\ L(x).me = x.me /\ L(x).link = "lost" /\ L(x).out = <<>>
             /\ L(x).reports = x.reports /\ L(x).heard = x.heard
  <2> DEFINE t == L(x)
  <2>1. Own(plan, x) /\ x \in DeviceType(plan, x.me) /\ x.link = "up" /\ x.me \in Nodes
    BY <1>1, Parts DEF Good
  <2>2. /\ t \in DeviceType(plan, x.me) /\ t.me = x.me /\ t.link = "lost" /\ t.late = x.late
        /\ SameBook(x, t) /\ SameNews(x, t) /\ t.client = x.client /\ t.server = x.server
        /\ t.out = <<>>
    <3>1. <<>> \in Seq(PduType)
      BY EmptySeq
    <3> QED BY <2>1, <3>1 DEF DeviceType, SameBook, SameNews
  <2> HIDE DEF t
  <2>3. On(t.out) = {}
    <3>1. Len(<<>>) = 0
      BY EmptySeq
    <3> QED BY <2>2, <3>1 DEF On
  <2>4. Book(plan, t) /\ Updating(plan, t) /\ Valid(t)
    BY <2>1, <2>2, <2>3, BookFrame, UpdatingFrame, ValidFrame DEF Own, SameNews
  <2>5. AtWork(t)
    BY <2>1, <2>2 DEF Own, AtWork, SameBook, Unanswered
  <2> QED BY <2>1, <2>2, <2>4, <2>5 DEF Own, SameNews, t
<1>2. s \in {s, m} /\ m \in {s, m}
  OBVIOUS
<1>3. ASSUME NEW x, NEW y, Pair(plan, x, y), x.link = "up", y.link = "up",
             x \in {s, m}, y \in {s, m}
      PROVE  Pair(plan, L(x), L(y))
  BY <1>1, <1>3 DEF Pair, Links, Asking, Agreeing, Indicating, Heard
<1>4. Pair(plan, s, m) /\ Pair(plan, m, s) /\ m.me = Peer(s.me)
  BY DEF Good
<1>5. Good(plan, L(s), L(m))
  <2>1. Pair(plan, L(s), L(m)) /\ Pair(plan, L(m), L(s))
    BY <1>2, <1>3, <1>4
  <2>2. Own(plan, L(s)) /\ Own(plan, L(m)) /\ L(m).me = m.me /\ L(s).me = s.me
    BY <1>1, <1>2
  <2> HIDE DEF L
  <2> QED BY <1>4, <2>1, <2>2 DEF Good
<1> QED BY <1>5

(* The connection is gone, and all that goes with it.                      *)
LEMMA ForgetKeeps ==
  ASSUME plan \in Plans, NEW u, NEW m, Good(plan, u, m), m.link # "up"
  PROVE  LET unanswered == {q \in u.accepted : u.answers[q] = <<>>}
             queued == {u.client.queue[i] : i \in DOMAIN u.client.queue}
         IN  Good(plan, [u EXCEPT !.link = "down", !.client = NoContext, !.server = NewConnection,
                                  !.dropped = @ \cup unanswered \cup queued], m)
<1> DEFINE unanswered == {q \in u.accepted : u.answers[q] = <<>>}
           queued == {u.client.queue[i] : i \in DOMAIN u.client.queue}
           d == u.dropped \cup unanswered \cup queued
           t == [u EXCEPT !.link = "down", !.client = NoContext, !.server = NewConnection,
                          !.dropped = d]
           N == Len(plan[u.me].queries)
<1>1. /\ u \in DeviceType(plan, u.me) /\ u.me \in Nodes /\ u.client \in ClientType(plan, u.me)
      /\ Book(plan, u) /\ AtWork(u) /\ Updating(plan, u)
  BY Parts DEF Good, Own
<1>2. u.link # "up" /\ u.out = <<>> /\ m.out = <<>>
  BY DEF Good, Pair, Links
<1>3. queued = Queued(u)
  <2>1. DOMAIN u.client.queue = 1..Len(u.client.queue)
    BY <1>1, LenProperties DEF ClientType
  <2> QED BY <2>1 DEF Queued
<1>4. u.todo \in 1..N + 1 /\ u.dropped \subseteq 1..N /\ u.accepted \subseteq 1..N /\ N \in Nat
  BY <1>1, PlanFacts DEF DeviceType
<1>5. 1..u.todo - 1 \subseteq 1..N
  BY <1>4
<1>6. /\ d \subseteq 1..u.todo - 1 /\ d \in SUBSET (1..N)
      /\ \A q \in u.accepted : u.answers[q] = <<>> => q \in d
  BY <1>1, <1>3, <1>5 DEF Book
<1> HIDE DEF d
<1>7. /\ t \in DeviceType(plan, u.me) /\ t.me = u.me /\ t.link = "down" /\ t.late = u.late
      /\ t.client = NoContext /\ t.server = NewConnection /\ t.out = u.out
      /\ t.todo = u.todo /\ t.accepted = u.accepted /\ t.dropped = d /\ t.answers = u.answers
      /\ t.doubtful = u.doubtful /\ SameNews(u, t)
  BY <1>1, <1>6, GoneFacts DEF DeviceType, SameNews
<1> HIDE DEF t
<1>8. Queued(t) = {} /\ Waiting(t) = {} /\ On(t.out) = {} /\ Len(t.client.queue) = 0
      /\ Len(t.server.indications) = 0
  <2>1. Len(<<>>) = 0 /\ 1..0 = {}
    BY EmptySeq
  <2> QED BY <1>1, <1>2, <1>7, <2>1, GoneFacts DEF Queued, Waiting, On
<1>9. Book(plan, t)
  <2>1. \A i, j \in 1..Len(t.client.queue) : t.client.queue[i] = t.client.queue[j] => i = j
    BY <1>8
  <2> QED BY <1>1, <1>6, <1>7, <1>8, <2>1 DEF Book
<1>10. AtWork(t)
  <2>1. \A q \in t.accepted : ~Unanswered(t, q)
    BY <1>6, <1>7 DEF Unanswered
  <2> QED BY <1>1, <1>7, <2>1, GoneFacts DEF AtWork
<1>11. Updating(plan, t)
  <2>1. \A i, j \in 1..Len(t.server.indications) :
          t.server.indications[i] = t.server.indications[j] => i = j
    BY <1>8
  <2> QED BY <1>1, <1>7, <1>8, <2>1, GoneFacts DEF Updating, SameNews
<1>12. Valid(t)
  BY <1>1, <1>7, <1>8, GoneFacts DEF Valid
<1>13. Pair(plan, t, m) /\ Pair(plan, m, t)
  BY <1>2, <1>7 DEF Good, Pair, Links, Asking, Agreeing, Indicating, Heard, SameNews
<1>14. Good(plan, t, m)
  BY <1>1, <1>7, <1>9, <1>10, <1>11, <1>12, <1>13 DEF Good, Own
<1> QED BY <1>14 DEF t, d

(* The server and the client hear that the link is lost.                   *)
LEMMA DisconnectedKeeps ==
  ASSUME plan \in Plans, NEW s0, NEW m, Good(plan, s0, m), s0.link = "lost"
  PROVE  LET s == [s0 EXCEPT !.prepared = NothingPrepared,
                             !.server.state = "IDLE", !.server.request = NoPdu]
             t == IF s.server.indication = 0 THEN s
                  ELSE [ReportIndication(s, "disconnect") EXCEPT !.server.indication = 0]
             u == IF t.client.known THEN ReportError(t, "disconnected") ELSE t
         IN  Good(plan, u, m) /\ m.link # "up"
<1> DEFINE v == [s0.server EXCEPT !.state = "IDLE", !.request = NoPdu]
           s == [s0 EXCEPT !.prepared = NothingPrepared, !.server = v]
           r == [ReportIndication(s, "disconnect") EXCEPT !.server.indication = 0]
           t == IF s.server.indication = 0 THEN s ELSE r
           u == IF t.client.known THEN ReportError(t, "disconnected") ELSE t
<1>1. /\ s0 \in DeviceType(plan, s0.me) /\ s0.me \in Nodes /\ s0.server \in ServerType
  BY Parts DEF Good
<1>2. m.link # "up"
  BY DEF Good, Pair, Links
<1>3. /\ v \in ServerType /\ v.state = "IDLE" /\ v.mtu = s0.server.mtu
      /\ v.exchanged = s0.server.exchanged /\ v.indications = s0.server.indications
      /\ v.indication = s0.server.indication /\ v.timer = s0.server.timer
  BY <1>1, GoneFacts DEF ServerType
<1>4. s = [s0 EXCEPT !.prepared = NothingPrepared,
                     !.server.state = "IDLE", !.server.request = NoPdu]
  BY <1>1 DEF DeviceType
<1> HIDE DEF v
<1>5. /\ s \in DeviceType(plan, s0.me) /\ SameLink(s0, s) /\ SameBook(s0, s)
      /\ SameNews(s0, s) /\ s.client = s0.client /\ s.server = v /\ s.out = s0.out
  BY <1>1, <1>3, GoneFacts DEF DeviceType, SameLink, SameBook, SameNews
<1> HIDE DEF s
<1>6. Good(plan, s, m)
  <2>1. Valid(s)
    BY <1>3, <1>5 DEF Good, Own, Valid, CommonMtu, SameLink
  <2>2. Own(plan, s)
    BY <1>1, <1>3, <1>5, <2>1, BookFrame, AtWorkFrame, UpdatingFrame
       DEF Good, Own, SameLink, SameNews
  <2>3. Pair(plan, s, m) /\ Pair(plan, m, s)
    BY <1>2, <1>3, <1>5 DEF Good, Pair, Links, Asking, Agreeing, Indicating, Heard, SameLink, SameNews
  <2> QED BY <1>5, <2>2, <2>3 DEF Good, SameLink
<1>7. Good(plan, t, m)
  <2>1. CASE s.server.indication # 0
    <3>1. Reported(plan, s, "disconnect", 0, r)
      BY <1>6, <2>1, ReportFacts DEF Good
    <3> HIDE DEF r
    <3>2. /\ Own(plan, r) /\ SameLink(s, r) /\ r.heard = s.heard /\ r.out = s.out
          /\ \A x \in 1..Len(plan[s.me].updates) : \A k \in 1..Len(r.reports[x]) :
               r.reports[x][k] = "complete" =>
                 k \in 1..Len(s.reports[x]) /\ s.reports[x][k] = "complete"
      BY <3>1 DEF Reported
    <3>3. s.link # "up"
      BY <1>5 DEF SameLink
    <3>4. Pair(plan, r, m)
      BY <1>2, <1>6, <3>2, <3>3 DEF Good, Pair, Links, Asking, Agreeing, Indicating, Heard, SameLink
    <3>5. Pair(plan, m, r)
      BY <1>2, <1>6, <3>2, <3>3 DEF Good, Pair, Links, Asking, Agreeing, Indicating, Heard, SameLink
    <3>6. Good(plan, r, m)
      BY <1>6, <3>2, <3>4, <3>5 DEF Good, SameLink
    <3> QED BY <2>1, <3>6
  <2>2. CASE s.server.indication = 0
    BY <1>6, <2>2
  <2> QED BY <2>1, <2>2
<1>8. t.link # "up"
  BY <1>2, <1>7 DEF Good, Pair, Links
<1>9. Good(plan, u, m)
  <2> HIDE DEF t
  <2>1. CASE t.client.known /\ t.client.state # "READY"
    <3>1. t \in DeviceType(plan, t.me)
      BY <1>7, Parts DEF Good
    <3>2. "disconnected" \in Statuses
      BY DEF Statuses
    <3>3. Good(plan, Done(t, "disconnected"), m) /\ Done(t, "disconnected").client.known
      BY <1>7, <1>8, <2>1, <3>2, DoneKeeps
    <3> QED BY <2>1, <3>1, <3>3, CompleteKeeps DEF ReportError
  <2>2. CASE ~(t.client.known /\ t.client.state # "READY")
    BY <1>7, <2>2 DEF ReportError
  <2> QED BY <2>1, <2>2
<1> QED BY <1>2, <1>4, <1>9

(* Both are connected again.                                               *)
LEMMA ConnectedKeeps ==
  ASSUME plan \in Plans, NEW s, NEW m, Good(plan, s, m), s.link = "down", m.link = "down"
  PROVE  LET N(x) == ClientRun(Notify([x EXCEPT !.link = "up", !.late = FALSE]))
         IN  Good(plan, N(s), N(m)) /\ N(s).me = s.me
<1> DEFINE U(x) == [x EXCEPT !.link = "up", !.late = FALSE]
           N(x) == ClientRun(Notify(U(x)))
<1>1. ASSUME NEW x \in {s, m}
      PROVE  /\ Own(plan, U(x)) /\ U(x).me = x.me /\ U(x).link = "up" /\ ~U(x).late
             /\ U(x).reports = x.reports /\ U(x).heard = x.heard
             /\ U(x).client = NoContext /\ U(x).server = NewConnection /\ U(x).out = <<>>
  <2> DEFINE t == U(x)
  <2>1. Own(plan, x) /\ x \in DeviceType(plan, x.me) /\ x.me \in Nodes /\ x.out = <<>>
    BY <1>1, Parts DEF Good, Pair, Links
  <2>2. /\ x.client = NoContext /\ x.server = NewConnection
        /\ \A q \in x.accepted : ~Unanswered(x, q)
    BY <1>1, <2>1 DEF Own, AtWork
  <2>3. /\ t \in DeviceType(plan, x.me) /\ t.me = x.me /\ t.link = "up" /\ ~t.late
        /\ SameBook(x, t) /\ SameNews(x, t) /\ t.client = x.client /\ t.server = x.server
        /\ t.out = x.out
    BY <2>1 DEF DeviceType, SameBook, SameNews
  <2> HIDE DEF t
  <2>4. Book(plan, t) /\ Updating(plan, t) /\ Valid(t)
    BY <2>1, <2>3, BookFrame, UpdatingFrame, ValidFrame DEF Own, SameNews
  <2>5. \A q \in t.accepted : ~Unanswered(t, q)
    BY <2>2, <2>3 DEF SameBook, Unanswered
  <2>6. AtWork(t)
    BY <2>1, <2>2, <2>3, <2>5, GoneFacts DEF AtWork
  <2> QED BY <2>1, <2>2, <2>3, <2>4, <2>6 DEF Own, SameNews, t
<1>2. s \in {s, m} /\ m \in {s, m} /\ s.me \in Nodes /\ m.me = Peer(s.me)
  BY DEF Good, Own
<1>3. ASSUME NEW x \in {s, m}, NEW y \in {s, m}, Pair(plan, x, y), x.me \in Nodes
      PROVE  Pair(plan, U(x), U(y))
  <2>1. On(<<>>) = {} /\ <<>> \in Seq(PduType)
    <3>1. Len(<<>>) = 0
      BY EmptySeq
    <3> QED BY <3>1, EmptySeq DEF On
  <2>2. \A S : Count(<<>>, S) = 0
    BY <2>1, PlacesFacts
  <2> DEFINE a == U(x)
             b == U(y)
  <2>3. /\ a.me = x.me /\ a.link = "up" /\ ~a.late /\ a.reports = x.reports
        /\ a.client = NoContext /\ a.server = NewConnection /\ a.out = <<>>
        /\ b.link = "up" /\ b.heard = y.heard
        /\ b.client = NoContext /\ b.server = NewConnection /\ b.out = <<>>
    BY <1>1
  <2> HIDE DEF a, b
  <2>4. Links(a, b)
    BY <2>3 DEF Links
  <2>5. Asking(a, b)
    <3>1. Underway(a, b) = 0 /\ ~Working(a)
      BY <1>3, <2>2, <2>3, GoneFacts DEF Underway, Working
    <3>2. Fits(a, b) /\ Exchange(a, b)
      BY <1>3, <2>1, <2>3, GoneFacts DEF Fits, Exchange
    <3> QED BY <3>1, <3>2 DEF Asking
  <2>6. Agreeing(a, b)
    BY <1>3, <2>3, GoneFacts DEF Agreeing
  <2>7. Indicating(plan, a, b)
    <3>1. \A u : Heard(b, u) <=> Heard(y, u)
      BY <2>3 DEF Heard
    <3>2. Count(a.out, {"IND"}) + Count(b.out, {"CONFIRM"}) + (IF b.client.confirm THEN 1 ELSE 0)
            = IF a.server.indication = 0 THEN 0 ELSE 1
      BY <1>3, <2>2, <2>3, GoneFacts
    <3> QED BY <1>3, <2>1, <2>3, <3>1, <3>2, GoneFacts DEF Pair, Indicating
  <2> QED BY <2>4, <2>5, <2>6, <2>7 DEF Pair, a, b
<1>4. Good(plan, U(s), U(m))
  <2>1. m.me \in Nodes
    BY DEF Good, Own
  <2>2. Pair(plan, U(s), U(m)) /\ Pair(plan, U(m), U(s))
    BY <1>2, <1>3, <2>1 DEF Good
  <2>3. Own(plan, U(s)) /\ Own(plan, U(m)) /\ U(m).me = m.me /\ U(s).me = s.me
    BY <1>1, <1>2
  <2> HIDE DEF U
  <2> QED BY <1>2, <2>2, <2>3 DEF Good
<1>5. U(m).me = m.me
  BY <1>1, <1>2
<1> HIDE DEF U
<1>6. Good(plan, N(s), U(m))
  BY <1>4, NotifyKeeps, ClientRunKeeps
<1> HIDE DEF N
<1>7. N(s).me = s.me
  BY <1>2, <1>6, <1>5, Peers DEF Good, Own
<1>8. Good(plan, U(m), N(s))
  BY <1>6, Mutual
<1>9. Good(plan, N(m), N(s))
  BY <1>8, NotifyKeeps, ClientRunKeeps DEF N
<1>10. Good(plan, N(s), N(m))
  BY <1>9, Mutual
<1> QED BY <1>10, <1>7 DEF N, U

----------------------------------------------------------------------------
(* The invariant holds                                                     *)

(* In the beginning.                                                       *)
LEMMA Initially == Init => Inv
<1> SUFFICES ASSUME Init PROVE Inv
  OBVIOUS
<1>1. plan \in Plans /\ node = [n \in Nodes |-> InitialNode(n)] /\ faults = 0
  BY DEF Init
<1>2. faults \in 0..MaxFaults
  BY <1>1, BoundsAssumption
<1>3. ASSUME NEW n \in Nodes
      PROVE  /\ Own(plan, node[n]) /\ node[n].me = n /\ node[n].link = "up" /\ ~node[n].late
             /\ node[n].client = NoContext /\ node[n].server = NewConnection
             /\ node[n].out = <<>> /\ \A u \in 1..Len(plan[n].updates) : node[n].reports[u] = <<>>
  <2> DEFINE s == InitialNode(n)
             Q == Len(plan[n].queries)
             U == Len(plan[n].updates)
  <2>1. Q \in Nat /\ U \in Nat /\ DOMAIN plan[n].queries = 1..Q /\ DOMAIN plan[n].updates = 1..U
    BY <1>1, PlanFacts
  <2> HIDE DEF Q, U
  <2>2. /\ \A S : <<>> \in Seq(S)
        /\ Len(<<>>) = 0 /\ 1 \in 1..Q + 1 /\ 1 \in 1..U + 1 /\ 1..1 - 1 = {} /\ 0 \in Nat
        /\ 0 \in Int
    BY <2>1, EmptySeq
  <2>3. /\ s.me = n /\ s.link = "up" /\ s.busy = FALSE /\ s.out = <<>> /\ s.client = NoContext
        /\ s.server = NewConnection /\ s.todo = 1 /\ s.next = 1 /\ s.accepted = {} /\ s.dropped = {}
        /\ s.late = FALSE /\ s.doubtful = {} /\ s.heard = <<>>
        /\ s.answers = [q \in 1..Q |-> <<>>] /\ s.reports = [u \in 1..U |-> <<>>]
    BY <2>1 DEF InitialNode, Queries, Updates
  <2>4. s \in DeviceType(plan, n)
    <3> DEFINE answers == [q \in 1..Q |-> <<>>]
               got == [q \in 1..Q |-> 0]
               reports == [u \in 1..U |-> <<>>]
               wants == [r \in {Server, Client} |-> FALSE]
               prepared == [q |-> 0, len |-> 0]
    <3>1. /\ answers \in [1..Q -> Seq(Statuses)] /\ got \in [1..Q -> Int]
          /\ reports \in [1..U -> Seq({"complete", "timeout", "disconnect"})]
          /\ wants \in [{Server, Client} -> BOOLEAN] /\ prepared \in ValueType
      BY <2>2 DEF ValueType
    <3>2. NoContext \in ClientType(plan, n) /\ NewConnection \in ServerType
      BY GoneFacts
    <3>3. s = [me |-> n, link |-> "up", busy |-> FALSE, out |-> <<>>, client |-> NoContext,
               server |-> NewConnection, wants |-> wants, pending |-> FALSE, first |-> Server,
               channelWants |-> FALSE, writeError |-> FALSE, prepared |-> prepared,
               written |-> <<>>, todo |-> 1, next |-> 1, accepted |-> {}, dropped |-> {},
               answers |-> answers, got |-> got, heard |-> <<>>, reports |-> reports,
               late |-> FALSE, doubtful |-> {}]
      BY <2>1 DEF InitialNode, Queries, Updates
    <3> HIDE DEF s, answers, got, reports, wants, prepared
    <3> QED BY <2>2, <3>1, <3>2, <3>3 DEF DeviceType, Q, U
  <2> HIDE DEF s
  <2>5. On(s.out) = {} /\ Queued(s) = {} /\ Waiting(s) = {} /\ Len(s.client.queue) = 0
        /\ Len(s.server.indications) = 0
    BY <2>2, <2>3, GoneFacts DEF On, Queued, Waiting
  <2>6. Book(plan, s)
    <3>1. \A i, j \in 1..Len(s.client.queue) : s.client.queue[i] = s.client.queue[j] => i = j
      BY <2>5
    <3>2. \A q \in 1..Q : s.answers[q] = <<>> /\ Len(s.answers[q]) <= 1
      BY <2>2, <2>3
    <3> QED BY <2>3, <2>5, <3>1, <3>2 DEF Book, Q
  <2>7. AtWork(s)
    BY <2>3, GoneFacts DEF AtWork
  <2>8. Updating(plan, s)
    <3>1. \A i, j \in 1..Len(s.server.indications) :
            s.server.indications[i] = s.server.indications[j] => i = j
      BY <2>5
    <3>2. \A u \in 1..U : s.reports[u] = <<>> /\ Told(s.reports[u])
      BY <2>2, <2>3 DEF Told
    <3> QED BY <2>3, <2>5, <3>1, <3>2, GoneFacts DEF Updating, U
  <2>9. Valid(s)
    BY <2>3, <2>5, GoneFacts DEF Valid
  <2>10. node[n] = s
    BY <1>1 DEF s
  <2>11. Own(plan, s)
    BY <2>3, <2>4, <2>6, <2>7, <2>8, <2>9 DEF Own
  <2> QED BY <2>3, <2>10, <2>11 DEF U
<1>4. \A S : Count(<<>>, S) = 0
  <2>1. <<>> \in Seq(PduType) /\ Len(<<>>) = 0
    BY EmptySeq
  <2>2. On(<<>>) = {}
    BY <2>1 DEF On
  <2> QED BY <2>1, <2>2, PlacesFacts
<1>5. ASSUME NEW n \in Nodes PROVE Pair(plan, node[n], node[Peer(n)])
  <2> DEFINE a == node[n]
             b == node[Peer(n)]
  <2>1. /\ a.me = n /\ a.link = "up" /\ ~a.late /\ a.client = NoContext
        /\ a.server = NewConnection /\ a.out = <<>>
        /\ \A u \in 1..Len(plan[n].updates) : a.reports[u] = <<>>
        /\ b.link = "up" /\ b.client = NoContext /\ b.server = NewConnection /\ b.out = <<>>
    BY <1>3, Peers
  <2> HIDE DEF a, b
  <2>2. Len(<<>>) = 0 /\ 1..0 = {}
    BY EmptySeq
  <2>3. On(<<>>) = {}
    BY <2>2 DEF On
  <2>4. Links(a, b) /\ Agreeing(a, b)
    BY <2>1, GoneFacts DEF Links, Agreeing
  <2>5. Asking(a, b)
    <3>1. Underway(a, b) = 0 /\ ~Working(a)
      BY <1>4, <2>1, GoneFacts DEF Underway, Working
    <3>2. Fits(a, b) /\ Exchange(a, b)
      BY <2>1, <2>3, GoneFacts DEF Fits, Exchange
    <3> QED BY <3>1, <3>2 DEF Asking
  <2>6. Indicating(plan, a, b)
    BY <1>4, <2>1, <2>2, <2>3, GoneFacts DEF Indicating
  <2> QED BY <2>4, <2>5, <2>6 DEF Pair, a, b
<1>6. ASSUME NEW n \in Nodes PROVE Good(plan, node[n], node[Peer(n)]) /\ node[n].me = n
  BY <1>3, <1>5, Peers DEF Good
<1> QED BY <1>1, <1>2, <1>6 DEF Inv

(* A step of one device.                                                   *)
LEMMA OneMoves ==
  ASSUME Inv, NEW n \in Nodes, NEW s, Good(plan, s, node[Peer(n)]),
         node' = [node EXCEPT ![n] = s], plan' = plan, faults' \in 0..MaxFaults
  PROVE  Inv'
<1>1. s.me = n
  <2>1. Peer(n) = Peer(s.me) /\ s.me \in Nodes
    BY Peers DEF Good, Own, Inv
  <2> QED BY <2>1, Peers
<1>2. node'[n] = s /\ \A x \in Nodes : x # n => node'[x] = node[x]
  BY DEF Inv
<1>3. node' = [x \in Nodes |-> node'[x]]
  BY DEF Inv
<1>4. ASSUME NEW x \in Nodes PROVE node'[x].me = x /\ Good(plan, node'[x], node'[Peer(x)])
  <2>1. CASE x = n
    BY <1>1, <1>2, <2>1, Peers
  <2>2. CASE x # n
    <3>1. x = Peer(n) /\ Peer(x) = n
      BY <2>2, Peers
    <3>2. Good(plan, node[Peer(n)], s) /\ node[x].me = x
      BY Mutual DEF Inv
    <3> QED BY <1>2, <2>2, <3>1, <3>2
  <2> QED BY <2>1, <2>2
<1> QED BY <1>3, <1>4 DEF Inv

(* A step of both.                                                         *)
LEMMA BothMove ==
  ASSUME Inv, NEW f, f = [n \in Nodes |-> f[n]],
         \A n \in Nodes : Good(plan, f[n], f[Peer(n)]) /\ f[n].me = n,
         node' = f, plan' = plan, faults' \in 0..MaxFaults
  PROVE  Inv'
BY DEF Inv

(* Each action keeps it.                                                   *)
LEMMA Steadily == Inv /\ [Next]_vars => Inv'
<1> SUFFICES ASSUME Inv, [Next]_vars PROVE Inv'
  OBVIOUS
<1>1. plan \in Plans /\ faults \in 0..MaxFaults /\ MaxFaults \in Nat
  BY BoundsAssumption DEF Inv
<1>2. ASSUME NEW n \in Nodes
      PROVE  /\ Good(plan, node[n], node[Peer(n)]) /\ node[n].me = n
             /\ node[n] \in DeviceType(plan, n)
  BY <1>2, Parts DEF Inv, Good
<1>3. ASSUME NEW fault, May(fault) PROVE faults' \in 0..MaxFaults
  BY <1>1, <1>3 DEF May
<1>4. ASSUME NEW n \in Nodes, NEW s, Set(n, s), Good(plan, s, node[Peer(n)]),
             faults' = faults \/ \E fault : May(fault)
      PROVE  Inv'
  BY <1>1, <1>3, <1>4, OneMoves DEF Set
<1>5. ASSUME NEW n \in Nodes, AskQuery(n) PROVE Inv'
  <2> DEFINE s == node[n]
             q == s.todo
             t == [Provide(s) EXCEPT !.todo = q + 1]
  <2>1. /\ Good(plan, s, node[Peer(n)]) /\ s.me = n /\ s.link # "down"
        /\ q \in DOMAIN Queries(s.me) /\ Query(s, q) = plan[s.me].queries[q] /\ faults' = faults
    BY <1>2, <1>5 DEF AskQuery, Query, Queries
  <2>2. \/ /\ Query(s, q).kind = "command"
           /\ Set(n, ClientRequest([t EXCEPT !.client.commands = Append(@, q)]))
        \/ /\ Query(s, q).kind # "command"
           /\ Set(n, NotifyCanSendQuery([t EXCEPT !.client.queue = Append(@, q)]))
        \/ /\ Query(s, q).kind # "command" /\ t.client.state = "READY"
           /\ Set(n, ClientRun(Begin(t, q)))
    BY <1>5 DEF AskQuery
  <2>3. /\ Good(plan, ClientRequest([t EXCEPT !.client.commands = Append(@, q)]), node[Peer(n)])
        /\ Query(s, q).kind # "command" =>
             Good(plan, NotifyCanSendQuery([t EXCEPT !.client.queue = Append(@, q)]),
                  node[Peer(n)])
        /\ Query(s, q).kind # "command" /\ t.client.state = "READY" =>
             Good(plan, ClientRun(Begin(t, q)), node[Peer(n)])
    BY <1>1, <2>1, AskQueryKeeps
  <2> HIDE DEF t, q, s
  <2> QED BY <1>4, <2>1, <2>2, <2>3
<1>6. ASSUME NEW n \in Nodes, AskUpdate(n) PROVE Inv'
  <2> DEFINE s == node[n]
             u == s.next
             t == [s EXCEPT !.next = u + 1]
             a == [t EXCEPT !.server.indications = Append(@, u)]
             b == [t EXCEPT !.server.notifications = Append(@, u)]
  <2>1. /\ s.link # "down" /\ u \in DOMAIN Updates(n) /\ faults' = faults
        /\ Set(n, ServerRequest(a)) \/ Set(n, ServerRequest(b))
    BY <1>6 DEF AskUpdate
  <2>2. u \in 1..Len(plan[s.me].updates)
    BY <1>1, <1>2, <2>1, PlanFacts DEF Updates
  <2>3. Good(plan, a, node[Peer(n)]) /\ Good(plan, b, node[Peer(n)])
    BY <1>1, <1>2, <2>1, <2>2, AskUpdateKeeps
  <2> HIDE DEF a, b
  <2>4. Good(plan, ServerRequest(a), node[Peer(n)]) /\ Good(plan, ServerRequest(b), node[Peer(n)])
    BY <1>1, <2>3, RequestKeeps
  <2> QED BY <1>4, <2>1, <2>4
<1>7. ASSUME NEW n \in Nodes, PacketSent(n) PROVE Inv'
  BY <1>1, <1>2, <1>4, <1>7, PacketSentKeeps DEF PacketSent
<1>8. ASSUME NEW n \in Nodes, Receive(n) PROVE Inv'
  <2> DEFINE s == node[n]
             m == node[Peer(n)]
             d == Dispatch(s, Head(m.out))
             f == [node EXCEPT ![n] = d, ![Peer(n)].out = Tail(@)]
  <2>1. m.out # <<>> /\ node' = f /\ plan' = plan /\ faults' = faults
    BY <1>8 DEF Receive
  <2>2. Good(plan, d, Pop(m)) /\ Good(plan, Pop(m), d)
    BY <1>1, <1>2, <2>1, DispatchPops, Mutual
  <2>3. f = [x \in Nodes |-> f[x]] /\ f[n] = d /\ f[Peer(n)] = Pop(m)
    <3> HIDE DEF d
    <3> QED BY Peers DEF Inv, Pop
  <2> HIDE DEF f, d
  <2>4. d.me = n /\ Pop(m).me = Peer(n)
    <3>1. Pop(m).me = Peer(n)
      BY <1>2, Peers DEF Pop, DeviceType
    <3>2. d.me \in Nodes /\ Peer(d.me) = Peer(n)
      BY <2>2, <3>1 DEF Good, Own
    <3> QED BY <3>1, <3>2, Peers
  <2>5. \A x \in Nodes : Good(plan, f[x], f[Peer(x)]) /\ f[x].me = x
    BY <2>2, <2>3, <2>4, Peers
  <2> QED BY <1>1, <2>1, <2>3, <2>5, BothMove
<1>9. ASSUME NEW n \in Nodes, Timeout(n) PROVE Inv'
  <2> DEFINE t == [node[n] EXCEPT !.client.timer = FALSE]
             l == [t EXCEPT !.late = TRUE, !.doubtful = @ \cup {t.client.callback}]
             s == IF t.client.state = "READY" THEN t ELSE Complete(l, "timeout")
  <2>1. t.client.known /\ Set(n, s) /\ (faults' = faults \/ May("late"))
    BY <1>9 DEF Timeout
  <2>2. node[n].client.known
    <3>1. node[n] \in DeviceType(plan, n) /\ node[n].client \in ClientType(plan, n)
      BY <1>2 DEF DeviceType
    <3> QED BY <2>1, <3>1 DEF DeviceType, ClientType
  <2>3. Good(plan, s, node[Peer(n)])
    BY <1>1, <1>2, <2>2, TimeoutKeeps
  <2> HIDE DEF s
  <2> QED BY <1>4, <2>1, <2>3
<1>10. ASSUME NEW n \in Nodes, IndicationTimeout(n) PROVE Inv'
  BY <1>1, <1>2, <1>4, <1>10, IndicationTimeoutKeeps DEF IndicationTimeout
<1>11. ASSUME NEW n \in Nodes, Disconnected(n) PROVE Inv'
  <2> DEFINE s == [node[n] EXCEPT !.prepared = NothingPrepared,
                                  !.server.state = "IDLE", !.server.request = NoPdu]
             t == IF s.server.indication = 0 THEN s
                  ELSE [ReportIndication(s, "disconnect") EXCEPT !.server.indication = 0]
             u == IF t.client.known THEN ReportError(t, "disconnected") ELSE t
             unanswered == {q \in u.accepted : u.answers[q] = <<>>}
             queued == {u.client.queue[i] : i \in DOMAIN u.client.queue}
             w == [u EXCEPT !.link = "down", !.client = NoContext, !.server = NewConnection,
                            !.dropped = @ \cup unanswered \cup queued]
  <2>1. node[n].link = "lost" /\ Set(n, Notify(w)) /\ faults' = faults
    BY <1>11 DEF Disconnected
  <2>2. Good(plan, u, node[Peer(n)]) /\ node[Peer(n)].link # "up"
    BY <1>1, <1>2, <2>1, DisconnectedKeeps
  <2> HIDE DEF u
  <2>3. Good(plan, w, node[Peer(n)])
    BY <1>1, <2>2, ForgetKeeps
  <2> HIDE DEF w
  <2> QED BY <1>1, <1>4, <2>1, <2>3, NotifyKeeps
<1>12. ASSUME LinkLost PROVE Inv'
  <2> DEFINE f == [n \in Nodes |-> [node[n] EXCEPT !.link = "lost", !.out = <<>>]]
  <2>1. May("loss") /\ node' = f /\ plan' = plan /\ \A n \in Nodes : node[n].link = "up"
    BY <1>12 DEF LinkLost
  <2>2. \A n \in Nodes : Good(plan, f[n], f[Peer(n)]) /\ f[n].me = n
    <3>1. \A n \in Nodes : Good(plan, f[n], f[Peer(n)])
      BY <1>1, <1>2, <2>1, Peers, LostKeeps
    <3>2. \A n \in Nodes : f[n].me = n
      BY ZenonT(40), <1>2 DEF DeviceType
    <3> QED BY <3>1, <3>2
  <2>3. f = [n \in Nodes |-> f[n]]
    OBVIOUS
  <2> HIDE DEF f
  <2> QED BY <1>3, <2>1, <2>2, <2>3, BothMove
<1>13. ASSUME Connected PROVE Inv'
  <2> DEFINE N(x) == ClientRun(Notify([x EXCEPT !.link = "up", !.late = FALSE]))
             f == [n \in Nodes |-> N(node[n])]
  <2>1. /\ node' = f /\ plan' = plan /\ faults' = faults /\ \A n \in Nodes : node[n].link = "down"
    BY <1>13 DEF Connected
  <2>2. \A n \in Nodes : Good(plan, N(node[n]), N(node[Peer(n)])) /\ N(node[n]).me = n
    BY <1>1, <1>2, <2>1, Peers, ConnectedKeeps
  <2> HIDE DEF N
  <2>3. \A n \in Nodes : Good(plan, f[n], f[Peer(n)]) /\ f[n].me = n
    BY <2>2, Peers
  <2>4. f = [n \in Nodes |-> f[n]]
    OBVIOUS
  <2> HIDE DEF f
  <2> QED BY <1>1, <2>1, <2>3, <2>4, BothMove
<1>14. ASSUME UNCHANGED vars PROVE Inv'
  BY <1>14 DEF Inv, vars
<1> QED
  BY <1>5, <1>6, <1>7, <1>8, <1>9, <1>10, <1>11, <1>12, <1>13, <1>14 DEF Next, Progress

(* The invariant holds in all that client and server do.                   *)
THEOREM GattInvariant == Spec => []Inv
BY Initially, Steadily, PTL DEF Spec

----------------------------------------------------------------------------
(* What follows                                                            *)

(* Both devices stay what they are made of: no state, no stage, and no PDU *)
(* that the code has no name for.                                          *)
THEOREM GattTypes == Spec => []TypeOK
<1>1. Inv => TypeOK
  <2> SUFFICES ASSUME Inv PROVE TypeOK
    OBVIOUS
  <2>1. DOMAIN node = Nodes
    BY DEF Inv
  <2>2. ASSUME NEW n \in Nodes PROVE node[n] \in DeviceType(plan, n)
    BY Parts DEF Inv, Good
  <2> QED BY <2>1, <2>2 DEF Inv, TypeOK
<1> QED BY <1>1, GattInvariant, PTL

(* A query that was accepted is answered once and as long as it is not it  *)
(* is the one in work, whatever begins from the handler, from the queue, or*)
(* after a write that was refused, and however the link is lost.           *)
THEOREM QueriesAnsweredOnce == Spec => []AnsweredOnce
<1>1. Inv => AnsweredOnce
  <2> SUFFICES ASSUME Inv, NEW n \in Nodes
               PROVE  LET s == node[n]
                      IN  /\ \A q \in DOMAIN s.answers \ s.doubtful :
                               s.answers[q] # <<>> =>
                                 Len(s.answers[q]) = 1 /\ q \in s.accepted
                          /\ ~s.late => Pending(s) = IF s.client.state = "READY" THEN {}
                                                     ELSE {s.client.callback}
    BY DEF AnsweredOnce
  <2> DEFINE s == node[n]
             N == Len(plan[n].queries)
  <2>1. s \in DeviceType(plan, n) /\ s.me = n /\ Book(plan, s) /\ AtWork(s)
    BY Parts DEF Inv, Good, Own
  <2> HIDE DEF s
  <2>2. s.answers \in [1..N -> Seq(Statuses)] /\ DOMAIN s.answers = 1..N
    BY <2>1 DEF DeviceType
  <2>3. ASSUME NEW q \in DOMAIN s.answers \ s.doubtful, s.answers[q] # <<>>
        PROVE  Len(s.answers[q]) = 1 /\ q \in s.accepted
    <3> DEFINE k == Len(s.answers[q])
    <3>1. q \in s.accepted /\ k <= 1
      BY <2>1, <2>2, <2>3 DEF Book
    <3>2. k \in Nat /\ k # 0
      BY <2>2, <2>3, LenProperties, EmptySeq
    <3> HIDE DEF k
    <3>3. k = 1
      BY <3>1, <3>2
    <3> QED BY <3>1, <3>3 DEF k
  <2>4. ASSUME ~s.late
        PROVE  Pending(s) = IF s.client.state = "READY" THEN {} ELSE {s.client.callback}
    <3>1. Pending(s) = {q \in s.accepted : Unanswered(s, q)}
      BY DEF Pending, Unanswered
    <3>2. \A q \in s.accepted :
            Unanswered(s, q) <=> s.client.state # "READY" /\ q = s.client.callback
      BY <2>1, <2>4 DEF AtWork
    <3>3. s.client.state # "READY" => s.client.callback \in s.accepted
      BY <2>1 DEF AtWork
    <3> QED BY <3>1, <3>2, <3>3
  <2> QED BY <2>3, <2>4 DEF s
<1> QED BY <1>1, GattInvariant, PTL

(* A device has at most one request on the link or in the server of the    *)
(* other, and it has one when it waits: a server never drops a request for *)
(* one that came before.                                                   *)
THEOREM RequestsOneByOne == Spec => []OneTransaction
<1>1. Inv => OneTransaction
  <2>1. ASSUME Inv, NEW n \in Nodes, node[n].link = "up", ~node[n].late
        PROVE  Outstanding(n) =
                 IF node[n].client.state = "WAIT" \/ node[n].client.mtuState = "SENT" THEN 1 ELSE 0
    BY <2>1 DEF Inv, Good, Pair, Asking, Open, Underway, Working, Outstanding
  <2> QED BY <2>1 DEF OneTransaction
<1> QED BY <1>1, GattInvariant, PTL

(* The next indication waits for the confirmation of the last, and what is *)
(* said of it is true: complete is what the peer has heard.                *)
THEOREM IndicationsOneByOne == Spec => []IndicationOnce
<1>1. Inv => IndicationOnce
  <2>1. ASSUME Inv, NEW n \in Nodes, node[n].link = "up"
        PROVE  Unconfirmed(n) = IF node[n].server.indication = 0 THEN 0 ELSE 1
    BY <2>1 DEF Inv, Good, Pair, Indicating, Unconfirmed
  <2>2. ASSUME Inv, NEW n \in Nodes, NEW u \in DOMAIN Updates(n)
        PROVE  LET r == node[n].reports[u]
               IN  /\ Len(r) < 2 \/ (Len(r) = 2 /\ r[1] = "timeout" /\ r[2] # "timeout")
                   /\ \A i \in DOMAIN r :
                        r[i] = "complete" =>
                          \E k \in DOMAIN node[Peer(n)].heard : node[Peer(n)].heard[k] = u
    <3> DEFINE s == node[n]
               m == node[Peer(n)]
               r == s.reports[u]
               U == Len(plan[n].updates)
    <3>1. /\ s.me = n /\ s \in DeviceType(plan, s.me) /\ m \in DeviceType(plan, m.me)
          /\ Updating(plan, s) /\ Indicating(plan, s, m)
      BY <2>2, Parts DEF Inv, Good, Own, Pair
    <3>2. u \in 1..U
      BY <2>2, PlanFacts DEF Inv, Updates
    <3> HIDE DEF s, m
    <3>3. r \in Seq({"complete", "timeout", "disconnect"}) /\ m.heard \in Seq(Nat)
      BY <3>1, <3>2 DEF DeviceType
    <3>4. DOMAIN r = 1..Len(r) /\ DOMAIN m.heard = 1..Len(m.heard)
      BY <3>3, LenProperties
    <3>5. Told(r) /\ \A i \in 1..Len(r) : r[i] = "complete" => Heard(m, u)
      BY <3>1, <3>2 DEF Updating, Indicating
    <3> QED BY <3>4, <3>5 DEF Told, Heard, s, m
  <2> QED BY <2>1, <2>2 DEF IndicationOnce
<1> QED BY <1>1, GattInvariant, PTL

(* When nothing is on its way the four MTUs of a link are one: the server  *)
(* and the client of a device learn of an exchange by whichever it was.    *)
THEOREM OneMtu == Spec => []MtuAgreed
<1>1. Inv => MtuAgreed
  <2> SUFFICES ASSUME Inv, Quiet, \A n \in Nodes : node[n].link = "up"
               PROVE  \A n, m \in Nodes : \A a \in Mtus(node[n]), b \in Mtus(node[m]) : a = b
    BY DEF MtuAgreed
  <2>1. ASSUME NEW n \in Nodes
        PROVE  /\ node[n].me = n /\ Valid(node[n]) /\ node[n].out = <<>>
               /\ Agreeing(node[n], node[Peer(n)]) /\ node[n].server \in ServerType
    BY Parts DEF Inv, Good, Own, Pair, Quiet
  <2>2. On(<<>>) = {}
    <3>1. Len(<<>>) = 0
      BY EmptySeq
    <3> QED BY <3>1 DEF On
  <2>3. ASSUME NEW n \in Nodes, node[Peer(n)].server.exchanged PROVE node[n].server.exchanged
    <3>1. Peer(n) \in Nodes
      BY Peers
    <3>2. node[Peer(n)].out = <<>>
      BY <2>1, <3>1
    <3> QED BY <2>1, <2>2, <2>3, <3>2 DEF Agreeing
  <2>4. ASSUME NEW n \in Nodes PROVE node[n].server.mtu = node[Peer(n)].server.mtu
    <3>1. Peer(n) \in Nodes /\ Peer(Peer(n)) = n
      BY Peers
    <3>2. node[n].server.exchanged = node[Peer(n)].server.exchanged
      <4>1. node[n].server.exchanged \in BOOLEAN /\ node[Peer(n)].server.exchanged \in BOOLEAN
        BY <2>1, <3>1 DEF ServerType
      <4>2. node[n].server.exchanged <=> node[Peer(n)].server.exchanged
        BY <2>3, <3>1
      <4> QED BY <4>1, <4>2
    <3>3. CommonMtu(node[n]) = CommonMtu(node[Peer(n)])
      <4>1. MaxMtu[n] \in Nat /\ MaxMtu[Peer(n)] \in Nat
        BY <3>1, BoundsAssumption
      <4>2. node[n].me = n /\ node[Peer(n)].me = Peer(n)
        BY <2>1, <3>1
      <4> QED BY <3>1, <4>1, <4>2 DEF CommonMtu, Smaller
    <3> QED BY <2>1, <3>1, <3>2, <3>3 DEF Valid
  <2>5. ASSUME NEW n \in Nodes, NEW a \in Mtus(node[n]) PROVE a = node[n].server.mtu
    BY <2>1, <2>5 DEF Mtus, Valid
  <2>6. ASSUME NEW n \in Nodes, NEW m \in Nodes PROVE node[n].server.mtu = node[m].server.mtu
    BY <2>4, Peers
  <2> QED BY <2>5, <2>6
<1> QED BY <1>1, GattInvariant, PTL
=============================================================================

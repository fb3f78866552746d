------------------------- MODULE L2capChannelProofs -------------------------
(***************************************************************************)
(* Proofs about L2capChannel, for any number of calls, channels, links and *)
(* pending responses, any pool, any clients and timers: what a client      *)
(* hears of a channel is in order (ClientsHearInOrder), and an open        *)
(* channel and the one it sends to belong to each other                    *)
(* (OpenChannelsAgree).                                                    *)
(*                                                                         *)
(* A channel fails when its timer expires, so an open one must have no     *)
(* timer.  A configure response stops the timer; it is matched by its      *)
(* identifier.  What must not happen is that a channel takes the response  *)
(* to another request for the one to its own before it has sent that: its  *)
(* request then starts the timer of a channel that can open.  Two channels *)
(* belong together once one side has taken the other's for its peer, from  *)
(* a connection request or from the answer to its own; a configure request *)
(* is for the channel that belongs to its sender's, and a channel opens    *)
(* when that one has answered.  Hence the invariant has three parts: what  *)
(* a device knows of its channels and their clients (Local), what both     *)
(* know of the identifiers in use between them (Once, AtRest), and which   *)
(* channels belong together, with the commands that are about them         *)
(* (Paired).                                                               *)
(*                                                                         *)
(* It needs IdsFresh: an identifier is not given out while a request with  *)
(* it, or its response, is still under way, or a channel may yet take a    *)
(* response with it.  l2cap_next_sig_id does not look; it counts to 255    *)
(* and starts again.  With one identifier only, TLC finds a channel that   *)
(* fails after it opened.                                                  *)
(***************************************************************************)
EXTENDS L2capChannel, Lists

(* The types, with numbers of any size.                                    *)
Config == {"CONFIGURE_REQUEST", "CONFIGURE_RESPONSE"}
Whats == Psms \cup {"", "ok", "pending", "refused", "unknown"}
Message ==
  {m \in [code : Codes, id : Nat, dst : Nat, src : Nat, what : Whats] :
     /\ m.code = "CONNECTION_REQUEST" => m.what \in Psms
     /\ m.code = "CONNECTION_RESPONSE" => m.what \in {"ok", "pending", "refused"}
     /\ m.code \in Config => m.id > 0}

(* Commands that the invariant of both devices is about.                   *)
Binds(m) ==
  \/ m.code \in Config \cup {"CONNECTION_REQUEST"}
  \/ m.code = "CONNECTION_RESPONSE" /\ m.what = "ok"

(* Responses that wait are none of them.                                   *)
Pending == {r \in [handle : Nat, command : Message] : ~Binds(r.command)}
Chan ==
  [ cid : Nat, rcid : Nat, handle : Nat, psm : Psms, state : States, incoming : BOOLEAN,
    pend : {"no", "send", "sent"}, confReq : BOOLEAN, confRsp : BOOLEAN, sentRsp : BOOLEAN,
    rcvdRsp : BOOLEAN, invalid : BOOLEAN, rsig : Nat, lsig : Nat, rtx : BOOLEAN,
    odd : BOOLEAN ]
Device ==
  [ chans : Seq(Chan), resp : Seq(Pending), busy : BOOLEAN, sig : 1..SigIds, cid : Nat,
    acl : Nat, page : BOOLEAN, feat : {"unknown", "asked", "known"},
    sec : {"none", "asked", "done"},
    info : {"IDLE", "W2_EXTENDED", "W4_EXTENDED", "W2_FIXED", "W4_FIXED", "DONE"},
    block : BOOLEAN, out : Seq(Message), made : Nat, foreign : BOOLEAN, ssp : BOOLEAN,
    told : [Cids -> {"nothing", "incoming", "opened", "failed", "closed", "wrong"}] ]

Distinct(s) == \A i, j \in 1..Len(s.chans) : s.chans[i].cid = s.chans[j].cid => i = j

(* Fields of a channel, one at a time.                                     *)
LEMMA ChanUpdates ==
  ASSUME NEW c \in Chan
  PROVE  /\ \A x \in States : [c EXCEPT !.state = x] \in Chan
         /\ \A x \in {"no", "send", "sent"} : [c EXCEPT !.pend = x] \in Chan
         /\ \A x \in Nat : /\ [c EXCEPT !.cid = x] \in Chan
                           /\ [c EXCEPT !.rcid = x] \in Chan
                           /\ [c EXCEPT !.handle = x] \in Chan
                           /\ [c EXCEPT !.rsig = x] \in Chan
                           /\ [c EXCEPT !.lsig = x] \in Chan
         /\ \A x \in BOOLEAN : /\ [c EXCEPT !.confReq = x] \in Chan
                               /\ [c EXCEPT !.confRsp = x] \in Chan
                               /\ [c EXCEPT !.sentRsp = x] \in Chan
                               /\ [c EXCEPT !.rcvdRsp = x] \in Chan
                               /\ [c EXCEPT !.invalid = x] \in Chan
                               /\ [c EXCEPT !.rtx = x] \in Chan
                               /\ [c EXCEPT !.odd = x] \in Chan
                               /\ [c EXCEPT !.incoming = x] \in Chan
<1>1. \A x \in States : [c EXCEPT !.state = x] \in Chan
  BY DEF Chan
<1>2. \A x \in {"no", "send", "sent"} : [c EXCEPT !.pend = x] \in Chan
  BY DEF Chan
<1>3. \A x \in Nat : [c EXCEPT !.cid = x] \in Chan /\ [c EXCEPT !.rcid = x] \in Chan
  BY DEF Chan
<1>4. \A x \in Nat : [c EXCEPT !.handle = x] \in Chan /\ [c EXCEPT !.rsig = x] \in Chan
  BY DEF Chan
<1>5. \A x \in Nat : [c EXCEPT !.lsig = x] \in Chan
  BY DEF Chan
<1>6. \A x \in BOOLEAN : [c EXCEPT !.confReq = x] \in Chan /\ [c EXCEPT !.confRsp = x] \in Chan
  BY DEF Chan
<1>7. \A x \in BOOLEAN : [c EXCEPT !.sentRsp = x] \in Chan /\ [c EXCEPT !.rcvdRsp = x] \in Chan
  BY DEF Chan
<1>8. \A x \in BOOLEAN : [c EXCEPT !.invalid = x] \in Chan /\ [c EXCEPT !.rtx = x] \in Chan
  BY DEF Chan
<1>9. \A x \in BOOLEAN : [c EXCEPT !.odd = x] \in Chan /\ [c EXCEPT !.incoming = x] \in Chan
  BY DEF Chan
<1> QED BY <1>1, <1>2, <1>3, <1>4, <1>5, <1>6, <1>7, <1>8, <1>9

----------------------------------------------------------------------------
(* The list of channels                                                    *)

(* A device has a channel if one is a member.                              *)
LEMMA HasMember ==
  ASSUME NEW s \in Device, NEW cid
  PROVE  /\ Members(s) \subseteq Chan
         /\ Has(s, cid) <=> \E c \in Members(s) : c.cid = cid
BY ElementOfSeq DEF Device, Members, Has

(* The channel that is found by its identifier.                            *)
LEMMA ChannelFacts ==
  ASSUME NEW s \in Device, NEW cid, Has(s, cid)
  PROVE  /\ Place(s, cid) \in 1..Len(s.chans)
         /\ Channel(s, cid) \in Members(s) /\ Channel(s, cid) \in Chan
         /\ Channel(s, cid).cid = cid
<1>1. DOMAIN s.chans = 1..Len(s.chans)
  BY DEF Device
<1>2. \E i \in DOMAIN s.chans : s.chans[i].cid = cid
  BY DEF Has
<1>3. Place(s, cid) \in DOMAIN s.chans /\ s.chans[Place(s, cid)].cid = cid
  BY <1>2 DEF Place
<1> QED BY <1>1, <1>3, HasMember DEF Channel, Members

(* Only the channels and the events may differ.                            *)
OtherFields(s, t) == t.out = s.out /\ t.sig = s.sig /\ t.busy = s.busy /\ t.cid = s.cid

(* Put changes one channel and nothing else.                               *)
LEMMA PutFacts ==
  ASSUME NEW s \in Device, Distinct(s), NEW c \in Chan, Has(s, c.cid)
  PROVE  /\ Put(s, c) \in Device /\ OtherFields(s, Put(s, c)) /\ Put(s, c).told = s.told
         /\ Len(Put(s, c).chans) = Len(s.chans) /\ Distinct(Put(s, c))
         /\ Members(Put(s, c)) = {d \in Members(s) : d.cid # c.cid} \cup {c}
         /\ Channel(Put(s, c), c.cid) = c
<1> DEFINE p == Place(s, c.cid)
           new == [s.chans EXCEPT ![p] = c]
           t == Put(s, c)
<1>1. p \in 1..Len(s.chans) /\ s.chans[p].cid = c.cid
  BY ChannelFacts DEF Channel
<1>2. s.chans \in Seq(Chan)
  BY DEF Device
<1> HIDE DEF p
<1>3. /\ new \in Seq(Chan) /\ Len(new) = Len(s.chans)
      /\ \A i \in 1..Len(s.chans) : new[i] = IF i = p THEN c ELSE s.chans[i]
  BY <1>1, <1>2, ExceptSeq
<1>4. t.chans = new /\ t \in Device /\ OtherFields(s, t) /\ t.told = s.told
  <2> HIDE DEF new
  <2>1. t = [s EXCEPT !.chans = new]
    BY DEF Put, new, p
  <2> QED BY <2>1, <1>3, ZenonT(40) DEF Device, OtherFields
<1>5. Distinct(t)
  BY <1>1, <1>3, <1>4 DEF Distinct
<1>6. Members(t) = {d \in Members(s) : d.cid # c.cid} \cup {c}
  <2>1. ASSUME NEW d \in Members(t) PROVE d = c \/ (d \in Members(s) /\ d.cid # c.cid)
    BY <1>1, <1>3, <1>4 DEF Members, Distinct
  <2>2. c \in Members(t)
    BY <1>1, <1>3, <1>4 DEF Members
  <2>3. ASSUME NEW d \in Members(s), d.cid # c.cid PROVE d \in Members(t)
    BY <1>1, <1>3, <1>4, <2>3 DEF Members
  <2> QED BY <2>1, <2>2, <2>3
<1>7. Channel(t, c.cid) = c
  <2>1. Has(t, c.cid)
    BY <1>4, <1>6, HasMember
  <2> QED BY <1>4, <1>6, <2>1, ChannelFacts
<1> QED BY <1>3, <1>4, <1>5, <1>6, <1>7

(* Free takes one channel away and nothing else.                           *)
LEMMA FreeFacts ==
  ASSUME NEW s \in Device, Distinct(s), NEW cid, Has(s, cid)
  PROVE  /\ Free(s, cid) \in Device /\ OtherFields(s, Free(s, cid))
         /\ Free(s, cid).told = s.told
         /\ Len(Free(s, cid).chans) <= Len(s.chans) /\ Distinct(Free(s, cid))
         /\ Members(Free(s, cid)) = {d \in Members(s) : d.cid # cid}
<1> DEFINE p == Place(s, cid)
           old == s.chans
           new == RemoveAt(s.chans, p)
           t == Free(s, cid)
<1>1. p \in 1..Len(old) /\ old[p].cid = cid
  BY ChannelFacts DEF Channel
<1>2. old \in Seq(Chan) /\ Len(old) \in Nat
  BY LenProperties DEF Device
<1>3. t = [s EXCEPT !.chans = new]
  BY DEF Free
<1> HIDE DEF p
<1>4. new \in Seq(Chan) /\ Removed(new, old, p)
  BY <1>1, <1>2, RemoveFacts
<1> HIDE DEF new, old, t
<1>5. Len(new) = Len(old) - 1 /\ \A i \in 1..Len(old) - 1 : new[i] = IF i < p THEN old[i] ELSE old[i + 1]
  BY <1>4 DEF Removed
<1>6. t.chans = new /\ t \in Device /\ OtherFields(s, t) /\ t.told = s.told
  BY <1>3, <1>4 DEF Device, OtherFields
<1>7. \A i, j \in 1..Len(old) : old[i].cid = old[j].cid => i = j
  BY DEF Distinct, old
<1>8. Distinct(t)
  <2>1. SUFFICES ASSUME NEW i \in 1..Len(new), NEW j \in 1..Len(new), new[i].cid = new[j].cid
                 PROVE  i = j
    BY <1>6 DEF Distinct
  <2>2. i \in 1..Len(old) - 1 /\ j \in 1..Len(old) - 1
    BY <1>5
  <2> QED BY <1>1, <1>2, <1>5, <1>7, <2>1, <2>2
<1>9. Members(t) = {d \in Members(s) : d.cid # cid}
  <2>1. ASSUME NEW d \in Members(t) PROVE d \in Members(s) /\ d.cid # cid
    <3>1. PICK i \in 1..Len(new) : d = new[i]
      BY <1>6 DEF Members
    <3>2. PICK j \in 1..Len(old) : d = old[j] /\ j # p
      BY <1>1, <1>2, <1>5, <3>1
    <3> QED BY <1>1, <1>7, <3>2 DEF Members, old
  <2>2. ASSUME NEW d \in Members(s), d.cid # cid PROVE d \in Members(t)
    <3>1. PICK i \in 1..Len(old) : d = old[i]
      BY DEF Members, old
    <3>2. i # p
      BY <1>1, <2>2, <3>1
    <3>3. \E j \in 1..Len(new) : d = new[j]
      <4>1. CASE i < p
        <5>1. i \in 1..Len(old) - 1 /\ i < p
          BY <1>1, <1>2, <4>1
        <5> QED BY <1>5, <3>1, <5>1
      <4>2. CASE i > p
        <5>1. i - 1 \in 1..Len(old) - 1 /\ ~(i - 1 < p) /\ (i - 1) + 1 = i
          BY <1>1, <1>2, <4>2
        <5>2. new[i - 1] = old[i]
          BY <1>5, <5>1
        <5> QED BY <1>5, <3>1, <5>1, <5>2
      <4> QED BY <1>1, <1>2, <3>2, <4>1, <4>2
    <3> QED BY <1>6, <3>3 DEF Members
  <2> QED BY <2>1, <2>2
<1>10. Len(new) <= Len(old)
  BY <1>2, <1>5
<1> QED BY <1>6, <1>8, <1>9, <1>10 DEF t, old

----------------------------------------------------------------------------
(* What a device knows by itself                                           *)

Asking == {"WILL_SEND_CREATE_CONNECTION", "WAIT_CONNECTION_COMPLETE",
           "WAIT_OUTGOING_SECURITY_LEVEL_UPDATE", "WILL_SEND_CONNECTION_REQUEST",
           "WAIT_CONNECT_RSP"}
Asked == {"WAIT_INCOMING_SECURITY_LEVEL_UPDATE", "WAIT_CLIENT_ACCEPT_OR_REJECT",
          "WILL_SEND_CONNECTION_RESPONSE_DECLINE", "WILL_SEND_CONNECTION_RESPONSE_ACCEPT"}
Early == Asking \cup Asked \cup {"WAIT_REMOTE_SUPPORTED_FEATURES"}
Announced == {"WAIT_CLIENT_ACCEPT_OR_REJECT", "WILL_SEND_CONNECTION_RESPONSE_ACCEPT"}

Consistent(c) ==
  /\ c.state \in Asking => ~c.incoming
  /\ c.state \in Asked => c.incoming
  /\ c.state \in Early => ~c.rcvdRsp /\ ~c.confRsp
  /\ c.state = "CONFIG" /\ c.rcvdRsp => ~c.confReq /\ ~c.rtx
  /\ c.incoming /\ c.state \in Early => c.lsig = NoId
  /\ Owes(c) => c.rsig > 0
Unheard(c) ==
  IF c.incoming
  THEN c.state \in {"WAIT_REMOTE_SUPPORTED_FEATURES", "WAIT_INCOMING_SECURITY_LEVEL_UPDATE"}
  ELSE c.state \in Asking \cup {"WAIT_REMOTE_SUPPORTED_FEATURES", "CONFIG"}
Heard(c, event) ==
  /\ event \in {"nothing", "incoming", "opened"}
  /\ Unheard(c) => event = "nothing"
  /\ c.incoming /\ c.state \in Announced \cup {"CONFIG"} => event = "incoming"
  /\ event = "opened" => ~c.rtx

Local(s) ==
  /\ Len(s.chans) <= Pool /\ Distinct(s)
  /\ \A c \in Members(s) : c.cid \in 1..s.cid /\ Consistent(c)
  /\ \A c \in Members(s) : c.cid \in Cids => Heard(c, s.told[c.cid])
  /\ \A x \in Cids : s.told[x] # "wrong" /\ (x > s.cid => s.told[x] = "nothing")

(* Events that the client of a channel may hear of next.                   *)
Follows(c, event) ==
  CASE event = "incoming" -> {"nothing"}
    [] event = "opened" -> IF c.incoming THEN {"incoming"} ELSE {"nothing"}
    [] event = "failed" -> {"nothing", "incoming"}
    [] event = "closed" -> {"nothing", "incoming", "opened"}

Events == {"incoming", "opened", "failed", "closed"}
Tells(s, t, cid, event) ==
  /\ t \in Device /\ OtherFields(s, t) /\ t.chans = s.chans
  /\ \A x \in Cids : t.told[x] = IF x = cid THEN event ELSE s.told[x]

(* An event that may come next becomes the last one of its channel.        *)
LEMMA TellFacts ==
  ASSUME NEW s \in Device, NEW c, NEW event \in Events,
         c.cid \in Cids => s.told[c.cid] \in Follows(c, event)
  PROVE  Tells(s, Tell(s, c, event), c.cid, event)
<1> DEFINE e == IF s.told[c.cid] \in Follows(c, event) THEN event ELSE "wrong"
<1>1. Tell(s, c, event) = [s EXCEPT !.told = [s.told EXCEPT ![c.cid] = e]]
  BY DEF Tell, Follows
<1>2. e \in {"nothing", "incoming", "opened", "failed", "closed", "wrong"}
  BY DEF Events
<1>3. c.cid \in Cids => e = event
  OBVIOUS
<1> HIDE DEF e
<1>4. s.told \in [Cids -> {"nothing", "incoming", "opened", "failed", "closed", "wrong"}]
  BY DEF Device
<1> DEFINE new == [s.told EXCEPT ![c.cid] = e]
<1>5. /\ new \in [Cids -> {"nothing", "incoming", "opened", "failed", "closed", "wrong"}]
      /\ \A x \in Cids : new[x] = IF x = c.cid THEN event ELSE s.told[x]
  BY <1>2, <1>3, <1>4
<1> HIDE DEF new
<1>6. [s EXCEPT !.told = new] \in Device
  BY <1>5 DEF Device
<1>7. LET t == [s EXCEPT !.told = new]
      IN  OtherFields(s, t) /\ t.chans = s.chans /\ t.told = new
  BY DEF Device, OtherFields
<1> QED BY <1>1, <1>5, <1>6, <1>7 DEF new, Tells

(* Identifiers of channels are numbers.                                    *)
LEMMA CidsAreNumbers == Cids \subseteq Int
BY DEF Cids

(* Fields that are not about channels.                                     *)
LEMMA LocalSame ==
  ASSUME NEW s \in Device, Local(s), NEW t \in Device,
         t.chans = s.chans, t.told = s.told, t.cid = s.cid
  PROVE  Local(t) /\ Members(t) = Members(s) /\ \A x : Has(t, x) <=> Has(s, x)
BY DEF Local, Members, Distinct, Has

(* A channel changes.                                                      *)
LEMMA LocalPut ==
  ASSUME NEW s \in Device, Local(s), NEW c \in Chan, Has(s, c.cid), Consistent(c),
         c.cid \in Cids => Heard(c, s.told[c.cid])
  PROVE  Local(Put(s, c))
<1> DEFINE t == Put(s, c)
<1>1. /\ OtherFields(s, t) /\ t.told = s.told /\ Len(t.chans) = Len(s.chans) /\ Distinct(t)
      /\ Members(t) = {d \in Members(s) : d.cid # c.cid} \cup {c}
  BY PutFacts DEF Local
<1>2. c.cid \in 1..s.cid
  BY HasMember DEF Local
<1> HIDE DEF t
<1> QED BY <1>1, <1>2 DEF Local, OtherFields, t

(* A channel changes, and its client hears of it.                          *)
LEMMA LocalPutTell ==
  ASSUME NEW s \in Device, Local(s), NEW c \in Chan, Has(s, c.cid), Consistent(c),
         NEW b, b.cid = c.cid, NEW event \in {"incoming", "opened"},
         c.cid \in Cids => s.told[c.cid] \in Follows(b, event) /\ Heard(c, event)
  PROVE  /\ Tell(Put(s, c), b, event) \in Device
         /\ Local(Tell(Put(s, c), b, event))
         /\ OtherFields(s, Tell(Put(s, c), b, event))
         /\ Members(Tell(Put(s, c), b, event)) = {d \in Members(s) : d.cid # c.cid} \cup {c}
<1> DEFINE t == Put(s, c)
           u == Tell(t, b, event)
<1>1. /\ t \in Device /\ OtherFields(s, t) /\ t.told = s.told
      /\ Len(t.chans) = Len(s.chans) /\ Distinct(t)
      /\ Members(t) = {d \in Members(s) : d.cid # c.cid} \cup {c}
  BY PutFacts DEF Local
<1>2. c.cid \in 1..s.cid
  BY HasMember DEF Local
<1> HIDE DEF t
<1>3. /\ u \in Device /\ OtherFields(t, u) /\ u.chans = t.chans
      /\ \A x \in Cids : u.told[x] = IF x = b.cid THEN event ELSE t.told[x]
  <2>1. event \in Events
    BY DEF Events
  <2>2. Tells(t, u, b.cid, event)
    BY <1>1, <2>1, TellFacts
  <2> QED BY <2>2 DEF Tells
<1> HIDE DEF u
<1>4. Members(u) = Members(t) /\ Distinct(u)
  BY <1>1, <1>3 DEF Members, Distinct
<1>5. Len(u.chans) <= Pool /\ \A d \in Members(u) : d.cid \in 1..u.cid /\ Consistent(d)
  BY <1>1, <1>2, <1>3, <1>4 DEF Local, OtherFields
<1>6. \A d \in Members(u) : d.cid \in Cids => Heard(d, u.told[d.cid])
  BY <1>1, <1>3, <1>4 DEF Local
<1>7. \A x \in Cids : u.told[x] # "wrong" /\ (x > u.cid => u.told[x] = "nothing")
  <2>1. u.cid = s.cid /\ s.cid \in Nat
    BY <1>1, <1>3 DEF OtherFields, Device
  <2> SUFFICES ASSUME NEW x \in Cids
               PROVE  u.told[x] # "wrong" /\ (x > u.cid => u.told[x] = "nothing")
    OBVIOUS
  <2>2. CASE x = b.cid
    BY <1>2, <1>3, <2>1, <2>2
  <2>3. CASE x # b.cid
    BY <1>1, <1>3, <2>1, <2>3 DEF Local
  <2> QED BY <2>2, <2>3
<1> QED BY <1>1, <1>3, <1>4, <1>5, <1>6, <1>7 DEF Local, OtherFields, t, u

(* A channel goes.                                                         *)
LEMMA LocalFree ==
  ASSUME NEW s \in Device, Local(s), NEW cid, Has(s, cid)
  PROVE  /\ Free(s, cid) \in Device /\ Local(Free(s, cid)) /\ OtherFields(s, Free(s, cid))
         /\ Members(Free(s, cid)) = {d \in Members(s) : d.cid # cid}
<1> DEFINE t == Free(s, cid)
<1>1. /\ t \in Device /\ OtherFields(s, t) /\ t.told = s.told
      /\ Len(t.chans) <= Len(s.chans) /\ Distinct(t)
      /\ Members(t) = {d \in Members(s) : d.cid # cid}
  BY FreeFacts DEF Local
<1>2. Len(t.chans) \in Nat /\ Len(s.chans) \in Nat
  BY <1>1, LenProperties DEF Device
<1> HIDE DEF t
<1>3. Local(t)
  BY <1>1, <1>2, BoundsAssumption DEF Local, OtherFields
<1> QED BY <1>1, <1>3 DEF t

(* A channel goes, and its client hears of it.                             *)
LEMMA LocalEnd ==
  ASSUME NEW s \in Device, Local(s), NEW c \in Members(s), NEW event \in {"failed", "closed"},
         c.cid \in Cids => s.told[c.cid] \in Follows(c, event)
  PROVE  /\ Free(Tell(s, c, event), c.cid) \in Device
         /\ Local(Free(Tell(s, c, event), c.cid))
         /\ OtherFields(s, Free(Tell(s, c, event), c.cid))
         /\ Members(Free(Tell(s, c, event), c.cid)) = {d \in Members(s) : d.cid # c.cid}
<1> DEFINE t == Tell(s, c, event)
           u == Free(t, c.cid)
<1>1. /\ t \in Device /\ OtherFields(s, t) /\ t.chans = s.chans
      /\ \A x \in Cids : t.told[x] = IF x = c.cid THEN event ELSE s.told[x]
  <2>1. event \in Events
    BY DEF Events
  <2>2. Tells(s, t, c.cid, event)
    BY <2>1, TellFacts
  <2> QED BY <2>2 DEF Tells
<1> HIDE DEF t
<1>2. Members(t) = Members(s) /\ Distinct(t) /\ Has(t, c.cid)
  BY <1>1, HasMember DEF Members, Distinct, Local
<1>3. /\ u \in Device /\ OtherFields(t, u) /\ u.told = t.told
      /\ Len(u.chans) <= Len(t.chans) /\ Distinct(u)
      /\ Members(u) = {d \in Members(t) : d.cid # c.cid}
  BY <1>1, <1>2, FreeFacts
<1>4. Len(u.chans) \in Nat /\ Len(s.chans) \in Nat
  BY <1>3, LenProperties DEF Device
<1> HIDE DEF u
<1>5. Len(u.chans) <= Pool /\ \A d \in Members(u) : d.cid \in 1..u.cid /\ Consistent(d)
  BY <1>1, <1>2, <1>3, <1>4, BoundsAssumption DEF Local, OtherFields
<1>6. \A d \in Members(u) : d.cid \in Cids => Heard(d, u.told[d.cid])
  BY <1>1, <1>2, <1>3 DEF Local
<1>7. c.cid \in 1..s.cid
  BY DEF Local
<1>8. \A x \in Cids : u.told[x] # "wrong" /\ (x > u.cid => u.told[x] = "nothing")
  <2>1. u.cid = s.cid /\ s.cid \in Nat
    BY <1>1, <1>3 DEF OtherFields, Device
  <2> SUFFICES ASSUME NEW x \in Cids
               PROVE  u.told[x] # "wrong" /\ (x > u.cid => u.told[x] = "nothing")
    OBVIOUS
  <2>2. CASE x = c.cid
    BY <1>1, <1>3, <1>7, <2>1, <2>2
  <2>3. CASE x # c.cid
    BY <1>1, <1>3, <2>1, <2>3 DEF Local
  <2> QED BY <2>2, <2>3
<1> QED BY <1>1, <1>2, <1>3, <1>5, <1>6, <1>8 DEF Local, OtherFields, t, u

(* A channel comes, of which its client has not heard.                     *)
Added(s, t, e) ==
  /\ t \in Device /\ t.out = s.out /\ t.sig = s.sig /\ t.busy = s.busy
  /\ t.cid = s.cid + 1 /\ t.told = s.told /\ t.acl = s.acl /\ t.feat = s.feat
  /\ Members(t) = Members(s) \cup {e}
  /\ Has(t, t.cid) /\ Channel(t, t.cid) = e

(* What a device knows by itself holds with one channel more.              *)
LEMMA LocalAdd ==
  ASSUME NEW s \in Device, Local(s), Len(s.chans) < Pool, NEW e \in Chan,
         Consistent(e), Heard(e, "nothing")
  PROVE  /\ Added(s, Add(s, e), [e EXCEPT !.cid = s.cid + 1, !.odd = s.foreign])
         /\ Local(Add(s, e))
<1> DEFINE c == [e EXCEPT !.cid = s.cid + 1, !.odd = s.foreign]
           new == Append(s.chans, c)
           t == Add(s, e)
<1>1. s.cid \in Nat /\ s.foreign \in BOOLEAN /\ s.chans \in Seq(Chan) /\ Len(s.chans) \in Nat
  BY LenProperties DEF Device
<1>2. c \in Chan
  <2>1. s.cid + 1 \in Nat
    BY <1>1
  <2>2. [e EXCEPT !.cid = s.cid + 1] \in Chan
    BY <2>1, ChanUpdates
  <2> QED BY <1>1, <2>2, ChanUpdates
<1>20. c.cid = s.cid + 1
  BY DEF Chan
<1>3. Consistent(c) /\ Heard(c, "nothing")
  BY DEF Chan, Consistent, Heard, Unheard, Owes
<1>4. t = [s EXCEPT !.cid = @ + 1, !.chans = new]
  BY DEF Add
<1> HIDE DEF c
<1>5. /\ new \in Seq(Chan) /\ Len(new) = Len(s.chans) + 1
      /\ \A i \in 1..Len(s.chans) : new[i] = s.chans[i]
      /\ new[Len(s.chans) + 1] = c
  BY <1>1, <1>2, AppendProperties
<1> HIDE DEF new, t
<1>6. t \in Device
  <2>1. s.cid + 1 \in Nat
    BY <1>1
  <2> QED BY <1>4, <1>5, <2>1 DEF Device
<1>7. /\ t.chans = new /\ t.out = s.out /\ t.sig = s.sig /\ t.busy = s.busy
      /\ t.cid = s.cid + 1 /\ t.told = s.told /\ t.acl = s.acl /\ t.feat = s.feat
  BY <1>4 DEF Device
<1>8. Members(t) = Members(s) \cup {c}
  <2>1. ASSUME NEW d \in Members(t) PROVE d \in Members(s) \cup {c}
    <3>1. PICK i \in 1..Len(s.chans) + 1 : d = new[i]
      BY <1>5, <1>7 DEF Members
    <3>2. i \in 1..Len(s.chans) \/ i = Len(s.chans) + 1
      BY <1>1
    <3> QED BY <1>5, <3>1, <3>2 DEF Members
  <2>2. ASSUME NEW d \in Members(s) PROVE d \in Members(t)
    BY <1>1, <1>5, <1>7 DEF Members
  <2>3. c \in Members(t)
    BY <1>1, <1>5, <1>7 DEF Members
  <2> QED BY <2>1, <2>2, <2>3
<1>9. Distinct(t)
  <2>1. SUFFICES ASSUME NEW i \in 1..Len(s.chans) + 1, NEW j \in 1..Len(s.chans) + 1,
                        new[i].cid = new[j].cid
                 PROVE  i = j
    BY <1>5, <1>7 DEF Distinct
  <2>2. \A k \in 1..Len(s.chans) : new[k].cid # s.cid + 1
    <3>1. SUFFICES ASSUME NEW k \in 1..Len(s.chans) PROVE new[k].cid # s.cid + 1
      OBVIOUS
    <3>2. s.chans[k].cid \in 1..s.cid /\ new[k] = s.chans[k]
      BY <1>5 DEF Local, Members
    <3> QED BY <1>1, <3>2
  <2>3. (i \in 1..Len(s.chans) \/ i = Len(s.chans) + 1) /\ (j \in 1..Len(s.chans) \/ j = Len(s.chans) + 1)
    BY <1>1
  <2>4. CASE i \in 1..Len(s.chans) /\ j \in 1..Len(s.chans)
    BY <1>5, <2>1, <2>4 DEF Local, Distinct
  <2>5. CASE i \in 1..Len(s.chans) /\ j = Len(s.chans) + 1
    BY <1>20, <1>5, <2>1, <2>2, <2>5
  <2>6. CASE i = Len(s.chans) + 1 /\ j \in 1..Len(s.chans)
    BY <1>20, <1>5, <2>1, <2>2, <2>6
  <2> QED BY <2>3, <2>4, <2>5, <2>6
<1>10. Has(t, t.cid) /\ Channel(t, t.cid) = c
  <2>1. Has(t, t.cid)
    BY <1>20, <1>6, <1>7, <1>8, HasMember
  <2>2. Channel(t, t.cid) \in Members(t) /\ Channel(t, t.cid).cid = s.cid + 1
    BY <1>6, <1>7, <2>1, ChannelFacts
  <2>3. \A d \in Members(s) : d.cid # s.cid + 1
    BY <1>1 DEF Local
  <2> QED BY <1>8, <2>1, <2>2, <2>3
<1>11. Len(t.chans) <= Pool
  BY <1>1, <1>5, <1>7, BoundsAssumption
<1>12. \A d \in Members(t) : d.cid \in 1..t.cid /\ Consistent(d)
  BY <1>1, <1>20, <1>3, <1>7, <1>8 DEF Local
<1>13. \A d \in Members(t) : d.cid \in Cids => Heard(d, t.told[d.cid])
  <2>1. c.cid \in Cids => s.told[c.cid] = "nothing"
    BY <1>1, <1>20 DEF Local
  <2> QED BY <1>3, <1>7, <1>8, <2>1 DEF Local
<1>14. \A x \in Cids : t.told[x] # "wrong" /\ (x > t.cid => t.told[x] = "nothing")
  BY <1>1, <1>7, CidsAreNumbers DEF Local
<1>15. Local(t)
  BY <1>9, <1>11, <1>12, <1>13, <1>14 DEF Local
<1> QED BY <1>6, <1>7, <1>8, <1>10, <1>15 DEF Added, c, t

----------------------------------------------------------------------------
(* Commands of a code on their way                                         *)

On(out, code) == {out[k] : k \in {j \in 1..Len(out) : out[j].code = code}}
Oks(out) == {m \in On(out, "CONNECTION_RESPONSE") : m.what = "ok"}

(* At most one connection request asks for a channel.                      *)
Sole(out) ==
  \A j, k \in 1..Len(out) :
    out[j].code = "CONNECTION_REQUEST" /\ out[k].code = "CONNECTION_REQUEST"
      /\ out[j].src = out[k].src => j = k

(* The commands on their way after one was sent.                           *)
LEMMA OnOfAppend ==
  ASSUME NEW out \in Seq(Message), NEW m \in Message
  PROVE  /\ \A code : On(Append(out, m), code) =
                        On(out, code) \cup (IF m.code = code THEN {m} ELSE {})
         /\ Sole(out) /\ (m.code = "CONNECTION_REQUEST" =>
                            \A r \in On(out, "CONNECTION_REQUEST") : r.src # m.src) =>
              Sole(Append(out, m))
<1> DEFINE new == Append(out, m)
           n == Len(out)
<1>1. n \in Nat /\ new \in Seq(Message) /\ Len(new) = n + 1 /\ new[n + 1] = m
  BY AppendProperties, LenProperties
<1>2. \A i \in 1..n : new[i] = out[i]
  BY AppendProperties
<1>3. \A i \in 1..n + 1 : i \in 1..n \/ i = n + 1
  BY <1>1
<1> HIDE DEF new, n
<1>4. ASSUME NEW code
      PROVE  On(new, code) = On(out, code) \cup (IF m.code = code THEN {m} ELSE {})
  <2>1. ASSUME NEW r \in On(new, code)
        PROVE  r \in On(out, code) \cup (IF m.code = code THEN {m} ELSE {})
    <3>1. PICK k \in 1..n + 1 : new[k].code = code /\ new[k] = r
      BY <1>1 DEF On
    <3> QED BY <1>1, <1>2, <1>3, <3>1 DEF On, n
  <2>2. ASSUME NEW r \in On(out, code) PROVE r \in On(new, code)
    <3>1. PICK k \in 1..n : out[k].code = code /\ out[k] = r
      BY DEF On, n
    <3>2. k \in 1..Len(new)
      BY <1>1
    <3> QED BY <1>2, <3>1, <3>2 DEF On
  <2>3. ASSUME m.code = code PROVE m \in On(new, code)
    <3>1. n + 1 \in 1..Len(new)
      BY <1>1
    <3> QED BY <1>1, <2>3, <3>1 DEF On
  <2> QED BY <2>1, <2>2, <2>3
<1>5. ASSUME Sole(out), m.code = "CONNECTION_REQUEST" =>
                          \A r \in On(out, "CONNECTION_REQUEST") : r.src # m.src
      PROVE  Sole(new)
  <2>1. SUFFICES ASSUME NEW j \in 1..n + 1, NEW k \in 1..n + 1,
                        new[j].code = "CONNECTION_REQUEST", new[k].code = "CONNECTION_REQUEST",
                        new[j].src = new[k].src
                 PROVE  j = k
    BY <1>1 DEF Sole
  <2>2. \A i \in 1..n : out[i].code = "CONNECTION_REQUEST" => out[i] \in On(out, "CONNECTION_REQUEST")
    BY DEF On, n
  <2> QED BY <1>1, <1>2, <1>3, <1>5, <2>1, <2>2 DEF Sole, n
<1> QED BY <1>4, <1>5 DEF new

(* The commands on their way after the first arrived.                      *)
LEMMA OnOfTail ==
  ASSUME NEW out \in Seq(Message), out # <<>>
  PROVE  /\ \A code : On(Tail(out), code) \subseteq On(out, code)
         /\ Head(out) \in On(out, Head(out).code)
         /\ Sole(out) =>
              /\ Sole(Tail(out))
              /\ Head(out).code = "CONNECTION_REQUEST" =>
                   \A r \in On(Tail(out), "CONNECTION_REQUEST") : r.src # Head(out).src
<1> DEFINE new == Tail(out)
           n == Len(out)
           m == Head(out)
<1>1. n \in Nat \ {0} /\ new \in Seq(Message) /\ Len(new) = n - 1 /\ m = out[1]
  BY HeadTailProperties, LenProperties, EmptySeq
<1>2. \A i \in 1..n - 1 : new[i] = out[i + 1]
  BY HeadTailProperties
<1> HIDE DEF new, n, m
<1>3. \A i \in 1..n - 1 : i + 1 \in 1..n /\ i + 1 # 1
  BY <1>1
<1>4. ASSUME NEW code, NEW r \in On(new, code)
      PROVE  \E k \in 1..n : k # 1 /\ out[k].code = code /\ out[k] = r
  <2>1. PICK i \in 1..n - 1 : new[i].code = code /\ new[i] = r
    BY <1>1 DEF On
  <2> QED BY <1>2, <1>3, <2>1
<1>5. \A code : On(new, code) \subseteq On(out, code)
  BY <1>4 DEF On, n
<1>6. 1 \in 1..n
  BY <1>1
<1>7. m \in On(out, m.code)
  BY <1>1, <1>6 DEF On, n
<1>8. ASSUME Sole(out) PROVE Sole(new)
  <2>1. SUFFICES ASSUME NEW j \in 1..n - 1, NEW k \in 1..n - 1,
                        new[j].code = "CONNECTION_REQUEST", new[k].code = "CONNECTION_REQUEST",
                        new[j].src = new[k].src
                 PROVE  j = k
    BY <1>1 DEF Sole
  <2>2. j + 1 = k + 1
    BY <1>2, <1>3, <1>8, <2>1 DEF Sole, n
  <2> QED BY <2>2
<1>9. Sole(out) /\ m.code = "CONNECTION_REQUEST" =>
        \A r \in On(new, "CONNECTION_REQUEST") : r.src # m.src
  BY <1>1, <1>4, <1>6 DEF Sole, n
<1> QED BY <1>5, <1>7, <1>8, <1>9 DEF new, m

----------------------------------------------------------------------------
(* Channels that belong together.  A channel of s and one of q do once q   *)
(* has an entry for the connection request of s, or s for that of q.       *)

(* What is seen at s of channel x of s and channel y of its peer belonging *)
(* together, and what is seen at both.                                     *)
Half(s, x, y) ==
  \/ \E c \in Members(s) : c.rcid # 0 /\ c.cid = x /\ c.rcid = y
  \/ \E m \in Oks(s.out) : m.dst = x /\ m.src = y
Mate(s, q, x, y) == Half(s, x, y) \/ Half(q, y, x)

(* An outgoing channel that has not sent its connection request; one that  *)
(* has no configure request of its own to wait for; one that waits.        *)
Unasked(c) == ~c.incoming /\ c.state \in Early \ {"WAIT_CONNECT_RSP"}
Rests(c) == c.state \in Early \/ (c.state = "CONFIG" /\ c.confReq) \/ c.rcvdRsp
Waits(c) == c.state = "CONFIG" /\ ~c.confReq /\ ~c.rcvdRsp

(* A channel knows its peer as soon as it can.                             *)
Fixed(c) ==
  /\ c.incoming => c.rcid > 0
  /\ ~c.incoming /\ c.state \in Early => c.rcid = 0
  /\ c.state \in {"CONFIG", "OPEN"} => c.rcid > 0
  /\ c.state = "OPEN" => c.rcvdRsp
  /\ c.sentRsp => c.rcid > 0

(* No configure request for channel y of q is under way, or unanswered.    *)
Unsent(out, y) == \A m \in On(out, "CONFIGURE_REQUEST") : m.dst # y
Spared(s, q, y) == Unsent(s.out, y) /\ \A d \in Members(q) : Owes(d) => d.cid # y

(* Channel x of s and channel y of q can belong together.                  *)
Met(s, q, x, y) ==
  /\ \A m \in On(s.out, "CONNECTION_REQUEST") : m.src # x
  /\ \A c \in Members(s) : c.cid = x => ~Unasked(c) /\ (Rests(c) => Spared(s, q, y))
Joins(s, q, x, y) ==
  /\ \A v, w : Mate(s, q, v, w) => (x = v <=> y = w)
  /\ Met(s, q, x, y) /\ Met(q, s, y, x)

(* s may have asked for a connection of its channel x.                     *)
Asks(s, q, x) ==
  /\ x \in 1..s.cid /\ Unsent(q.out, x) /\ \A c \in Members(s) : c.cid = x => ~Unasked(c)

(* The connection request of c and the answer to it have an identifier of  *)
(* their own.                                                              *)
Owns(s, q, c) ==
  /\ \A m \in On(s.out, "CONNECTION_REQUEST") \cup Oks(q.out) : m.id = c.lsig => m.src = c.cid
  /\ \A d \in Members(q) : Considered(d) /\ d.rsig = c.lsig => d.rcid = c.cid

(* The channel that c sends to has accepted its configuration.             *)
Accepted(q, c) == \A d \in Members(q) : d.cid = c.rcid => d.sentRsp

(* So have the configure request of c and its answer, and they are for and *)
(* from the channel that c sends to.                                       *)
Expects(s, q, c) ==
  /\ \A m \in On(s.out, "CONFIGURE_REQUEST") : m.dst = c.rcid <=> m.id = c.lsig
  /\ \A d \in Members(q) : Owes(d) => (d.cid = c.rcid <=> d.rsig = c.lsig)
  /\ \A m \in On(q.out, "CONFIGURE_RESPONSE") : m.id = c.lsig /\ m.what = "ok" => Accepted(q, c)

(* Channels that belong together can, and what is under way between s and  *)
(* q is about them.                                                        *)
Paired(s, q) ==
  /\ \A x, y : Mate(s, q, x, y) => x \in 1..s.cid /\ y \in 1..q.cid /\ Joins(s, q, x, y)
  /\ Sole(s.out)
  /\ \A m \in On(s.out, "CONNECTION_REQUEST") : Asks(s, q, m.src)
  /\ \A m \in On(s.out, "CONFIGURE_REQUEST") : m.dst \in 1..q.cid
  /\ \A c \in Members(s) :
       /\ Fixed(c)
       /\ Unasked(c) => Unsent(q.out, c.cid)
       /\ c.state = "WAIT_CONNECT_RSP" => Owns(s, q, c)
       /\ Waits(c) => Expects(s, q, c)
       /\ c.rcvdRsp => Accepted(q, c)

(* What holds of two devices holds for both.                               *)
LEMMA MateIsMutual ==
  ASSUME NEW s, NEW q, NEW x, NEW y
  PROVE  /\ Mate(s, q, x, y) <=> Mate(q, s, y, x)
         /\ Joins(s, q, x, y) => Joins(q, s, y, x)
BY DEF Mate, Joins

(* d is c later, and nothing that binds it has come to it.                 *)
Like(c, d) ==
  /\ d.cid = c.cid /\ d.rcid = c.rcid /\ Fixed(d)
  /\ Unasked(d) => Unasked(c)
  /\ d.state = "WAIT_CONNECT_RSP" => c.state = "WAIT_CONNECT_RSP" /\ d.lsig = c.lsig
  /\ Considered(d) => Considered(c) /\ d.rsig = c.rsig
  /\ Owes(d) => Owes(c) /\ d.rsig = c.rsig
  /\ Rests(d) => Rests(c)
  /\ Waits(d) => Waits(c) /\ d.lsig = c.lsig
  /\ d.rcvdRsp => c.rcvdRsp
  /\ c.sentRsp => d.sentRsp

(* t is s with fewer channels or commands.                                 *)
Fewer(s, t) ==
  /\ t.cid = s.cid
  /\ \A d \in Members(t) : \E c \in Members(s) : Like(c, d)
  /\ \A code : On(t.out, code) \subseteq On(s.out, code)
  /\ Sole(s.out) => Sole(t.out)

(* No two channels belong together that did not.                           *)
LEMMA FewerHalf ==
  ASSUME NEW s, NEW t, Fewer(s, t), NEW x, NEW y, Half(t, x, y)
  PROVE  Half(s, x, y)
<1>1. Oks(t.out) \subseteq Oks(s.out)
  BY DEF Fewer, Oks
<1> QED BY <1>1 DEF Half, Fewer, Like

(* No request is under way that was not.                                   *)
LEMMA FewerSpared ==
  ASSUME NEW s, NEW t, Fewer(s, t), NEW q, NEW r, Fewer(q, r), NEW y, Spared(s, q, y)
  PROVE  Spared(t, r, y)
<1>1. Unsent(t.out, y)
  BY DEF Spared, Unsent, Fewer
<1>2. \A d \in Members(r) : Owes(d) => d.cid # y
  BY DEF Spared, Fewer, Like
<1> QED BY <1>1, <1>2 DEF Spared

(* Channels that could belong together still can.                          *)
LEMMA FewerMet ==
  ASSUME NEW s, NEW t, Fewer(s, t), NEW q, NEW r, Fewer(q, r), NEW x, NEW y, Met(s, q, x, y)
  PROVE  Met(t, r, x, y)
<1>1. \A m \in On(t.out, "CONNECTION_REQUEST") : m.src # x
  BY DEF Met, Fewer
<1>2. Spared(s, q, y) => Spared(t, r, y)
  BY FewerSpared
<1>3. \A c \in Members(t) : c.cid = x => ~Unasked(c) /\ (Rests(c) => Spared(t, r, y))
  BY <1>2 DEF Met, Fewer, Like
<1> QED BY <1>1, <1>3 DEF Met

(* They do, as no others do.                                               *)
LEMMA FewerJoins ==
  ASSUME NEW s, NEW t, Fewer(s, t), NEW q, NEW r, Fewer(q, r), NEW x, NEW y,
         Joins(s, q, x, y)
  PROVE  Joins(t, r, x, y)
<1>1. \A v, w : Mate(t, r, v, w) => Mate(s, q, v, w)
  BY FewerHalf DEF Mate
<1>2. Met(t, r, x, y) /\ Met(r, t, y, x)
  BY FewerMet DEF Joins
<1> QED BY <1>1, <1>2 DEF Joins

(* With less of everything the invariant holds.                            *)
LEMMA FewerPaired ==
  ASSUME NEW s, NEW t, Fewer(s, t), NEW q, NEW r, Fewer(q, r), Paired(s, q)
  PROVE  Paired(t, r)
<1>1. ASSUME NEW x, NEW y, Mate(t, r, x, y)
      PROVE  x \in 1..t.cid /\ y \in 1..r.cid /\ Joins(t, r, x, y)
  <2>1. Mate(s, q, x, y)
    BY <1>1, FewerHalf DEF Mate
  <2>2. x \in 1..s.cid /\ y \in 1..q.cid /\ Joins(s, q, x, y)
    BY <2>1 DEF Paired
  <2> QED BY <2>2, FewerJoins DEF Fewer
<1>2. \A y : Unsent(q.out, y) => Unsent(r.out, y)
  BY DEF Unsent, Fewer
<1>3. \A x : Asks(s, q, x) => Asks(t, r, x)
  BY <1>2 DEF Asks, Fewer, Like
<1>4. Sole(t.out) /\ \A m \in On(t.out, "CONNECTION_REQUEST") : Asks(t, r, m.src)
  BY <1>3 DEF Paired, Fewer
<1>5. \A m \in On(t.out, "CONFIGURE_REQUEST") : m.dst \in 1..r.cid
  BY DEF Paired, Fewer
<1>6. Oks(r.out) \subseteq Oks(q.out)
  BY DEF Fewer, Oks
<1>7. ASSUME NEW d \in Members(t)
      PROVE  /\ Fixed(d)
             /\ Unasked(d) => Unsent(r.out, d.cid)
             /\ d.state = "WAIT_CONNECT_RSP" => Owns(t, r, d)
             /\ Waits(d) => Expects(t, r, d)
             /\ d.rcvdRsp => Accepted(r, d)
  <2>1. PICK c \in Members(s) : Like(c, d)
    BY DEF Fewer
  <2>2. Fixed(d) /\ (Unasked(d) => Unsent(r.out, d.cid))
    BY <1>2, <2>1 DEF Like, Paired
  <2>3. Accepted(q, c) => Accepted(r, d)
    BY <2>1 DEF Accepted, Fewer, Like
  <2>4. ASSUME d.state = "WAIT_CONNECT_RSP" PROVE Owns(t, r, d)
    <3>1. Owns(s, q, c) /\ d.lsig = c.lsig /\ d.cid = c.cid
      BY <2>1, <2>4 DEF Like, Paired
    <3>2. \A m \in On(t.out, "CONNECTION_REQUEST") \cup Oks(r.out) :
            m \in On(s.out, "CONNECTION_REQUEST") \cup Oks(q.out)
      BY <1>6 DEF Fewer
    <3>3. \A e \in Members(r) : Considered(e) =>
            \E b \in Members(q) : Considered(b) /\ e.rsig = b.rsig /\ e.rcid = b.rcid
      BY DEF Fewer, Like
    <3> QED BY <3>1, <3>2, <3>3 DEF Owns
  <2>5. ASSUME Waits(d) PROVE Expects(t, r, d)
    <3>1. Expects(s, q, c) /\ d.lsig = c.lsig /\ d.rcid = c.rcid
      BY <2>1, <2>5 DEF Like, Paired
    <3>2. \A m \in On(t.out, "CONFIGURE_REQUEST") : m.dst = d.rcid <=> m.id = d.lsig
      BY <3>1 DEF Expects, Fewer
    <3>3. \A e \in Members(r) : Owes(e) =>
            \E b \in Members(q) : Owes(b) /\ e.rsig = b.rsig /\ e.cid = b.cid
      BY DEF Fewer, Like
    <3>4. \A e \in Members(r) : Owes(e) => (e.cid = d.rcid <=> e.rsig = d.lsig)
      BY <3>1, <3>3 DEF Expects
    <3>5. \A m \in On(r.out, "CONFIGURE_RESPONSE") :
            m.id = d.lsig /\ m.what = "ok" => Accepted(r, d)
      BY <2>3, <3>1 DEF Expects, Fewer
    <3> QED BY <3>2, <3>4, <3>5 DEF Expects
  <2>6. d.rcvdRsp => Accepted(r, d)
    BY <2>1, <2>3 DEF Like, Paired
  <2> QED BY <2>2, <2>4, <2>5, <2>6
<1> QED BY <1>1, <1>4, <1>5, <1>7 DEF Paired

(* Channel x has not been asked for.                                       *)
Unmet(s, q, x) ==
  /\ \A y : ~Mate(s, q, x, y)
  /\ Unsent(q.out, x)
  /\ \A m \in On(s.out, "CONNECTION_REQUEST") : m.src # x

(* c is one of the peer: it may have d for its channel.                    *)
Heeds(s, q, d, c) ==
  /\ Owes(d) /\ Rests(c) => ~Mate(s, q, d.cid, c.cid)
  /\ Owes(d) /\ Waits(c) => (d.cid = c.rcid <=> d.rsig = c.lsig)
  /\ c.rcid = d.cid /\ c.rcvdRsp => d.sentRsp
  /\ c.rcid = d.cid /\ Waits(c) =>
       \A m \in On(s.out, "CONFIGURE_RESPONSE") : m.id = c.lsig /\ m.what = "ok" => d.sentRsp

(* d may be a channel of s.                                                *)
Suits(s, q, d) ==
  /\ Fixed(d)
  /\ d.rcid # 0 => d.rcid \in 1..q.cid /\ Joins(s, q, d.cid, d.rcid)
  /\ Unasked(d) => Unmet(s, q, d.cid)
  /\ d.state = "WAIT_CONNECT_RSP" => Owns(s, q, d)
  /\ Considered(d) =>
       \A c \in Members(q) : c.state = "WAIT_CONNECT_RSP" /\ c.lsig = d.rsig => d.rcid = c.cid
  /\ Rests(d) => \A y : Mate(s, q, d.cid, y) \/ (d.rcid # 0 /\ y = d.rcid) => Spared(s, q, y)
  /\ Waits(d) => Expects(s, q, d)
  /\ d.rcvdRsp => Accepted(q, d)
  /\ Owes(d) => Mate(s, q, d.cid, d.rcid)
  /\ \A c \in Members(q) : Heeds(s, q, d, c)

(* t is s with d for the channel that had its identifier, if any.          *)
Swaps(s, t, d) ==
  /\ t.out = s.out /\ d.cid \in 1..t.cid /\ 1..s.cid \subseteq 1..t.cid
  /\ \A c \in Members(t) : c = d \/ (c \in Members(s) /\ c.cid # d.cid)

(* Channels belong together as before, or d and one of the peer do now.    *)
LEMMA SwapsMate ==
  ASSUME NEW s, NEW q, NEW t, NEW d, Swaps(s, t, d), NEW x, NEW y, Mate(t, q, x, y)
  PROVE  Mate(s, q, x, y) \/ (d.rcid # 0 /\ x = d.cid /\ y = d.rcid)
BY DEF Swaps, Mate, Half

(* They can.                                                               *)
LEMMA SwapsJoins ==
  ASSUME NEW s, NEW q, NEW t, NEW d, Swaps(s, t, d), Paired(s, q), Suits(s, q, d),
         NEW x, NEW y, Mate(t, q, x, y)
  PROVE  x \in 1..t.cid /\ y \in 1..q.cid /\ Joins(t, q, x, y)
<1>1. Mate(s, q, x, y) \/ (d.rcid # 0 /\ x = d.cid /\ y = d.rcid)
  BY SwapsMate
<1>2. x \in 1..t.cid /\ y \in 1..q.cid /\ Joins(s, q, x, y)
  BY <1>1 DEF Paired, Suits, Swaps
<1>3. ASSUME NEW v, NEW w, Mate(t, q, v, w) PROVE x = v <=> y = w
  <2>1. Mate(s, q, v, w) \/ (d.rcid # 0 /\ v = d.cid /\ w = d.rcid)
    BY <1>3, SwapsMate
  <2>2. CASE Mate(s, q, v, w)
    BY <1>2, <2>2 DEF Joins
  <2>3. CASE Mate(s, q, x, y) /\ d.rcid # 0 /\ v = d.cid /\ w = d.rcid
    BY <2>3 DEF Suits, Joins
  <2> QED BY <1>1, <2>1, <2>2, <2>3
<1>4. \A z : Spared(s, q, z) => Spared(t, q, z)
  BY DEF Spared, Swaps
<1>5. Met(t, q, x, y)
  <2>1. Met(s, q, x, y)
    BY <1>2 DEF Joins
  <2>2. ASSUME d.cid = x PROVE ~Unasked(d) /\ (Rests(d) => Spared(t, q, y))
    <3>1. ~Unasked(d)
      BY <1>1, <2>2 DEF Suits, Unmet, Fixed, Unasked
    <3>2. Rests(d) => Spared(s, q, y)
      BY <1>1, <2>2 DEF Suits
    <3> QED BY <1>4, <3>1, <3>2
  <2> QED BY <1>4, <2>1, <2>2 DEF Met, Swaps
<1>6. Met(q, t, y, x)
  <2>1. Met(q, s, y, x)
    BY <1>2 DEF Joins
  <2>2. ASSUME NEW c \in Members(q), c.cid = y, Rests(c) PROVE Spared(q, t, x)
    <3>1. Spared(q, s, x)
      BY <2>1, <2>2 DEF Met
    <3>2. ASSUME Owes(d), d.cid = x PROVE FALSE
      <4>1. Mate(s, q, x, y)
        BY <1>1, <3>2 DEF Suits
      <4> QED BY <2>2, <3>2, <4>1 DEF Suits, Heeds
    <3> QED BY <3>1, <3>2 DEF Spared, Swaps
  <2> QED BY <2>1, <2>2 DEF Met
<1> QED BY <1>2, <1>3, <1>5, <1>6 DEF Joins

(* A channel changes or comes.                                             *)
LEMMA SwapsPaired ==
  ASSUME NEW s, NEW q, NEW t, NEW d, Swaps(s, t, d), Paired(s, q), Paired(q, s), Suits(s, q, d)
  PROVE  Paired(t, q) /\ Paired(q, t)
<1>1. \A x, y : Mate(t, q, x, y) => x \in 1..t.cid /\ y \in 1..q.cid /\ Joins(t, q, x, y)
  BY SwapsJoins
<1>2. \A x, y : Mate(q, t, x, y) => x \in 1..q.cid /\ y \in 1..t.cid /\ Joins(q, t, x, y)
  BY <1>1, MateIsMutual
<1>3. Paired(t, q)
  <2>1. Sole(t.out) /\ \A m \in On(t.out, "CONFIGURE_REQUEST") : m.dst \in 1..q.cid
    BY DEF Swaps, Paired
  <2>2. ASSUME NEW m \in On(t.out, "CONNECTION_REQUEST") PROVE Asks(t, q, m.src)
    <3>1. Asks(s, q, m.src) /\ m \in On(s.out, "CONNECTION_REQUEST")
      BY <2>2 DEF Swaps, Paired
    <3>2. d.cid = m.src => ~Unasked(d)
      BY <3>1 DEF Suits, Unmet
    <3> QED BY <3>1, <3>2 DEF Asks, Swaps
  <2>3. ASSUME NEW c \in Members(t)
        PROVE  /\ Fixed(c)
               /\ Unasked(c) => Unsent(q.out, c.cid)
               /\ c.state = "WAIT_CONNECT_RSP" => Owns(t, q, c)
               /\ Waits(c) => Expects(t, q, c)
               /\ c.rcvdRsp => Accepted(q, c)
    <3>1. \A e : /\ Owns(s, q, e) => Owns(t, q, e)
                 /\ Expects(s, q, e) => Expects(t, q, e)
      BY DEF Swaps, Owns, Expects
    <3>2. CASE c = d
      BY <3>1, <3>2 DEF Suits, Unmet
    <3>3. CASE c \in Members(s)
      BY <3>1, <3>3 DEF Paired
    <3> QED BY <3>2, <3>3 DEF Swaps
  <2> QED BY <1>1, <2>1, <2>2, <2>3 DEF Paired
<1>4. Paired(q, t)
  <2>1. /\ Sole(q.out) /\ \A m \in On(q.out, "CONFIGURE_REQUEST") : m.dst \in 1..t.cid
        /\ \A m \in On(q.out, "CONNECTION_REQUEST") : Asks(q, t, m.src)
    BY DEF Swaps, Paired, Asks
  <2>2. ASSUME NEW c \in Members(q)
        PROVE  /\ Fixed(c)
               /\ Unasked(c) => Unsent(t.out, c.cid)
               /\ c.state = "WAIT_CONNECT_RSP" => Owns(q, t, c)
               /\ Waits(c) => Expects(q, t, c)
               /\ c.rcvdRsp => Accepted(t, c)
    <3>1. Fixed(c) /\ (Unasked(c) => Unsent(t.out, c.cid))
      BY DEF Paired, Swaps
    <3>2. ASSUME c.state = "WAIT_CONNECT_RSP" PROVE Owns(q, t, c)
      <4>1. Owns(q, s, c)
        BY <3>2 DEF Paired
      <4>2. Considered(d) /\ d.rsig = c.lsig => d.rcid = c.cid
        BY <3>2 DEF Suits
      <4> QED BY <4>1, <4>2 DEF Owns, Swaps
    <3>3. Heeds(s, q, d, c)
      BY DEF Suits
    <3>4. ASSUME Waits(c) PROVE Expects(q, t, c)
      <4>1. Expects(q, s, c)
        BY <3>4 DEF Paired
      <4>2. ASSUME NEW m \in On(t.out, "CONFIGURE_RESPONSE"), m.id = c.lsig, m.what = "ok"
            PROVE  Accepted(t, c)
        <5>1. Accepted(s, c) /\ (d.cid = c.rcid => d.sentRsp)
          BY <3>3, <3>4, <4>1, <4>2 DEF Expects, Heeds, Swaps
        <5> QED BY <5>1 DEF Accepted, Swaps
      <4>3. \A e \in Members(t) : Owes(e) => (e.cid = c.rcid <=> e.rsig = c.lsig)
        BY <3>3, <3>4, <4>1 DEF Expects, Heeds, Swaps
      <4>4. \A m \in On(q.out, "CONFIGURE_REQUEST") : m.dst = c.rcid <=> m.id = c.lsig
        BY <4>1 DEF Expects
      <4> QED BY <4>2, <4>3, <4>4 DEF Expects
    <3>5. ASSUME c.rcvdRsp PROVE Accepted(t, c)
      <4>1. Accepted(s, c) /\ (d.cid = c.rcid => d.sentRsp)
        BY <3>3, <3>5 DEF Paired, Heeds
      <4> QED BY <4>1 DEF Accepted, Swaps
    <3> QED BY <3>1, <3>2, <3>4, <3>5
  <2> QED BY <1>2, <2>1, <2>2 DEF Paired
<1> QED BY <1>3, <1>4

(* A channel that is as before suits.                                      *)
LEMMA LikeSuits ==
  ASSUME NEW s, NEW q, Paired(s, q), Paired(q, s), NEW c \in Members(s), NEW d, Like(c, d)
  PROVE  Suits(s, q, d)
<1>1. d.rcid # 0 => Mate(s, q, d.cid, d.rcid)
  BY DEF Like, Mate, Half
<1>2. d.rcid # 0 => d.rcid \in 1..q.cid /\ Joins(s, q, d.cid, d.rcid)
  BY <1>1 DEF Paired
<1>3. ASSUME Unasked(d) PROVE Unmet(s, q, d.cid)
  <2>1. Unasked(c) /\ c.cid = d.cid
    BY <1>3 DEF Like
  <2>2. ASSUME NEW y, Mate(s, q, c.cid, y) PROVE FALSE
    <3>1. Met(s, q, c.cid, y)
      BY <2>2 DEF Paired, Joins
    <3> QED BY <2>1, <3>1 DEF Met
  <2>3. \A m \in On(s.out, "CONNECTION_REQUEST") : m.src # c.cid
    BY <2>1 DEF Paired, Asks
  <2>4. Unsent(q.out, c.cid)
    BY <2>1 DEF Paired
  <2> QED BY <2>1, <2>2, <2>3, <2>4 DEF Unmet
<1>4. ASSUME d.state = "WAIT_CONNECT_RSP" PROVE Owns(s, q, d)
  <2>1. Owns(s, q, c)
    BY <1>4 DEF Like, Paired
  <2> QED BY <1>4, <2>1 DEF Owns, Like
<1>5. ASSUME Considered(d), NEW e \in Members(q), e.state = "WAIT_CONNECT_RSP", e.lsig = d.rsig
      PROVE  d.rcid = e.cid
  <2>1. Owns(q, s, e)
    BY <1>5 DEF Paired
  <2> QED BY <1>5, <2>1 DEF Owns, Like
<1>6. ASSUME Rests(d), NEW y, Mate(s, q, d.cid, y) \/ (d.rcid # 0 /\ y = d.rcid)
      PROVE  Spared(s, q, y)
  <2>1. Met(s, q, c.cid, y)
    BY <1>1, <1>6 DEF Like, Paired, Joins
  <2> QED BY <1>6, <2>1 DEF Like, Met
<1>7. ASSUME Waits(d) PROVE Expects(s, q, d)
  <2>1. Expects(s, q, c)
    BY <1>7 DEF Like, Paired
  <2>2. Accepted(q, c) => Accepted(q, d)
    BY DEF Like, Accepted
  <2> QED BY <1>7, <2>1, <2>2 DEF Like, Expects
<1>8. d.rcvdRsp => Accepted(q, d)
  BY DEF Like, Paired, Accepted
<1>9. Owes(d) => Mate(s, q, d.cid, d.rcid)
  <2>1. Owes(d) => d.rcid # 0
    BY DEF Owes, Like, Fixed
  <2> QED BY <1>1, <2>1
<1>10. ASSUME NEW e \in Members(q) PROVE Heeds(s, q, d, e)
  <2>1. ASSUME Owes(d), Rests(e), Mate(s, q, d.cid, e.cid) PROVE FALSE
    <3>1. Met(q, s, e.cid, d.cid)
      BY <2>1 DEF Paired, Joins
    <3> QED BY <2>1, <3>1 DEF Met, Spared, Like
  <2>2. ASSUME Owes(d), Waits(e) PROVE d.cid = e.rcid <=> d.rsig = e.lsig
    <3>1. Expects(q, s, e)
      BY <2>2 DEF Paired
    <3> QED BY <2>2, <3>1 DEF Expects, Like
  <2>3. ASSUME e.rcid = d.cid, e.rcvdRsp PROVE d.sentRsp
    <3>1. Accepted(s, e)
      BY <2>3 DEF Paired
    <3> QED BY <2>3, <3>1 DEF Accepted, Like
  <2>4. ASSUME e.rcid = d.cid, Waits(e), NEW m \in On(s.out, "CONFIGURE_RESPONSE"), m.id = e.lsig,
               m.what = "ok"
        PROVE  d.sentRsp
    <3>1. Accepted(s, e)
      BY <2>4 DEF Paired, Expects
    <3> QED BY <2>4, <3>1 DEF Accepted, Like
  <2> QED BY <2>1, <2>2, <2>3, <2>4 DEF Heeds
<1>11. Fixed(d)
  BY DEF Like
<1> QED BY <1>2, <1>3, <1>4, <1>5, <1>6, <1>7, <1>8, <1>9, <1>10, <1>11 DEF Suits

(* m may be sent by s.                                                     *)
Sends(s, q, m) ==
  /\ m.code = "CONNECTION_REQUEST" =>
       /\ Unmet(s, q, m.src) /\ Asks(s, q, m.src)
       /\ \A c \in Members(s) : c.state = "WAIT_CONNECT_RSP" /\ c.lsig = m.id => m.src = c.cid
  /\ m.code = "CONNECTION_RESPONSE" /\ m.what = "ok" =>
       /\ Mate(s, q, m.dst, m.src)
       /\ \A c \in Members(q) : c.state = "WAIT_CONNECT_RSP" /\ c.lsig = m.id => m.src = c.cid
  /\ m.code = "CONFIGURE_REQUEST" =>
       \E c \in Members(s) :
         /\ c.rcid = m.dst /\ Waits(c) /\ c.lsig = m.id
         /\ \A d \in Members(s) : d.cid = c.cid \/ (Waits(d) /\ d.lsig = m.id) => d = c
  /\ m.code = "CONFIGURE_RESPONSE" /\ m.what = "ok" =>
       \A c \in Members(q) : Waits(c) /\ c.lsig = m.id => Accepted(s, c)

(* t is s with m sent.                                                     *)
Extends(s, t, m) ==
  /\ t.cid = s.cid /\ Members(t) = Members(s)
  /\ \A code : On(t.out, code) = On(s.out, code) \cup (IF m.code = code THEN {m} ELSE {})
  /\ Sole(s.out) /\ (m.code = "CONNECTION_REQUEST" =>
                       \A r \in On(s.out, "CONNECTION_REQUEST") : r.src # m.src) => Sole(t.out)

(* The channel that a configure request is for belongs to its sender.      *)
LEMMA SendsMate ==
  ASSUME NEW s, NEW q, NEW m, Paired(s, q), Sends(s, q, m), m.code = "CONFIGURE_REQUEST"
  PROVE  \E c \in Members(s) :
           /\ c.rcid = m.dst /\ Waits(c) /\ c.lsig = m.id /\ Mate(s, q, c.cid, m.dst)
           /\ \A d \in Members(s) : d.cid = c.cid \/ (Waits(d) /\ d.lsig = m.id) => d = c
<1>1. PICK c \in Members(s) :
        /\ c.rcid = m.dst /\ Waits(c) /\ c.lsig = m.id
        /\ \A d \in Members(s) : d.cid = c.cid \/ (Waits(d) /\ d.lsig = m.id) => d = c
  BY DEF Sends
<1>2. c.rcid # 0
  BY <1>1 DEF Paired, Fixed, Waits
<1>3. Mate(s, q, c.cid, m.dst)
  BY <1>1, <1>2 DEF Mate, Half
<1> QED BY <1>1, <1>3

(* Channels belong together as before.                                     *)
LEMMA SendsJoins ==
  ASSUME NEW s, NEW q, NEW t, NEW m, Extends(s, t, m), Paired(s, q), Sends(s, q, m),
         NEW x, NEW y, Mate(t, q, x, y)
  PROVE  x \in 1..t.cid /\ y \in 1..q.cid /\ Joins(t, q, x, y)
<1>1. \A v, w : Mate(t, q, v, w) => Mate(s, q, v, w)
  <2>1. \A r \in Oks(t.out) : r \in Oks(s.out) \/ (r = m /\ Mate(s, q, r.dst, r.src))
    BY DEF Oks, Extends, Sends
  <2> QED BY <2>1 DEF Mate, Half, Extends
<1>2. Mate(s, q, x, y) /\ x \in 1..t.cid /\ y \in 1..q.cid /\ Joins(s, q, x, y)
  BY <1>1 DEF Paired, Extends
<1>3. Met(t, q, x, y)
  <2>1. \A r \in On(t.out, "CONNECTION_REQUEST") : r.src # x
    BY <1>2 DEF Extends, Joins, Met, Sends, Unmet
  <2>2. ASSUME NEW c \in Members(t), c.cid = x PROVE ~Unasked(c)
    BY <1>2, <2>2 DEF Extends, Joins, Met
  <2>3. ASSUME NEW c \in Members(t), c.cid = x, Rests(c) PROVE Spared(t, q, y)
    <3>1. Spared(s, q, y)
      BY <1>2, <2>3 DEF Extends, Joins, Met
    <3>2. ASSUME m.code = "CONFIGURE_REQUEST", m.dst = y PROVE FALSE
      <4>1. PICK b \in Members(s) :
              /\ Waits(b) /\ Mate(s, q, b.cid, m.dst)
              /\ \A d \in Members(s) : d.cid = b.cid => d = b
        BY <3>2, SendsMate
      <4>2. b.cid = x
        BY <1>2, <3>2, <4>1 DEF Joins
      <4>3. c = b
        BY <2>3, <4>1, <4>2 DEF Extends
      <4> QED BY <2>3, <4>1, <4>3 DEF Rests, Waits, Early, Asking, Asked
    <3> QED BY <3>1, <3>2 DEF Spared, Unsent, Extends
  <2> QED BY <2>1, <2>2, <2>3 DEF Met
<1>4. Met(q, t, y, x)
  BY <1>2 DEF Joins, Met, Spared, Extends
<1> QED BY <1>1, <1>2, <1>3, <1>4 DEF Joins

(* A command is sent.                                                      *)
LEMMA SendsPaired ==
  ASSUME NEW s, NEW q, NEW t, NEW m, Extends(s, t, m), Paired(s, q), Paired(q, s),
         Sends(s, q, m)
  PROVE  Paired(t, q) /\ Paired(q, t)
<1>1. \A x, y : Mate(t, q, x, y) => x \in 1..t.cid /\ y \in 1..q.cid /\ Joins(t, q, x, y)
  BY SendsJoins
<1>2. \A x, y : Mate(q, t, x, y) => x \in 1..q.cid /\ y \in 1..t.cid /\ Joins(q, t, x, y)
  BY <1>1, MateIsMutual
<1>3. Paired(t, q)
  <2>1. Sole(t.out)
    BY DEF Extends, Paired, Sends, Unmet
  <2>2. \A r \in On(t.out, "CONNECTION_REQUEST") : Asks(t, q, r.src)
    BY DEF Extends, Paired, Sends, Asks
  <2>3. \A r \in On(t.out, "CONFIGURE_REQUEST") : r.dst \in 1..q.cid
    <3>1. m.code = "CONFIGURE_REQUEST" => m.dst \in 1..q.cid
      BY SendsMate DEF Paired
    <3> QED BY <3>1 DEF Extends, Paired
  <2>4. ASSUME NEW c \in Members(t), c.state = "WAIT_CONNECT_RSP" PROVE Owns(t, q, c)
    <3>1. Owns(s, q, c)
      BY <2>4 DEF Paired, Extends
    <3> QED BY <2>4, <3>1 DEF Owns, Extends, Sends
  <2>5. ASSUME NEW c \in Members(t), Waits(c) PROVE Expects(t, q, c)
    <3>1. Expects(s, q, c) /\ c \in Members(s)
      BY <2>5 DEF Paired, Extends
    <3>2. m.code = "CONFIGURE_REQUEST" => (m.dst = c.rcid <=> m.id = c.lsig)
      <4>1. SUFFICES ASSUME m.code = "CONFIGURE_REQUEST" PROVE m.dst = c.rcid <=> m.id = c.lsig
        OBVIOUS
      <4>2. PICK b \in Members(s) :
              /\ b.rcid = m.dst /\ b.lsig = m.id /\ Mate(s, q, b.cid, m.dst)
              /\ \A d \in Members(s) : d.cid = b.cid \/ (Waits(d) /\ d.lsig = m.id) => d = b
        BY <4>1, SendsMate
      <4>3. m.id = c.lsig => c = b
        BY <2>5, <3>1, <4>2
      <4>4. ASSUME m.dst = c.rcid PROVE c = b
        <5>1. c.rcid # 0
          BY <2>5, <3>1 DEF Paired, Fixed, Waits
        <5>2. Mate(s, q, c.cid, m.dst)
          BY <3>1, <4>4, <5>1 DEF Mate, Half
        <5>3. c.cid = b.cid
          BY <4>2, <5>2 DEF Paired, Joins
        <5> QED BY <3>1, <4>2, <5>3
      <4> QED BY <4>2, <4>3, <4>4
    <3> QED BY <3>1, <3>2 DEF Expects, Extends
  <2>6. \A c \in Members(t) : /\ Fixed(c)
                              /\ Unasked(c) => Unsent(q.out, c.cid)
                              /\ c.rcvdRsp => Accepted(q, c)
    BY DEF Paired, Extends
  <2> QED BY <1>1, <2>1, <2>2, <2>3, <2>4, <2>5, <2>6 DEF Paired
<1>4. Paired(q, t)
  <2>1. ASSUME NEW y, Unsent(s.out, y),
               m.code = "CONFIGURE_REQUEST" => m.dst # y
        PROVE  Unsent(t.out, y)
    BY <2>1 DEF Unsent, Extends
  <2>2. ASSUME NEW x, Mate(s, q, x, m.dst)
        PROVE  /\ \A r \in On(q.out, "CONNECTION_REQUEST") : r.src # m.dst
               /\ \A c \in Members(q) : Unasked(c) => c.cid # m.dst
    BY <2>2 DEF Paired, Joins, Met
  <2>3. m.code = "CONFIGURE_REQUEST" =>
          /\ \A r \in On(q.out, "CONNECTION_REQUEST") : r.src # m.dst
          /\ \A c \in Members(q) : Unasked(c) => c.cid # m.dst
    BY <2>2, SendsMate
  <2>4. \A r \in On(q.out, "CONNECTION_REQUEST") : Asks(q, t, r.src)
    BY <2>1, <2>3 DEF Paired, Asks
  <2>5. Sole(q.out) /\ \A r \in On(q.out, "CONFIGURE_REQUEST") : r.dst \in 1..t.cid
    BY DEF Paired, Extends
  <2>6. \A c \in Members(q) : Unasked(c) => Unsent(t.out, c.cid)
    BY <2>1, <2>3 DEF Paired
  <2>7. ASSUME NEW c \in Members(q), c.state = "WAIT_CONNECT_RSP" PROVE Owns(q, t, c)
    <3>1. Owns(q, s, c)
      BY <2>7 DEF Paired
    <3>2. \A r \in Oks(t.out) : r \in Oks(s.out) \/ (r.id = c.lsig => r.src = c.cid)
      BY <2>7 DEF Oks, Extends, Sends
    <3> QED BY <3>1, <3>2 DEF Owns, Extends
  <2>8. \A c : Accepted(s, c) => Accepted(t, c)
    BY DEF Accepted, Extends
  <2>9. ASSUME NEW c \in Members(q), Waits(c) PROVE Expects(q, t, c)
    <3>1. Expects(q, s, c)
      BY <2>9 DEF Paired
    <3>2. \A r \in On(t.out, "CONFIGURE_RESPONSE") :
            r.id = c.lsig /\ r.what = "ok" => Accepted(t, c)
      BY <2>8, <2>9, <3>1 DEF Expects, Extends, Sends
    <3> QED BY <3>1, <3>2 DEF Expects, Extends
  <2>10. \A c \in Members(q) : Fixed(c) /\ (c.rcvdRsp => Accepted(t, c))
    BY <2>8 DEF Paired
  <2> QED BY <1>2, <2>4, <2>5, <2>6, <2>7, <2>9, <2>10 DEF Paired
<1> QED BY <1>3, <1>4

(* What a command of q that s takes from the link says to s.               *)
Binding(s, q, m) ==
  /\ m.code = "CONNECTION_REQUEST" =>
       /\ Unmet(q, s, m.src) /\ Asks(q, s, m.src)
       /\ \A c \in Members(q) : c.state = "WAIT_CONNECT_RSP" /\ c.lsig = m.id => m.src = c.cid
  /\ m.code = "CONNECTION_RESPONSE" /\ m.what = "ok" =>
       /\ m.dst \in 1..q.cid /\ Joins(s, q, m.src, m.dst)
       /\ \A c \in Members(s) : c.state = "WAIT_CONNECT_RSP" /\ c.lsig = m.id => m.src = c.cid
  /\ m.code = "CONFIGURE_REQUEST" =>
       \A c \in Members(q) : /\ Waits(c) => (m.dst = c.rcid <=> m.id = c.lsig)
                             /\ Rests(c) => ~Mate(s, q, m.dst, c.cid)
  /\ m.code = "CONFIGURE_RESPONSE" /\ m.what = "ok" =>
       \A c \in Members(s) : Waits(c) /\ c.lsig = m.id => Accepted(q, c)

(* A command arrives.                                                      *)
LEMMA TakenPaired ==
  ASSUME NEW s, NEW q, Paired(s, q), Paired(q, s), NEW r, Fewer(q, r), Fewer(s, s),
         Members(r) = Members(q), NEW m, m \in On(q.out, m.code),
         m.code = "CONNECTION_REQUEST" =>
           \A k \in On(r.out, "CONNECTION_REQUEST") : k.src # m.src
  PROVE  Paired(s, r) /\ Paired(r, s) /\ Binding(s, r, m)
<1>1. Paired(s, r) /\ Paired(r, s)
  BY FewerPaired
<1>2. \A x, y : Mate(s, r, x, y) => Mate(s, q, x, y)
  BY FewerHalf DEF Mate
<1>3. ASSUME m.code = "CONNECTION_REQUEST"
      PROVE  /\ Unmet(r, s, m.src) /\ Asks(r, s, m.src)
             /\ \A c \in Members(r) : c.state = "WAIT_CONNECT_RSP" /\ c.lsig = m.id => m.src = c.cid
  <2>1. Asks(q, s, m.src)
    BY <1>3 DEF Paired
  <2>2. \A y : ~Mate(q, s, m.src, y)
    BY <1>3 DEF Paired, Joins, Met
  <2>3. \A y : ~Mate(r, s, m.src, y)
    BY <1>2, <2>2, MateIsMutual
  <2>4. Unmet(r, s, m.src)
    BY <1>3, <2>1, <2>3 DEF Unmet, Asks
  <2>5. Asks(r, s, m.src)
    BY <2>1 DEF Asks, Fewer
  <2>6. \A c \in Members(r) : c.state = "WAIT_CONNECT_RSP" /\ c.lsig = m.id => m.src = c.cid
    BY <1>3 DEF Paired, Owns
  <2> QED BY <2>4, <2>5, <2>6
<1>4. ASSUME m.code = "CONNECTION_RESPONSE", m.what = "ok"
      PROVE  /\ m.dst \in 1..r.cid /\ Joins(s, r, m.src, m.dst)
             /\ \A c \in Members(s) : c.state = "WAIT_CONNECT_RSP" /\ c.lsig = m.id => m.src = c.cid
  <2>1. m \in Oks(q.out)
    BY <1>4 DEF Oks
  <2>2. Mate(s, q, m.src, m.dst)
    BY <2>1 DEF Mate, Half
  <2>3. m.dst \in 1..r.cid /\ Joins(s, r, m.src, m.dst)
    BY <2>2, FewerJoins DEF Paired, Fewer
  <2>4. \A c \in Members(s) : c.state = "WAIT_CONNECT_RSP" /\ c.lsig = m.id => m.src = c.cid
    BY <2>1 DEF Paired, Owns
  <2> QED BY <2>3, <2>4
<1>5. ASSUME m.code = "CONFIGURE_REQUEST", NEW c \in Members(r)
      PROVE  /\ Waits(c) => (m.dst = c.rcid <=> m.id = c.lsig)
             /\ Rests(c) => ~Mate(s, r, m.dst, c.cid)
  <2>1. Waits(c) => (m.dst = c.rcid <=> m.id = c.lsig)
    BY <1>5 DEF Paired, Expects
  <2>2. ASSUME Rests(c), Mate(s, q, m.dst, c.cid) PROVE FALSE
    <3>1. Met(q, s, c.cid, m.dst)
      BY <2>2 DEF Paired, Joins
    <3> QED BY <1>5, <2>2, <3>1 DEF Met, Spared, Unsent
  <2> QED BY <1>2, <2>1, <2>2
<1>6. ASSUME m.code = "CONFIGURE_RESPONSE", m.what = "ok", NEW c \in Members(s), Waits(c),
             c.lsig = m.id
      PROVE  Accepted(r, c)
  BY <1>6 DEF Paired, Expects, Accepted
<1> QED BY <1>1, <1>3, <1>4, <1>5, <1>6 DEF Binding

----------------------------------------------------------------------------
(* What two devices know of each other.                                    *)

(* No two commands of the code on their way have the same identifier.      *)

Single(out, code) ==
  \A j, k \in 1..Len(out) :
    out[j].code = code /\ out[k].code = code /\ out[j].id = out[k].id => j = k

(* Each configure request is under way, with a channel that has still to   *)
(* answer it, or answered by a response under way, once at most.           *)
Once(s, q) ==
  /\ Single(s.out, "CONFIGURE_REQUEST") /\ Single(q.out, "CONFIGURE_RESPONSE")
  /\ \A c, d \in Members(q) : Owes(c) /\ Owes(d) /\ c.rsig = d.rsig => c.cid = d.cid
  /\ Ids(s.out, "CONFIGURE_REQUEST") \cap Owed(q) = {}
  /\ Ids(s.out, "CONFIGURE_REQUEST") \cap Ids(q.out, "CONFIGURE_RESPONSE") = {}
  /\ Owed(q) \cap Ids(q.out, "CONFIGURE_RESPONSE") = {}

(* A channel that may look at a response but has not sent the request.     *)
Still(c) ==
  c.state = "WAIT_CONNECT_RSP" \/ (c.state = "CONFIG" /\ (c.confReq \/ c.rcvdRsp))

(* No response can come for such a channel.                                *)
AtRest(s, q) == \A c \in Members(s) : Still(c) => c.lsig \notin InUse(s, q)

(* An identifier that no such channel and no configuration has.            *)
Unused(s, q, id) == id \notin InUse(s, q) /\ \A c \in Members(s) : Still(c) => c.lsig # id

(* The state of a device and the state of the other one.                   *)
Core(s, q) ==
  /\ s \in Device /\ q \in Device /\ Local(s) /\ Local(q)
  /\ Once(s, q) /\ AtRest(s, q) /\ Once(q, s) /\ AtRest(q, s)
  /\ Paired(s, q) /\ Paired(q, s)
Fine(s, q) == Core(s, q) /\ (s.busy \/ Fresh(s, q, NextId(s)))

(* An identifier that is given out is not in use.                          *)
LEMMA FreshIsUnused ==
  ASSUME NEW s, NEW q, NEW id, Fresh(s, q, id)
  PROVE  Unused(s, q, id)
BY DEF Fresh, Unused, Still, Awaits

----------------------------------------------------------------------------
(* Commands on their way                                                   *)

(* The identifiers on their way after a command was sent.                  *)
LEMMA IdsOfAppend ==
  ASSUME NEW out \in Seq(Message), NEW m \in Message, NEW code
  PROVE  /\ Append(out, m) \in Seq(Message)
         /\ Ids(Append(out, m), code) = Ids(out, code) \cup (IF m.code = code THEN {m.id} ELSE {})
         /\ Single(out, code) /\ (m.code = code => m.id \notin Ids(out, code)) =>
              Single(Append(out, m), code)
<1> DEFINE new == Append(out, m)
           n == Len(out)
<1>1. n \in Nat /\ new \in Seq(Message) /\ Len(new) = n + 1 /\ new[n + 1] = m
  BY AppendProperties, LenProperties
<1>2. \A i \in 1..n : new[i] = out[i]
  BY AppendProperties
<1>3. \A i \in 1..n + 1 : i \in 1..n \/ i = n + 1
  BY <1>1
<1> HIDE DEF new, n
<1>4. Ids(new, code) = Ids(out, code) \cup (IF m.code = code THEN {m.id} ELSE {})
  <2>1. ASSUME NEW x \in Ids(new, code)
        PROVE  x \in Ids(out, code) \cup (IF m.code = code THEN {m.id} ELSE {})
    <3>1. PICK k \in 1..n + 1 : new[k].code = code /\ new[k].id = x
      BY <1>1 DEF Ids
    <3> QED BY <1>1, <1>2, <1>3, <3>1 DEF Ids, n
  <2>2. ASSUME NEW x \in Ids(out, code) PROVE x \in Ids(new, code)
    <3>1. PICK k \in 1..n : out[k].code = code /\ out[k].id = x
      BY DEF Ids, n
    <3>2. k \in 1..Len(new)
      BY <1>1
    <3> QED BY <1>2, <3>1, <3>2 DEF Ids
  <2>3. ASSUME m.code = code PROVE m.id \in Ids(new, code)
    <3>1. n + 1 \in 1..Len(new)
      BY <1>1
    <3> QED BY <1>1, <2>3, <3>1 DEF Ids
  <2> QED BY <2>1, <2>2, <2>3
<1>5. ASSUME Single(out, code), m.code = code => m.id \notin Ids(out, code)
      PROVE  Single(new, code)
  <2>1. SUFFICES ASSUME NEW j \in 1..n + 1, NEW k \in 1..n + 1, new[j].code = code,
                        new[k].code = code, new[j].id = new[k].id
                 PROVE  j = k
    BY <1>1 DEF Single
  <2>2. \A i \in 1..n : out[i].code = code => out[i].id \in Ids(out, code)
    BY DEF Ids, n
  <2> QED BY <1>1, <1>2, <1>3, <1>5, <2>1, <2>2 DEF Single, n
<1> QED BY <1>1, <1>4, <1>5 DEF new

(* The identifiers on their way after a command arrived.                   *)
LEMMA IdsOfTail ==
  ASSUME NEW out \in Seq(Message), out # <<>>, NEW code
  PROVE  /\ Head(out) \in Message /\ Tail(out) \in Seq(Message)
         /\ Ids(Tail(out), code) \subseteq Ids(out, code)
         /\ Single(out, code) => Single(Tail(out), code)
         /\ Head(out).code = code => Head(out).id \in Ids(out, code)
         /\ Single(out, code) /\ Head(out).code = code => Head(out).id \notin Ids(Tail(out), code)
<1> DEFINE new == Tail(out)
           n == Len(out)
           m == Head(out)
<1>1. /\ n \in Nat \ {0} /\ m \in Message /\ new \in Seq(Message) /\ Len(new) = n - 1
      /\ m = out[1]
  BY HeadTailProperties, LenProperties, EmptySeq
<1>2. \A i \in 1..n - 1 : new[i] = out[i + 1]
  BY HeadTailProperties
<1> HIDE DEF new, n, m
<1>3. \A i \in 1..n - 1 : i + 1 \in 1..n /\ i + 1 # 1
  BY <1>1
<1>4. \A x \in Ids(new, code) : \E k \in 1..n : k # 1 /\ out[k].code = code /\ out[k].id = x
  <2>1. SUFFICES ASSUME NEW x \in Ids(new, code)
                 PROVE  \E k \in 1..n : k # 1 /\ out[k].code = code /\ out[k].id = x
    OBVIOUS
  <2>2. PICK i \in 1..n - 1 : new[i].code = code /\ new[i].id = x
    BY <1>1 DEF Ids
  <2> QED BY <1>2, <1>3, <2>2
<1>5. Ids(new, code) \subseteq Ids(out, code)
  BY <1>4 DEF Ids, n
<1>6. ASSUME Single(out, code) PROVE Single(new, code)
  <2>1. SUFFICES ASSUME NEW j \in 1..n - 1, NEW k \in 1..n - 1, new[j].code = code,
                        new[k].code = code, new[j].id = new[k].id
                 PROVE  j = k
    BY <1>1 DEF Single
  <2>2. j + 1 = k + 1
    BY <1>2, <1>3, <1>6, <2>1 DEF Single, n
  <2> QED BY <2>2
<1>7. 1 \in 1..n
  BY <1>1
<1>8. m.code = code => m.id \in Ids(out, code)
  BY <1>1, <1>7 DEF Ids, n
<1>9. Single(out, code) /\ m.code = code => m.id \notin Ids(new, code)
  BY <1>1, <1>4, <1>7 DEF Single, n
<1> QED BY <1>1, <1>5, <1>6, <1>8, <1>9 DEF new, m

----------------------------------------------------------------------------
(* Steps of a device that keep what two devices know of each other         *)

(* The invariant says the same of both devices.                            *)
LEMMA CoreIsMutual ==
  ASSUME NEW s, NEW q, Core(s, q)
  PROVE  Core(q, s)
BY DEF Core

(* c had to answer before.                                                 *)
Kept(s, c) == \E d \in Members(s) : Owes(d) /\ d.cid = c.cid /\ d.rsig = c.rsig

(* Channels change: what rests is not in use, and one channel may have to  *)
(* answer a request that is not in use either.                             *)
LEMMA CoreChannels ==
  ASSUME NEW s, NEW q, Core(s, q), NEW t \in Device, Local(t), t.out = s.out,
         \A c \in Members(t) : Still(c) => c.lsig \notin InUse(s, q),
         NEW x, \A c \in Members(t) : Owes(c) =>
                  Kept(s, c) \/ (c.cid = x /\ Unused(q, s, c.rsig)),
         Paired(t, q), Paired(q, t)
  PROVE  Core(t, q)
<1>1. /\ Once(s, q) /\ AtRest(s, q) /\ Once(q, s) /\ AtRest(q, s) /\ q \in Device /\ Local(q)
  BY DEF Core
<1>2. InUse(t, q) = InUse(s, q)
  BY DEF InUse
<1>3. Once(t, q) /\ AtRest(t, q)
  BY <1>1, <1>2 DEF Once, AtRest
<1>4. \A id \in Owed(t) : id \in Owed(s) \/ Unused(q, s, id)
  BY DEF Owed, Kept
<1>5. AtRest(q, t)
  BY <1>1, <1>4 DEF AtRest, InUse, Unused
<1>6. \A c, d \in Members(t) : Owes(c) /\ Owes(d) /\ c.rsig = d.rsig => c.cid = d.cid
  <2>1. SUFFICES ASSUME NEW c \in Members(t), NEW d \in Members(t), Owes(c), Owes(d),
                        c.rsig = d.rsig
                 PROVE  c.cid = d.cid
    OBVIOUS
  <2>2. \A e \in Members(t) : Kept(s, e) => e.rsig \in InUse(q, s)
    BY DEF Kept, InUse, Owed
  <2>3. CASE Kept(s, c) /\ Kept(s, d)
    BY <1>1, <2>1, <2>3 DEF Kept, Once
  <2>4. CASE c.cid = x /\ d.cid = x
    BY <2>4
  <2> QED BY <2>1, <2>2, <2>3, <2>4 DEF Unused
<1>7. /\ Ids(q.out, "CONFIGURE_REQUEST") \cap Owed(t) = {}
      /\ Owed(t) \cap Ids(t.out, "CONFIGURE_RESPONSE") = {}
  BY <1>1, <1>4 DEF Once, Unused, InUse
<1>8. Once(q, t)
  BY <1>1, <1>6, <1>7 DEF Once
<1> QED BY <1>1, <1>3, <1>5, <1>8 DEF Core

(* A command goes out; an identifier of a configuration is not in use.     *)
LEMMA SendFacts ==
  ASSUME NEW s, NEW q, Core(s, q), NEW m \in Message,
         m.code = "CONFIGURE_REQUEST" => Unused(s, q, m.id),
         m.code = "CONFIGURE_RESPONSE" => Unused(q, s, m.id), Sends(s, q, m)
  PROVE  Fine(Send(s, m), q) /\ Send(s, m).chans = s.chans
<1> DEFINE t == Send(s, m)
           out == Append(s.out, m)
<1>1. /\ Once(s, q) /\ AtRest(s, q) /\ Once(q, s) /\ AtRest(q, s) /\ q \in Device /\ Local(q)
      /\ s \in Device /\ Local(s)
  BY DEF Core
<1>2. s.out \in Seq(Message)
  BY <1>1 DEF Device
<1>3. t = [s EXCEPT !.busy = TRUE, !.out = out]
  BY DEF Send
<1> HIDE DEF out
<1>4. out \in Seq(Message)
  BY <1>2, IdsOfAppend DEF out
<1> HIDE DEF t
<1>5. /\ t \in Device /\ t.busy = TRUE /\ t.out = out /\ t.chans = s.chans
      /\ t.told = s.told /\ t.cid = s.cid
  BY <1>1, <1>3, <1>4 DEF Device
<1>6. Local(t) /\ Members(t) = Members(s)
  BY <1>1, <1>5, LocalSame
<1>7. Owed(t) = Owed(s)
  BY <1>6 DEF Owed
<1>8. \A code : /\ Ids(out, code) = Ids(s.out, code) \cup (IF m.code = code THEN {m.id} ELSE {})
                /\ Single(s.out, code) /\ (m.code = code => m.id \notin Ids(s.out, code)) =>
                     Single(out, code)
  BY <1>2, IdsOfAppend DEF out
<1>9. /\ m.code # "CONFIGURE_REQUEST" =>
           Ids(out, "CONFIGURE_REQUEST") = Ids(s.out, "CONFIGURE_REQUEST")
      /\ m.code = "CONFIGURE_REQUEST" =>
           Ids(out, "CONFIGURE_REQUEST") = Ids(s.out, "CONFIGURE_REQUEST") \cup {m.id}
      /\ m.code # "CONFIGURE_RESPONSE" =>
           Ids(out, "CONFIGURE_RESPONSE") = Ids(s.out, "CONFIGURE_RESPONSE")
      /\ m.code = "CONFIGURE_RESPONSE" =>
           Ids(out, "CONFIGURE_RESPONSE") = Ids(s.out, "CONFIGURE_RESPONSE") \cup {m.id}
  BY <1>8
<1>10. Once(t, q) /\ AtRest(t, q)
  <2>1. Single(out, "CONFIGURE_REQUEST")
    BY <1>1, <1>8 DEF Once, Unused, InUse
  <2>2. CASE m.code = "CONFIGURE_REQUEST"
    BY <1>1, <1>5, <1>6, <1>9, <2>1, <2>2 DEF Once, AtRest, Unused, InUse
  <2>3. CASE m.code # "CONFIGURE_REQUEST"
    BY <1>1, <1>5, <1>6, <1>9, <2>1, <2>3 DEF Once, AtRest, Unused, InUse
  <2> QED BY <2>2, <2>3
<1>11. Once(q, t) /\ AtRest(q, t)
  <2>1. Single(out, "CONFIGURE_RESPONSE")
    BY <1>1, <1>8 DEF Once, Unused, InUse
  <2>2. CASE m.code = "CONFIGURE_RESPONSE"
    BY <1>1, <1>5, <1>6, <1>7, <1>9, <2>1, <2>2 DEF Once, AtRest, Unused, InUse
  <2>3. CASE m.code # "CONFIGURE_RESPONSE"
    BY <1>1, <1>5, <1>6, <1>7, <1>9, <2>1, <2>3 DEF Once, AtRest, Unused, InUse
  <2> QED BY <2>2, <2>3
<1>12. Extends(s, t, m)
  BY <1>2, <1>5, <1>6, OnOfAppend DEF Extends, out
<1>13. Paired(t, q) /\ Paired(q, t)
  BY <1>12, SendsPaired DEF Core
<1> QED BY <1>1, <1>5, <1>6, <1>10, <1>11, <1>13 DEF Core, Fine, t

(* The same for a device that may still send.                              *)
LEMMA FineChannels ==
  ASSUME NEW s, NEW q, Fine(s, q), NEW t \in Device, Local(t), t.out = s.out,
         t.sig = s.sig, s.busy => t.busy,
         \A c \in Members(t) : Still(c) => c.lsig \notin InUse(s, q),
         \A c \in Members(t) : Awaits(c) => s.busy \/ c.lsig # NextId(s),
         NEW x, \A c \in Members(t) : Owes(c) =>
                  Kept(s, c) \/ (c.cid = x /\ Unused(q, s, c.rsig)),
         Paired(t, q), Paired(q, t)
  PROVE  Fine(t, q)
<1>1. Core(t, q)
  BY CoreChannels DEF Fine
<1>2. InUse(t, q) = InUse(s, q) /\ Requested(t, q) = Requested(s, q) /\ NextId(t) = NextId(s)
  BY DEF InUse, Requested, NextId
<1> QED BY <1>1, <1>2 DEF Fine, Fresh

(* No channel but those of gone went.                                      *)
Keeps(s, t, gone) == \A x : Has(s, x) /\ x \notin gone => Has(t, x)

(* A channel c that becomes d.                                             *)
Fits(s, q, c, d) ==
  /\ d \in Chan /\ d.cid = c.cid /\ Consistent(d) /\ Suits(s, q, d)
  /\ Still(d) => d.lsig \notin InUse(s, q)
  /\ Owes(d) => (Owes(c) /\ d.rsig = c.rsig) \/ Unused(q, s, d.rsig)

(* A channel becomes another state of it.                                  *)
LEMMA PutKeeps ==
  ASSUME NEW s, NEW q, Core(s, q), NEW c \in Members(s), NEW d, Fits(s, q, c, d),
         d.cid \in Cids => Heard(d, s.told[d.cid])
  PROVE  /\ Core(Put(s, d), q) /\ Keeps(s, Put(s, d), {}) /\ OtherFields(s, Put(s, d))
         /\ Put(s, d).told = s.told
         /\ Members(Put(s, d)) = {e \in Members(s) : e.cid # d.cid} \cup {d}
         /\ Channel(Put(s, d), d.cid) = d
         /\ Fine(s, q) /\ (Awaits(d) => s.busy \/ d.lsig # NextId(s)) => Fine(Put(s, d), q)
<1> DEFINE t == Put(s, d)
<1>1. s \in Device /\ Local(s) /\ d \in Chan /\ d.cid = c.cid /\ Consistent(d)
  BY DEF Core, Fits
<1>2. Has(s, d.cid)
  BY <1>1, HasMember
<1>3. /\ t \in Device /\ OtherFields(s, t) /\ t.told = s.told
      /\ Members(t) = {e \in Members(s) : e.cid # d.cid} \cup {d}
      /\ Channel(t, d.cid) = d
  BY <1>1, <1>2, PutFacts DEF Local
<1>4. Local(t)
  BY <1>1, <1>2, LocalPut
<1> HIDE DEF t
<1>5. Keeps(s, t, {})
  BY <1>1, <1>3, HasMember DEF Keeps
<1>6. \A e \in Members(t) : Owes(e) => Kept(s, e) \/ (e.cid = d.cid /\ Unused(q, s, e.rsig))
  BY <1>1, <1>3 DEF Kept, Fits
<1>7. \A e \in Members(t) : Still(e) => e.lsig \notin InUse(s, q)
  BY <1>3 DEF Core, AtRest, Fits
<1>8. Paired(t, q) /\ Paired(q, t)
  <2>1. Swaps(s, t, d)
    BY <1>1, <1>3 DEF Swaps, OtherFields, Local
  <2> QED BY <2>1, SwapsPaired DEF Core, Fits
<1>9. Core(t, q)
  BY <1>3, <1>4, <1>6, <1>7, <1>8, CoreChannels DEF OtherFields
<1>10. ASSUME Fine(s, q), Awaits(d) => s.busy \/ d.lsig # NextId(s) PROVE Fine(t, q)
  <2>1. \A e \in Members(t) : Awaits(e) => s.busy \/ e.lsig # NextId(s)
    BY <1>3, <1>10 DEF Fine, Fresh
  <2> QED BY <1>3, <1>4, <1>6, <1>7, <1>8, <1>10, <2>1, FineChannels DEF OtherFields
<1> QED BY <1>3, <1>5, <1>9, <1>10 DEF t

(* A channel changes and its client hears of it.                           *)
LEMMA PutTellKeeps ==
  ASSUME NEW s, NEW q, Core(s, q), NEW c \in Members(s), NEW d, Fits(s, q, c, d),
         NEW b, b.cid = d.cid, NEW event \in {"incoming", "opened"},
         d.cid \in Cids => s.told[d.cid] \in Follows(b, event) /\ Heard(d, event)
  PROVE  /\ Core(Tell(Put(s, d), b, event), q) /\ Keeps(s, Tell(Put(s, d), b, event), {})
         /\ OtherFields(s, Tell(Put(s, d), b, event))
         /\ Fine(s, q) /\ (Awaits(d) => s.busy \/ d.lsig # NextId(s)) =>
              Fine(Tell(Put(s, d), b, event), q)
<1> DEFINE t == Tell(Put(s, d), b, event)
<1>1. s \in Device /\ Local(s) /\ d \in Chan /\ d.cid = c.cid /\ Consistent(d)
  BY DEF Core, Fits
<1>2. Has(s, d.cid)
  BY <1>1, HasMember
<1>3. /\ t \in Device /\ Local(t) /\ OtherFields(s, t)
      /\ Members(t) = {e \in Members(s) : e.cid # d.cid} \cup {d}
  BY <1>1, <1>2, LocalPutTell
<1> HIDE DEF t
<1>5. Keeps(s, t, {})
  BY <1>1, <1>3, HasMember DEF Keeps
<1>6. \A e \in Members(t) : Owes(e) => Kept(s, e) \/ (e.cid = d.cid /\ Unused(q, s, e.rsig))
  BY <1>1, <1>3 DEF Kept, Fits
<1>7. \A e \in Members(t) : Still(e) => e.lsig \notin InUse(s, q)
  BY <1>3 DEF Core, AtRest, Fits
<1>8. Paired(t, q) /\ Paired(q, t)
  <2>1. Swaps(s, t, d)
    BY <1>1, <1>3 DEF Swaps, OtherFields, Local
  <2> QED BY <2>1, SwapsPaired DEF Core, Fits
<1>9. Core(t, q)
  BY <1>3, <1>6, <1>7, <1>8, CoreChannels DEF OtherFields
<1>10. ASSUME Fine(s, q), Awaits(d) => s.busy \/ d.lsig # NextId(s) PROVE Fine(t, q)
  <2>1. \A e \in Members(t) : Awaits(e) => s.busy \/ e.lsig # NextId(s)
    BY <1>3, <1>10 DEF Fine, Fresh
  <2> QED BY <1>3, <1>6, <1>7, <1>8, <1>10, <2>1, FineChannels DEF OtherFields
<1> QED BY <1>3, <1>5, <1>9, <1>10 DEF t

(* A device has no channels and no commands that it had not.               *)
LEMMA SomeFewer ==
  ASSUME NEW s, NEW q, Core(s, q), NEW t, t.cid = s.cid, t.out = s.out,
         Members(t) \subseteq Members(s)
  PROVE  Paired(t, q) /\ Paired(q, t)
<1>1. /\ \A c \in Members(s) : Like(c, c)
      /\ \A c \in Members(q) : Like(c, c)
  BY DEF Core, Paired, Like
<1>2. Fewer(s, t) /\ Fewer(q, q)
  BY <1>1 DEF Fewer
<1> QED BY <1>2, FewerPaired DEF Core

(* A device that loses a channel, or none.                                 *)
LEMMA FewerKeeps ==
  ASSUME NEW s, NEW q, Core(s, q), NEW t \in Device, Local(t), OtherFields(s, t),
         NEW gone, Members(t) = {d \in Members(s) : d.cid \notin gone}
  PROVE  Core(t, q) /\ Keeps(s, t, gone) /\ (Fine(s, q) => Fine(t, q))
<1>1. Keeps(s, t, gone)
  BY HasMember DEF Keeps, Core
<1>2. \A c \in Members(t) : Owes(c) => Kept(s, c)
  BY DEF Kept
<1>3. Paired(t, q) /\ Paired(q, t)
  BY SomeFewer DEF OtherFields
<1>4. Core(t, q)
  BY <1>2, <1>3, CoreChannels DEF Core, OtherFields, AtRest
<1>5. ASSUME Fine(s, q) PROVE Fine(t, q)
  <2>1. \A e \in Members(t) : Still(e) => e.lsig \notin InUse(s, q)
    BY DEF Core, AtRest
  <2>2. \A e \in Members(t) : Awaits(e) => s.busy \/ e.lsig # NextId(s)
    BY <1>5 DEF Fine, Fresh
  <2> QED BY <1>2, <1>3, <1>5, <2>1, <2>2, FineChannels DEF OtherFields
<1> QED BY <1>1, <1>4, <1>5

(* A channel goes without a word.                                          *)
LEMMA FreeKeeps ==
  ASSUME NEW s, NEW q, Core(s, q), NEW cid, Has(s, cid)
  PROVE  /\ Core(Free(s, cid), q) /\ Keeps(s, Free(s, cid), {cid})
         /\ Fine(s, q) => Fine(Free(s, cid), q)
<1>1. /\ Free(s, cid) \in Device /\ Local(Free(s, cid)) /\ OtherFields(s, Free(s, cid))
      /\ Members(Free(s, cid)) = {d \in Members(s) : d.cid \notin {cid}}
  BY LocalFree DEF Core
<1> QED BY <1>1, FewerKeeps

(* A channel goes and its client hears of it.                              *)
LEMMA EndKeeps ==
  ASSUME NEW s, NEW q, Core(s, q), NEW c \in Members(s), NEW event \in {"failed", "closed"},
         c.cid \in Cids => s.told[c.cid] \in Follows(c, event)
  PROVE  /\ Core(Free(Tell(s, c, event), c.cid), q)
         /\ Keeps(s, Free(Tell(s, c, event), c.cid), {c.cid})
         /\ Fine(s, q) => Fine(Free(Tell(s, c, event), c.cid), q)
<1> DEFINE t == Free(Tell(s, c, event), c.cid)
<1>1. /\ t \in Device /\ Local(t) /\ OtherFields(s, t)
      /\ Members(t) = {d \in Members(s) : d.cid # c.cid}
  BY LocalEnd DEF Core
<1> HIDE DEF t
<1>2. Members(t) = {d \in Members(s) : d.cid \notin {c.cid}}
  BY <1>1
<1>3. Core(t, q) /\ Keeps(s, t, {c.cid}) /\ (Fine(s, q) => Fine(t, q))
  BY <1>1, <1>2, FewerKeeps
<1> QED BY <1>3 DEF t

(* Only fields that are not about channels or commands change.             *)
LEMMA SameKeeps ==
  ASSUME NEW s, NEW q, Core(s, q), NEW t \in Device, t.chans = s.chans, t.told = s.told,
         t.cid = s.cid, t.out = s.out
  PROVE  /\ Core(t, q) /\ Keeps(s, t, {}) /\ Members(t) = Members(s)
         /\ Fine(s, q) /\ t.sig = s.sig /\ (s.busy => t.busy) => Fine(t, q)
<1>1. Local(t) /\ Members(t) = Members(s) /\ Keeps(s, t, {})
  BY LocalSame DEF Core, Keeps
<1>2. \A c \in Members(t) : Owes(c) => Kept(s, c)
  BY <1>1 DEF Kept
<1>3. Paired(t, q) /\ Paired(q, t)
  BY <1>1, SomeFewer
<1>4. Core(t, q)
  BY <1>1, <1>2, <1>3, CoreChannels DEF Core, AtRest
<1>5. ASSUME Fine(s, q), t.sig = s.sig, s.busy => t.busy PROVE Fine(t, q)
  <2>1. \A e \in Members(t) : Still(e) => e.lsig \notin InUse(s, q)
    BY <1>1 DEF Core, AtRest
  <2>2. \A e \in Members(t) : Awaits(e) => s.busy \/ e.lsig # NextId(s)
    BY <1>1, <1>5 DEF Fine, Fresh
  <2> QED BY <1>1, <1>2, <1>3, <1>5, <2>1, <2>2, FineChannels
<1> QED BY <1>1, <1>4, <1>5

----------------------------------------------------------------------------
(* Handlers that send nothing                                              *)

Moves(s, t, q, gone) == Fine(t, q) /\ Keeps(s, t, gone)

(* What is known of the channel found by its identifier.                   *)
LEMMA ChannelIs ==
  ASSUME NEW s, NEW q, Core(s, q), NEW cid, Has(s, cid)
  PROVE  LET c == Channel(s, cid) IN
         /\ c \in Members(s) /\ c \in Chan /\ c.cid = cid /\ Consistent(c)
         /\ c.cid \in Cids => Heard(c, s.told[c.cid])
BY ChannelFacts DEF Core, Local

(* Fields of the device's own change after other changes.                  *)
LEMMA OwnMoves ==
  ASSUME NEW s, NEW t, NEW q, NEW gone, Moves(s, t, q, gone), NEW u \in Device,
         u.chans = t.chans, u.told = t.told, u.cid = t.cid, u.out = t.out, u.sig = t.sig,
         t.busy => u.busy
  PROVE  Moves(s, u, q, gone)
<1>1. Fine(t, q) /\ Core(t, q)
  BY DEF Moves, Fine
<1>2. Fine(u, q) /\ Keeps(t, u, {})
  BY <1>1, SameKeeps
<1> QED BY <1>2 DEF Moves, Keeps

(* hci.c is asked for features, for security or for a disconnect.          *)
LEMMA AskMoves ==
  ASSUME NEW s, NEW t, NEW q, NEW gone, Moves(s, t, q, gone)
  PROVE  /\ Moves(s, QueryFeatures(t), q, gone) /\ Moves(s, RequestSecurity(t), q, gone)
         /\ Moves(s, [t EXCEPT !.block = TRUE], q, gone)
<1>1. t \in Device
  BY DEF Moves, Fine, Core
<1>2. Moves(s, QueryFeatures(t), q, gone)
  <2> DEFINE u == QueryFeatures(t)
  <2>1. /\ u \in Device /\ u.chans = t.chans /\ u.told = t.told /\ u.cid = t.cid
        /\ u.out = t.out /\ u.sig = t.sig /\ u.busy = t.busy
    BY <1>1 DEF QueryFeatures, Device
  <2> HIDE DEF u
  <2>2. Moves(s, u, q, gone)
    BY <2>1, OwnMoves
  <2> QED BY <2>2 DEF u
<1>3. Moves(s, RequestSecurity(t), q, gone)
  <2> DEFINE u == RequestSecurity(t)
  <2>1. /\ u \in Device /\ u.chans = t.chans /\ u.told = t.told /\ u.cid = t.cid
        /\ u.out = t.out /\ u.sig = t.sig /\ u.busy = t.busy
    BY <1>1 DEF RequestSecurity, Device
  <2> HIDE DEF u
  <2>2. Moves(s, u, q, gone)
    BY <2>1, OwnMoves
  <2> QED BY <2>2 DEF u
<1>4. Moves(s, [t EXCEPT !.block = TRUE], q, gone)
  <2> DEFINE u == [t EXCEPT !.block = TRUE]
  <2>1. /\ u \in Device /\ u.chans = t.chans /\ u.told = t.told /\ u.cid = t.cid
        /\ u.out = t.out /\ u.sig = t.sig /\ u.busy = t.busy
    BY <1>1 DEF Device
  <2> HIDE DEF u
  <2>2. Moves(s, u, q, gone)
    BY <2>1, OwnMoves
  <2> QED BY <2>2 DEF u
<1> QED BY <1>2, <1>3, <1>4

(* A channel that is not yet configured goes on to another such state.     *)
GoesOn(c, d) ==
  /\ d \in Chan /\ d.cid = c.cid /\ d.incoming = c.incoming /\ d.lsig = c.lsig
  /\ d.confRsp = c.confRsp /\ d.rcvdRsp = c.rcvdRsp /\ d.rtx = c.rtx
  /\ d.rcid = c.rcid /\ d.rsig = c.rsig /\ d.sentRsp = c.sentRsp
  /\ {c.state, d.state} \subseteq Early \ {"WAIT_CONNECT_RSP"}
  /\ d.state \in Asking => ~d.incoming
  /\ d.state \in Asked => d.incoming

(* A channel that is not configured owes no response.                      *)
LEMMA EarlyIs ==
  ASSUME NEW c, c.state \in Early
  PROVE  /\ ~Owes(c) /\ c.state # "CONFIG" /\ ~Waits(c) /\ Rests(c)
         /\ c.state # "WAIT_CONNECT_RSP" => ~Still(c) /\ ~Awaits(c)
BY DEF Early, Asking, Asked, Owes, Still, Awaits, Waits, Rests

(* A channel that is as before suits.                                      *)
LEMMA SuitsLike ==
  ASSUME NEW s, NEW q, Core(s, q), NEW c \in Members(s), NEW d, Fixed(c) => Like(c, d)
  PROVE  Suits(s, q, d)
<1>1. Paired(s, q) /\ Paired(q, s)
  BY DEF Core
<1>2. Fixed(c)
  BY <1>1 DEF Paired
<1> QED BY <1>1, <1>2, LikeSuits

(* So does one that goes on.                                               *)
LEMMA GoesOnSuits ==
  ASSUME NEW s, NEW q, Core(s, q), NEW c \in Members(s), NEW d, GoesOn(c, d)
  PROVE  Suits(s, q, d)
<1>1. Consistent(c)
  BY DEF Core, Local
<1>2. Fixed(c) => Fixed(d)
  BY DEF Fixed, GoesOn, Early, Asking, Asked
<1>3. Unasked(d) => Unasked(c)
  BY DEF Unasked, GoesOn
<1>4. Considered(d) => Considered(c)
  BY <1>1 DEF Considered, GoesOn, Early, Asked, Consistent
<1>5. ~Owes(d) /\ ~Waits(d) /\ Rests(c)
  BY EarlyIs DEF GoesOn
<1>6. Fixed(c) => Like(c, d)
  BY <1>2, <1>3, <1>4, <1>5 DEF Like, GoesOn
<1> QED BY <1>6, SuitsLike

(* It may do so, as long as its client need not hear of it.                *)
LEMMA GoesOnMoves ==
  ASSUME NEW s, NEW q, Fine(s, q), NEW c \in Members(s), NEW d, GoesOn(c, d),
         Unheard(d) => Unheard(c), d.state \in Announced => c.state \in Announced
  PROVE  Moves(s, Put(s, d), q, {})
<1>1. Core(s, q) /\ Consistent(c) /\ (c.cid \in Cids => Heard(c, s.told[c.cid]))
  BY DEF Fine, Core, Local
<1>2. Consistent(d) /\ ~Still(d) /\ ~Owes(d) /\ ~Awaits(d)
  BY <1>1, EarlyIs DEF GoesOn, Consistent
<1>3. d.cid \in Cids => Heard(d, s.told[d.cid])
  BY <1>1, EarlyIs DEF GoesOn, Heard
<1>4. Fits(s, q, c, d)
  BY <1>1, <1>2, GoesOnSuits DEF Fits, GoesOn
<1>5. Fine(Put(s, d), q) /\ Keeps(s, Put(s, d), {})
  BY <1>1, <1>2, <1>3, <1>4, PutKeeps
<1> QED BY <1>5 DEF Moves

(* An incoming channel is announced.                                       *)
LEMMA AnnounceMoves ==
  ASSUME NEW s, NEW q, Fine(s, q), NEW c \in Members(s), c.incoming,
         c.state \in {"WAIT_REMOTE_SUPPORTED_FEATURES", "WAIT_INCOMING_SECURITY_LEVEL_UPDATE"}
  PROVE  Moves(s, Announce(s, c), q, {})
<1> DEFINE d == [c EXCEPT !.state = "WAIT_CLIENT_ACCEPT_OR_REJECT"]
<1>1. Core(s, q) /\ Consistent(c) /\ (c.cid \in Cids => Heard(c, s.told[c.cid])) /\ c \in Chan
  BY HasMember DEF Fine, Core, Local
<1>2. GoesOn(c, d) /\ d.state = "WAIT_CLIENT_ACCEPT_OR_REJECT"
  BY <1>1 DEF Chan, States, GoesOn, Early, Asking, Asked
<1> HIDE DEF d
<1>3. Consistent(d) /\ ~Still(d) /\ ~Owes(d) /\ ~Awaits(d)
  BY <1>1, <1>2, EarlyIs DEF Consistent, GoesOn
<1>4. Fits(s, q, c, d)
  BY <1>1, <1>2, <1>3, GoesOnSuits DEF Fits, GoesOn
<1>5. d.cid \in Cids => s.told[d.cid] \in Follows(c, "incoming") /\ Heard(d, "incoming")
  BY <1>1, <1>2 DEF Heard, Unheard, Follows, GoesOn
<1>6. /\ Keeps(s, Tell(Put(s, d), c, "incoming"), {})
      /\ Fine(Tell(Put(s, d), c, "incoming"), q)
  BY <1>1, <1>3, <1>4, <1>5, PutTellKeeps DEF Fits
<1> QED BY <1>6 DEF Announce, d, Moves

(* An outgoing channel may send its connection request.                    *)
LEMMA ReadyMoves ==
  ASSUME NEW s, NEW q, Fine(s, q), NEW c \in Members(s), ~c.incoming,
         c.state \in Early \ {"WAIT_CONNECT_RSP"}
  PROVE  Moves(s, ReadyToConnect(s, c), q, {})
<1> DEFINE d == [c EXCEPT !.state = "WILL_SEND_CONNECTION_REQUEST"]
<1>1. c \in Chan
  BY HasMember DEF Fine, Core
<1>2. GoesOn(c, d) /\ d.state = "WILL_SEND_CONNECTION_REQUEST"
  BY <1>1 DEF GoesOn, Chan, States, Early, Asking, Asked
<1>3. Unheard(d) => Unheard(c)
  BY <1>1, <1>2 DEF Unheard, Early, Asked, GoesOn, Consistent, Fine, Core, Local
<1> HIDE DEF d
<1> QED BY <1>2, <1>3, GoesOnMoves DEF Announced, ReadyToConnect, d

(* A channel hears of the ACL link.                                        *)
LEMMA ConnectionCompleteMoves ==
  ASSUME NEW s, NEW q, Fine(s, q), NEW cid, Has(s, cid)
  PROVE  Moves(s, ConnectionCompleteFor(s, cid), q, {})
<1> DEFINE b == Channel(s, cid)
           c == [b EXCEPT !.handle = s.acl]
<1>1. b \in Members(s) /\ b \in Chan /\ Consistent(b) /\ s.acl \in Nat
  BY ChannelIs DEF Fine, Core, Device
<1>2. /\ c \in Chan /\ c.cid = b.cid /\ c.incoming = b.incoming /\ c.lsig = b.lsig
      /\ c.confRsp = b.confRsp /\ c.rcvdRsp = b.rcvdRsp /\ c.rtx = b.rtx /\ c.state = b.state
      /\ c.rcid = b.rcid /\ c.rsig = b.rsig /\ c.sentRsp = b.sentRsp
  BY <1>1 DEF Chan
<1> HIDE DEF b, c
<1>3. CASE c.state \notin {"WAIT_CONNECTION_COMPLETE", "WILL_SEND_CREATE_CONNECTION"}
  <2>1. ConnectionCompleteFor(s, cid) = s
    BY <1>3 DEF ConnectionCompleteFor, b, c
  <2> QED BY <2>1 DEF Moves, Keeps
<1>4. CASE c.state \in {"WAIT_CONNECTION_COMPLETE", "WILL_SEND_CREATE_CONNECTION"}
  <2> DEFINE d == [c EXCEPT !.state = "WAIT_REMOTE_SUPPORTED_FEATURES"]
             e == [c EXCEPT !.state = "WILL_SEND_CONNECTION_REQUEST"]
  <2>1. ~b.incoming /\ Unheard(b)
    BY <1>1, <1>2, <1>4 DEF Consistent, Asking, Unheard
  <2>2. GoesOn(b, d) /\ d.state = "WAIT_REMOTE_SUPPORTED_FEATURES"
    BY <1>2, <1>4, <2>1 DEF GoesOn, Chan, States, Early, Asking, Asked
  <2>3. GoesOn(b, e) /\ e.state = "WILL_SEND_CONNECTION_REQUEST"
    BY <1>2, <1>4, <2>1 DEF GoesOn, Chan, States, Early, Asking, Asked
  <2> HIDE DEF d, e
  <2>4. Moves(s, Put(s, d), q, {}) /\ Moves(s, Put(s, e), q, {})
    BY <1>1, <2>1, <2>2, <2>3, GoesOnMoves DEF Announced
  <2>5. Moves(s, QueryFeatures(Put(s, d)), q, {})
    BY <2>4, AskMoves
  <2>6. ConnectionCompleteFor(s, cid) \in {QueryFeatures(Put(s, d)), Put(s, e)}
    BY <1>4 DEF ConnectionCompleteFor, ReadyToConnect, b, c, d, e
  <2> QED BY <2>4, <2>5, <2>6
<1> QED BY <1>3, <1>4

(* A channel hears of the remote features.                                 *)
LEMMA FeaturesMoves ==
  ASSUME NEW s, NEW q, Fine(s, q), NEW cid, Has(s, cid)
  PROVE  Moves(s, FeaturesReceived(s, cid), q, {})
<1> DEFINE c == Channel(s, cid)
           sufficient == ~Secure(c) \/ s.sec = "done"
           d == [c EXCEPT !.state = "WAIT_INCOMING_SECURITY_LEVEL_UPDATE",
                          !.pend = IF @ = "no" THEN "send" ELSE @]
           e == [c EXCEPT !.state = "WAIT_OUTGOING_SECURITY_LEVEL_UPDATE"]
<1>1. c \in Members(s) /\ c \in Chan /\ Consistent(c) /\ c.incoming \in BOOLEAN
  BY ChannelIs DEF Fine, Chan
<1>2. Moves(s, s, q, {})
  BY DEF Moves, Keeps
<1> HIDE DEF c
<1>3. CASE c.state # "WAIT_REMOTE_SUPPORTED_FEATURES" \/ c.handle # s.acl
  <2>1. FeaturesReceived(s, cid) = s
    BY <1>3 DEF FeaturesReceived, c
  <2> QED BY <1>2, <2>1
<1>4. CASE c.state = "WAIT_REMOTE_SUPPORTED_FEATURES" /\ c.handle = s.acl /\ c.incoming
  <2>1. d \in Chan
    <3>1. [c EXCEPT !.state = "WAIT_INCOMING_SECURITY_LEVEL_UPDATE"] \in Chan
      BY <1>1, ChanUpdates DEF States
    <3>2. (IF c.pend = "no" THEN "send" ELSE c.pend) \in {"no", "send", "sent"}
      BY <1>1 DEF Chan
    <3>3. d = [[c EXCEPT !.state = "WAIT_INCOMING_SECURITY_LEVEL_UPDATE"] EXCEPT
                 !.pend = IF c.pend = "no" THEN "send" ELSE c.pend]
      BY <1>1 DEF Chan
    <3> QED BY <3>1, <3>2, <3>3, ChanUpdates
  <2>2. /\ d.cid = c.cid /\ d.incoming = c.incoming /\ d.lsig = c.lsig
        /\ d.confRsp = c.confRsp /\ d.rcvdRsp = c.rcvdRsp /\ d.rtx = c.rtx
        /\ d.rcid = c.rcid /\ d.rsig = c.rsig /\ d.sentRsp = c.sentRsp
        /\ d.state = "WAIT_INCOMING_SECURITY_LEVEL_UPDATE"
    BY <1>1 DEF Chan
  <2> HIDE DEF d
  <2>3. GoesOn(c, d) /\ Unheard(c)
    BY <1>4, <2>1, <2>2 DEF GoesOn, Early, Asking, Asked, Unheard
  <2>4. Moves(s, RequestSecurity(Put(s, d)), q, {})
    BY <1>1, <2>2, <2>3, GoesOnMoves, AskMoves DEF Announced
  <2>5. Moves(s, Announce(s, c), q, {})
    BY <1>1, <1>4, AnnounceMoves
  <2>6. Moves(s, [s EXCEPT !.block = TRUE], q, {})
    BY <1>2, AskMoves
  <2>7. FeaturesReceived(s, cid) \in
          {[s EXCEPT !.block = TRUE], Announce(s, c), RequestSecurity(Put(s, d))}
    <3>1. s.ssp \in BOOLEAN
      BY DEF Fine, Core, Device
    <3> QED BY <1>1, <1>4, <3>1 DEF FeaturesReceived, c, d
  <2> QED BY <2>4, <2>5, <2>6, <2>7
<1>5. CASE c.state = "WAIT_REMOTE_SUPPORTED_FEATURES" /\ c.handle = s.acl /\ ~c.incoming
  <2>1. GoesOn(c, e) /\ e.state = "WAIT_OUTGOING_SECURITY_LEVEL_UPDATE" /\ Unheard(c)
    BY <1>1, <1>5 DEF GoesOn, Chan, States, Early, Asking, Asked, Unheard
  <2> HIDE DEF e
  <2>2. Moves(s, RequestSecurity(Put(s, e)), q, {})
    BY <1>1, <2>1, GoesOnMoves, AskMoves DEF Announced
  <2>3. Moves(s, ReadyToConnect(s, c), q, {})
    BY <1>1, <1>5, ReadyMoves DEF Early
  <2>4. FeaturesReceived(s, cid) \in {ReadyToConnect(s, c), RequestSecurity(Put(s, e))}
    BY <1>1, <1>5 DEF FeaturesReceived, c, e
  <2> QED BY <2>2, <2>3, <2>4
<1> QED BY <1>1, <1>3, <1>4, <1>5

(* A channel hears of the security level.                                  *)
LEMMA SecurityMoves ==
  ASSUME NEW s, NEW q, Fine(s, q), NEW cid, Has(s, cid)
  PROVE  Moves(s, SecurityLevelFor(s, cid), q, {})
<1> DEFINE c == Channel(s, cid)
           d == [c EXCEPT !.state = "WILL_SEND_CONNECTION_RESPONSE_DECLINE"]
<1>1. c \in Members(s) /\ c \in Chan /\ Consistent(c)
  BY ChannelIs DEF Fine
<1>2. Moves(s, s, q, {})
  BY DEF Moves, Keeps
<1> HIDE DEF c
<1>3. CASE c.state = "WAIT_INCOMING_SECURITY_LEVEL_UPDATE" /\ c.handle = s.acl
  <2>1. c.incoming
    BY <1>1, <1>3 DEF Consistent, Asked
  <2>2. GoesOn(c, d) /\ ~Unheard(d) /\ d.state = "WILL_SEND_CONNECTION_RESPONSE_DECLINE"
    BY <1>1, <1>3, <2>1 DEF GoesOn, Chan, States, Early, Asking, Asked, Unheard
  <2> HIDE DEF d
  <2>3. Moves(s, Put(s, d), q, {})
    BY <1>1, <2>2, GoesOnMoves DEF Announced
  <2>4. Moves(s, Announce(s, c), q, {})
    BY <1>1, <1>3, <2>1, AnnounceMoves
  <2>5. SecurityLevelFor(s, cid) \in {Announce(s, c), Put(s, d)}
    BY <1>3 DEF SecurityLevelFor, c, d
  <2> QED BY <2>3, <2>4, <2>5
<1>4. CASE c.state = "WAIT_OUTGOING_SECURITY_LEVEL_UPDATE" /\ c.handle = s.acl
  <2>1. ~c.incoming /\ c.state \in Early \ {"WAIT_CONNECT_RSP"}
    BY <1>1, <1>4 DEF Consistent, Asking, Early
  <2>2. Moves(s, ReadyToConnect(s, c), q, {})
    BY <1>1, <2>1, ReadyMoves
  <2>3. SecurityLevelFor(s, cid) \in {ReadyToConnect(s, c), s}
    BY <1>4 DEF SecurityLevelFor, c
  <2> QED BY <1>2, <2>2, <2>3
<1>5. CASE /\ ~(c.state = "WAIT_INCOMING_SECURITY_LEVEL_UPDATE" /\ c.handle = s.acl)
           /\ ~(c.state = "WAIT_OUTGOING_SECURITY_LEVEL_UPDATE" /\ c.handle = s.acl)
  <2>1. SecurityLevelFor(s, cid) = s
    BY <1>5 DEF SecurityLevelFor, c
  <2> QED BY <1>2, <2>1
<1> QED BY <1>3, <1>4, <1>5

(* A channel that its client has not heard of, or has a timer, may fail.   *)
LEMMA FailMoves ==
  ASSUME NEW s, NEW q, Core(s, q), NEW cid, Has(s, cid),
         Channel(s, cid).state \in Asking \/ Channel(s, cid).rtx
  PROVE  /\ Core(Fail(s, cid), q) /\ Keeps(s, Fail(s, cid), {cid})
         /\ Fine(s, q) => Fine(Fail(s, cid), q)
<1> DEFINE c == Channel(s, cid)
<1>1. /\ c \in Members(s) /\ c \in Chan /\ Consistent(c) /\ c.cid = cid
      /\ c.cid \in Cids => Heard(c, s.told[c.cid])
  BY ChannelIs
<1> HIDE DEF c
<1>2. c.state \in Asking \/ c.rtx
  BY DEF c
<1>3. c.cid \in Cids => s.told[c.cid] \in Follows(c, "failed")
  BY <1>1, <1>2 DEF Heard, Unheard, Consistent, Follows
<1> QED BY <1>1, <1>3, EndKeeps DEF Fail, c

(* A channel hears of the end of the ACL link.                             *)
LEMMA DisconnectedMoves ==
  ASSUME NEW s, NEW q, Fine(s, q), NEW cid, Has(s, cid)
  PROVE  Moves(s, DisconnectedFor(s, cid), q, {cid})
<1> DEFINE c == Channel(s, cid)
           event == IF FailedOnDisconnect(c) THEN "failed" ELSE "closed"
<1>1. /\ c \in Members(s) /\ c \in Chan /\ Consistent(c) /\ c.cid = cid
      /\ c.cid \in Cids => Heard(c, s.told[c.cid])
  BY ChannelIs DEF Fine
<1> HIDE DEF c
<1>2. CASE c.handle # s.acl
  <2>1. DisconnectedFor(s, cid) = s
    BY <1>2 DEF DisconnectedFor, c
  <2> QED BY <2>1 DEF Moves, Keeps
<1>3. CASE c.handle = s.acl
  <2>1. FailedOnDisconnect(c) => Unheard(c)
    BY <1>1 DEF FailedOnDisconnect, Unheard, Chan, States, Asking, Asked, Consistent
  <2>2. c.cid \in Cids => s.told[c.cid] \in Follows(c, event)
    BY <1>1, <2>1 DEF Heard, Follows
  <2>3. event \in {"failed", "closed"}
    OBVIOUS
  <2>4. DisconnectedFor(s, cid) = Free(Tell(s, c, event), c.cid)
    BY <1>1, <1>3 DEF DisconnectedFor, c
  <2> HIDE DEF event
  <2>5. Fine(Free(Tell(s, c, event), c.cid), q) /\ Keeps(s, Free(Tell(s, c, event), c.cid), {c.cid})
    BY <1>1, <2>2, <2>3, EndKeeps DEF Fine
  <2> QED BY <1>1, <2>4, <2>5 DEF Moves
<1> QED BY <1>2, <1>3

----------------------------------------------------------------------------
(* Loops over the channels                                                 *)

Step(s, S, R) ==
  \A i \in 1..Len(s.chans) : \A t \in S : Has(t, s.chans[i].cid) =>
    R[i][t] \in S /\ Keeps(t, R[i][t], {s.chans[i].cid})
Steps(s, S, R, g) ==
  g[0] = s /\ \A i \in 1..Len(s.chans) : g[i - 1] \in S => g[i] = R[i][g[i - 1]]

(* S is an invariant of a loop over the channels of s whose steps do not   *)
(* take away channels that are still to come.                              *)
LEMMA LoopChannels ==
  ASSUME NEW s \in Device, Distinct(s), NEW S, S \subseteq Device, s \in S,
         NEW R, Step(s, S, R), NEW g, Steps(s, S, R, g)
  PROVE  \A i \in 0..Len(s.chans) : g[i] \in S
<1> DEFINE n == Len(s.chans)
           G == [i \in 0..n |-> {t \in S : \A j \in i + 1..n : Has(t, s.chans[j].cid)}]
<1>1. n \in Nat
  BY LenProperties DEF Device
<1>2. \A i \in 0..n : \A t : t \in G[i] <=> t \in S /\ \A j \in i + 1..n : Has(t, s.chans[j].cid)
  OBVIOUS
<1>3. g[0] \in G[0]
  <2>1. \A j \in 0 + 1..n : Has(s, s.chans[j].cid)
    BY DEF Has, Device
  <2>2. 0 \in 0..n
    BY <1>1
  <2> QED BY <1>2, <2>1, <2>2 DEF Steps
<1>4. ASSUME NEW i \in 1..n, g[i - 1] \in G[i - 1] PROVE g[i] \in G[i]
  <2> HIDE DEF G
  <2>1. i - 1 \in 0..n /\ i \in 0..n
    BY <1>1
  <2>2. g[i - 1] \in S /\ \A j \in (i - 1) + 1..n : Has(g[i - 1], s.chans[j].cid)
    BY <1>2, <1>4, <2>1
  <2>3. Has(g[i - 1], s.chans[i].cid)
    <3>1. i \in (i - 1) + 1..n
      BY <1>1
    <3> QED BY <2>2, <3>1
  <2>4. g[i] \in S /\ Keeps(g[i - 1], g[i], {s.chans[i].cid})
    BY <2>2, <2>3 DEF Step, Steps
  <2>5. ASSUME NEW j \in i + 1..n PROVE Has(g[i], s.chans[j].cid)
    <3>1. j \in (i - 1) + 1..n /\ j \in 1..n /\ j # i
      BY <1>1
    <3>2. s.chans[j].cid # s.chans[i].cid
      BY <3>1 DEF Distinct
    <3> QED BY <2>2, <2>4, <3>1, <3>2 DEF Keeps
  <2> QED BY <1>2, <2>1, <2>4, <2>5
<1> HIDE DEF G
<1>5. \A i \in 0..n : g[i] \in G[i]
  <2> HIDE DEF n
  <2> QED BY <1>1, <1>3, <1>4, LoopIn
<1> QED BY <1>2, <1>5

(* The states of a device that may go on.                                  *)
Good(q) == {t \in Device : Fine(t, q)}

Passes(s, q, R, g) ==
  /\ g = [i \in 0..Len(s.chans) |-> IF i = 0 THEN s ELSE R[i][g[i - 1]]]
  /\ \A i \in 0..Len(s.chans) : g[i] \in Good(q)

(* A loop whose steps are good ends well.                                  *)
LEMMA LoopGood ==
  ASSUME NEW s, NEW q, Fine(s, q), NEW R, Step(s, Good(q), R)
  PROVE  /\ \E g : Passes(s, q, R, g)
         /\ \A h : Steps(s, Good(q), R, h) => Fine(h[Len(s.chans)], q)
<1> DEFINE n == Len(s.chans)
<1>1. s \in Good(q) /\ s \in Device /\ Distinct(s) /\ n \in Nat /\ Good(q) \subseteq Device
  BY LenProperties DEF Fine, Core, Local, Device, Good
<1>2. PICK g : Iterates(g, n, s, R)
  BY <1>1, LoopExists
<1>3. g = [i \in 0..n |-> IF i = 0 THEN s ELSE R[i][g[i - 1]]]
  BY <1>2 DEF Iterates
<1>4. Steps(s, Good(q), R, g)
  <2>1. 0 \in 0..n /\ \A i \in 1..n : i \in 0..n /\ i # 0
    BY <1>1
  <2> QED BY <1>3, <2>1 DEF Steps
<1>5. \A i \in 0..n : g[i] \in Good(q)
  BY <1>1, <1>4, LoopChannels
<1>6. Passes(s, q, R, g)
  BY <1>3, <1>5 DEF Passes
<1>7. ASSUME NEW h, Steps(s, Good(q), R, h) PROVE Fine(h[n], q)
  <2>1. h[n] \in Good(q)
    BY <1>1, <1>7, LoopChannels
  <2> QED BY <2>1 DEF Good
<1> QED BY <1>6, <1>7

(* The loop of ConnectionSucceeded.                                        *)
LEMMA ConnectionCompleteLoop ==
  ASSUME NEW s, NEW q, Fine(s, q)
  PROVE  Fine(ForEach(s, ConnectionCompleteFor), q)
<1> DEFINE n == Len(s.chans)
           R == [i \in 1..n |-> [t \in Good(q) |-> ConnectionCompleteFor(t, s.chans[i].cid)]]
<1>1. n \in Nat
  BY LenProperties DEF Fine, Core, Device
<1>2. \A i \in 1..n, t \in Good(q) : R[i][t] = ConnectionCompleteFor(t, s.chans[i].cid)
  OBVIOUS
<1>3. Step(s, Good(q), R)
  BY <1>2, ConnectionCompleteMoves DEF Step, Moves, Keeps, Good, Fine, Core
<1> HIDE DEF R
<1>4. PICK g : Passes(s, q, R, g)
  BY <1>3, LoopGood
<1>5. g = [i \in 0..n |-> IF i = 0 THEN s ELSE ConnectionCompleteFor(g[i - 1], s.chans[i].cid)]
  <2>1. \A i \in 0..n : i # 0 => i \in 1..n /\ g[i - 1] \in Good(q)
    <3>1. \A i \in 0..n : i # 0 => i \in 1..n /\ i - 1 \in 0..n
      BY <1>1
    <3> QED BY <1>4, <3>1 DEF Passes
  <2>2. \A i \in 0..n : i # 0 => R[i][g[i - 1]] = ConnectionCompleteFor(g[i - 1], s.chans[i].cid)
    BY <1>2, <2>1
  <2> QED BY <1>4, <2>2 DEF Passes
<1>6. PICK h :
        /\ h = [i \in 0..n |-> IF i = 0 THEN s ELSE ConnectionCompleteFor(h[i - 1], s.chans[i].cid)]
        /\ ForEach(s, ConnectionCompleteFor) = h[n]
  BY <1>5 DEF ForEach
<1>7. Steps(s, Good(q), R, h)
  <2>1. 0 \in 0..n /\ \A i \in 1..n : i \in 0..n /\ i # 0
    BY <1>1
  <2> QED BY <1>2, <1>6, <2>1 DEF Steps
<1> QED BY <1>3, <1>6, <1>7, LoopGood

(* The loop of FeaturesComplete.                                           *)
LEMMA FeaturesLoop ==
  ASSUME NEW s, NEW q, Fine(s, q)
  PROVE  Fine(ForEach(s, FeaturesReceived), q)
<1> DEFINE n == Len(s.chans)
           R == [i \in 1..n |-> [t \in Good(q) |-> FeaturesReceived(t, s.chans[i].cid)]]
<1>1. n \in Nat
  BY LenProperties DEF Fine, Core, Device
<1>2. \A i \in 1..n, t \in Good(q) : R[i][t] = FeaturesReceived(t, s.chans[i].cid)
  OBVIOUS
<1>3. Step(s, Good(q), R)
  BY <1>2, FeaturesMoves DEF Step, Moves, Keeps, Good, Fine, Core
<1> HIDE DEF R
<1>4. PICK g : Passes(s, q, R, g)
  BY <1>3, LoopGood
<1>5. g = [i \in 0..n |-> IF i = 0 THEN s ELSE FeaturesReceived(g[i - 1], s.chans[i].cid)]
  <2>1. \A i \in 0..n : i # 0 => i \in 1..n /\ g[i - 1] \in Good(q)
    <3>1. \A i \in 0..n : i # 0 => i \in 1..n /\ i - 1 \in 0..n
      BY <1>1
    <3> QED BY <1>4, <3>1 DEF Passes
  <2>2. \A i \in 0..n : i # 0 => R[i][g[i - 1]] = FeaturesReceived(g[i - 1], s.chans[i].cid)
    BY <1>2, <2>1
  <2> QED BY <1>4, <2>2 DEF Passes
<1>6. PICK h :
        /\ h = [i \in 0..n |-> IF i = 0 THEN s ELSE FeaturesReceived(h[i - 1], s.chans[i].cid)]
        /\ ForEach(s, FeaturesReceived) = h[n]
  BY <1>5 DEF ForEach
<1>7. Steps(s, Good(q), R, h)
  <2>1. 0 \in 0..n /\ \A i \in 1..n : i \in 0..n /\ i # 0
    BY <1>1
  <2> QED BY <1>2, <1>6, <2>1 DEF Steps
<1> QED BY <1>3, <1>6, <1>7, LoopGood

(* The first loop of SecurityLevel.                                        *)
LEMMA SecurityLoop ==
  ASSUME NEW s, NEW q, Fine(s, q)
  PROVE  Fine(ForEach(s, SecurityLevelFor), q)
<1> DEFINE n == Len(s.chans)
           R == [i \in 1..n |-> [t \in Good(q) |-> SecurityLevelFor(t, s.chans[i].cid)]]
<1>1. n \in Nat
  BY LenProperties DEF Fine, Core, Device
<1>2. \A i \in 1..n, t \in Good(q) : R[i][t] = SecurityLevelFor(t, s.chans[i].cid)
  OBVIOUS
<1>3. Step(s, Good(q), R)
  BY <1>2, SecurityMoves DEF Step, Moves, Keeps, Good, Fine, Core
<1> HIDE DEF R
<1>4. PICK g : Passes(s, q, R, g)
  BY <1>3, LoopGood
<1>5. g = [i \in 0..n |-> IF i = 0 THEN s ELSE SecurityLevelFor(g[i - 1], s.chans[i].cid)]
  <2>1. \A i \in 0..n : i # 0 => i \in 1..n /\ g[i - 1] \in Good(q)
    <3>1. \A i \in 0..n : i # 0 => i \in 1..n /\ i - 1 \in 0..n
      BY <1>1
    <3> QED BY <1>4, <3>1 DEF Passes
  <2>2. \A i \in 0..n : i # 0 => R[i][g[i - 1]] = SecurityLevelFor(g[i - 1], s.chans[i].cid)
    BY <1>2, <2>1
  <2> QED BY <1>4, <2>2 DEF Passes
<1>6. PICK h :
        /\ h = [i \in 0..n |-> IF i = 0 THEN s ELSE SecurityLevelFor(h[i - 1], s.chans[i].cid)]
        /\ ForEach(s, SecurityLevelFor) = h[n]
  BY <1>5 DEF ForEach
<1>7. Steps(s, Good(q), R, h)
  <2>1. 0 \in 0..n /\ \A i \in 1..n : i \in 0..n /\ i # 0
    BY <1>1
  <2> QED BY <1>2, <1>6, <2>1 DEF Steps
<1> QED BY <1>3, <1>6, <1>7, LoopGood

(* The loop of DisconnectionComplete.                                      *)
LEMMA DisconnectedLoop ==
  ASSUME NEW s, NEW q, Fine(s, q)
  PROVE  Fine(ForEach(s, DisconnectedFor), q)
<1> DEFINE n == Len(s.chans)
           R == [i \in 1..n |-> [t \in Good(q) |-> DisconnectedFor(t, s.chans[i].cid)]]
<1>1. n \in Nat
  BY LenProperties DEF Fine, Core, Device
<1>2. \A i \in 1..n, t \in Good(q) : R[i][t] = DisconnectedFor(t, s.chans[i].cid)
  OBVIOUS
<1>3. Step(s, Good(q), R)
  BY <1>2, DisconnectedMoves DEF Step, Moves, Keeps, Good, Fine, Core
<1> HIDE DEF R
<1>4. PICK g : Passes(s, q, R, g)
  BY <1>3, LoopGood
<1>5. g = [i \in 0..n |-> IF i = 0 THEN s ELSE DisconnectedFor(g[i - 1], s.chans[i].cid)]
  <2>1. \A i \in 0..n : i # 0 => i \in 1..n /\ g[i - 1] \in Good(q)
    <3>1. \A i \in 0..n : i # 0 => i \in 1..n /\ i - 1 \in 0..n
      BY <1>1
    <3> QED BY <1>4, <3>1 DEF Passes
  <2>2. \A i \in 0..n : i # 0 => R[i][g[i - 1]] = DisconnectedFor(g[i - 1], s.chans[i].cid)
    BY <1>2, <2>1
  <2> QED BY <1>4, <2>2 DEF Passes
<1>6. PICK h :
        /\ h = [i \in 0..n |-> IF i = 0 THEN s ELSE DisconnectedFor(h[i - 1], s.chans[i].cid)]
        /\ ForEach(s, DisconnectedFor) = h[n]
  BY <1>5 DEF ForEach
<1>7. Steps(s, Good(q), R, h)
  <2>1. 0 \in 0..n /\ \A i \in 1..n : i \in 0..n /\ i # 0
    BY <1>1
  <2> QED BY <1>2, <1>6, <2>1 DEF Steps
<1> QED BY <1>3, <1>6, <1>7, LoopGood

(* The channels that fail in ConnectionFailed and in SecurityLevel.        *)
Unconnected(c) == c.state \in {"WAIT_CONNECTION_COMPLETE", "WILL_SEND_CREATE_CONNECTION"}
NoPage(t, cid) == IF Unconnected(Channel(t, cid)) THEN Fail(t, cid) ELSE t
Refused(c, acl, level) ==
  c.handle = acl /\ level # "done" /\ c.state = "WAIT_OUTGOING_SECURITY_LEVEL_UPDATE"
NoLevel(t, cid, acl, level) ==
  IF Refused(Channel(t, cid), acl, level) THEN Fail(t, cid) ELSE t

(* A channel fails with the page it waits for.                             *)
LEMMA NoPageMoves ==
  ASSUME NEW s, NEW q, Fine(s, q), NEW cid, Has(s, cid)
  PROVE  Moves(s, NoPage(s, cid), q, {cid})
<1>1. Moves(s, s, q, {cid})
  BY DEF Moves, Keeps
<1>2. Channel(s, cid).state \in Asking => Moves(s, Fail(s, cid), q, {cid})
  BY FailMoves DEF Moves, Fine
<1> QED BY <1>1, <1>2 DEF NoPage, Unconnected, Asking

(* A channel fails with the security level it waits for.                   *)
LEMMA NoLevelMoves ==
  ASSUME NEW s, NEW q, Fine(s, q), NEW cid, Has(s, cid), NEW acl, NEW level
  PROVE  Moves(s, NoLevel(s, cid, acl, level), q, {cid})
<1>1. Moves(s, s, q, {cid})
  BY DEF Moves, Keeps
<1>2. Channel(s, cid).state \in Asking => Moves(s, Fail(s, cid), q, {cid})
  BY FailMoves DEF Moves, Fine
<1> QED BY <1>1, <1>2 DEF NoLevel, Refused, Asking

(* The loop of ConnectionFailed.                                           *)
LEMMA ConnectionFailedLoop ==
  ASSUME NEW s, NEW q, Fine(s, q)
  PROVE  Fine(FailThose(s, Unconnected), q)
<1> DEFINE n == Len(s.chans)
           R == [i \in 1..n |-> [t \in Good(q) |-> NoPage(t, s.chans[i].cid)]]
<1>1. n \in Nat
  BY LenProperties DEF Fine, Core, Device
<1>2. \A i \in 1..n, t \in Good(q) : R[i][t] = NoPage(t, s.chans[i].cid)
  OBVIOUS
<1>3. Step(s, Good(q), R)
  BY <1>2, NoPageMoves DEF Step, Moves, Keeps, Good, Fine, Core
<1> HIDE DEF R
<1>4. PICK g : Passes(s, q, R, g)
  BY <1>3, LoopGood
<1>5. g = [i \in 0..n |-> IF i = 0 THEN s ELSE NoPage(g[i - 1], s.chans[i].cid)]
  <2>1. \A i \in 0..n : i # 0 => i \in 1..n /\ g[i - 1] \in Good(q)
    <3>1. \A i \in 0..n : i # 0 => i \in 1..n /\ i - 1 \in 0..n
      BY <1>1
    <3> QED BY <1>4, <3>1 DEF Passes
  <2>2. \A i \in 0..n : i # 0 => R[i][g[i - 1]] = NoPage(g[i - 1], s.chans[i].cid)
    BY <1>2, <2>1
  <2> QED BY <1>4, <2>2 DEF Passes
<1>6. PICK h :
        /\ h = [i \in 0..n |-> IF i = 0 THEN s ELSE NoPage(h[i - 1], s.chans[i].cid)]
        /\ FailThose(s, Unconnected) = h[n]
  BY <1>5 DEF ForEach, FailThose, NoPage
<1>7. Steps(s, Good(q), R, h)
  <2>1. 0 \in 0..n /\ \A i \in 1..n : i \in 0..n /\ i # 0
    BY <1>1
  <2> QED BY <1>2, <1>6, <2>1 DEF Steps
<1> QED BY <1>3, <1>6, <1>7, LoopGood

(* The second loop of SecurityLevel.                                       *)
LEMMA SecurityFailedLoop ==
  ASSUME NEW s, NEW q, Fine(s, q), NEW acl, NEW level
  PROVE  Fine(FailRefused(s, acl, level), q)
<1> DEFINE n == Len(s.chans)
           R == [i \in 1..n |-> [t \in Good(q) |-> NoLevel(t, s.chans[i].cid, acl, level)]]
<1>1. n \in Nat
  BY LenProperties DEF Fine, Core, Device
<1>2. \A i \in 1..n, t \in Good(q) : R[i][t] = NoLevel(t, s.chans[i].cid, acl, level)
  OBVIOUS
<1>3. Step(s, Good(q), R)
  BY <1>2, NoLevelMoves DEF Step, Moves, Keeps, Good, Fine, Core
<1> HIDE DEF R
<1>4. PICK g : Passes(s, q, R, g)
  BY <1>3, LoopGood
<1>5. g = [i \in 0..n |-> IF i = 0 THEN s ELSE NoLevel(g[i - 1], s.chans[i].cid, acl, level)]
  <2>1. \A i \in 0..n : i # 0 => i \in 1..n /\ g[i - 1] \in Good(q)
    <3>1. \A i \in 0..n : i # 0 => i \in 1..n /\ i - 1 \in 0..n
      BY <1>1
    <3> QED BY <1>4, <3>1 DEF Passes
  <2>2. \A i \in 0..n : i # 0 => R[i][g[i - 1]] = NoLevel(g[i - 1], s.chans[i].cid, acl, level)
    BY <1>2, <2>1
  <2> QED BY <1>4, <2>2 DEF Passes
<1>6. PICK h :
        /\ h = [i \in 0..n |-> IF i = 0 THEN s ELSE NoLevel(h[i - 1], s.chans[i].cid, acl, level)]
        /\ FailRefused(s, acl, level) = h[n]
  BY <1>5 DEF ForEach, FailThose, FailRefused, NoLevel, Refused
<1>7. Steps(s, Good(q), R, h)
  <2>1. 0 \in 0..n /\ \A i \in 1..n : i \in 0..n /\ i # 0
    BY <1>1
  <2> QED BY <1>2, <1>6, <2>1 DEF Steps
<1> QED BY <1>3, <1>6, <1>7, LoopGood

----------------------------------------------------------------------------
(* l2cap_run                                                               *)

(* A command has the type of one.                                          *)
LEMMA CommandIs ==
  ASSUME NEW code \in Codes, NEW id \in Nat, NEW dst \in Nat, NEW src \in Nat,
         NEW what \in Whats,
         code = "CONNECTION_REQUEST" => what \in Psms,
         code = "CONNECTION_RESPONSE" => what \in {"ok", "pending", "refused"},
         code \in Config => id > 0
  PROVE  Command(code, id, dst, src, what) \in Message
BY DEF Command, Message

(* Other commands may be sent at any time.                                 *)
LEMMA FreeToSend ==
  ASSUME NEW s, NEW q, NEW m, ~Binds(m)
  PROVE  m.code \notin Config /\ Sends(s, q, m)
BY DEF Binds, Sends, Config

(* A command is sent after other changes.                                  *)
LEMMA SendMoves ==
  ASSUME NEW s, NEW u, NEW q, NEW gone, Core(u, q), Keeps(s, u, gone), NEW m \in Message,
         m.code = "CONFIGURE_REQUEST" => Unused(u, q, m.id),
         m.code = "CONFIGURE_RESPONSE" => Unused(q, u, m.id), Sends(u, q, m)
  PROVE  Moves(s, Send(u, m), q, gone)
<1>1. Fine(Send(u, m), q) /\ Send(u, m).chans = u.chans
  BY SendFacts
<1> QED BY <1>1 DEF Moves, Keeps, Has

(* The device takes an identifier.                                         *)
LEMMA NextSigIdFacts ==
  ASSUME NEW s, NEW q, Core(s, q)
  PROVE  /\ Core(NextSigId(s), q) /\ Keeps(s, NextSigId(s), {})
         /\ Members(NextSigId(s)) = Members(s) /\ InUse(NextSigId(s), q) = InUse(s, q)
         /\ NextSigId(s).sig = NextId(s) /\ NextId(s) \in Nat /\ NextId(s) > 0
         /\ NextSigId(s).told = s.told /\ NextSigId(s).info = s.info
         /\ Fine(s, q) /\ ~s.busy => Fresh(NextSigId(s), q, NextId(s))
<1> DEFINE t == NextSigId(s)
<1>1. s \in Device /\ s.sig \in 1..SigIds /\ SigIds \in Nat \ {0}
  BY BoundsAssumption DEF Core, Device
<1>2. NextId(s) \in 1..SigIds
  BY <1>1 DEF NextId
<1>3. /\ t \in Device /\ t.chans = s.chans /\ t.told = s.told /\ t.cid = s.cid /\ t.out = s.out
      /\ t.sig = NextId(s) /\ t.info = s.info
  BY <1>1, <1>2 DEF NextSigId, Device
<1> HIDE DEF t
<1>4. Core(t, q) /\ Keeps(s, t, {}) /\ Members(t) = Members(s)
  BY <1>3, SameKeeps
<1>5. InUse(t, q) = InUse(s, q) /\ Requested(t, q) = Requested(s, q)
  BY <1>3 DEF InUse, Requested
<1>6. NextId(s) \in Nat /\ NextId(s) > 0
  BY <1>1, <1>2
<1>7. Fine(s, q) /\ ~s.busy => Fresh(t, q, NextId(s))
  BY <1>4, <1>5 DEF Fine, Fresh
<1> QED BY <1>3, <1>4, <1>5, <1>6, <1>7 DEF t

(* No configure request has the identifier 0.                              *)
LEMMA NoIdUnused ==
  ASSUME NEW s, NEW q, Core(s, q)
  PROVE  NoId \notin InUse(s, q)
<1>1. ASSUME NEW out \in Seq(Message), NEW code \in Config PROVE NoId \notin Ids(out, code)
  <2>1. \A k \in 1..Len(out) : out[k] \in Message
    BY ElementOfSeq
  <2>2. \A k \in 1..Len(out) : out[k].code = code => out[k].id # NoId
    BY <1>1, <2>1 DEF Message, NoId
  <2> QED BY <2>2 DEF Ids
<1>2. s.out \in Seq(Message) /\ q.out \in Seq(Message)
  BY DEF Core, Device
<1>3. NoId \notin Owed(q)
  BY DEF Owed, Core, Local, Consistent, NoId
<1> QED BY <1>1, <1>2, <1>3 DEF InUse, Config

(* The first of the pending responses is sent.                             *)
LEMMA RunResponsesKeeps ==
  ASSUME NEW s, NEW q, Fine(s, q)
  PROVE  Fine(RunResponses(s), q)
<1>1. CASE s.resp # <<>> /\ CanSend(s, Head(s.resp).handle)
  <2> DEFINE t == [s EXCEPT !.resp = Tail(@)]
             m == Head(s.resp).command
  <2>1. s \in Device /\ s.resp \in Seq(Pending)
    BY DEF Fine, Core, Device
  <2>2. Tail(s.resp) \in Seq(Pending) /\ Head(s.resp) \in Pending
    BY <1>1, <2>1, HeadTailProperties
  <2>3. /\ t \in Device /\ t.chans = s.chans /\ t.told = s.told /\ t.cid = s.cid
        /\ t.out = s.out
    BY <2>1, <2>2 DEF Device
  <2> HIDE DEF t
  <2>4. Core(t, q)
    BY <2>3, SameKeeps DEF Fine
  <2>5. m \in Message /\ ~Binds(m)
    BY <2>2 DEF Pending
  <2> HIDE DEF m
  <2>6. Fine(Send(t, m), q)
    BY <2>4, <2>5, FreeToSend, SendFacts DEF Config
  <2> QED BY <1>1, <2>6 DEF RunResponses, t, m
<1>2. CASE ~(s.resp # <<>> /\ CanSend(s, Head(s.resp).handle))
  BY <1>2 DEF RunResponses
<1> QED BY <1>1, <1>2

(* An information request is sent.                                         *)
LEMMA RunInformationKeeps ==
  ASSUME NEW s, NEW q, Fine(s, q)
  PROVE  Fine(RunInformation(s), q)
<1>1. CASE s.info \in {"W2_EXTENDED", "W2_FIXED"} /\ CanSend(s, s.acl)
  <2> DEFINE t == NextSigId(s)
             u == [t EXCEPT !.info = IF @ = "W2_EXTENDED" THEN "W4_EXTENDED" ELSE "W4_FIXED"]
             m == Command("INFORMATION_REQUEST", t.sig, 0, 0, "")
  <2>1. Core(t, q) /\ t \in Device /\ t.sig \in Nat
    BY NextSigIdFacts DEF Fine, Core
  <2>2. m \in Message /\ m.code = "INFORMATION_REQUEST" /\ ~Binds(m)
    <3>1. /\ "INFORMATION_REQUEST" \in Codes /\ "INFORMATION_REQUEST" \notin Config
          /\ "" \in Whats
      BY DEF Codes, Config, Whats
    <3>2. m \in Message
      BY <2>1, <3>1, CommandIs
    <3> QED BY <3>2 DEF Command, Binds, Config
  <2> HIDE DEF t, m
  <2>3. /\ u \in Device /\ u.chans = t.chans /\ u.told = t.told /\ u.cid = t.cid
        /\ u.out = t.out
    BY <2>1 DEF Device
  <2> HIDE DEF u
  <2>4. Core(u, q)
    BY <2>1, <2>3, SameKeeps
  <2>5. Fine(Send(u, m), q)
    BY <2>2, <2>4, FreeToSend, SendFacts
  <2> QED BY <1>1, <2>5 DEF RunInformation, t, u, m
<1>2. CASE ~(s.info \in {"W2_EXTENDED", "W2_FIXED"} /\ CanSend(s, s.acl))
  BY <1>2 DEF RunInformation
<1> QED BY <1>1, <1>2

(* A channel suits that opens or closes.                                   *)
LEMMA LeavesSuits ==
  ASSUME NEW s, NEW q, Core(s, q), NEW c \in Members(s), NEW d,
         d.cid = c.cid /\ d.rcid = c.rcid /\ d.incoming = c.incoming,
         d.sentRsp = c.sentRsp /\ d.rcvdRsp = c.rcvdRsp,
         d.state \notin Early \cup {"CONFIG"},
         d.state = "OPEN" => c.state = "CONFIG" /\ c.rcvdRsp
  PROVE  Suits(s, q, d)
<1>1. Fixed(c) => Fixed(d)
  BY DEF Fixed
<1>2. d.state # "WAIT_CONNECT_RSP" /\ ~Unasked(d) /\ ~Considered(d)
  BY DEF Unasked, Considered, Early, Asking, Asked
<1>3. ~Owes(d) /\ ~Waits(d) /\ (Rests(d) => Rests(c))
  BY DEF Owes, Waits, Rests
<1>4. Fixed(c) => Like(c, d)
  BY <1>1, <1>2, <1>3 DEF Like
<1> QED BY <1>4, SuitsLike

(* A configured channel opens.                                             *)
LEMMA OpenMoves ==
  ASSUME NEW s, NEW q, Core(s, q), NEW cid, Has(s, cid), Channel(s, cid).state = "CONFIG"
  PROVE  /\ Core(OpenIfReady(s, cid), q) /\ Keeps(s, OpenIfReady(s, cid), {})
         /\ Fine(s, q) => Fine(OpenIfReady(s, cid), q)
<1> DEFINE c == Channel(s, cid)
           d == [c EXCEPT !.state = "OPEN"]
<1>1. /\ c \in Members(s) /\ c \in Chan /\ Consistent(c) /\ c.state = "CONFIG"
      /\ c.cid \in Cids => Heard(c, s.told[c.cid])
  BY ChannelIs
<1> HIDE DEF c
<1>2. CASE c.rcvdRsp /\ c.sentRsp
  <2>1. /\ d \in Chan /\ d.cid = c.cid /\ d.state = "OPEN" /\ d.incoming = c.incoming
        /\ d.rtx = c.rtx
        /\ d.rcid = c.rcid /\ d.sentRsp = c.sentRsp /\ d.rcvdRsp = c.rcvdRsp
    BY <1>1 DEF Chan, States
  <2> HIDE DEF d
  <2>2. Consistent(d) /\ ~Owes(d) /\ ~Still(d) /\ ~Awaits(d)
    BY <2>1 DEF Consistent, Early, Asking, Asked, Owes, Still, Awaits
  <2>3. Fits(s, q, c, d)
    <3>1. Suits(s, q, d)
      BY <1>1, <1>2, <2>1, LeavesSuits DEF Early, Asking, Asked
    <3> QED BY <2>1, <2>2, <3>1 DEF Fits
  <2>4. d.cid \in Cids => s.told[d.cid] \in Follows(c, "opened") /\ Heard(d, "opened")
    BY <1>1, <1>2, <2>1 DEF Heard, Unheard, Follows, Consistent, Asking, Announced
  <2>5. /\ Core(Tell(Put(s, d), c, "opened"), q) /\ Keeps(s, Tell(Put(s, d), c, "opened"), {})
        /\ Fine(s, q) => Fine(Tell(Put(s, d), c, "opened"), q)
    BY <1>1, <2>1, <2>2, <2>3, <2>4, PutTellKeeps
  <2> QED BY <1>1, <1>2, <2>5 DEF OpenIfReady, c, d
<1>3. CASE ~(c.rcvdRsp /\ c.sentRsp)
  <2>1. OpenIfReady(s, cid) = s
    BY <1>3 DEF OpenIfReady, c
  <2> QED BY <2>1 DEF Keeps
<1> QED BY <1>2, <1>3

(* What is known of each channel.                                          *)
LEMMA MemberIs ==
  ASSUME NEW s, NEW q, Core(s, q), NEW c \in Members(s)
  PROVE  /\ c \in Chan /\ Consistent(c) /\ Has(s, c.cid)
         /\ c.cid \in Cids => Heard(c, s.told[c.cid])
         /\ c.cid \in Nat /\ c.rcid \in Nat /\ c.rsig \in Nat
BY HasMember DEF Core, Local, Chan

(* The response to a connection request is not about a configuration.      *)
LEMMA AnswerIs ==
  ASSUME NEW c \in Chan, NEW what \in {"ok", "pending", "refused"}
  PROVE  LET m == Command("CONNECTION_RESPONSE", c.rsig, c.cid, c.rcid, what)
         IN  /\ m \in Message /\ m.code = "CONNECTION_RESPONSE" /\ m.what = what
             /\ m.id = c.rsig /\ m.dst = c.cid /\ m.src = c.rcid
             /\ what # "ok" => ~Binds(m)
<1>1. /\ "CONNECTION_RESPONSE" \in Codes /\ "CONNECTION_RESPONSE" \notin Config
      /\ what \in Whats
  BY DEF Codes, Config, Whats
<1>2. c.rsig \in Nat /\ c.cid \in Nat /\ c.rcid \in Nat
  BY DEF Chan
<1>3. Command("CONNECTION_RESPONSE", c.rsig, c.cid, c.rcid, what) \in Message
  BY <1>1, <1>2, CommandIs
<1> QED BY <1>3 DEF Command, Binds, Config

(* Nothing happens.                                                        *)
LEMMA StaysMoves ==
  ASSUME NEW s, NEW q, Fine(s, q), NEW gone
  PROVE  Moves(s, s, q, gone)
BY DEF Moves, Keeps

(* l2cap_run sends a pending connection response for a channel.            *)
LEMMA RunAnswerPendingMoves ==
  ASSUME NEW s, NEW q, Fine(s, q), NEW c \in Members(s), c.state \in Asked
  PROVE  Moves(s, RunAnswerPending(s, c), q, {c.cid})
<1>1. CASE c.pend = "send" /\ CanSend(s, c.handle)
  <2> DEFINE d == [c EXCEPT !.pend = "sent"]
             m == Command("CONNECTION_RESPONSE", c.rsig, c.cid, c.rcid, "pending")
  <2>1. Core(s, q) /\ c \in Chan /\ Consistent(c)
    BY MemberIs DEF Fine
  <2>2. /\ d \in Chan /\ d.cid = c.cid /\ d.incoming = c.incoming /\ d.lsig = c.lsig
        /\ d.confRsp = c.confRsp /\ d.rcvdRsp = c.rcvdRsp /\ d.rtx = c.rtx /\ d.state = c.state
        /\ d.rcid = c.rcid /\ d.rsig = c.rsig /\ d.sentRsp = c.sentRsp
    BY <2>1 DEF Chan
  <2>3. m \in Message /\ m.code = "CONNECTION_RESPONSE" /\ ~Binds(m)
    BY <2>1, AnswerIs
  <2> HIDE DEF d, m
  <2>4. GoesOn(c, d) /\ (Unheard(d) => Unheard(c))
    BY <2>1, <2>2 DEF GoesOn, Early, Asking, Asked, Unheard, Consistent
  <2>5. Moves(s, Put(s, d), q, {})
    BY <2>2, <2>4, GoesOnMoves
  <2>6. Core(Put(s, d), q) /\ Keeps(s, Put(s, d), {c.cid})
    BY <2>5 DEF Moves, Fine, Keeps
  <2>7. Moves(s, Send(Put(s, d), m), q, {c.cid})
    BY <2>3, <2>6, FreeToSend, SendMoves
  <2> QED BY <1>1, <2>7 DEF RunAnswerPending, d, m
<1>2. CASE ~(c.pend = "send" /\ CanSend(s, c.handle))
  BY <1>2, StaysMoves DEF RunAnswerPending
<1> QED BY <1>1, <1>2

(* l2cap_run pages for a channel.                                          *)
LEMMA RunCreateConnectionMoves ==
  ASSUME NEW s, NEW q, Fine(s, q), NEW c \in Members(s),
         c.state = "WILL_SEND_CREATE_CONNECTION"
  PROVE  Moves(s, RunCreateConnection(s, c), q, {c.cid})
<1>1. CASE ~s.busy
  <2> DEFINE d == [c EXCEPT !.state = "WAIT_CONNECTION_COMPLETE"]
             t == Put(s, d)
             u == [t EXCEPT !.page = TRUE, !.busy = ~s.page]
  <2>1. Core(s, q) /\ c \in Chan /\ Consistent(c)
    BY MemberIs DEF Fine
  <2>2. GoesOn(c, d) /\ d.state = "WAIT_CONNECTION_COMPLETE" /\ Unheard(c)
    BY <2>1 DEF GoesOn, Chan, States, Early, Asking, Asked, Unheard, Consistent
  <2> HIDE DEF d
  <2>3. Moves(s, t, q, {}) /\ t.busy = s.busy
    <3>1. Moves(s, t, q, {})
      BY <2>2, GoesOnMoves DEF Announced
    <3>2. t.busy = s.busy
      BY <2>1 DEF Put, Core, Device
    <3> QED BY <3>1, <3>2
  <2>4. t \in Device /\ s.page \in BOOLEAN
    BY <2>3 DEF Moves, Fine, Core, Device
  <2> HIDE DEF t
  <2>5. /\ u \in Device /\ u.chans = t.chans /\ u.told = t.told /\ u.cid = t.cid
        /\ u.out = t.out /\ u.sig = t.sig
    BY <2>4 DEF Device
  <2> HIDE DEF u
  <2>6. Moves(s, u, q, {})
    BY <1>1, <2>3, <2>5, OwnMoves
  <2>7. RunCreateConnection(s, c) = u
    BY <1>1 DEF RunCreateConnection, d, t, u
  <2> QED BY <2>6, <2>7 DEF Moves, Keeps
<1>2. CASE s.busy
  BY <1>2, StaysMoves DEF RunCreateConnection
<1> QED BY <1>1, <1>2

(* l2cap_run refuses a channel and frees it.                               *)
LEMMA RunDeclineMoves ==
  ASSUME NEW s, NEW q, Fine(s, q), NEW c \in Members(s)
  PROVE  Moves(s, RunDecline(s, c), q, {c.cid})
<1> DEFINE m == Command("CONNECTION_RESPONSE", c.rsig, c.cid, c.rcid, "refused")
<1>1. c \in Chan /\ Has(s, c.cid) /\ Core(s, q)
  BY MemberIs DEF Fine
<1>2. m \in Message /\ m.code = "CONNECTION_RESPONSE" /\ ~Binds(m)
  BY <1>1, AnswerIs
<1> HIDE DEF m
<1>3. Core(Free(s, c.cid), q) /\ Keeps(s, Free(s, c.cid), {c.cid})
  BY <1>1, FreeKeeps
<1>4. Moves(s, Send(Free(s, c.cid), m), q, {c.cid})
  BY <1>2, <1>3, FreeToSend, SendMoves
<1> QED BY <1>4, StaysMoves DEF RunDecline, m

(* l2cap_run accepts a channel.                                            *)
LEMMA RunAcceptMoves ==
  ASSUME NEW s, NEW q, Fine(s, q), NEW c \in Members(s),
         c.state = "WILL_SEND_CONNECTION_RESPONSE_ACCEPT"
  PROVE  Moves(s, RunAccept(s, c), q, {c.cid})
<1> DEFINE d == [c EXCEPT !.state = "CONFIG", !.confReq = TRUE]
           m == Command("CONNECTION_RESPONSE", c.rsig, c.cid, c.rcid, "ok")
<1>1. /\ c \in Chan /\ Consistent(c) /\ Core(s, q)
      /\ c.cid \in Cids => Heard(c, s.told[c.cid])
  BY MemberIs DEF Fine
<1>2. /\ m \in Message /\ m.code = "CONNECTION_RESPONSE" /\ m.what = "ok"
      /\ m.id = c.rsig /\ m.dst = c.cid /\ m.src = c.rcid
  BY <1>1, AnswerIs
<1>3. d \in Chan
  <2>1. [c EXCEPT !.state = "CONFIG"] \in Chan
    BY <1>1, ChanUpdates DEF States
  <2> QED BY <2>1, ChanUpdates
<1>4. /\ d.cid = c.cid /\ d.incoming = c.incoming /\ d.lsig = c.lsig /\ d.state = "CONFIG"
      /\ d.confRsp = c.confRsp /\ d.rcvdRsp = c.rcvdRsp /\ d.rtx = c.rtx
      /\ d.rcid = c.rcid /\ d.rsig = c.rsig /\ d.sentRsp = c.sentRsp /\ d.confReq = TRUE
  BY <1>1 DEF Chan
<1> HIDE DEF d, m
<1>5. c.incoming /\ ~c.confRsp /\ ~c.rcvdRsp /\ c.lsig = NoId
  BY <1>1 DEF Consistent, Early, Asked
<1>6. Consistent(d) /\ ~Owes(d)
  BY <1>4, <1>5 DEF Consistent, Early, Asking, Asked, Owes
<1>7. d.cid \in Cids => Heard(d, s.told[d.cid])
  BY <1>1, <1>4, <1>5 DEF Heard, Unheard, Announced
<1>8. Suits(s, q, d) /\ (Fixed(c) => d.rcid # 0)
  <2>1. Fixed(c) => Fixed(d) /\ d.rcid # 0
    BY <1>4, <1>5 DEF Fixed, Early, Asking, Asked
  <2>2. d.state # "WAIT_CONNECT_RSP" /\ ~Unasked(d) /\ ~Considered(d) /\ ~Waits(d)
    BY <1>4 DEF Unasked, Considered, Waits, Early, Asking, Asked
  <2>3. Rests(c)
    BY DEF Rests, Early, Asked
  <2>4. Fixed(c) => Like(c, d)
    BY <1>4, <1>6, <2>1, <2>2, <2>3 DEF Like
  <2> QED BY <1>1, <2>1, <2>4, SuitsLike
<1>9. Fits(s, q, c, d)
  BY <1>1, <1>3, <1>4, <1>5, <1>6, <1>8, NoIdUnused DEF Fits
<1>10. /\ Core(Put(s, d), q) /\ Keeps(s, Put(s, d), {c.cid})
       /\ Members(Put(s, d)) = {e \in Members(s) : e.cid # d.cid} \cup {d}
  BY <1>1, <1>7, <1>9, PutKeeps DEF Keeps
<1>11. Sends(Put(s, d), q, m)
  <2>1. Mate(Put(s, d), q, c.cid, c.rcid)
    BY <1>1, <1>4, <1>8, <1>10 DEF Mate, Half, Core, Paired
  <2>2. ASSUME NEW e \in Members(q), e.state = "WAIT_CONNECT_RSP", e.lsig = c.rsig
        PROVE  c.rcid = e.cid
    <3>1. Considered(c)
      BY <1>5 DEF Considered
    <3>2. Owns(q, s, e)
      BY <1>1, <2>2 DEF Core, Paired
    <3> QED BY <2>2, <3>1, <3>2 DEF Owns
  <2> QED BY <1>2, <2>1, <2>2 DEF Sends
<1>12. Moves(s, Send(Put(s, d), m), q, {c.cid})
  BY <1>2, <1>10, <1>11, SendMoves
<1> QED BY <1>12, StaysMoves DEF RunAccept, d, m

(* The identifiers in use are those of commands under way.                 *)
LEMMA IdsAreOn ==
  ASSUME NEW out, NEW code, NEW m \in On(out, code)
  PROVE  m.id \in Ids(out, code) /\ m.code = code
BY DEF On, Ids

(* A channel suits that asks for a connection with a fresh identifier.     *)
LEMMA RequestSuits ==
  ASSUME NEW s, NEW q, Core(s, q), NEW c \in Members(s), Unasked(c), NEW d,
         d.cid = c.cid /\ d.rcid = c.rcid /\ d.sentRsp = c.sentRsp,
         d.state = "WAIT_CONNECT_RSP" /\ ~d.incoming /\ ~d.rcvdRsp,
         Fresh(s, q, d.lsig)
  PROVE  Suits(s, q, d) /\ Unmet(s, q, c.cid)
<1>1. Paired(s, q) /\ Paired(q, s) /\ c.cid \in 1..s.cid
  BY DEF Core, Local
<1>2. Unmet(s, q, c.cid)
  <2>1. ASSUME NEW y, Mate(s, q, c.cid, y) PROVE FALSE
    BY <1>1, <2>1 DEF Paired, Joins, Met
  <2> QED BY <1>1, <2>1 DEF Unmet, Paired, Asks
<1>3. d.rcid = 0 /\ Fixed(d)
  BY <1>1 DEF Paired, Fixed, Unasked, Early, Asking
<1>4. /\ ~Unasked(d) /\ ~Considered(d) /\ ~Waits(d) /\ ~Owes(d)
  BY DEF Unasked, Considered, Waits, Owes
<1>5. Owns(s, q, d)
  <2>1. d.lsig \notin Requested(s, q)
    BY DEF Fresh
  <2>2. \A m \in On(s.out, "CONNECTION_REQUEST") \cup Oks(q.out) : m.id # d.lsig
    BY <2>1, IdsAreOn DEF Requested, Oks
  <2> QED BY <2>1, <2>2 DEF Owns, Requested
<1>6. ASSUME NEW e \in Members(q), e.rcid = c.cid PROVE FALSE
  <2>1. c.cid # 0
    BY <1>1
  <2>2. Mate(s, q, c.cid, e.cid)
    BY <1>6, <2>1 DEF Mate, Half
  <2> QED BY <1>2, <2>2 DEF Unmet
<1>7. \A e \in Members(q) : Heeds(s, q, d, e)
  BY <1>4, <1>6 DEF Heeds
<1> QED BY <1>2, <1>3, <1>4, <1>5, <1>7 DEF Suits, Unmet

(* The request may be sent.                                                *)
LEMMA RequestSends ==
  ASSUME NEW s, NEW q, Core(s, q), NEW c \in Members(s), Unmet(s, q, c.cid), NEW d,
         d.cid = c.cid, d.state = "WAIT_CONNECT_RSP", d.rcid = 0, Fresh(s, q, d.lsig),
         NEW t, Core(t, q), OtherFields(s, t),
         Members(t) = {e \in Members(s) : e.cid # d.cid} \cup {d},
         NEW m, m.code = "CONNECTION_REQUEST", m.src = c.cid, m.id = d.lsig
  PROVE  Sends(t, q, m)
<1>1. \A y : ~Mate(t, q, c.cid, y)
  BY DEF Unmet, Mate, Half, OtherFields
<1>2. Unmet(t, q, c.cid)
  BY <1>1 DEF Unmet, OtherFields
<1>3. c.cid \in 1..t.cid
  BY DEF Core, Local
<1>4. Asks(t, q, c.cid)
  BY <1>2, <1>3 DEF Asks, Unmet, Unasked
<1>5. ASSUME NEW e \in Members(t), e.state = "WAIT_CONNECT_RSP", e.lsig = m.id
      PROVE  m.src = e.cid
  BY <1>5 DEF Fresh, Awaits
<1> QED BY <1>2, <1>4, <1>5 DEF Sends

(* l2cap_run requests a channel.                                           *)
LEMMA RunConnectionRequestMoves ==
  ASSUME NEW s, NEW q, Fine(s, q), NEW c \in Members(s),
         c.state = "WILL_SEND_CONNECTION_REQUEST"
  PROVE  Moves(s, RunConnectionRequest(s, c), q, {c.cid})
<1> DEFINE t == NextSigId(s)
           d == [c EXCEPT !.state = "WAIT_CONNECT_RSP", !.lsig = t.sig, !.rtx = TRUE]
           m == Command("CONNECTION_REQUEST", t.sig, 0, c.cid, c.psm)
<1>1. /\ c \in Chan /\ Consistent(c) /\ Core(s, q)
      /\ c.cid \in Cids => Heard(c, s.told[c.cid])
  BY MemberIs DEF Fine
<1>2. /\ Core(t, q) /\ Keeps(s, t, {}) /\ Members(t) = Members(s) /\ InUse(t, q) = InUse(s, q)
      /\ t.sig = NextId(s) /\ t.sig \in Nat /\ t.told = s.told
      /\ ~s.busy => Fresh(t, q, t.sig)
  BY <1>1, NextSigIdFacts
<1> HIDE DEF t
<1>3. CASE CanSend(s, c.handle)
  <2>1. m \in Message /\ m.code = "CONNECTION_REQUEST" /\ m.id = t.sig /\ m.src = c.cid
    <3>1. /\ "CONNECTION_REQUEST" \in Codes /\ "CONNECTION_REQUEST" \notin Config
          /\ c.psm \in Psms /\ c.psm \in Whats /\ c.cid \in Nat
      BY <1>1 DEF Codes, Config, Whats, Chan
    <3>2. m \in Message
      BY <1>2, <3>1, CommandIs
    <3> QED BY <3>2 DEF Command
  <2>2. d \in Chan
    <3>1. [c EXCEPT !.state = "WAIT_CONNECT_RSP"] \in Chan
      BY <1>1, ChanUpdates DEF States
    <3>2. [c EXCEPT !.state = "WAIT_CONNECT_RSP", !.lsig = t.sig] \in Chan
      BY <1>2, <3>1, ChanUpdates
    <3> QED BY <3>2, ChanUpdates
  <2>3. /\ d.cid = c.cid /\ d.incoming = c.incoming /\ d.lsig = t.sig
        /\ d.state = "WAIT_CONNECT_RSP"
        /\ d.confRsp = c.confRsp /\ d.rcvdRsp = c.rcvdRsp
        /\ d.rcid = c.rcid /\ d.sentRsp = c.sentRsp
    BY <1>1 DEF Chan
  <2> HIDE DEF d, m
  <2>4. ~c.incoming /\ ~c.confRsp /\ ~c.rcvdRsp /\ Unheard(c)
    BY <1>1 DEF Consistent, Early, Asking, Unheard
  <2>5. Consistent(d) /\ ~Owes(d)
    BY <2>3, <2>4 DEF Consistent, Early, Asking, Asked, Owes
  <2>6. d.cid \in Cids => Heard(d, t.told[d.cid])
    BY <1>1, <1>2, <2>3, <2>4 DEF Heard
  <2>7. Fresh(t, q, t.sig)
    BY <1>2, <1>3 DEF CanSend
  <2>8. Unasked(c) /\ (Fixed(c) => d.rcid = 0)
    BY <2>3, <2>4 DEF Unasked, Fixed, Early, Asking
  <2>9. Suits(t, q, d) /\ Unmet(t, q, c.cid)
    BY <1>2, <2>3, <2>4, <2>7, <2>8, RequestSuits
  <2>10. Fits(t, q, c, d)
    BY <2>2, <2>3, <2>5, <2>7, <2>9 DEF Fits, Fresh
  <2>11. /\ Core(Put(t, d), q) /\ Keeps(t, Put(t, d), {}) /\ OtherFields(t, Put(t, d))
         /\ Members(Put(t, d)) = {e \in Members(t) : e.cid # d.cid} \cup {d}
    BY <1>2, <2>6, <2>10, PutKeeps
  <2>12. Keeps(s, Put(t, d), {c.cid})
    BY <1>2, <2>11 DEF Keeps
  <2>13. Sends(Put(t, d), q, m)
    <3>1. d.rcid = 0
      BY <1>1, <2>8 DEF Core, Paired
    <3> QED BY <1>2, <2>1, <2>3, <2>7, <2>9, <2>11, <3>1, RequestSends
  <2>14. Moves(s, Send(Put(t, d), m), q, {c.cid})
    BY <2>1, <2>11, <2>12, <2>13, SendMoves
  <2> QED BY <1>3, <2>14 DEF RunConnectionRequest, t, d, m
<1>4. CASE ~CanSend(s, c.handle)
  BY <1>4, StaysMoves DEF RunConnectionRequest
<1> QED BY <1>3, <1>4

(* A channel suits that asks for a configuration with a fresh identifier.  *)
LEMMA AsksSuits ==
  ASSUME NEW s, NEW q, Core(s, q), NEW c \in Members(s), c.state = "CONFIG", c.confReq,
         ~c.rcvdRsp, NEW d,
         d.cid = c.cid /\ d.rcid = c.rcid /\ d.incoming = c.incoming /\ d.rsig = c.rsig,
         d.sentRsp = c.sentRsp /\ ~d.rcvdRsp /\ d.confRsp = c.confRsp,
         d.state = "CONFIG" /\ ~d.confReq, Fresh(s, q, d.lsig)
  PROVE  Suits(s, q, d)
<1>1. Paired(s, q) /\ Paired(q, s)
  BY DEF Core
<1>2. Suits(s, q, c)
  BY <1>1, SuitsLike DEF Like
<1>3. Fixed(d) /\ d.rcid # 0
  BY <1>1 DEF Paired, Fixed, Early, Asking, Asked
<1>4. /\ ~Unasked(d) /\ ~Considered(d) /\ ~Rests(d) /\ (Owes(d) <=> Owes(c))
  BY DEF Unasked, Considered, Rests, Owes, Early, Asking, Asked
<1>5. Spared(s, q, c.rcid)
  BY <1>2, <1>3 DEF Suits, Rests
<1>6. Expects(s, q, d)
  <2>1. d.lsig \notin InUse(s, q)
    BY DEF Fresh
  <2>2. \A m \in On(s.out, "CONFIGURE_REQUEST") : m.dst # d.rcid /\ m.id # d.lsig
    BY <1>5, <2>1, IdsAreOn DEF InUse, Spared, Unsent
  <2>3. \A e \in Members(q) : Owes(e) => e.cid # d.rcid /\ e.rsig # d.lsig
    BY <1>5, <2>1 DEF InUse, Owed, Spared
  <2>4. \A m \in On(q.out, "CONFIGURE_RESPONSE") : m.id # d.lsig
    BY <2>1, IdsAreOn DEF InUse
  <2> QED BY <2>2, <2>3, <2>4 DEF Expects
<1>7. \A e \in Members(q) : Heeds(s, q, d, e)
  BY <1>2, <1>4 DEF Suits, Heeds
<1> QED BY <1>2, <1>3, <1>4, <1>6, <1>7 DEF Suits

(* The device asks, with a fresh identifier.                               *)
LEMMA ConfigureRequestFacts ==
  ASSUME NEW s, NEW q, Fine(s, q), ~s.busy, NEW c \in Members(s), c.state = "CONFIG", c.confReq
  PROVE  /\ Fine(ConfigureRequest(s, c), q) /\ Keeps(s, ConfigureRequest(s, c), {})
         /\ Channel(ConfigureRequest(s, c), c.cid).state = "CONFIG"
<1> DEFINE t == NextSigId(s)
           d == [c EXCEPT !.confReq = FALSE, !.lsig = t.sig, !.rtx = TRUE]
           u == Put(t, d)
           what == IF c.odd THEN "unknown" ELSE "ok"
           m == Command("CONFIGURE_REQUEST", t.sig, c.rcid, 0, what)
<1>1. /\ c \in Chan /\ Consistent(c) /\ Core(s, q) /\ c.rcid \in Nat
      /\ c.cid \in Cids => Heard(c, s.told[c.cid])
  BY MemberIs DEF Fine
<1>2. /\ Core(t, q) /\ Keeps(s, t, {}) /\ Members(t) = Members(s) /\ InUse(t, q) = InUse(s, q)
      /\ t.sig = NextId(s) /\ t.sig \in Nat /\ t.sig > 0 /\ t.told = s.told
  BY <1>1, NextSigIdFacts
<1>3. Fresh(t, q, t.sig)
  BY <1>1, <1>2, NextSigIdFacts
<1> HIDE DEF t
<1>4. m \in Message /\ m.code = "CONFIGURE_REQUEST" /\ m.id = t.sig /\ m.dst = c.rcid
  <2>1. "CONFIGURE_REQUEST" \in Codes /\ what \in Whats
    BY DEF Codes, Whats
  <2> HIDE DEF what
  <2>2. m \in Message
    BY <1>1, <1>2, <2>1, CommandIs
  <2> QED BY <2>2 DEF Command
<1>5. d \in Chan
  <2>1. [c EXCEPT !.confReq = FALSE] \in Chan
    BY <1>1, ChanUpdates
  <2>2. [c EXCEPT !.confReq = FALSE, !.lsig = t.sig] \in Chan
    BY <1>2, <2>1, ChanUpdates
  <2> QED BY <2>2, ChanUpdates
<1>6. /\ d.cid = c.cid /\ d.incoming = c.incoming /\ d.state = "CONFIG" /\ d.confReq = FALSE
      /\ d.confRsp = c.confRsp /\ d.rcvdRsp = c.rcvdRsp /\ d.rsig = c.rsig
      /\ d.rcid = c.rcid /\ d.sentRsp = c.sentRsp /\ d.lsig = t.sig
  BY <1>1 DEF Chan
<1> HIDE DEF d, m
<1>7. ~c.rcvdRsp
  BY <1>1 DEF Consistent
<1>8. Consistent(d) /\ ~Still(d) /\ (Owes(d) => Owes(c))
  BY <1>1, <1>6, <1>7 DEF Consistent, Early, Asking, Asked, Owes, Still
<1>9. d.cid \in Cids => Heard(d, t.told[d.cid])
  BY <1>1, <1>2, <1>6 DEF Heard, Unheard
<1>10. Fits(t, q, c, d)
  <2>1. Suits(t, q, d)
    BY <1>2, <1>3, <1>6, <1>7, AsksSuits
  <2> QED BY <1>5, <1>6, <1>8, <2>1 DEF Fits
<1>11. /\ Core(u, q) /\ Keeps(t, u, {}) /\ OtherFields(t, u) /\ Channel(u, d.cid) = d
       /\ Members(u) = {e \in Members(t) : e.cid # d.cid} \cup {d}
  BY <1>2, <1>9, <1>10, PutKeeps
<1> HIDE DEF u
<1>12. Unused(u, q, t.sig)
  <2>1. InUse(u, q) = InUse(t, q)
    BY <1>11 DEF InUse, OtherFields
  <2> QED BY <1>3, <1>8, <1>11, <2>1, FreshIsUnused DEF Unused
<1>13. Sends(u, q, m)
  <2>1. d \in Members(u) /\ Waits(d)
    BY <1>6, <1>7, <1>11 DEF Waits
  <2>2. \A e \in Members(u) : e.cid = d.cid \/ (Waits(e) /\ e.lsig = t.sig) => e = d
    BY <1>3, <1>11 DEF Fresh, Awaits, Waits
  <2> QED BY <1>4, <1>6, <2>1, <2>2 DEF Sends
<1>14. Fine(Send(u, m), q) /\ Send(u, m).chans = u.chans
  BY <1>4, <1>11, <1>12, <1>13, SendFacts
<1>15. Send(u, m) = ConfigureRequest(s, c)
  BY DEF ConfigureRequest, t, d, u, m
<1>16. Channel(Send(u, m), c.cid).state = "CONFIG"
  BY <1>6, <1>11, <1>14 DEF Channel, Place
<1>17. Keeps(s, Send(u, m), {})
  BY <1>2, <1>11, <1>14 DEF Keeps, Has
<1> QED BY <1>14, <1>15, <1>16, <1>17

(* A channel suits that has answered.                                      *)
LEMMA AnswersSuits ==
  ASSUME NEW s, NEW q, Core(s, q), NEW c \in Members(s), Owes(c), NEW d,
         d.cid = c.cid /\ d.rcid = c.rcid /\ d.incoming = c.incoming /\ d.lsig = c.lsig,
         d.rcvdRsp = c.rcvdRsp /\ d.confReq = c.confReq /\ ~d.confRsp, d.state = "CONFIG"
  PROVE  Suits(s, q, d)
<1>1. Paired(s, q) /\ Paired(q, s) /\ Once(q, s)
  BY DEF Core
<1>2. Suits(s, q, c) /\ c.state = "CONFIG"
  BY <1>1, SuitsLike DEF Like, Owes
<1>3. Fixed(d)
  BY <1>1, <1>2 DEF Paired, Fixed, Early, Asking, Asked
<1>4. /\ ~Unasked(d) /\ ~Considered(d) /\ ~Owes(d)
      /\ (Rests(d) => Rests(c)) /\ (Waits(d) => Waits(c))
  BY <1>2 DEF Unasked, Considered, Rests, Owes, Waits, Early, Asking, Asked
<1>5. Expects(s, q, c) => Expects(s, q, d)
  BY DEF Expects, Accepted
<1>6. Accepted(q, c) => Accepted(q, d)
  BY DEF Accepted
<1>7. ASSUME NEW e \in Members(q) PROVE Heeds(s, q, d, e)
  <2>1. ASSUME e.rcid = c.cid, e.rcvdRsp PROVE FALSE
    <3>1. c.cid # 0
      BY DEF Core, Local
    <3>2. Mate(s, q, c.cid, e.cid)
      BY <2>1, <3>1 DEF Mate, Half
    <3>3. Heeds(s, q, c, e)
      BY <1>2 DEF Suits
    <3> QED BY <2>1, <3>2, <3>3 DEF Heeds, Rests
  <2>2. ASSUME e.rcid = c.cid, Waits(e), NEW m \in On(s.out, "CONFIGURE_RESPONSE"), m.id = e.lsig
        PROVE  FALSE
    <3>1. c.rsig = m.id
      BY <1>2, <2>2 DEF Suits, Heeds
    <3>2. m.id \in Owed(s)
      BY <3>1 DEF Owed
    <3> QED BY <1>1, <3>2, IdsAreOn DEF Once
  <2> QED BY <1>4, <2>1, <2>2 DEF Heeds
<1> QED BY <1>2, <1>3, <1>4, <1>5, <1>6, <1>7 DEF Suits

(* The device answers, and has not to answer any more.                     *)
LEMMA ConfigureResponseFacts ==
  ASSUME NEW s, NEW q, Fine(s, q), NEW c \in Members(s), Owes(c)
  PROVE  /\ Fine(ConfigureResponse(s, c), q) /\ Keeps(s, ConfigureResponse(s, c), {})
         /\ Channel(ConfigureResponse(s, c), c.cid).state = "CONFIG"
<1> DEFINE d == [c EXCEPT !.confRsp = FALSE, !.sentRsp = ~c.invalid]
           u == Put(s, d)
           what == IF c.invalid THEN "unknown" ELSE "ok"
           m == Command("CONFIGURE_RESPONSE", c.rsig, c.rcid, 0, what)
<1>1. /\ c \in Chan /\ Consistent(c) /\ Core(s, q) /\ c.rcid \in Nat /\ c.rsig \in Nat
      /\ c.cid \in Cids => Heard(c, s.told[c.cid])
  BY MemberIs DEF Fine
<1>2. c.rsig > 0 /\ c.state = "CONFIG"
  BY <1>1 DEF Consistent, Owes
<1>3. m \in Message /\ m.code = "CONFIGURE_RESPONSE" /\ m.id = c.rsig /\ m.what = what
  <2>1. "CONFIGURE_RESPONSE" \in Codes /\ what \in Whats
    BY DEF Codes, Whats
  <2> HIDE DEF what
  <2>2. m \in Message
    BY <1>1, <1>2, <2>1, CommandIs
  <2> QED BY <2>2 DEF Command
<1>4. d \in Chan
  <2>1. [c EXCEPT !.confRsp = FALSE] \in Chan
    BY <1>1, ChanUpdates
  <2>2. c.invalid \in BOOLEAN
    BY <1>1 DEF Chan
  <2> QED BY <2>1, <2>2, ChanUpdates
<1>5. /\ d.cid = c.cid /\ d.incoming = c.incoming /\ d.state = "CONFIG"
      /\ d.confReq = c.confReq /\ d.confRsp = FALSE /\ d.rcvdRsp = c.rcvdRsp
      /\ d.lsig = c.lsig /\ d.rtx = c.rtx /\ d.rcid = c.rcid /\ (what = "ok" => d.sentRsp)
  BY <1>1, <1>2 DEF Chan
<1> HIDE DEF d, m, what
<1>6. Consistent(d) /\ ~Owes(d) /\ (Still(d) => Still(c))
  BY <1>1, <1>2, <1>5 DEF Consistent, Early, Asking, Asked, Owes, Still
<1>7. d.cid \in Cids => Heard(d, s.told[d.cid])
  BY <1>1, <1>2, <1>5 DEF Heard, Unheard
<1>8. Fits(s, q, c, d)
  <2>1. Suits(s, q, d)
    BY <1>1, <1>5, AnswersSuits
  <2> QED BY <1>1, <1>4, <1>5, <1>6, <2>1 DEF Fits, Core, AtRest
<1>9. /\ Core(u, q) /\ Keeps(s, u, {}) /\ OtherFields(s, u) /\ Channel(u, d.cid) = d
      /\ Members(u) = {e \in Members(s) : e.cid # d.cid} \cup {d}
  BY <1>1, <1>7, <1>8, PutKeeps
<1> HIDE DEF u
<1>10. c.rsig \in Owed(s) /\ c.rsig \notin Owed(u)
  <2>1. c.rsig \in Owed(s)
    BY DEF Owed
  <2>2. ASSUME NEW e \in Members(u), Owes(e) PROVE e.rsig # c.rsig
    <3>1. e \in Members(s) /\ e.cid # c.cid
      BY <1>5, <1>6, <1>9, <2>2
    <3> QED BY <1>1, <2>2, <3>1 DEF Core, Once
  <2> QED BY <2>1, <2>2 DEF Owed
<1>11. Unused(q, u, c.rsig)
  BY <1>1, <1>9, <1>10 DEF Unused, InUse, OtherFields, Core, Once, AtRest
<1>12. Fine(Send(u, m), q) /\ Send(u, m).chans = u.chans
  <2>1. ASSUME what = "ok", NEW e \in Members(q), Waits(e), e.lsig = c.rsig
        PROVE  Accepted(u, e)
    <3>1. Expects(q, s, e)
      BY <1>1, <2>1 DEF Core, Paired
    <3>2. e.rcid = c.cid
      BY <2>1, <3>1 DEF Expects
    <3> QED BY <1>5, <1>9, <2>1, <3>2 DEF Accepted
  <2>2. Sends(u, q, m)
    BY <1>3, <2>1 DEF Sends
  <2> QED BY <1>3, <1>9, <1>11, <2>2, SendFacts
<1>13. Send(u, m) = ConfigureResponse(s, c)
  BY DEF ConfigureResponse, d, u, m, what
<1>14. Channel(Send(u, m), c.cid).state = "CONFIG"
  BY <1>5, <1>9, <1>12 DEF Channel, Place
<1>15. Keeps(s, Send(u, m), {})
  BY <1>9, <1>12 DEF Keeps, Has
<1> QED BY <1>12, <1>13, <1>14, <1>15

(* l2cap_run answers or requests a configuration, and opens.               *)
LEMMA RunConfigMoves ==
  ASSUME NEW s, NEW q, Fine(s, q), NEW cid, Has(s, cid), Channel(s, cid).state = "CONFIG"
  PROVE  Moves(s, RunConfig(s, Channel(s, cid)), q, {cid})
<1> DEFINE c == Channel(s, cid)
           t == IF c.confRsp THEN ConfigureResponse(s, c)
                ELSE IF c.confReq THEN ConfigureRequest(s, c) ELSE s
<1>1. c \in Members(s) /\ c.cid = cid /\ c.state = "CONFIG"
  BY ChannelIs DEF Fine
<1> HIDE DEF c
<1>2. CASE CanSend(s, c.handle)
  <2>1. ~s.busy
    BY <1>2 DEF CanSend
  <2>2. Fine(t, q) /\ Keeps(s, t, {}) /\ Channel(t, cid).state = "CONFIG"
    <3>1. CASE c.confRsp
      BY <1>1, <3>1, ConfigureResponseFacts DEF Owes
    <3>2. CASE ~c.confRsp /\ c.confReq
      BY <1>1, <2>1, <3>2, ConfigureRequestFacts
    <3>3. CASE ~c.confRsp /\ ~c.confReq
      BY <3>3, StaysMoves DEF Moves
    <3> QED BY <3>1, <3>2, <3>3
  <2> HIDE DEF t
  <2>3. Has(t, cid)
    BY <2>2 DEF Keeps
  <2>4. Fine(OpenIfReady(t, cid), q) /\ Keeps(t, OpenIfReady(t, cid), {})
    BY <2>2, <2>3, OpenMoves DEF Fine
  <2>5. RunConfig(s, c) = OpenIfReady(t, cid)
    BY <1>1, <1>2 DEF RunConfig, t
  <2> QED BY <2>2, <2>4, <2>5 DEF Moves, Keeps, c
<1>3. CASE ~CanSend(s, c.handle)
  BY <1>3, StaysMoves DEF RunConfig, c
<1> QED BY <1>2, <1>3

(* l2cap_run answers a disconnect request and frees the channel.           *)
LEMMA RunDisconnectResponseMoves ==
  ASSUME NEW s, NEW q, Fine(s, q), NEW c \in Members(s)
  PROVE  Moves(s, RunDisconnectResponse(s, c), q, {c.cid})
<1> DEFINE t == Free(Tell(s, c, "closed"), c.cid)
           m == Command("DISCONNECTION_RESPONSE", c.rsig, c.cid, c.rcid, "")
<1>1. /\ c \in Chan /\ Core(s, q) /\ c.cid \in Nat /\ c.rcid \in Nat /\ c.rsig \in Nat
      /\ c.cid \in Cids => Heard(c, s.told[c.cid])
  BY MemberIs DEF Fine
<1>2. m \in Message /\ m.code = "DISCONNECTION_RESPONSE" /\ ~Binds(m)
  <2>1. /\ "DISCONNECTION_RESPONSE" \in Codes /\ "DISCONNECTION_RESPONSE" \notin Config
        /\ "" \in Whats
    BY DEF Codes, Config, Whats
  <2>2. m \in Message
    BY <1>1, <2>1, CommandIs
  <2> QED BY <2>2 DEF Command, Binds, Config
<1>3. c.cid \in Cids => s.told[c.cid] \in Follows(c, "closed")
  BY <1>1 DEF Heard, Follows
<1> HIDE DEF m
<1>4. Core(t, q) /\ Keeps(s, t, {c.cid})
  BY <1>1, <1>3, EndKeeps
<1> HIDE DEF t
<1>5. Moves(s, Send(t, m), q, {c.cid})
  BY <1>2, <1>4, FreeToSend, SendMoves
<1> QED BY <1>5, StaysMoves DEF RunDisconnectResponse, t, m

(* l2cap_run requests a disconnect.                                        *)
LEMMA RunDisconnectRequestMoves ==
  ASSUME NEW s, NEW q, Fine(s, q), NEW c \in Members(s),
         c.state = "WILL_SEND_DISCONNECT_REQUEST"
  PROVE  Moves(s, RunDisconnectRequest(s, c), q, {c.cid})
<1> DEFINE t == NextSigId(s)
           d == [c EXCEPT !.state = "WAIT_DISCONNECT", !.lsig = t.sig]
           m == Command("DISCONNECTION_REQUEST", t.sig, c.rcid, c.cid, "")
<1>1. /\ c \in Chan /\ Consistent(c) /\ Core(s, q) /\ c.cid \in Nat /\ c.rcid \in Nat
      /\ c.cid \in Cids => Heard(c, s.told[c.cid])
  BY MemberIs DEF Fine
<1>2. /\ Core(t, q) /\ Keeps(s, t, {}) /\ Members(t) = Members(s)
      /\ t.sig \in Nat /\ t.told = s.told
  BY <1>1, NextSigIdFacts
<1> HIDE DEF t
<1>3. m \in Message /\ m.code = "DISCONNECTION_REQUEST" /\ ~Binds(m)
  <2>1. /\ "DISCONNECTION_REQUEST" \in Codes /\ "DISCONNECTION_REQUEST" \notin Config
        /\ "" \in Whats
    BY DEF Codes, Config, Whats
  <2>2. m \in Message
    BY <1>1, <1>2, <2>1, CommandIs
  <2> QED BY <2>2 DEF Command, Binds, Config
<1>4. d \in Chan
  <2>1. [c EXCEPT !.state = "WAIT_DISCONNECT"] \in Chan
    BY <1>1, ChanUpdates DEF States
  <2> QED BY <1>2, <2>1, ChanUpdates
<1>5. /\ d.cid = c.cid /\ d.incoming = c.incoming /\ d.state = "WAIT_DISCONNECT"
      /\ d.rtx = c.rtx /\ d.rcid = c.rcid /\ d.sentRsp = c.sentRsp /\ d.rcvdRsp = c.rcvdRsp
  BY <1>1 DEF Chan
<1> HIDE DEF d, m
<1>6. Consistent(d) /\ ~Still(d) /\ ~Owes(d)
  BY <1>5 DEF Consistent, Early, Asking, Asked, Owes, Still
<1>7. d.cid \in Cids => Heard(d, t.told[d.cid])
  BY <1>1, <1>2, <1>5 DEF Heard, Unheard, Asking, Announced
<1>8. Fits(t, q, c, d)
  <2>1. Suits(t, q, d)
    BY <1>2, <1>5, LeavesSuits DEF Early, Asking, Asked
  <2> QED BY <1>4, <1>5, <1>6, <2>1 DEF Fits
<1>9. Core(Put(t, d), q) /\ Keeps(t, Put(t, d), {})
  BY <1>2, <1>7, <1>8, PutKeeps
<1>10. Keeps(s, Put(t, d), {c.cid})
  BY <1>2, <1>9 DEF Keeps
<1>11. Moves(s, Send(Put(t, d), m), q, {c.cid})
  BY <1>3, <1>9, <1>10, FreeToSend, SendMoves
<1> QED BY <1>11, StaysMoves DEF RunDisconnectRequest, t, d, m

(* l2cap_run visits a channel.                                             *)
LEMMA RunChannelMoves ==
  ASSUME NEW s, NEW q, Fine(s, q), NEW cid, Has(s, cid)
  PROVE  Moves(s, RunChannel(s, cid), q, {cid})
<1> DEFINE c == Channel(s, cid)
<1>1. c \in Members(s) /\ c.cid = cid /\ c \in Chan
  BY ChannelIs DEF Fine
<1>2. CASE c.state \in {"WAIT_INCOMING_SECURITY_LEVEL_UPDATE", "WAIT_CLIENT_ACCEPT_OR_REJECT"}
  <2>1. c.state \in Asked
    BY <1>2 DEF Asked
  <2> HIDE DEF c
  <2>2. Moves(s, RunAnswerPending(s, c), q, {cid})
    BY <1>1, <2>1, RunAnswerPendingMoves
  <2> QED BY <1>2, <2>2 DEF RunChannel, c
<1>3. CASE c.state = "WILL_SEND_CREATE_CONNECTION"
  <2> HIDE DEF c
  <2>1. Moves(s, RunCreateConnection(s, c), q, {cid})
    BY <1>1, <1>3, RunCreateConnectionMoves
  <2> QED BY <1>3, <2>1 DEF RunChannel, c
<1>4. CASE c.state = "WILL_SEND_CONNECTION_RESPONSE_DECLINE"
  <2> HIDE DEF c
  <2>1. Moves(s, RunDecline(s, c), q, {cid})
    BY <1>1, RunDeclineMoves
  <2> QED BY <1>4, <2>1 DEF RunChannel, c
<1>5. CASE c.state = "WILL_SEND_CONNECTION_RESPONSE_ACCEPT"
  <2> HIDE DEF c
  <2>1. Moves(s, RunAccept(s, c), q, {cid})
    BY <1>1, <1>5, RunAcceptMoves
  <2> QED BY <1>5, <2>1 DEF RunChannel, c
<1>6. CASE c.state = "WILL_SEND_CONNECTION_REQUEST"
  <2> HIDE DEF c
  <2>1. Moves(s, RunConnectionRequest(s, c), q, {cid})
    BY <1>1, <1>6, RunConnectionRequestMoves
  <2> QED BY <1>6, <2>1 DEF RunChannel, c
<1>7. CASE c.state = "CONFIG"
  <2>1. Moves(s, RunConfig(s, c), q, {cid})
    BY <1>7, RunConfigMoves
  <2> HIDE DEF c
  <2> QED BY <1>7, <2>1 DEF RunChannel, c
<1>8. CASE c.state = "WILL_SEND_DISCONNECT_RESPONSE"
  <2> HIDE DEF c
  <2>1. Moves(s, RunDisconnectResponse(s, c), q, {cid})
    BY <1>1, RunDisconnectResponseMoves
  <2> QED BY <1>8, <2>1 DEF RunChannel, c
<1>9. CASE c.state = "WILL_SEND_DISCONNECT_REQUEST"
  <2> HIDE DEF c
  <2>1. Moves(s, RunDisconnectRequest(s, c), q, {cid})
    BY <1>1, <1>9, RunDisconnectRequestMoves
  <2> QED BY <1>9, <2>1 DEF RunChannel, c
<1>10. CASE c.state \in {"WAIT_CONNECTION_COMPLETE", "WAIT_REMOTE_SUPPORTED_FEATURES",
                         "WAIT_OUTGOING_SECURITY_LEVEL_UPDATE", "WAIT_CONNECT_RSP", "OPEN",
                         "WAIT_DISCONNECT"}
  <2> HIDE DEF c
  <2>1. RunChannel(s, cid) = s
    BY <1>10 DEF RunChannel, c
  <2> QED BY <2>1, StaysMoves
<1>11. c.state \in States
  BY <1>1 DEF Chan
<1> HIDE DEF c
<1> QED BY <1>2, <1>3, <1>4, <1>5, <1>6, <1>7, <1>8, <1>9, <1>10, <1>11 DEF States

(* The loop of Run.                                                         *)
LEMMA RunChannelLoop ==
  ASSUME NEW s, NEW q, Fine(s, q)
  PROVE  Fine(ForEach(s, RunChannel), q)
<1> DEFINE n == Len(s.chans)
           R == [i \in 1..n |-> [t \in Good(q) |-> RunChannel(t, s.chans[i].cid)]]
<1>1. n \in Nat
  BY LenProperties DEF Fine, Core, Device
<1>2. \A i \in 1..n, t \in Good(q) : R[i][t] = RunChannel(t, s.chans[i].cid)
  OBVIOUS
<1>3. Step(s, Good(q), R)
  BY <1>2, RunChannelMoves DEF Step, Moves, Keeps, Good, Fine, Core
<1> HIDE DEF R
<1>4. PICK g : Passes(s, q, R, g)
  BY <1>3, LoopGood
<1>5. g = [i \in 0..n |-> IF i = 0 THEN s ELSE RunChannel(g[i - 1], s.chans[i].cid)]
  <2>1. \A i \in 0..n : i # 0 => i \in 1..n /\ g[i - 1] \in Good(q)
    <3>1. \A i \in 0..n : i # 0 => i \in 1..n /\ i - 1 \in 0..n
      BY <1>1
    <3> QED BY <1>4, <3>1 DEF Passes
  <2>2. \A i \in 0..n : i # 0 => R[i][g[i - 1]] = RunChannel(g[i - 1], s.chans[i].cid)
    BY <1>2, <2>1
  <2> QED BY <1>4, <2>2 DEF Passes
<1>6. PICK h :
        /\ h = [i \in 0..n |-> IF i = 0 THEN s ELSE RunChannel(h[i - 1], s.chans[i].cid)]
        /\ ForEach(s, RunChannel) = h[n]
  BY <1>5 DEF ForEach
<1>7. Steps(s, Good(q), R, h)
  <2>1. 0 \in 0..n /\ \A i \in 1..n : i \in 0..n /\ i # 0
    BY <1>1
  <2> QED BY <1>2, <1>6, <2>1 DEF Steps
<1> QED BY <1>3, <1>6, <1>7, LoopGood

(* l2cap_run, which ends every handler.                                    *)
LEMMA RunKeeps ==
  ASSUME NEW s, NEW q, Fine(s, q)
  PROVE  Core(Run(s), q)
<1>1. Fine(RunInformation(RunResponses(s)), q)
  BY RunResponsesKeeps, RunInformationKeeps
<1>2. Fine(Run(s), q)
  BY <1>1, RunChannelLoop DEF Run
<1> QED BY <1>2 DEF Fine

----------------------------------------------------------------------------
(* Commands of the peer                                                    *)

(* A response of the device waits to be sent.                              *)
LEMMA RegisterKeeps ==
  ASSUME NEW s, NEW q, Fine(s, q), NEW m \in Message, ~Binds(m)
  PROVE  Fine(Register(s, m), q)
<1>1. CASE Len(s.resp) < MaxResponses
  <2> DEFINE r == [handle |-> s.acl, command |-> m]
             t == [s EXCEPT !.resp = Append(@, r)]
  <2>1. s \in Device /\ s.resp \in Seq(Pending) /\ s.acl \in Nat
    BY DEF Fine, Core, Device
  <2>2. r \in Pending
    BY <2>1 DEF Pending
  <2> HIDE DEF r
  <2>3. Append(s.resp, r) \in Seq(Pending)
    BY <2>1, <2>2, AppendProperties
  <2>4. /\ t \in Device /\ t.chans = s.chans /\ t.told = s.told /\ t.cid = s.cid
        /\ t.out = s.out /\ t.sig = s.sig /\ t.busy = s.busy
    BY <2>1, <2>3 DEF Device
  <2> HIDE DEF t
  <2>5. Fine(t, q)
    BY <2>4, SameKeeps DEF Fine
  <2> QED BY <1>1, <2>5 DEF Register, t, r
<1>2. CASE ~(Len(s.resp) < MaxResponses)
  BY <1>2 DEF Register
<1> QED BY <1>1, <1>2

(* No channel of the peer is bound to one that is not there yet.           *)
LEMMA NoneYet ==
  ASSUME NEW s, NEW q, Core(s, q), NEW x, x = s.cid + 1
  PROVE  /\ \A y : ~Mate(s, q, x, y)
         /\ \A m \in On(s.out, "CONNECTION_REQUEST") : m.src # x
         /\ Unsent(q.out, x) /\ \A c \in Members(s) : c.cid # x
         /\ \A c \in Members(q) : c.rcid # x
<1>1. Paired(s, q) /\ Paired(q, s) /\ s.cid \in Nat
  BY DEF Core, Device
<1>2. x \notin 1..s.cid /\ x # 0
  BY <1>1
<1>3. \A y : ~Mate(s, q, x, y)
  BY <1>1, <1>2 DEF Paired
<1>4. \A m \in On(s.out, "CONNECTION_REQUEST") : m.src # x
  BY <1>1, <1>2 DEF Paired, Asks
<1>5. Unsent(q.out, x)
  BY <1>1, <1>2 DEF Paired, Unsent
<1>6. \A c \in Members(s) : c.cid # x
  BY <1>2 DEF Core, Local
<1>7. \A c \in Members(q) : c.rcid = x => Mate(s, q, x, c.cid)
  BY <1>2 DEF Mate, Half
<1> QED BY <1>3, <1>4, <1>5, <1>6, <1>7

(* A channel suits that its client creates.                                *)
LEMMA CreatedSuits ==
  ASSUME NEW s, NEW q, Core(s, q), NEW d, d.cid = s.cid + 1, d.rcid = 0, ~d.incoming,
         d.state = "WILL_SEND_CREATE_CONNECTION", ~d.sentRsp /\ ~d.rcvdRsp
  PROVE  Suits(s, q, d)
<1>1. /\ Unmet(s, q, d.cid)
      /\ \A c \in Members(q) : c.rcid # d.cid
  BY NoneYet DEF Unmet
<1>2. Fixed(d) /\ ~Considered(d) /\ ~Waits(d) /\ ~Owes(d)
  BY DEF Fixed, Considered, Waits, Owes
<1>3. \A c \in Members(q) : Heeds(s, q, d, c)
  BY <1>1, <1>2 DEF Heeds
<1> QED BY <1>1, <1>2, <1>3 DEF Suits, Unmet

(* A channel suits that the peer has requested.                            *)
LEMMA RequestedSuits ==
  ASSUME NEW s, NEW q, Core(s, q), NEW m, m.code = "CONNECTION_REQUEST", Binding(s, q, m),
         NEW d, d.cid = s.cid + 1, d.rcid = m.src, d.rsig = m.id, d.incoming,
         d.state = "WAIT_REMOTE_SUPPORTED_FEATURES", ~d.sentRsp /\ ~d.rcvdRsp
  PROVE  Suits(s, q, d)
<1>1. /\ Unmet(q, s, m.src) /\ Asks(q, s, m.src)
      /\ \A c \in Members(q) : c.state = "WAIT_CONNECT_RSP" /\ c.lsig = m.id => m.src = c.cid
  BY DEF Binding
<1>2. /\ \A y : ~Mate(s, q, d.cid, y)
      /\ \A k \in On(s.out, "CONNECTION_REQUEST") : k.src # d.cid
      /\ Unsent(q.out, d.cid) /\ \A c \in Members(s) : c.cid # d.cid
      /\ \A c \in Members(q) : c.rcid # d.cid
  BY NoneYet
<1>3. m.src \in 1..q.cid /\ m.src > 0
  BY <1>1 DEF Asks, Core, Device
<1>4. Fixed(d) /\ ~Unasked(d) /\ ~Waits(d) /\ ~Owes(d)
  BY <1>3 DEF Fixed, Unasked, Waits, Owes
<1>5. \A c \in Members(q) : Heeds(s, q, d, c)
  BY <1>2, <1>4 DEF Heeds
<1>6. Spared(s, q, m.src)
  <2>1. ASSUME NEW c \in Members(q), Owes(c), c.cid = m.src PROVE FALSE
    <3>1. c.rcid # 0
      BY <2>1 DEF Core, Paired, Fixed, Owes
    <3>2. Mate(q, s, m.src, c.rcid)
      BY <2>1, <3>1 DEF Mate, Half
    <3> QED BY <1>1, <3>2 DEF Unmet
  <2> QED BY <1>1, <2>1 DEF Spared, Asks
<1>7. Joins(s, q, d.cid, m.src)
  <2>1. \A v, w : Mate(s, q, v, w) => d.cid # v /\ m.src # w
    BY <1>1, <1>2, MateIsMutual DEF Unmet
  <2>2. Met(s, q, d.cid, m.src)
    BY <1>2 DEF Met
  <2>3. Spared(q, s, d.cid)
    BY <1>2 DEF Spared
  <2>4. Met(q, s, m.src, d.cid)
    BY <1>1, <2>3 DEF Met, Unmet, Asks
  <2> QED BY <2>1, <2>2, <2>4 DEF Joins
<1> QED BY <1>1, <1>2, <1>3, <1>4, <1>5, <1>6, <1>7 DEF Suits

(* A new channel, which its client does not know of.                       *)
LEMMA AddKeeps ==
  ASSUME NEW s, NEW q, Fine(s, q), Len(s.chans) < Pool, NEW e \in Chan,
         e.state \in {"WAIT_REMOTE_SUPPORTED_FEATURES", "WILL_SEND_CREATE_CONNECTION"},
         e.state = "WILL_SEND_CREATE_CONNECTION" => ~e.incoming,
         ~e.confRsp, ~e.rcvdRsp, e.lsig = NoId,
         Suits(s, q, [e EXCEPT !.cid = s.cid + 1, !.odd = s.foreign])
  PROVE  LET t == Add(s, e)
             c == Channel(t, t.cid)
         IN  /\ Fine(t, q) /\ Has(t, t.cid) /\ c \in Members(t) /\ c.cid = t.cid
             /\ c.state = e.state /\ c.incoming = e.incoming
             /\ t.acl = s.acl /\ t.feat = s.feat
<1> DEFINE t == Add(s, e)
           c == [e EXCEPT !.cid = s.cid + 1, !.odd = s.foreign]
<1>1. Core(s, q) /\ s \in Device /\ Local(s)
  BY DEF Fine, Core
<1>2. Consistent(e) /\ Heard(e, "nothing")
  BY DEF Consistent, Heard, Owes, Early, Asking, Asked, Announced
<1>3. Added(s, t, c) /\ Local(t)
  BY <1>1, <1>2, LocalAdd
<1>4. c.state = e.state /\ c.incoming = e.incoming /\ c.cid = s.cid + 1
  BY DEF Chan
<1>10. Suits(s, q, c)
  OBVIOUS
<1> HIDE DEF t, c
<1>5. ~Still(c) /\ ~Owes(c) /\ ~Awaits(c)
  BY <1>4 DEF Still, Owes, Awaits
<1>6. /\ t \in Device /\ t.out = s.out /\ t.sig = s.sig /\ t.busy = s.busy
      /\ Members(t) = Members(s) \cup {c}
  BY <1>3 DEF Added
<1>7. \A d \in Members(t) : /\ Still(d) => d.lsig \notin InUse(s, q)
                            /\ Awaits(d) => s.busy \/ d.lsig # NextId(s)
  BY <1>5, <1>6 DEF Fine, Fresh, Core, AtRest
<1>8. \A d \in Members(t) : Owes(d) => Kept(s, d)
  BY <1>5, <1>6 DEF Kept
<1>9. Paired(t, q) /\ Paired(q, t)
  <2>1. s.cid \in Nat /\ t.cid = s.cid + 1
    BY <1>1, <1>3 DEF Device, Added
  <2>2. c.cid \in 1..t.cid /\ 1..s.cid \subseteq 1..t.cid
    BY <1>4, <2>1
  <2>3. \A d \in Members(s) : d.cid # c.cid
    BY <1>1, <1>4, NoneYet
  <2>4. Swaps(s, t, c)
    BY <1>6, <2>2, <2>3 DEF Swaps
  <2> QED BY <1>1, <1>10, <2>4, SwapsPaired DEF Core
<1>11. Fine(t, q)
  BY <1>3, <1>6, <1>7, <1>8, <1>9, FineChannels
<1> QED BY <1>3, <1>4, <1>6, <1>11 DEF Added, t

(* A connection request arrives.                                           *)
LEMMA ConnectionRequestKeeps ==
  ASSUME NEW s, NEW q, Fine(s, q), NEW m \in Message, m.code = "CONNECTION_REQUEST",
         Binding(s, q, m)
  PROVE  Fine(ConnectionRequest(s, m), q)
<1> DEFINE refused == Command("CONNECTION_RESPONSE", m.id, m.src, 0, "refused")
           e == [Entry(m.what, "WAIT_REMOTE_SUPPORTED_FEATURES") EXCEPT
                   !.handle = s.acl, !.rcid = m.src, !.rsig = m.id, !.incoming = TRUE]
           t == Add(s, e)
           c == Channel(t, t.cid)
           d == [c EXCEPT !.pend = "send"]
<1>1. /\ m.what \in Psms /\ m.id \in Nat /\ m.src \in Nat /\ s.acl \in Nat
      /\ Len(s.chans) <= Pool /\ Len(s.chans) \in Nat
  BY LenProperties DEF Message, Fine, Core, Device, Local
<1>2. refused \in Message /\ ~Binds(refused)
  <2>1. /\ "CONNECTION_RESPONSE" \in Codes /\ "CONNECTION_RESPONSE" \notin Config
        /\ "refused" \in Whats
    BY DEF Codes, Config, Whats
  <2>2. refused \in Message
    BY <1>1, <2>1, CommandIs
  <2> QED BY <2>2 DEF Command, Binds, Config
<1> HIDE DEF refused
<1>3. Fine(Register(s, refused), q)
  BY <1>2, RegisterKeeps
<1>4. CASE m.what = "missing" \/ Len(s.chans) = Pool
  BY <1>3, <1>4 DEF ConnectionRequest, refused
<1>5. CASE m.what # "missing" /\ Len(s.chans) # Pool
  <2>1. Len(s.chans) < Pool
    BY <1>1, <1>5, BoundsAssumption
  <2>2. /\ e \in Chan /\ e.state = "WAIT_REMOTE_SUPPORTED_FEATURES" /\ e.incoming = TRUE
        /\ e.confRsp = FALSE /\ e.rcvdRsp = FALSE /\ e.lsig = NoId
        /\ e.rcid = m.src /\ e.rsig = m.id /\ e.sentRsp = FALSE
    <3> DEFINE f == Entry(m.what, "WAIT_REMOTE_SUPPORTED_FEATURES")
    <3>1. f \in Chan
      BY <1>1 DEF Entry, Chan, States, NoId, NoHandle
    <3>2. /\ f.state = "WAIT_REMOTE_SUPPORTED_FEATURES" /\ f.confRsp = FALSE
          /\ f.rcvdRsp = FALSE /\ f.lsig = NoId /\ f.sentRsp = FALSE
      BY DEF Entry
    <3> HIDE DEF f
    <3>3. [f EXCEPT !.handle = s.acl] \in Chan
      BY <1>1, <3>1, ChanUpdates
    <3>4. [f EXCEPT !.handle = s.acl, !.rcid = m.src] \in Chan
      BY <1>1, <3>3, ChanUpdates
    <3>5. [f EXCEPT !.handle = s.acl, !.rcid = m.src, !.rsig = m.id] \in Chan
      BY <1>1, <3>4, ChanUpdates
    <3>6. e \in Chan
      BY <3>5, ChanUpdates DEF f
    <3>7. /\ e.state = f.state /\ e.incoming = TRUE /\ e.confRsp = f.confRsp
          /\ e.rcvdRsp = f.rcvdRsp /\ e.lsig = f.lsig
          /\ e.rcid = m.src /\ e.rsig = m.id /\ e.sentRsp = f.sentRsp
      BY <3>1 DEF Chan, f
    <3> QED BY <3>2, <3>6, <3>7
  <2> HIDE DEF e
  <2>3. /\ Fine(t, q) /\ Has(t, t.cid) /\ c \in Members(t) /\ c.cid = t.cid
        /\ c.state = "WAIT_REMOTE_SUPPORTED_FEATURES" /\ c.incoming
    <3> DEFINE b == [e EXCEPT !.cid = s.cid + 1, !.odd = s.foreign]
    <3>1. /\ b.cid = s.cid + 1 /\ b.state = e.state /\ b.incoming = e.incoming
          /\ b.rcvdRsp = e.rcvdRsp /\ b.rcid = e.rcid /\ b.rsig = e.rsig /\ b.sentRsp = e.sentRsp
      BY <2>2 DEF Chan
    <3> HIDE DEF b
    <3>2. Suits(s, q, b)
      BY <2>2, <3>1, RequestedSuits DEF Fine
    <3> QED BY <2>1, <2>2, <3>2, AddKeeps DEF b
  <2> HIDE DEF t, c
  <2>4. Fine(Announce(t, c), q)
    BY <2>3, AnnounceMoves DEF Moves
  <2>5. Fine(FeaturesReceived(t, c.cid), q)
    BY <2>3, FeaturesMoves DEF Moves
  <2>6. Fine(QueryFeatures(Put(t, d)), q)
    <3>1. c \in Chan
      BY <2>3, MemberIs DEF Fine
    <3>2. GoesOn(c, d) /\ d.state = c.state /\ (Unheard(d) => Unheard(c))
      BY <2>3, <3>1 DEF GoesOn, Chan, Early, Asking, Asked, Unheard
    <3> HIDE DEF d
    <3>3. Moves(t, Put(t, d), q, {})
      BY <2>3, <3>2, GoesOnMoves
    <3> QED BY <3>3, AskMoves DEF Moves
  <2>7. ConnectionRequest(s, m) \in
          {Announce(t, c), FeaturesReceived(t, c.cid), QueryFeatures(Put(t, d))}
    BY <1>5, <2>1 DEF ConnectionRequest, e, t, c, d
  <2> QED BY <2>4, <2>5, <2>6, <2>7
<1> QED BY <1>4, <1>5

(* A channel that is about to go.                                          *)
LEMMA LeavesKeeps ==
  ASSUME NEW s, NEW q, Fine(s, q), NEW c \in Members(s), NEW d \in Chan, d.cid = c.cid,
         d.incoming = c.incoming, d.rtx = c.rtx,
         d.rcid = c.rcid /\ d.sentRsp = c.sentRsp /\ d.rcvdRsp = c.rcvdRsp,
         d.state \in {"WILL_SEND_DISCONNECT_REQUEST", "WILL_SEND_DISCONNECT_RESPONSE"}
  PROVE  Fine(Put(s, d), q)
<1>1. Consistent(d) /\ ~Still(d) /\ ~Owes(d) /\ ~Awaits(d)
  BY DEF Consistent, Early, Asking, Asked, Owes, Still, Awaits
<1>2. c.cid \in Cids => Heard(c, s.told[c.cid])
  BY MemberIs DEF Fine
<1>3. d.cid \in Cids => Heard(d, s.told[d.cid])
  BY <1>2 DEF Heard, Unheard, Asking, Announced
<1>4. Fits(s, q, c, d)
  <2>1. Suits(s, q, d)
    BY LeavesSuits DEF Fine, Early, Asking, Asked
  <2> QED BY <1>1, <2>1 DEF Fits
<1> QED BY <1>1, <1>3, <1>4, PutKeeps DEF Fine

(* A disconnect request arrives.                                           *)
LEMMA DisconnectRequestKeeps ==
  ASSUME NEW s, NEW q, Fine(s, q), NEW c \in Members(s), NEW m \in Message
  PROVE  Fine(DisconnectRequest(s, c, m), q)
<1> DEFINE d == [c EXCEPT !.rsig = m.id, !.state = "WILL_SEND_DISCONNECT_RESPONSE"]
<1>1. c \in Chan /\ m.id \in Nat
  BY MemberIs DEF Fine, Message
<1>2. d \in Chan
  <2>1. [c EXCEPT !.rsig = m.id] \in Chan
    BY <1>1, ChanUpdates
  <2> QED BY <2>1, ChanUpdates DEF States
<1>3. /\ d.cid = c.cid /\ d.incoming = c.incoming /\ d.rtx = c.rtx
      /\ d.rcid = c.rcid /\ d.sentRsp = c.sentRsp /\ d.rcvdRsp = c.rcvdRsp
      /\ d.state = "WILL_SEND_DISCONNECT_RESPONSE"
  BY <1>1 DEF Chan
<1> HIDE DEF d
<1>4. Fine(Put(s, d), q)
  BY <1>2, <1>3, LeavesKeeps
<1> QED BY <1>4 DEF DisconnectRequest, d

(* A channel suits that the peer has accepted.                             *)
LEMMA AcceptedSuits ==
  ASSUME NEW s, NEW q, Core(s, q), NEW c \in Members(s), c.state = "WAIT_CONNECT_RSP",
         NEW m, m.code = "CONNECTION_RESPONSE", m.what = "ok", c.lsig = m.id, Binding(s, q, m),
         NEW d, d.cid = c.cid /\ d.rcid = m.dst /\ ~d.incoming /\ d.state = "CONFIG",
         d.confReq /\ ~d.rcvdRsp /\ ~d.confRsp /\ d.sentRsp = c.sentRsp
  PROVE  Suits(s, q, d)
<1>1. m.dst \in 1..q.cid /\ Joins(s, q, c.cid, m.dst)
  BY DEF Binding
<1>2. Suits(s, q, c)
  BY SuitsLike DEF Like
<1>3. m.dst > 0
  BY <1>1 DEF Core, Device
<1>4. Fixed(d) /\ ~Unasked(d) /\ ~Considered(d) /\ ~Waits(d) /\ ~Owes(d)
  BY <1>3 DEF Fixed, Unasked, Considered, Waits, Owes, Early, Asking, Asked
<1>5. Rests(c)
  BY DEF Rests, Early, Asking
<1>6. \A y : Mate(s, q, c.cid, y) \/ y = m.dst => Spared(s, q, y)
  BY <1>1, <1>2, <1>5 DEF Suits, Joins, Met
<1>7. \A e \in Members(q) : Heeds(s, q, d, e)
  BY <1>2, <1>4 DEF Suits, Heeds
<1> QED BY <1>1, <1>4, <1>6, <1>7 DEF Suits

(* A connection response arrives.                                          *)
LEMMA ConnectionResponseKeeps ==
  ASSUME NEW s, NEW q, Fine(s, q), NEW c \in Members(s), c.state = "WAIT_CONNECT_RSP",
         Channel(s, c.cid) = c, NEW m \in Message, m.code = "CONNECTION_RESPONSE",
         Binding(s, q, m), c.lsig = m.id
  PROVE  Fine(ConnectionResponse(s, c, m), q)
<1> DEFINE d == [c EXCEPT !.rcid = m.dst, !.state = "CONFIG", !.confReq = TRUE, !.rtx = FALSE]
           e == [c EXCEPT !.rtx = TRUE]
<1>1. /\ c \in Chan /\ Consistent(c) /\ Core(s, q) /\ Has(s, c.cid)
      /\ c.cid \in Cids => Heard(c, s.told[c.cid])
      /\ m.dst \in Nat /\ m.what \in {"ok", "pending", "refused"}
  BY MemberIs DEF Fine, Message
<1>2. ~c.incoming /\ ~c.rcvdRsp /\ ~c.confRsp /\ Unheard(c) /\ Still(c)
  BY <1>1 DEF Consistent, Early, Asking, Unheard, Still
<1>3. c.lsig \notin InUse(s, q) /\ (s.busy \/ c.lsig # NextId(s))
  BY <1>1, <1>2 DEF Fine, Core, AtRest, Fresh, Awaits
<1>4. ASSUME m.what = "ok" PROVE Fine(Put(s, d), q)
  <2>1. d \in Chan
    <3>1. [c EXCEPT !.rcid = m.dst] \in Chan
      BY <1>1, ChanUpdates
    <3>2. [c EXCEPT !.rcid = m.dst, !.state = "CONFIG"] \in Chan
      BY <3>1, ChanUpdates DEF States
    <3>3. [c EXCEPT !.rcid = m.dst, !.state = "CONFIG", !.confReq = TRUE] \in Chan
      BY <3>2, ChanUpdates
    <3> QED BY <3>3, ChanUpdates
  <2>2. /\ d.cid = c.cid /\ d.incoming = c.incoming /\ d.state = "CONFIG" /\ d.lsig = c.lsig
        /\ d.rcvdRsp = c.rcvdRsp /\ d.confRsp = c.confRsp
        /\ d.rcid = m.dst /\ d.confReq = TRUE /\ d.sentRsp = c.sentRsp
    BY <1>1 DEF Chan
  <2> HIDE DEF d
  <2>3. Consistent(d) /\ ~Owes(d)
    BY <1>2, <2>2 DEF Consistent, Early, Asking, Asked, Owes
  <2>4. d.cid \in Cids => Heard(d, s.told[d.cid])
    BY <1>1, <1>2, <2>2 DEF Heard
  <2>5. Fits(s, q, c, d)
    <3>1. Suits(s, q, d)
      BY <1>1, <1>2, <1>4, <2>2, AcceptedSuits
    <3> QED BY <1>3, <2>1, <2>2, <2>3, <3>1 DEF Fits
  <2> QED BY <1>1, <1>3, <2>2, <2>4, <2>5, PutKeeps
<1>5. Fine(Put(s, e), q)
  <2>1. e \in Chan
    BY <1>1, ChanUpdates
  <2>2. /\ e.cid = c.cid /\ e.incoming = c.incoming /\ e.state = c.state /\ e.lsig = c.lsig
        /\ e.rcvdRsp = c.rcvdRsp /\ e.confRsp = c.confRsp
        /\ e.rcid = c.rcid /\ e.sentRsp = c.sentRsp /\ e.rsig = c.rsig /\ e.confReq = c.confReq
    BY <1>1 DEF Chan
  <2> HIDE DEF e
  <2>3. Consistent(e) /\ ~Owes(e)
    BY <1>2, <2>2 DEF Consistent, Early, Asking, Asked, Owes
  <2>4. e.cid \in Cids => Heard(e, s.told[e.cid])
    BY <1>1, <1>2, <2>2 DEF Heard
  <2>5. Fits(s, q, c, e)
    <3>1. Fixed(c) => Like(c, e)
      BY <2>2 DEF Like, Fixed, Unasked, Considered, Owes, Rests, Waits
    <3>2. Suits(s, q, e)
      BY <1>1, <3>1, SuitsLike
    <3> QED BY <1>3, <2>1, <2>2, <2>3, <3>2 DEF Fits
  <2> QED BY <1>1, <1>3, <2>2, <2>4, <2>5, PutKeeps
<1>6. Fine(Fail(s, c.cid), q)
  BY <1>1, FailMoves DEF Asking
<1>7. /\ m.what = "ok" => ConnectionResponse(s, c, m) = Put(s, d)
      /\ m.what # "ok" => ConnectionResponse(s, c, m) \in {Put(s, e), Fail(s, c.cid)}
  BY <1>1 DEF ConnectionResponse
<1> QED BY <1>4, <1>5, <1>6, <1>7

(* A command that arrives: the identifier of a configure request or of a   *)
(* response to one is not in use any more.                                 *)
Arrives(s, q, m) ==
  /\ m \in Message /\ Binding(s, q, m)
  /\ m.code = "CONFIGURE_REQUEST" => Unused(q, s, m.id)
  /\ m.code = "CONFIGURE_RESPONSE" => Unused(s, q, m.id)

(* A channel of a configuration changes, and may open.                     *)
LEMMA PutOpenKeeps ==
  ASSUME NEW s, NEW q, Fine(s, q), NEW c \in Members(s), NEW d, Fits(s, q, c, d),
         d.state = "CONFIG", d.cid \in Cids => Heard(d, s.told[d.cid]),
         s.busy \/ d.lsig # NextId(s)
  PROVE  Fine(OpenIfReady(Put(s, d), c.cid), q)
<1> DEFINE t == Put(s, d)
<1>1. d.cid = c.cid /\ Has(s, c.cid)
  BY MemberIs DEF Fits, Fine
<1>2. Fine(t, q) /\ Keeps(s, t, {}) /\ Channel(t, d.cid) = d
  BY PutKeeps DEF Fine
<1>3. Has(t, c.cid)
  BY <1>1, <1>2 DEF Keeps
<1> HIDE DEF t
<1>4. Fine(OpenIfReady(t, c.cid), q)
  BY <1>1, <1>2, <1>3, OpenMoves DEF Fine
<1> QED BY <1>4 DEF t

(* A channel suits that the peer asks.                                     *)
LEMMA AskedSuits ==
  ASSUME NEW s, NEW q, Core(s, q), NEW c \in Members(s), c.state = "CONFIG",
         NEW m, m.code = "CONFIGURE_REQUEST", c.cid = m.dst, Binding(s, q, m),
         NEW d, d.cid = c.cid /\ d.rcid = c.rcid /\ d.incoming = c.incoming,
         d.lsig = c.lsig /\ d.confReq = c.confReq /\ d.rcvdRsp = c.rcvdRsp,
         d.sentRsp = c.sentRsp /\ d.rsig = m.id, d.state = "CONFIG"
  PROVE  Suits(s, q, d)
<1>1. Paired(s, q) /\ Paired(q, s)
  BY DEF Core
<1>2. Suits(s, q, c)
  BY <1>1, SuitsLike DEF Like
<1>3. Fixed(d) /\ d.rcid # 0
  BY <1>1 DEF Paired, Fixed, Early, Asking, Asked
<1>4. /\ ~Unasked(d) /\ ~Considered(d)
      /\ (Rests(d) => Rests(c)) /\ (Waits(d) => Waits(c))
  BY DEF Unasked, Considered, Rests, Waits, Early, Asking, Asked
<1>5. /\ Expects(s, q, c) => Expects(s, q, d)
      /\ Accepted(q, c) => Accepted(q, d)
  BY DEF Expects, Accepted
<1>6. Mate(s, q, d.cid, d.rcid)
  BY <1>3 DEF Mate, Half
<1>7. \A e \in Members(q) : Heeds(s, q, d, e)
  BY <1>2 DEF Binding, Suits, Heeds
<1> QED BY <1>2, <1>3, <1>4, <1>5, <1>6, <1>7 DEF Suits

(* A channel suits that the peer has answered.                             *)
LEMMA AnsweredSuits ==
  ASSUME NEW s, NEW q, Core(s, q), NEW c \in Members(s), Waits(c), c.lsig \notin InUse(s, q),
         NEW d, d.cid = c.cid /\ d.rcid = c.rcid /\ d.incoming = c.incoming,
         d.confRsp = c.confRsp /\ d.rsig = c.rsig /\ d.sentRsp = c.sentRsp,
         d.state = "CONFIG", d.rcvdRsp \/ d.confReq, d.rcvdRsp => Accepted(q, c)
  PROVE  Suits(s, q, d)
<1>1. Paired(s, q) /\ Paired(q, s) /\ c.state = "CONFIG"
  BY DEF Core, Waits
<1>2. Suits(s, q, c)
  BY <1>1, SuitsLike DEF Like
<1>3. Fixed(d) /\ c.rcid # 0
  BY <1>1 DEF Paired, Fixed, Early, Asking, Asked
<1>4. ~Unasked(d) /\ ~Considered(d) /\ ~Waits(d) /\ (Owes(d) <=> Owes(c))
  BY <1>1 DEF Unasked, Considered, Waits, Owes, Early, Asking, Asked
<1>5. Spared(s, q, c.rcid)
  <2>1. Expects(s, q, c)
    BY <1>2 DEF Suits
  <2>2. Unsent(s.out, c.rcid)
    BY <2>1, IdsAreOn DEF Expects, InUse, Unsent
  <2>3. \A e \in Members(q) : Owes(e) => e.cid # c.rcid
    BY <2>1 DEF Expects, InUse, Owed
  <2> QED BY <2>2, <2>3 DEF Spared
<1>6. \A y : Mate(s, q, c.cid, y) => y = c.rcid
  BY <1>2, <1>3 DEF Suits, Joins
<1>7. Accepted(q, c) => Accepted(q, d)
  BY DEF Accepted
<1>8. \A e \in Members(q) : Heeds(s, q, d, e)
  BY <1>2, <1>4 DEF Suits, Heeds
<1> QED BY <1>1, <1>2, <1>3, <1>4, <1>5, <1>6, <1>7, <1>8 DEF Suits

(* A configure request or response arrives.                                *)
LEMMA ConfigureKeeps ==
  ASSUME NEW s, NEW q, Fine(s, q), NEW c \in Members(s), c.state = "CONFIG",
         Channel(s, c.cid) = c, NEW m, Arrives(s, q, m),
         m.code = "CONFIGURE_REQUEST" => c.cid = m.dst,
         m.code = "CONFIGURE_RESPONSE" => c.lsig = m.id
  PROVE  Fine(Configure(s, c, m), q)
<1>1. /\ c \in Chan /\ Consistent(c) /\ Core(s, q) /\ Has(s, c.cid)
      /\ c.cid \in Cids => Heard(c, s.told[c.cid])
  BY MemberIs DEF Fine
<1>2. m \in Message /\ m.id \in Nat /\ Binding(s, q, m)
  BY DEF Arrives, Message
<1>3. (Still(c) => c.lsig \notin InUse(s, q)) /\ (s.busy \/ c.lsig # NextId(s))
  BY <1>1 DEF Fine, Core, AtRest, Fresh, Awaits
<1>4. CASE m.code = "CONFIGURE_REQUEST"
  <2> DEFINE invalid == c.invalid \/ m.what = "unknown"
             d == [c EXCEPT !.confRsp = TRUE, !.rsig = m.id, !.invalid = @ \/ m.what = "unknown"]
  <2>1. d \in Chan
    <3>1. [c EXCEPT !.confRsp = TRUE] \in Chan
      BY <1>1, ChanUpdates
    <3>2. [c EXCEPT !.confRsp = TRUE, !.rsig = m.id] \in Chan
      BY <1>2, <3>1, ChanUpdates
    <3>3. d = [[c EXCEPT !.confRsp = TRUE, !.rsig = m.id] EXCEPT !.invalid = invalid]
      BY <1>1 DEF Chan
    <3>4. invalid \in BOOLEAN
      OBVIOUS
    <3> HIDE DEF d, invalid
    <3> QED BY <3>2, <3>3, <3>4, ChanUpdates
  <2>2. /\ d.cid = c.cid /\ d.incoming = c.incoming /\ d.state = "CONFIG" /\ d.lsig = c.lsig
        /\ d.rcvdRsp = c.rcvdRsp /\ d.confReq = c.confReq /\ d.rtx = c.rtx /\ d.rsig = m.id
        /\ d.rcid = c.rcid /\ d.sentRsp = c.sentRsp
    BY <1>1 DEF Chan
  <2>3. Configure(s, c, m) = OpenIfReady(Put(s, d), c.cid)
    BY <1>4 DEF Configure
  <2> HIDE DEF d
  <2>4. m.id > 0 /\ Unused(q, s, m.id)
    BY <1>2, <1>4 DEF Message, Arrives, Config
  <2>5. Consistent(d) /\ (Still(d) => Still(c))
    BY <1>1, <2>2, <2>4 DEF Consistent, Early, Asking, Asked, Owes, Still
  <2>6. d.cid \in Cids => Heard(d, s.told[d.cid])
    BY <1>1, <2>2 DEF Heard, Unheard
  <2>7. Fits(s, q, c, d)
    <3>1. Suits(s, q, d)
      BY <1>1, <1>2, <1>4, <2>2, AskedSuits
    <3> QED BY <1>3, <2>1, <2>2, <2>4, <2>5, <3>1 DEF Fits
  <2> QED BY <1>3, <2>2, <2>3, <2>6, <2>7, PutOpenKeeps
<1>5. CASE m.code = "CONFIGURE_RESPONSE"
  <2> DEFINE d == [c EXCEPT !.rtx = FALSE, !.rcvdRsp = TRUE]
             e == [c EXCEPT !.rtx = FALSE, !.confReq = TRUE, !.odd = FALSE]
  <2>1. c.lsig = m.id /\ c.lsig \notin InUse(s, q) /\ ~Still(c)
    BY <1>5 DEF Arrives, Unused
  <2>2. ~c.confReq /\ ~c.rcvdRsp /\ Waits(c)
    BY <2>1 DEF Still, Waits
  <2>3. ASSUME m.what = "ok" PROVE Fine(OpenIfReady(Put(s, d), c.cid), q)
    <3>1. d \in Chan
      <4>1. [c EXCEPT !.rtx = FALSE] \in Chan
        BY <1>1, ChanUpdates
      <4> QED BY <4>1, ChanUpdates
    <3>2. /\ d.cid = c.cid /\ d.incoming = c.incoming /\ d.state = "CONFIG" /\ d.lsig = c.lsig
          /\ d.confReq = c.confReq /\ d.confRsp = c.confRsp /\ d.rsig = c.rsig /\ d.rtx = FALSE
          /\ d.rcid = c.rcid /\ d.sentRsp = c.sentRsp /\ d.rcvdRsp = TRUE
      BY <1>1 DEF Chan
    <3> HIDE DEF d
    <3>3. Consistent(d) /\ (Owes(d) => Owes(c))
      BY <1>1, <2>2, <3>2 DEF Consistent, Early, Asking, Asked, Owes
    <3>4. d.cid \in Cids => Heard(d, s.told[d.cid])
      BY <1>1, <3>2 DEF Heard, Unheard
    <3>5. Fits(s, q, c, d)
      <4>1. Accepted(q, c)
        BY <1>2, <1>5, <2>1, <2>2, <2>3 DEF Binding
      <4>2. Suits(s, q, d)
        BY <1>1, <2>1, <2>2, <3>2, <4>1, AnsweredSuits
      <4> QED BY <2>1, <3>1, <3>2, <3>3, <4>2 DEF Fits
    <3> QED BY <1>3, <3>2, <3>4, <3>5, PutOpenKeeps
  <2>4. Fine(OpenIfReady(Put(s, e), c.cid), q)
    <3>1. e \in Chan
      <4>1. [c EXCEPT !.rtx = FALSE] \in Chan
        BY <1>1, ChanUpdates
      <4>2. [c EXCEPT !.rtx = FALSE, !.confReq = TRUE] \in Chan
        BY <4>1, ChanUpdates
      <4> QED BY <4>2, ChanUpdates
    <3>2. /\ e.cid = c.cid /\ e.incoming = c.incoming /\ e.state = "CONFIG" /\ e.lsig = c.lsig
          /\ e.rcvdRsp = c.rcvdRsp /\ e.confRsp = c.confRsp /\ e.rsig = c.rsig /\ e.rtx = FALSE
          /\ e.rcid = c.rcid /\ e.sentRsp = c.sentRsp /\ e.confReq = TRUE
      BY <1>1 DEF Chan
    <3> HIDE DEF e
    <3>3. Consistent(e) /\ (Owes(e) => Owes(c))
      BY <1>1, <2>2, <3>2 DEF Consistent, Early, Asking, Asked, Owes
    <3>4. e.cid \in Cids => Heard(e, s.told[e.cid])
      BY <1>1, <3>2 DEF Heard, Unheard
    <3>5. Fits(s, q, c, e)
      <4>1. Suits(s, q, e)
        BY <1>1, <2>1, <2>2, <3>2, AnsweredSuits
      <4> QED BY <2>1, <3>1, <3>2, <3>3, <4>1 DEF Fits
    <3> QED BY <1>3, <3>2, <3>4, <3>5, PutOpenKeeps
  <2>5. /\ m.what = "ok" => Configure(s, c, m) = OpenIfReady(Put(s, d), c.cid)
        /\ m.what # "ok" => Configure(s, c, m) = OpenIfReady(Put(s, e), c.cid)
    BY <1>5 DEF Configure
  <2> QED BY <2>3, <2>4, <2>5
<1>6. CASE m.code \notin {"CONFIGURE_REQUEST", "CONFIGURE_RESPONSE"}
  <2>1. Configure(s, c, m) = OpenIfReady(s, c.cid)
    BY <1>6 DEF Configure
  <2>2. Fine(OpenIfReady(s, c.cid), q)
    BY <1>1, OpenMoves
  <2> QED BY <2>1, <2>2
<1> QED BY <1>4, <1>5, <1>6

(* A command arrives for a channel.                                        *)
LEMMA ChannelHandlerKeeps ==
  ASSUME NEW s, NEW q, Fine(s, q), NEW c \in Members(s), Channel(s, c.cid) = c,
         NEW m, Arrives(s, q, m), IsFor(s, c, m)
  PROVE  Fine(ChannelHandler(s, c, m), q)
<1>1. Core(s, q) /\ m \in Message /\ Binding(s, q, m)
  BY DEF Fine, Arrives
<1>2. /\ m.code \in {"CONNECTION_RESPONSE", "CONFIGURE_RESPONSE"} => c.lsig = m.id
      /\ m.code = "CONFIGURE_REQUEST" => c.cid = m.dst
  BY DEF IsFor, Responses
<1>3. CASE m.code = "DISCONNECTION_REQUEST"
  <2>1. ChannelHandler(s, c, m) = DisconnectRequest(s, c, m)
    BY <1>3 DEF ChannelHandler
  <2> QED BY <1>1, <2>1, DisconnectRequestKeeps
<1>4. CASE m.code = "CONNECTION_RESPONSE" /\ c.state = "WAIT_CONNECT_RSP"
  <2>1. ChannelHandler(s, c, m) = ConnectionResponse(s, c, m)
    BY <1>4 DEF ChannelHandler
  <2> QED BY <1>1, <1>2, <1>4, <2>1, ConnectionResponseKeeps
<1>5. CASE m.code # "DISCONNECTION_REQUEST" /\ c.state = "CONFIG"
  <2>1. ChannelHandler(s, c, m) = Configure(s, c, m)
    BY <1>5 DEF ChannelHandler
  <2> QED BY <1>2, <1>5, <2>1, ConfigureKeeps
<1>6. CASE m.code = "DISCONNECTION_RESPONSE" /\ c.state = "WAIT_DISCONNECT"
  <2>1. ChannelHandler(s, c, m) = Free(Tell(s, c, "closed"), c.cid)
    BY <1>6 DEF ChannelHandler
  <2>2. c.cid \in Cids => s.told[c.cid] \in Follows(c, "closed")
    BY <1>1, MemberIs DEF Heard, Follows
  <2> QED BY <1>1, <2>1, <2>2, EndKeeps
<1>7. CASE /\ m.code # "DISCONNECTION_REQUEST" /\ c.state # "CONFIG"
           /\ ~(m.code = "CONNECTION_RESPONSE" /\ c.state = "WAIT_CONNECT_RSP")
           /\ ~(m.code = "DISCONNECTION_RESPONSE" /\ c.state = "WAIT_DISCONNECT")
  <2>1. ChannelHandler(s, c, m) = s
    BY <1>7 DEF ChannelHandler
  <2> QED BY <2>1
<1> QED BY <1>3, <1>4, <1>5, <1>6, <1>7

(* A command arrives that is for no channel.                               *)
LEMMA UnclaimedCommandKeeps ==
  ASSUME NEW s, NEW q, Fine(s, q), NEW m \in Message,
         m.code \notin {"CONNECTION_REQUEST", "INFORMATION_REQUEST", "INFORMATION_RESPONSE"}
  PROVE  Fine(UnclaimedCommand(s, m), q)
<1> DEFINE a == Command("DISCONNECTION_RESPONSE", m.id, m.dst, m.src, "")
           b == Command("COMMAND_REJECT", m.id, 0, 0, "")
<1>1. m.id \in Nat /\ m.dst \in Nat /\ m.src \in Nat /\ m.code \in Codes
  BY DEF Message
<1>2. /\ "DISCONNECTION_RESPONSE" \in Codes /\ "DISCONNECTION_RESPONSE" \notin Config
      /\ "COMMAND_REJECT" \in Codes /\ "COMMAND_REJECT" \notin Config /\ "" \in Whats
  BY DEF Codes, Config, Whats
<1>3. a \in Message /\ b \in Message
  BY <1>1, <1>2, CommandIs
<1>4. ~Binds(a) /\ ~Binds(b)
  BY <1>2 DEF Command, Binds
<1>5. UnclaimedCommand(s, m) \in {s, Register(s, a), Register(s, b)}
  BY <1>1 DEF UnclaimedCommand, Codes
<1> HIDE DEF a, b
<1> QED BY <1>3, <1>4, <1>5, RegisterKeeps

(* A command arrives.                                                      *)
LEMMA DispatchKeeps ==
  ASSUME NEW s, NEW q, Fine(s, q), NEW m, Arrives(s, q, m)
  PROVE  Fine(Dispatch(s, m), q)
<1> DEFINE a == Command("INFORMATION_RESPONSE", m.id, 0, 0, "")
           I == {i \in 1..Len(s.chans) : IsFor(s, s.chans[i], m)}
<1>1. /\ m \in Message /\ m.id \in Nat /\ Core(s, q) /\ s \in Device /\ Local(s)
      /\ Binding(s, q, m)
  BY DEF Arrives, Message, Fine, Core
<1>2. CASE m.code = "CONNECTION_REQUEST"
  <2>1. Dispatch(s, m) = ConnectionRequest(s, m)
    BY <1>2 DEF Dispatch
  <2> QED BY <1>1, <1>2, <2>1, ConnectionRequestKeeps
<1>3. CASE m.code = "INFORMATION_REQUEST"
  <2>1. /\ "INFORMATION_RESPONSE" \in Codes /\ "INFORMATION_RESPONSE" \notin Config
        /\ "" \in Whats
    BY DEF Codes, Config, Whats
  <2>2. a \in Message
    BY <1>1, <2>1, CommandIs
  <2>3. ~Binds(a)
    BY <2>1 DEF Command, Binds
  <2>4. Dispatch(s, m) = Register(s, a)
    BY <1>3 DEF Dispatch
  <2> HIDE DEF a
  <2> QED BY <2>2, <2>3, <2>4, RegisterKeeps
<1>4. CASE m.code = "INFORMATION_RESPONSE"
  <2> DEFINE t == InformationResponse(s)
  <2>1. /\ t \in Device /\ t.chans = s.chans /\ t.told = s.told /\ t.cid = s.cid
        /\ t.out = s.out /\ t.sig = s.sig /\ t.busy = s.busy
    BY <1>1 DEF InformationResponse, Device
  <2>2. Dispatch(s, m) = t
    BY <1>4 DEF Dispatch
  <2> HIDE DEF t
  <2> QED BY <1>1, <2>1, <2>2, SameKeeps
<1>5. CASE m.code \notin {"CONNECTION_REQUEST", "INFORMATION_REQUEST", "INFORMATION_RESPONSE"}
  <2>1. DOMAIN s.chans = 1..Len(s.chans) /\ Len(s.chans) \in Nat
    BY <1>1, LenProperties DEF Device
  <2>2. CASE I # {}
    <3> DEFINE i == Min(I)
               c == s.chans[i]
    <3>1. i \in I
      <4>1. I \in SUBSET Nat
        BY <2>1
      <4> HIDE DEF I
      <4> QED BY <2>2, <4>1, FirstPlace
    <3>2. Dispatch(s, m) = ChannelHandler(s, c, m)
      BY <1>5, <2>1, <2>2 DEF Dispatch, SelectInSeq
    <3> HIDE DEF i
    <3>3. c \in Members(s) /\ IsFor(s, c, m)
      BY <3>1 DEF Members
    <3>4. Channel(s, c.cid) = c
      <4>1. Place(s, c.cid) \in 1..Len(s.chans) /\ s.chans[Place(s, c.cid)].cid = c.cid
        BY <1>1, <3>3, MemberIs, ChannelFacts DEF Channel
      <4>2. Place(s, c.cid) = i
        BY <1>1, <3>1, <4>1 DEF Local, Distinct
      <4> QED BY <4>2 DEF Channel
    <3> HIDE DEF c
    <3> QED BY <3>2, <3>3, <3>4, ChannelHandlerKeeps
  <2>3. CASE I = {}
    <3>1. Dispatch(s, m) = UnclaimedCommand(s, m)
      BY <1>5, <2>1, <2>3 DEF Dispatch
    <3> QED BY <1>1, <1>5, <3>1, UnclaimedCommandKeeps
  <2> QED BY <2>2, <2>3
<1> QED BY <1>2, <1>3, <1>4, <1>5

----------------------------------------------------------------------------
(* Steps                                                                   *)

(* Commands of q are received or lost.                                     *)
LEMMA OutShrinks ==
  ASSUME NEW s, NEW q, Core(s, q), NEW r \in Device, r.chans = q.chans, r.told = q.told,
         r.cid = q.cid,
         \A code : /\ Ids(r.out, code) \subseteq Ids(q.out, code)
                   /\ Single(q.out, code) => Single(r.out, code)
                   /\ On(r.out, code) \subseteq On(q.out, code),
         Sole(q.out) => Sole(r.out)
  PROVE  /\ Core(s, r) /\ Members(r) = Members(q)
         /\ InUse(s, r) \subseteq InUse(s, q) /\ InUse(r, s) \subseteq InUse(q, s)
         /\ Requested(s, r) \subseteq Requested(s, q) /\ Fewer(q, r) /\ Fewer(s, s)
<1>1. Local(r) /\ Members(r) = Members(q)
  BY LocalSame DEF Core
<1>2. Owed(r) = Owed(q)
  BY <1>1 DEF Owed
<1>3. InUse(s, r) \subseteq InUse(s, q) /\ InUse(r, s) \subseteq InUse(q, s)
  BY <1>2 DEF InUse
<1>4. Once(s, r)
  <2>1. Once(s, q)
    BY DEF Core
  <2>2. /\ Ids(r.out, "CONFIGURE_RESPONSE") \subseteq Ids(q.out, "CONFIGURE_RESPONSE")
        /\ Single(q.out, "CONFIGURE_RESPONSE") => Single(r.out, "CONFIGURE_RESPONSE")
    OBVIOUS
  <2> QED BY <1>1, <1>2, <2>1, <2>2 DEF Once
<1>5. Once(r, s)
  <2>1. Once(q, s)
    BY DEF Core
  <2>2. /\ Ids(r.out, "CONFIGURE_REQUEST") \subseteq Ids(q.out, "CONFIGURE_REQUEST")
        /\ Single(q.out, "CONFIGURE_REQUEST") => Single(r.out, "CONFIGURE_REQUEST")
    OBVIOUS
  <2> QED BY <2>1, <2>2 DEF Once
<1>6. AtRest(s, r) /\ AtRest(r, s)
  BY <1>1, <1>3 DEF Core, AtRest
<1>7. Requested(s, r) \subseteq Requested(s, q)
  <2>1. Ids(r.out, "CONNECTION_RESPONSE") \subseteq Ids(q.out, "CONNECTION_RESPONSE")
    OBVIOUS
  <2> QED BY <1>1, <2>1 DEF Requested
<1>8. /\ \A c \in Members(s) : Like(c, c)
      /\ \A c \in Members(q) : Like(c, c)
  BY DEF Core, Paired, Like
<1>9. Fewer(q, r) /\ Fewer(s, s)
  BY <1>1, <1>8 DEF Fewer
<1>10. Paired(s, r) /\ Paired(r, s)
  BY <1>9, FewerPaired DEF Core
<1> QED BY <1>1, <1>3, <1>4, <1>5, <1>6, <1>7, <1>9, <1>10 DEF Core

(* The commands of q are lost with the link.                               *)
LEMMA LostFacts ==
  ASSUME NEW s, NEW q, Core(s, q)
  PROVE  Core(s, [q EXCEPT !.out = <<>>])
<1> DEFINE r == [q EXCEPT !.out = <<>>]
<1>1. q \in Device
  BY DEF Core
<1>2. <<>> \in Seq(Message)
  OBVIOUS
<1>5. r \in Device /\ r.chans = q.chans /\ r.told = q.told /\ r.cid = q.cid /\ r.out = <<>>
  BY <1>1, <1>2 DEF Device
<1> HIDE DEF r
<1>3. \A code : Ids(r.out, code) = {} /\ Single(r.out, code) /\ On(r.out, code) = {}
  BY <1>5 DEF Ids, Single, On
<1>4. Sole(r.out)
  BY <1>5 DEF Sole
<1> QED BY <1>3, <1>4, <1>5, OutShrinks DEF r

(* The first command of q is taken from the link by s.                     *)
LEMMA ReceiveFacts ==
  ASSUME NEW s, NEW q, Core(s, q), Fresh(s, q, NextId(s)), q.out # <<>>
  PROVE  LET r == [q EXCEPT !.out = Tail(@)]
         IN  Fine(s, r) /\ Arrives(s, r, Head(q.out))
<1> DEFINE r == [q EXCEPT !.out = Tail(@)]
           m == Head(q.out)
<1>1. q \in Device /\ q.out \in Seq(Message)
  BY DEF Core, Device
<1>2. \A code : /\ Ids(Tail(q.out), code) \subseteq Ids(q.out, code)
                /\ Single(q.out, code) => Single(Tail(q.out), code)
                /\ m.code = code => m.id \in Ids(q.out, code)
                /\ Single(q.out, code) /\ m.code = code => m.id \notin Ids(Tail(q.out), code)
  BY <1>1, IdsOfTail
<1>9. /\ \A code : On(Tail(q.out), code) \subseteq On(q.out, code)
      /\ m \in On(q.out, m.code) /\ (Sole(q.out) => Sole(Tail(q.out)))
      /\ Sole(q.out) /\ m.code = "CONNECTION_REQUEST" =>
           \A k \in On(Tail(q.out), "CONNECTION_REQUEST") : k.src # m.src
  BY <1>1, OnOfTail
<1>3. m \in Message /\ Tail(q.out) \in Seq(Message)
  BY <1>1, IdsOfTail
<1>4. r \in Device /\ r.chans = q.chans /\ r.told = q.told /\ r.cid = q.cid /\ r.out = Tail(q.out)
  BY <1>1, <1>3 DEF Device
<1> HIDE DEF r, m
<1>5. /\ Core(s, r) /\ Members(r) = Members(q)
      /\ InUse(s, r) \subseteq InUse(s, q) /\ InUse(r, s) \subseteq InUse(q, s)
      /\ Requested(s, r) \subseteq Requested(s, q) /\ Fewer(q, r) /\ Fewer(s, s)
  BY <1>2, <1>4, <1>9, OutShrinks
<1>6. Fine(s, r)
  BY <1>5 DEF Fine, Fresh
<1>10. Binding(s, r, m)
  BY <1>4, <1>5, <1>9, TakenPaired DEF Core, Paired
<1>7. ASSUME m.code = "CONFIGURE_REQUEST" PROVE Unused(r, s, m.id)
  <2>1. m.id \in Ids(q.out, "CONFIGURE_REQUEST") /\ m.id \notin Ids(r.out, "CONFIGURE_REQUEST")
    BY <1>2, <1>4, <1>7 DEF Core, Once
  <2>2. m.id \notin InUse(r, s)
    BY <2>1 DEF InUse, Core, Once
  <2> QED BY <1>5, <2>1, <2>2 DEF Unused, Core, AtRest, InUse
<1>8. ASSUME m.code = "CONFIGURE_RESPONSE" PROVE Unused(s, r, m.id)
  <2>1. m.id \in Ids(q.out, "CONFIGURE_RESPONSE") /\ m.id \notin Ids(r.out, "CONFIGURE_RESPONSE")
    BY <1>2, <1>4, <1>8 DEF Core, Once
  <2>2. Owed(r) = Owed(q)
    BY <1>5 DEF Owed
  <2>3. m.id \notin InUse(s, r)
    BY <2>1, <2>2 DEF InUse, Core, Once
  <2>4. m.id \in InUse(s, q)
    BY <2>1 DEF InUse
  <2> QED BY <2>3, <2>4 DEF Unused, Core, AtRest
<1> QED BY <1>3, <1>6, <1>7, <1>8, <1>10 DEF Arrives, r, m

(* There are two devices, each the peer of the other.                      *)
LEMMA Peers ==
  ASSUME NEW n \in Nodes
  PROVE  /\ Peer(n) \in Nodes /\ Peer(n) # n /\ Peer(Peer(n)) = n
         /\ \A x \in Nodes : x = n \/ x = Peer(n)
<1>1. PICK p \in Nodes : Nodes = {n, p} /\ p # n
  BY NodesAssumption
<1>2. Peer(n) = p
  BY <1>1 DEF Peer
<1>3. Peer(p) = n
  BY <1>1 DEF Peer
<1> QED BY <1>1, <1>2, <1>3

Inv ==
  /\ node = [n \in Nodes |-> node[n]] /\ link \in [now : Nat, made : Nat]
  /\ \A n \in Nodes : Core(node[n], node[Peer(n)])

(* Both devices take a step.                                               *)
LEMMA InvStep ==
  ASSUME Inv, NEW n \in Nodes, NEW t, NEW r, Core(t, r),
         node' = [node EXCEPT ![n] = t, ![Peer(n)] = r], link' \in [now : Nat, made : Nat]
  PROVE  Inv'
<1>1. /\ Peer(n) \in Nodes /\ Peer(n) # n /\ Peer(Peer(n)) = n
      /\ \A x \in Nodes : x = n \/ x = Peer(n)
  BY Peers
<1>2. Core(r, t)
  BY CoreIsMutual
<1>3. node' = [x \in Nodes |-> node'[x]] /\ node'[n] = t /\ node'[Peer(n)] = r
  BY <1>1 DEF Inv
<1>4. \A x \in Nodes : Core(node'[x], node'[Peer(x)])
  BY <1>1, <1>2, <1>3
<1>5. (\A x \in Nodes : Core(node[x], node[Peer(x)]))' 
  BY <1>4
<1> QED BY <1>3, <1>5 DEF Inv

(* A device ends a step, on a link that may be down.                       *)
LEMMA BecomesKeeps ==
  ASSUME Inv, NEW n \in Nodes, NEW s, Core(s, node[Peer(n)]), Becomes(n, s)
  PROVE  Inv'
<1> DEFINE t == IF s.acl = link.now THEN s ELSE [s EXCEPT !.out = <<>>]
           q == node[Peer(n)]
<1>1. node' = [node EXCEPT ![n] = t] /\ link' = link
  BY DEF Becomes
<1>2. Core(t, q)
  BY LostFacts, CoreIsMutual
<1> HIDE DEF t
<1>3. node' = [node EXCEPT ![n] = t, ![Peer(n)] = q]
  BY <1>1, Peers DEF Inv
<1>4. link' \in [now : Nat, made : Nat]
  BY <1>1 DEF Inv
<1> HIDE DEF q
<1> QED BY <1>2, <1>3, <1>4, InvStep

(* A device ends a handler with l2cap_run.                                 *)
LEMMA HandledKeeps ==
  ASSUME Inv, NEW n \in Nodes, NEW s, Fine(s, node[Peer(n)]), Handled(n, s)
  PROVE  Inv'
<1>1. Becomes(n, Run(s))
  BY DEF Handled
<1>2. Core(Run(s), node[Peer(n)])
  BY RunKeeps
<1> QED BY <1>1, <1>2, BecomesKeeps

(* What a step of n starts from.                                           *)
LEMMA Starts ==
  ASSUME Inv, IdsFresh, NEW n \in Nodes
  PROVE  /\ Fine(node[n], node[Peer(n)]) /\ Core(node[n], node[Peer(n)])
         /\ Fresh(node[n], node[Peer(n)], NextId(node[n])) /\ node[n] \in Device
         /\ link.now \in Nat /\ link.made \in Nat
<1>1. Core(node[n], node[Peer(n)]) /\ link.now \in Nat /\ link.made \in Nat
  BY DEF Inv
<1>2. Fresh(node[n], node[Peer(n)], NextId(node[n]))
  BY DEF IdsFresh
<1> QED BY <1>1, <1>2 DEF Fine, Core

(* Fields of a device that no channel and no command is about.             *)
LEMMA FieldKeeps ==
  ASSUME NEW s, NEW q, Fine(s, q)
  PROVE  /\ Fine([s EXCEPT !.page = FALSE], q) /\ Fine([s EXCEPT !.block = FALSE], q)
         /\ Fine([s EXCEPT !.feat = "known"], q) /\ Fine([s EXCEPT !.feat = "unknown"], q)
         /\ \A x \in Nat : Fine([s EXCEPT !.acl = x], q) /\ Fine([s EXCEPT !.made = x], q)
         /\ \A x \in {"none", "done"} : Fine([s EXCEPT !.sec = x], q)
         /\ Fine([s EXCEPT !.info = "IDLE"], q)
         /\ \A x : Fine([s EXCEPT !.info = IF x THEN "W2_EXTENDED" ELSE @], q)
<1>1. s \in Device
  BY DEF Fine, Core
<1>2. ASSUME NEW t \in Device, t.chans = s.chans, t.told = s.told, t.cid = s.cid,
             t.out = s.out, t.sig = s.sig, t.busy = s.busy
      PROVE  Fine(t, q)
  <2>1. Core(s, q)
    BY DEF Fine
  <2> QED BY <1>2, <2>1, SameKeeps
<1> DEFINE Same(t) == /\ t \in Device /\ t.chans = s.chans /\ t.told = s.told /\ t.cid = s.cid
                      /\ t.out = s.out /\ t.sig = s.sig /\ t.busy = s.busy
<1>3. Same([s EXCEPT !.page = FALSE]) /\ Same([s EXCEPT !.block = FALSE])
  BY <1>1 DEF Device
<1>4. Same([s EXCEPT !.feat = "known"]) /\ Same([s EXCEPT !.feat = "unknown"])
  BY <1>1 DEF Device
<1>5. ASSUME NEW x \in Nat PROVE Same([s EXCEPT !.acl = x]) /\ Same([s EXCEPT !.made = x])
  BY <1>1 DEF Device
<1>6. ASSUME NEW x \in {"none", "done"} PROVE Same([s EXCEPT !.sec = x])
  BY <1>1 DEF Device
<1>7. Same([s EXCEPT !.info = "IDLE"]) /\ Same([s EXCEPT !.info = "W2_EXTENDED"])
  BY <1>1 DEF Device
<1>8. [s EXCEPT !.info = @] = s
  BY <1>1 DEF Device
<1>9. \A x : Fine([s EXCEPT !.info = IF x THEN "W2_EXTENDED" ELSE @], q)
  BY <1>2, <1>7, <1>8
<1> QED BY <1>2, <1>3, <1>4, <1>5, <1>6, <1>7, <1>9

(* The client creates a channel.                                           *)
LEMMA CreateKeeps ==
  ASSUME Inv, IdsFresh, NEW n \in Nodes, Create(n)
  PROVE  Inv'
<1> DEFINE s == node[n]
           q == node[Peer(n)]
           e == Entry(Calls[n][s.made + 1], "WILL_SEND_CREATE_CONNECTION")
           t == Add(s, e)
           u == IF s.acl = NoHandle THEN t ELSE ConnectionCompleteFor(t, t.cid)
           v == IF s.feat = "known" THEN FeaturesReceived(u, t.cid) ELSE u
<1>1. Fine(s, q) /\ s \in Device
  BY Starts
<1>2. s.made < Len(Calls[n]) /\ Len(s.chans) < Pool /\ Handled(n, [v EXCEPT !.made = @ + 1])
  BY DEF Create
<1>10. s.made < Len(Calls[n])
  BY <1>2
<1>3. e \in Chan /\ e.state = "WILL_SEND_CREATE_CONNECTION" /\ ~e.incoming /\ ~e.confRsp
      /\ ~e.rcvdRsp /\ e.lsig = NoId /\ e.rcid = 0 /\ ~e.sentRsp
  <2>1. s.made \in Nat /\ Calls[n] \in Seq(Psms)
    BY <1>1, BoundsAssumption DEF Device, Psms
  <2>2. s.made + 1 \in 1..Len(Calls[n])
    <3> DEFINE made == s.made
               len == Len(Calls[n])
    <3>1. made \in Nat /\ len \in Nat /\ made < len
      BY <1>10, <2>1, LenProperties
    <3> HIDE DEF made, len
    <3>2. made + 1 \in 1..len
      BY <3>1
    <3> QED BY <3>2 DEF made, len
  <2>3. Calls[n][s.made + 1] \in Psms
    BY <2>1, <2>2
  <2> QED BY <2>3 DEF Entry, Chan, States, NoHandle, NoId
<1> HIDE DEF s, q, e
<1>4. Fine(t, q) /\ Has(t, t.cid)
  <2> DEFINE b == [e EXCEPT !.cid = s.cid + 1, !.odd = s.foreign]
  <2>1. /\ b.cid = s.cid + 1 /\ b.state = e.state /\ b.incoming = e.incoming
        /\ b.rcid = e.rcid /\ b.sentRsp = e.sentRsp /\ b.rcvdRsp = e.rcvdRsp
    BY <1>3 DEF Chan
  <2> HIDE DEF b
  <2>2. Suits(s, q, b)
    BY <1>1, <1>3, <2>1, CreatedSuits DEF Fine
  <2> QED BY <1>1, <1>2, <1>3, <2>2, AddKeeps DEF b
<1> HIDE DEF t
<1>5. Moves(t, u, q, {})
  BY <1>4, ConnectionCompleteMoves, StaysMoves
<1> HIDE DEF u
<1>6. Fine(u, q) /\ Has(u, t.cid)
  BY <1>4, <1>5 DEF Moves, Keeps
<1>7. Fine(v, q)
  BY <1>6, FeaturesMoves DEF Moves
<1> HIDE DEF v
<1>8. v.made + 1 \in Nat
  BY <1>7 DEF Fine, Core, Device
<1>9. Fine([v EXCEPT !.made = @ + 1], q)
  BY <1>7, <1>8, FieldKeeps
<1> QED BY <1>2, <1>9, HandledKeeps DEF q

(* The client accepts or declines a channel.                               *)
LEMMA AnswerKeeps ==
  ASSUME Inv, IdsFresh, NEW n \in Nodes, NEW cid,
         NEW state \in {"WILL_SEND_CONNECTION_RESPONSE_ACCEPT",
                        "WILL_SEND_CONNECTION_RESPONSE_DECLINE"},
         Answer(n, cid, state)
  PROVE  Inv'
<1> DEFINE s == node[n]
           q == node[Peer(n)]
           c == Channel(s, cid)
           d == [c EXCEPT !.state = state]
<1>1. Fine(s, q) /\ Core(s, q)
  BY Starts
<1>2. Has(s, cid) /\ c.state = "WAIT_CLIENT_ACCEPT_OR_REJECT" /\ Handled(n, Put(s, d))
  BY DEF Answer
<1>3. c \in Members(s) /\ c \in Chan /\ Consistent(c)
  BY <1>1, <1>2, ChannelIs
<1>4. d \in Chan /\ d.state = state /\ d.cid = c.cid /\ d.incoming = c.incoming
      /\ d.lsig = c.lsig /\ d.confRsp = c.confRsp /\ d.rcvdRsp = c.rcvdRsp /\ d.rtx = c.rtx
      /\ d.rcid = c.rcid /\ d.rsig = c.rsig /\ d.sentRsp = c.sentRsp
  <2>1. state \in States
    BY DEF States
  <2> QED BY <1>3, <2>1, ChanUpdates DEF Chan
<1> HIDE DEF s, q, c, d
<1>5. c.incoming
  BY <1>2, <1>3 DEF Consistent, Asked
<1>6. GoesOn(c, d) /\ (Unheard(d) => Unheard(c)) /\ (d.state \in Announced => c.state \in Announced)
  BY <1>2, <1>4, <1>5 DEF GoesOn, Unheard, Announced, Early, Asking, Asked
<1>7. Fine(Put(s, d), q)
  BY <1>1, <1>3, <1>6, GoesOnMoves DEF Moves
<1> QED BY <1>2, <1>7, HandledKeeps DEF q

(* The client disconnects a channel.                                       *)
LEMMA DisconnectKeeps ==
  ASSUME Inv, IdsFresh, NEW n \in Nodes, NEW cid, Disconnect(n, cid)
  PROVE  Inv'
<1> DEFINE s == node[n]
           q == node[Peer(n)]
           c == Channel(s, cid)
           d == [c EXCEPT !.state = "WILL_SEND_DISCONNECT_REQUEST"]
<1>1. Fine(s, q) /\ Core(s, q)
  BY Starts
<1>2. Has(s, cid) /\ Handled(n, Put(s, d))
  BY DEF Disconnect
<1>3. c \in Members(s) /\ c \in Chan
  BY <1>1, <1>2, ChannelIs
<1>4. d \in Chan /\ d.state = "WILL_SEND_DISCONNECT_REQUEST" /\ d.cid = c.cid
      /\ d.incoming = c.incoming /\ d.rtx = c.rtx
      /\ d.rcid = c.rcid /\ d.sentRsp = c.sentRsp /\ d.rcvdRsp = c.rcvdRsp
  <2>1. "WILL_SEND_DISCONNECT_REQUEST" \in States
    BY DEF States
  <2> QED BY <1>3, <2>1, ChanUpdates DEF Chan
<1> HIDE DEF s, q, c, d
<1>5. Fine(Put(s, d), q)
  BY <1>1, <1>3, <1>4, LeavesKeeps
<1> QED BY <1>2, <1>5, HandledKeeps DEF q

(* The device may send again: only here IdsFresh is about the state        *)
(* itself.                                                                 *)
LEMMA PacketSentKeeps ==
  ASSUME Inv, IdsFresh, NEW n \in Nodes, PacketSent(n)
  PROVE  Inv'
<1> DEFINE s == node[n]
           q == node[Peer(n)]
           t == [s EXCEPT !.busy = FALSE]
<1>1. Core(s, q) /\ Fresh(s, q, NextId(s)) /\ s \in Device
  BY Starts
<1>2. Handled(n, t)
  BY DEF PacketSent
<1>3. t \in Device /\ t.chans = s.chans /\ t.told = s.told /\ t.cid = s.cid /\ t.out = s.out
      /\ t.sig = s.sig
  BY <1>1 DEF Device
<1> HIDE DEF s, q, t
<1>4. Core(t, q) /\ Members(t) = Members(s)
  BY <1>1, <1>3, SameKeeps
<1>5. Fresh(t, q, NextId(t))
  BY <1>1, <1>3, <1>4 DEF Fresh, NextId, InUse, Requested
<1>6. Fine(t, q)
  BY <1>4, <1>5 DEF Fine
<1> QED BY <1>2, <1>6, HandledKeeps DEF q

(* A command arrives.                                                      *)
LEMMA ReceiveKeeps ==
  ASSUME Inv, IdsFresh, NEW n \in Nodes, Receive(n)
  PROVE  Inv'
<1> DEFINE s == node[n]
           q == node[Peer(n)]
           r == [q EXCEPT !.out = Tail(@)]
           m == Head(q.out)
           t == Dispatch(s, m)
<1>1. Core(s, q) /\ Fresh(s, q, NextId(s))
  BY Starts
<1>2. /\ q.out # <<>> /\ link' = link
      /\ node' = [node EXCEPT ![n] = Run(t), ![Peer(n)].out = Tail(@)]
  BY DEF Receive
<1>3. Fine(s, r) /\ Arrives(s, r, m)
  BY <1>1, <1>2, ReceiveFacts
<1>4. node' = [node EXCEPT ![n] = Run(t), ![Peer(n)] = r]
  BY <1>2, Peers DEF Inv
<1>5. link' \in [now : Nat, made : Nat]
  BY <1>2 DEF Inv
<1> HIDE DEF s, q, r, m
<1>6. Fine(t, r)
  BY <1>3, DispatchKeeps
<1> HIDE DEF t
<1>7. Core(Run(t), r)
  BY <1>6, RunKeeps
<1> QED BY <1>4, <1>5, <1>7, InvStep

(* An RTX timer expires.                                                   *)
LEMMA RtxTimeoutKeeps ==
  ASSUME Inv, IdsFresh, NEW n \in Nodes, NEW cid, RtxTimeout(n, cid)
  PROVE  Inv'
<1>1. Core(node[n], node[Peer(n)])
  BY Starts
<1>2. Has(node[n], cid) /\ Channel(node[n], cid).rtx /\ Becomes(n, Fail(node[n], cid))
  BY DEF RtxTimeout
<1>3. Core(Fail(node[n], cid), node[Peer(n)])
  BY <1>1, <1>2, FailMoves
<1> QED BY <1>2, <1>3, BecomesKeeps

(* The page fails.                                                         *)
LEMMA PageFailsKeeps ==
  ASSUME Inv, IdsFresh, NEW n \in Nodes, PageFails(n)
  PROVE  Inv'
<1> DEFINE s == [node[n] EXCEPT !.page = FALSE]
           q == node[Peer(n)]
<1>1. Fine(s, q)
  BY Starts, FieldKeeps
<1>2. Handled(n, ConnectionFailed(node[n]))
  BY DEF PageFails
<1>3. ConnectionFailed(node[n]) = FailThose(s, Unconnected)
  BY DEF ConnectionFailed, Unconnected, FailThose
<1> HIDE DEF s
<1>4. Fine(FailThose(s, Unconnected), q)
  BY <1>1, ConnectionFailedLoop
<1> QED BY <1>2, <1>3, <1>4, HandledKeeps

(* The ACL link is there.                                                  *)
LEMMA ConnectionCompleteKeeps ==
  ASSUME Inv, IdsFresh, NEW n \in Nodes, ConnectionComplete(n)
  PROVE  Inv'
<1> DEFINE r == [node[n] EXCEPT !.acl = link.now]
           s == [r EXCEPT !.page = FALSE]
           q == node[Peer(n)]
<1>1. Fine(r, q)
  BY Starts, FieldKeeps
<1>2. Handled(n, ForEach(s, ConnectionCompleteFor))
  BY DEF ConnectionComplete, ConnectionSucceeded
<1> HIDE DEF r, q
<1>3. Fine(s, q)
  BY <1>1, FieldKeeps
<1> HIDE DEF s
<1>4. Fine(ForEach(s, ConnectionCompleteFor), q)
  BY <1>3, ConnectionCompleteLoop
<1> QED BY <1>2, <1>4, HandledKeeps DEF q

(* The remote features are there.                                          *)
LEMMA RemoteFeaturesKeeps ==
  ASSUME Inv, IdsFresh, NEW n \in Nodes, RemoteFeatures(n)
  PROVE  Inv'
<1> DEFINE s == [node[n] EXCEPT !.feat = "known"]
           q == node[Peer(n)]
<1>1. Fine(s, q)
  BY Starts, FieldKeeps
<1>2. Handled(n, ForEach(s, FeaturesReceived))
  BY DEF RemoteFeatures, FeaturesComplete
<1> HIDE DEF s, q
<1>3. Fine(ForEach(s, FeaturesReceived), q)
  BY <1>1, FeaturesLoop
<1> QED BY <1>2, <1>3, HandledKeeps DEF q

(* A security level is reached or not.                                     *)
LEMMA SecurityLevelKeeps ==
  ASSUME Inv, IdsFresh, NEW n \in Nodes, NEW level \in {"none", "done"},
         Handled(n, SecurityLevel(node[n], level))
  PROVE  Inv'
<1> DEFINE r == [node[n] EXCEPT !.sec = level]
           s == [r EXCEPT !.info = IF level = "done" /\ @ = "IDLE" THEN "W2_EXTENDED" ELSE @]
           t == ForEach(s, SecurityLevelFor)
           q == node[Peer(n)]
<1>1. Fine(node[n], q) /\ node[n] \in Device
  BY Starts
<1>2. Fine(r, q)
  BY <1>1, FieldKeeps
<1>3. SecurityLevel(node[n], level) = FailRefused(t, node[n].acl, level)
  <2>1. s = [node[n] EXCEPT !.sec = level,
                            !.info = IF level = "done" /\ @ = "IDLE" THEN "W2_EXTENDED" ELSE @]
    BY <1>1 DEF Device
  <2> HIDE DEF s
  <2> QED BY <2>1 DEF SecurityLevel
<1> HIDE DEF r, q
<1>4. Fine(s, q)
  BY <1>2, FieldKeeps
<1> HIDE DEF s
<1>5. Fine(t, q)
  BY <1>4, SecurityLoop
<1> HIDE DEF t
<1>6. Fine(FailRefused(t, node[n].acl, level), q)
  BY <1>5, SecurityFailedLoop
<1> QED BY <1>3, <1>6, HandledKeeps DEF q

(* The device hears of the end of the ACL link.                            *)
LEMMA DisconnectedKeeps ==
  ASSUME Inv, IdsFresh, NEW n \in Nodes, Disconnected(n)
  PROVE  Inv'
<1> DEFINE s == node[n]
           q == node[Peer(n)]
           t == ForEach(s, DisconnectedFor)
           t1 == [t EXCEPT !.acl = NoHandle]
           t2 == [t1 EXCEPT !.feat = "unknown"]
           t3 == [t2 EXCEPT !.sec = "none"]
           t4 == [t3 EXCEPT !.info = "IDLE"]
           t5 == [t4 EXCEPT !.block = FALSE]
<1>1. Fine(s, q)
  BY Starts
<1>2. Handled(n, t5)
  BY DEF Disconnected, DisconnectionComplete
<1> HIDE DEF s, q
<1>3. Fine(t, q)
  BY <1>1, DisconnectedLoop
<1> HIDE DEF t
<1>4. Fine(t1, q)
  BY <1>3, FieldKeeps DEF NoHandle
<1> HIDE DEF t1
<1>5. Fine(t2, q)
  BY <1>4, FieldKeeps
<1> HIDE DEF t2
<1>6. Fine(t3, q)
  BY <1>5, FieldKeeps
<1> HIDE DEF t3
<1>7. Fine(t4, q)
  BY <1>6, FieldKeeps
<1> HIDE DEF t4
<1>8. Fine(t5, q)
  BY <1>7, FieldKeeps
<1> QED BY <1>2, <1>8, HandledKeeps DEF q

(* The controllers set up the ACL link.                                    *)
LEMMA PageSucceedsKeeps ==
  ASSUME Inv, NEW n \in Nodes, PageSucceeds(n)
  PROVE  Inv'
<1>1. node' = node /\ link' = [now |-> link.made + 1, made |-> link.made + 1]
  BY DEF PageSucceeds
<1>2. link.made \in Nat
  BY DEF Inv
<1>3. link' \in [now : Nat, made : Nat]
  BY <1>1, <1>2
<1> QED BY <1>1, <1>3 DEF Inv

(* The ACL link is lost with all that is on it.                            *)
LEMMA LinkDownKeeps ==
  ASSUME Inv, LinkDown
  PROVE  Inv'
<1>1. PICK n \in Nodes : TRUE
  BY NodesAssumption
<1> DEFINE p == Peer(n)
           s == [node[n] EXCEPT !.out = <<>>]
           q == [node[p] EXCEPT !.out = <<>>]
<1>2. /\ node' = [x \in Nodes |-> [node[x] EXCEPT !.out = <<>>]]
      /\ link' = [link EXCEPT !.now = 0]
  BY DEF LinkDown
<1>3. link' \in [now : Nat, made : Nat]
  BY <1>2 DEF Inv
<1>4. p \in Nodes /\ p # n /\ \A x \in Nodes : x = n \/ x = p
  BY Peers
<1>5. node' = [node EXCEPT ![n] = s, ![Peer(n)] = q]
  BY <1>2, <1>4 DEF Inv
<1>6. Core(node[n], q)
  BY LostFacts DEF Inv
<1> HIDE DEF q
<1>7. Core(q, s)
  BY <1>6, CoreIsMutual, LostFacts
<1> HIDE DEF s, p
<1>8. Core(s, q)
  BY <1>7, CoreIsMutual
<1> QED BY <1>3, <1>5, <1>8, InvStep

(* Inv holds at first.                                                     *)
LEMMA Initially ==
  ASSUME Init
  PROVE  Inv
<1>1. PICK ssp \in Ssp : node = [n \in Nodes |-> InitialNode(n, ssp)]
  BY DEF Init
<1>2. ssp \in BOOLEAN /\ SigIds \in Nat \ {0} /\ Pool \in Nat
  BY BoundsAssumption
<1>3. ASSUME NEW n \in Nodes
      PROVE  /\ node[n] \in Device /\ node[n].chans = <<>> /\ node[n].out = <<>>
             /\ node[n].cid = 0 /\ \A x \in Cids : node[n].told[x] = "nothing"
  <2>1. node[n] = InitialNode(n, ssp) /\ (n \in Foreign) \in BOOLEAN /\ SigIds \in 1..SigIds
    BY <1>1, <1>2
  <2>2. <<>> \in Seq(Chan) /\ <<>> \in Seq(Pending) /\ <<>> \in Seq(Message)
    OBVIOUS
  <2> QED BY <1>2, <2>1, <2>2 DEF InitialNode, Device, NoHandle
<1>4. ASSUME NEW n \in Nodes
      PROVE  /\ Members(node[n]) = {} /\ Owed(node[n]) = {} /\ Distinct(node[n])
             /\ \A code : Ids(node[n].out, code) = {} /\ Single(node[n].out, code)
             /\ (\A code : On(node[n].out, code) = {}) /\ Sole(node[n].out)
  BY <1>3 DEF Members, Owed, Distinct, Ids, Single, On, Sole
<1>5. ASSUME NEW n \in Nodes PROVE Local(node[n])
  <2>1. Len(node[n].chans) <= Pool
    BY <1>2, <1>3
  <2> QED BY <1>3, <1>4, <2>1 DEF Local
<1>6. ASSUME NEW n \in Nodes, NEW p \in Nodes PROVE Once(node[n], node[p]) /\ AtRest(node[n], node[p])
  BY <1>4 DEF Once, AtRest
<1>9. ASSUME NEW n \in Nodes, NEW p \in Nodes PROVE Paired(node[n], node[p])
  <2>1. \A x, y : ~Mate(node[n], node[p], x, y)
    BY <1>4 DEF Mate, Half, Oks
  <2> QED BY <1>4, <2>1 DEF Paired
<1>7. ASSUME NEW n \in Nodes PROVE Core(node[n], node[Peer(n)])
  <2>1. Peer(n) \in Nodes
    BY Peers
  <2> QED BY <1>3, <1>5, <1>6, <1>9, <2>1 DEF Core
<1>8. node = [n \in Nodes |-> node[n]] /\ link \in [now : Nat, made : Nat]
  BY <1>1 DEF Init
<1> QED BY <1>7, <1>8 DEF Inv

(* Every step keeps Inv, if the next identifiers are fresh.                *)
LEMMA Steadily ==
  ASSUME Inv, IdsFresh, [Next]_vars
  PROVE  Inv'
<1>1. ASSUME NEW n \in Nodes, ClientStep(n) PROVE Inv'
  <2>1. CASE Create(n)
    BY <2>1, CreateKeeps
  <2>2. CASE \E c \in Cids : Accept(n, c) \/ Decline(n, c)
    BY <2>2, AnswerKeeps DEF Accept, Decline
  <2>3. CASE \E c \in Cids : Disconnect(n, c)
    BY <2>3, DisconnectKeeps
  <2> QED BY <1>1, <2>1, <2>2, <2>3 DEF ClientStep
<1>2. ASSUME NEW n \in Nodes, DeviceStep(n) PROVE Inv'
  <2>1. CASE PacketSent(n)
    BY <2>1, PacketSentKeeps
  <2>2. CASE Receive(n)
    BY <2>2, ReceiveKeeps
  <2>3. CASE \E c \in Cids : RtxTimeout(n, c)
    BY <2>3, RtxTimeoutKeeps
  <2>4. CASE PageSucceeds(n)
    BY <2>4, PageSucceedsKeeps
  <2>5. CASE PageFails(n)
    BY <2>5, PageFailsKeeps
  <2>6. CASE ConnectionComplete(n)
    BY <2>6, ConnectionCompleteKeeps
  <2>7. CASE RemoteFeatures(n)
    BY <2>7, RemoteFeaturesKeeps
  <2>8. CASE Authenticated(n) \/ AuthenticationFailed(n)
    BY <2>8, SecurityLevelKeeps DEF Authenticated, AuthenticationFailed
  <2>9. CASE SecurityBlock(n)
    BY <2>9, LinkDownKeeps DEF SecurityBlock
  <2>10. CASE Disconnected(n)
    BY <2>10, DisconnectedKeeps
  <2> QED BY <1>2, <2>1, <2>2, <2>3, <2>4, <2>5, <2>6, <2>7, <2>8, <2>9, <2>10
          DEF DeviceStep
<1>3. CASE LinkDown
  BY <1>3, LinkDownKeeps
<1>4. CASE UNCHANGED vars
  BY <1>4 DEF vars, Inv
<1> QED BY <1>1, <1>2, <1>3, <1>4 DEF Next

(* While no identifier comes back to a device before it is free again, the *)
(* clients hear of their channels in an order that makes sense, for every  *)
(* number of channels, links, pool sizes, and every interleaving           *)
(* (l2cap_signaling_handler_dispatch, l2cap_rtx_timeout, l2cap_run).       *)
THEOREM ClientsHearInOrder == Spec /\ []IdsFresh => []EventsInOrder
<1>1. Init => Inv
  BY Initially
<1>2. Inv /\ IdsFresh /\ [Next]_vars => Inv'
  BY Steadily
<1>3. Inv => EventsInOrder
  BY DEF Inv, Core, Local, EventsInOrder
<1> QED BY <1>1, <1>2, <1>3, PTL DEF Spec

(* What is known of an open channel and a channel of the peer.             *)
LEMMA OpenFacts ==
  ASSUME NEW s, NEW q, Core(s, q), NEW c \in Members(s), c.state = "OPEN", NEW d \in Members(q)
  PROVE  /\ d.cid = c.rcid <=> d.rcid = c.cid
         /\ d.cid = c.rcid => d.sentRsp
<1>1. Paired(s, q) /\ Paired(q, s) /\ c.cid # 0 /\ d.cid # 0
  BY DEF Core, Local
<1>2. c.rcid # 0 /\ Accepted(q, c)
  BY <1>1 DEF Paired, Fixed
<1>3. Mate(s, q, c.cid, c.rcid) /\ (d.rcid # 0 => Mate(s, q, d.rcid, d.cid))
  BY <1>2 DEF Mate, Half
<1>4. d.rcid # 0 => (c.cid = d.rcid <=> c.rcid = d.cid)
  BY <1>1, <1>3 DEF Paired, Joins
<1>5. ASSUME d.cid = c.rcid PROVE d.sentRsp /\ d.rcid # 0
  <2>1. d.sentRsp
    BY <1>2, <1>5 DEF Accepted
  <2> QED BY <1>1, <2>1 DEF Paired, Fixed
<1> QED BY <1>1, <1>4, <1>5

(* While no identifier comes back to a device before it is free again, an  *)
(* open channel and the one it sends to belong to each other and its       *)
(* configuration was accepted: no late, stale or reordered command binds   *)
(* it to a channel of another connection, for every number of channels and *)
(* links and every interleaving (l2cap_signaling_handler_dispatch,         *)
(* l2cap_signaling_handler_channel, l2cap_run_for_classic_channel).        *)
THEOREM OpenChannelsAgree == Spec /\ []IdsFresh => []OpenIsAgreed
<1>1. Init => Inv
  BY Initially
<1>2. Inv /\ IdsFresh /\ [Next]_vars => Inv'
  BY Steadily
<1>3. Inv => OpenIsAgreed
  <2>1. ASSUME Inv, NEW n \in Nodes, NEW c \in ChannelsOf(n), NEW d \in ChannelsOf(Peer(n)),
               c.state = "OPEN"
        PROVE  /\ d.cid = c.rcid <=> d.rcid = c.cid
               /\ d.cid = c.rcid => d.sentRsp
    <3>1. Core(node[n], node[Peer(n)])
      BY <2>1 DEF Inv
    <3> QED BY <2>1, <3>1, OpenFacts DEF ChannelsOf
  <2> QED BY <2>1 DEF OpenIsAgreed
<1> QED BY <1>1, <1>2, <1>3, PTL DEF Spec

=============================================================================

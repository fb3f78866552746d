----------------------------- MODULE PacketPipe -----------------------------
(***************************************************************************)
(* What the H4 transport promises to hci.c: the packets of the controller  *)
(* arrive whole, once and in order, until the transport is closed; what    *)
(* was on its way then is lost.                                            *)
(***************************************************************************)
EXTENDS Integers, Sequences

CONSTANTS Packets,     \* what a controller may send
          NothingYet   \* got before the first packet

VARIABLES queue,  \* packets on their way to the host
          got     \* the last packet the handler was given, and a bit to tell
                  \* it from an equal one before it

Init == queue = <<>> /\ got = NothingYet

Emits(p) == queue' = Append(queue, p) /\ UNCHANGED got

(* The handler may close the transport.                                    *)
Delivers ==
  /\ queue # <<>>
  /\ got' = [packet |-> Head(queue), turn |-> 1 - got.turn]
  /\ queue' \in {Tail(queue), <<>>}

Close == queue' = <<>> /\ UNCHANGED got

Next == Delivers \/ Close \/ \E p \in Packets : Emits(p)

Spec == Init /\ [][Next]_<<queue, got>>
=============================================================================

------------------------------ MODULE MCH4Link ------------------------------
(* Instances of H4Link for TLC.                                            *)
EXTENDS H4Link

(* An event without and one with a payload, and an ACL packet that is      *)
(* longer than the ring.                                                   *)
ThreePackets ==
  { [kind |-> "event", len |-> 0], [kind |-> "event", len |-> 1],
    [kind |-> "acl", len |-> 1] }
=============================================================================

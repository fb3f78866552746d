------------------------------- MODULE MCGatt -------------------------------
(* Two devices, and what their applications do in each plan: A works, and  *)
(* B asks from the other side or sends updates.                            *)
EXTENDS Gatt

CONSTANTS A, B

TwoNodes == {A, B}
Mtu == [n \in {A, B} |-> IF n = A THEN 8 ELSE 9]
Lengths == [k \in Kinds |-> CASE k \in {"longwrite", "reliable"} -> 4
                              [] k = "oversize" -> 6
                              [] OTHER -> 2]
Call(kind) == [kind |-> kind, how |-> "call"]
Queue(kind) == [kind |-> kind, how |-> "queue"]
Chain(kind) == [kind |-> kind, how |-> "chain"]
Plan(a, b, updates) ==
  [n \in {A, B} |-> IF n = A THEN [queries |-> a, updates |-> <<>>]
                    ELSE [queries |-> b, updates |-> updates]]
Work == {
  Plan(<<Call("long"), Chain("longwrite")>>, <<Queue("find")>>, <<"ind">>),
  Plan(<<Call("reliable"), Queue("subscribe"), Queue("denied")>>, <<>>, <<"ntf">>),
  Plan(<<Call("write"), Chain("oversize"), Call("command")>>, <<Call("read")>>, <<>>),
  Plan(<<Call("long")>>, <<>>, <<"ind", "ntf", "ind">>) }
=============================================================================

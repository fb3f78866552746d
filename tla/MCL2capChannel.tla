--------------------------- MODULE MCL2capChannel ---------------------------
EXTENDS L2capChannel
CONSTANTS A, B

Only(n, calls) == [m \in Nodes |-> IF m = n THEN calls ELSE <<>>]
OneEach == [n \in Nodes |-> <<"sdp">>]
One == Only(A, <<"sdp">>)
SecureThenPlain == Only(A, <<"secure", "sdp">>)
Refused == Only(A, <<"missing", "missing", "missing">>)

NoStates == {}
OpenOnly == {"OPEN"}
ConnectedStates == {"CONFIG", "OPEN"}
EarlyOrOpen == {"WAIT_CONNECTION_COMPLETE", "WAIT_CONNECT_RSP", "OPEN"}

Alike == Permutations(Nodes)
=============================================================================

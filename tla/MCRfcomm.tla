------------------------------ MODULE MCRfcomm ------------------------------
EXTENDS Rfcomm
CONSTANTS A, B

At(a, b) == [n \in Nodes |-> IF n = A THEN a ELSE b]
ServerAtB == At({}, {1})
BothOpen == At(<<1>>, <<1>>)
OneOpens == At(<<1>>, <<>>)
TwoFromA == At(2, 0)
OneFromA == At(1, 0)
None == At(0, 0)
=============================================================================

----------------------------- MODULE MCRunLoop -----------------------------
EXTENDS RunLoop
CONSTANTS C1, C2

FirstThenSecond == [c \in Callbacks |-> IF c = C1 THEN Callbacks \ {C1} ELSE {}]
=============================================================================

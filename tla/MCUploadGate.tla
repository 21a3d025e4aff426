---------------------------- MODULE MCUploadGate ----------------------------
EXTENDS UploadGate

CONSTANTS c1, c2, c3, c4, x, y

ThreeConns == {c1, c2, c3}
FourConns == {c1, c2, c3, c4}

\* c1 and c2 are two connections of one peer.
Addresses == [c \in Conns |-> IF c \in {c1, c2} THEN x ELSE y]
=============================================================================

----------------------------- MODULE MCDownload -----------------------------
EXTENDS Download

CONSTANTS a, b

Everyone == {a, b}
HoldsAll == [s \in Sessions |-> Parts]

\* Peer b has the last part only, so the two race for that one.
HoldsLast == [s \in Sessions |-> IF s = a THEN Parts ELSE {PartOf(Size - 1)}]
=============================================================================

----------------------------- MODULE MCPartFile -----------------------------
EXTENDS PartFile

\* Lists of up to two gaps, in any order: overlapping, inverted, past the end.
SmallLists ==
    LET G == [start : {0, 2, Size}, end : {1, 3, Size + 1}]
    IN {<<>>} \cup {<<g>> : g \in G} \cup (G \X G)

\* What another source may hold: nothing, or any one range.
OneRange == {{}} \cup {{x} : x \in {y \in (0 .. Size) \X (0 .. Size) : y[1] < y[2]}}
=============================================================================

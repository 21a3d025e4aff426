------------------------------- MODULE GapSet -------------------------------
(***************************************************************************)
(* What a gap list promises: it is a set of missing units.  Filling takes  *)
(* a range out of it, re-opening puts one back, and nothing else changes.  *)
(* A part is marked corrupt only together with its re-opening.             *)
(***************************************************************************)
EXTENDS BlockLattice

VARIABLES missing, bad

vars == <<missing, bad>>

Init == missing \subseteq Units /\ bad \subseteq Parts

Range(x, y) == {u \in Units : x <= u /\ u < y}

Fill(x, y) == missing' = missing \ Range(x, y) /\ UNCHANGED bad

\* A range that runs past the end of the file is refused.
Reopen(x, y) ==
    /\ missing' = IF y <= Size THEN missing \cup Range(x, y) ELSE missing
    /\ UNCHANGED bad

Corrupt(p) == missing' = missing \cup PartUnits(p) /\ bad' = bad \cup {p}

Accept(p) == bad' = bad \ {p} /\ UNCHANGED missing

Reset == missing' = Units /\ bad' = {}

Next ==
    \/ \E x, y \in 0 .. (Size + 1) : Fill(x, y) \/ Reopen(x, y)
    \/ \E p \in Parts : Corrupt(p) \/ Accept(p)
    \/ Reset

Spec == Init /\ [][Next]_vars
=============================================================================

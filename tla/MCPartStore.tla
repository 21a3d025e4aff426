----------------------------- MODULE MCPartStore -----------------------------
EXTENDS PartStore

CONSTANTS d1, d2

Two == {d1, d2}
=============================================================================

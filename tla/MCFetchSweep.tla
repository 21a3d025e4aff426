---------------------------- MODULE MCFetchSweep ----------------------------
EXTENDS FetchSweep

CONSTANTS x, y

TwoSources == {x, y}
=============================================================================

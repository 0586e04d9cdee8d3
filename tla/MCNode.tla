------------------------------- MODULE MCNode -------------------------------
EXTENDS NodeLoop
=============================================================================

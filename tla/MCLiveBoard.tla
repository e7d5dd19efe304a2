---------------------------- MODULE MCLiveBoard ----------------------------
EXTENDS LiveBoard

CONSTANTS c1, c2
=============================================================================

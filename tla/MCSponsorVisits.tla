-------------------------- MODULE MCSponsorVisits --------------------------
EXTENDS SponsorVisits

CONSTANTS p1, p2, s1, s2

OneEach == [crash |-> 1, sql |-> 1, evict |-> 1]
=============================================================================

-------------------------- MODULE MCScoringWorker --------------------------
EXTENDS ScoringWorker

CONSTANTS p1, p2, p3

FaultBudget(crash, postflush, sql, evict) ==
  [crash |-> crash, postflush |-> postflush, sql |-> sql, evict |-> evict]

OneOfEach == FaultBudget(1, 1, 1, 1)
=============================================================================

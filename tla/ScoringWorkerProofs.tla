------------------------ MODULE ScoringWorkerProofs ------------------------
(***************************************************************************)
(* Proofs about the scoring worker, for every set of participants, every   *)
(* length of the stream, page size, trim limit and budget of faults.       *)
(***************************************************************************)
EXTENDS ScoringWorker, FiniteSetTheorems, SequenceTheorems, TLAPS

-----------------------------------------------------------------------------
(***************************************************************************)
(* The batch                                                               *)
(***************************************************************************)

\* A sequence over a set is one over every larger set: the ids a sequence
\* names stay ids of the stream when the stream grows.
LEMMA SeqGrows ==
  ASSUME NEW S, NEW T, S \subseteq T, NEW s \in Seq(S)
  PROVE  s \in Seq(T)
OBVIOUS

\* Every element of the second of two sequences is one of their concatenation.
LEMMA ConcatHas ==
  ASSUME NEW S, NEW s \in Seq(S), NEW t \in Seq(S), NEW k \in 1..Len(t)
  PROVE  \E i \in DOMAIN (s \o t) : (s \o t)[i] = t[k]
<1>1. Len(s) \in Nat /\ Len(t) \in Nat
  OBVIOUS
<1>2. /\ s \o t \in Seq(S)
      /\ Len(s \o t) = Len(s) + Len(t)
      /\ \A i \in 1..(Len(s) + Len(t)) :
           (s \o t)[i] = IF i <= Len(s) THEN s[i] ELSE t[i - Len(s)]
  BY ConcatProperties
<1>3. DOMAIN (s \o t) = 1..(Len(s) + Len(t))
  BY <1>2
<1>4. /\ Len(s) + k \in 1..(Len(s) + Len(t))
      /\ ~(Len(s) + k <= Len(s))
      /\ Len(s) + k - Len(s) = k
  BY <1>1
<1>5. (s \o t)[Len(s) + k] = t[k]
  BY <1>2, <1>4
<1> QED BY <1>3, <1>4, <1>5

\* XRANGE returns the ids after the cursor in order, all of them entries of the
\* stream, and NewLast is the last of them, or the cursor when there is none.
LEMMA NewEventsProp ==
  ASSUME TypeOK
  PROVE  /\ FirstUnread \in 1..(Len(stream) + 1)
         /\ LastRead \in (FirstUnread - 1)..Len(stream)
         /\ NewEvents \in Seq(1..Len(stream))
         /\ Len(NewEvents) = LastRead + 1 - FirstUnread
         /\ \A i \in 1..Len(NewEvents) : NewEvents[i] = FirstUnread + i - 1
         /\ NewLast \in cursor..Len(stream)
<1> USE ConstantsAssumption
<1>1. /\ Len(stream) \in Nat /\ cursor \in 0..Len(stream)
      /\ trimmed \in 0..Len(stream) /\ ReadCount \in Nat \ {0}
  BY DEF TypeOK
<1>2. FirstUnread \in 1..(Len(stream) + 1)
  BY <1>1 DEF FirstUnread
<1>3. LastRead \in (FirstUnread - 1)..Len(stream)
  BY <1>1, <1>2 DEF LastRead
<1>4. LastRead + 1 - FirstUnread \in Nat
  BY <1>2, <1>3
<1>5. \A i \in 1..(LastRead + 1 - FirstUnread) : FirstUnread + i - 1 \in 1..Len(stream)
  BY <1>2, <1>3
<1>6. NewEvents \in Seq(1..Len(stream))
  BY <1>4, <1>5 DEF NewEvents
<1>7. Len(NewEvents) = LastRead + 1 - FirstUnread
  BY <1>4 DEF NewEvents
<1>8. \A i \in 1..Len(NewEvents) : NewEvents[i] = FirstUnread + i - 1
  BY <1>7 DEF NewEvents
<1>9. NewLast \in cursor..Len(stream)
  <2>1. CASE NewEvents = <<>>
    BY <2>1, <1>1 DEF NewLast
  <2>2. CASE NewEvents # <<>>
    <3>1. LastRead + 1 - FirstUnread # 0
      BY <2>2, <1>6, <1>7
    <3>2. LastRead >= FirstUnread
      BY <3>1, <1>2, <1>3
    <3>3. FirstUnread > cursor
      BY <1>1 DEF FirstUnread
    <3> QED BY <2>2, <3>2, <3>3, <1>1, <1>2, <1>3 DEF NewLast
  <2> QED BY <2>1, <2>2
<1> QED BY <1>2, <1>3, <1>6, <1>7, <1>8, <1>9

\* The batch a flush begins with is made of entries of the stream, and holds
\* every id between the cursor and NewLast that was not trimmed.
LEMMA NextBatchProp ==
  ASSUME TypeOK
  PROVE  /\ NextBatch \in Seq(1..Len(stream))
         /\ NextBatchLast \in 0..Len(stream)
         /\ \A id \in (cursor + 1)..NewLast :
              id \in 1..trimmed \/ \E i \in DOMAIN NextBatch : NextBatch[i] = id
<1>1. /\ pending \in Seq(1..Len(stream)) /\ pendingLast \in 0..Len(stream)
      /\ cursor \in 0..Len(stream) /\ trimmed \in 0..Len(stream)
      /\ Len(stream) \in Nat /\ Len(pending) \in Nat
  BY DEF TypeOK
<1>2. NextBatch \in Seq(1..Len(stream))
  BY <1>1, NewEventsProp DEF NextBatch
<1>3. NextBatchLast \in 0..Len(stream)
  BY <1>1, NewEventsProp DEF NextBatchLast
<1>4. ASSUME NEW id \in (cursor + 1)..NewLast, id \notin 1..trimmed
      PROVE  \E i \in DOMAIN NextBatch : NextBatch[i] = id
  <2>1. NewEvents # <<>> /\ NewLast = LastRead
    BY <1>4, <1>1 DEF NewLast
  <2>2. id \in FirstUnread..LastRead
    BY <1>1, <1>4, <2>1, NewEventsProp DEF FirstUnread
  <2>3. /\ FirstUnread \in Nat /\ LastRead \in Nat
        /\ NewEvents \in Seq(1..Len(stream))
        /\ Len(NewEvents) = LastRead + 1 - FirstUnread
        /\ \A i \in 1..Len(NewEvents) : NewEvents[i] = FirstUnread + i - 1
    BY <1>1, NewEventsProp
  <2> DEFINE k == id + 1 - FirstUnread
  <2>4. k \in 1..Len(NewEvents) /\ id = FirstUnread + k - 1
    BY <2>2, <2>3
  <2> HIDE DEF k
  <2>5. NewEvents[k] = id
    BY <2>3, <2>4
  <2>6. pending \in Seq(1..Len(stream)) /\ NewEvents \in Seq(1..Len(stream))
    BY <1>1, <2>3
  <2>7. k \in 1..Len(NewEvents)
    BY <2>4
  <2>8. \E i \in DOMAIN (pending \o NewEvents) : (pending \o NewEvents)[i] = NewEvents[k]
    BY ONLY <2>6, <2>7, ConcatHas
  <2> QED BY <2>5, <2>8 DEF NextBatch
<1> QED BY <1>2, <1>3, <1>4

\* How often an id occurs in the batch is a natural number, not 0 if it occurs.
LEMMA CopiesProp ==
  ASSUME batch \in Seq(1..Len(stream)), NEW id
  PROVE  /\ Copies(id) \in Nat
         /\ (\E i \in DOMAIN batch : batch[i] = id) => Copies(id) > 0
<1> DEFINE S == {i \in DOMAIN batch : batch[i] = id}
<1>1. DOMAIN batch = 1..Len(batch) /\ Len(batch) \in Nat
  OBVIOUS
<1>2. IsFiniteSet(S)
  <2>1. IsFiniteSet(1..Len(batch))
    BY <1>1, FS_Interval
  <2>2. S \in SUBSET (1..Len(batch))
    BY <1>1
  <2> QED BY <2>1, <2>2, FS_Subset
<1>3. Cardinality(S) \in Nat
  BY <1>2, FS_CardinalityType
<1>4. Cardinality(S) = 0 <=> S = {}
  BY <1>2, FS_EmptySet
<1> QED BY <1>3, <1>4 DEF Copies

-----------------------------------------------------------------------------
(***************************************************************************)
(* Type correctness                                                        *)
(***************************************************************************)

\* After ZADD of processed participants the leaderboard still maps every
\* participant to a score.
LEMMA ZaddType ==
  ASSUME TypeOK, NEW n
  PROVE  Zadd(n) \in [Participants -> Nat]
BY DEF TypeOK, Zadd

\* What a flush leaves behind when it ends, however it ends.
LEMMA ForgetType ==
  ASSUME ForgetBatch
  PROVE  /\ pc' = "idle" /\ batch' = <<>> /\ batchLast' = 0
         /\ todo' = {} /\ processed' = <<>>
BY DEF ForgetBatch

\* The events of one participant in the batch are entries of the stream.
LEMMA EventsOfType ==
  ASSUME TypeOK, NEW p
  PROVE  EventsOf(p) \subseteq 1..Len(stream)
<1>1. batch \in Seq(1..Len(stream))
  BY DEF TypeOK
<1>2. \A i \in DOMAIN batch : batch[i] \in 1..Len(stream)
  BY <1>1
<1> QED BY <1>2 DEF EventsOf

\* Init puts every variable in its type.
LEMMA InitType == Init => TypeOK
<1> SUFFICES ASSUME Init PROVE TypeOK
  OBVIOUS
<1> USE ConstantsAssumption
<1>1. stream = <<>> /\ Len(stream) = 0
  BY DEF Init
<1>2. stream \in Seq(Event) /\ pending \in Seq(1..Len(stream))
      /\ batch \in Seq(1..Len(stream)) /\ processed \in Seq(Participants)
  BY DEF Init
<1> QED BY <1>1, <1>2 DEF Init, TypeOK, FaultKinds

\* A fault is counted once, and only within its budget.
LEMMA FaultType ==
  ASSUME TypeOK, NEW k \in FaultKinds, Fault(k)
  PROVE  faults' \in [FaultKinds -> Nat]
BY DEF TypeOK, Fault

\* What an XADD trims: ids that have left the stream, and of those that leave it now
\* each one that lies past the cursor.
LEMMA PushOverruns ==
  ASSUME TypeOK, NEW p, NEW z, PushEvent(p, z)
  PROVE  /\ overrun' \subseteq 1..trimmed'
         /\ overrun \subseteq overrun'
         /\ \A id \in (trimmed + 1)..trimmed' : id > cursor => id \in overrun'
         /\ \A id \in overrun' \ overrun :
              /\ id > cursor
              /\ id <= Len(stream) + 1 - StreamMax
<1> USE ConstantsAssumption
<1>1. /\ trimmed \in Nat /\ cursor \in Nat /\ Len(stream) \in Nat
      /\ StreamMax \in Nat \ {0} /\ overrun \subseteq 1..trimmed
  BY DEF TypeOK
<1>2. /\ trimmed' = trimmed \/ trimmed' \in trimmed..(Len(stream) + 1 - StreamMax)
      /\ overrun' = overrun \cup {id \in (trimmed + 1)..trimmed' : id > cursor}
  BY DEF PushEvent
<1>3. overrun \subseteq overrun'
  BY <1>2
<1>4. \A id \in (trimmed + 1)..trimmed' : id > cursor => id \in overrun'
  BY <1>2
<1>5. \A id \in overrun' \ overrun : id \in (trimmed + 1)..trimmed' /\ id > cursor
  BY <1>2
<1>6. trimmed' \in Nat /\ trimmed <= trimmed'
  BY ONLY <1>1, <1>2
<1>7. ASSUME NEW id \in overrun' PROVE id \in 1..trimmed'
  <2>1. CASE id \in overrun
    BY ONLY <2>1, <1>1, <1>6
  <2>2. CASE id \notin overrun
    <3>1. id \in (trimmed + 1)..trimmed'
      BY <2>2, <1>5, <1>7
    <3> QED BY ONLY <3>1, <1>1, <1>6
  <2> QED BY <2>1, <2>2
<1>8. \A id \in overrun' \ overrun : id <= Len(stream) + 1 - StreamMax
  BY ONLY <1>1, <1>2, <1>5
<1> QED BY <1>3, <1>4, <1>5, <1>7, <1>8

\* The same of the eviction of the whole stream.
LEMMA StreamOverruns ==
  ASSUME TypeOK, EvictStream
  PROVE  /\ overrun' \subseteq 1..Len(stream)
         /\ overrun \subseteq overrun'
         /\ \A id \in (trimmed + 1)..Len(stream) : id > cursor => id \in overrun'
         /\ \A id \in overrun' \ overrun : id > cursor /\ id <= Len(stream)
<1>1. /\ trimmed \in 0..Len(stream) /\ Len(stream) \in Nat
      /\ overrun \subseteq 1..trimmed
  BY DEF TypeOK
<1>2. overrun' = overrun \cup {id \in (trimmed + 1)..Len(stream) : id > cursor}
  BY DEF EvictStream
<1>3. overrun \subseteq overrun'
  BY <1>2
<1>4. \A id \in (trimmed + 1)..Len(stream) : id > cursor => id \in overrun'
  BY <1>2
<1>5. \A id \in overrun' \ overrun : id \in (trimmed + 1)..Len(stream) /\ id > cursor
  BY <1>2
<1>6. \A id \in overrun' \ overrun : id > cursor /\ id <= Len(stream)
  BY <1>1, <1>5
<1>7. ASSUME NEW id \in overrun' PROVE id \in 1..Len(stream)
  <2>1. CASE id \in overrun
    BY ONLY <2>1, <1>1
  <2>2. CASE id \notin overrun
    <3>1. id \in (trimmed + 1)..Len(stream)
      BY <2>2, <1>5, <1>7
    <3> QED BY ONLY <3>1, <1>1
  <2> QED BY <2>1, <2>2
<1> QED BY <1>3, <1>4, <1>6, <1>7

\* Every step keeps every variable in its type.
LEMMA NextType == TypeOK /\ [Next]_vars => TypeOK'
<1> SUFFICES ASSUME TypeOK, [Next]_vars PROVE TypeOK'
  OBVIOUS
<1> USE ConstantsAssumption
<1>1. ASSUME NEW p \in Participants, NEW z \in BOOLEAN, PushEvent(p, z)
      PROVE  TypeOK'
  <2>1. /\ stream \in Seq(Event) /\ Len(stream) \in Nat /\ Len(stream) < MaxEvents
        /\ [pid |-> p, inZone |-> z] \in Event
    BY <1>1 DEF TypeOK, PushEvent, Event
  <2>2. stream' \in Seq(Event) /\ Len(stream') = Len(stream) + 1
    BY <1>1, <2>1, AppendProperties DEF PushEvent
  <2>3. 1..Len(stream) \subseteq 1..Len(stream')
    BY <2>1, <2>2
  <2>4. pending \in Seq(1..Len(stream')) /\ batch \in Seq(1..Len(stream'))
    BY <2>3, SeqGrows DEF TypeOK
  <2>5. trimmed' \in 0..Len(stream')
    <3>1. trimmed \in 0..Len(stream) /\ StreamMax \in Nat \ {0}
      BY DEF TypeOK
    <3>2. trimmed' = trimmed \/ trimmed' \in trimmed..(Len(stream) + 1 - StreamMax)
      BY <1>1 DEF PushEvent
    <3> QED BY ONLY <2>1, <2>2, <3>1, <3>2
  <2>6. liveScore' \in [Participants -> Nat]
    BY <1>1 DEF TypeOK, PushEvent
  <2>8. overrun' \subseteq 1..trimmed'
    BY <1>1, PushOverruns
  <2>7. /\ cursor' \in 0..Len(stream') /\ Len(stream') <= MaxEvents
        /\ pendingLast' \in 0..Len(stream') /\ batchLast' \in 0..Len(stream')
        /\ dropped' \subseteq 1..Len(stream')
    BY <1>1, <2>1, <2>2, <2>3 DEF TypeOK, PushEvent, memory
  <2> QED
    BY <1>1, <2>2, <2>4, <2>5, <2>6, <2>7, <2>8 DEF TypeOK, PushEvent, memory, postgres
<1>2. ASSUME FlushEmpty PROVE TypeOK'
  BY <1>2 DEF FlushEmpty, TypeOK, postgres, memory
<1>3. ASSUME BeginFlush PROVE TypeOK'
  <2>1. batch' \in Seq(1..Len(stream)) /\ batchLast' \in 0..Len(stream)
    BY <1>3, NextBatchProp DEF BeginFlush
  <2>2. \A i \in DOMAIN NextBatch : NextBatch[i] \in 1..Len(stream)
    BY NextBatchProp
  <2>3. \A id \in 1..Len(stream) : stream[id].pid \in Participants
    <3>1. \A id \in 1..Len(stream) : stream[id] \in Event
      BY DEF TypeOK
    <3> QED BY <3>1 DEF Event
  <2>4. todo' \subseteq Participants
    BY <1>3, <2>2, <2>3 DEF BeginFlush
  <2>5. pc' = "score" /\ processed' \in Seq(Participants)
    BY <1>3 DEF BeginFlush
  <2>6. UNCHANGED <<redis, postgres, pending, pendingLast, dropped, faults>>
    BY <1>3 DEF BeginFlush
  <2> QED BY ONLY TypeOK, <2>1, <2>4, <2>5, <2>6 DEF TypeOK, redis, postgres
<1>4. ASSUME NEW p \in Participants, SkipMalformed(p) PROVE TypeOK'
  BY <1>4, EventsOfType DEF SkipMalformed, TypeOK, redis, postgres
<1>5. ASSUME NEW p \in Participants, FlushParticipant(p) PROVE TypeOK'
  <2>1. liveScore' \in [Participants -> Nat]
    BY <1>5 DEF FlushParticipant, TypeOK
  <2>2. /\ pc' = "commit"
        /\ UNCHANGED <<stream, trimmed, overrun, cursor, leaderboard, status, postgres, pending,
                       pendingLast, batch, batchLast, todo, processed, dropped, faults>>
    BY <1>5 DEF FlushParticipant
  <2> QED BY ONLY TypeOK, <2>1, <2>2 DEF TypeOK, postgres
<1>6. ASSUME NEW p \in Participants, CommitParticipant(p) PROVE TypeOK'
  <2>1. logs' \in [Ids -> Nat]
    <3>1. \A id \in Ids : Copies(id) \in Nat
      BY CopiesProp DEF TypeOK
    <3> QED BY <1>6, <3>1 DEF CommitParticipant, TypeOK
  <2>2. processed' \in Seq(Participants)
    BY <1>6 DEF CommitParticipant, TypeOK
  <2>3. dropped' \subseteq 1..Len(stream)
    BY <1>6, EventsOfType DEF CommitParticipant, TypeOK
  <2>4. score' \in [Participants -> Nat]
    BY <1>6 DEF CommitParticipant, TypeOK
  <2> QED BY <1>6, <2>1, <2>2, <2>3, <2>4 DEF CommitParticipant, TypeOK, redis
<1>7. ASSUME UpdateRanks PROVE TypeOK'
  BY <1>7, ZaddType DEF UpdateRanks, TypeOK
<1>8. ASSUME SetCursor PROVE TypeOK'
  BY <1>8 DEF SetCursor, TypeOK, postgres
<1>9. ASSUME FinishFlush PROVE TypeOK'
  <2>1. pending' = <<>> /\ pendingLast' = 0 /\ ForgetBatch
    BY <1>9 DEF FinishFlush
  <2> QED BY <1>9, <2>1, ForgetType DEF FinishFlush, TypeOK, postgres
<1>10. ASSUME NEW p \in Participants, RejectParticipant(p) PROVE TypeOK'
  <2>1. faults' \in [FaultKinds -> Nat]
    BY <1>10, FaultType DEF RejectParticipant, FaultKinds
  <2> QED BY <1>10, <2>1, EventsOfType DEF RejectParticipant, TypeOK, redis, postgres
<1>11. ASSUME NEW p \in Participants, FailCommit(p) PROVE TypeOK'
  <2>1. faults' \in [FaultKinds -> Nat]
    BY <1>11, FaultType DEF FailCommit, FaultKinds
  <2> QED BY <1>11, <2>1, EventsOfType DEF FailCommit, TypeOK, redis, postgres
<1>12. ASSUME FailPostFlush PROVE TypeOK'
  <2>1. faults' \in [FaultKinds -> Nat]
    BY <1>12, FaultType DEF FailPostFlush, FaultKinds
  <2>2. leaderboard' \in [Participants -> Nat]
    BY <1>12, ZaddType DEF FailPostFlush
  <2>3. /\ pending' \in Seq(1..Len(stream)) /\ pendingLast' \in 0..Len(stream)
        /\ ForgetBatch
    BY <1>12 DEF FailPostFlush, TypeOK
  <2>4. /\ pc' = "idle" /\ batch' = <<>> /\ batchLast' = 0
        /\ todo' = {} /\ processed' = <<>>
    BY <2>3, ForgetType
  <2>5. /\ UNCHANGED <<stream, trimmed, overrun, cursor, liveScore, score, ranked, logs,
                       dropped>>
        /\ status' \in {"none", "running", "error"}
    BY <1>12 DEF FailPostFlush, TypeOK, postgres
  <2> QED BY <2>1, <2>2, <2>3, <2>4, <2>5 DEF TypeOK
<1>13. ASSUME Crash PROVE TypeOK'
  <2>1. faults' \in [FaultKinds -> Nat]
    BY <1>13, FaultType DEF Crash, FaultKinds
  <2>2. leaderboard' \in [Participants -> Nat]
    BY <1>13, ZaddType DEF Crash
  <2>3. pending' = <<>> /\ pendingLast' = 0 /\ ForgetBatch
    BY <1>13 DEF Crash
  <2>4. /\ pc' = "idle" /\ batch' = <<>> /\ batchLast' = 0
        /\ todo' = {} /\ processed' = <<>>
    BY <2>3, ForgetType
  <2>5. /\ UNCHANGED <<stream, trimmed, overrun, cursor, liveScore, score, ranked, logs,
                       dropped>>
        /\ status' \in {"none", "running", "error"}
    BY <1>13 DEF Crash, TypeOK, postgres
  <2> QED BY <2>1, <2>2, <2>3, <2>4, <2>5 DEF TypeOK
<1>14. ASSUME EvictCursor PROVE TypeOK'
  <2>1. faults' \in [FaultKinds -> Nat]
    BY <1>14, FaultType DEF EvictCursor, FaultKinds
  <2> QED BY <1>14, <2>1 DEF EvictCursor, TypeOK, postgres, memory
<1>15. ASSUME EvictStream PROVE TypeOK'
  <2>1. faults' \in [FaultKinds -> Nat]
    BY <1>15, FaultType DEF EvictStream, FaultKinds
  <2>2. trimmed' = Len(stream) /\ Len(stream) \in Nat
    BY <1>15 DEF EvictStream, TypeOK
  <2>3. overrun' \subseteq 1..Len(stream)
    BY <1>15, StreamOverruns
  <2> QED BY <1>15, <2>1, <2>2, <2>3 DEF EvictStream, TypeOK, postgres, memory
<1>16. CASE UNCHANGED vars
  BY <1>16 DEF TypeOK, vars, redis, postgres, memory
<1> QED
  BY <1>1, <1>2, <1>3, <1>4, <1>5, <1>6, <1>7, <1>8, <1>9, <1>10, <1>11, <1>12,
     <1>13, <1>14, <1>15, <1>16 DEF Next, Work, Failure, HandleParticipant

\* Every reachable state is well typed: ids in the worker's memory are entries
\* of the stream, whatever fails and however often.
THEOREM TypeCorrect == Spec => []TypeOK
<1>1. Init => TypeOK
  BY InitType
<1>2. TypeOK /\ [Next]_vars => TypeOK'
  BY NextType
<1> QED BY <1>1, <1>2, PTL DEF Spec

-----------------------------------------------------------------------------
(***************************************************************************)
(* No event is lost silently                                               *)
(***************************************************************************)

\* What the invariant says beyond types.
Core ==
  /\ NoSilentLoss
  /\ PendingIsSettled
  /\ TrimmedAccounted
  /\ BatchCovers
  /\ CursorOrder
  /\ TailAfterLoop

\* The ids the worker holds are among those logs is defined on.
LEMMA IdBounds ==
  ASSUME TypeOK
  PROVE  /\ Len(stream) \in Nat
         /\ 1..Len(stream) \subseteq Ids
         /\ 1..cursor \subseteq Ids
         /\ 1..pendingLast \subseteq Ids
         /\ 1..batchLast \subseteq Ids
         /\ 1..trimmed \subseteq Ids
         /\ \A i \in DOMAIN batch : batch[i] \in 1..Len(stream)
         /\ \A i \in DOMAIN pending : pending[i] \in 1..Len(stream)
<1> USE ConstantsAssumption
<1>1. /\ Len(stream) \in Nat /\ Len(stream) <= MaxEvents
      /\ cursor \in 0..Len(stream) /\ pendingLast \in 0..Len(stream)
      /\ batchLast \in 0..Len(stream) /\ trimmed \in 0..Len(stream)
  BY DEF TypeOK
<1>2. batch \in Seq(1..Len(stream)) /\ pending \in Seq(1..Len(stream))
  BY DEF TypeOK
<1>3. /\ \A i \in DOMAIN batch : batch[i] \in 1..Len(stream)
      /\ \A i \in DOMAIN pending : pending[i] \in 1..Len(stream)
  BY <1>2
<1> QED BY <1>1, <1>3 DEF Ids

\* A commit logs or gives up every event of its participant.
LEMMA CommitSettles ==
  ASSUME TypeOK, NEW p, CommitParticipant(p)
  PROVE  /\ \A id \in Ids : Settled(id) => Settled(id)'
         /\ \A id \in EventsOf(p) : Settled(id)'
<1>1. logs \in [Ids -> Nat]
  BY DEF TypeOK
<1>2. batch \in Seq(1..Len(stream))
  BY DEF TypeOK
<1>3. \A id : Copies(id) \in Nat
  BY <1>2, CopiesProp
<1>4. \A id \in EventsOf(p) : Copies(id) > 0
  BY <1>2, CopiesProp DEF EventsOf
<1>5. /\ logs' = [id \in Ids |->
                    IF id \in EventsOf(p) /\ stream[id].inZone
                    THEN logs[id] + Copies(id) ELSE logs[id]]
      /\ dropped' = dropped \cup {id \in EventsOf(p) : ~stream[id].inZone}
  BY DEF CommitParticipant
<1>6. \A id \in Ids : Settled(id) => Settled(id)'
  BY <1>1, <1>3, <1>5 DEF Settled
<1>7. EventsOf(p) \subseteq Ids
  BY EventsOfType, IdBounds
<1>8. ASSUME NEW id \in EventsOf(p) PROVE Settled(id)'
  <2>1. CASE stream[id].inZone
    <3>1. logs'[id] = logs[id] + Copies(id)
      BY <1>5, <1>7, <1>8, <2>1
    <3> QED BY <3>1, <1>1, <1>3, <1>4, <1>7, <1>8 DEF Settled
  <2>2. CASE ~stream[id].inZone
    BY <2>2, <1>5, <1>8 DEF Settled
  <2> QED BY <2>1, <2>2
<1> QED BY <1>6, <1>8

\* Whatever a step does, an event that is settled stays settled.
LEMMA SettledStable ==
  ASSUME TypeOK, [Next]_vars, NEW id \in Ids, Settled(id)
  PROVE  Settled(id)'
<1>1. ASSUME UNCHANGED logs, dropped \subseteq dropped' PROVE Settled(id)'
  BY <1>1 DEF Settled
<1>2. ASSUME NEW p \in Participants, CommitParticipant(p) PROVE Settled(id)'
  BY <1>2, CommitSettles
<1>3. CASE \A p \in Participants : ~CommitParticipant(p)
  <2>1. UNCHANGED logs /\ dropped \subseteq dropped'
    BY <1>3 DEF Next, Work, Failure, HandleParticipant, PushEvent, FlushEmpty,
       BeginFlush, SkipMalformed, FlushParticipant, UpdateRanks, SetCursor,
       FinishFlush, RejectParticipant, FailCommit, FailPostFlush, Crash,
       EvictCursor, EvictStream, vars, postgres
  <2> QED BY <2>1, <1>1
<1> QED BY <1>2, <1>3

\* Whatever a step does, what was noted as overrun stays noted.
LEMMA OverrunStable ==
  ASSUME TypeOK, [Next]_vars
  PROVE  overrun \subseteq overrun'
<1>1. ASSUME NEW p \in Participants, NEW z \in BOOLEAN, PushEvent(p, z)
      PROVE  overrun \subseteq overrun'
  BY <1>1, PushOverruns
<1>2. ASSUME EvictStream PROVE overrun \subseteq overrun'
  BY <1>2, StreamOverruns
<1>3. CASE /\ ~EvictStream
           /\ \A p \in Participants, z \in BOOLEAN : ~PushEvent(p, z)
  BY <1>3 DEF Next, Work, Failure, HandleParticipant, FlushEmpty, BeginFlush,
     SkipMalformed, FlushParticipant, CommitParticipant, UpdateRanks, SetCursor,
     FinishFlush, RejectParticipant, FailCommit, FailPostFlush, Crash, EvictCursor,
     vars, redis
<1> QED BY <1>1, <1>2, <1>3

\* What is accounted for stays so.
LEMMA AccountedStable ==
  ASSUME TypeOK, [Next]_vars, NEW id \in Ids, Accounted(id)
  PROVE  Accounted(id)'
BY SettledStable, OverrunStable DEF Accounted

\* When the loop is done with a participant, the batch is still covered, provided
\* that participant's events are settled.
LEMMA LoopStep ==
  ASSUME TypeOK, Core, NEW p,
         pc \in {"score", "commit"}, pc' = "score", todo' = todo \ {p},
         UNCHANGED <<stream, trimmed, cursor, pending, pendingLast, batch, batchLast>>,
         \A id \in Ids : Settled(id) => Settled(id)',
         \A id \in Ids : Accounted(id) => Accounted(id)',
         \A id \in EventsOf(p) : Settled(id)'
  PROVE  Core'
<1>1. NoSilentLoss' /\ TrimmedAccounted'
  BY IdBounds DEF Core, NoSilentLoss, TrimmedAccounted
<1>2. CursorOrder' /\ TailAfterLoop'
  BY DEF Core, CursorOrder, TailAfterLoop
<1>3. PendingIsSettled'
  BY IdBounds DEF Core, PendingIsSettled
<1>4. ASSUME NEW i \in DOMAIN batch, ~Settled(batch[i])'
      PROVE  Pid(i) \in todo \ {p}
  <2>1. ~Settled(batch[i])
    BY <1>4, IdBounds
  <2>2. Pid(i) \in todo
    BY <1>4, <2>1 DEF Core, BatchCovers
  <2>3. Pid(i) # p
    BY <1>4 DEF EventsOf
  <2> QED BY <2>2, <2>3
<1>5. \A id \in 1..batchLast : Accounted(id)' \/ \E i \in DOMAIN batch : batch[i] = id
  BY IdBounds DEF Core, BatchCovers
<1>6. BatchCovers'
  BY <1>4, <1>5 DEF BatchCovers, Pid
<1> QED BY <1>1, <1>2, <1>3, <1>6 DEF Core

\* A flush begins with a batch that covers everything up to its last id: what is
\* not read was accounted for before, or is kept from a failed tail.
LEMMA BeginCovers ==
  ASSUME TypeOK, Core, BeginFlush
  PROVE  Core'
<1>1. /\ pc = "idle" /\ pc' = "score"
      /\ batch' = NextBatch /\ batchLast' = NextBatchLast
      /\ todo' = {stream[NextBatch[i]].pid : i \in DOMAIN NextBatch}
      /\ UNCHANGED <<stream, trimmed, overrun, cursor, pending, pendingLast, logs,
                     dropped>>
  BY DEF BeginFlush, redis, postgres
<1>2. /\ cursor \in Nat /\ trimmed \in Nat /\ pendingLast \in Nat
      /\ Len(stream) \in Nat
  BY DEF TypeOK
<1>3. /\ \A id : Settled(id) <=> Settled(id)'
      /\ \A id : Accounted(id) <=> Accounted(id)'
  BY <1>1 DEF Settled, Accounted
<1>4. NoSilentLoss' /\ PendingIsSettled' /\ TrimmedAccounted'
  BY <1>1, <1>3 DEF Core, NoSilentLoss, PendingIsSettled, TrimmedAccounted
<1>5. TailAfterLoop'
  BY <1>1 DEF TailAfterLoop
<1>6. \A i \in DOMAIN batch' : Pid(i)' \in todo'
  <2>1. \A i : Pid(i)' = stream[NextBatch[i]].pid
    BY <1>1 DEF Pid
  <2> QED BY <1>1, <2>1
<1>7. CASE pending = <<>>
  <2>1. batchLast' = NewLast /\ NewLast \in cursor..Len(stream)
    BY <1>1, <1>7, NewEventsProp DEF NextBatchLast
  <2>2. CursorOrder'
    BY <1>1, <1>2, <1>7, <2>1 DEF CursorOrder
  <2>3. ASSUME NEW id \in 1..batchLast', ~Accounted(id)'
        PROVE  \E i \in DOMAIN batch' : batch'[i] = id
    <3>1. id \in (cursor + 1)..NewLast
      BY <1>2, <1>3, <2>1, <2>3 DEF Core, NoSilentLoss
    <3>2. id \notin 1..trimmed
      BY <1>3, <2>3 DEF Core, TrimmedAccounted
    <3> QED BY <1>1, <3>1, <3>2, NextBatchProp
  <2>4. BatchCovers'
    BY <1>6, <2>3 DEF BatchCovers
  <2> QED BY <1>4, <1>5, <2>2, <2>4 DEF Core
<1>8. CASE pending # <<>>
  <2>1. batchLast' = pendingLast
    BY <1>1, <1>8 DEF NextBatchLast
  <2>2. CursorOrder'
    BY <1>1, <1>8, <2>1 DEF Core, CursorOrder
  <2>3. BatchCovers'
    BY <1>3, <1>6, <1>8, <2>1 DEF Core, PendingIsSettled, BatchCovers
  <2> QED BY <1>4, <1>5, <2>2, <2>3 DEF Core
<1> QED BY <1>7, <1>8

\* When the loop is over, the whole batch is settled, and what the cursor will pass
\* is accounted for.
LEMMA DoneCovers ==
  ASSUME TypeOK, Core, pc # "idle", todo = {}
  PROVE  /\ \A i \in DOMAIN batch : Settled(batch[i])
         /\ \A id \in 1..batchLast : Accounted(id)
<1>1. \A i \in DOMAIN batch : Settled(batch[i])
  BY DEF Core, BatchCovers
<1>2. \A id \in 1..batchLast : Accounted(id) \/ Settled(id)
  BY <1>1 DEF Core, BatchCovers
<1> QED BY <1>1, <1>2 DEF Accounted

\* A tail that fails keeps a batch whose events are all settled.
LEMMA FailPostFlushKeepsSettled ==
  ASSUME TypeOK, Core, FailPostFlush
  PROVE  Core'
<1>1. /\ todo = {} /\ pc # "idle"
      /\ pc' = "idle" /\ pending' = batch /\ pendingLast' = batchLast
      /\ UNCHANGED <<trimmed, overrun, cursor, logs, dropped>>
  BY DEF FailPostFlush, LoopDone, ForgetBatch, postgres, Core, TailAfterLoop
<1>2. /\ \A id : Settled(id) <=> Settled(id)'
      /\ \A id : Accounted(id) <=> Accounted(id)'
  BY <1>1 DEF Settled, Accounted
<1>3. NoSilentLoss' /\ TrimmedAccounted'
  BY <1>1, <1>2 DEF Core, NoSilentLoss, TrimmedAccounted
<1>4. PendingIsSettled'
  BY <1>1, <1>2, DoneCovers DEF PendingIsSettled
<1>5. CursorOrder'
  BY <1>1 DEF Core, CursorOrder
<1> QED BY <1>1, <1>3, <1>4, <1>5 DEF Core, BatchCovers, TailAfterLoop

\* Every step keeps the invariant.
LEMMA CoreStep == TypeOK /\ Core /\ [Next]_vars => Core'
<1> SUFFICES ASSUME TypeOK, Core, [Next]_vars PROVE Core'
  OBVIOUS
<1>1. /\ \A id \in Ids : Settled(id) => Settled(id)'
      /\ \A id \in Ids : Accounted(id) => Accounted(id)'
  BY SettledStable, AccountedStable
<1>2. ASSUME NEW p \in Participants, NEW z \in BOOLEAN, PushEvent(p, z)
      PROVE  Core'
  <2>1. /\ stream' = Append(stream, [pid |-> p, inZone |-> z])
        /\ UNCHANGED <<cursor, logs, dropped, pc, pending, pendingLast, batch,
                       batchLast, todo>>
    BY <1>2 DEF PushEvent, postgres, memory
  <2>2. /\ \A id : Settled(id) <=> Settled(id)'
        /\ \A id \in Ids : Accounted(id) => Accounted(id)'
    BY <2>1, <1>1 DEF Settled
  <2>3. \A i \in 1..Len(stream) : stream'[i] = stream[i]
    BY <2>1 DEF TypeOK
  <2>4. \A i \in DOMAIN batch : Pid(i)' = Pid(i)
    BY <2>1, <2>3, IdBounds DEF Pid
  <2>5. BatchCovers'
    BY <2>1, <2>2, <2>4, IdBounds DEF Core, BatchCovers
  <2>6. TrimmedAccounted'
    <3>1. trimmed \in Nat /\ cursor \in Nat
      BY DEF TypeOK
    <3>2. ASSUME NEW id \in 1..trimmed' PROVE Accounted(id)'
      <4>1. id \in 1..trimmed \/ id \in (trimmed + 1)..trimmed'
        BY <3>1
      <4>2. CASE id \in 1..trimmed \/ id \in 1..cursor
        BY <4>2, <2>2, IdBounds DEF Core, NoSilentLoss, TrimmedAccounted
      <4>3. CASE id \in (trimmed + 1)..trimmed' /\ id \notin 1..cursor
        BY <4>3, <3>1, <1>2, PushOverruns DEF Accounted
      <4> QED BY <4>1, <4>2, <4>3
    <3> QED BY <3>2 DEF TrimmedAccounted
  <2>7. NoSilentLoss' /\ PendingIsSettled'
    BY <2>1, <2>2, IdBounds DEF Core, NoSilentLoss, PendingIsSettled
  <2> QED
    BY <2>1, <2>5, <2>6, <2>7 DEF Core, CursorOrder, TailAfterLoop
<1>3. ASSUME UNCHANGED <<stream, trimmed, overrun, cursor, logs, dropped, pc, pending,
                         pendingLast, batch, batchLast, todo>>
      PROVE  Core'
  BY <1>3 DEF Core, NoSilentLoss, PendingIsSettled, TrimmedAccounted, BatchCovers,
     CursorOrder, TailAfterLoop, Settled, Accounted, Pid
<1>4. ASSUME FlushEmpty \/ UNCHANGED vars PROVE Core'
  BY <1>3, <1>4 DEF FlushEmpty, vars, redis, postgres, memory
<1>5. ASSUME BeginFlush PROVE Core'
  BY <1>5, BeginCovers
<1>6. ASSUME NEW p \in Participants,
             SkipMalformed(p) \/ RejectParticipant(p) \/ FailCommit(p)
      PROVE  Core'
  <2>1. \A id \in EventsOf(p) : Settled(id)'
    BY <1>6 DEF SkipMalformed, RejectParticipant, FailCommit, Settled
  <2>2. /\ pc \in {"score", "commit"} /\ pc' = "score" /\ todo' = todo \ {p}
        /\ UNCHANGED <<stream, trimmed, cursor, pending, pendingLast, batch, batchLast>>
    BY <1>6 DEF SkipMalformed, RejectParticipant, FailCommit, redis
  <2> QED BY <1>1, <2>1, <2>2, LoopStep
<1>7. ASSUME NEW p \in Participants, CommitParticipant(p) PROVE Core'
  <2>1. \A id \in EventsOf(p) : Settled(id)'
    BY <1>7, CommitSettles
  <2>2. /\ pc \in {"score", "commit"} /\ pc' = "score" /\ todo' = todo \ {p}
        /\ UNCHANGED <<stream, trimmed, cursor, pending, pendingLast, batch, batchLast>>
    BY <1>7 DEF CommitParticipant, redis
  <2> QED BY <1>1, <2>1, <2>2, LoopStep
<1>8. ASSUME (\E p \in Participants : FlushParticipant(p)) \/ UpdateRanks
      PROVE  Core'
  <2>1. /\ pc # "idle" /\ pc' \in {"commit", "cursor"}
        /\ pc' = "cursor" => todo = {}
        /\ UNCHANGED <<stream, trimmed, overrun, cursor, logs, dropped, pending,
                       pendingLast, batch, batchLast, todo>>
    BY <1>8 DEF FlushParticipant, UpdateRanks, LoopDone, postgres
  <2> QED
    BY <2>1 DEF Core, NoSilentLoss, PendingIsSettled, TrimmedAccounted, BatchCovers,
       CursorOrder, TailAfterLoop, Settled, Accounted, Pid
<1>9. ASSUME SetCursor PROVE Core'
  <2>1. /\ pc = "cursor" /\ pc' = "publish" /\ todo = {} /\ cursor' = batchLast
        /\ batchLast \in Nat /\ pendingLast \in Nat
        /\ UNCHANGED <<stream, trimmed, overrun, logs, dropped, pending, pendingLast,
                       batch, batchLast, todo>>
    BY <1>9 DEF SetCursor, postgres, Core, TailAfterLoop, TypeOK
  <2>2. \A id \in 1..batchLast : Accounted(id)
    BY <2>1, DoneCovers
  <2>3. NoSilentLoss'
    BY <2>1, <2>2 DEF NoSilentLoss, Settled, Accounted
  <2> QED
    BY <2>1, <2>3 DEF Core, PendingIsSettled, TrimmedAccounted, BatchCovers,
       CursorOrder, TailAfterLoop, Settled, Accounted, Pid
<1>10. ASSUME FinishFlush \/ Crash PROVE Core'
  <2>1. /\ pc' = "idle" /\ pending' = <<>>
        /\ UNCHANGED <<trimmed, overrun, cursor, logs, dropped>>
    BY <1>10 DEF FinishFlush, Crash, ForgetBatch, postgres
  <2> QED
    BY <2>1 DEF Core, NoSilentLoss, PendingIsSettled, TrimmedAccounted, BatchCovers,
       CursorOrder, TailAfterLoop, Settled, Accounted
<1>11. ASSUME FailPostFlush PROVE Core'
  BY <1>11, FailPostFlushKeepsSettled
<1>12. ASSUME EvictCursor PROVE Core'
  <2>1. /\ cursor' = 0
        /\ UNCHANGED <<stream, trimmed, overrun, logs, dropped, pc, pending, pendingLast,
                       batch, batchLast, todo>>
    BY <1>12 DEF EvictCursor, postgres, memory
  <2>2. batchLast \in Nat /\ pendingLast \in Nat
    BY DEF TypeOK
  <2> QED
    BY <2>1, <2>2 DEF Core, NoSilentLoss, PendingIsSettled, TrimmedAccounted,
       BatchCovers, CursorOrder, TailAfterLoop, Settled, Accounted, Pid
<1>13. ASSUME EvictStream PROVE Core'
  <2>1. /\ trimmed' = Len(stream)
        /\ UNCHANGED <<stream, cursor, logs, dropped, pc, pending, pendingLast,
                       batch, batchLast, todo>>
    BY <1>13 DEF EvictStream, postgres, memory
  <2>2. \A id : Settled(id) <=> Settled(id)'
    BY <2>1 DEF Settled
  <2>3. NoSilentLoss' /\ PendingIsSettled' /\ BatchCovers'
    BY <2>1, <2>2, <1>1, IdBounds
       DEF Core, NoSilentLoss, PendingIsSettled, BatchCovers, Pid
  <2>4. TrimmedAccounted'
    <3>1. trimmed \in Nat /\ cursor \in Nat /\ Len(stream) \in Nat
      BY DEF TypeOK
    <3>2. ASSUME NEW id \in 1..Len(stream) PROVE Accounted(id)'
      <4>1. id \in 1..trimmed \/ id \in (trimmed + 1)..Len(stream)
        BY <3>1
      <4>2. CASE id \in 1..trimmed \/ id \in 1..cursor
        BY <4>2, <1>1, IdBounds DEF Core, NoSilentLoss, TrimmedAccounted
      <4>3. CASE id \in (trimmed + 1)..Len(stream) /\ id \notin 1..cursor
        BY <4>3, <3>1, <1>13, StreamOverruns DEF Accounted
      <4> QED BY <4>1, <4>2, <4>3
    <3> QED BY <2>1, <3>2 DEF TrimmedAccounted
  <2> QED BY <2>1, <2>3, <2>4 DEF Core, CursorOrder, TailAfterLoop
<1> QED
  BY <1>2, <1>4, <1>5, <1>6, <1>7, <1>8, <1>9, <1>10, <1>11, <1>12, <1>13
     DEF Next, Work, Failure, HandleParticipant

\* The inductive invariant holds in every reachable state.
THEOREM Inductive == Spec => []IInv
<1>1. Init => Core
  BY DEF Init, Core, NoSilentLoss, PendingIsSettled, TrimmedAccounted, BatchCovers,
     CursorOrder, TailAfterLoop
<1>2. TypeOK /\ Core /\ [Next]_vars => Core'
  BY CoreStep
<1>3. TypeOK /\ Core => IInv
  BY DEF Core, IInv
<1> QED BY <1>1, <1>2, <1>3, TypeCorrect, PTL DEF Spec

\* The cursor never passes an event that was neither logged nor given up with a
\* message while it was still in the stream, however many tails, transactions and
\* processes fail: what it passes otherwise had left the stream before.
THEOREM NothingLostSilently == Spec => []NoSilentLoss
<1>1. IInv => NoSilentLoss
  BY DEF IInv
<1> QED BY <1>1, Inductive, PTL

\* The events the worker keeps back to retry are settled, logged or given up with a
\* message, every one of them, even those that have left the stream meanwhile; and
\* what the cursor will pass with them is accounted for.
THEOREM PendingSettled == Spec => []PendingIsSettled
<1>1. IInv => PendingIsSettled
  BY DEF IInv
<1> QED BY <1>1, Inductive, PTL

\* No step of the worker moves the cursor backwards.
THEOREM CursorMonotone == Spec => CursorNeverBack
<1>1. IInv /\ [Next]_vars => [cursor' >= cursor \/ cursor' = 0]_vars
  <2> SUFFICES ASSUME IInv, Next PROVE cursor' >= cursor \/ cursor' = 0
    OBVIOUS
  <2>1. cursor \in Nat
    BY DEF IInv, TypeOK
  <2>2. CASE SetCursor
    BY <2>2 DEF SetCursor, IInv, CursorOrder
  <2>3. CASE EvictCursor
    BY <2>3 DEF EvictCursor
  <2>4. CASE ~SetCursor /\ ~EvictCursor
    <3>1. UNCHANGED cursor
      BY <2>4 DEF Next, Work, Failure, HandleParticipant, PushEvent, FlushEmpty,
         BeginFlush, SkipMalformed, FlushParticipant, CommitParticipant, UpdateRanks,
         FinishFlush, RejectParticipant, FailCommit, FailPostFlush, Crash, EvictStream,
         redis
    <3> QED BY <2>1, <3>1
  <2> QED BY <2>2, <2>3, <2>4
<1> QED BY <1>1, Inductive, PTL DEF Spec, CursorNeverBack

-----------------------------------------------------------------------------
(***************************************************************************)
(* The worker implements the at-least-once ledger                          *)
(***************************************************************************)

\* Rows exist only for events of the stream.
LogsInStream == \A id \in Ids : logs[id] > 0 => id \in 1..Len(stream)

\* No step logs an event that no camera has sent.
LEMMA LogsInStreamStep == TypeOK /\ LogsInStream /\ [Next]_vars => LogsInStream'
<1> SUFFICES ASSUME TypeOK, LogsInStream, [Next]_vars PROVE LogsInStream'
  OBVIOUS
<1>1. ASSUME NEW p \in Participants, NEW z \in BOOLEAN, PushEvent(p, z)
      PROVE  LogsInStream'
  <2>1. stream \in Seq(Event) /\ [pid |-> p, inZone |-> z] \in Event
    BY DEF TypeOK, Event
  <2>2. Len(stream') = Len(stream) + 1 /\ Len(stream) \in Nat
    BY <1>1, <2>1, AppendProperties DEF PushEvent
  <2>3. UNCHANGED logs
    BY <1>1 DEF PushEvent, postgres
  <2> QED BY <2>2, <2>3 DEF LogsInStream
<1>2. ASSUME NEW p \in Participants, CommitParticipant(p) PROVE LogsInStream'
  <2>1. UNCHANGED stream
    BY <1>2 DEF CommitParticipant, redis
  <2>2. \A id \in Ids : id \in EventsOf(p) \/ logs'[id] = logs[id]
    BY <1>2 DEF CommitParticipant
  <2> QED BY <2>1, <2>2, EventsOfType DEF LogsInStream
<1>3. ASSUME UNCHANGED <<stream, logs>> PROVE LogsInStream'
  BY <1>3 DEF LogsInStream
<1>4. CASE /\ \A p \in Participants : ~CommitParticipant(p)
           /\ \A p \in Participants, z \in BOOLEAN : ~PushEvent(p, z)
  <2>1. UNCHANGED <<stream, logs>>
    BY <1>4 DEF Next, Work, Failure, HandleParticipant, FlushEmpty,
       BeginFlush, SkipMalformed, FlushParticipant, UpdateRanks, SetCursor,
       FinishFlush, RejectParticipant, FailCommit, FailPostFlush, Crash,
       EvictCursor, EvictStream, vars, redis, postgres
  <2> QED BY <2>1, <1>3
<1> QED BY <1>1, <1>2, <1>4

\* In every reachable state a row is a row of an event of the stream.
LEMMA LogsFromStream == Spec => []LogsInStream
<1>1. Init => LogsInStream
  BY DEF Init, LogsInStream
<1> QED BY <1>1, LogsInStreamStep, TypeCorrect, PTL DEF Spec

\* The settled events, as the ledger sees them.
SettledIds == {id \in Ids : Settled(id)}

\* Every step of the worker, of the cameras and of the faults is a step of the
\* ledger or leaves it as it is.
LEMMA LedgerStep ==
  IInv /\ LogsInStream /\ LogsInStream' /\ TypeOK' /\ [Next]_vars
    => [Ledger!LedgerNext]_(Ledger!ledger)
<1> SUFFICES ASSUME IInv, LogsInStream, LogsInStream', TypeOK', [Next]_vars
             PROVE  [Ledger!LedgerNext]_(Ledger!ledger)
  OBVIOUS
<1>0. TypeOK /\ cursor \in 0..Len(stream) /\ Len(stream) \in Nat
  <2>1. TypeOK
    BY DEF IInv
  <2> QED BY ONLY <2>1 DEF TypeOK
<1>1. SettledIds \subseteq SettledIds'
  BY <1>0, SettledStable DEF SettledIds
<1>2. SettledIds' \subseteq 1..Len(stream')
  BY DEF SettledIds, Settled, LogsInStream, TypeOK
<1>3. ASSUME NEW p \in Participants, NEW z \in BOOLEAN, PushEvent(p, z)
      PROVE  Ledger!Publish
  <2>1. stream \in Seq(Event) /\ [pid |-> p, inZone |-> z] \in Event
    BY <1>0 DEF TypeOK, Event
  <2>2. Len(stream') = Len(stream) + 1 /\ Len(stream) < MaxEvents
    BY <1>3, <2>1, AppendProperties DEF PushEvent
  <2>3. UNCHANGED <<logs, dropped, cursor>>
    BY <1>3 DEF PushEvent, postgres
  <2>4. /\ overrun \subseteq overrun'
        /\ \A id \in overrun' \ overrun :
             /\ id \in Nat /\ id > cursor
             /\ id <= Len(stream) + 1 - StreamMax
    <3>1. overrun' \subseteq Nat
      BY DEF TypeOK
    <3> QED BY <3>1, <1>0, <1>3, PushOverruns
  <2>5. StreamMax \in Nat /\ StreamMax >= 1
    BY ConstantsAssumption
  <2>6. \A id \in overrun' \ overrun :
          id <= Len(stream) /\ id + StreamMax <= Len(stream) + 1
    BY ONLY <1>0, <2>4, <2>5
  <2>7. Ledger!Expire
    BY <2>4, <2>6 DEF Ledger!Expire
  <2> QED BY <2>2, <2>3, <2>6, <2>7 DEF Ledger!Publish, Settled
<1>4. ASSUME SetCursor PROVE Ledger!Acknowledge
  <2>1. /\ cursor' = batchLast /\ pc = "cursor" /\ todo = {}
        /\ UNCHANGED <<stream, overrun, logs, dropped>>
    BY <1>4 DEF SetCursor, postgres, IInv, TailAfterLoop
  <2>2. cursor <= batchLast /\ batchLast \in 0..Len(stream)
    BY <2>1 DEF IInv, CursorOrder, TypeOK
  <2>3. \A id \in 1..batchLast : id \in SettledIds \cup overrun
    BY <1>0, <2>1, IdBounds DEF IInv, BatchCovers, SettledIds, Accounted
  <2> QED BY <1>0, <2>1, <2>2, <2>3 DEF Ledger!Acknowledge, SettledIds, Settled
<1>5. ASSUME EvictCursor PROVE Ledger!Forget
  BY <1>5 DEF EvictCursor, postgres, Ledger!Forget, Settled
<1>7. ASSUME EvictStream PROVE Ledger!LoseStream
  <2>1. UNCHANGED <<stream, cursor, logs, dropped>>
    BY <1>7 DEF EvictStream, postgres
  <2>2. Ledger!Expire
    BY <1>0, <1>7, StreamOverruns DEF Ledger!Expire
  <2> QED BY <2>1, <2>2 DEF Ledger!LoseStream, Settled
<1>6. CASE /\ ~SetCursor /\ ~EvictCursor /\ ~EvictStream
           /\ \A p \in Participants, z \in BOOLEAN : ~PushEvent(p, z)
  <2>1. UNCHANGED <<stream, overrun, cursor>>
    BY <1>6 DEF Next, Work, Failure, HandleParticipant, FlushEmpty, BeginFlush,
       SkipMalformed, FlushParticipant, CommitParticipant, UpdateRanks,
       FinishFlush, RejectParticipant, FailCommit, FailPostFlush, Crash, vars, redis
  <2>2. Ledger!Settle
    BY <1>1, <1>2, <2>1 DEF Ledger!Settle, SettledIds
  <2> QED BY <2>2 DEF Ledger!LedgerNext
<1> QED BY <1>3, <1>4, <1>5, <1>6, <1>7 DEF Ledger!LedgerNext

\* The scoring worker and its stream implement the ledger: a prefix is acknowledged
\* only when each of its events was logged, given up with a message, or had left the
\* stream unacknowledged; and no event leaves it so while it is among the StreamMax
\* newest, unless Redis evicts the stream itself.
THEOREM ImplementsLedger == Spec => AtLeastOnce
<1>1. Init => Ledger!LedgerInit
  BY DEF Init, Ledger!LedgerInit, Settled
<1>2. IInv /\ LogsInStream /\ LogsInStream' /\ TypeOK' /\ [Next]_vars
        => [Ledger!LedgerNext]_(Ledger!ledger)
  BY LedgerStep
<1> QED
  BY <1>1, <1>2, Inductive, LogsFromStream, TypeCorrect, PTL
     DEF Spec, AtLeastOnce, Ledger!LedgerSpec

-----------------------------------------------------------------------------
(***************************************************************************)
(* The leaderboard agrees with the scores once the worker has caught up    *)
(***************************************************************************)

\* Whose rank is out of date; the participants of a batch, those of this flush that have been
\* processed, and those with an event after the n-th.
Stale(p) == leaderboard[p] # score[p]
Of(s) == {stream[s[i]].pid : i \in DOMAIN s}
Handled == {processed[i] : i \in DOMAIN processed}
SeenAfter(p, n) == \E id \in (n + 1)..Len(stream) : stream[id].pid = p

\* Only failed tails keep a batch; malformed ids are never credited; a flush has a batch, of
\* whose participants the others are, and without a kept one the cursor has not passed it.
FlushFits ==
  /\ faults["postflush"] = 0 => pending = <<>>
  /\ \A p \in Malformed : ~Stale(p)
  /\ pc = "commit" => \A p \in Participants : IsNext(p) => p \notin Malformed
  /\ pc # "idle" => batch # <<>> /\ todo \cup Handled \subseteq Of(batch)
  /\ pc \in {"score", "commit", "cursor"} /\ pending = <<>> =>
       \A i \in DOMAIN batch : batch[i] > cursor

\* Without crashes whoever is out of date is in the batch, or in the batch that was kept.
InMemory ==
  /\ pc = "idle" => \A p \in Participants : Stale(p) => p \in Of(pending)
  /\ pc \in {"score", "commit"} => \A p \in Participants : Stale(p) => p \in todo \cup Handled
  /\ pc \in {"cursor", "publish"} => ranked = score /\ \A p \in Participants : ~Stale(p)
  /\ pc = "idle" /\ pending = <<>> => ranked = score

\* Without failed tails whoever is out of date is in the batch, or will be read again.
InStream ==
  /\ pc = "idle" => \A p \in Participants : Stale(p) => SeenAfter(p, cursor)
  /\ pc \in {"score", "commit"} =>
       \A p \in Participants : Stale(p) => p \in todo \cup Handled \/ SeenAfter(p, batchLast)
  /\ pc \in {"cursor", "publish"} =>
       ranked = score /\ \A p \in Participants : Stale(p) => SeenAfter(p, batchLast)
  /\ pc = "idle" => ranked = score \/ cursor < Len(stream)

BoardInv ==
  /\ FlushFits
  /\ (faults["sql"] = 0 /\ faults["crash"] = 0) => InMemory
  /\ (faults["sql"] = 0 /\ trimmed = 0 /\ faults["postflush"] = 0) => InStream

\* Whatever part of a batch ZADD reaches, nobody becomes out of date by it, and those it
\* reaches are up to date.
LEMMA ZaddProp ==
  ASSUME TypeOK, NEW n, leaderboard' = Zadd(n), UNCHANGED score
  PROVE  /\ \A p \in Participants : Stale(p)' => Stale(p)
         /\ n = Len(processed) => \A p \in Handled : ~Stale(p)'
<1>1. /\ processed \in Seq(Participants) /\ DOMAIN processed = 1..Len(processed)
      /\ \A p \in Participants :
           leaderboard'[p] = IF \E i \in 1..n : processed[i] = p THEN score[p] ELSE leaderboard[p]
  BY DEF TypeOK, Zadd
<1>2. \A p \in Handled : p \in Participants
  BY <1>1 DEF Handled
<1> QED BY <1>1, <1>2 DEF Stale, Handled

\* New events change nothing of those the worker holds.
LEMMA PushKeeps ==
  ASSUME TypeOK, NEW p \in Participants, NEW z \in BOOLEAN, PushEvent(p, z)
  PROVE  /\ Of(batch)' = Of(batch) /\ Of(pending)' = Of(pending)
         /\ \A i \in DOMAIN batch : Pid(i)' = Pid(i)
         /\ \A q \in Participants : IsNext(q)' <=> IsNext(q)
         /\ \A q \in Participants, n \in Nat : SeenAfter(q, n) => SeenAfter(q, n)'
         /\ Len(stream') = Len(stream) + 1
<1>1. /\ UNCHANGED <<batch, pending, todo>> /\ stream' = Append(stream, [pid |-> p, inZone |-> z])
      /\ stream \in Seq(Event) /\ [pid |-> p, inZone |-> z] \in Event
  BY DEF PushEvent, TypeOK, Event, memory
<1>2. Len(stream') = Len(stream) + 1 /\ \A i \in 1..Len(stream) : stream'[i] = stream[i]
  BY <1>1, AppendProperties
<1>3. /\ Len(stream) \in Nat
      /\ \A i \in DOMAIN batch : batch[i] \in 1..Len(stream)
      /\ \A i \in DOMAIN pending : pending[i] \in 1..Len(stream)
  BY DEF TypeOK
<1>4. Of(batch)' = Of(batch) /\ Of(pending)' = Of(pending)
  BY <1>1, <1>2, <1>3 DEF Of
<1>5. \A i \in DOMAIN batch : Pid(i)' = Pid(i)
  BY <1>1, <1>2, <1>3 DEF Pid
<1>6. ASSUME NEW i \in DOMAIN batch, NEW j \in 1..(i - 1)
      PROVE  j \in DOMAIN batch
  BY <1>6 DEF TypeOK
<1>7. \A q \in Participants : IsNext(q)' <=> IsNext(q)
  BY <1>1, <1>5, <1>6 DEF IsNext
<1>8. \A q \in Participants, n \in Nat : SeenAfter(q, n) => SeenAfter(q, n)'
  BY <1>2, <1>3 DEF SeenAfter
<1> QED BY <1>2, <1>4, <1>5, <1>7, <1>8

\* The loop has one next participant.
LEMMA OneIsNext ==
  ASSUME TypeOK, NEW p, NEW q, IsNext(p), IsNext(q)
  PROVE  p = q
<1>1. PICK i \in DOMAIN batch : Pid(i) = p /\ p \in todo /\ \A j \in 1..(i - 1) : Pid(j) \notin todo
  BY DEF IsNext
<1>2. PICK k \in DOMAIN batch : Pid(k) = q /\ q \in todo /\ \A j \in 1..(k - 1) : Pid(j) \notin todo
  BY DEF IsNext
<1>3. DOMAIN batch \subseteq Nat \ {0}
  BY DEF TypeOK
<1>4. i \notin 1..(k - 1) /\ k \notin 1..(i - 1)
  BY <1>1, <1>2
<1>5. i = k
  BY <1>3, <1>4
<1> QED BY <1>1, <1>2, <1>5

\* A commit makes its participant a handled one, and nobody else out of date.
LEMMA CommitHandles ==
  ASSUME TypeOK, NEW p \in Participants, CommitParticipant(p)
  PROVE  /\ Handled' = Handled \cup {p} /\ todo' = todo \ {p} /\ pc' = "score"
         /\ \A q \in Participants \ {p} : Stale(q)' => Stale(q)
<1>1. /\ score' = [score EXCEPT ![p] = @ + 1] /\ processed' = Append(processed, p)
      /\ todo' = todo \ {p} /\ pc' = "score" /\ UNCHANGED leaderboard
  BY DEF CommitParticipant, redis
<1>2. processed \in Seq(Participants) /\ Len(processed) \in Nat
  BY DEF TypeOK
<1>3. /\ DOMAIN processed = 1..Len(processed) /\ DOMAIN processed' = 1..(Len(processed) + 1)
      /\ processed'[Len(processed) + 1] = p
      /\ \A i \in 1..Len(processed) : processed'[i] = processed[i]
  BY <1>1, <1>2, AppendProperties
<1>4. \A i \in 1..(Len(processed) + 1) : i \in 1..Len(processed) \/ i = Len(processed) + 1
  BY <1>2
<1>5. Len(processed) + 1 \in 1..(Len(processed) + 1)
      /\ 1..Len(processed) \subseteq 1..(Len(processed) + 1)
  BY <1>2
<1>6. Handled' = Handled \cup {p}
  BY <1>3, <1>4, <1>5 DEF Handled
<1>7. \A q \in Participants \ {p} : Stale(q)' => Stale(q)
  BY <1>1 DEF TypeOK, Stale
<1> QED BY <1>1, <1>6, <1>7

\* What has not happened yet had not happened before.
LEMMA NotYet ==
  ASSUME TypeOK, [Next]_vars, NEW k \in FaultKinds, faults'[k] = 0
  PROVE  /\ faults[k] = 0
         /\ k = "crash" => ~Crash
         /\ k = "postflush" => ~FailPostFlush
         /\ k = "sql" => \A p \in Participants : ~RejectParticipant(p) /\ ~FailCommit(p)
<1>1. faults \in [FaultKinds -> Nat]
  BY DEF TypeOK
<1>2. ASSUME NEW j \in FaultKinds, Fault(j) PROVE faults[k] = 0 /\ k # j
  BY <1>1, <1>2 DEF Fault
<1>3. CASE UNCHANGED faults
  BY <1>1, <1>3, <1>2 DEF Crash, FailPostFlush, RejectParticipant, FailCommit, FaultKinds
<1>4. CASE ~ UNCHANGED faults
  <2>1. \E j \in FaultKinds : Fault(j)
    BY <1>4 DEF Next, Work, Failure, HandleParticipant, PushEvent, FlushEmpty, BeginFlush,
       SkipMalformed, FlushParticipant, CommitParticipant, UpdateRanks, SetCursor, FinishFlush,
       RejectParticipant, FailCommit, FailPostFlush, Crash, EvictCursor, EvictStream, vars,
       FaultKinds
  <2>2. faults[k] = 0
    BY <1>2, <2>1
  <2> QED BY <1>2, <2>2 DEF Crash, FailPostFlush, RejectParticipant, FailCommit, FaultKinds
<1> QED BY <1>3, <1>4

\* Every step keeps what a flush is made of.
LEMMA FlushFitsStep ==
  ASSUME TypeOK, TypeOK', Core, FlushFits, [Next]_vars
  PROVE  FlushFits'
<1> USE ConstantsAssumption
<1>1. ASSUME NEW p \in Participants, NEW z \in BOOLEAN, PushEvent(p, z)
      PROVE  FlushFits'
  <2>1. UNCHANGED <<cursor, leaderboard, score, pc, pending, batch, todo, processed, faults>>
    BY <1>1 DEF PushEvent, postgres, memory
  <2> QED BY <1>1, <2>1, PushKeeps DEF FlushFits, Stale, Handled
<1>2. ASSUME BeginFlush PROVE FlushFits'
  <2>1. /\ pc = "idle" /\ pc' = "score" /\ batch' = NextBatch /\ NextBatch # <<>>
        /\ todo' = {stream[NextBatch[i]].pid : i \in DOMAIN NextBatch} /\ processed' = <<>>
        /\ UNCHANGED <<stream, cursor, leaderboard, score, pending, faults>>
    BY <1>2 DEF BeginFlush, redis, postgres
  <2>2. todo' \cup Handled' \subseteq Of(batch)'
    BY <2>1 DEF Handled, Of
  <2>3. ASSUME pending = <<>>, NEW i \in DOMAIN NextBatch
        PROVE  NextBatch[i] > cursor
    <3>1. /\ NewEvents \in Seq(1..Len(stream)) /\ FirstUnread \in 1..(Len(stream) + 1)
          /\ \A k \in 1..Len(NewEvents) : NewEvents[k] = FirstUnread + k - 1
      BY NewEventsProp
    <3>2. NextBatch = NewEvents
      BY <2>3, <3>1 DEF NextBatch
    <3>3. FirstUnread > cursor /\ cursor \in Nat /\ FirstUnread \in Nat
      BY DEF FirstUnread, TypeOK
    <3>4. i \in 1..Len(NewEvents)
      BY <2>3, <3>1, <3>2
    <3> QED BY <3>1, <3>2, <3>3, <3>4
  <2> QED BY <2>1, <2>2, <2>3 DEF FlushFits, Stale
<1>3. ASSUME NEW p \in Participants,
             SkipMalformed(p) \/ RejectParticipant(p) \/ FailCommit(p)
      PROVE  FlushFits'
  <2>1. /\ pc \in {"score", "commit"} /\ pc' = "score" /\ todo' = todo \ {p}
        /\ UNCHANGED <<stream, cursor, leaderboard, score, pending, batch, processed>>
        /\ faults'["postflush"] = faults["postflush"]
    BY <1>3 DEF SkipMalformed, RejectParticipant, FailCommit, redis, postgres, Fault, TypeOK,
       FaultKinds
  <2>2. Of(batch)' = Of(batch) /\ Handled' = Handled /\ \A q \in Malformed : Stale(q)' <=> Stale(q)
    BY <2>1 DEF Of, Handled, Stale
  <2>3. todo' \cup Handled \subseteq todo \cup Handled
    BY <2>1
  <2>4. /\ batch # <<>> /\ todo \cup Handled \subseteq Of(batch)
        /\ pending = <<>> => \A i \in DOMAIN batch : batch[i] > cursor
    BY <2>1 DEF FlushFits
  <2> QED BY <2>1, <2>2, <2>3, <2>4 DEF FlushFits
<1>4. ASSUME NEW p \in Participants, FlushParticipant(p) PROVE FlushFits'
  <2>1. /\ pc = "score" /\ pc' = "commit" /\ IsNext(p) /\ p \notin Malformed
        /\ UNCHANGED <<stream, cursor, leaderboard, score, pending, batch, todo, processed, faults>>
    BY <1>4 DEF FlushParticipant, postgres
  <2>2. \A q \in Participants : IsNext(q)' => q = p
    BY <2>1, OneIsNext DEF IsNext, Pid
  <2>3. Of(batch)' = Of(batch) /\ Handled' = Handled /\ \A q \in Malformed : Stale(q)' <=> Stale(q)
    BY <2>1 DEF Of, Handled, Stale
  <2>4. pc' = "commit" => \A q \in Participants : IsNext(q)' => q \notin Malformed
    BY <2>1, <2>2
  <2> QED BY <2>1, <2>3, <2>4 DEF FlushFits
<1>5. ASSUME NEW p \in Participants, CommitParticipant(p) PROVE FlushFits'
  <2>1. /\ pc = "commit" /\ IsNext(p) /\ pc' = "score" /\ todo' = todo \ {p}
        /\ score' = [score EXCEPT ![p] = @ + 1] /\ processed' = Append(processed, p)
        /\ UNCHANGED <<stream, cursor, leaderboard, pending, batch, faults>>
    BY <1>5 DEF CommitParticipant, redis
  <2>2. p \notin Malformed /\ p \in todo
    BY <2>1 DEF FlushFits, IsNext
  <2>3. \A q \in Malformed : ~Stale(q)'
    BY <2>1, <2>2 DEF FlushFits, Stale, TypeOK
  <2>4. Handled' = Handled \cup {p}
    BY <1>5, CommitHandles
  <2> QED BY <2>1, <2>2, <2>3, <2>4 DEF FlushFits, Of
<1>6. ASSUME UpdateRanks PROVE FlushFits'
  <2>1. /\ pc = "score" /\ pc' = "cursor" /\ leaderboard' = Zadd(Len(processed))
        /\ UNCHANGED <<stream, cursor, score, pending, batch, todo, processed, faults>>
    BY <1>6 DEF UpdateRanks, LoopDone
  <2>2. \A p \in Participants : Stale(p)' => Stale(p)
    BY <2>1, ZaddProp
  <2>3. Of(batch)' = Of(batch) /\ Handled' = Handled
    BY <2>1 DEF Of, Handled
  <2>4. \A p \in Malformed : ~Stale(p)'
    BY <2>2 DEF FlushFits
  <2> QED BY <2>1, <2>3, <2>4 DEF FlushFits
<1>7. ASSUME SetCursor PROVE FlushFits'
  BY <1>7 DEF SetCursor, postgres, FlushFits, Stale, Of, Handled
<1>8. ASSUME FinishFlush PROVE FlushFits'
  <2>1. pc' = "idle" /\ pending' = <<>> /\ UNCHANGED <<leaderboard, score>>
    BY <1>8 DEF FinishFlush, ForgetBatch, postgres
  <2> QED BY <2>1 DEF FlushFits, Stale
<1>9. ASSUME FailPostFlush PROVE FlushFits'
  <2>1. /\ pc' = "idle" /\ faults'["postflush"] # 0 /\ UNCHANGED score
        /\ \E n : leaderboard' = Zadd(n)
    <3>1. faults["postflush"] \in Nat /\ faults'["postflush"] = faults["postflush"] + 1
      BY <1>9 DEF FailPostFlush, Fault, FaultKinds, TypeOK
    <3> QED BY <1>9, <3>1 DEF FailPostFlush, ForgetBatch, postgres
  <2>2. \A p \in Participants : Stale(p)' => Stale(p)
    BY <2>1, ZaddProp
  <2> QED BY <2>1, <2>2 DEF FlushFits
<1>10. ASSUME Crash PROVE FlushFits'
  <2>1. pc' = "idle" /\ pending' = <<>> /\ UNCHANGED score /\ \E n : leaderboard' = Zadd(n)
    BY <1>10 DEF Crash, ForgetBatch, postgres
  <2>2. \A p \in Participants : Stale(p)' => Stale(p)
    BY <2>1, ZaddProp
  <2> QED BY <2>1, <2>2 DEF FlushFits
<1>11. ASSUME EvictCursor PROVE FlushFits'
  <2>1. /\ cursor > 0 /\ cursor' = 0 /\ faults'["postflush"] = faults["postflush"]
        /\ UNCHANGED <<stream, leaderboard, score, pc, pending, batch, todo, processed>>
    BY <1>11 DEF EvictCursor, Fault, FaultKinds, TypeOK, postgres, memory
  <2>2. \A i \in DOMAIN batch : batch[i] > 0
    <3>1. Len(stream) \in Nat /\ batch \in Seq(1..Len(stream))
      BY DEF TypeOK
    <3>2. \A i \in DOMAIN batch : batch[i] \in 1..Len(stream)
      BY <3>1
    <3> QED BY <3>1, <3>2
  <2>3. /\ Of(batch)' = Of(batch) /\ Handled' = Handled
        /\ \A p : (Stale(p)' <=> Stale(p)) /\ (IsNext(p)' <=> IsNext(p))
    BY <2>1 DEF Of, Handled, Stale, IsNext, Pid
  <2> QED BY <2>1, <2>2, <2>3 DEF FlushFits
<1>12. ASSUME FlushEmpty \/ UNCHANGED vars PROVE FlushFits'
  BY <1>12 DEF FlushEmpty, vars, redis, postgres, memory, FlushFits, Stale, Of, Handled, IsNext, Pid
<1>13. ASSUME EvictStream PROVE FlushFits'
  <2>1. /\ faults'["postflush"] = faults["postflush"]
        /\ UNCHANGED <<stream, cursor, leaderboard, score, pc, pending, batch, todo, processed>>
    BY <1>13 DEF EvictStream, Fault, FaultKinds, TypeOK, postgres, memory
  <2>2. /\ Of(batch)' = Of(batch) /\ Handled' = Handled
        /\ \A p : (Stale(p)' <=> Stale(p)) /\ (IsNext(p)' <=> IsNext(p))
    BY <2>1 DEF Of, Handled, Stale, IsNext, Pid
  <2> QED BY <2>1, <2>2 DEF FlushFits
<1> QED
  BY <1>1, <1>2, <1>3, <1>4, <1>5, <1>6, <1>7, <1>8, <1>9, <1>10, <1>11, <1>12, <1>13
     DEF Next, Work, Failure, HandleParticipant

\* Without crashes and refusals every step keeps those who are out of date in memory.
LEMMA InMemoryStep ==
  ASSUME TypeOK, Core, FlushFits, InMemory, [Next]_vars,
         faults'["sql"] = 0, faults'["crash"] = 0
  PROVE  InMemory'
<1> USE ConstantsAssumption
<1>1. ~Crash /\ \A p \in Participants : ~RejectParticipant(p) /\ ~FailCommit(p)
  BY NotYet DEF FaultKinds
<1>2. ASSUME NEW p \in Participants, NEW z \in BOOLEAN, PushEvent(p, z)
      PROVE  InMemory'
  <2>1. UNCHANGED <<leaderboard, score, ranked, pc, pending, todo, processed>>
    BY <1>2 DEF PushEvent, postgres, memory
  <2>2. Of(pending)' = Of(pending)
    BY <1>2, PushKeeps
  <2>3. Handled' = Handled /\ \A q : Stale(q)' <=> Stale(q)
    BY <2>1 DEF Handled, Stale
  <2> QED BY <2>1, <2>2, <2>3 DEF InMemory
<1>3. ASSUME BeginFlush PROVE InMemory'
  <2>1. /\ pc = "idle" /\ pc' = "score"
        /\ todo' = {stream[NextBatch[i]].pid : i \in DOMAIN NextBatch}
        /\ UNCHANGED <<leaderboard, score>>
    BY <1>3 DEF BeginFlush, redis, postgres
  <2>2. \A i \in DOMAIN pending : i \in DOMAIN NextBatch /\ NextBatch[i] = pending[i]
    <3>1. /\ pending \in Seq(1..Len(stream)) /\ NewEvents \in Seq(1..Len(stream))
          /\ Len(pending) \in Nat /\ Len(NewEvents) \in Nat
      BY NewEventsProp DEF TypeOK
    <3>2. /\ Len(NextBatch) = Len(pending) + Len(NewEvents) /\ NextBatch \in Seq(1..Len(stream))
          /\ \A i \in 1..(Len(pending) + Len(NewEvents)) :
               NextBatch[i] = IF i <= Len(pending) THEN pending[i] ELSE NewEvents[i - Len(pending)]
      BY <3>1, ConcatProperties DEF NextBatch
    <3>3. /\ DOMAIN pending = 1..Len(pending)
          /\ DOMAIN NextBatch = 1..(Len(pending) + Len(NewEvents))
      BY <3>1, <3>2
    <3>4. \A i \in 1..Len(pending) : i \in 1..(Len(pending) + Len(NewEvents)) /\ i <= Len(pending)
      BY <3>1
    <3> QED BY <3>2, <3>3, <3>4
  <2>3. Of(pending) \subseteq todo'
    BY <2>1, <2>2 DEF Of
  <2>4. \A q : Stale(q)' <=> Stale(q)
    BY <2>1 DEF Stale
  <2> QED BY <2>1, <2>3, <2>4 DEF InMemory
<1>4. ASSUME NEW p \in Participants, SkipMalformed(p) PROVE InMemory'
  <2>1. /\ pc = "score" /\ pc' = "score" /\ todo' = todo \ {p} /\ p \in Malformed
        /\ UNCHANGED <<leaderboard, score, processed>>
    BY <1>4 DEF SkipMalformed, redis, postgres
  <2>2. Handled' = Handled /\ \A q : Stale(q)' <=> Stale(q)
    BY <2>1 DEF Handled, Stale
  <2> QED BY <2>1, <2>2 DEF InMemory, FlushFits
<1>5. ASSUME NEW p \in Participants, FlushParticipant(p) PROVE InMemory'
  <2>1. pc = "score" /\ pc' = "commit" /\ UNCHANGED <<leaderboard, score, todo, processed>>
    BY <1>5 DEF FlushParticipant, postgres
  <2>2. Handled' = Handled /\ \A q : Stale(q)' <=> Stale(q)
    BY <2>1 DEF Handled, Stale
  <2> QED BY <2>1, <2>2 DEF InMemory
<1>6. ASSUME NEW p \in Participants, CommitParticipant(p) PROVE InMemory'
  <2>1. pc = "commit"
    BY <1>6 DEF CommitParticipant
  <2> QED BY <1>6, <2>1, CommitHandles DEF InMemory
<1>7. ASSUME UpdateRanks PROVE InMemory'
  <2>1. /\ pc = "score" /\ pc' = "cursor" /\ todo = {} /\ leaderboard' = Zadd(Len(processed))
        /\ ranked' = score /\ UNCHANGED score
    BY <1>7 DEF UpdateRanks, LoopDone
  <2>2. \A q \in Participants : ~Stale(q)'
    BY <2>1, ZaddProp DEF InMemory
  <2> QED BY <2>1, <2>2 DEF InMemory
<1>8. ASSUME SetCursor PROVE InMemory'
  BY <1>8 DEF SetCursor, postgres, InMemory, Stale
<1>9. ASSUME FinishFlush PROVE InMemory'
  <2>1. pc = "publish" /\ pc' = "idle" /\ UNCHANGED <<leaderboard, score, ranked>>
    BY <1>9 DEF FinishFlush, ForgetBatch, postgres
  <2> QED BY <2>1 DEF InMemory, Stale
<1>10. ASSUME FailPostFlush PROVE InMemory'
  <2>1. /\ pc # "idle" /\ pc' = "idle" /\ pending' = batch
        /\ pc = "score" => todo = {} /\ pc # "commit"
        /\ UNCHANGED <<stream, score, ranked>> /\ \E n : leaderboard' = Zadd(n)
    BY <1>10 DEF FailPostFlush, LoopDone, ForgetBatch, postgres
  <2>2. \A q \in Participants : Stale(q)' => Stale(q)
    BY <2>1, ZaddProp
  <2>3. Of(pending)' = Of(batch) /\ pending' # <<>> /\ Handled \subseteq Of(batch)
    BY <2>1 DEF Of, FlushFits
  <2>4. pc \in {"score", "cursor", "publish"}
    BY <2>1, <1>10 DEF FailPostFlush, LoopDone
  <2> QED BY <2>1, <2>2, <2>3, <2>4 DEF InMemory
<1>11. ASSUME EvictCursor \/ EvictStream \/ FlushEmpty \/ UNCHANGED vars PROVE InMemory'
  <2>1. UNCHANGED <<stream, leaderboard, score, ranked, pc, pending, todo, processed>>
    BY <1>11 DEF EvictCursor, EvictStream, FlushEmpty, vars, redis, postgres, memory
  <2> QED BY <2>1 DEF InMemory, Stale, Of, Handled
<1> QED
  BY <1>1, <1>2, <1>3, <1>4, <1>5, <1>6, <1>7, <1>8, <1>9, <1>10, <1>11
     DEF Next, Work, Failure, HandleParticipant

\* Without failed tails, refusals and trimming every step keeps the events of those who are out
\* of date in the stream.
LEMMA InStreamStep ==
  ASSUME TypeOK, TypeOK', Core, FlushFits, InStream, [Next]_vars,
         faults'["sql"] = 0, faults'["postflush"] = 0, trimmed' = 0
  PROVE  InStream'
<1> USE ConstantsAssumption
<1>1. /\ ~FailPostFlush /\ \A p \in Participants : ~RejectParticipant(p) /\ ~FailCommit(p)
      /\ pending = <<>>
  BY NotYet DEF FaultKinds, FlushFits
<1>0. ~EvictStream
  <2>1. trimmed \in Nat
    BY DEF TypeOK
  <2> QED BY <2>1 DEF EvictStream
<1>2. cursor \in Nat /\ batchLast \in Nat /\ Len(stream) \in Nat
  BY DEF TypeOK
<1>3. ASSUME NEW p \in Participants, NEW z \in BOOLEAN, PushEvent(p, z)
      PROVE  InStream'
  <2>1. UNCHANGED <<cursor, leaderboard, score, ranked, pc, batchLast, todo, processed>>
    BY <1>3 DEF PushEvent, postgres, memory
  <2>2. /\ Len(stream') = Len(stream) + 1
        /\ \A q \in Participants, n \in Nat : SeenAfter(q, n) => SeenAfter(q, n)'
    BY <1>3, PushKeeps
  <2>3. Handled' = Handled /\ \A q : Stale(q)' <=> Stale(q)
    BY <2>1 DEF Handled, Stale
  <2>4. \A q \in Participants :
          /\ SeenAfter(q, cursor) => SeenAfter(q, cursor)'
          /\ SeenAfter(q, batchLast) => SeenAfter(q, batchLast)'
    BY <1>2, <2>1, <2>2 DEF SeenAfter
  <2>5. cursor < Len(stream) => cursor < Len(stream')
    BY <1>2, <2>2
  <2> QED BY <2>1, <2>3, <2>4, <2>5 DEF InStream
<1>4. ASSUME BeginFlush PROVE InStream'
  <2>1. /\ pc = "idle" /\ pc' = "score" /\ batchLast' = NewLast
        /\ todo' = {stream[NextBatch[i]].pid : i \in DOMAIN NextBatch}
        /\ UNCHANGED <<stream, trimmed, leaderboard, score>>
    BY <1>1, <1>4 DEF BeginFlush, redis, postgres, NextBatchLast
  <2>2. ASSUME NEW q \in Participants, Stale(q)'
        PROVE  q \in todo' \/ SeenAfter(q, batchLast)'
    <3>1. Stale(q)
      BY <2>1, <2>2 DEF Stale
    <3>2. PICK id \in (cursor + 1)..Len(stream) : stream[id].pid = q
      BY <2>1, <3>1 DEF InStream, SeenAfter
    <3>3. CASE id \in (cursor + 1)..NewLast
      <4>1. PICK i \in DOMAIN NextBatch : NextBatch[i] = id
        BY <2>1, <3>3, NextBatchProp
      <4> QED BY <2>1, <3>2, <4>1
    <3>4. CASE id \notin (cursor + 1)..NewLast
      <4>1. NewLast \in Nat
        BY NewEventsProp, <1>2
      <4>2. id \in (NewLast + 1)..Len(stream)
        BY <1>2, <3>2, <3>4, <4>1
      <4> QED BY <2>1, <3>2, <4>2 DEF SeenAfter
    <3> QED BY <3>3, <3>4
  <2> QED BY <2>1, <2>2 DEF InStream
<1>5. ASSUME NEW p \in Participants, SkipMalformed(p) PROVE InStream'
  <2>1. /\ pc = "score" /\ pc' = "score" /\ todo' = todo \ {p} /\ p \in Malformed
        /\ UNCHANGED <<stream, leaderboard, score, batchLast, processed>>
    BY <1>5 DEF SkipMalformed, redis, postgres
  <2>2. /\ Handled' = Handled
        /\ \A q : (Stale(q)' <=> Stale(q)) /\ (SeenAfter(q, batchLast)' <=> SeenAfter(q, batchLast))
    BY <2>1 DEF Handled, Stale, SeenAfter
  <2> QED BY <2>1, <2>2 DEF InStream, FlushFits
<1>6. ASSUME NEW p \in Participants, FlushParticipant(p) PROVE InStream'
  <2>1. /\ pc = "score" /\ pc' = "commit"
        /\ UNCHANGED <<stream, leaderboard, score, batchLast, todo, processed>>
    BY <1>6 DEF FlushParticipant, postgres
  <2>2. /\ Handled' = Handled
        /\ \A q : (Stale(q)' <=> Stale(q)) /\ (SeenAfter(q, batchLast)' <=> SeenAfter(q, batchLast))
    BY <2>1 DEF Handled, Stale, SeenAfter
  <2> QED BY <2>1, <2>2 DEF InStream
<1>7. ASSUME NEW p \in Participants, CommitParticipant(p) PROVE InStream'
  <2>1. pc = "commit" /\ UNCHANGED <<stream, batchLast>>
    BY <1>7 DEF CommitParticipant, redis
  <2>2. \A q : SeenAfter(q, batchLast)' <=> SeenAfter(q, batchLast)
    BY <2>1 DEF SeenAfter
  <2> QED BY <1>7, <2>1, <2>2, CommitHandles DEF InStream
<1>8. ASSUME UpdateRanks PROVE InStream'
  <2>1. /\ pc = "score" /\ pc' = "cursor" /\ todo = {} /\ leaderboard' = Zadd(Len(processed))
        /\ ranked' = score /\ UNCHANGED <<stream, score, batchLast>>
    BY <1>8 DEF UpdateRanks, LoopDone
  <2>2. \A q \in Participants : Stale(q)' => Stale(q) /\ q \notin Handled
    BY <2>1, ZaddProp
  <2>3. \A q : SeenAfter(q, batchLast)' <=> SeenAfter(q, batchLast)
    BY <2>1 DEF SeenAfter
  <2> QED BY <2>1, <2>2, <2>3 DEF InStream
<1>9. ASSUME SetCursor PROVE InStream'
  <2>1. /\ pc = "cursor" /\ pc' = "publish"
        /\ UNCHANGED <<stream, leaderboard, score, ranked, batchLast>>
    BY <1>9 DEF SetCursor, postgres
  <2> QED BY <2>1 DEF InStream, Stale, SeenAfter
<1>10. \A q : pc # "idle" /\ SeenAfter(q, batchLast) => SeenAfter(q, cursor)
  <2>1. pc # "idle" => cursor <= batchLast
    BY DEF Core, CursorOrder
  <2> QED BY <1>2, <2>1 DEF SeenAfter
<1>11. ASSUME FinishFlush PROVE InStream'
  <2>1. pc = "publish" /\ pc' = "idle" /\ UNCHANGED <<stream, cursor, leaderboard, score, ranked>>
    BY <1>11 DEF FinishFlush, ForgetBatch, postgres
  <2> QED BY <1>10, <2>1 DEF InStream, Stale, SeenAfter
<1>12. ASSUME Crash PROVE InStream'
  <2>1. /\ pc' = "idle" /\ UNCHANGED <<stream, cursor, score, ranked>>
        /\ \E n : leaderboard' = Zadd(n)
    BY <1>12 DEF Crash, ForgetBatch, postgres
  <2>2. \A q \in Participants : Stale(q)' => Stale(q)
    BY <2>1, ZaddProp
  <2>3. pc \in {"score", "commit"} =>
          batch # <<>> /\ \A i \in DOMAIN batch : batch[i] \in (cursor + 1)..Len(stream)
    <3>1. \A i \in DOMAIN batch : batch[i] \in 1..Len(stream)
      BY IdBounds
    <3> QED BY <1>1, <1>2, <3>1 DEF FlushFits
  <2>4. pc \in {"score", "commit"} => \A q \in todo \cup Handled : SeenAfter(q, cursor)
    BY <2>3 DEF FlushFits, Of, SeenAfter
  <2>5. pc \in {"score", "commit"} => cursor < Len(stream)
    <3>1. batch # <<>> => 1 \in DOMAIN batch
      BY DEF TypeOK
    <3> QED BY <1>2, <2>3, <3>1
  <2>6. \A q \in Participants : Stale(q) => SeenAfter(q, cursor)
    BY <1>10, <2>4 DEF InStream, TypeOK
  <2>7. ranked = score \/ cursor < Len(stream)
    BY <2>5 DEF InStream, TypeOK
  <2> QED BY <2>1, <2>2, <2>6, <2>7 DEF InStream, SeenAfter
<1>13. ASSUME EvictCursor PROVE InStream'
  <2>1. /\ cursor > 0 /\ cursor' = 0
        /\ UNCHANGED <<stream, leaderboard, score, ranked, pc, batchLast, todo, processed>>
    BY <1>13 DEF EvictCursor, postgres, memory
  <2>2. \A q : SeenAfter(q, cursor) => SeenAfter(q, cursor)'
    BY <1>2, <2>1 DEF SeenAfter
  <2>3. cursor < Len(stream) => cursor' < Len(stream')
    BY <1>2, <2>1
  <2>4. /\ Handled' = Handled
        /\ \A q : (Stale(q)' <=> Stale(q)) /\ (SeenAfter(q, batchLast)' <=> SeenAfter(q, batchLast))
    BY <2>1 DEF Handled, Stale, SeenAfter
  <2> QED BY <2>1, <2>2, <2>3, <2>4 DEF InStream
<1>14. ASSUME FlushEmpty \/ UNCHANGED vars PROVE InStream'
  BY <1>14 DEF FlushEmpty, vars, redis, postgres, memory, InStream, Stale, SeenAfter, Handled
<1> QED
  BY <1>0, <1>1, <1>3, <1>4, <1>5, <1>6, <1>7, <1>8, <1>9, <1>11, <1>12, <1>13, <1>14
     DEF Next, Work, Failure, HandleParticipant

\* However a flush failed on the way: once the worker has caught up, leaderboard and ranks are
\* those of the committed scores, unless failed tails and crashes came together.
THEOREM BoardIsTrue == Spec => []LeaderboardAgrees
<1>1. Init => BoardInv
  <2> SUFFICES ASSUME Init PROVE BoardInv
    OBVIOUS
  <2>1. \A p \in Participants : ~Stale(p)
    BY DEF Init, Stale
  <2> QED BY <2>1, ConstantsAssumption DEF Init, BoardInv, FlushFits, InMemory, InStream
<1>2. IInv /\ TypeOK' /\ BoardInv /\ [Next]_vars => BoardInv'
  <2> SUFFICES ASSUME IInv, TypeOK', BoardInv, [Next]_vars PROVE BoardInv'
    OBVIOUS
  <2>1. TypeOK /\ Core
    BY DEF IInv, Core
  <2>2. FlushFits'
    BY <2>1, FlushFitsStep DEF BoardInv
  <2>3. \A k \in FaultKinds : faults'[k] = 0 => faults[k] = 0
    BY <2>1, NotYet
  <2>4. trimmed' = 0 => trimmed = 0
    <3>1. trimmed \in Nat /\ Len(stream) \in Nat
      BY <2>1 DEF TypeOK
    <3>2. \/ \E p \in Participants, z \in BOOLEAN : PushEvent(p, z)
          \/ EvictStream
          \/ trimmed' = trimmed
      BY DEF Next, Work, Failure, HandleParticipant, FlushEmpty, BeginFlush, SkipMalformed,
         FlushParticipant, CommitParticipant, UpdateRanks, SetCursor, FinishFlush,
         RejectParticipant, FailCommit, FailPostFlush, Crash, EvictCursor, vars, redis
    <3>3. \/ trimmed' = trimmed
          \/ trimmed' \in trimmed..(Len(stream) + 1 - StreamMax)
          \/ trimmed < Len(stream) /\ trimmed' = Len(stream)
      BY <3>2 DEF PushEvent, EvictStream
    <3> QED BY <3>1, <3>3, ConstantsAssumption
  <2>5. ASSUME faults'["sql"] = 0, faults'["crash"] = 0 PROVE InMemory'
    BY <2>1, <2>3, <2>5, InMemoryStep DEF BoardInv, FaultKinds
  <2>6. ASSUME faults'["sql"] = 0, trimmed' = 0, faults'["postflush"] = 0 PROVE InStream'
    BY <2>1, <2>3, <2>4, <2>6, InStreamStep DEF BoardInv, FaultKinds
  <2> QED BY <2>2, <2>5, <2>6 DEF BoardInv
<1>3. TypeOK /\ BoardInv => LeaderboardAgrees
  <2> SUFFICES ASSUME TypeOK, BoardInv, CaughtUp, faults["sql"] = 0, trimmed = 0,
                      faults["crash"] = 0 \/ faults["postflush"] = 0
               PROVE  leaderboard = score /\ ranked = score
    BY DEF LeaderboardAgrees
  <2>1. pc = "idle" /\ pending = <<>> /\ cursor = Len(stream) /\ Len(stream) \in Nat
    BY DEF CaughtUp, TypeOK
  <2>2. Of(pending) = {} /\ \A q : ~SeenAfter(q, cursor)
    BY <2>1 DEF Of, SeenAfter
  <2>3. ranked = score /\ \A p \in Participants : ~Stale(p)
    BY <2>1, <2>2 DEF BoardInv, InMemory, InStream
  <2>4. leaderboard = score
    BY <2>3 DEF Stale, TypeOK
  <2> QED BY <2>3, <2>4
<1> QED BY <1>1, <1>2, <1>3, TypeCorrect, Inductive, PTL DEF Spec
-----------------------------------------------------------------------------
(***************************************************************************)
(* How often an event can be logged                                        *)
(***************************************************************************)

\* How often an id occurs in a batch; whether it lies after the n-th; what this flush has
\* yet to log of it; and how often it would be logged from the state between two flushes if
\* nothing else failed: from what was kept, from the cursor, and behind what was kept.
CopiesIn(s, id) == Cardinality({i \in DOMAIN s : s[i] = id})
After(id, n) == IF id > n THEN 1 ELSE 0
Owed(id) == IF \E i \in DOMAIN batch : batch[i] = id /\ Pid(i) \in todo THEN Copies(id) ELSE 0
Again(id) ==
  CopiesIn(pending, id) + After(id, cursor)
    + (IF pending = <<>> THEN 0 ELSE After(id, pendingLast))

\* 1 + 2 + ... + (n + 1), doubled.
Bound(n) == (n + 1) * (n + 2)

\* Each fault lets an id be read once more, and what is logged of it together with what can
\* still be read of it stays within the bound.
ReadsFit(id) ==
  /\ pc = "idle" => /\ Again(id) <= Repeats + 1
                    /\ 2 * (logs[id] + Again(id)) <= Bound(Repeats)
  /\ pc # "idle" => /\ Copies(id) + After(id, cursor) + After(id, batchLast) <= Repeats + 2
                    /\ 2 * (logs[id] + Owed(id)
                             + After(id, IF pc = "publish" THEN cursor ELSE batchLast))
                         <= Bound(Repeats)

Reads == \A id \in Ids : ReadsFit(id)

\* One fault more raises the bound by two for each copy it lets through.
LEMMA BoundStep ==
  ASSUME NEW n \in Nat
  PROVE  Bound(n) \in Nat /\ Bound(n + 1) = Bound(n) + 2 * (n + 2)
BY DEF Bound

\* How often an id occurs in a sequence is a natural number.
LEMMA CopiesInType ==
  ASSUME NEW S, NEW s \in Seq(S), NEW id
  PROVE  CopiesIn(s, id) \in Nat
<1>1. DOMAIN s = 1..Len(s) /\ Len(s) \in Nat
  OBVIOUS
<1>2. IsFiniteSet(1..Len(s))
  BY <1>1, FS_Interval
<1>3. IsFiniteSet({i \in DOMAIN s : s[i] = id})
  BY <1>1, <1>2, FS_Subset
<1> QED BY <1>3, FS_CardinalityType DEF CopiesIn

\* The counts are natural numbers, and an id lies after a later position only if it lies
\* after an earlier one.
LEMMA CountType ==
  ASSUME TypeOK, NEW id \in Ids
  PROVE  /\ Copies(id) \in Nat /\ CopiesIn(batch, id) = Copies(id)
         /\ CopiesIn(pending, id) \in Nat
         /\ Owed(id) \in 0..Copies(id) /\ logs[id] \in Nat
         /\ \A n : After(id, n) \in 0..1
         /\ \A n \in Nat, m \in Nat : n <= m => After(id, m) <= After(id, n)
         /\ Repeats \in Nat /\ Bound(Repeats) \in Nat
<1> USE ConstantsAssumption
<1>1. \A s \in Seq(1..Len(stream)) : CopiesIn(s, id) \in Nat
  BY CopiesInType
<1>2. Copies(id) \in Nat /\ CopiesIn(pending, id) \in Nat /\ CopiesIn(batch, id) = Copies(id)
  BY <1>1 DEF TypeOK, Copies, CopiesIn
<1>3. Owed(id) \in 0..Copies(id)
  BY <1>2 DEF Owed
<1>4. Repeats \in Nat
  <2>1. faults \in [{"crash", "postflush", "sql", "evict"} -> Nat]
    BY DEF TypeOK, FaultKinds
  <2> QED BY <2>1 DEF Repeats
<1>5. Bound(Repeats) \in Nat
  BY <1>4, BoundStep
<1>6. /\ \A n : After(id, n) \in 0..1
      /\ \A n \in Nat, m \in Nat : n <= m => After(id, m) <= After(id, n)
  BY DEF After, Ids
<1> QED BY <1>2, <1>3, <1>4, <1>5, <1>6 DEF TypeOK

\* The entries read from the stream are different ones behind the cursor: a batch holds an
\* id as often as the kept one, once more if it lies after the cursor; and not at all if
\* nothing was kept and it lies after the last id read.
LEMMA BatchCopies ==
  ASSUME TypeOK, NEW id \in Ids
  PROVE  /\ CopiesIn(NextBatch, id) <= CopiesIn(pending, id) + After(id, cursor)
         /\ pending = <<>> => CopiesIn(NextBatch, id) + After(id, NewLast) <= After(id, cursor)
<1> DEFINE S == {i \in DOMAIN pending : pending[i] = id}
           T == {i \in DOMAIN NextBatch : NextBatch[i] = id}
           k == Len(pending) + id + 1 - FirstUnread
<1>1. /\ pending \in Seq(1..Len(stream)) /\ NewEvents \in Seq(1..Len(stream))
      /\ Len(pending) \in Nat /\ Len(NewEvents) \in Nat /\ id \in Nat /\ cursor \in Nat
      /\ FirstUnread \in Nat /\ LastRead \in Nat /\ NewLast \in Nat
      /\ Len(NewEvents) = LastRead + 1 - FirstUnread
      /\ \A i \in 1..Len(NewEvents) : NewEvents[i] = FirstUnread + i - 1
  <2>1. /\ pending \in Seq(1..Len(stream)) /\ Len(pending) \in Nat
        /\ cursor \in Nat /\ Len(stream) \in Nat
    BY DEF TypeOK
  <2>2. id \in Nat
    BY DEF Ids
  <2>3. FirstUnread \in Nat /\ LastRead \in Nat /\ NewLast \in Nat
    BY <2>1, NewEventsProp
  <2>4. NewEvents \in Seq(1..Len(stream)) /\ Len(NewEvents) \in Nat
    BY NewEventsProp
  <2> QED BY <2>1, <2>2, <2>3, <2>4, NewEventsProp
<1>2. FirstUnread > cursor
  BY DEF FirstUnread, TypeOK
<1>3. /\ DOMAIN pending = 1..Len(pending)
      /\ DOMAIN NextBatch = 1..(Len(pending) + Len(NewEvents))
      /\ \A i \in 1..(Len(pending) + Len(NewEvents)) :
           NextBatch[i] = IF i <= Len(pending) THEN pending[i] ELSE NewEvents[i - Len(pending)]
  <2>1. /\ NextBatch \in Seq(1..Len(stream))
        /\ Len(NextBatch) = Len(pending) + Len(NewEvents)
        /\ \A i \in 1..(Len(pending) + Len(NewEvents)) :
             NextBatch[i] = IF i <= Len(pending) THEN pending[i] ELSE NewEvents[i - Len(pending)]
    BY ONLY <1>1, ConcatProperties DEF NextBatch
  <2> QED BY ONLY <1>1, <2>1
<1>4. ASSUME NEW i \in T, i \notin S
      PROVE  i = k /\ id > cursor /\ id <= LastRead /\ NewEvents # <<>>
  <2>1. i \in 1..(Len(pending) + Len(NewEvents)) /\ NextBatch[i] = id
    BY <1>3
  <2>2. ~(i <= Len(pending))
    BY <1>1, <1>3, <1>4, <2>1
  <2>3. NewEvents[i - Len(pending)] = id /\ i - Len(pending) \in 1..Len(NewEvents)
    BY <1>1, <1>3, <2>1, <2>2
  <2>4. id = FirstUnread + (i - Len(pending)) - 1
    BY <1>1, <2>3
  <2>5. i \in Nat /\ i - Len(pending) >= 1 /\ i - Len(pending) <= LastRead + 1 - FirstUnread
    BY <1>1, <2>1, <2>3
  <2>6. i = k
    BY <1>1, <2>4, <2>5
  <2>7. id > cursor /\ id <= LastRead
    BY <1>1, <1>2, <2>4, <2>5
  <2>8. Len(NewEvents) # 0
    BY <1>1, <2>3
  <2> QED BY <2>6, <2>7, <2>8
<1>5. IsFiniteSet(S) /\ Cardinality(S) \in Nat
  <2>1. IsFiniteSet(1..Len(pending))
    BY <1>1, FS_Interval
  <2>2. S \in SUBSET (1..Len(pending))
    BY <1>3
  <2> QED BY <2>1, <2>2, FS_Subset, FS_CardinalityType
<1>6. /\ IsFiniteSet(S \cup {k})
      /\ Cardinality(S \cup {k}) <= Cardinality(S) + 1 /\ Cardinality(S \cup {k}) \in Nat
  <2>1. /\ IsFiniteSet(S \cup {k})
        /\ Cardinality(S \cup {k}) = IF k \in S THEN Cardinality(S) ELSE Cardinality(S) + 1
    BY <1>5, FS_AddElement
  <2> QED BY <1>5, <2>1
<1>7. Cardinality(T) <= Cardinality(S) + After(id, cursor)
  <2>1. CASE id > cursor
    <3>1. T \in SUBSET (S \cup {k})
      BY <1>4
    <3>2. Cardinality(T) <= Cardinality(S \cup {k}) /\ Cardinality(T) \in Nat
      BY <1>6, <3>1, FS_Subset, FS_CardinalityType
    <3> QED BY <1>5, <1>6, <2>1, <3>2 DEF After
  <2>2. CASE ~(id > cursor)
    <3>1. T \in SUBSET S
      BY <1>4, <2>2
    <3>2. Cardinality(T) <= Cardinality(S) /\ Cardinality(T) \in Nat
      BY <1>5, <3>1, FS_Subset, FS_CardinalityType
    <3> QED BY <1>5, <2>2, <3>2 DEF After
  <2> QED BY <2>1, <2>2
<1>8. ASSUME pending = <<>>
      PROVE  Cardinality(T) + After(id, NewLast) <= After(id, cursor)
  <2>1. S = {} /\ Cardinality(S) = 0
    BY <1>1, <1>3, <1>8, FS_EmptySet
  <2>2. CASE id > NewLast
    <3>1. T = {}
      BY <1>1, <1>4, <2>1, <2>2 DEF NewLast
    <3>2. Cardinality(T) = 0
      BY <3>1, FS_EmptySet
    <3>3. NewLast >= cursor
      BY NewEventsProp DEF TypeOK
    <3> QED BY <1>1, <2>2, <3>2, <3>3 DEF After
  <2>3. CASE ~(id > NewLast)
    <3>1. After(id, NewLast) = 0 /\ After(id, cursor) \in 0..1
      BY <2>3 DEF After
    <3>2. Cardinality(T) \in Nat
      <4>1. T \in SUBSET (S \cup {k})
        BY <1>4
      <4> QED BY <1>6, <4>1, FS_Subset, FS_CardinalityType
    <3> QED BY <1>7, <2>1, <3>1, <3>2
  <2> QED BY <2>2, <2>3
<1> HIDE DEF k
<1> QED BY <1>7, <1>8 DEF CopiesIn

\* A flush that begins puts into its batch no more than what could be read again.
LEMMA BeginReads ==
  ASSUME TypeOK, TypeOK', BeginFlush, NEW id \in Ids, ReadsFit(id)
  PROVE  ReadsFit(id)'
<1>1. /\ pc = "idle" /\ pc' = "score" /\ batch' = NextBatch /\ batchLast' = NextBatchLast
      /\ UNCHANGED <<cursor, logs, faults>>
  BY DEF BeginFlush, redis, postgres
<1>2. /\ Copies(id)' = CopiesIn(NextBatch, id) /\ Copies(id)' \in Nat /\ Owed(id)' \in 0..Copies(id)'
  <2>1. Copies(id)' = CopiesIn(NextBatch, id)
    BY <1>1 DEF Copies, CopiesIn
  <2>2. CopiesIn(NextBatch, id) \in Nat
    <3>1. NextBatch \in Seq(1..Len(stream))
      BY NextBatchProp
    <3> QED BY <3>1, CopiesInType
  <2>3. Owed(id)' \in 0..Copies(id)'
    BY <2>1, <2>2 DEF Owed
  <2> QED BY <2>1, <2>2, <2>3
<1>3. /\ Again(id) <= Repeats + 1 /\ 2 * (logs[id] + Again(id)) <= Bound(Repeats)
      /\ UNCHANGED Repeats
  BY <1>1 DEF ReadsFit, Repeats
<1>4. /\ CopiesIn(pending, id) \in Nat /\ logs[id] \in Nat /\ Repeats \in Nat
      /\ Bound(Repeats) \in Nat /\ \A n : After(id, n) \in 0..1
  BY CountType
<1>5. CASE pending = <<>>
  <2>1. batchLast' = NewLast /\ Again(id) = CopiesIn(pending, id) + After(id, cursor)
    BY <1>1, <1>4, <1>5 DEF NextBatchLast, Again
  <2>2. Copies(id)' + After(id, NewLast) <= After(id, cursor)
    BY <1>2, <1>5, BatchCopies
  <2>3. Copies(id)' + After(id, cursor) + After(id, NewLast) <= Repeats + 2
    BY <1>2, <1>4, <2>2
  <2>4. 2 * (logs[id] + Owed(id)' + After(id, NewLast)) <= Bound(Repeats)
    BY <1>2, <1>3, <1>4, <2>1, <2>2
  <2> QED BY <1>1, <1>3, <2>1, <2>3, <2>4 DEF ReadsFit, After
<1>6. CASE pending # <<>>
  <2>1. /\ batchLast' = pendingLast
        /\ Again(id) = CopiesIn(pending, id) + After(id, cursor) + After(id, pendingLast)
    BY <1>1, <1>6 DEF NextBatchLast, Again
  <2>2. Copies(id)' <= CopiesIn(pending, id) + After(id, cursor)
    BY <1>2, BatchCopies
  <2>3. Copies(id)' + After(id, cursor) + After(id, pendingLast) <= Repeats + 2
    BY <1>2, <1>3, <1>4, <2>1, <2>2
  <2>4. 2 * (logs[id] + Owed(id)' + After(id, pendingLast)) <= Bound(Repeats)
    BY <1>2, <1>3, <1>4, <2>1, <2>2
  <2> QED BY <1>1, <1>3, <2>1, <2>3, <2>4 DEF ReadsFit, After
<1> QED BY <1>5, <1>6

\* When the loop is done with a participant that was not committed, nothing of what it owed
\* is logged.
LEMMA LoopReads ==
  ASSUME TypeOK, NEW id \in Ids, ReadsFit(id), NEW p,
         pc \in {"score", "commit"}, pc' = "score", todo' = todo \ {p},
         UNCHANGED <<stream, cursor, batch, batchLast>>, Repeats' = Repeats,
         logs'[id] + (IF id \in EventsOf(p) /\ p \in todo THEN 0 ELSE Owed(id)) <= logs[id] + Owed(id),
         logs'[id] \in Nat
  PROVE  ReadsFit(id)'
<1>1. /\ Copies(id) + After(id, cursor) + After(id, batchLast) <= Repeats + 2
      /\ 2 * (logs[id] + Owed(id) + After(id, batchLast)) <= Bound(Repeats)
  BY DEF ReadsFit
<1>2. /\ Copies(id)' = Copies(id) /\ After(id, cursor)' = After(id, cursor)
      /\ After(id, batchLast)' = After(id, batchLast) /\ Bound(Repeats)' = Bound(Repeats)
  BY DEF Copies, After, Bound
<1>3. Owed(id)' = 0 \/ Owed(id)' = Owed(id)
  BY <1>2 DEF Owed, Pid
<1>4. id \in EventsOf(p) /\ p \in todo => Owed(id)' = 0
  BY DEF Owed, EventsOf, Pid
<1>5. /\ Owed(id) \in Nat /\ logs[id] \in Nat /\ Bound(Repeats) \in Nat
      /\ After(id, batchLast) \in 0..1
  BY CountType
<1>6. logs'[id] + Owed(id)' <= logs[id] + Owed(id)
  <2>1. CASE id \in EventsOf(p) /\ p \in todo
    BY <1>4, <1>5, <2>1
  <2>2. CASE ~(id \in EventsOf(p) /\ p \in todo)
    BY <1>3, <1>5, <2>2
  <2> QED BY <2>1, <2>2
<1>7. Owed(id)' \in Nat
  BY <1>3, <1>5
<1>8. 2 * (logs'[id] + Owed(id)' + After(id, batchLast)) <= Bound(Repeats)
  BY <1>1, <1>5, <1>6, <1>7
<1> QED BY <1>1, <1>2, <1>8 DEF ReadsFit, After

\* A commit logs as many copies as the flush owed.
LEMMA CommitReads ==
  ASSUME TypeOK, NEW id \in Ids, ReadsFit(id), NEW p \in Participants, CommitParticipant(p)
  PROVE  ReadsFit(id)'
<1>1. /\ pc \in {"score", "commit"} /\ pc' = "score" /\ todo' = todo \ {p} /\ IsNext(p)
      /\ UNCHANGED <<stream, cursor, batch, batchLast, faults>>
      /\ logs' = [d \in Ids |-> IF d \in EventsOf(p) /\ stream[d].inZone
                                THEN logs[d] + Copies(d) ELSE logs[d]]
  BY DEF CommitParticipant, redis
<1>2. /\ logs[id] \in Nat /\ Copies(id) \in Nat /\ Owed(id) \in 0..Copies(id)
  BY CountType
<1>3. p \in todo
  BY <1>1 DEF IsNext
<1>4. /\ logs'[id] \in Nat /\ logs'[id] <= logs[id] + Copies(id)
      /\ id \notin EventsOf(p) => logs'[id] = logs[id]
  BY <1>1, <1>2
<1>5. id \in EventsOf(p) => Owed(id) = Copies(id)
  BY <1>3 DEF EventsOf, Owed
<1>6. logs'[id] + (IF id \in EventsOf(p) /\ p \in todo THEN 0 ELSE Owed(id)) <= logs[id] + Owed(id)
  <2>1. CASE id \in EventsOf(p)
    BY <1>2, <1>3, <1>4, <1>5, <2>1
  <2>2. CASE id \notin EventsOf(p)
    BY <1>2, <1>4, <2>2
  <2> QED BY <2>1, <2>2
<1>7. Repeats' = Repeats
  BY <1>1 DEF Repeats
<1> QED BY <1>1, <1>4, <1>6, <1>7, LoopReads

\* A failed tail, a crash or an eviction is one fault more.
LEMMA FaultRepeats ==
  ASSUME TypeOK, NEW k \in {"crash", "postflush", "evict"}, Fault(k)
  PROVE  Repeats' = Repeats + 1
BY DEF TypeOK, Fault, Repeats, FaultKinds

\* Every step keeps what can still be logged of an event within the bound.
LEMMA ReadsStep ==
  ASSUME TypeOK, TypeOK', Core, NEW id \in Ids, ReadsFit(id), [Next]_vars
  PROVE  ReadsFit(id)'
<1>1. /\ Copies(id) \in Nat /\ CopiesIn(batch, id) = Copies(id)
      /\ CopiesIn(pending, id) \in Nat /\ Owed(id) \in 0..Copies(id) /\ logs[id] \in Nat
      /\ \A n : After(id, n) \in 0..1
      /\ \A n \in Nat, m \in Nat : n <= m => After(id, m) <= After(id, n)
      /\ Repeats \in Nat /\ Bound(Repeats) \in Nat
      /\ Bound(Repeats + 1) = Bound(Repeats) + 2 * (Repeats + 2)
  BY CountType, BoundStep
<1>2. /\ pc = "idle" => /\ Again(id) <= Repeats + 1
                        /\ 2 * (logs[id] + Again(id)) <= Bound(Repeats)
      /\ pc # "idle" => /\ Copies(id) + After(id, cursor) + After(id, batchLast) <= Repeats + 2
                        /\ 2 * (logs[id] + Owed(id)
                                 + After(id, IF pc = "publish" THEN cursor ELSE batchLast))
                             <= Bound(Repeats)
  BY DEF ReadsFit
<1>3. ASSUME UNCHANGED <<cursor, logs, pc, pending, pendingLast, batch, batchLast, faults>>,
             Owed(id)' = Owed(id)
      PROVE  ReadsFit(id)'
  <2>1. /\ Again(id)' = Again(id) /\ Copies(id)' = Copies(id) /\ Repeats' = Repeats
        /\ \A n : After(id, n)' = After(id, n)
    BY <1>3 DEF Again, CopiesIn, Copies, After, Repeats
  <2> QED BY <1>2, <1>3, <2>1 DEF ReadsFit, After
<1>4. ASSUME NEW p \in Participants, NEW z \in BOOLEAN, PushEvent(p, z)
      PROVE  ReadsFit(id)'
  <2>1. UNCHANGED <<cursor, logs, pc, pending, pendingLast, batch, batchLast, todo, faults>>
    BY <1>4 DEF PushEvent, postgres, memory
  <2>2. Owed(id)' = Owed(id)
    BY <1>4, <2>1, PushKeeps DEF Owed, Copies
  <2> QED BY <1>3, <2>1, <2>2
<1>5. ASSUME FlushEmpty \/ UNCHANGED vars PROVE ReadsFit(id)'
  <2>1. UNCHANGED <<stream, cursor, logs, pc, pending, pendingLast, batch, batchLast, todo, faults>>
    BY <1>5 DEF FlushEmpty, vars, redis, postgres, memory
  <2>2. Owed(id)' = Owed(id)
    BY <2>1 DEF Owed, Copies, Pid
  <2> QED BY <1>3, <2>1, <2>2
<1>6. ASSUME BeginFlush PROVE ReadsFit(id)'
  BY <1>6, BeginReads
<1>7. ASSUME NEW p \in Participants,
             SkipMalformed(p) \/ RejectParticipant(p) \/ FailCommit(p)
      PROVE  ReadsFit(id)'
  <2>1. /\ pc \in {"score", "commit"} /\ pc' = "score" /\ todo' = todo \ {p}
        /\ UNCHANGED <<stream, cursor, batch, batchLast, logs>>
    BY <1>7 DEF SkipMalformed, RejectParticipant, FailCommit, redis, postgres
  <2>2. Repeats' = Repeats
    BY <1>7 DEF SkipMalformed, RejectParticipant, FailCommit, Fault, Repeats, TypeOK, FaultKinds
  <2>3. logs'[id] + (IF id \in EventsOf(p) /\ p \in todo THEN 0 ELSE Owed(id)) <= logs[id] + Owed(id)
    BY <1>1, <2>1
  <2>4. logs'[id] \in Nat
    BY <1>1, <2>1
  <2> QED BY <2>1, <2>2, <2>3, <2>4, LoopReads
<1>8. ASSUME NEW p \in Participants, CommitParticipant(p) PROVE ReadsFit(id)'
  BY <1>8, CommitReads
<1>9. ASSUME (\E p \in Participants : FlushParticipant(p)) \/ UpdateRanks PROVE ReadsFit(id)'
  <2>1. /\ pc = "score" /\ pc' \in {"commit", "cursor"}
        /\ UNCHANGED <<stream, cursor, logs, batch, batchLast, todo, faults>>
    BY <1>9 DEF FlushParticipant, UpdateRanks, LoopDone, postgres
  <2>2. Copies(id)' = Copies(id) /\ Owed(id)' = Owed(id) /\ Repeats' = Repeats
    BY <2>1 DEF Owed, Copies, Pid, Repeats
  <2> QED BY <1>2, <2>1, <2>2 DEF ReadsFit, After
<1>10. ASSUME SetCursor PROVE ReadsFit(id)'
  <2>1. /\ pc = "cursor" /\ pc' = "publish" /\ cursor' = batchLast
        /\ UNCHANGED <<stream, logs, batch, batchLast, todo, faults>>
    BY <1>10 DEF SetCursor, postgres
  <2>2. Copies(id)' = Copies(id) /\ Owed(id)' = Owed(id) /\ Repeats' = Repeats
    BY <2>1 DEF Owed, Copies, Pid, Repeats
  <2>3. cursor <= batchLast /\ cursor \in Nat /\ batchLast \in Nat
    BY <2>1 DEF Core, CursorOrder, TypeOK
  <2>4. After(id, batchLast) <= After(id, cursor)
    BY <1>1, <2>3
  <2>5. /\ Copies(id) + After(id, batchLast) + After(id, batchLast) <= Repeats + 2
        /\ 2 * (logs[id] + Owed(id) + After(id, batchLast)) <= Bound(Repeats)
    BY <1>1, <1>2, <2>1, <2>4
  <2> QED BY <2>1, <2>2, <2>5 DEF ReadsFit, After
<1>11. ASSUME FinishFlush PROVE ReadsFit(id)'
  <2>1. /\ pc = "publish" /\ pc' = "idle" /\ pending' = <<>> /\ UNCHANGED <<cursor, logs, faults>>
    BY <1>11 DEF FinishFlush, ForgetBatch, postgres
  <2>2. Again(id)' = After(id, cursor) /\ Repeats' = Repeats
    <3>1. CopiesIn(pending, id)' = 0
      BY <2>1, FS_EmptySet DEF CopiesIn
    <3> QED BY <1>1, <2>1, <3>1 DEF Again, After, Repeats
  <2>3. /\ After(id, cursor) <= Repeats + 1
        /\ 2 * (logs[id] + After(id, cursor)) <= Bound(Repeats)
    <3>1. /\ Copies(id) + After(id, cursor) + After(id, batchLast) <= Repeats + 2
          /\ 2 * (logs[id] + Owed(id) + After(id, cursor)) <= Bound(Repeats)
      BY <1>2, <2>1
    <3>2. After(id, cursor) \in 0..1 /\ After(id, batchLast) \in 0..1 /\ Owed(id) \in Nat
      BY <1>1
    <3>3. After(id, cursor) <= Repeats + 1
      BY <1>1, <3>2
    <3> HIDE DEF Bound
    <3> QED BY <1>1, <3>1, <3>2, <3>3
  <2> QED BY <2>1, <2>2, <2>3 DEF ReadsFit
<1>12. ASSUME FailPostFlush PROVE ReadsFit(id)'
  <2>1. /\ pc # "idle" /\ pc' = "idle" /\ pending' = batch /\ pendingLast' = batchLast
        /\ UNCHANGED <<cursor, logs>> /\ Fault("postflush")
    BY <1>12 DEF FailPostFlush, LoopDone, ForgetBatch, postgres
  <2>2. Repeats' = Repeats + 1
    BY <2>1, FaultRepeats
  <2>3. Again(id)' <= Copies(id) + After(id, cursor) + After(id, batchLast) /\ Again(id)' \in Nat
    <3>1. CopiesIn(pending, id)' = Copies(id)
      BY <1>1, <2>1 DEF CopiesIn
    <3> QED BY <1>1, <2>1, <3>1 DEF Again, After
  <2>4. 2 * (logs[id] + Again(id)') <= Bound(Repeats + 1)
    BY <1>1, <1>2, <2>1, <2>3
  <2>5. Again(id)' <= Repeats + 1 + 1
    BY <1>1, <1>2, <2>1, <2>3
  <2> QED BY <2>1, <2>2, <2>4, <2>5 DEF ReadsFit
<1>13. ASSUME Crash PROVE ReadsFit(id)'
  <2>1. /\ pc' = "idle" /\ pending' = <<>> /\ UNCHANGED <<cursor, logs>> /\ Fault("crash")
    BY <1>13 DEF Crash, ForgetBatch, postgres
  <2>2. Repeats' = Repeats + 1
    BY <2>1, FaultRepeats
  <2>3. Again(id)' = After(id, cursor)
    <3>1. CopiesIn(pending, id)' = 0
      BY <2>1, FS_EmptySet DEF CopiesIn
    <3> QED BY <1>1, <2>1, <3>1 DEF Again, After
  <2>4. 2 * logs[id] <= Bound(Repeats)
    <3>1. CASE pc = "idle"
      <4>1. Again(id) >= 0 /\ Again(id) \in Int
        BY <1>1 DEF Again
      <4> QED BY <1>1, <1>2, <3>1, <4>1
    <3>2. CASE pc # "idle"
      BY <1>1, <1>2, <3>2
    <3> QED BY <3>1, <3>2
  <2>5. 2 * (logs[id] + Again(id)') <= Bound(Repeats + 1)
    BY <1>1, <2>3, <2>4
  <2>6. Again(id)' <= Repeats + 1 + 1
    BY <1>1, <2>3
  <2> QED BY <2>1, <2>2, <2>5, <2>6 DEF ReadsFit
<1>14. ASSUME EvictCursor \/ EvictStream PROVE ReadsFit(id)'
  <2>1. /\ UNCHANGED <<stream, logs, pc, pending, pendingLast, batch, batchLast, todo>>
        /\ Fault("evict")
    BY <1>14 DEF EvictCursor, EvictStream, postgres, memory
  <2>2. Repeats' = Repeats + 1
    BY <2>1, FaultRepeats
  <2>3. Copies(id)' = Copies(id) /\ Owed(id)' = Owed(id)
    BY <2>1 DEF Owed, Copies, Pid
  <2>4. Again(id)' <= Again(id) + 1 /\ Again(id) \in Nat /\ Again(id)' \in Nat
    BY <1>1, <2>1 DEF Again, CopiesIn, After
  <2>5. CASE pc = "idle"
    BY <1>1, <1>2, <2>1, <2>2, <2>4, <2>5 DEF ReadsFit
  <2>6. CASE pc # "idle"
    <3>1. After(id, cursor)' \in 0..1 /\ After(id, cursor) \in 0..1
      BY DEF After
    <3>2. Copies(id) + After(id, cursor)' + After(id, batchLast) <= Repeats + 1 + 2
      BY <1>1, <1>2, <2>6, <3>1
    <3>3. 2 * (logs[id] + Owed(id) + IF pc = "publish" THEN After(id, cursor)' ELSE After(id, batchLast))
            <= Bound(Repeats + 1)
      BY <1>1, <1>2, <2>6, <3>1
    <3> QED BY <2>1, <2>2, <2>3, <2>6, <3>2, <3>3 DEF ReadsFit, After
  <2> QED BY <2>5, <2>6
<1> QED
  BY <1>4, <1>5, <1>6, <1>7, <1>8, <1>9, <1>10, <1>11, <1>12, <1>13, <1>14
     DEF Next, Work, Failure, HandleParticipant

\* Before anything happened an event can be read once.
LEMMA InitReads == Init => Reads
<1> SUFFICES ASSUME Init, NEW id \in Ids PROVE ReadsFit(id)
  BY DEF Reads
<1>1. TypeOK
  BY InitType
<1>2. /\ pc = "idle" /\ pending = <<>> /\ logs[id] = 0 /\ Repeats = 0
  BY DEF Init, Repeats, FaultKinds
<1>3. Again(id) = After(id, cursor) /\ After(id, cursor) \in 0..1
  <2>1. CopiesIn(pending, id) = 0
    BY <1>2, FS_EmptySet DEF CopiesIn
  <2> QED BY <1>1, <1>2, <2>1, CountType DEF Again
<1>4. Bound(0) = 2
  BY DEF Bound
<1> QED BY <1>2, <1>3, <1>4 DEF ReadsFit

\* What is logged of an event is within the bound when what can still be logged is.
LEMMA ReadsBound == TypeOK /\ Reads => Amplification
<1> SUFFICES ASSUME TypeOK, Reads, NEW id \in Ids
             PROVE  2 * logs[id] <= (Repeats + 1) * (Repeats + 2)
  BY DEF Amplification
<1>1. /\ Owed(id) \in Nat /\ logs[id] \in Nat /\ CopiesIn(pending, id) \in Nat
      /\ \A n : After(id, n) \in 0..1 /\ Bound(Repeats) \in Nat
  BY CountType
<1>2. Again(id) \in Nat
  BY <1>1 DEF Again
<1>3. 2 * logs[id] <= Bound(Repeats)
  <2>1. CASE pc = "idle"
    BY <1>1, <1>2, <2>1 DEF Reads, ReadsFit
  <2>2. CASE pc # "idle"
    BY <1>1, <2>2 DEF Reads, ReadsFit
  <2> QED BY <2>1, <2>2
<1> QED BY <1>3 DEF Bound

\* No event is logged more often than 1 + 2 + ... + (F + 1) times, F the number of failed
\* tails, crashes and evictions so far: however they interleave with reads and commits.
THEOREM LoggedAtMost == Spec => []Amplification
<1>1. Init => Reads
  BY InitReads
<1>2. TypeOK /\ TypeOK' /\ Core /\ Reads /\ [Next]_vars => Reads'
  <2> SUFFICES ASSUME TypeOK, TypeOK', Core, Reads, [Next]_vars, NEW id \in Ids
               PROVE  ReadsFit(id)'
    BY DEF Reads, Ids
  <2>1. ReadsFit(id)
    BY DEF Reads
  <2> QED BY <2>1, ReadsStep
<1>3. IInv => TypeOK /\ Core
  BY DEF IInv, Core
<1>4. TypeOK /\ Reads => Amplification
  BY ReadsBound
<1> QED BY <1>1, <1>2, <1>3, <1>4, Inductive, PTL DEF Spec
=============================================================================

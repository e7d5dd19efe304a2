--------------------------- MODULE ScoringWorker ---------------------------
(***************************************************************************)
(* The scoring worker (src/backend/workers/scoring_worker.py): one process *)
(* that, every flush interval, reads the Redis stream of activity events   *)
(* past its cursor, credits each participant seen in the batch in a        *)
(* PostgreSQL transaction of its own, refreshes ranks and the leaderboard, *)
(* and only then advances the cursor.                                      *)
(*                                                                         *)
(* A stream entry is named by its position: the id of the n-th XADD is n.  *)
(* A credit is one flush interval: aggregate_events_by_participant always  *)
(* shares exactly one interval among the activities of a participant, so   *)
(* the score counts the intervals credited.                                *)
(***************************************************************************)
EXTENDS Naturals, Sequences, FiniteSets

CONSTANTS
  Participants,  \* participant ids the cameras put in events
  Malformed,     \* those that uuid.UUID() rejects
  MaxEvents,     \* bound: entries the cameras add to the stream
  ReadCount,     \* entries one XRANGE returns at most (10000 in the code)
  StreamMax,     \* MAXLEN of the stream (50000 in the code)
  Budget         \* bound: how many faults of each kind a behaviour has

FaultKinds == {"crash", "postflush", "sql", "evict"}

ASSUME ConstantsAssumption ==
  /\ Malformed \subseteq Participants
  /\ MaxEvents \in Nat
  /\ ReadCount \in Nat \ {0}
  /\ StreamMax \in Nat \ {0}
  /\ Budget \in [FaultKinds -> Nat]

VARIABLES
  \* Redis
  stream,       \* every event ever added, in order
  trimmed,      \* entries 1..trimmed are gone from the stream
  cursor,       \* scoring_last_id, 0 when the key is absent
  leaderboard,  \* the sorted set "leaderboard"
  liveScore,    \* field "score" of the hashes participant:{id}
  status,       \* field "status" of the worker's heartbeat
  \* PostgreSQL
  score,        \* scores.total_score, in flush intervals
  ranked,       \* the scores that scores.rank was last computed from
  logs,         \* activity_logs rows inserted for each event
  \* the worker's memory
  pc,           \* where _flush_once stands
  pending,      \* _pending_events
  pendingLast,  \* _pending_last_id
  batch,        \* the events of this flush
  batchLast,    \* the id the cursor moves to after this flush
  todo,         \* participants of the batch not yet handled
  processed,    \* processed_ids
  \* history
  dropped,      \* events given up with a message in the worker's log
  overrun,      \* events that left the stream while still past the cursor
  faults        \* faults of each kind so far

redis == <<stream, trimmed, overrun, cursor, leaderboard, liveScore, status>>
postgres == <<score, ranked, logs>>
memory == <<pc, pending, pendingLast, batch, batchLast, todo, processed>>
vars == <<redis, postgres, memory, dropped, faults>>

Ids == 1..MaxEvents
Event == [pid : Participants, inZone : BOOLEAN]
-----------------------------------------------------------------------------
Init ==
  /\ stream = <<>> /\ trimmed = 0 /\ cursor = 0
  /\ leaderboard = [p \in Participants |-> 0]
  /\ liveScore = [p \in Participants |-> 0]
  /\ status = "none"
  /\ score = [p \in Participants |-> 0]
  /\ ranked = [p \in Participants |-> 0]
  /\ logs = [id \in Ids |-> 0]
  /\ pc = "idle" /\ pending = <<>> /\ pendingLast = 0
  /\ batch = <<>> /\ batchLast = 0 /\ todo = {} /\ processed = <<>>
  /\ dropped = {} /\ overrun = {}
  /\ faults = [k \in FaultKinds |-> 0]

Fault(k) ==
  /\ faults[k] < Budget[k]
  /\ faults' = [faults EXCEPT ![k] = @ + 1]

(***************************************************************************)
(* A camera sees p: it appends an event, of a zone PostgreSQL knows or not *)
(* ("unassigned", or a name changed since), and then writes the score 0    *)
(* into p's hash.  MAXLEN is approximate: Redis may trim less than asked.  *)
(* Whether the worker has read what goes, nobody asks and nobody logs.     *)
(***************************************************************************)
PushEvent(p, inZone) ==
  /\ Len(stream) < MaxEvents
  /\ stream' = Append(stream, [pid |-> p, inZone |-> inZone])
  /\ \/ trimmed' = trimmed
     \/ /\ Len(stream) + 1 > StreamMax
        /\ trimmed' \in trimmed .. (Len(stream) + 1 - StreamMax)
  /\ overrun' = overrun \cup {id \in (trimmed + 1)..trimmed' : id > cursor}
  /\ liveScore' = [liveScore EXCEPT ![p] = 0]
  /\ UNCHANGED <<cursor, leaderboard, status, postgres, memory, dropped, faults>>
-----------------------------------------------------------------------------
(***************************************************************************)
(* _flush_once                                                             *)
(***************************************************************************)
FirstUnread == (IF cursor < trimmed THEN trimmed ELSE cursor) + 1

LastRead ==
  IF Len(stream) < FirstUnread + ReadCount
  THEN Len(stream) ELSE FirstUnread + ReadCount - 1

\* read_activity_events: the entries after the cursor, oldest first
NewEvents == [i \in 1..(LastRead + 1 - FirstUnread) |-> FirstUnread + i - 1]

NewLast == IF NewEvents = <<>> THEN cursor ELSE LastRead

NextBatch == pending \o NewEvents

NextBatchLast == IF pending = <<>> THEN NewLast ELSE pendingLast

\* Nothing to do: report a heartbeat and return.
FlushEmpty ==
  /\ pc = "idle"
  /\ NextBatch = <<>>
  /\ status' = "running"
  /\ UNCHANGED <<stream, trimmed, overrun, cursor, leaderboard, liveScore, postgres,
                 memory, dropped, faults>>

\* Slip: acknowledge the batch when it is read.
SlipAckFirst ==
  /\ pc = "idle" /\ NextBatch # <<>>
  /\ cursor' = NextBatchLast
  /\ pc' = "score" /\ batch' = NextBatch /\ batchLast' = NextBatchLast
  /\ todo' = {stream[NextBatch[i]].pid : i \in DOMAIN NextBatch}
  /\ processed' = <<>>
  /\ UNCHANGED <<stream, trimmed, overrun, leaderboard, liveScore, status, postgres,
                 pending, pendingLast, dropped, faults>>

\* Entries trimmed before they were read are passed over without a trace.
BeginFlush ==
  /\ pc = "idle"
  /\ NextBatch # <<>>
  /\ pc' = "score"
  /\ batch' = NextBatch
  /\ batchLast' = NextBatchLast
  /\ todo' = {stream[NextBatch[i]].pid : i \in DOMAIN NextBatch}
  /\ processed' = <<>>
  /\ UNCHANGED <<redis, postgres, pending, pendingLast, dropped, faults>>

Pid(i) == stream[batch[i]].pid

\* The loop follows the order in which participants first occur in the batch.
IsNext(p) ==
  \E i \in DOMAIN batch :
    /\ Pid(i) = p /\ p \in todo
    /\ \A j \in 1..(i - 1) : Pid(j) \notin todo

EventsOf(p) == {batch[i] : i \in {j \in DOMAIN batch : Pid(j) = p}}

Copies(id) == Cardinality({i \in DOMAIN batch : batch[i] = id})

\* uuid.UUID raises ValueError: count an error and go on.
SkipMalformed(p) ==
  /\ pc = "score" /\ IsNext(p)
  /\ p \in Malformed
  /\ todo' = todo \ {p}
  /\ dropped' = dropped \cup EventsOf(p)
  /\ UNCHANGED <<redis, postgres, pc, pending, pendingLast, batch, batchLast,
                 processed, faults>>

\* A SQLAlchemyError before the hash is written: roll back, go on.
RejectParticipant(p) ==
  /\ pc = "score" /\ IsNext(p)
  /\ p \notin Malformed
  /\ Fault("sql")
  /\ todo' = todo \ {p}
  /\ dropped' = dropped \cup EventsOf(p)
  /\ UNCHANGED <<redis, postgres, pc, pending, pendingLast, batch, batchLast,
                 processed>>

\* session.flush(), then the hash gets the total the transaction would commit.
FlushParticipant(p) ==
  /\ pc = "score" /\ IsNext(p)
  /\ p \notin Malformed
  /\ liveScore' = [liveScore EXCEPT ![p] = score[p] + 1]
  /\ pc' = "commit"
  /\ UNCHANGED <<stream, trimmed, overrun, cursor, leaderboard, status, postgres, pending,
                 pendingLast, batch, batchLast, todo, processed, dropped, faults>>

\* The transaction commits: one credit, one row per occurrence of an event of a
\* known zone; events of unknown zones leave only a warning.
CommitParticipant(p) ==
  /\ pc = "commit" /\ IsNext(p)
  /\ score' = [score EXCEPT ![p] = @ + 1]
  /\ logs' = [id \in Ids |->
                IF id \in EventsOf(p) /\ stream[id].inZone
                THEN logs[id] + Copies(id) ELSE logs[id]]
  /\ dropped' = dropped \cup {id \in EventsOf(p) : ~stream[id].inZone}
  /\ processed' = Append(processed, p)
  /\ todo' = todo \ {p}
  /\ pc' = "score"
  /\ UNCHANGED <<redis, ranked, pending, pendingLast, batch, batchLast, faults>>

\* COMMIT raises a SQLAlchemyError, after the hash was written.
FailCommit(p) ==
  /\ pc = "commit" /\ IsNext(p)
  /\ Fault("sql")
  /\ dropped' = dropped \cup EventsOf(p)
  /\ todo' = todo \ {p}
  /\ pc' = "score"
  /\ UNCHANGED <<redis, postgres, pending, pendingLast, batch, batchLast, processed>>
-----------------------------------------------------------------------------
(***************************************************************************)
(* The tail of _flush_once, after the loop                                 *)
(***************************************************************************)
LoopDone == pc = "score" /\ todo = {}

\* Slip: the last participant is left out.
SlipZaddButLast(n) ==
  [p \in Participants |->
     IF \E i \in 1..(n - 1) : processed[i] = p THEN score[p] ELSE leaderboard[p]]

\* The leaderboard after ZADD of the first n processed participants.
Zadd(n) ==
  [p \in Participants |->
     IF \E i \in 1..n : processed[i] = p THEN score[p] ELSE leaderboard[p]]

ForgetBatch ==
  /\ pc' = "idle"
  /\ batch' = <<>> /\ batchLast' = 0 /\ todo' = {} /\ processed' = <<>>

\* Slip: return early when nobody was processed.
SlipSkipIfNobody ==
  /\ LoopDone
  /\ IF processed = <<>>
     THEN ForgetBatch /\ UNCHANGED <<ranked, leaderboard>>
     ELSE /\ ranked' = score /\ leaderboard' = Zadd(Len(processed))
          /\ pc' = "cursor" /\ UNCHANGED <<batch, batchLast, todo, processed>>
  /\ UNCHANGED <<stream, trimmed, overrun, cursor, liveScore, status, score, logs, pending,
                 pendingLast, dropped, faults>>

UpdateRanks ==
  /\ LoopDone
  /\ ranked' = score
  /\ leaderboard' = Zadd(Len(processed))
  /\ pc' = "cursor"
  /\ UNCHANGED <<stream, trimmed, overrun, cursor, liveScore, status, score, logs, pending,
                 pendingLast, batch, batchLast, todo, processed, dropped, faults>>

\* Slip: acknowledge the last entry of the stream rather than the last one read.
SlipAckNewest ==
  /\ pc = "cursor"
  /\ cursor' = Len(stream)
  /\ pc' = "publish"
  /\ UNCHANGED <<stream, trimmed, overrun, leaderboard, liveScore, status, postgres, pending,
                 pendingLast, batch, batchLast, todo, processed, dropped, faults>>

SetCursor ==
  /\ pc = "cursor"
  /\ cursor' = batchLast
  /\ pc' = "publish"
  /\ UNCHANGED <<stream, trimmed, overrun, leaderboard, liveScore, status, postgres, pending,
                 pendingLast, batch, batchLast, todo, processed, dropped, faults>>

\* Slip: the pending events are not cleared.
SlipKeepPending ==
  /\ pc = "publish"
  /\ status' = "running"
  /\ ForgetBatch
  /\ UNCHANGED <<stream, trimmed, overrun, cursor, leaderboard, liveScore, postgres,
                 pending, pendingLast, dropped, faults>>

\* Publish scores_updated, clear the pending events, report a heartbeat.
FinishFlush ==
  /\ pc = "publish"
  /\ pending' = <<>> /\ pendingLast' = 0
  /\ status' = "running"
  /\ ForgetBatch
  /\ UNCHANGED <<stream, trimmed, overrun, cursor, leaderboard, liveScore, postgres,
                 dropped, faults>>

\* Any exception of the tail: keep the batch for the next flush.
FailPostFlush ==
  /\ LoopDone \/ pc \in {"cursor", "publish"}
  /\ Fault("postflush")
  /\ \E n \in 0..(IF LoopDone THEN Len(processed) ELSE 0) : leaderboard' = Zadd(n)
  /\ pending' = batch /\ pendingLast' = batchLast
  /\ status' = "error"
  /\ ForgetBatch
  /\ UNCHANGED <<stream, trimmed, overrun, cursor, liveScore, postgres, dropped>>
-----------------------------------------------------------------------------
\* The process dies (an exception nobody catches, SIGKILL, or SIGTERM between
\* flushes) and Docker starts it again with an empty memory.
Crash ==
  /\ Fault("crash")
  /\ \E n \in 0..(IF LoopDone THEN Len(processed) ELSE 0) : leaderboard' = Zadd(n)
  /\ pending' = <<>> /\ pendingLast' = 0
  /\ ForgetBatch
  /\ UNCHANGED <<stream, trimmed, overrun, cursor, liveScore, status, postgres, dropped>>

\* Redis runs with maxmemory-policy allkeys-lru: it may evict the cursor's key.
EvictCursor ==
  /\ Fault("evict")
  /\ cursor > 0
  /\ cursor' = 0
  /\ UNCHANGED <<stream, trimmed, overrun, leaderboard, liveScore, status, postgres, memory,
                 dropped>>

\* So it may the stream, read or not; the next XADD begins it anew.
EvictStream ==
  /\ Fault("evict")
  /\ trimmed < Len(stream)
  /\ trimmed' = Len(stream)
  /\ overrun' = overrun \cup {id \in (trimmed + 1)..Len(stream) : id > cursor}
  /\ UNCHANGED <<stream, cursor, leaderboard, liveScore, status, postgres, memory,
                 dropped>>

HandleParticipant(p) ==
  \/ SkipMalformed(p)
  \/ FlushParticipant(p)
  \/ CommitParticipant(p)

Work ==
  \/ FlushEmpty
  \/ BeginFlush
  \/ \E p \in Participants : HandleParticipant(p)
  \/ UpdateRanks
  \/ SetCursor
  \/ FinishFlush

Failure ==
  \/ \E p \in Participants : RejectParticipant(p) \/ FailCommit(p)
  \/ FailPostFlush
  \/ Crash
  \/ EvictCursor
  \/ EvictStream

Next ==
  \/ \E p \in Participants, z \in BOOLEAN : PushEvent(p, z)
  \/ Work
  \/ Failure

Spec == Init /\ [][Next]_vars

\* The worker's only thread keeps running and is restarted when it dies.
FairSpec == Spec /\ WF_vars(Work)
-----------------------------------------------------------------------------
(***************************************************************************)
(* Properties                                                              *)
(***************************************************************************)

\* Every variable keeps its type; ids of the worker's memory name entries of the
\* stream, and the worker's program counter is one of its five resting points.
TypeOK ==
  /\ stream \in Seq(Event) /\ Len(stream) <= MaxEvents
  /\ trimmed \in 0..Len(stream) /\ cursor \in 0..Len(stream)
  /\ leaderboard \in [Participants -> Nat]
  /\ liveScore \in [Participants -> Nat]
  /\ status \in {"none", "running", "error"}
  /\ score \in [Participants -> Nat] /\ ranked \in [Participants -> Nat]
  /\ logs \in [Ids -> Nat]
  /\ pc \in {"idle", "score", "commit", "cursor", "publish"}
  /\ pending \in Seq(1..Len(stream)) /\ pendingLast \in 0..Len(stream)
  /\ batch \in Seq(1..Len(stream)) /\ batchLast \in 0..Len(stream)
  /\ todo \subseteq Participants
  /\ processed \in Seq(Participants)
  /\ dropped \subseteq 1..Len(stream) /\ overrun \subseteq 1..trimmed
  /\ faults \in [FaultKinds -> Nat]

Settled(id) == logs[id] > 0 \/ id \in dropped

Accounted(id) == Settled(id) \/ id \in overrun

\* Behind the cursor, every event was logged in PostgreSQL, given up with a message,
\* or had left the stream before the worker acknowledged it: no event the worker
\* could still read is passed over, not across a failed tail with newer events in
\* the stream, not across a crash between two participants, not across an eviction.
NoSilentLoss == \A id \in 1..cursor : Accounted(id)

\* The same of what a failed tail will move the cursor to.  The events it keeps to
\* retry were handled once already, each of them: trimming does not touch what is
\* in memory, and what is kept back is only ever repeated, never still owed.
PendingIsSettled ==
  pending # <<>> =>
    /\ \A id \in 1..pendingLast : Accounted(id)
    /\ \A i \in DOMAIN pending : Settled(pending[i])

\* What left the stream was accounted for, or was noted in overrun as it left.
TrimmedAccounted == \A id \in 1..trimmed : Accounted(id)

\* While a flush runs, every event the cursor is about to pass is accounted for, or
\* is in the batch; and an event of the batch is handled, or is that of a
\* participant whose turn is still to come.
BatchCovers ==
  pc # "idle" =>
    /\ \A id \in 1..batchLast : Accounted(id) \/ \E i \in DOMAIN batch : batch[i] = id
    /\ \A i \in DOMAIN batch : Settled(batch[i]) \/ Pid(i) \in todo

\* The id the cursor will move to never lies before the cursor.
CursorOrder ==
  /\ pc # "idle" => cursor <= batchLast
  /\ pending # <<>> => cursor <= pendingLast
  /\ (pc # "idle" /\ pending # <<>>) => batchLast = pendingLast

TailAfterLoop == pc \in {"cursor", "publish"} => todo = {}

\* The inductive invariant behind NoSilentLoss and CursorNeverBack.
IInv ==
  /\ TypeOK
  /\ NoSilentLoss
  /\ PendingIsSettled
  /\ TrimmedAccounted
  /\ BatchCovers
  /\ CursorOrder
  /\ TailAfterLoop

\* The worker never moves its cursor backwards, although after a failed tail it
\* stores the id remembered with the pending events rather than the last id read.
CursorNeverBack == [][cursor' >= cursor \/ cursor' = 0]_vars

Repeats == faults["crash"] + faults["postflush"] + faults["evict"]

\* How often one event can be logged: once without faults, and with F failed
\* tails, crashes and evictions at most 1 + 2 + ... + (F + 1) times, because a
\* batch that is kept back is read from the stream again on top.
Amplification == \A id \in Ids : 2 * logs[id] <= (Repeats + 1) * (Repeats + 2)

CaughtUp == pc = "idle" /\ pending = <<>> /\ cursor = Len(stream)

\* However a flush failed on the way, once the worker has caught up the leaderboard
\* and the ranks are those of the committed scores, as long as failed tails and
\* crashes do not come together: a crash forgets the pending events, and when the
\* failed tail had already moved the cursor nobody reads them again.  (Likewise a
\* participant refused by the database leaves processed_ids, and a trimmed event
\* is never read again.)
LeaderboardAgrees ==
  (/\ CaughtUp
   /\ faults["crash"] = 0 \/ faults["postflush"] = 0
   /\ faults["sql"] = 0 /\ trimmed = 0)
  => leaderboard = score /\ ranked = score

\* Every event added to the stream is in the end behind the cursor, or has left
\* the stream.
EventuallyAcked ==
  \A id \in Ids : id <= Len(stream) ~> id <= cursor \/ id <= trimmed

\* The worker and the stream implement the ledger: at least once for every event
\* that does not leave the stream unacknowledged, and only two things make an event
\* do so: StreamMax newer ones, or the eviction of the whole stream.
Ledger == INSTANCE ActivityLedger WITH
  Max <- MaxEvents,
  Keep <- StreamMax,
  published <- Len(stream),
  settled <- {id \in Ids : Settled(id)},
  expired <- overrun,
  acked <- cursor

AtLeastOnce == Ledger!LedgerSpec
=============================================================================

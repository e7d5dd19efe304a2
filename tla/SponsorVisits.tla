--------------------------- MODULE SponsorVisits ---------------------------
(***************************************************************************)
(* Sponsor booth visits.  Cameras append entry and exit events to          *)
(* sponsor_stream; before each activity flush the scoring worker applies   *)
(* them to participant_sponsor_visits in one transaction, closes visits    *)
(* that look abandoned, rewrites the hourly engagement rows, commits, and  *)
(* then advances its cursor (process_sponsor_events, called from           *)
(* _flush_sponsor_stream).                                                 *)
(*                                                                         *)
(* The session does not autoflush, so a transaction has two views of the   *)
(* visits: the objects in memory (session) and the rows a SELECT filters   *)
(* on (rows).  They meet whenever something calls session.flush().         *)
(***************************************************************************)
EXTENDS Naturals, Sequences, FiniteSets

CONSTANTS
  Participants,  \* participants the face index knows
  Orphans,       \* those PostgreSQL does not know (registration not committed)
  Sponsors,      \* sponsor ids of the entrance lines
  Malformed,     \* those that uuid.UUID() rejects
  Boothless,     \* sponsors without a booth zone
  ReadCount,     \* entries one XRANGE returns at most (10000 in the code)
  Timeout,       \* AUTO_CLOSE_MINUTES
  HourLength,    \* ticks in an hour
  Closing,       \* bound: cameras see nobody from this time on
  MaxTime,       \* bound: the clock stops
  MaxEvents,     \* bound: entries of the stream, below its MAXLEN and never evicted
  Budget         \* bound: how many faults of each kind a behaviour has

FaultKinds == {"crash", "sql", "evict"}

ASSUME ConstantsAssumption ==
  /\ Orphans \subseteq Participants
  /\ Malformed \subseteq Sponsors /\ Boothless \subseteq Sponsors
  /\ ReadCount \in Nat \ {0} /\ HourLength \in Nat \ {0}
  /\ Timeout \in Nat /\ Closing \in Nat /\ MaxTime \in Nat \ {0} /\ MaxEvents \in Nat
  /\ Budget \in [FaultKinds -> Nat]

VARIABLES
  clock,       \* time of day, from 1
  stream,      \* sponsor_stream
  cursor,      \* sponsor_last_id, 0 when absent
  seen,        \* time of the last booth-zone event in activity_stream, 0 if none
  \* PostgreSQL, committed
  visits,      \* participant_sponsor_visits in insertion order
  engagement,  \* sponsor_engagement.total_visits by sponsor and hour, 0 without row
  logged,      \* time of the last booth-zone row of activity_logs, 0 if none
  \* the worker's memory
  pc,          \* where the flush stands
  next,        \* the next event to apply
  last,        \* the last event of this flush
  found,       \* how many events the read returned
  now,         \* the time process_sponsor_events took when it began
  session,     \* visits as the session's objects
  rows,        \* visits as flushed to the open transaction
  store,       \* HourlyBucket by sponsor and hour
  faults       \* history: faults of each kind so far

external == <<clock, stream, seen>>
committed == <<visits, engagement, logged>>
work == <<next, last, found, now, session, rows, store>>
vars == <<external, cursor, committed, pc, work, faults>>

Open == 0
Hour(t) == t \div HourLength
Hours == {Hour(t) : t \in 0..MaxTime}
Buckets == Sponsors \X Hours
Kinds == {"sponsor_entry", "sponsor_exit"}
Event == [kind : Kinds, pid : Participants, sponsor : Sponsors, at : 1..MaxTime]
Visit == [pid : Participants, sponsor : Sponsors, entered : 1..MaxTime,
          exited : 0..MaxTime, number : Nat \ {0}]
NoBuckets == [b \in Buckets |-> [entries |-> 0, dwells |-> 0]]
-----------------------------------------------------------------------------
Init ==
  /\ clock = 1 /\ stream = <<>> /\ cursor = 0
  /\ seen = [x \in Participants \X Sponsors |-> 0]
  /\ visits = <<>>
  /\ engagement = [b \in Buckets |-> 0]
  /\ logged = [x \in Participants \X Sponsors |-> 0]
  /\ pc = "idle"
  /\ next = 0 /\ last = 0 /\ found = 0 /\ now = 0
  /\ session = <<>> /\ rows = <<>> /\ store = NoBuckets
  /\ faults = [k \in FaultKinds |-> 0]

Tick ==
  /\ clock < MaxTime
  /\ clock' = clock + 1
  /\ UNCHANGED <<stream, seen, cursor, committed, pc, work, faults>>

\* An identified participant crosses a sponsor's entrance line.
CrossLine(kind, p, s) ==
  /\ clock < Closing /\ Len(stream) < MaxEvents
  /\ stream' = Append(stream, [kind |-> kind, pid |-> p, sponsor |-> s, at |-> clock])
  /\ UNCHANGED <<clock, seen, cursor, committed, pc, work, faults>>

\* A camera sees a participant in the booth zone of a sponsor.
SeeInBooth(p, s) ==
  /\ clock < Closing /\ s \notin Boothless
  /\ seen[<<p, s>>] < clock
  /\ seen' = [seen EXCEPT ![<<p, s>>] = clock]
  /\ UNCHANGED <<clock, stream, cursor, committed, pc, work, faults>>
-----------------------------------------------------------------------------
(***************************************************************************)
(* _flush_sponsor_stream                                                   *)
(***************************************************************************)
ForgetSession ==
  /\ next' = 0 /\ last' = 0 /\ found' = 0 /\ now' = 0
  /\ session' = <<>> /\ rows' = <<>> /\ store' = NoBuckets

\* read_sponsor_events: so many entries past the cursor.
LastRead == IF Len(stream) < cursor + ReadCount THEN Len(stream) ELSE cursor + ReadCount

\* Read past the cursor and open a session; the sweep runs even without events.
BeginFlush ==
  /\ pc = "idle"
  /\ pc' = "apply"
  /\ next' = cursor + 1
  /\ last' = LastRead /\ found' = LastRead - cursor
  /\ now' = clock
  /\ session' = visits /\ rows' = visits /\ store' = NoBuckets
  /\ UNCHANGED <<external, cursor, committed, faults>>

Current == stream[next]
Applying == pc = "apply" /\ next <= last
Advance == next' = next + 1

\* close_sponsor_visit, and auto_close_visit with the time of the sweep.
Closed(v, t) == [v EXCEPT !.exited = t]

SameVisitor(v, e) == v.pid = e.pid /\ v.sponsor = e.sponsor

\* count_completed_visits: a SELECT, blind to closes that were not flushed.
CompletedVisits(e) ==
  Cardinality({i \in DOMAIN rows : SameVisitor(rows[i], e) /\ rows[i].exited # Open})

\* Slip: the visit is looked up whether or not it is closed.
SlipAnyVisit(e) == {i \in DOMAIN rows : SameVisitor(rows[i], e)}

OpenVisits(e) == {i \in DOMAIN rows : SameVisitor(rows[i], e) /\ rows[i].exited = Open}

\* get_open_sponsor_visit: ORDER BY entered_at DESC LIMIT 1; PostgreSQL may
\* return any of the visits entered at the same time.
MostRecent(e) ==
  {i \in OpenVisits(e) : \A j \in OpenVisits(e) : rows[j].entered <= rows[i].entered}

\* parse_sponsor_event raises ValueError: skip the event.
SkipInvalid ==
  /\ Applying /\ Current.sponsor \in Malformed
  /\ Advance
  /\ UNCHANGED <<external, cursor, committed, pc, last, found, now, session, rows, store, faults>>

\* _merge_into_store of what process_entry and process_exit count.
CountEntry(e) == [store EXCEPT ![<<e.sponsor, Hour(e.at)>>].entries = @ + 1]
CountDwell(s, t) == [store EXCEPT ![<<s, Hour(t)>>].dwells = @ + 1]

\* Insert an open visit and flush the session, unflushed closes included.
ApplyEntry ==
  /\ Applying /\ Current.kind = "sponsor_entry"
  /\ Current.sponsor \notin Malformed /\ Current.pid \notin Orphans
  /\ session' = Append(session, [pid |-> Current.pid, sponsor |-> Current.sponsor,
                                 entered |-> Current.at, exited |-> Open,
                                 number |-> CompletedVisits(Current) + 1])
  /\ rows' = session'
  /\ store' = CountEntry(Current)
  /\ Advance
  /\ UNCHANGED <<external, cursor, committed, pc, last, found, now, faults>>

\* Close the visit's object; nothing is flushed yet.
ApplyExit ==
  /\ Applying /\ Current.kind = "sponsor_exit"
  /\ Current.sponsor \notin Malformed
  /\ \E i \in MostRecent(Current) : session' = [session EXCEPT ![i] = Closed(@, Current.at)]
  /\ store' = CountDwell(Current.sponsor, Current.at)
  /\ Advance
  /\ UNCHANGED <<external, cursor, committed, pc, last, found, now, rows, faults>>

\* An exit without an open visit leaves a warning.
IgnoreExit ==
  /\ Applying /\ Current.kind = "sponsor_exit"
  /\ Current.sponsor \notin Malformed
  /\ OpenVisits(Current) = {}
  /\ Advance
  /\ UNCHANGED <<external, cursor, committed, pc, last, found, now, session, rows, store, faults>>

-----------------------------------------------------------------------------
(***************************************************************************)
(* The auto-close sweep, the commit and what follows                       *)
(***************************************************************************)
LastActivity(v) == IF v.sponsor \in Boothless THEN 0 ELSE logged[<<v.pid, v.sponsor>>]

\* Slip: a visitor without any activity is never timed out.
SlipNeedsActivity(v) ==
  /\ v.entered + Timeout <= now
  /\ LastActivity(v) # 0 /\ LastActivity(v) + Timeout <= now

ShouldAutoClose(v) ==
  /\ v.entered + Timeout <= now
  /\ LastActivity(v) # 0 => LastActivity(v) + Timeout <= now

\* list_open_sponsor_visits, after _persist_hourly_engagement flushed the session
\* (which it does only if some bucket was touched).
Listed ==
  LET flushed == IF store = NoBuckets THEN rows ELSE session IN
  {i \in DOMAIN flushed : flushed[i].exited = Open}

Stale == {i \in Listed : ShouldAutoClose(session[i])}

\* auto_close_visit, and the bucket of the hour of the sweep with its dwell.
AutoClose(i) == IF i \in Stale THEN Closed(session[i], now) ELSE session[i]
MergeAutoClosed(b) ==
  [store[b] EXCEPT !.dwells =
     IF b[2] = Hour(now) THEN @ + Cardinality({i \in Stale : session[i].sponsor = b[1]}) ELSE @]

\* Slip: the dwell of an auto-closed visit is not merged into the hourly buckets.
SlipSweepNoMerge ==
  /\ pc = "apply" /\ next > last
  /\ pc' = "commit"
  /\ session' = [i \in DOMAIN session |-> AutoClose(i)]
  /\ rows' = session'
  /\ UNCHANGED <<external, cursor, committed, next, last, found, now, store, faults>>

Sweep ==
  /\ pc = "apply" /\ next > last
  /\ pc' = "commit"
  /\ session' = [i \in DOMAIN session |-> AutoClose(i)]
  /\ store' = [b \in Buckets |-> MergeAutoClosed(b)]
  /\ rows' = session'
  /\ UNCHANGED <<external, cursor, committed, next, last, found, now, faults>>

\* hourly_to_engagement_row: total_visits
TotalVisits(bucket) == IF bucket.entries > 0 THEN bucket.entries ELSE bucket.dwells

\* The engagement rows of the hours this flush touched are overwritten.
Commit ==
  /\ pc = "commit"
  /\ visits' = session
  /\ engagement' = [b \in Buckets |->
                      IF TotalVisits(store[b]) > 0 THEN TotalVisits(store[b]) ELSE engagement[b]]
  /\ pc' = "cursor"
  /\ UNCHANGED <<external, cursor, logged, work, faults>>

\* Slip: only if some event was applied.
SlipIfProcessed ==
  /\ pc = "cursor"
  /\ cursor' = IF store # NoBuckets THEN last ELSE cursor
  /\ pc' = "activity" /\ ForgetSession
  /\ UNCHANGED <<external, committed, faults>>

SetCursor ==
  /\ pc = "cursor"
  /\ cursor' = IF found > 0 THEN last ELSE cursor
  /\ pc' = "activity" /\ ForgetSession
  /\ UNCHANGED <<external, committed, faults>>

\* The rest of _flush_once logs the activity events (module ScoringWorker): only
\* the next sweep sees them.  A foreign key keeps the orphans out of activity_logs.
FlushActivities ==
  /\ pc = "activity"
  /\ logged' = [x \in DOMAIN seen |-> IF x[1] \in Orphans THEN 0 ELSE seen[x]]
  /\ pc' = "idle"
  /\ UNCHANGED <<external, cursor, visits, engagement, work, faults>>
-----------------------------------------------------------------------------
Fault(k) ==
  /\ faults[k] < Budget[k]
  /\ faults' = [faults EXCEPT ![k] = @ + 1]

\* The foreign key of an orphan's visit fails: roll everything back.
RejectOrphan ==
  /\ Applying /\ Current.kind = "sponsor_entry"
  /\ Current.sponsor \notin Malformed /\ Current.pid \in Orphans
  /\ pc' = "activity" /\ ForgetSession
  /\ UNCHANGED <<external, cursor, committed, faults>>

\* Slips: the failed transaction is committed; the cursor moves all the same.
SlipCommitAnyway ==
  /\ pc \in {"apply", "commit"} /\ Fault("sql")
  /\ visits' = session
  /\ engagement' = [b \in Buckets |->
                      IF TotalVisits(store[b]) > 0 THEN TotalVisits(store[b]) ELSE engagement[b]]
  /\ pc' = "activity" /\ ForgetSession
  /\ UNCHANGED <<external, cursor, logged>>

SlipAckAnyway ==
  /\ pc \in {"apply", "commit"} /\ Fault("sql")
  /\ cursor' = last
  /\ pc' = "activity" /\ ForgetSession
  /\ UNCHANGED <<external, committed>>

\* Any other SQLAlchemyError of the transaction: roll back; the cursor stays.
FailSql ==
  /\ pc \in {"apply", "commit"} /\ Fault("sql")
  /\ pc' = "activity" /\ ForgetSession
  /\ UNCHANGED <<external, cursor, committed>>

\* The process dies, and Docker starts it again.
Crash ==
  /\ pc # "idle" /\ Fault("crash")
  /\ pc' = "idle" /\ ForgetSession
  /\ UNCHANGED <<external, cursor, committed>>

\* Redis runs with maxmemory-policy allkeys-lru: it may evict sponsor_last_id, between
\* flushes or in the middle of one.
EvictCursor ==
  /\ cursor > 0 /\ Fault("evict")
  /\ cursor' = 0
  /\ UNCHANGED <<external, committed, pc, work>>

Work ==
  \/ BeginFlush
  \/ SkipInvalid \/ ApplyEntry \/ ApplyExit \/ IgnoreExit \/ RejectOrphan
  \/ Sweep \/ Commit \/ SetCursor \/ FlushActivities

Next ==
  \/ Tick
  \/ \E p \in Participants, s \in Sponsors :
       (\E kind \in Kinds : CrossLine(kind, p, s)) \/ SeeInBooth(p, s)
  \/ Work
  \/ FailSql \/ Crash \/ EvictCursor

Spec == Init /\ [][Next]_vars

\* The worker's loop runs and is restarted when it dies; time passes.
FairSpec == Spec /\ WF_vars(Work) /\ WF_vars(Tick)
-----------------------------------------------------------------------------
(***************************************************************************)
(* Properties                                                              *)
(***************************************************************************)

\* Every variable keeps its type; the session and the flushed rows always hold the
\* same number of visits, and the batch lies inside the stream.
TypeOK ==
  /\ clock \in 1..MaxTime
  /\ stream \in Seq(Event) /\ cursor \in 0..Len(stream)
  /\ seen \in [Participants \X Sponsors -> 0..clock]
  /\ logged \in [Participants \X Sponsors -> 0..clock]
  /\ visits \in Seq(Visit) /\ session \in Seq(Visit) /\ rows \in Seq(Visit)
  /\ Len(rows) = Len(session)
  /\ engagement \in [Buckets -> Nat]
  /\ pc \in {"idle", "apply", "commit", "cursor", "activity"}
  /\ next \in 0..(Len(stream) + 1) /\ last \in 0..Len(stream) /\ found \in Nat /\ now \in 0..clock
  /\ store \in [Buckets -> [entries : Nat, dwells : Nat]]
  /\ faults \in [FaultKinds -> Nat]

\* A committed visit never disappears or changes visitor, entry time or number, and
\* once it is closed nothing reopens it or closes it again, whatever late, repeated
\* or replayed exits the stream still holds.
ClosedIsFinal ==
  [][\A i \in DOMAIN visits :
       /\ i \in DOMAIN visits'
       /\ visits'[i] = [visits[i] EXCEPT !.exited = visits'[i].exited]
       /\ visits[i].exited # Open => visits'[i] = visits[i]]_vars

Valid(e) == e.sponsor \notin Malformed

\* Every valid entry event the cursor has passed left a visit in PostgreSQL, although
\* transactions roll back half way and the process dies between commit and cursor.
EntriesKept ==
  \A k \in 1..cursor :
    (stream[k].kind = "sponsor_entry" /\ Valid(stream[k])) =>
      \E i \in DOMAIN visits : SameVisitor(visits[i], stream[k]) /\ visits[i].entered = stream[k].at

\* Every hour in which a committed visit was entered or left has an engagement row:
\* the visits and the hourly aggregates are committed together or not at all.
HoursHaveRows ==
  \A i \in DOMAIN visits :
    LET v == visits[i] IN
    /\ engagement[<<v.sponsor, Hour(v.entered)>>] > 0
    /\ v.exited # Open => engagement[<<v.sponsor, Hour(v.exited)>>] > 0

\* As long as nothing makes the worker read the stream again, a crash before the
\* cursor moved or an eviction of the cursor's key, no visit ends before it began (the
\* code hides such a visit as one of 0 seconds), whichever transactions fail.  A
\* batch that is replayed can close a newer visit with an exit that preceded it.
ExitAfterEntry ==
  faults["crash"] = 0 /\ faults["evict"] = 0 =>
    \A i \in DOMAIN visits : visits[i].exited # Open => visits[i].entered <= visits[i].exited

\* Every event of the stream is in the end behind the cursor.
EventuallyApplied == \A k \in 1..MaxEvents : k <= Len(stream) ~> k <= cursor

\* No visit stays open for ever: when the exit was missed, the sweep closes the visit
\* once the visitor is gone from the booth zone.  After closing time every visit comes
\* to be closed for good, through crashes, rollbacks and the visits that a stream read
\* again from its beginning opens once more.
EventuallyClosed == <>[](\A i \in DOMAIN visits : visits[i].exited # Open)
=============================================================================

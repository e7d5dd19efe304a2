------------------------- MODULE SponsorVisitsProofs -------------------------
(***************************************************************************)
(* For any participants, sponsors, batches, hours and faults: types, that  *)
(* an acknowledged entry keeps its visit, that visits and hourly rows are  *)
(* committed together, and that a closed visit stays as it is.  The        *)
(* invariant follows the open transaction: what it has done so far of the  *)
(* batch, and that it never touches a visit that was closed before.        *)
(***************************************************************************)
EXTENDS SponsorVisits, FiniteSetTheorems, TLAPS

-----------------------------------------------------------------------------
(***************************************************************************)
(* The inductive invariant                                                 *)
(***************************************************************************)
InTransaction == pc \in {"apply", "commit"}

\* The batch lies between the cursor and the end of the stream.
BatchFits ==
  /\ pc \in {"apply", "commit", "cursor"} => cursor <= last
  /\ pc = "apply" => next \in (cursor + 1)..(last + 1)

\* w is v with visits added and open visits closed.
Extends(v, w) ==
  \A i \in DOMAIN v :
    /\ i \in DOMAIN w /\ w[i] = [v[i] EXCEPT !.exited = w[i].exited]
    /\ v[i].exited # Open => w[i] = v[i]

\* Both views of the transaction extend what is committed, and are of the same visits.
ViewsExtend ==
  InTransaction =>
    /\ Extends(visits, session) /\ Extends(visits, rows)
    /\ \A i \in DOMAIN rows : session[i].sponsor = rows[i].sponsor

\* The valid entries up to k have left their visits in v.
Kept(v, k) ==
  \A j \in 1..k : stream[j].kind = "sponsor_entry" /\ Valid(stream[j]) =>
    \E i \in DOMAIN v : SameVisitor(v[i], stream[j]) /\ v[i].entered = stream[j].at

\* What the flush has got through is in its session, and then in the table.
BatchKept ==
  /\ pc = "apply" => Kept(session, next - 1)
  /\ pc = "commit" => Kept(session, last)
  /\ pc = "cursor" => Kept(visits, last)

\* The sponsor's hour has a row, or will get one from the buckets of the flush.
HourCovered(table, buckets, s, h) ==
  table[<<s, h>>] > 0 \/ buckets[<<s, h>>].entries > 0 \/ buckets[<<s, h>>].dwells > 0
Covered(table, buckets, v) ==
  /\ HourCovered(table, buckets, v.sponsor, Hour(v.entered))
  /\ v.exited # Open => HourCovered(table, buckets, v.sponsor, Hour(v.exited))
HoursCovered ==
  InTransaction => \A i \in DOMAIN session : Covered(engagement, store, session[i])

IInv ==
  /\ TypeOK /\ BatchFits /\ ViewsExtend /\ BatchKept /\ HoursCovered
  /\ EntriesKept /\ HoursHaveRows
-----------------------------------------------------------------------------
(***************************************************************************)
(* Lemmas                                                                  *)
(***************************************************************************)
\* Every time of the day has its hour.
LEMMA HourIn == ASSUME NEW t \in 0..MaxTime PROVE Hour(t) \in Hours
  BY DEF Hours

\* However many visits the sweep closes, each sponsor's are counted.
LEMMA StaleCounted ==
  ASSUME TypeOK, NEW s
  PROVE  LET S == {i \in Stale : session[i].sponsor = s}
         IN /\ Cardinality(S) \in Nat
            /\ S # {} => Cardinality(S) > 0
  <1> DEFINE S == {i \in Stale : session[i].sponsor = s}
  <1>1. Len(rows) \in Nat /\ DOMAIN rows = 1..Len(rows) /\ DOMAIN session = 1..Len(rows)
    BY DEF TypeOK
  <1>2. S \subseteq 1..Len(rows)
    BY <1>1 DEF Stale, Listed
  <1>3. IsFiniteSet(1..Len(rows))
    BY <1>1, FS_Interval
  <1>4. IsFiniteSet(S)
    BY <1>2, <1>3, FS_Subset
  <1>5. Cardinality(S) \in Nat /\ (Cardinality(S) = 0 <=> S = {})
    BY <1>4, FS_CardinalityType, FS_EmptySet
  <1> QED BY <1>5

\* The number of the next visit is a number.
LEMMA CompletedIsNat ==
  ASSUME TypeOK, NEW e
  PROVE  CompletedVisits(e) \in Nat
  <1> DEFINE S == {i \in DOMAIN rows : SameVisitor(rows[i], e) /\ rows[i].exited # Open}
  <1>1. Len(rows) \in Nat /\ S \subseteq 1..Len(rows)
    BY DEF TypeOK
  <1>2. IsFiniteSet(1..Len(rows))
    BY <1>1, FS_Interval
  <1>3. IsFiniteSet(S)
    BY <1>1, <1>2, FS_Subset
  <1> QED BY <1>3, FS_CardinalityType DEF CompletedVisits

\* An event of the stream is one.
LEMMA CurrentIsEvent ==
  ASSUME TypeOK, BatchFits, Applying
  PROVE  /\ Current \in Event /\ next \in 1..Len(stream) /\ next <= last
         /\ Current.at \in 0..MaxTime /\ Hour(Current.at) \in Hours
  <1>1. next \in 1..Len(stream) /\ next <= last
    BY DEF TypeOK, BatchFits, Applying
  <1>2. Current \in Event
    BY <1>1 DEF TypeOK, Current
  <1>3. Current.at \in 0..MaxTime
    BY <1>2, ConstantsAssumption DEF Event
  <1> QED BY <1>1, <1>2, <1>3, HourIn

\* Buckets of a flush only grow, and so does what they cover.
Stores == [Buckets -> [entries : Nat, dwells : Nat]]
Grows == \A x \in Buckets : store'[x].entries >= store[x].entries /\ store'[x].dwells >= store[x].dwells

LEMMA EntryCounted ==
  ASSUME TypeOK, NEW s \in Sponsors, NEW t, Hour(t) \in Hours, NEW e, e.sponsor = s, e.at = t,
         store' = CountEntry(e)
  PROVE  store' \in Stores /\ Grows /\ store'[<<s, Hour(t)>>].entries > 0
  <1> DEFINE b == <<s, Hour(t)>>
  <1>1. b \in Buckets
    BY DEF Buckets
  <1>2. store \in Stores
    BY DEF TypeOK, Stores
  <1>3. \A x \in Buckets : store[x].entries \in Nat /\ store[x].dwells \in Nat
    BY <1>2 DEF Stores
  <1>4. store' = [store EXCEPT ![b].entries = @ + 1]
    BY DEF CountEntry
  <1>5. [store[b] EXCEPT !.entries = @ + 1] = [entries |-> store[b].entries + 1, dwells |-> store[b].dwells]
    BY <1>1, <1>2 DEF Stores
  <1>6. \A x \in Buckets : store'[x] = IF x = b THEN [entries |-> store[b].entries + 1, dwells |-> store[b].dwells]
                                               ELSE store[x]
    BY <1>1, <1>2, <1>4, <1>5 DEF Stores
  <1>7. store' \in Stores
    BY <1>1, <1>2, <1>3, <1>4, <1>6 DEF Stores
  <1> QED BY <1>1, <1>3, <1>6, <1>7 DEF Grows

LEMMA DwellCounted ==
  ASSUME TypeOK, NEW s \in Sponsors, NEW t, Hour(t) \in Hours, store' = CountDwell(s, t)
  PROVE  store' \in Stores /\ Grows /\ store'[<<s, Hour(t)>>].dwells > 0
  <1> DEFINE b == <<s, Hour(t)>>
  <1>1. b \in Buckets
    BY DEF Buckets
  <1>2. store \in Stores
    BY DEF TypeOK, Stores
  <1>3. \A x \in Buckets : store[x].entries \in Nat /\ store[x].dwells \in Nat
    BY <1>2 DEF Stores
  <1>4. store' = [store EXCEPT ![b].dwells = @ + 1]
    BY DEF CountDwell
  <1>5. [store[b] EXCEPT !.dwells = @ + 1] = [entries |-> store[b].entries, dwells |-> store[b].dwells + 1]
    BY <1>1, <1>2 DEF Stores
  <1>6. \A x \in Buckets : store'[x] = IF x = b THEN [entries |-> store[b].entries, dwells |-> store[b].dwells + 1]
                                               ELSE store[x]
    BY <1>1, <1>2, <1>4, <1>5 DEF Stores
  <1>7. store' \in Stores
    BY <1>1, <1>2, <1>3, <1>4, <1>6 DEF Stores
  <1> QED BY <1>1, <1>3, <1>6, <1>7 DEF Grows

\* The hours of a visit.
LEMMA VisitHours ==
  ASSUME NEW v \in Visit
  PROVE  v.sponsor \in Sponsors /\ Hour(v.entered) \in Hours /\ Hour(v.exited) \in Hours
  <1>1. v.sponsor \in Sponsors /\ v.entered \in 0..MaxTime /\ v.exited \in 0..MaxTime
    BY ConstantsAssumption DEF Visit
  <1> QED BY <1>1, HourIn

\* What was covered stays so.
LEMMA CoveredStays ==
  ASSUME TypeOK, store' \in Stores, Grows, UNCHANGED engagement,
         NEW v \in Visit, Covered(engagement, store, v)
  PROVE  Covered(engagement', store', v)
  <1>1. v.sponsor \in Sponsors /\ Hour(v.entered) \in Hours /\ Hour(v.exited) \in Hours
    BY VisitHours
  <1>2. <<v.sponsor, Hour(v.entered)>> \in Buckets /\ <<v.sponsor, Hour(v.exited)>> \in Buckets
    BY <1>1 DEF Buckets
  <1>3. \A x \in Buckets : /\ store[x].entries \in Nat /\ store[x].dwells \in Nat
                           /\ store'[x].entries \in Nat /\ store'[x].dwells \in Nat
    BY DEF TypeOK, Stores
  <1> QED BY <1>2, <1>3 DEF Covered, HourCovered, Grows

\* Closing a visit changes its end.
LEMMA ClosedVisit ==
  ASSUME NEW v \in Visit, NEW t \in 0..MaxTime
  PROVE  /\ Closed(v, t) \in Visit
         /\ Closed(v, t).pid = v.pid /\ Closed(v, t).sponsor = v.sponsor
         /\ Closed(v, t).entered = v.entered /\ Closed(v, t).exited = t
         /\ \A w \in Visit : w = [v EXCEPT !.exited = w.exited] => Closed(w, t) = Closed(v, t)
  BY DEF Visit, Closed
-----------------------------------------------------------------------------
(***************************************************************************)
(* Initial states, and the steps that leave the transaction alone          *)
(***************************************************************************)
LEMMA InitInv == Init => IInv
  <1> SUFFICES ASSUME Init PROVE IInv
    OBVIOUS
  <1>1. TypeOK
    BY ConstantsAssumption DEF Init, TypeOK, NoBuckets
  <1>2. BatchFits /\ ViewsExtend /\ BatchKept /\ HoursCovered
    BY DEF Init, BatchFits, ViewsExtend, InTransaction, BatchKept, HoursCovered
  <1>3. EntriesKept /\ HoursHaveRows
    BY DEF Init, EntriesKept, HoursHaveRows
  <1> QED BY <1>1, <1>2, <1>3 DEF IInv

\* Time passes and people are seen.
LEMMA TickInv == IInv /\ Tick => IInv'
  <1> SUFFICES ASSUME IInv, Tick PROVE IInv'
    OBVIOUS
  <1>1. UNCHANGED <<stream, seen, cursor, visits, engagement, logged, pc, next, last, found, now, session, rows, store, faults>>
    BY DEF Tick, committed, work
  <1>2. TypeOK'
    <2>1. clock' \in 1..MaxTime /\ clock' = clock + 1
      BY ConstantsAssumption DEF IInv, TypeOK, Tick
    <2>2. 0..clock \subseteq 0..clock'
      BY <2>1 DEF IInv, TypeOK
    <2>3. \A f \in [Participants \X Sponsors -> 0..clock] : f \in [Participants \X Sponsors -> 0..clock']
      BY <2>2
    <2>4. seen' \in [Participants \X Sponsors -> 0..clock'] /\ logged' \in [Participants \X Sponsors -> 0..clock']
      BY <1>1, <2>3 DEF IInv, TypeOK
    <2> QED BY <1>1, <2>1, <2>2, <2>4 DEF IInv, TypeOK
  <1>3. BatchFits' /\ ViewsExtend' /\ BatchKept' /\ HoursCovered' /\ EntriesKept' /\ HoursHaveRows'
    BY <1>1 DEF IInv, BatchFits, ViewsExtend, InTransaction, Extends, BatchKept, Kept, Valid, SameVisitor,
       HoursCovered, EntriesKept, HoursHaveRows
  <1> QED BY <1>2, <1>3 DEF IInv

LEMMA SeeInv ==
  ASSUME NEW p \in Participants, NEW s \in Sponsors, IInv, SeeInBooth(p, s) PROVE IInv'
  <1>1. UNCHANGED <<clock, stream, cursor, visits, engagement, logged, pc, next, last, found, now, session, rows, store, faults>>
    BY DEF SeeInBooth, committed, work
  <1>2. seen' \in [Participants \X Sponsors -> 0..clock]
    <2>1. clock \in 0..clock
      BY ConstantsAssumption DEF IInv, TypeOK
    <2> QED BY <2>1 DEF IInv, TypeOK, SeeInBooth
  <1>2a. TypeOK'
    BY <1>1, <1>2 DEF IInv, TypeOK
  <1>3. BatchFits' /\ ViewsExtend' /\ BatchKept' /\ HoursCovered' /\ EntriesKept' /\ HoursHaveRows'
    BY <1>1 DEF IInv, BatchFits, ViewsExtend, InTransaction, Extends, BatchKept, Kept, Valid, SameVisitor,
       HoursCovered, EntriesKept, HoursHaveRows
  <1> QED BY <1>2a, <1>3 DEF IInv

\* The stream grows at its end: what lies before the cursor or in a batch stays.
LEMMA CrossInv ==
  ASSUME NEW kind \in Kinds, NEW p \in Participants, NEW s \in Sponsors, IInv, CrossLine(kind, p, s)
  PROVE  IInv'
  <1> DEFINE e == [kind |-> kind, pid |-> p, sponsor |-> s, at |-> clock]
  <1>1. UNCHANGED <<clock, seen, cursor, visits, engagement, logged, pc, next, last, found, now, session, rows, store, faults>>
    BY DEF CrossLine, committed, work
  <1>2. e \in Event
    BY DEF IInv, TypeOK, Event
  <1>3. /\ stream' \in Seq(Event) /\ Len(stream') = Len(stream) + 1 /\ Len(stream) \in Nat
        /\ \A k \in 1..Len(stream) : stream'[k] = stream[k]
    BY <1>2 DEF IInv, TypeOK, CrossLine
  <1>4. TypeOK'
    BY <1>1, <1>3 DEF IInv, TypeOK
  <1>5. BatchFits' /\ ViewsExtend' /\ HoursCovered' /\ HoursHaveRows'
    BY <1>1 DEF IInv, BatchFits, ViewsExtend, InTransaction, Extends, HoursCovered, HoursHaveRows
  <1>7. cursor \in 0..Len(stream) /\ last \in 0..Len(stream)
    BY DEF IInv, TypeOK
  <1>8. EntriesKept'
    BY <1>1, <1>3, <1>7 DEF IInv, EntriesKept, Valid, SameVisitor
  <1>9. BatchKept'
    <2>1. ASSUME pc = "apply" PROVE Kept(session, next - 1)'
      <3>1. next - 1 \in 0..Len(stream) /\ Kept(session, next - 1)
        BY <2>1, <1>7 DEF IInv, TypeOK, BatchFits, BatchKept
      <3> QED BY <3>1, <1>1, <1>3 DEF Kept, Valid, SameVisitor
    <2>2. ASSUME pc = "commit" PROVE Kept(session, last)'
      BY <2>2, <1>1, <1>3, <1>7 DEF IInv, BatchKept, Kept, Valid, SameVisitor
    <2>3. ASSUME pc = "cursor" PROVE Kept(visits, last)'
      BY <2>3, <1>1, <1>3, <1>7 DEF IInv, BatchKept, Kept, Valid, SameVisitor
    <2> QED BY <2>1, <2>2, <2>3, <1>1 DEF BatchKept
  <1> QED BY <1>4, <1>5, <1>8, <1>9 DEF IInv

\* The stutter of all variables.
LEMMA StutterInv == IInv /\ UNCHANGED vars => IInv'
  <1> SUFFICES ASSUME IInv, UNCHANGED vars PROVE IInv'
    OBVIOUS
  <1>1. UNCHANGED <<clock, stream, seen, cursor, visits, engagement, logged, pc, next, last, found, now, session, rows, store, faults>>
    BY DEF vars, external, committed, work
  <1>2. TypeOK'
    BY <1>1 DEF IInv, TypeOK
  <1> QED BY <1>1, <1>2 DEF IInv, BatchFits, ViewsExtend, InTransaction, Extends, BatchKept, Kept, Valid,
       SameVisitor, HoursCovered, EntriesKept, HoursHaveRows
-----------------------------------------------------------------------------
(***************************************************************************)
(* The flush                                                               *)
(***************************************************************************)
\* The session begins as the table is.
LEMMA BeginInv == IInv /\ BeginFlush => IInv'
  <1> SUFFICES ASSUME IInv, BeginFlush PROVE IInv'
    OBVIOUS
  <1>1. /\ UNCHANGED <<clock, stream, seen, cursor, visits, engagement, logged, faults>>
        /\ pc' = "apply" /\ next' = cursor + 1 /\ last' = LastRead /\ found' = LastRead - cursor /\ now' = clock
        /\ session' = visits /\ rows' = visits /\ store' = NoBuckets
    BY DEF BeginFlush, external, committed
  <1>2. cursor \in 0..Len(stream) /\ Len(stream) \in Nat /\ LastRead \in cursor..Len(stream)
    BY ConstantsAssumption DEF IInv, TypeOK, LastRead
  <1>3. NoBuckets \in [Buckets -> [entries : Nat, dwells : Nat]]
    BY DEF NoBuckets
  <1>4. TypeOK'
    <2>1. clock \in 0..clock
      BY ConstantsAssumption DEF IInv, TypeOK
    <2> QED BY <1>1, <1>2, <1>3, <2>1 DEF IInv, TypeOK
  <1>5. BatchFits' /\ EntriesKept' /\ HoursHaveRows'
    <2>1. BatchFits'
      BY <1>1, <1>2 DEF IInv, BatchFits
    <2>2. EntriesKept'
      BY <1>1 DEF IInv, EntriesKept, Valid, SameVisitor
    <2>3. HoursHaveRows'
      BY <1>1 DEF IInv, HoursHaveRows
    <2> QED BY <2>1, <2>2, <2>3
  <1>6. ViewsExtend'
    <2>1. \A i \in DOMAIN visits : visits[i] \in Visit
      BY DEF IInv, TypeOK
    <2>2. \A v \in Visit : v = [v EXCEPT !.exited = v.exited]
      BY DEF Visit
    <2> QED BY <1>1, <2>1, <2>2 DEF ViewsExtend, Extends
  <1>7. BatchKept'
    BY <1>1, <1>2 DEF IInv, BatchKept, Kept, EntriesKept, Valid, SameVisitor
  <1>8. HoursCovered'
    BY <1>1 DEF IInv, HoursCovered, Covered, HourCovered, HoursHaveRows
  <1> QED BY <1>4, <1>5, <1>6, <1>7, <1>8 DEF IInv

\* Malformed sponsors are not valid, and an exit leaves no entry behind.
LEMMA PassInv == IInv /\ (SkipInvalid \/ IgnoreExit) => IInv'
  <1> SUFFICES ASSUME IInv, SkipInvalid \/ IgnoreExit PROVE IInv'
    OBVIOUS
  <1>1. /\ UNCHANGED <<clock, stream, seen, cursor, visits, engagement, logged, faults, pc, last, found, now, session, rows, store>>
        /\ pc = "apply" /\ next' = next + 1 /\ Applying
        /\ ~(Current.kind = "sponsor_entry" /\ Valid(Current))
    BY DEF SkipInvalid, IgnoreExit, external, committed, Applying, Advance, Valid
  <1>2. next \in 1..Len(stream) /\ next <= last /\ Len(stream) \in Nat /\ last \in 0..Len(stream)
    BY <1>1, CurrentIsEvent DEF IInv, TypeOK
  <1>3. TypeOK' /\ BatchFits'
    BY <1>1, <1>2 DEF IInv, TypeOK, BatchFits
  <1>4. ViewsExtend' /\ HoursCovered' /\ EntriesKept' /\ HoursHaveRows'
    BY <1>1 DEF IInv, ViewsExtend, InTransaction, Extends, HoursCovered, EntriesKept, HoursHaveRows,
       Valid, SameVisitor
  <1>5. Kept(session, next - 1)'
    <2>1. Kept(session, next - 1)
      BY <1>1 DEF IInv, BatchKept
    <2>2. \A j \in 1..next : j \in 1..(next - 1) \/ j = next
      BY <1>2
    <2>3. \A j \in 1..next : stream[j].kind = "sponsor_entry" /\ Valid(stream[j]) =>
            \E i \in DOMAIN session : SameVisitor(session[i], stream[j]) /\ session[i].entered = stream[j].at
      BY <1>1, <2>1, <2>2 DEF Kept, Current
    <2>4. next' - 1 = next
      BY <1>1, <1>2
    <2> QED BY <1>1, <2>3, <2>4 DEF Kept, Valid, SameVisitor
  <1>6. BatchKept'
    BY <1>1, <1>2, <1>5 DEF BatchKept, Kept, Valid, SameVisitor
  <1> QED BY <1>3, <1>4, <1>6 DEF IInv

\* The new visit is the entry's, and its hour is counted.
NewVisit ==
  [pid |-> Current.pid, sponsor |-> Current.sponsor, entered |-> Current.at, exited |-> Open,
   number |-> CompletedVisits(Current) + 1]

LEMMA EntryInv == IInv /\ ApplyEntry => IInv'
  <1> SUFFICES ASSUME IInv, ApplyEntry PROVE IInv'
    OBVIOUS
  <1>1. /\ UNCHANGED <<clock, stream, seen, cursor, visits, engagement, logged, faults, pc, last, found, now>>
        /\ pc = "apply" /\ next' = next + 1 /\ Applying
        /\ session' = Append(session, NewVisit) /\ rows' = session' /\ store' = CountEntry(Current)
    BY DEF ApplyEntry, external, committed, Applying, Advance, NewVisit
  <1>2. /\ next \in 1..Len(stream) /\ next <= last /\ Len(stream) \in Nat /\ last \in 0..Len(stream)
        /\ Current \in Event /\ Hour(Current.at) \in Hours /\ Current.sponsor \in Sponsors
    <2>1. TypeOK /\ BatchFits
      BY DEF IInv
    <2>2. Len(stream) \in Nat /\ last \in 0..Len(stream)
      BY ONLY <2>1 DEF TypeOK
    <2> QED BY <1>1, <2>1, <2>2, CurrentIsEvent DEF Event
  <1>3. NewVisit \in Visit
    <2>1. CompletedVisits(Current) \in Nat
      BY CompletedIsNat DEF IInv
    <2> QED BY <1>2, <2>1, ConstantsAssumption DEF Visit, Event, Open, NewVisit
  <1>4. /\ session \in Seq(Visit) /\ session' \in Seq(Visit) /\ Len(session) \in Nat
        /\ DOMAIN session = 1..Len(session) /\ DOMAIN session' = 1..(Len(session) + 1)
        /\ Len(session') = Len(session) + 1
        /\ \A i \in DOMAIN session : session'[i] = session[i]
        /\ session'[Len(session) + 1] = NewVisit
    BY <1>1, <1>3 DEF IInv, TypeOK
  <1>5. store' \in Stores /\ Grows /\ store'[<<Current.sponsor, Hour(Current.at)>>].entries > 0
    BY <1>1, <1>2, EntryCounted DEF IInv
  <1>6. TypeOK'
    <2>1. next' \in 0..(Len(stream) + 1) /\ rows' \in Seq(Visit) /\ Len(rows') = Len(session')
      BY <1>1, <1>2, <1>4
    <2> QED BY <1>1, <1>4, <1>5, <2>1 DEF IInv, TypeOK, Stores
  <1>7. BatchFits' /\ EntriesKept' /\ HoursHaveRows'
    <2>1. BatchFits'
      BY <1>1, <1>2 DEF IInv, BatchFits, TypeOK
    <2>2. EntriesKept'
      BY <1>1 DEF IInv, EntriesKept, Valid, SameVisitor
    <2>3. HoursHaveRows'
      BY <1>1 DEF IInv, HoursHaveRows
    <2> QED BY <2>1, <2>2, <2>3
  <1>8. ViewsExtend'
    <2>1. Extends(visits, session)
      BY <1>1 DEF IInv, ViewsExtend, InTransaction
    <2>2. \A i \in DOMAIN visits : i \in DOMAIN session
      BY <2>1 DEF Extends
    <2>3. \A i \in DOMAIN visits : session'[i] = session[i] /\ i \in DOMAIN session'
      BY <2>2, <1>4
    <2>4. Extends(visits, session')
      BY <2>1, <2>3 DEF Extends
    <2> QED BY <2>4, <1>1 DEF ViewsExtend, Extends
  <1>9. \A j \in 1..next : stream[j].kind = "sponsor_entry" /\ Valid(stream[j]) =>
          \E i \in DOMAIN session' : SameVisitor(session'[i], stream[j]) /\ session'[i].entered = stream[j].at
    <2>1. Kept(session, next - 1)
      BY <1>1 DEF IInv, BatchKept
    <2>2. \A j \in 1..next : j \in 1..(next - 1) \/ j = next
      BY <1>2
    <2>3. ASSUME NEW j \in 1..(next - 1), stream[j].kind = "sponsor_entry", Valid(stream[j])
          PROVE  \E i \in DOMAIN session' : SameVisitor(session'[i], stream[j]) /\ session'[i].entered = stream[j].at
      <3>1. PICK i \in DOMAIN session : SameVisitor(session[i], stream[j]) /\ session[i].entered = stream[j].at
        BY <2>1, <2>3 DEF Kept
      <3>2. i \in DOMAIN session' /\ session'[i] = session[i]
        BY <3>1, <1>4
      <3> QED BY <3>1, <3>2
    <2>4. SameVisitor(NewVisit, stream[next]) /\ NewVisit.entered = stream[next].at
      BY DEF SameVisitor, Current, NewVisit
    <2>5. Len(session) + 1 \in DOMAIN session' /\ session'[Len(session) + 1] = NewVisit
      BY <1>4
    <2>6. \E i \in DOMAIN session' : SameVisitor(session'[i], stream[next]) /\ session'[i].entered = stream[next].at
      BY <2>4, <2>5
    <2> QED BY <2>2, <2>3, <2>6
  <1>10. BatchKept'
    <2>1. next' - 1 = next
      BY <1>1, <1>2
    <2> QED BY <1>1, <1>9, <2>1 DEF BatchKept, Kept, Valid, SameVisitor
  <1>11. HoursCovered'
    <2>1. ASSUME NEW i \in DOMAIN session PROVE Covered(engagement', store', session'[i])
      <3>1. session[i] \in Visit /\ session'[i] = session[i] /\ Covered(engagement, store, session[i])
        BY <1>1, <1>4 DEF IInv, HoursCovered, InTransaction
      <3> QED BY <1>1, <1>5, <3>1, CoveredStays DEF IInv
    <2>2. ASSUME NEW i \in DOMAIN session', i \notin DOMAIN session
          PROVE  Covered(engagement', store', session'[i])
      <3>1. session'[i] = NewVisit
        BY <2>2, <1>4
      <3>2. session'[i].exited = Open /\ session'[i].sponsor = Current.sponsor /\ session'[i].entered = Current.at
        BY <3>1 DEF NewVisit
      <3> QED BY <3>2, <1>5 DEF Covered, HourCovered
    <2> QED BY <2>1, <2>2 DEF HoursCovered
  <1> QED BY <1>6, <1>7, <1>8, <1>10, <1>11 DEF IInv

\* The flushed row was open, so the visit is not one that was closed in the table.
LEMMA ExitInv == IInv /\ ApplyExit => IInv'
  <1> SUFFICES ASSUME IInv, ApplyExit PROVE IInv'
    OBVIOUS
  <1>1. /\ UNCHANGED <<clock, stream, seen, cursor, visits, engagement, logged, faults, pc, last, found, now, rows>>
        /\ pc = "apply" /\ next' = next + 1 /\ Applying /\ Current.kind = "sponsor_exit"
        /\ store' = CountDwell(Current.sponsor, Current.at)
    BY DEF ApplyExit, external, committed, Applying, Advance
  <1>2. PICK c \in MostRecent(Current) : session' = [session EXCEPT ![c] = Closed(@, Current.at)]
    BY DEF ApplyExit
  <1>3. /\ next \in 1..Len(stream) /\ next <= last /\ Len(stream) \in Nat /\ last \in 0..Len(stream)
        /\ Current \in Event /\ Hour(Current.at) \in Hours /\ Current.sponsor \in Sponsors
        /\ Current.at \in 1..MaxTime
    BY <1>1, CurrentIsEvent DEF IInv, TypeOK, Event
  <1>4. /\ session \in Seq(Visit) /\ rows \in Seq(Visit) /\ DOMAIN session = DOMAIN rows
        /\ DOMAIN session = 1..Len(session) /\ Len(session) \in Nat
        /\ \A i \in DOMAIN session : session[i] \in Visit
    BY DEF IInv, TypeOK
  <1>5. c \in DOMAIN session /\ c \in DOMAIN rows /\ rows[c].exited = Open /\ rows[c].sponsor = Current.sponsor
    BY <1>2, <1>4 DEF MostRecent, OpenVisits, SameVisitor
  <1>6. /\ Closed(session[c], Current.at) \in Visit
        /\ Closed(session[c], Current.at).pid = session[c].pid
        /\ Closed(session[c], Current.at).sponsor = session[c].sponsor
        /\ Closed(session[c], Current.at).entered = session[c].entered
        /\ Closed(session[c], Current.at).exited = Current.at
    <2>1. session[c] \in Visit /\ Current.at \in 0..MaxTime
      BY <1>3, <1>4, <1>5
    <2> QED BY <2>1, ClosedVisit
  <1>7. /\ session' \in Seq(Visit) /\ DOMAIN session' = DOMAIN session /\ Len(session') = Len(session)
        /\ \A i \in DOMAIN session : i # c => session'[i] = session[i]
        /\ session'[c] = Closed(session[c], Current.at)
    BY <1>2, <1>4, <1>5, <1>6
  <1>8. \A i \in DOMAIN session : /\ session'[i].pid = session[i].pid /\ session'[i].sponsor = session[i].sponsor
                                  /\ session'[i].entered = session[i].entered
    BY <1>6, <1>7
  <1>9. store' \in Stores /\ Grows /\ store'[<<Current.sponsor, Hour(Current.at)>>].dwells > 0
    BY <1>1, <1>3, DwellCounted DEF IInv
  <1>10. TypeOK'
    BY <1>1, <1>3, <1>4, <1>7, <1>9 DEF IInv, TypeOK, Stores
  <1>11. BatchFits' /\ EntriesKept' /\ HoursHaveRows'
    <2>1. BatchFits'
      BY <1>1, <1>3 DEF IInv, BatchFits, TypeOK
    <2>2. EntriesKept'
      BY <1>1 DEF IInv, EntriesKept, Valid, SameVisitor
    <2>3. HoursHaveRows'
      BY <1>1 DEF IInv, HoursHaveRows
    <2> QED BY <2>1, <2>2, <2>3
  <1>12. ViewsExtend'
    <2>1. /\ Extends(visits, session) /\ Extends(visits, rows)
          /\ \A i \in DOMAIN rows : session[i].sponsor = rows[i].sponsor
      BY <1>1 DEF IInv, ViewsExtend, InTransaction
    <2>2. ASSUME NEW i \in DOMAIN visits
          PROVE  /\ i \in DOMAIN session' /\ session'[i] = [visits[i] EXCEPT !.exited = session'[i].exited]
                 /\ visits[i].exited # Open => session'[i] = visits[i]
      <3>1. /\ i \in DOMAIN session /\ session[i] = [visits[i] EXCEPT !.exited = session[i].exited]
            /\ visits[i].exited # Open => session[i] = visits[i]
            /\ visits[i].exited # Open => rows[i] = visits[i]
        BY <2>1 DEF Extends
      <3>2. visits[i] \in Visit
        BY DEF IInv, TypeOK
      <3>3. CASE i # c
        BY <3>1, <3>3, <1>7
      <3>4. CASE i = c
        <4>1. visits[c].exited = Open
          BY <3>1, <3>4, <1>5
        <4>2. Closed(session[c], Current.at) = Closed(visits[c], Current.at)
          <5>1. session[c] \in Visit /\ visits[c] \in Visit /\ Current.at \in 0..MaxTime
            BY <3>2, <3>4, <1>3, <1>4, <1>5
          <5> QED BY <5>1, <3>1, <3>4, ClosedVisit
        <4> QED BY <4>1, <4>2, <3>1, <3>4, <1>6, <1>7 DEF Closed
      <3> QED BY <3>3, <3>4
    <2>3. Extends(visits, session')
      BY <2>2 DEF Extends
    <2>4. \A i \in DOMAIN rows : session'[i].sponsor = rows[i].sponsor
      BY <2>1, <1>4, <1>8
    <2> QED BY <2>1, <2>3, <2>4, <1>1 DEF ViewsExtend, Extends
  <1>13. BatchKept'
    <2>1. Kept(session, next - 1) /\ next' - 1 = next
      BY <1>1, <1>3 DEF IInv, BatchKept
    <2>2. \A j \in 1..next : j \in 1..(next - 1) \/ j = next
      BY <1>3
    <2>3. stream[next].kind # "sponsor_entry"
      BY <1>1 DEF Current
    <2>4. \A j \in 1..next : stream[j].kind = "sponsor_entry" /\ Valid(stream[j]) =>
            \E i \in DOMAIN session : SameVisitor(session[i], stream[j]) /\ session[i].entered = stream[j].at
      BY <2>1, <2>2, <2>3 DEF Kept
    <2>5. \A j \in 1..next : stream[j].kind = "sponsor_entry" /\ Valid(stream[j]) =>
            \E i \in DOMAIN session' : SameVisitor(session'[i], stream[j]) /\ session'[i].entered = stream[j].at
      BY <2>4, <1>7, <1>8 DEF SameVisitor
    <2> QED BY <1>1, <2>1, <2>5 DEF BatchKept, Kept, Valid, SameVisitor
  <1>14. HoursCovered'
    <2>1. ASSUME NEW i \in DOMAIN session PROVE Covered(engagement', store', session[i])
      <3>1. session[i] \in Visit /\ Covered(engagement, store, session[i])
        BY <1>1, <1>4 DEF IInv, HoursCovered, InTransaction
      <3> QED BY <1>1, <1>9, <3>1, CoveredStays DEF IInv
    <2>2. session'[c].sponsor = Current.sponsor
      <3>1. session[c].sponsor = rows[c].sponsor
        BY <1>1, <1>5 DEF IInv, ViewsExtend, InTransaction
      <3> QED BY <3>1, <1>5, <1>8
    <2>3. Covered(engagement', store', session'[c])
      <3>1. HourCovered(engagement', store', session'[c].sponsor, Hour(session'[c].exited))
        BY <2>2, <1>6, <1>7, <1>9 DEF HourCovered
      <3>2. HourCovered(engagement', store', session'[c].sponsor, Hour(session'[c].entered))
        BY <2>1, <1>5, <1>8 DEF Covered
      <3> QED BY <3>1, <3>2 DEF Covered
    <2> QED BY <2>1, <2>3, <1>7 DEF HoursCovered
  <1> QED BY <1>10, <1>11, <1>12, <1>13, <1>14 DEF IInv

\* The sweep counts each visit it closes.
LEMMA SweepCounted ==
  ASSUME TypeOK, store' = [b \in Buckets |-> MergeAutoClosed(b)]
  PROVE  /\ store' \in Stores /\ Grows
         /\ \A i \in Stale : session[i] \in Visit => store'[<<session[i].sponsor, Hour(now)>>].dwells > 0
  <1> DEFINE N(s) == Cardinality({i \in Stale : session[i].sponsor = s})
  <1>1. \A s : N(s) \in Nat
    BY StaleCounted
  <1>2. \A b \in Buckets : store[b] \in [entries : Nat, dwells : Nat]
    BY DEF TypeOK
  <1>3. ASSUME NEW b \in Buckets
        PROVE  /\ store'[b] \in [entries : Nat, dwells : Nat]
               /\ store'[b].entries = store[b].entries
               /\ store'[b].dwells = IF b[2] = Hour(now) THEN store[b].dwells + N(b[1]) ELSE store[b].dwells
    <2>1. store'[b] = [store[b] EXCEPT !.dwells = IF b[2] = Hour(now) THEN @ + N(b[1]) ELSE @]
      BY DEF MergeAutoClosed
    <2>2. N(b[1]) \in Nat /\ store[b].dwells \in Nat /\ store[b].entries \in Nat
      BY <1>1, <1>2
    <2> HIDE DEF N
    <2> QED BY <2>1, <2>2, <1>2
  <1>4. store' \in Stores
    BY <1>3 DEF Stores
  <1>5. Grows
    <2> HIDE DEF N
    <2>1. ASSUME NEW b \in Buckets
          PROVE  store'[b].entries >= store[b].entries /\ store'[b].dwells >= store[b].dwells
      <3>1. N(b[1]) \in Nat /\ store[b].dwells \in Nat /\ store[b].entries \in Nat
        BY <1>1, <1>2
      <3> QED BY <3>1, <1>3
    <2> QED BY <2>1 DEF Grows
  <1>6. ASSUME NEW i \in Stale, session[i] \in Visit
        PROVE  store'[<<session[i].sponsor, Hour(now)>>].dwells > 0
    <2> DEFINE b == <<session[i].sponsor, Hour(now)>>
    <2>1. now \in 0..MaxTime
      BY ConstantsAssumption DEF TypeOK
    <2>2. b \in Buckets
      BY <1>6, <2>1, HourIn, VisitHours DEF Buckets
    <2>3. N(b[1]) > 0
      BY StaleCounted
    <2>4. N(b[1]) \in Nat /\ store[b].dwells \in Nat /\ b[2] = Hour(now)
      BY <1>1, <1>2, <2>2
    <2> HIDE DEF N
    <2> QED BY <1>3, <2>2, <2>3, <2>4
  <1> QED BY <1>4, <1>5, <1>6

\* Only visits that are open in both views are swept.
LEMMA SweepInv == IInv /\ Sweep => IInv'
  <1> SUFFICES ASSUME IInv, Sweep PROVE IInv'
    OBVIOUS
  <1>1. /\ UNCHANGED <<clock, stream, seen, cursor, visits, engagement, logged, faults, next, last, found, now>>
        /\ pc = "apply" /\ next > last /\ pc' = "commit"
        /\ session' = [i \in DOMAIN session |-> AutoClose(i)] /\ rows' = session'
        /\ store' = [b \in Buckets |-> MergeAutoClosed(b)]
    BY DEF Sweep, external, committed
  <1>2. /\ session \in Seq(Visit) /\ rows \in Seq(Visit) /\ DOMAIN session = DOMAIN rows
        /\ DOMAIN session = 1..Len(session) /\ Len(session) \in Nat
        /\ \A i \in DOMAIN session : session[i] \in Visit
    BY DEF IInv, TypeOK
  <1>3. now \in 0..MaxTime
    BY ConstantsAssumption DEF IInv, TypeOK
  <1>4. ASSUME NEW i \in DOMAIN session
        PROVE  /\ session'[i] \in Visit
               /\ session'[i].pid = session[i].pid /\ session'[i].sponsor = session[i].sponsor
               /\ session'[i].entered = session[i].entered
               /\ i \notin Stale => session'[i] = session[i]
               /\ i \in Stale => session'[i] = Closed(session[i], now) /\ session'[i].exited = now
    <2>1. session[i] \in Visit /\ session'[i] = IF i \in Stale THEN Closed(session[i], now) ELSE session[i]
      BY <1>1, <1>2 DEF AutoClose
    <2> QED BY <2>1, <1>3, ClosedVisit
  <1>5. session' \in Seq(Visit) /\ DOMAIN session' = DOMAIN session /\ Len(session') = Len(session)
    <2>1. session' \in [1..Len(session) -> Visit]
      BY <1>1, <1>2, <1>4
    <2> QED BY <2>1, <1>2
  <1>6. /\ store' \in Stores /\ Grows
        /\ \A i \in Stale : session[i] \in Visit => store'[<<session[i].sponsor, Hour(now)>>].dwells > 0
    BY <1>1, SweepCounted DEF IInv
  <1>7. TypeOK'
    BY <1>1, <1>5, <1>6 DEF IInv, TypeOK, Stores
  <1>8. BatchFits' /\ EntriesKept' /\ HoursHaveRows'
    <2>1. BatchFits'
      BY <1>1 DEF IInv, BatchFits
    <2>2. EntriesKept'
      BY <1>1 DEF IInv, EntriesKept, Valid, SameVisitor
    <2>3. HoursHaveRows'
      BY <1>1 DEF IInv, HoursHaveRows
    <2> QED BY <2>1, <2>2, <2>3
  <1>9. ViewsExtend'
    <2>1. Extends(visits, session) /\ Extends(visits, rows)
      BY <1>1 DEF IInv, ViewsExtend, InTransaction
    <2>2. ASSUME NEW i \in DOMAIN visits
          PROVE  /\ i \in DOMAIN session' /\ session'[i] = [visits[i] EXCEPT !.exited = session'[i].exited]
                 /\ visits[i].exited # Open => session'[i] = visits[i]
      <3>1. /\ i \in DOMAIN session /\ session[i] = [visits[i] EXCEPT !.exited = session[i].exited]
            /\ visits[i].exited # Open => session[i] = visits[i] /\ rows[i] = visits[i]
        BY <2>1 DEF Extends
      <3>2. visits[i] \in Visit
        BY DEF IInv, TypeOK
      <3>3. CASE i \notin Stale
        BY <3>1, <3>3, <1>4, <1>5
      <3>4. CASE i \in Stale
        <4>1. session[i].exited = Open \/ rows[i].exited = Open
          BY <3>4 DEF Stale, Listed
        <4>2. visits[i].exited = Open
          BY <3>1, <4>1
        <4>3. Closed(session[i], now) = Closed(visits[i], now)
          BY <3>1, <3>2, <1>2, <1>3, ClosedVisit
        <4> QED BY <4>2, <4>3, <3>1, <3>4, <1>4, <1>5 DEF Closed
      <3> QED BY <3>3, <3>4
    <2>3. Extends(visits, session')
      BY <2>2 DEF Extends
    <2> QED BY <2>3, <1>1 DEF ViewsExtend, Extends
  <1>10. BatchKept'
    <2>1. Kept(session, next - 1) /\ next - 1 = last
      BY <1>1 DEF IInv, BatchKept, BatchFits, TypeOK
    <2>2. \A j \in 1..last : stream[j].kind = "sponsor_entry" /\ Valid(stream[j]) =>
            \E i \in DOMAIN session' : SameVisitor(session'[i], stream[j]) /\ session'[i].entered = stream[j].at
      BY <2>1, <1>4, <1>5 DEF Kept, SameVisitor
    <2> QED BY <1>1, <2>2 DEF BatchKept, Kept, Valid, SameVisitor
  <1>11. HoursCovered'
    <2>1. ASSUME NEW i \in DOMAIN session PROVE Covered(engagement', store', session'[i])
      <3>1. session[i] \in Visit /\ Covered(engagement, store, session[i])
        BY <1>1, <1>2 DEF IInv, HoursCovered, InTransaction
      <3>2. Covered(engagement', store', session[i])
        BY <1>1, <1>6, <3>1, CoveredStays DEF IInv
      <3>3. CASE i \notin Stale
        BY <3>2, <3>3, <1>4
      <3>4. CASE i \in Stale
        <4>1. HourCovered(engagement', store', session[i].sponsor, Hour(now))
          BY <3>1, <3>4, <1>6 DEF HourCovered
        <4> QED BY <3>2, <3>4, <4>1, <1>4 DEF Covered
      <3> QED BY <3>3, <3>4
    <2> QED BY <2>1, <1>5 DEF HoursCovered
  <1> QED BY <1>7, <1>8, <1>9, <1>10, <1>11 DEF IInv

\* Visits and rows of the hours appear together.
LEMMA CommitInv == IInv /\ Commit => IInv'
  <1> SUFFICES ASSUME IInv, Commit PROVE IInv'
    OBVIOUS
  <1>1. /\ UNCHANGED <<clock, stream, seen, cursor, logged, faults, next, last, found, now, session, rows, store>>
        /\ pc = "commit" /\ pc' = "cursor" /\ visits' = session
        /\ engagement' = [b \in Buckets |->
                            IF TotalVisits(store[b]) > 0 THEN TotalVisits(store[b]) ELSE engagement[b]]
    BY DEF Commit, external, work
  <1>2. /\ engagement \in [Buckets -> Nat]
        /\ \A b \in Buckets : store[b].entries \in Nat /\ store[b].dwells \in Nat
    BY DEF IInv, TypeOK
  <1>3. \A b \in Buckets : TotalVisits(store[b]) \in Nat
    BY <1>2 DEF TotalVisits
  <1>4. TypeOK'
    <2>1. engagement' \in [Buckets -> Nat]
      BY <1>1, <1>2, <1>3
    <2> QED BY <1>1, <2>1 DEF IInv, TypeOK
  <1>5. Kept(session, last)
    BY <1>1 DEF IInv, BatchKept
  <1>6. BatchFits' /\ ViewsExtend' /\ HoursCovered'
    BY <1>1 DEF IInv, BatchFits, ViewsExtend, HoursCovered, InTransaction
  <1>7. BatchKept'
    BY <1>1, <1>5 DEF BatchKept, Kept, Valid, SameVisitor
  <1>8. EntriesKept'
    <2>1. cursor <= last /\ cursor \in Nat /\ last \in Nat
      BY <1>1 DEF IInv, BatchFits, TypeOK
    <2>2. \A k \in 1..cursor : k \in 1..last
      BY <2>1
    <2> QED BY <1>1, <1>5, <2>2 DEF EntriesKept, Kept, Valid, SameVisitor
  <1>9. HoursHaveRows'
    <2>1. ASSUME NEW i \in DOMAIN session
          PROVE  /\ engagement'[<<session[i].sponsor, Hour(session[i].entered)>>] > 0
                 /\ session[i].exited # Open => engagement'[<<session[i].sponsor, Hour(session[i].exited)>>] > 0
      <3>1. session[i] \in Visit /\ Covered(engagement, store, session[i])
        BY <1>1 DEF IInv, TypeOK, HoursCovered, InTransaction
      <3>2. /\ <<session[i].sponsor, Hour(session[i].entered)>> \in Buckets
            /\ <<session[i].sponsor, Hour(session[i].exited)>> \in Buckets
        BY <3>1, VisitHours DEF Buckets
      <3>3. ASSUME NEW b \in Buckets, engagement[b] > 0 \/ store[b].entries > 0 \/ store[b].dwells > 0
            PROVE  engagement'[b] > 0
        BY <3>3, <1>1, <1>2 DEF TotalVisits
      <3> QED BY <3>1, <3>2, <3>3 DEF Covered, HourCovered
    <2> QED BY <2>1, <1>1 DEF HoursHaveRows
  <1> QED BY <1>4, <1>6, <1>7, <1>8, <1>9 DEF IInv

\* The transaction is over, one way or the other.
LEMMA NothingIsWellTyped == NoBuckets \in Stores
  BY DEF NoBuckets, Stores

LEMMA SetCursorInv == IInv /\ SetCursor => IInv'
  <1> SUFFICES ASSUME IInv, SetCursor PROVE IInv'
    OBVIOUS
  <1>1. /\ UNCHANGED <<clock, stream, seen, visits, engagement, logged, faults>>
        /\ pc = "cursor" /\ pc' = "activity"
        /\ cursor' = IF found > 0 THEN last ELSE cursor
        /\ next' = 0 /\ last' = 0 /\ found' = 0 /\ now' = 0 /\ session' = <<>> /\ rows' = <<>> /\ store' = NoBuckets
    BY DEF SetCursor, ForgetSession, external, committed
  <1>2. cursor \in 0..Len(stream) /\ last \in 0..Len(stream) /\ cursor <= last
    BY <1>1 DEF IInv, TypeOK, BatchFits
  <1>3. cursor' = last \/ cursor' = cursor
    BY <1>1
  <1>4. TypeOK'
    BY <1>1, <1>2, <1>3, NothingIsWellTyped DEF IInv, TypeOK, Stores
  <1>5. BatchFits' /\ ViewsExtend' /\ BatchKept' /\ HoursCovered'
    BY <1>1 DEF BatchFits, ViewsExtend, BatchKept, HoursCovered, InTransaction
  <1>6. EntriesKept'
    BY <1>1, <1>3 DEF IInv, BatchKept, Kept, EntriesKept, Valid, SameVisitor
  <1>7. HoursHaveRows'
    BY <1>1 DEF IInv, HoursHaveRows
  <1> QED BY <1>4, <1>5, <1>6, <1>7 DEF IInv

LEMMA ForgetInv == IInv /\ (RejectOrphan \/ FailSql \/ Crash) => IInv'
  <1> SUFFICES ASSUME IInv, RejectOrphan \/ FailSql \/ Crash PROVE IInv'
    OBVIOUS
  <1>1. /\ UNCHANGED <<clock, stream, seen, cursor, visits, engagement, logged>>
        /\ pc' \in {"activity", "idle"}
        /\ next' = 0 /\ last' = 0 /\ found' = 0 /\ now' = 0 /\ session' = <<>> /\ rows' = <<>> /\ store' = NoBuckets
    BY DEF RejectOrphan, FailSql, Crash, ForgetSession, external, committed
  <1>2. faults' \in [FaultKinds -> Nat]
    BY DEF RejectOrphan, FailSql, Crash, Fault, FaultKinds, IInv, TypeOK
  <1>3. TypeOK'
    BY <1>1, <1>2, NothingIsWellTyped DEF IInv, TypeOK, Stores
  <1>4. BatchFits' /\ ViewsExtend' /\ BatchKept' /\ HoursCovered'
    BY <1>1 DEF BatchFits, ViewsExtend, BatchKept, HoursCovered, InTransaction
  <1>5. EntriesKept'
    BY <1>1 DEF IInv, EntriesKept, Valid, SameVisitor
  <1>6. HoursHaveRows'
    BY <1>1 DEF IInv, HoursHaveRows
  <1> QED BY <1>3, <1>4, <1>5, <1>6 DEF IInv

\* Nothing said of the cursor is disturbed when the key is gone.
LEMMA EvictInv == IInv /\ EvictCursor => IInv'
  <1> SUFFICES ASSUME IInv, EvictCursor PROVE IInv'
    OBVIOUS
  <1>1. /\ UNCHANGED <<clock, stream, seen, visits, engagement, logged, pc, next, last, found, now,
                       session, rows, store>>
        /\ cursor' = 0
    BY DEF EvictCursor, external, committed, work
  <1>2. faults' \in [FaultKinds -> Nat]
    BY DEF EvictCursor, Fault, FaultKinds, IInv, TypeOK
  <1>3. /\ Len(stream) \in Nat /\ cursor \in 0..Len(stream) /\ last \in 0..Len(stream)
    BY DEF IInv, TypeOK
  <1>4. TypeOK'
    BY <1>1, <1>2, <1>3 DEF IInv, TypeOK
  <1>5. BatchFits'
    BY <1>1, <1>3 DEF IInv, BatchFits
  <1>6. ViewsExtend' /\ BatchKept' /\ HoursCovered' /\ HoursHaveRows'
    BY <1>1 DEF IInv, ViewsExtend, InTransaction, Extends, BatchKept, Kept, Valid, SameVisitor,
       HoursCovered, HoursHaveRows
  <1>7. EntriesKept'
    BY <1>1 DEF EntriesKept
  <1> QED BY <1>4, <1>5, <1>6, <1>7 DEF IInv

LEMMA ActivitiesInv == IInv /\ FlushActivities => IInv'
  <1> SUFFICES ASSUME IInv, FlushActivities PROVE IInv'
    OBVIOUS
  <1>1. /\ UNCHANGED <<clock, stream, seen, cursor, visits, engagement, next, last, found, now, session, rows, store, faults>>
        /\ pc' = "idle"
        /\ logged' = [x \in DOMAIN seen |-> IF x[1] \in Orphans THEN 0 ELSE seen[x]]
    BY DEF FlushActivities, external, work
  <1>2. TypeOK'
    <2>1. seen \in [Participants \X Sponsors -> 0..clock] /\ 0 \in 0..clock
      BY DEF IInv, TypeOK
    <2>2. logged' \in [Participants \X Sponsors -> 0..clock]
      BY <1>1, <2>1
    <2> QED BY <1>1, <2>2 DEF IInv, TypeOK
  <1>3. BatchFits' /\ ViewsExtend' /\ BatchKept' /\ HoursCovered'
    BY <1>1 DEF BatchFits, ViewsExtend, BatchKept, HoursCovered, InTransaction
  <1>4. EntriesKept'
    BY <1>1 DEF IInv, EntriesKept, Valid, SameVisitor
  <1>5. HoursHaveRows'
    BY <1>1 DEF IInv, HoursHaveRows
  <1> QED BY <1>2, <1>3, <1>4, <1>5 DEF IInv
-----------------------------------------------------------------------------
(***************************************************************************)
(* Theorems                                                                *)
(***************************************************************************)
\* One case per action.
LEMMA StepInv == IInv /\ [Next]_vars => IInv'
  <1> SUFFICES ASSUME IInv, [Next]_vars PROVE IInv'
    OBVIOUS
  <1>1. CASE Tick BY <1>1, TickInv
  <1>2. ASSUME NEW p \in Participants, NEW s \in Sponsors,
               (\E kind \in Kinds : CrossLine(kind, p, s)) \/ SeeInBooth(p, s)
        PROVE  IInv'
    BY <1>2, CrossInv, SeeInv
  <1>3. CASE Work
    BY <1>3, BeginInv, PassInv, EntryInv, ExitInv, SweepInv, CommitInv, SetCursorInv, ForgetInv, ActivitiesInv
       DEF Work
  <1>4. CASE FailSql \/ Crash \/ EvictCursor BY <1>4, ForgetInv, EvictInv
  <1>5. CASE UNCHANGED vars BY <1>5, StutterInv
  <1> QED BY <1>1, <1>2, <1>3, <1>4, <1>5 DEF Next

\* The strengthening of the invariants holds in every reachable state.
THEOREM Inductive == Spec => []IInv
  <1> QED BY InitInv, StepInv, PTL DEF Spec

\* Every reachable state of process_sponsor_events and what surrounds it is well typed.
THEOREM TypeCorrect == Spec => []TypeOK
  <1>1. IInv => TypeOK
    BY DEF IInv
  <1> QED BY <1>1, Inductive, PTL

\* An entry the cursor has passed left its visit in the table.
THEOREM AcknowledgedIsKept == Spec => []EntriesKept
  <1>1. IInv => EntriesKept
    BY DEF IInv
  <1> QED BY <1>1, Inductive, PTL

\* No committed visit is without the rows of its hours.
THEOREM VisitsHaveHours == Spec => []HoursHaveRows
  <1>1. IInv => HoursHaveRows
    BY DEF IInv
  <1> QED BY <1>1, Inductive, PTL

\* The only step that changes the table extends it.
THEOREM ClosedStaysClosed == Spec => ClosedIsFinal
  <1> DEFINE Final == \A i \in DOMAIN visits :
                        /\ i \in DOMAIN visits'
                        /\ visits'[i] = [visits[i] EXCEPT !.exited = visits'[i].exited]
                        /\ visits[i].exited # Open => visits'[i] = visits[i]
  <1>1. ASSUME IInv, [Next]_vars PROVE Final \/ UNCHANGED vars
    <2>1. CASE Commit
      <3>1. Extends(visits, session) /\ visits' = session
        BY <1>1, <2>1 DEF Commit, IInv, ViewsExtend, InTransaction
      <3> QED BY <3>1 DEF Extends
    <2>2. CASE UNCHANGED visits
      <3>1. \A i \in DOMAIN visits : visits[i] \in Visit
        BY <1>1 DEF IInv, TypeOK
      <3>2. \A v \in Visit : v = [v EXCEPT !.exited = v.exited]
        BY DEF Visit
      <3> QED BY <2>2, <3>1, <3>2
    <2>3. CASE UNCHANGED vars BY <2>3
    <2>4. Commit \/ UNCHANGED visits \/ UNCHANGED vars
      BY <1>1 DEF Next, Work, Tick, CrossLine, SeeInBooth, BeginFlush, SkipInvalid, ApplyEntry, ApplyExit,
         IgnoreExit, RejectOrphan, Sweep, SetCursor, FlushActivities, FailSql, Crash, EvictCursor,
         committed
    <2> QED BY <2>1, <2>2, <2>3, <2>4
  <1>2. IInv /\ [Next]_vars => [Final]_vars
    BY <1>1
  <1> QED BY <1>2, Inductive, PTL DEF Spec, ClosedIsFinal
-----------------------------------------------------------------------------
(***************************************************************************)
(* Visits end after they began, unless the stream is read again            *)
(***************************************************************************)
\* The visits of v are in order, and begin before the events from k on.
Before(v, k) ==
  \A i \in DOMAIN v :
    /\ v[i].entered <= clock
    /\ v[i].exited # Open => v[i].entered <= v[i].exited
    /\ \A j \in k..Len(stream) : v[i].entered <= stream[j].at

\* Nothing has made the worker read what it read before.
NoReplay == faults["crash"] = 0 /\ faults["evict"] = 0

\* Events come in the order of time, and the table and the session are of those that are not
\* to be applied any more; a replay, after a crash or an eviction, is what would break this.
OrderInv ==
  NoReplay =>
    /\ pc \in {"apply", "commit", "cursor"} /\ ~(found > 0) => last = cursor
    /\ \A j \in 1..Len(stream) : stream[j].at <= clock
    /\ \A j, k \in 1..Len(stream) : j <= k => stream[j].at <= stream[k].at
    /\ Before(visits, (IF pc = "cursor" THEN last ELSE cursor) + 1)
    /\ pc = "apply" => Before(session, next)
    /\ pc = "commit" => Before(session, last + 1)

LEMMA TimesAreNat ==
  ASSUME TypeOK
  PROVE  /\ \A i \in DOMAIN visits : visits[i].entered \in Nat /\ visits[i].exited \in Nat
         /\ \A i \in DOMAIN session : session[i].entered \in Nat /\ session[i].exited \in Nat
         /\ \A j \in 1..Len(stream) : stream[j].at \in Nat
         /\ clock \in Nat /\ now \in Nat
         /\ cursor \in Nat /\ next \in Nat /\ last \in Nat /\ Len(stream) \in Nat
  <1>1. \A v \in Visit : v.entered \in Nat /\ v.exited \in Nat
    BY ConstantsAssumption DEF Visit
  <1>2. \A e \in Event : e.at \in Nat
    BY ConstantsAssumption DEF Event
  <1>3. \A i \in DOMAIN visits : visits[i] \in Visit
    BY DEF TypeOK
  <1>4. \A i \in DOMAIN session : session[i] \in Visit
    BY DEF TypeOK
  <1>5. \A j \in 1..Len(stream) : stream[j] \in Event
    BY DEF TypeOK
  <1> QED BY <1>1, <1>2, <1>3, <1>4, <1>5, ConstantsAssumption DEF TypeOK

LEMMA OrderTick == IInv /\ OrderInv /\ Tick => OrderInv'
  <1> SUFFICES ASSUME IInv, OrderInv, Tick PROVE OrderInv'
    OBVIOUS
  <1>1. /\ UNCHANGED <<stream, cursor, visits, pc, next, last, found, session, faults>>
        /\ clock \in Nat /\ clock' = clock + 1
    BY ConstantsAssumption DEF Tick, committed, work, IInv, TypeOK
  <1>2. Before(visits, (IF pc = "cursor" THEN last ELSE cursor) + 1)
          => Before(visits, (IF pc = "cursor" THEN last ELSE cursor) + 1)'
    BY <1>1, TimesAreNat DEF IInv, Before
  <1>3. /\ Before(session, next) => Before(session, next)'
        /\ Before(session, last + 1) => Before(session, last + 1)'
    BY <1>1, TimesAreNat DEF IInv, Before
  <1>4. \A j \in 1..Len(stream) : stream[j].at <= clock => stream[j].at <= clock'
    BY <1>1, TimesAreNat DEF IInv
  <1> QED BY <1>1, <1>2, <1>3, <1>4 DEF OrderInv, NoReplay

\* A new event is later than all there is.
LEMMA OrderCross ==
  ASSUME IInv, OrderInv, NEW kind \in Kinds, NEW p \in Participants, NEW s \in Sponsors,
         CrossLine(kind, p, s)
  PROVE  OrderInv'
  <1> DEFINE e == [kind |-> kind, pid |-> p, sponsor |-> s, at |-> clock]
  <1>1. /\ UNCHANGED <<clock, cursor, visits, pc, next, last, found, session, faults>>
        /\ stream' = Append(stream, e)
    BY DEF CrossLine, committed, work
  <1>2. e \in Event /\ e.at = clock /\ clock \in Nat
    BY ConstantsAssumption DEF IInv, TypeOK, Event
  <1> HIDE DEF e
  <1>3. /\ Len(stream) \in Nat /\ Len(stream') = Len(stream) + 1
        /\ \A k \in 1..Len(stream) : stream'[k] = stream[k]
        /\ stream'[Len(stream) + 1] = e
    BY <1>1, <1>2 DEF IInv, TypeOK
  <1>4. cursor \in Nat /\ next \in Nat /\ last \in Nat /\ (pc = "apply" => next >= 1)
    BY DEF IInv, TypeOK, BatchFits
  <1>5. ASSUME NEW v, NEW k \in Nat, k >= 1, Before(v, k)
        PROVE  \A i \in DOMAIN v : /\ v[i].entered <= clock
                                   /\ v[i].exited # Open => v[i].entered <= v[i].exited
                                   /\ \A j \in k..Len(stream') : v[i].entered <= stream'[j].at
    <2>1. \A j \in k..Len(stream') : (j \in k..Len(stream) /\ j \in 1..Len(stream)) \/ j = Len(stream) + 1
      BY <1>3, <1>5
    <2> QED BY <1>2, <1>3, <1>5, <2>1 DEF Before
  <1>6. ASSUME NoReplay
        PROVE  /\ \A j \in 1..Len(stream') : stream'[j].at <= clock
               /\ \A j, k \in 1..Len(stream') : j <= k => stream'[j].at <= stream'[k].at
    <2>1. \A j \in 1..Len(stream') : j \in 1..Len(stream) \/ j = Len(stream) + 1
      BY <1>3
    <2>2. \A j \in 1..Len(stream') : stream'[j].at <= clock
      BY <1>2, <1>3, <1>6, <2>1 DEF OrderInv, NoReplay
    <2>3. ASSUME NEW j \in 1..Len(stream'), NEW k \in 1..Len(stream'), j <= k
          PROVE  stream'[j].at <= stream'[k].at
      <3>1. CASE k = Len(stream) + 1
        BY <1>2, <1>3, <2>2, <3>1
      <3>2. CASE k \in 1..Len(stream)
        <4>1. j \in 1..Len(stream)
          BY <1>3, <2>3, <3>2
        <4> QED BY <1>3, <1>6, <2>3, <3>2, <4>1 DEF OrderInv, NoReplay
      <3> QED BY <2>1, <3>1, <3>2
    <2> QED BY <2>2, <2>3
  <1>7. ASSUME NoReplay
        PROVE  Before(visits, (IF pc = "cursor" THEN last ELSE cursor) + 1)'
    <2>1. (IF pc = "cursor" THEN last ELSE cursor) + 1 \in Nat
          /\ (IF pc = "cursor" THEN last ELSE cursor) + 1 >= 1
      BY <1>4
    <2>2. Before(visits, (IF pc = "cursor" THEN last ELSE cursor) + 1)
      BY <1>7 DEF OrderInv, NoReplay
    <2> QED BY <1>1, <1>5, <2>1, <2>2 DEF Before
  <1>8. ASSUME NoReplay, pc = "apply" PROVE Before(session, next)'
    BY <1>1, <1>4, <1>5, <1>8 DEF OrderInv, NoReplay, Before
  <1>9. ASSUME NoReplay, pc = "commit" PROVE Before(session, last + 1)'
    <2>1. Before(session, last + 1) /\ last + 1 \in Nat /\ last + 1 >= 1
      BY <1>4, <1>9 DEF OrderInv, NoReplay
    <2> QED BY <1>1, <1>5, <2>1 DEF Before
  <1> QED BY <1>1, <1>6, <1>7, <1>8, <1>9 DEF OrderInv, NoReplay

\* Entries and exits of the batch.
LEMMA OrderApply ==
  IInv /\ OrderInv /\ (SkipInvalid \/ IgnoreExit \/ ApplyEntry \/ ApplyExit) => OrderInv'
  <1> SUFFICES ASSUME IInv, OrderInv, SkipInvalid \/ IgnoreExit \/ ApplyEntry \/ ApplyExit
               PROVE  OrderInv'
    OBVIOUS
  <1>1. /\ UNCHANGED <<clock, stream, cursor, visits, pc, last, found, faults>>
        /\ pc = "apply" /\ next' = next + 1 /\ Applying
    BY DEF SkipInvalid, IgnoreExit, ApplyEntry, ApplyExit, external, committed, Applying, Advance
  <1>2. next \in 1..Len(stream) /\ Current = stream[next]
    BY <1>1, CurrentIsEvent DEF IInv, Current
  <1> SUFFICES ASSUME NoReplay PROVE Before(session, next)'
    BY <1>1 DEF OrderInv, NoReplay, Before
  <1>3. Before(session, next)
    BY <1>1 DEF OrderInv, NoReplay
  <1>4. /\ Current.at <= clock /\ Current.at \in Nat
        /\ \A j \in next..Len(stream) : Current.at <= stream[j].at
    <2>1. \A j \in next..Len(stream) : j \in 1..Len(stream) /\ next <= j
      BY <1>2, TimesAreNat DEF IInv
    <2> QED BY <1>2, <2>1, TimesAreNat DEF OrderInv, IInv
  <1>5. \A j \in (next + 1)..Len(stream) : j \in next..Len(stream)
    BY <1>2
  <1>6. CASE SkipInvalid \/ IgnoreExit
    <2>1. session' = session
      BY <1>6 DEF SkipInvalid, IgnoreExit
    <2> QED BY <1>1, <1>3, <1>5, <2>1 DEF Before
  <1>7. CASE ApplyEntry
    <2>1. session' = Append(session, NewVisit)
      BY <1>7 DEF ApplyEntry, NewVisit
    <2>2. /\ \A i \in DOMAIN session' : i \in DOMAIN session \/ i = Len(session) + 1
          /\ \A i \in DOMAIN session : session'[i] = session[i]
          /\ session'[Len(session) + 1] = NewVisit
      BY <2>1 DEF IInv, TypeOK
    <2>3. NewVisit.entered = Current.at /\ NewVisit.exited = Open
      BY DEF NewVisit
    <2> QED BY <1>1, <1>3, <1>4, <1>5, <2>2, <2>3 DEF Before
  <1>8. CASE ApplyExit
    <2>1. PICK c \in MostRecent(Current) : session' = [session EXCEPT ![c] = Closed(@, Current.at)]
      BY <1>8 DEF ApplyExit
    <2>2. /\ DOMAIN session' = DOMAIN session
          /\ \A i \in DOMAIN session : i # c => session'[i] = session[i]
          /\ c \in DOMAIN session => session'[c] = Closed(session[c], Current.at)
      BY <2>1 DEF IInv, TypeOK
    <2>3. ASSUME c \in DOMAIN session
          PROVE  session'[c].entered = session[c].entered /\ session'[c].exited = Current.at
      <3>1. session[c] \in Visit
        BY <2>3 DEF IInv, TypeOK
      <3>2. Current.at \in 0..MaxTime
        BY <1>1, CurrentIsEvent DEF IInv
      <3> QED BY <2>2, <2>3, <3>1, <3>2, ClosedVisit
    <2>4. next \in next..Len(stream)
      BY <1>2
    <2>5. c \in DOMAIN session => session[c].entered <= Current.at
      BY <1>2, <1>3, <2>4 DEF Before
    <2> QED BY <1>1, <1>3, <1>4, <1>5, <2>2, <2>3, <2>5 DEF Before
  <1> QED BY <1>6, <1>7, <1>8

\* The sweep closes what was entered long ago.
LEMMA OrderSweep == IInv /\ OrderInv /\ Sweep => OrderInv'
  <1> SUFFICES ASSUME IInv, OrderInv, Sweep PROVE OrderInv'
    OBVIOUS
  <1>1. /\ UNCHANGED <<clock, stream, cursor, visits, next, last, found, now, faults>>
        /\ pc = "apply" /\ next > last /\ pc' = "commit"
        /\ session' = [i \in DOMAIN session |-> AutoClose(i)]
    BY DEF Sweep, external, committed
  <1> SUFFICES ASSUME NoReplay PROVE Before(session, last + 1)'
    BY <1>1 DEF OrderInv, NoReplay, Before
  <1>2. Before(session, next) /\ next = last + 1
    BY <1>1, TimesAreNat DEF OrderInv, IInv, BatchFits
  <1>3. ASSUME NEW i \in Stale, i \in DOMAIN session
        PROVE  /\ Closed(session[i], now).entered = session[i].entered
               /\ Closed(session[i], now).exited = now /\ session[i].entered <= now
    <2>1. session[i] \in Visit /\ now \in 0..MaxTime
      BY <1>3, ConstantsAssumption DEF IInv, TypeOK
    <2>2. session[i].entered + Timeout <= now
      BY DEF Stale, ShouldAutoClose
    <2>3. session[i].entered <= now
      BY <1>3, <2>2, TimesAreNat, ConstantsAssumption DEF IInv
    <2> QED BY <2>1, <2>3, ClosedVisit
  <1> QED BY <1>1, <1>2, <1>3 DEF Before, AutoClose

LEMMA OrderRest ==
  ASSUME IInv, OrderInv,
         BeginFlush \/ Commit \/ SetCursor \/ FlushActivities \/ RejectOrphan \/ FailSql
           \/ Crash \/ EvictCursor
  PROVE  OrderInv'
  <1>1. CASE BeginFlush
    <2>1. /\ UNCHANGED <<clock, stream, cursor, visits, faults>> /\ pc = "idle"
          /\ pc' = "apply" /\ next' = cursor + 1 /\ session' = visits
          /\ last' = LastRead /\ found' = LastRead - cursor
      BY <1>1 DEF BeginFlush, external, committed
    <2>2. ~(found' > 0) => last' = cursor
      BY <2>1, ConstantsAssumption DEF LastRead, IInv, TypeOK
    <2> QED BY <2>1, <2>2 DEF OrderInv, NoReplay, Before
  <1>2. CASE Commit
    <2>1. /\ UNCHANGED <<clock, stream, cursor, last, found, session, faults>> /\ pc = "commit"
          /\ pc' = "cursor" /\ visits' = session
      BY <1>2 DEF Commit, external, work
    <2> QED BY <2>1 DEF OrderInv, NoReplay, Before
  <1>3. CASE SetCursor
    <2>1. /\ UNCHANGED <<clock, stream, visits, faults>> /\ pc = "cursor"
          /\ pc' = "activity" /\ cursor' = IF found > 0 THEN last ELSE cursor
      BY <1>3 DEF SetCursor, external, committed
    <2>2. NoReplay => cursor' = last
      BY <2>1 DEF OrderInv, NoReplay
    <2> QED BY <2>1, <2>2 DEF OrderInv, NoReplay, Before
  <1>4. CASE FlushActivities
    <2>1. /\ UNCHANGED <<clock, stream, cursor, visits, faults>> /\ pc = "activity" /\ pc' = "idle"
      BY <1>4 DEF FlushActivities, external
    <2> QED BY <2>1 DEF OrderInv, NoReplay, Before
  <1>5. CASE RejectOrphan \/ FailSql
    <2>1. /\ UNCHANGED <<clock, stream, cursor, visits>> /\ pc # "cursor" /\ pc' = "activity"
      BY <1>5 DEF RejectOrphan, FailSql, Applying, external, committed
    <2>2. faults'["crash"] = faults["crash"] /\ faults'["evict"] = faults["evict"]
      BY <1>5 DEF RejectOrphan, FailSql, Fault, FaultKinds, IInv, TypeOK
    <2> QED BY <2>1, <2>2 DEF OrderInv, NoReplay, Before
  <1>6. CASE Crash \/ EvictCursor
    <2>1. faults'["crash"] # 0 \/ faults'["evict"] # 0
      BY <1>6 DEF Crash, EvictCursor, Fault, FaultKinds, IInv, TypeOK
    <2> QED BY <2>1 DEF OrderInv, NoReplay
  <1> QED BY <1>1, <1>2, <1>3, <1>4, <1>5, <1>6

\* As long as neither a crash nor an eviction of the cursor makes the worker read the
\* stream again, no visit ends before it began, whichever transactions fail.
THEOREM VisitsEndAfterwards == Spec => []ExitAfterEntry
  <1>1. Init => IInv /\ OrderInv
    BY InitInv DEF Init, OrderInv, Before
  <1>2. IInv /\ OrderInv /\ [Next]_vars => IInv' /\ OrderInv'
    <2> SUFFICES ASSUME IInv, OrderInv, [Next]_vars PROVE OrderInv'
      BY StepInv
    <2>1. CASE Tick BY <2>1, OrderTick
    <2>2. ASSUME NEW p \in Participants, NEW s \in Sponsors, NEW kind \in Kinds, CrossLine(kind, p, s)
          PROVE  OrderInv'
      BY <2>2, OrderCross
    <2>3. CASE Work
      BY <2>3, OrderApply, OrderSweep, OrderRest DEF Work
    <2>4. CASE FailSql \/ Crash \/ EvictCursor BY <2>4, OrderRest
    <2>5. CASE UNCHANGED <<clock, stream, cursor, visits, pc, next, last, found, session, faults>>
      BY <2>5 DEF OrderInv, NoReplay, Before
    <2>6. ASSUME NEW p \in Participants, NEW s \in Sponsors, SeeInBooth(p, s)
          PROVE  OrderInv'
      BY <2>5, <2>6 DEF SeeInBooth, committed, work
    <2> QED BY <2>1, <2>2, <2>3, <2>4, <2>5, <2>6 DEF Next, vars, external, committed, work
  <1>3. OrderInv => ExitAfterEntry
    BY DEF OrderInv, NoReplay, Before, ExitAfterEntry
  <1> QED BY <1>1, <1>2, <1>3, PTL DEF Spec
=============================================================================

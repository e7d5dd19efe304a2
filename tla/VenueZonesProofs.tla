--------------------------- MODULE VenueZonesProofs ---------------------------
(***************************************************************************)
(* For all zones, areas, administrators and fault budgets: types, that a   *)
(* camera with old zones will be told, that no activity is logged in a     *)
(* zone that does not exist, and that each logged activity is true of a    *)
(* zone of that name.                                                      *)
(***************************************************************************)
EXTENDS VenueZones, TLAPS

-----------------------------------------------------------------------------
(***************************************************************************)
(* The inductive invariant                                                 *)
(***************************************************************************)
\* A create that is not committed has a whole row to save.
CreatesWhole ==
  \A a \in Admins :
    (request[a] # Idle /\ request[a].op = "create" /\ ~request[a].committed)
      => request[a].body \in Rows

\* Every row of the table is among those its id has had.
SavedIsHad == \A i \in Ids : saved[i] # None => saved[i] \in had[i]

\* What a camera works with, or is about to, was given to it by the file or the table.
Given == FromFile \cup UNION {had[i] : i \in Ids}
ViewIsGiven == view \subseteq Given /\ (loading # None => loading \subseteq Given)

\* An event that names a zone is true of a row the camera was given.
StreamIsTrue ==
  (stream # None /\ stream.name # Unassigned) =>
    \E r \in Given : r.name = stream.name /\ stream.spot \in r.area

\* The worker's map sends a name to an id that has had it.
FlushIsTrue ==
  flush # None =>
    \A n \in Names : flush[n] # None => \E r \in had[flush[n]] : r.name = n

IInv ==
  /\ TypeOK /\ StaleIsAnnounced /\ LoggedZonesExist /\ RowsAreTrue
  /\ CreatesWhole /\ SavedIsHad /\ ViewIsGiven /\ StreamIsTrue /\ FlushIsTrue
-----------------------------------------------------------------------------
(***************************************************************************)
(* Lemmas on the helpers                                                   *)
(***************************************************************************)
\* The file's zones are rows.
LEMMA FileRows == FromFile \subseteq Rows
  BY ConstantsAssumption DEF FromFile

\* A load returns rows, all of the file or all of the table.
LEMMA LoadedRows ==
  ASSUME NEW table \in [Ids -> Rows \cup {None}]
  PROVE  /\ Loaded(table) \subseteq Rows
         /\ Loaded(table) = FromFile \/ Loaded(table) = {table[i] : i \in Existing(table)}
  <1>1. {table[i] : i \in Existing(table)} \subseteq Rows
    BY DEF Existing
  <1> QED BY <1>1, FileRows, Zenon DEF Loaded

\* An update yields a row.
LEMMA MergedRow ==
  ASSUME NEW now \in Rows, NEW body \in Bodies
  PROVE  Merged(now, body) \in Rows
  BY DEF Merged, Rows, Bodies

\* What is loaded from the table is among what its ids have had.
LEMMA LoadedGiven ==
  ASSUME TypeOK, SavedIsHad
  PROVE  Loaded(saved) \subseteq Given
  <1>1. {saved[i] : i \in Existing(saved)} \subseteq Given
    BY DEF Existing, SavedIsHad, Given
  <1>2. FromFile \subseteq Given
    BY DEF Given
  <1>3. saved \in [Ids -> Rows \cup {None}]
    BY DEF TypeOK
  <1> QED BY <1>1, <1>2, <1>3, LoadedRows, Zenon
-----------------------------------------------------------------------------
(***************************************************************************)
(* Initially                                                               *)
(***************************************************************************)
LEMMA InitType == Init => TypeOK
  <1> SUFFICES ASSUME Init PROVE TypeOK
    OBVIOUS
  <1>1. saved \in [Ids -> Rows \cup {None}]
    BY ConstantsAssumption DEF Init
  <1>2. had \in [Ids -> SUBSET Rows]
    BY <1>1 DEF Init
  <1>3. view \subseteq Rows
    BY <1>1, LoadedRows, FileRows DEF Init, LoadZones
  <1>4. missed \in BOOLEAN /\ logs = {}
    BY Zenon DEF Init
  <1>5. request \in [Admins -> {Idle} \cup Requests]
    BY DEF Init
  <1>6. occupancy \in [Names -> {0, 1}] /\ loading = None /\ stream = None /\ flush = None
    BY DEF Init
  <1>7. /\ notices \in Nat /\ listener = "starting" /\ notices = 0
        /\ edits \in 0..MaxEdits /\ faults \in 0..MaxFaults
    BY ConstantsAssumption DEF Init
  <1> QED BY <1>1, <1>2, <1>3, <1>4, <1>5, <1>6, <1>7 DEF TypeOK

LEMMA InitInvariant == Init => IInv
  <1> SUFFICES ASSUME Init PROVE IInv
    OBVIOUS
  <1>1. TypeOK
    BY InitType
  <1>2. StaleIsAnnounced
    BY DEF Init, StaleIsAnnounced, LoadZones
  <1>3. LoggedZonesExist /\ RowsAreTrue
    BY DEF Init, LoggedZonesExist, RowsAreTrue
  <1>4. CreatesWhole
    BY DEF Init, CreatesWhole
  <1>5. SavedIsHad
    BY <1>1 DEF Init, SavedIsHad, TypeOK
  <1>6. ViewIsGiven
    BY <1>1, <1>5, LoadedGiven DEF Init, ViewIsGiven, LoadZones, Given
  <1>7. StreamIsTrue /\ FlushIsTrue
    BY DEF Init, StreamIsTrue, FlushIsTrue
  <1> QED BY <1>1, <1>2, <1>3, <1>4, <1>5, <1>6, <1>7 DEF IInv
-----------------------------------------------------------------------------
(***************************************************************************)
(* The edits                                                               *)
(***************************************************************************)
\* Saving keeps the table's types, and an id keeps the rows it has had.
LEMMA SaveKeeps ==
  ASSUME IInv, NEW i \in Ids, NEW row \in Rows \cup {None}, Save(i, row)
  PROVE  /\ saved' \in [Ids -> Rows \cup {None}] /\ had' \in [Ids -> SUBSET Rows]
         /\ saved'[i] = row /\ \A j \in Ids \ {i} : saved'[j] = saved[j]
         /\ SavedIsHad'
         /\ \A j \in Ids : had[j] \subseteq had'[j]
  <1>1. saved \in [Ids -> Rows \cup {None}] /\ had \in [Ids -> SUBSET Rows]
    BY DEF IInv, TypeOK
  <1>2. /\ saved' \in [Ids -> Rows \cup {None}] /\ had' \in [Ids -> SUBSET Rows]
        /\ saved'[i] = row /\ had'[i] = had[i] \cup ({row} \ {None})
        /\ \A j \in Ids \ {i} : saved'[j] = saved[j] /\ had'[j] = had[j]
    BY <1>1 DEF Save
  <1>3. SavedIsHad'
    BY <1>2 DEF IInv, SavedIsHad
  <1>4. \A j \in Ids : had[j] \subseteq had'[j]
    BY <1>2
  <1> QED BY <1>2, <1>3, <1>4

\* What was true of rows some zone has had stays true when zones get more rows.
LEMMA RowsGrow ==
  ASSUME IInv, \A j \in Ids : had[j] \subseteq had'[j],
         UNCHANGED <<logs, view, loading, stream, flush>>
  PROVE  RowsAreTrue' /\ ViewIsGiven' /\ StreamIsTrue' /\ FlushIsTrue'
  <1>1. Given \subseteq Given'
    BY DEF Given, FromFile
  <1>2. logs' = logs /\ view' = view /\ loading' = loading /\ stream' = stream /\ flush' = flush
    OBVIOUS
  <1>3. ViewIsGiven'
    BY <1>1, <1>2 DEF IInv, ViewIsGiven
  <1>4. StreamIsTrue'
    BY <1>1, <1>2 DEF IInv, StreamIsTrue
  <1>5. FlushIsTrue'
    <2> SUFFICES ASSUME flush # None, NEW n \in Names, flush[n] # None
                 PROVE  \E r \in had'[flush[n]] : r.name = n
      BY <1>2 DEF FlushIsTrue
    <2>1. flush[n] \in Ids
      BY DEF IInv, TypeOK
    <2>2. PICK r \in had[flush[n]] : r.name = n
      BY DEF IInv, FlushIsTrue
    <2> QED BY <2>1, <2>2
  <1>6. RowsAreTrue'
    <2> SUFFICES ASSUME NEW l \in logs
                 PROVE  /\ \E r \in Given' : Inside(r, l)
                        /\ \E r \in had'[l.zone] : r.name = l.name
      BY <1>2 DEF RowsAreTrue, Given, Inside
    <2>1. l.zone \in Ids
      BY DEF IInv, TypeOK
    <2>2. /\ \E r \in Given : Inside(r, l)
          /\ \E r \in had[l.zone] : r.name = l.name
      BY DEF IInv, RowsAreTrue, Given
    <2> QED BY <1>1, <2>1, <2>2
  <1> QED BY <1>3, <1>4, <1>5, <1>6

LEMMA BeginRequestStep ==
  ASSUME IInv, NEW a \in Admins, NEW op \in {"create", "update", "delete"}, NEW i \in Ids,
         NEW body \in Bodies, BeginRequest(a, op, i, body)
  PROVE  IInv'
  <1> DEFINE q == Request(op, i, body)
  <1>1. /\ request[a] = Idle /\ edits < MaxEdits /\ edits' = edits + 1
        /\ op = "create" => body \in Rows
        /\ request' = [request EXCEPT ![a] = q]
        /\ UNCHANGED <<saved, logs, had, view, listener, notices, loading, occupancy, stream,
                       flush, missed, faults>>
    BY DEF BeginRequest, database, camera
  <1>2. /\ q \in Requests
        /\ ~q.committed /\ q.op = op /\ q.body = body
    BY DEF Request, Requests
  <1>3. \A b \in Admins : request'[b] = IF b = a THEN q ELSE request[b]
    BY <1>1 DEF IInv, TypeOK
  <1>4. edits' \in 0..MaxEdits
    BY <1>1, ConstantsAssumption DEF IInv, TypeOK
  <1>5. TypeOK'
    BY <1>1, <1>2, <1>3, <1>4 DEF IInv, TypeOK
  <1>6. StaleIsAnnounced'
    <2>1. Loaded(saved)' = Loaded(saved)
      BY <1>1 DEF Loaded, Existing
    <2>2. Coming => Coming'
      <3>1. ASSUME NEW b \in Admins, request[b] # Idle, Announces(request[b])
            PROVE  request'[b] # Idle /\ Announces(request[b])'
        <4>1. b # a
          BY <1>1, <3>1
        <4>2. request'[b] = request[b]
          BY <1>3, <4>1
        <4> QED BY <1>1, <3>1, <4>2 DEF Announces
      <3> QED BY <1>1, <3>1 DEF Coming
    <2> QED BY <1>1, <2>1, <2>2 DEF IInv, StaleIsAnnounced
  <1>7. LoggedZonesExist' /\ SavedIsHad'
    BY <1>1 DEF IInv, LoggedZonesExist, SavedIsHad
  <1>8. CreatesWhole'
    BY <1>1, <1>2, <1>3 DEF IInv, CreatesWhole
  <1>9. RowsAreTrue' /\ ViewIsGiven' /\ StreamIsTrue' /\ FlushIsTrue'
    BY <1>1, RowsGrow
  <1> QED BY <1>5, <1>6, <1>7, <1>8, <1>9 DEF IInv

\* A commit keeps the zones that are logged, and its announcement is still to come.
LEMMA CommitStep ==
  ASSUME IInv, NEW a \in Admins, request[a] # Idle, ~request[a].committed,
         NEW row \in Rows \cup {None}, Commit(a, request[a].id, row),
         row = None => request[a].op = "delete" /\ MayDelete(request[a].id),
         UNCHANGED <<camera, occupancy, stream, flush, missed, edits, faults>>
  PROVE  IInv'
  <1> DEFINE q == request[a]
             done == [q EXCEPT !.body = Nothing, !.committed = TRUE]
  <1>1. /\ UNCHANGED <<logs, view, listener, notices, loading, occupancy, stream, flush, missed,
                       edits, faults>>
        /\ Save(q.id, row) /\ request' = [request EXCEPT ![a] = done]
    BY DEF Commit, camera, Save
  <1>2. q \in Requests /\ q.id \in Ids
    BY DEF IInv, TypeOK, Requests
  <1>3. done \in Requests /\ done.committed /\ done.op = q.op /\ done.id = q.id /\ done # Idle
    BY <1>2 DEF Requests, Bodies, Nothing, Idle
  <1>4. \A b \in Admins : request'[b] = IF b = a THEN done ELSE request[b]
    BY <1>1 DEF IInv, TypeOK
  <1>5. /\ saved' \in [Ids -> Rows \cup {None}] /\ had' \in [Ids -> SUBSET Rows]
        /\ saved'[q.id] = row /\ \A j \in Ids \ {q.id} : saved'[j] = saved[j]
        /\ SavedIsHad'
        /\ \A j \in Ids : had[j] \subseteq had'[j]
    BY <1>1, <1>2, SaveKeeps
  <1>6. TypeOK'
    BY <1>1, <1>3, <1>4, <1>5 DEF IInv, TypeOK
  <1>7. StaleIsAnnounced'
    <2>1. request'[a] # Idle /\ Announces(request[a])'
      BY <1>3, <1>4, <1>5 DEF Announces
    <2> QED BY <2>1, Zenon DEF StaleIsAnnounced, Coming
  <1>8. LoggedZonesExist'
    <2> SUFFICES ASSUME NEW l \in logs PROVE saved'[l.zone] # None
      BY <1>1 DEF LoggedZonesExist
    <2>1. l.zone \in Ids /\ saved[l.zone] # None
      BY DEF IInv, TypeOK, LoggedZonesExist
    <2>2. CASE row = None
      BY <1>5, <2>1, <2>2 DEF MayDelete
    <2>3. CASE row # None
      BY <1>5, <2>1, <2>3
    <2> QED BY <2>2, <2>3
  <1>9. CreatesWhole'
    BY <1>3, <1>4 DEF IInv, CreatesWhole
  <1>10. RowsAreTrue' /\ ViewIsGiven' /\ StreamIsTrue' /\ FlushIsTrue'
    BY <1>1, <1>5, RowsGrow
  <1> QED BY <1>5, <1>6, <1>7, <1>8, <1>9, <1>10 DEF IInv

\* A request that ends takes its announcement along only if there is nothing to announce,
\* or if it was made.
LEMMA EndStep ==
  ASSUME IInv, NEW a \in Admins, request' = [request EXCEPT ![a] = Idle],
         UNCHANGED <<database, view, listener, loading, occupancy, stream, flush, edits>>,
         notices' \in Nat, listener # "listening" => notices' = 0,
         missed' \in BOOLEAN, faults' \in 0..MaxFaults,
         missed => missed',
         missed' \/ notices' > 0
           \/ (notices' = notices /\ (request[a] = Idle \/ ~Announces(request[a])))
  PROVE  IInv'
  <1>1. UNCHANGED <<saved, logs, had, view, listener, loading, occupancy, stream, flush, edits>>
    BY DEF database
  <1>2. \A b \in Admins : request'[b] = IF b = a THEN Idle ELSE request[b]
    BY DEF IInv, TypeOK
  <1>3. TypeOK'
    <2>1. request' \in [Admins -> {Idle} \cup Requests]
      BY DEF IInv, TypeOK
    <2> QED BY <1>1, <2>1 DEF IInv, TypeOK
  <1>4. StaleIsAnnounced'
    <2>1. CASE missed' \/ notices' > 0
      BY <2>1 DEF StaleIsAnnounced, Coming
    <2>2. CASE /\ ~missed' /\ notices' = notices
               /\ request[a] = Idle \/ ~Announces(request[a])
      <3>1. (IF loading = None THEN view ELSE loading) = Loaded(saved) \/ Coming
        BY <2>2 DEF IInv, StaleIsAnnounced
      <3>2. CASE (IF loading = None THEN view ELSE loading) = Loaded(saved)
        BY <1>1, <3>2 DEF StaleIsAnnounced, Loaded, Existing
      <3>3. CASE notices > 0
        BY <2>2, <3>3 DEF StaleIsAnnounced, Coming
      <3>4. CASE \E b \in Admins : request[b] # Idle /\ Announces(request[b])
        <4>1. PICK b \in Admins : request[b] # Idle /\ Announces(request[b])
          BY <3>4
        <4>2. request'[b] = request[b]
          BY <1>2, <2>2, <4>1
        <4> QED BY <1>1, <4>1, <4>2 DEF StaleIsAnnounced, Coming, Announces
      <3> QED BY <3>1, <3>2, <3>3, <3>4 DEF Coming
    <2> QED BY <2>1, <2>2
  <1>5. LoggedZonesExist' /\ SavedIsHad'
    BY <1>1 DEF IInv, LoggedZonesExist, SavedIsHad
  <1>6. CreatesWhole'
    BY <1>2 DEF IInv, CreatesWhole
  <1>7. RowsAreTrue' /\ ViewIsGiven' /\ StreamIsTrue' /\ FlushIsTrue'
    BY <1>1, RowsGrow
  <1> QED BY <1>3, <1>4, <1>5, <1>6, <1>7 DEF IInv

LEMMA CommitRequestStep == ASSUME IInv, NEW a \in Admins, CommitRequest(a) PROVE IInv'
  <1> DEFINE q == request[a]
  <1>1. /\ q # Idle /\ ~q.committed
        /\ UNCHANGED <<camera, occupancy, stream, flush, missed, edits, faults>>
    BY DEF CommitRequest
  <1>2. q \in Requests /\ q.id \in Ids /\ q.body \in Bodies
    BY <1>1 DEF IInv, TypeOK, Requests
  <1>3. CASE q.op = "create" /\ Commit(a, q.id, q.body)
    <2>1. q.body \in Rows
      BY <1>1, <1>3 DEF IInv, CreatesWhole
    <2> QED BY <1>1, <1>3, <2>1, CommitStep, ConstantsAssumption
  <1>4. CASE saved[q.id] # None /\ Commit(a, q.id, Merged(saved[q.id], q.body))
    <2>1. Merged(saved[q.id], q.body) \in Rows
      BY <1>2, <1>4, MergedRow DEF IInv, TypeOK
    <2> QED BY <1>1, <1>4, <2>1, CommitStep, ConstantsAssumption
  <1>5. CASE q.op = "delete" /\ MayDelete(q.id) /\ Commit(a, q.id, None)
    BY <1>1, <1>5, CommitStep
  <1>6. CASE Refuse(a)
    <2>1. ~Announces(q)
      BY <1>1 DEF Announces
    <2>2. missed \in BOOLEAN /\ notices \in Nat /\ faults \in 0..MaxFaults
      BY Zenon DEF IInv, TypeOK
    <2>3. listener # "listening" => notices = 0
      BY DEF IInv, TypeOK
    <2>4. /\ request' = [request EXCEPT ![a] = Idle]
          /\ UNCHANGED <<database, view, listener, loading, occupancy, stream, flush, edits>>
          /\ notices' = notices /\ missed' = missed /\ faults' = faults
      BY <1>1, <1>6 DEF Refuse, camera
    <2> QED BY <2>1, <2>2, <2>3, <2>4, EndStep, Zenon
  <1> QED BY <1>3, <1>4, <1>5, <1>6 DEF CommitRequest

LEMMA PublishStep == ASSUME IInv, NEW a \in Admins, Publish(a) PROVE IInv'
  <1>1. /\ request' = [request EXCEPT ![a] = Idle]
        /\ UNCHANGED <<database, view, listener, loading, occupancy, stream, flush, edits>>
        /\ faults' = faults
    BY DEF Publish
  <1>2. missed \in BOOLEAN /\ faults \in 0..MaxFaults
    BY Zenon DEF IInv, TypeOK
  <1>3. notices \in Nat /\ (listener # "listening" => notices = 0)
    BY DEF IInv, TypeOK
  <1>4. CASE Announces(request[a]) /\ listener = "listening"
    <2>1. notices' = notices + 1 /\ missed' = missed
      BY <1>4 DEF Publish, Announce
    <2>2. notices' \in Nat /\ notices' > 0
      BY <1>3, <2>1
    <2> QED BY <1>1, <1>2, <1>4, <2>1, <2>2, EndStep, Zenon
  <1>5. CASE Announces(request[a]) /\ listener # "listening"
    <2>1. missed' = TRUE /\ notices' = notices
      BY <1>5 DEF Publish, Announce
    <2> QED BY <1>1, <1>2, <1>3, <1>5, <2>1, EndStep, Zenon
  <1>6. CASE ~Announces(request[a])
    <2>1. missed' = missed /\ notices' = notices
      BY <1>6 DEF Publish
    <2> QED BY <1>1, <1>2, <1>3, <1>6, <2>1, EndStep, Zenon
  <1> QED BY <1>4, <1>5, <1>6

LEMMA FailPublishStep == ASSUME IInv, NEW a \in Admins, FailPublish(a) PROVE IInv'
  <1>1. /\ request' = [request EXCEPT ![a] = Idle] /\ missed' = TRUE /\ notices' = notices
        /\ UNCHANGED <<database, view, listener, loading, occupancy, stream, flush, edits>>
    BY DEF FailPublish, camera
  <1>2. faults' \in 0..MaxFaults
    BY ConstantsAssumption DEF IInv, TypeOK, FailPublish
  <1>3. notices \in Nat /\ (listener # "listening" => notices = 0)
    BY DEF IInv, TypeOK
  <1> QED BY <1>1, <1>2, <1>3, EndStep, Zenon

LEMMA SyncVenueStep == ASSUME IInv, SyncVenue PROVE IInv'
  <1>1. /\ UNCHANGED <<logs, request, view, listener, notices, loading, occupancy, stream, flush,
                       faults>>
        /\ missed' = TRUE /\ edits' = edits + 1 /\ edits < MaxEdits
        /\ saved' = [i \in Ids |-> IF i \in DOMAIN Yaml THEN Yaml[i] ELSE saved[i]]
        /\ had' = [i \in Ids |-> had[i] \cup ({saved'[i]} \ {None})]
    BY DEF SyncVenue, camera
  <1>2. saved' \in [Ids -> Rows \cup {None}]
    BY <1>1, ConstantsAssumption DEF IInv, TypeOK
  <1>3. /\ had' \in [Ids -> SUBSET Rows]
        /\ \A i \in Ids : had[i] \subseteq had'[i]
    BY <1>1, <1>2 DEF IInv, TypeOK
  <1>4. edits' \in 0..MaxEdits
    BY <1>1, ConstantsAssumption DEF IInv, TypeOK
  <1>5. TypeOK'
    BY <1>1, <1>2, <1>3, <1>4 DEF IInv, TypeOK
  <1>6. StaleIsAnnounced'
    BY <1>1 DEF StaleIsAnnounced
  <1>7. LoggedZonesExist'
    BY <1>1, ConstantsAssumption DEF IInv, TypeOK, LoggedZonesExist
  <1>8. SavedIsHad'
    BY <1>1 DEF SavedIsHad
  <1>9. CreatesWhole'
    BY <1>1 DEF IInv, CreatesWhole
  <1>10. RowsAreTrue' /\ ViewIsGiven' /\ StreamIsTrue' /\ FlushIsTrue'
    BY <1>1, <1>3, RowsGrow
  <1> QED BY <1>5, <1>6, <1>7, <1>8, <1>9, <1>10 DEF IInv
-----------------------------------------------------------------------------
(***************************************************************************)
(* The camera                                                              *)
(***************************************************************************)
\* A step of the camera keeps what is said of the database, the requests and the worker.
LEMMA CameraKeeps ==
  ASSUME IInv, UNCHANGED <<database, request, stream, flush>>
  PROVE  /\ LoggedZonesExist' /\ RowsAreTrue' /\ CreatesWhole' /\ SavedIsHad'
         /\ StreamIsTrue' /\ FlushIsTrue' /\ Given' = Given /\ Loaded(saved)' = Loaded(saved)
  <1>1. UNCHANGED <<saved, logs, had, request, stream, flush>>
    BY DEF database
  <1>2. LoggedZonesExist' /\ RowsAreTrue' /\ CreatesWhole' /\ SavedIsHad'
    BY <1>1 DEF IInv, LoggedZonesExist, RowsAreTrue, Inside, FromFile, CreatesWhole, SavedIsHad
  <1>3. Given' = Given /\ Loaded(saved)' = Loaded(saved)
    BY <1>1 DEF Given, FromFile, Loaded, Existing
  <1>4. StreamIsTrue' /\ FlushIsTrue'
    BY <1>1, <1>3 DEF IInv, StreamIsTrue, FlushIsTrue
  <1> QED BY <1>2, <1>3, <1>4

\* A load is well typed and given.
LEMMA LoadOfTable ==
  ASSUME TypeOK, SavedIsHad, NEW answers \in BOOLEAN
  PROVE  /\ LoadZones(answers) \subseteq Rows /\ LoadZones(answers) \subseteq Given
         /\ answers => LoadZones(answers) = Loaded(saved)
  <1>1. Loaded(saved) \subseteq Rows /\ Loaded(saved) \subseteq Given
    BY LoadedRows, LoadedGiven DEF TypeOK
  <1>2. FromFile \subseteq Rows /\ FromFile \subseteq Given
    BY FileRows DEF Given
  <1> QED BY <1>1, <1>2 DEF LoadZones

LEMMA RestartCameraStep == ASSUME IInv, NEW answers \in BOOLEAN, RestartCamera(answers) PROVE IInv'
  <1>1. /\ UNCHANGED <<saved, logs, had, request, occupancy, stream, flush, edits>>
        /\ view' = LoadZones(answers) /\ listener' = "starting" /\ notices' = 0 /\ loading' = None
        /\ missed' = ~answers /\ faults < MaxFaults /\ faults' = faults + 1
    BY DEF RestartCamera, database
  <1>0. TypeOK /\ SavedIsHad
    BY DEF IInv
  <1>2. faults' \in 0..MaxFaults
    BY <1>1, ConstantsAssumption DEF IInv, TypeOK
  <1>3. /\ LoggedZonesExist' /\ RowsAreTrue' /\ CreatesWhole' /\ SavedIsHad'
        /\ StreamIsTrue' /\ FlushIsTrue' /\ Given' = Given /\ Loaded(saved)' = Loaded(saved)
    BY <1>1, CameraKeeps DEF database
  <1>4. TypeOK'
    BY <1>0, <1>1, <1>2, LoadOfTable DEF TypeOK
  <1>5. StaleIsAnnounced'
    BY <1>0, <1>1, <1>3, LoadOfTable DEF StaleIsAnnounced
  <1>6. ViewIsGiven'
    BY <1>0, <1>1, <1>3, LoadOfTable DEF ViewIsGiven
  <1> QED BY <1>3, <1>4, <1>5, <1>6 DEF IInv

LEMMA SubscribeStep == ASSUME IInv, Subscribe PROVE IInv'
  <1>1. /\ UNCHANGED <<saved, logs, had, request, view, notices, loading, occupancy, stream, flush,
                       missed, edits, faults>>
        /\ listener' = "listening"
    BY DEF Subscribe, database
  <1>2. /\ LoggedZonesExist' /\ RowsAreTrue' /\ CreatesWhole' /\ SavedIsHad'
        /\ StreamIsTrue' /\ FlushIsTrue' /\ Given' = Given /\ Loaded(saved)' = Loaded(saved)
    BY <1>1, CameraKeeps DEF database
  <1>3. TypeOK'
    BY <1>1 DEF IInv, TypeOK
  <1>4. StaleIsAnnounced'
    BY <1>1, <1>2 DEF IInv, StaleIsAnnounced, Coming, Announces
  <1>5. ViewIsGiven'
    BY <1>1, <1>2 DEF IInv, ViewIsGiven
  <1> QED BY <1>2, <1>3, <1>4, <1>5 DEF IInv

\* What the dying thread had not heard is recorded as missed.
LEMMA ListenerDiesStep == ASSUME IInv, ListenerDies PROVE IInv'
  <1>1. /\ UNCHANGED <<saved, logs, had, request, view, loading, occupancy, stream, flush, edits>>
        /\ listener' = "dead" /\ notices' = 0 /\ missed' = (missed \/ notices > 0)
        /\ faults < MaxFaults /\ faults' = faults + 1
    BY DEF ListenerDies, database
  <1>2. faults' \in 0..MaxFaults
    BY <1>1, ConstantsAssumption DEF IInv, TypeOK
  <1>3. /\ LoggedZonesExist' /\ RowsAreTrue' /\ CreatesWhole' /\ SavedIsHad'
        /\ StreamIsTrue' /\ FlushIsTrue' /\ Given' = Given /\ Loaded(saved)' = Loaded(saved)
    BY <1>1, CameraKeeps DEF database
  <1>4. missed' \in BOOLEAN
    BY <1>1, Zenon DEF IInv, TypeOK
  <1>5. TypeOK'
    BY <1>1, <1>2, <1>4 DEF IInv, TypeOK
  <1>6. StaleIsAnnounced'
    BY <1>1, <1>3 DEF IInv, StaleIsAnnounced, Coming, Announces
  <1>7. ViewIsGiven'
    BY <1>1, <1>3 DEF IInv, ViewIsGiven
  <1> QED BY <1>3, <1>5, <1>6, <1>7 DEF IInv

\* The zones read are those of the table, or the read is recorded as missed.
LEMMA ReadZonesStep == ASSUME IInv, NEW answers \in BOOLEAN, ReadZones(answers) PROVE IInv'
  <1>1. /\ UNCHANGED <<saved, logs, had, request, view, listener, occupancy, stream, flush, edits>>
        /\ notices > 0 /\ notices' = notices - 1
    BY DEF ReadZones, database
  <1>2. /\ LoggedZonesExist' /\ RowsAreTrue' /\ CreatesWhole' /\ SavedIsHad'
        /\ StreamIsTrue' /\ FlushIsTrue' /\ Given' = Given /\ Loaded(saved)' = Loaded(saved)
    BY <1>1, CameraKeeps DEF database
  <1>3. notices' \in Nat /\ listener = "listening"
    BY <1>1 DEF IInv, TypeOK, ReadZones
  <1>4. loading' = LoadZones(answers) /\ missed' = ~answers
    BY DEF ReadZones
  <1>5. faults' \in 0..MaxFaults
    BY ConstantsAssumption DEF IInv, TypeOK, ReadZones
  <1>6. TypeOK /\ SavedIsHad /\ ViewIsGiven
    BY DEF IInv
  <1>7. loading' \subseteq Rows /\ loading' \subseteq Given /\ loading' # None
    BY <1>4, <1>6, LoadOfTable, ConstantsAssumption
  <1>8. TypeOK'
    BY <1>1, <1>3, <1>4, <1>5, <1>6, <1>7 DEF TypeOK
  <1>9. StaleIsAnnounced'
    BY <1>2, <1>4, <1>6, <1>7, LoadOfTable DEF StaleIsAnnounced
  <1>10. ViewIsGiven'
    BY <1>1, <1>2, <1>6, <1>7 DEF ViewIsGiven
  <1> QED BY <1>2, <1>8, <1>9, <1>10 DEF IInv

\* An abandoned reload is recorded as missed.
LEMMA AbandonReloadStep == ASSUME IInv, AbandonReload PROVE IInv'
  <1>1. /\ UNCHANGED <<saved, logs, had, request, view, listener, notices, occupancy, stream, flush,
                       edits>>
        /\ loading' = None /\ missed' = TRUE /\ faults < MaxFaults /\ faults' = faults + 1
    BY DEF AbandonReload, database
  <1>2. faults' \in 0..MaxFaults
    BY <1>1, ConstantsAssumption DEF IInv, TypeOK
  <1>3. /\ LoggedZonesExist' /\ RowsAreTrue' /\ CreatesWhole' /\ SavedIsHad'
        /\ StreamIsTrue' /\ FlushIsTrue' /\ Given' = Given /\ Loaded(saved)' = Loaded(saved)
    BY <1>1, CameraKeeps DEF database
  <1>4. TypeOK'
    BY <1>1, <1>2 DEF IInv, TypeOK
  <1>5. StaleIsAnnounced'
    BY <1>1 DEF StaleIsAnnounced
  <1>6. ViewIsGiven'
    BY <1>1, <1>3 DEF IInv, ViewIsGiven
  <1> QED BY <1>3, <1>4, <1>5, <1>6 DEF IInv

LEMMA InstallZonesStep == ASSUME IInv, InstallZones PROVE IInv'
  <1>1. /\ UNCHANGED <<saved, logs, had, request, listener, occupancy, stream, flush, missed, edits,
                       faults>>
        /\ loading # None /\ view' = loading /\ loading' = None /\ notices' = notices
    BY DEF InstallZones, database
  <1>2. /\ LoggedZonesExist' /\ RowsAreTrue' /\ CreatesWhole' /\ SavedIsHad'
        /\ StreamIsTrue' /\ FlushIsTrue' /\ Given' = Given /\ Loaded(saved)' = Loaded(saved)
    BY <1>1, CameraKeeps DEF database
  <1>3. TypeOK'
    BY <1>1 DEF IInv, TypeOK
  <1>4. StaleIsAnnounced'
    BY <1>1, <1>2 DEF IInv, StaleIsAnnounced, Coming, Announces
  <1>5. ViewIsGiven'
    BY <1>1, <1>2 DEF IInv, ViewIsGiven
  <1> QED BY <1>2, <1>3, <1>4, <1>5 DEF IInv
-----------------------------------------------------------------------------
(***************************************************************************)
(* Frames and the worker                                                   *)
(***************************************************************************)
\* The name of an event is one the camera was given around the spot.
LEMMA AssignedTrue ==
  ASSUME IInv, NEW spot \in Spots, NEW n \in Assigned(spot)
  PROVE  /\ n \in Names \cup {Unassigned}
         /\ n # Unassigned => \E r \in Given : r.name = n /\ spot \in r.area
  <1>1. view \subseteq Rows /\ view \subseteq Given
    BY DEF IInv, TypeOK, ViewIsGiven
  <1>2. CASE {r \in view : spot \in r.area} = {}
    BY <1>2 DEF Assigned
  <1>3. CASE {r \in view : spot \in r.area} # {}
    <2>1. PICK r \in view : spot \in r.area /\ n = r.name
      BY <1>3 DEF Assigned
    <2> QED BY <1>1, <2>1 DEF Rows
  <1> QED BY <1>2, <1>3

LEMMA FrameStep ==
  ASSUME IInv, NEW spot \in Spots \cup {None}, NEW known \in BOOLEAN, Frame(spot, known)
  PROVE  IInv'
  <1>1. /\ UNCHANGED <<saved, logs, had, request, view, listener, notices, loading, flush, missed,
                       edits, faults>>
        /\ occupancy' \in [Names -> {0, 1}]
    BY DEF Frame, database, camera
  <1>2. UNCHANGED stream \/ (known /\ stream = None
                            /\ \E n \in Assigned(spot) : stream' = [name |-> n, spot |-> spot])
    BY DEF Frame
  <1>3. Given' = Given /\ Loaded(saved)' = Loaded(saved)
    BY <1>1 DEF Given, FromFile, Loaded, Existing
  <1>4. /\ LoggedZonesExist' /\ RowsAreTrue' /\ CreatesWhole' /\ SavedIsHad' /\ FlushIsTrue'
    BY <1>1 DEF IInv, LoggedZonesExist, RowsAreTrue, Inside, FromFile, CreatesWhole, SavedIsHad,
                FlushIsTrue
  <1>5. StaleIsAnnounced' /\ ViewIsGiven'
    BY <1>1, <1>3 DEF IInv, StaleIsAnnounced, Coming, Announces, ViewIsGiven
  <1>6. CASE UNCHANGED stream
    <2>1. TypeOK'
      BY <1>1, <1>6 DEF IInv, TypeOK
    <2>2. StreamIsTrue'
      BY <1>3, <1>6 DEF IInv, StreamIsTrue
    <2> QED BY <1>4, <1>5, <2>1, <2>2 DEF IInv
  <1>7. CASE /\ spot \in Spots /\ stream = None
             /\ \E n \in Assigned(spot) : stream' = [name |-> n, spot |-> spot]
    <2>1. PICK n \in Assigned(spot) : stream' = [name |-> n, spot |-> spot]
      BY <1>7
    <2>2. TypeOK'
      BY <1>1, <1>7, <2>1, AssignedTrue DEF IInv, TypeOK
    <2>3. StreamIsTrue'
      BY <1>3, <1>7, <2>1, AssignedTrue DEF StreamIsTrue
    <2> QED BY <1>4, <1>5, <2>2, <2>3 DEF IInv
  <1>8. known => spot \in Spots
    BY DEF Frame
  <1> QED BY <1>2, <1>6, <1>7, <1>8

LEMMA BeginFlushStep == ASSUME IInv, BeginFlush PROVE IInv'
  <1>1. /\ UNCHANGED <<saved, logs, had, request, view, listener, notices, loading, occupancy, stream,
                       missed, edits, faults>>
        /\ stream # None /\ flush' \in NameMaps(saved)
    BY DEF BeginFlush, database, camera
  <1>2. /\ LoggedZonesExist' /\ RowsAreTrue' /\ CreatesWhole' /\ SavedIsHad' /\ StreamIsTrue'
    BY <1>1 DEF IInv, LoggedZonesExist, RowsAreTrue, Inside, FromFile, CreatesWhole, SavedIsHad,
                StreamIsTrue, Given
  <1>3. StaleIsAnnounced' /\ ViewIsGiven'
    BY <1>1 DEF IInv, StaleIsAnnounced, Coming, Announces, Loaded, Existing, ViewIsGiven, Given,
                FromFile
  <1>4. TypeOK'
    BY <1>1 DEF IInv, TypeOK, NameMaps
  <1>5. FlushIsTrue'
    <2> SUFFICES ASSUME NEW n \in Names, flush'[n] # None
                 PROVE  \E r \in had[flush'[n]] : r.name = n
      BY <1>1 DEF FlushIsTrue
    <2>1. flush'[n] \in Existing(saved) /\ saved[flush'[n]].name = n
      BY <1>1 DEF NameMaps
    <2> QED BY <2>1 DEF IInv, SavedIsHad, Existing
  <1> QED BY <1>2, <1>3, <1>4, <1>5 DEF IInv

\* The row that is written names an existing zone that has had the event's name.
LEMMA WriteLogStep == ASSUME IInv, WriteLog PROVE IInv'
  <1>1. /\ UNCHANGED <<saved, had, request, view, listener, notices, loading, occupancy,
                       missed, edits, faults>>
        /\ flush # None /\ flush' = None /\ stream' = None
    BY DEF WriteLog, camera
  <1>2. /\ stream # None /\ stream.name \in Names \cup {Unassigned} /\ stream.spot \in Spots
        /\ flush \in [Names -> Ids \cup {None}]
    BY <1>1 DEF IInv, TypeOK
  <1>3. /\ CreatesWhole' /\ SavedIsHad' /\ StreamIsTrue' /\ FlushIsTrue'
    BY <1>1 DEF IInv, CreatesWhole, SavedIsHad, StreamIsTrue, FlushIsTrue
  <1>4. StaleIsAnnounced' /\ ViewIsGiven'
    BY <1>1 DEF IInv, StaleIsAnnounced, Coming, Announces, Loaded, Existing, ViewIsGiven, Given,
                FromFile
  <1>5. CASE logs' = logs
    <2>1. TypeOK'
      BY <1>1, <1>5 DEF IInv, TypeOK
    <2>2. LoggedZonesExist' /\ RowsAreTrue'
      BY <1>1, <1>5 DEF IInv, LoggedZonesExist, RowsAreTrue, Inside, FromFile
    <2> QED BY <1>3, <1>4, <2>1, <2>2 DEF IInv
  <1>6. CASE /\ Resolved # None /\ saved[Resolved] # None
             /\ logs' = logs \cup {[zone |-> Resolved, name |-> stream.name, spot |-> stream.spot]}
    <2> DEFINE new == [zone |-> Resolved, name |-> stream.name, spot |-> stream.spot]
    <2>1. /\ stream.name # Unassigned /\ Resolved = flush[stream.name]
          /\ Resolved \in Ids /\ stream.name \in Names
      BY <1>2, <1>6 DEF Resolved
    <2>2. TypeOK'
      BY <1>1, <1>2, <1>6, <2>1 DEF IInv, TypeOK
    <2>3. LoggedZonesExist'
      BY <1>1, <1>6 DEF IInv, LoggedZonesExist
    <2>4. \E r \in Given : Inside(r, new)
      BY <1>2, <2>1 DEF IInv, StreamIsTrue, Inside
    <2>5. \E r \in had[Resolved] : r.name = stream.name
      BY <1>1, <1>6, <2>1 DEF IInv, FlushIsTrue
    <2>6. Given' = Given
      BY <1>1 DEF Given, FromFile
    <2>7. RowsAreTrue'
      <3> SUFFICES ASSUME NEW l \in logs \cup {new}
                   PROVE  /\ \E r \in Given : Inside(r, l)
                          /\ \E r \in had[l.zone] : r.name = l.name
        BY <1>1, <1>6, <2>6 DEF RowsAreTrue, Given, Inside
      <3>1. CASE l \in logs
        BY <3>1 DEF IInv, RowsAreTrue, Given
      <3>2. CASE l = new
        BY <2>4, <2>5, <3>2
      <3> QED BY <3>1, <3>2
    <2> QED BY <1>3, <1>4, <2>2, <2>3, <2>7 DEF IInv
  <1> QED BY <1>5, <1>6 DEF WriteLog
-----------------------------------------------------------------------------
(***************************************************************************)
(* The theorems                                                            *)
(***************************************************************************)
\* Every step keeps the invariant.
LEMMA StepInvariant == IInv /\ [Next]_vars => IInv'
  <1> SUFFICES ASSUME IInv, [Next]_vars PROVE IInv'
    OBVIOUS
  <1>1. ASSUME NEW a \in Admins, NEW op \in {"create", "update", "delete"}, NEW i \in Ids,
               NEW body \in Bodies, BeginRequest(a, op, i, body)
        PROVE  IInv'
    BY <1>1, BeginRequestStep
  <1>2. ASSUME NEW a \in Admins, CommitRequest(a) \/ Publish(a) \/ FailPublish(a) PROVE IInv'
    BY <1>2, CommitRequestStep, PublishStep, FailPublishStep
  <1>3. CASE SyncVenue
    BY <1>3, SyncVenueStep
  <1>4. CASE Subscribe \/ ListenerDies \/ AbandonReload \/ InstallZones
    BY <1>4, SubscribeStep, ListenerDiesStep, AbandonReloadStep, InstallZonesStep
  <1>5. ASSUME NEW answers \in BOOLEAN, RestartCamera(answers) \/ ReadZones(answers) PROVE IInv'
    BY <1>5, RestartCameraStep, ReadZonesStep
  <1>6. ASSUME NEW spot \in Spots \cup {None}, NEW known \in BOOLEAN, Frame(spot, known)
        PROVE  IInv'
    BY <1>6, FrameStep
  <1>7. CASE BeginFlush \/ WriteLog
    BY <1>7, BeginFlushStep, WriteLogStep
  <1>8. CASE UNCHANGED vars
    <2>1. UNCHANGED <<saved, logs, had, request, view, listener, notices, loading, occupancy, stream,
                      flush, missed, edits, faults>>
      BY <1>8 DEF vars, database, camera
    <2>2. TypeOK' /\ CreatesWhole' /\ SavedIsHad' /\ LoggedZonesExist' /\ FlushIsTrue'
      BY <2>1 DEF IInv, TypeOK, CreatesWhole, SavedIsHad, LoggedZonesExist, FlushIsTrue
    <2>3. StaleIsAnnounced' /\ RowsAreTrue' /\ ViewIsGiven' /\ StreamIsTrue'
      BY <2>1 DEF IInv, StaleIsAnnounced, Coming, Announces, Loaded, Existing, RowsAreTrue, Inside,
                  ViewIsGiven, StreamIsTrue, Given, FromFile
    <2> QED BY <2>2, <2>3 DEF IInv
  <1> QED BY <1>1, <1>2, <1>3, <1>4, <1>5, <1>6, <1>7, <1>8, Zenon DEF Next

\* The invariant holds in every reachable state.
THEOREM Inductive == Spec => []IInv
  BY InitInvariant, StepInvariant, PTL DEF Spec

\* Every reachable state is well typed.
THEOREM TypeCorrect == Spec => []TypeOK
  <1>1. IInv => TypeOK
    BY DEF IInv
  <1> QED BY <1>1, Inductive, PTL

\* A camera with other zones than the table's will hear of it, unless an announcement was
\* lost, or the zones could not be read at its start or at its last reload.
THEOREM NobodyStaysStale == Spec => []StaleIsAnnounced
  <1>1. IInv => StaleIsAnnounced
    BY DEF IInv
  <1> QED BY <1>1, Inductive, PTL

\* No activity is logged in a zone that does not exist, and every logged activity is true of
\* a zone of that name.
THEOREM LogsSound == Spec => []LogsAreSound
  <1>1. IInv => LogsAreSound
    BY DEF IInv, LogsAreSound
  <1> QED BY <1>1, Inductive, PTL
=============================================================================

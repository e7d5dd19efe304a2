----------------------------- MODULE VenueZones -----------------------------
(***************************************************************************)
(* The zones of the venue.  Administrators edit them in PostgreSQL         *)
(* (backend/api/zones.py) and each edit is announced on the channel        *)
(* zones_updated; a camera loads its zones when it starts and again for    *)
(* every announcement its listener thread hears; its frames turn positions *)
(* into zone names, for the occupancy counts and for the activity events;  *)
(* the scoring worker turns the names back into zone ids when it writes    *)
(* the activity log.  Zones are joined by name in two places, at different *)
(* times, and an announcement is heard only by those who listen already.   *)
(*                                                                         *)
(* One camera, one participant.  A polygon is the set of spots inside it:  *)
(* empty for fewer than three points, which is skipped, and {Malformed}    *)
(* for points that are no pairs, which the API stores and no reader reads. *)
(***************************************************************************)
EXTENDS Naturals, FiniteSets

CONSTANTS
  Ids,         \* zones
  Names, Areas, \* what a zone may be called and where it may be
  Yaml,        \* configs/zones.yaml: the row of each id scripts/sync_venue_config.py gives
  Booths,      \* the zones sponsors.booth_zone_id refers to
  Spots,       \* where somebody may stand
  Malformed, Unassigned, None,
  Admins,
  MaxEdits,    \* bound: edits and synchronisations
  MaxFaults    \* bound: Redis and PostgreSQL errors, and restarts

Rows == [name : Names, area : Areas]

ASSUME ConstantsAssumption ==
  /\ MaxEdits \in Nat /\ MaxFaults \in Nat
  /\ Areas \subseteq SUBSET (Spots \cup {Malformed}) /\ Malformed \notin Spots
  /\ DOMAIN Yaml \subseteq Ids
  /\ \A i \in DOMAIN Yaml : Yaml[i] \in Rows /\ Yaml[i].area # {Malformed}
  /\ None \notin Rows /\ \A rows \in SUBSET Rows : rows # None

VARIABLES
  saved,     \* table zones: the row of each id
  logs,      \* table activity_logs: the zone of each row, and the event it came from
  request,   \* what each administrator's request is doing
  view,      \* the camera's ZoneClassifier
  listener,  \* its zones-updated thread: starting, listening or dead
  notices,   \* announcements in the thread's subscription
  loading,   \* the zones a reload has read and not installed yet
  occupancy, \* Redis hash zone_occupancy
  stream,    \* the activity event the worker has not read
  flush,     \* the name map of the flush in progress
  missed,    \* history: an edit the camera will not hear of, or could not read
  had,       \* history: all rows each zone has had
  edits, faults

database == <<saved, logs, had>>
camera == <<view, listener, notices, loading>>
vars == <<database, request, camera, occupancy, stream, flush, missed, edits, faults>>

Existing(table) == {i \in Ids : table[i] # None}

\* load_zones_yaml, zones_for_camera
FromFile == {Yaml[i] : i \in DOMAIN Yaml}

\* load_zones_from_db, normalize_polygon and the fallback: one polygon nobody can read, or
\* no zone at all, and the zones are those of the file.
Loaded(table) ==
  LET rows == {table[i] : i \in Existing(table)}
  IN IF rows = {} \/ \E r \in rows : r.area = {Malformed} THEN FromFile ELSE rows

\* CameraWorker._load_zones, which takes the file for a database that does not answer.
LoadZones(answers) == IF answers THEN Loaded(saved) ELSE FromFile

\* What a request knows: the fields its body sets, until they are saved, and how far it is.
Idle == [op |-> "idle"]
Request(op, i, body) == [op |-> op, id |-> i, body |-> body, committed |-> FALSE]
Bodies == [name : Names \cup {None}, area : Areas \cup {None}]
Nothing == [name |-> None, area |-> None]
-----------------------------------------------------------------------------
Init ==
  /\ saved \in {[i \in Ids |-> None], [i \in Ids |-> IF i \in DOMAIN Yaml THEN Yaml[i] ELSE None]}
  /\ had = [i \in Ids |-> {saved[i]} \ {None}] /\ logs = {}
  /\ request = [a \in Admins |-> Idle]
  /\ \E answers \in BOOLEAN : view = LoadZones(answers) /\ missed = ~answers
  /\ listener = "starting" /\ notices = 0 /\ loading = None
  /\ occupancy = [n \in Names |-> 0]
  /\ stream = None /\ flush = None
  /\ edits = 0 /\ faults = 0

(***************************************************************************)
(* The API                                                                 *)
(***************************************************************************)
Save(i, row) ==
  /\ saved' = [saved EXCEPT ![i] = row]
  /\ had' = [had EXCEPT ![i] = @ \cup ({row} \ {None})]
  /\ UNCHANGED logs

\* create_zone, update_zone and delete_zone up to their commit: a new id; a row to change,
\* where a field set to what it was counts as not set; a row to delete, of which no
\* activity is logged.
BeginRequest(a, op, i, body) ==
  /\ request[a] = Idle /\ edits < MaxEdits
  /\ \/ op = "create" /\ had[i] = {} /\ i \notin DOMAIN Yaml /\ body \in Rows
     \/ op = "update" /\ saved[i] # None
        /\ body.name # saved[i].name /\ body.area # saved[i].area
     \/ op = "delete" /\ saved[i] # None /\ (\A l \in logs : l.zone # i) /\ body = Nothing
  /\ request' = [request EXCEPT ![a] = Request(op, i, body)]
  /\ edits' = edits + 1
  /\ UNCHANGED <<database, camera, occupancy, stream, flush, missed, faults>>

Merged(now, body) ==
  [name |-> IF body.name = None THEN now.name ELSE body.name,
   area |-> IF body.area = None THEN now.area ELSE body.area]

\* The foreign keys of activity_logs and sponsors.
MayDelete(i) == i \notin Booths /\ \A l \in logs : l.zone # i

Commit(a, i, row) ==
  /\ Save(i, row)
  /\ request' = [request EXCEPT ![a] = [@ EXCEPT !.body = Nothing, !.committed = TRUE]]
Refuse(a) == request' = [request EXCEPT ![a] = Idle] /\ UNCHANGED database

\* The commit: an update writes the columns whose value differs from the one read, and
\* fails when the row is gone; so does a delete that leaves a reference without its row.
CommitRequest(a) ==
  /\ request[a] # Idle /\ ~request[a].committed
  /\ LET q == request[a]
     IN \/ q.op = "create" /\ Commit(a, q.id, q.body)
        \/ q.op = "update" /\ saved[q.id] # None /\ Commit(a, q.id, Merged(saved[q.id], q.body))
        \/ q.op = "update" /\ saved[q.id] = None /\ Refuse(a)
        \/ q.op = "delete" /\ MayDelete(q.id) /\ Commit(a, q.id, None)
        \/ q.op = "delete" /\ ~MayDelete(q.id) /\ Refuse(a)
  /\ UNCHANGED <<camera, occupancy, stream, flush, missed, edits, faults>>

\* Slip: a delete is not announced.
SlipQuietDelete(q) == q.committed /\ q.op # "delete" /\ saved[q.id] # None

\* refresh, which fails when somebody has deleted the row since.
Announces(q) == q.committed /\ (q.op = "delete" \/ saved[q.id] # None)

Announce == IF listener = "listening" THEN notices' = notices + 1 /\ UNCHANGED missed
                                      ELSE missed' = TRUE /\ UNCHANGED notices

\* publish_zones_updated: heard by who is subscribed.
Publish(a) ==
  /\ request[a] # Idle /\ request[a].committed
  /\ request' = [request EXCEPT ![a] = Idle]
  /\ IF Announces(request[a]) THEN Announce ELSE UNCHANGED <<notices, missed>>
  /\ UNCHANGED <<database, view, listener, loading, occupancy, stream, flush, edits, faults>>

\* Redis is not there: the answer is an error and the edit is saved.
FailPublish(a) ==
  /\ faults < MaxFaults /\ request[a] # Idle /\ request[a].committed
  /\ request' = [request EXCEPT ![a] = Idle]
  /\ missed' = TRUE /\ faults' = faults + 1
  /\ UNCHANGED <<database, camera, occupancy, stream, flush, edits>>

\* sync_venue: the rows of the file under their stable ids, all others as they are, and
\* no announcement.
SyncVenue ==
  /\ edits < MaxEdits /\ edits' = edits + 1
  /\ saved' = [i \in Ids |-> IF i \in DOMAIN Yaml THEN Yaml[i] ELSE saved[i]]
  /\ had' = [i \in Ids |-> had[i] \cup ({saved'[i]} \ {None})]
  /\ missed' = TRUE
  /\ UNCHANGED <<logs, request, camera, occupancy, stream, flush, faults>>

(***************************************************************************)
(* The camera                                                              *)
(***************************************************************************)
\* CameraWorker.__init__, in a new process: load, then start the thread.  A camera that finds
\* no database starts on the file, and stays there until an edit is announced.
RestartCamera(answers) ==
  /\ faults < MaxFaults /\ faults' = faults + 1
  /\ view' = LoadZones(answers) /\ missed' = ~answers
  /\ listener' = "starting" /\ notices' = 0 /\ loading' = None
  /\ UNCHANGED <<database, request, occupancy, stream, flush, edits>>

Subscribe ==
  /\ listener = "starting" /\ listener' = "listening"
  /\ UNCHANGED <<database, request, view, notices, loading, occupancy, stream, flush, missed, edits, faults>>

\* An error in pubsub.listen() is outside the handler: the thread ends, nobody starts
\* another, and what it had not heard is gone.
ListenerDies ==
  /\ faults < MaxFaults /\ faults' = faults + 1
  /\ listener = "listening" /\ loading = None /\ listener' = "dead"
  /\ notices' = 0 /\ missed' = (missed \/ notices > 0)
  /\ UNCHANGED <<database, request, view, loading, occupancy, stream, flush, edits>>

\* _reload_zones: read, ...
ReadZones(answers) ==
  /\ listener = "listening" /\ notices > 0 /\ loading = None
  /\ answers \/ faults < MaxFaults
  /\ notices' = notices - 1
  /\ loading' = LoadZones(answers) /\ missed' = ~answers
  /\ faults' = faults + (IF answers THEN 0 ELSE 1)
  /\ UNCHANGED <<database, request, view, listener, occupancy, stream, flush, edits>>

\* ... which may raise, as may the classifier (a file that cannot be parsed, say): the thread
\* logs it, keeps the zones it has and goes on listening; ...
AbandonReload ==
  /\ loading # None
  /\ faults < MaxFaults /\ faults' = faults + 1
  /\ loading' = None /\ missed' = TRUE
  /\ UNCHANGED <<database, request, view, listener, notices, occupancy, stream, flush, edits>>

\* ... and install.
InstallZones ==
  /\ loading # None
  /\ view' = loading /\ loading' = None /\ UNCHANGED notices
  /\ UNCHANGED <<database, request, listener, occupancy, stream, flush, missed, edits, faults>>

(***************************************************************************)
(* Frames, and the scoring worker's use of the names                       *)
(***************************************************************************)
\* assign_zones: the name of some zone around the spot.
Assigned(spot) ==
  LET around == {r \in view : spot \in r.area}
  IN IF around = {} THEN {Unassigned} ELSE {r.name : r \in around}

\* Slip: only zones with somebody inside are counted.
SlipOccupiedOnly(n, spot) ==
  {IF spot \in r.area THEN 1 ELSE 0 : r \in {z \in view : z.name = n /\ spot \in z.area}}

\* trigger_occupancy: the count of each zone with a polygon; of two with one name, one's.
Counts(n, spot) ==
  {IF spot \in r.area THEN 1 ELSE 0 : r \in {z \in view : z.name = n /\ z.area # {}}}

\* _process_frame: somebody stands there, and the face is known or not; or nobody is seen.
Frame(spot, known) ==
  /\ known => spot # None
  /\ \E count \in [Names -> {0, 1}] :
       /\ \A n \in Names : IF Counts(n, spot) = {} THEN count[n] = occupancy[n]
                                                     ELSE count[n] \in Counts(n, spot)
       /\ occupancy' = count
  /\ IF known
     THEN /\ stream = None
          /\ \E n \in Assigned(spot) : stream' = [name |-> n, spot |-> spot]
     ELSE UNCHANGED stream
  /\ UNCHANGED <<database, request, camera, flush, missed, edits, faults>>

\* Slip: names and ids come from two queries and are paired by position.
SlipTwoQueries(table) == [Names -> Existing(table) \cup {None}]

\* load_zone_name_map: of two zones with one name, one.
NameMaps(table) ==
  {m \in [Names -> Ids \cup {None}] : \A n \in Names :
     LET named == {i \in Existing(table) : table[i].name = n}
     IN IF named = {} THEN m[n] = None ELSE m[n] \in named}

BeginFlush ==
  /\ stream # None /\ flush = None
  /\ flush' \in NameMaps(saved)
  /\ UNCHANGED <<database, request, camera, occupancy, stream, missed, edits, faults>>

\* The id of the event's zone, None for a name the map does not have.
Resolved == IF stream.name = Unassigned THEN None ELSE flush[stream.name]

\* insert_activity_log: an unknown name is passed over; the transaction of an id deleted
\* since fails, and the participant's events are given up.
WriteLog ==
  /\ flush # None /\ flush' = None /\ stream' = None
  /\ IF Resolved # None /\ saved[Resolved] # None
     THEN logs' = logs \cup {[zone |-> Resolved, name |-> stream.name, spot |-> stream.spot]}
     ELSE UNCHANGED logs
  /\ UNCHANGED <<saved, had, request, camera, occupancy, missed, edits, faults>>

Next ==
  \/ \E a \in Admins :
       \/ \E op \in {"create", "update", "delete"}, i \in Ids, body \in Bodies : BeginRequest(a, op, i, body)
       \/ CommitRequest(a) \/ Publish(a) \/ FailPublish(a)
  \/ SyncVenue
  \/ Subscribe \/ ListenerDies \/ AbandonReload \/ InstallZones
  \/ \E answers \in BOOLEAN : RestartCamera(answers) \/ ReadZones(answers)
  \/ \E spot \in Spots \cup {None}, known \in BOOLEAN : Frame(spot, known)
  \/ BeginFlush \/ WriteLog

Spec == Init /\ [][Next]_vars

\* A camera goes on; people come and go.
FairSpec == Spec /\ WF_vars(Frame(None, FALSE))
-----------------------------------------------------------------------------
(***************************************************************************)
(* Properties                                                              *)
(***************************************************************************)
Requests == [op : {"create", "update", "delete"}, id : Ids, body : Bodies, committed : BOOLEAN]

\* Every variable keeps its type; announcements wait for a listening thread only, and the
\* worker has a map of names only while it has an event.
TypeOK ==
  /\ saved \in [Ids -> Rows \cup {None}] /\ had \in [Ids -> SUBSET Rows]
  /\ logs \subseteq [zone : Ids, name : Names, spot : Spots]
  /\ request \in [Admins -> {Idle} \cup Requests]
  /\ view \subseteq Rows /\ notices \in Nat /\ loading \in (SUBSET Rows) \cup {None}
  /\ listener \in {"starting", "listening", "dead"} /\ (listener # "listening" => notices = 0)
  /\ occupancy \in [Names -> {0, 1}]
  /\ stream \in [name : Names \cup {Unassigned}, spot : Spots] \cup {None}
  /\ flush \in [Names -> Ids \cup {None}] \cup {None} /\ (flush # None => stream # None)
  /\ missed \in BOOLEAN /\ edits \in 0..MaxEdits /\ faults \in 0..MaxFaults

\* A camera that does not work with the zones of the database will be told: a reload has
\* read them, an announcement waits to be heard, or the request that saved them has not
\* announced them yet; unless an announcement was lost, or the zones could not be read at the
\* start or at the last reload (then the camera has the file's, or its old ones, until the
\* next edit, and nobody is told).
Coming == notices > 0 \/ \E a \in Admins : request[a] # Idle /\ Announces(request[a])
StaleIsAnnounced ==
  ~missed => (IF loading = None THEN view ELSE loading) = Loaded(saved) \/ Coming

\* No activity is logged in a zone that does not exist, although the delete counts first
\* and deletes later, and the worker maps the names first and inserts later.
LoggedZonesExist == \A l \in logs : saved[l.zone] # None

\* Who is logged in a zone was inside an area that the file or some zone gave to the name,
\* and the zone has had that name: names that move from zone to zone, the fall back to the
\* file and late flushes mix up zones of one name, and nothing else.
Inside(r, l) == r.name = l.name /\ l.spot \in r.area
RowsAreTrue ==
  \A l \in logs :
    /\ \E r \in FromFile \cup UNION {had[i] : i \in Ids} : Inside(r, l)
    /\ \E r \in had[l.zone] : r.name = l.name

\* The log holds up against the table on both ends: its zones are there, and were what it
\* says of them.
LogsAreSound == LoggedZonesExist /\ RowsAreTrue

\* The count of a zone that empties goes back to 0, as long as the camera watches a zone
\* of that name.  (The count of a zone that is renamed or deleted stays what it was.)
EmptyZonesShowZero ==
  \A n \in Names : <>[](\E r \in view : r.name = n /\ r.area # {}) => []<>(occupancy[n] = 0)
=============================================================================

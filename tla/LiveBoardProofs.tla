--------------------------- MODULE LiveBoardProofs ---------------------------
(***************************************************************************)
(* For any finite set of clients, any limit and any number of values and   *)
(* faults: types, the limit on connections, that whoever is connected is   *)
(* known, and that an outdated cache entry is accounted for.  The three    *)
(* parts of the inductive invariant are proved one after the other: types, *)
(* then sockets and then the cache, each from the types.                   *)
(***************************************************************************)
EXTENDS LiveBoard, FiniteSetTheorems, TLAPS

-----------------------------------------------------------------------------
(***************************************************************************)
(* The inductive invariant                                                 *)
(***************************************************************************)
Steps == {"starting", "listening", "invalidate", "payload", "copy", "send", "dead"}
Tasks == [step : Steps, payload : Nat, copy : SUBSET Clients, unsent : SUBSET Clients, dead : SUBSET Clients]
Requests == [step : {"read", "store"}, data : Nat, late : BOOLEAN]
Entries == [data : Nat, late : BOOLEAN]

\* Announcements wait for a listening task only.
Numbers ==
  /\ kind \in Kinds /\ value \in 0..MaxValue /\ scored \in 0..value /\ faults \in 0..MaxFaults
  /\ notices \in 0..MaxNotices /\ (task.step \in {"starting", "dead"} => notices = 0)
Flags == unannounced \in BOOLEAN /\ missed \in BOOLEAN

\* Nothing was written that is not announced yet unless there is room for its announcement.
Room == unannounced => notices < MaxNotices

\* Nobody is found dead before the broadcast begins, and only those it began with.
TaskTypes ==
  /\ task \in Tasks /\ task.payload <= value
  /\ task.unsent \cup task.dead \subseteq task.copy
  /\ task.step = "copy" => task.dead = {}

CacheTypes ==
  /\ request \in Requests \cup {None} /\ (request # None => request.data <= value)
  /\ cache \in Entries \cup {None} /\ (cache # None => cache.data <= value)

SocketTypes ==
  /\ client \in [Clients -> {"away", "joining", "open", "gone"}]
  /\ handler \in [Clients -> {"none", "subscribe", "listen", "payload", "send", "sleep", "idle", "leaving", "failed"}]
  /\ payload \in [Clients -> Nat] /\ shown \in [Clients -> Nat]
  /\ \A c \in Clients : payload[c] <= value /\ shown[c] <= value
  /\ conns \subseteq Clients /\ accepting \subseteq Clients

TypeInv == Numbers /\ Flags /\ Room /\ TaskTypes /\ CacheTypes /\ SocketTypes

\* Of a client that is not connected nothing runs, and it is not in the set; the lock has one
\* holder, who has a place; those a broadcast still has in hand do not come back meanwhile.
SocketInv ==
  /\ OpenIsKnown
  /\ \A c \in Clients : client[c] \in {"away", "joining"} => handler[c] = "none" /\ c \notin conns
  /\ \A c \in accepting : client[c] = "joining"
  /\ \A c, d \in accepting : c = d
  /\ Cardinality(conns) <= MaxConnections
  /\ accepting # {} => Cardinality(conns) < MaxConnections
  /\ \A c \in task.unsent : client[c] \in {"open", "gone"}
  /\ \A c \in task.dead : client[c] = "gone"

\* What makes an entry of the cache outdated without fault of the request that stored it.
Known == missed \/ unannounced \/ notices > 0 \/ task.step = "invalidate"

\* The same is true of a request that is about to store what it read; the other channels have
\* no cache, and the scores of a flush are announced.
CacheInv ==
  /\ StaleIsRemoved
  /\ request # None /\ request.step = "store" /\ request.data < scored => request.late \/ Known
  /\ request # None \/ cache # None => kind = "leaderboard"

IInv == TypeInv /\ SocketInv /\ CacheInv
-----------------------------------------------------------------------------
(***************************************************************************)
(* Types                                                                   *)
(***************************************************************************)
LEMMA TypesAreTypes == TypeInv => TypeOK
<1> SUFFICES ASSUME TypeInv PROVE TypeOK
  OBVIOUS
<1> USE DEF TypeInv
<1>1. value \in Nat
  BY ConstantsAssumption DEF Numbers
<1>2. task.payload \in 0..value /\ task.unsent \cup task.dead \subseteq task.copy /\ task.step \in Steps
  BY <1>1 DEF TaskTypes, Tasks
<1>3. cache # None => cache.data \in 0..value
  BY <1>1 DEF CacheTypes, Entries
<1>4. \A c \in Clients : payload[c] \in 0..value /\ shown[c] \in 0..value
  BY <1>1 DEF SocketTypes
<1>5. QED
  BY <1>2, <1>3, <1>4 DEF TypeOK, Numbers, Flags, SocketTypes, Steps

LEMMA TypeInit == Init => TypeInv
<1> SUFFICES ASSUME Init PROVE TypeInv
  OBVIOUS
<1> USE ConstantsAssumption DEF Init, Resting
<1>1. Numbers
  BY DEF Numbers, Kinds
<1>2. Flags /\ Room
  BY Zenon DEF Flags, Room
<1>3. TaskTypes
  BY DEF TaskTypes, Tasks, Steps
<1>4. CacheTypes /\ SocketTypes
  BY DEF CacheTypes, SocketTypes
<1>5. QED
  BY <1>1, <1>2, <1>3, <1>4 DEF TypeInv

LEMMA NumbersStep == ASSUME TypeInv, [Next]_vars PROVE Numbers' /\ value <= value'
<1> USE ConstantsAssumption DEF TypeInv, Numbers, Resting, sockets, rest, Fault
<1>1. ASSUME NEW new \in {value, value + 1}, Write(new) \/ PublishFrame(new) \/ WriteQuietly
      PROVE Numbers' /\ value <= value'
  BY <1>1 DEF Write, WriteQuietly, PublishFrame, Announced, Kinds
<1>2. CASE Announce \/ LoseAnnouncement
  BY <1>2 DEF Announce, LoseAnnouncement, Subscribed, Room
<1>3. CASE Subscribe \/ Hear \/ Invalidate \/ EndBroadcast
  BY <1>3 DEF Subscribe, Hear, Invalidate, EndBroadcast, Task
<1>4. CASE BuildPayload \/ CopyConns
  <2>1. task'.step \in {"copy", "send"} /\ UNCHANGED <<kind, value, scored, notices, faults>>
    BY <1>4 DEF BuildPayload, CopyConns, Task, TaskTypes, Tasks
  <2>2. QED
    BY <2>1
<1>5. CASE TaskDies
  BY <1>5 DEF TaskDies
<1>6. CASE MissCache \/ ReadRows \/ StoreCache \/ FailRequest \/ Expire
  BY <1>6 DEF MissCache, ReadRows, StoreCache, FailRequest, Expire, Rest
<1>7. ASSUME NEW c \in Clients, SendTo(c) \/ ForgetDead(c) PROVE Numbers' /\ value <= value'
  <2>1. task'.step = task.step /\ UNCHANGED <<kind, value, scored, notices, faults>>
    BY <1>7 DEF SendTo, ForgetDead, Task, TaskTypes, Tasks
  <2>2. QED
    BY <2>1
<1>8. ASSUME NEW c \in Clients,
             Dial(c) \/ Enter(c) \/ Accept(c) \/ FailAccept(c) \/ Leave(c)
             \/ HandlerStep(c) \/ HandlerFails(c) \/ TrackingFails(c) \/ LeaveFails(c)
      PROVE Numbers' /\ value <= value'
  BY <1>8 DEF Dial, Enter, Accept, FailAccept, Leave, HandlerStep, HandlerSubscribe, HandlerPayload,
     HandlerSend, HandlerWake, HandlerLeave, HandlerFails, TrackingFails, LeaveFails, Socket
<1>9. CASE UNCHANGED vars
  BY <1>9 DEF vars
<1>10. QED
  BY <1>1, <1>2, <1>3, <1>4, <1>5, <1>6, <1>7, <1>8, <1>9 DEF Next, HandlerStep

LEMMA FlagsStep == ASSUME TypeInv, [Next]_vars PROVE (Flags /\ Room)'
<1>1. Flags /\ Room /\ notices \in Nat /\ MaxNotices \in Nat
  BY ConstantsAssumption DEF TypeInv, Numbers
<1>2. ASSUME UNCHANGED <<unannounced, missed>>, notices' \in Nat, notices' <= notices PROVE (Flags /\ Room)'
  BY <1>1, <1>2 DEF Flags, Room
<1>3. ASSUME NEW new, Write(new) PROVE (Flags /\ Room)'
  <2>1. unannounced' \in BOOLEAN /\ missed' \in BOOLEAN
    <3>1. Announced \in BOOLEAN
      BY DEF Announced
    <3>2. QED
      BY <1>1, <1>3, <3>1, Zenon DEF Write, Flags
  <2>2. Room'
    BY <1>1, <1>3 DEF Write, Room
  <2>3. QED
    BY <2>1, <2>2 DEF Flags
<1>4. CASE Announce \/ LoseAnnouncement
  <2>1. unannounced' = FALSE /\ missed' \in BOOLEAN
    BY <1>1, <1>4, Zenon DEF Announce, LoseAnnouncement, Flags
  <2>2. QED
    BY <2>1, Zenon DEF Flags, Room
<1>5. CASE TaskDies
  <2>1. UNCHANGED unannounced /\ missed' \in BOOLEAN
    BY <1>1, <1>5, Zenon DEF TaskDies, Flags
  <2>2. notices' = 0 /\ (unannounced => 0 < MaxNotices)
    BY <1>1, <1>5 DEF TaskDies, Room
  <2>3. QED
    BY <1>1, <2>1, <2>2, Zenon DEF Flags, Room
<1>6. CASE Subscribe \/ Hear \/ Invalidate \/ BuildPayload \/ CopyConns \/ EndBroadcast
  BY <1>1, <1>2, <1>6 DEF Subscribe, Hear, Invalidate, BuildPayload, CopyConns, EndBroadcast, Task
<1>7. CASE MissCache \/ ReadRows \/ StoreCache \/ FailRequest \/ Expire
  BY <1>1, <1>2, <1>7 DEF MissCache, ReadRows, StoreCache, FailRequest, Expire, Rest
<1>8. ASSUME NEW new, PublishFrame(new) \/ WriteQuietly PROVE (Flags /\ Room)'
  BY <1>1, <1>2, <1>8 DEF PublishFrame, WriteQuietly
<1>9. ASSUME NEW c \in Clients,
             SendTo(c) \/ ForgetDead(c) \/ Dial(c) \/ Enter(c) \/ Accept(c) \/ FailAccept(c) \/ Leave(c)
             \/ HandlerStep(c) \/ HandlerFails(c) \/ TrackingFails(c) \/ LeaveFails(c)
      PROVE (Flags /\ Room)'
  BY <1>1, <1>2, <1>9 DEF SendTo, ForgetDead, Task, Dial, Enter, Accept, FailAccept, Leave, HandlerStep,
     HandlerSubscribe, HandlerPayload, HandlerSend, HandlerWake, HandlerLeave, HandlerFails, TrackingFails, LeaveFails, Socket
<1>10. CASE UNCHANGED vars
  BY <1>1, <1>2, <1>10 DEF vars
<1>11. QED
  BY <1>3, <1>4, <1>5, <1>6, <1>7, <1>8, <1>9, <1>10 DEF Next, HandlerStep

\* The subscriber task.
LEMMA TaskStep == ASSUME TypeInv, [Next]_vars PROVE TaskTypes'
<1>1. value \in Nat /\ value' \in Nat /\ value <= value'
  BY NumbersStep, ConstantsAssumption DEF TypeInv, Numbers
<1>2. ASSUME UNCHANGED task PROVE TaskTypes'
  BY <1>1, <1>2 DEF TypeInv, TaskTypes, Tasks
<1>3. ASSUME NEW step \in Steps, task' = Resting(step) PROVE TaskTypes'
  BY <1>1, <1>3 DEF TaskTypes, Tasks, Resting
<1>4. CASE BuildPayload
  BY <1>1, <1>4 DEF BuildPayload, Task, TaskTypes, Tasks, Resting, Steps
<1>5. CASE CopyConns
  BY <1>1, <1>5 DEF CopyConns, Task, TypeInv, TaskTypes, SocketTypes, Tasks, Steps
<1>6. ASSUME NEW c \in Clients, SendTo(c) PROVE TaskTypes'
  BY <1>1, <1>6 DEF SendTo, Task, TypeInv, TaskTypes, Tasks, Steps
<1>7. ASSUME NEW c \in Clients, ForgetDead(c) PROVE TaskTypes'
  BY <1>1, <1>7 DEF ForgetDead, Task, TypeInv, TaskTypes, Tasks, Steps
<1>8. CASE Subscribe \/ Hear \/ Invalidate \/ EndBroadcast \/ TaskDies
  BY <1>3, <1>8 DEF Subscribe, Hear, Invalidate, EndBroadcast, TaskDies, Task, Steps
<1>9. ASSUME NEW c \in Clients,
              Dial(c) \/ Enter(c) \/ Accept(c) \/ FailAccept(c) \/ Leave(c)
              \/ HandlerStep(c) \/ HandlerFails(c) \/ TrackingFails(c) \/ LeaveFails(c)
       PROVE UNCHANGED task
  BY <1>9 DEF Dial, Enter, Accept, FailAccept, Leave, HandlerStep, HandlerSubscribe, HandlerPayload,
     HandlerSend, HandlerWake, HandlerLeave, HandlerFails, TrackingFails, LeaveFails, Socket
<1>10. CASE \/ Write(value + 1) \/ Write(value) \/ WriteQuietly \/ PublishFrame(value + 1) \/ PublishFrame(value)
            \/ Announce \/ LoseAnnouncement \/ MissCache \/ ReadRows \/ StoreCache \/ FailRequest \/ Expire
            \/ UNCHANGED vars
  BY <1>2, <1>10 DEF Write, WriteQuietly, PublishFrame, Announce, LoseAnnouncement, MissCache, ReadRows, StoreCache,
     FailRequest, Expire, Rest, vars
<1>11. QED
  BY <1>2, <1>4, <1>5, <1>6, <1>7, <1>8, <1>9, <1>10 DEF Next, HandlerStep

LEMMA CacheTypesStep == ASSUME TypeInv, [Next]_vars PROVE CacheTypes'
<1>1. value \in Nat /\ value' \in Nat /\ value <= value' /\ CacheTypes
  BY NumbersStep, ConstantsAssumption DEF TypeInv, Numbers
<1>2. ASSUME UNCHANGED rest PROVE CacheTypes'
  BY <1>1, <1>2 DEF CacheTypes, Requests, Entries, rest
<1>3. CASE Invalidate
  <2>1. cache' = None /\ (request' = request \/ (request # None /\ request' = [request EXCEPT !.late = TRUE]))
    BY <1>3 DEF Invalidate, EmptyCache
  <2>2. request' \in Requests \cup {None} /\ (request' # None => request'.data <= value)
    BY <1>1, <2>1 DEF CacheTypes, Requests
  <2>3. QED
    BY <1>1, <2>1, <2>2 DEF CacheTypes, Requests
<1>4. CASE MissCache
  BY <1>1, <1>4 DEF MissCache, CacheTypes, Requests, Entries
<1>5. CASE ReadRows
  BY <1>1, <1>5 DEF ReadRows, Rest, CacheTypes, Requests, Entries
<1>6. CASE StoreCache
  BY <1>1, <1>6 DEF StoreCache, CacheTypes, Requests, Entries
<1>7. CASE FailRequest \/ Expire
  BY <1>1, <1>7 DEF FailRequest, Expire, CacheTypes, Requests, Entries
<1>8. CASE \/ Write(value + 1) \/ Write(value) \/ WriteQuietly \/ PublishFrame(value + 1) \/ PublishFrame(value)
           \/ Announce \/ LoseAnnouncement \/ Subscribe \/ Hear \/ BuildPayload \/ CopyConns \/ EndBroadcast
           \/ TaskDies \/ UNCHANGED vars
  BY <1>2, <1>8 DEF Write, WriteQuietly, PublishFrame, Announce, LoseAnnouncement, Subscribe, Hear, BuildPayload, CopyConns,
     EndBroadcast, TaskDies, vars
<1>9. ASSUME NEW c \in Clients,
             SendTo(c) \/ ForgetDead(c) \/ Dial(c) \/ Enter(c) \/ Accept(c) \/ FailAccept(c) \/ Leave(c)
             \/ HandlerStep(c) \/ HandlerFails(c) \/ TrackingFails(c) \/ LeaveFails(c)
      PROVE CacheTypes'
  BY <1>2, <1>9 DEF SendTo, ForgetDead, Dial, Enter, Accept, FailAccept, Leave, HandlerStep,
     HandlerSubscribe, HandlerPayload, HandlerSend, HandlerWake, HandlerLeave, HandlerFails, TrackingFails, LeaveFails, Socket
<1>10. QED
  BY <1>3, <1>4, <1>5, <1>6, <1>7, <1>8, <1>9 DEF Next, HandlerStep

LEMMA SocketTypesStep == ASSUME TypeInv, [Next]_vars PROVE SocketTypes'
<1>1. value \in Nat /\ value' \in Nat /\ value <= value' /\ SocketTypes
  BY NumbersStep, ConstantsAssumption DEF TypeInv, Numbers
<1>2. task.payload \in Nat /\ task.payload <= value
  BY DEF TypeInv, TaskTypes, Tasks
<1>3. ASSUME UNCHANGED sockets PROVE SocketTypes'
  BY <1>1, <1>3 DEF SocketTypes, sockets
<1>4. ASSUME NEW new \in {value, value + 1}, PublishFrame(new) PROVE SocketTypes'
  BY <1>1, <1>4 DEF PublishFrame, SocketTypes
<1>5. ASSUME NEW c \in Clients, SendTo(c) PROVE SocketTypes'
  BY <1>1, <1>2, <1>5 DEF SendTo, Task, SocketTypes
<1>6. ASSUME NEW c \in Clients, ForgetDead(c) PROVE SocketTypes'
  BY <1>1, <1>6 DEF ForgetDead, Task, Sockets, Without, SocketTypes
<1>7. ASSUME NEW c \in Clients, Dial(c) \/ Enter(c) PROVE SocketTypes'
  BY <1>1, <1>7 DEF Dial, Enter, Socket, SocketTypes
<1>8. ASSUME NEW c \in Clients, Accept(c) \/ FailAccept(c) \/ Leave(c) PROVE SocketTypes'
  BY <1>1, <1>8 DEF Accept, FailAccept, Leave, Socket, SocketTypes
<1>9. ASSUME NEW c \in Clients, HandlerStep(c) PROVE SocketTypes'
  BY <1>1, <1>9 DEF HandlerStep, HandlerSubscribe, HandlerPayload, HandlerSend, HandlerWake, HandlerLeave,
     Asleep, Socket, SocketTypes
<1>10. ASSUME NEW c \in Clients, HandlerFails(c) \/ TrackingFails(c) \/ LeaveFails(c) PROVE SocketTypes'
  BY <1>1, <1>10 DEF HandlerFails, TrackingFails, LeaveFails, Socket, SocketTypes
<1>11. CASE \/ Write(value + 1) \/ Write(value) \/ WriteQuietly \/ Announce \/ LoseAnnouncement \/ Subscribe \/ Hear
            \/ Invalidate \/ BuildPayload \/ CopyConns \/ EndBroadcast \/ TaskDies \/ MissCache \/ ReadRows
            \/ StoreCache \/ FailRequest \/ Expire \/ UNCHANGED vars
  BY <1>3, <1>11 DEF Write, WriteQuietly, Announce, LoseAnnouncement, Subscribe, Hear, Invalidate, BuildPayload, CopyConns,
     EndBroadcast, TaskDies, MissCache, ReadRows, StoreCache, FailRequest, Expire, Rest, vars
<1>12. QED
  BY <1>4, <1>5, <1>6, <1>7, <1>8, <1>9, <1>10, <1>11 DEF Next, HandlerStep

LEMMA TypeStep == ASSUME TypeInv, [Next]_vars PROVE TypeInv'
  BY NumbersStep, FlagsStep, TaskStep, CacheTypesStep, SocketTypesStep DEF TypeInv

-----------------------------------------------------------------------------
(***************************************************************************)
(* Sockets                                                                 *)
(***************************************************************************)
LEMMA SocketInit == Init => SocketInv
<1> SUFFICES ASSUME Init PROVE SocketInv
  OBVIOUS
<1>1. Cardinality({}) = 0
  BY FS_EmptySet
<1>2. QED
  BY <1>1, ConstantsAssumption DEF Init, SocketInv, OpenIsKnown, Resting

\* The sizes that the limit is about, of a set that gains or loses one.
LEMMA Sizes ==
  ASSUME NEW S \in SUBSET Clients, NEW c
  PROVE  /\ IsFiniteSet(S) /\ Cardinality(S) \in Nat
         /\ Cardinality(S \ {c}) \in Nat /\ Cardinality(S \ {c}) <= Cardinality(S)
         /\ Cardinality(S \cup {c}) \in Nat /\ Cardinality(S \cup {c}) <= Cardinality(S) + 1
<1>1. IsFiniteSet(S) /\ Cardinality(S) \in Nat
  BY FS_Subset, FS_CardinalityType, ConstantsAssumption
<1>2. Cardinality(S \ {c}) = IF c \in S THEN Cardinality(S) - 1 ELSE Cardinality(S)
  BY <1>1, FS_RemoveElement
<1>3. Cardinality(S \cup {c}) = IF c \in S THEN Cardinality(S) ELSE Cardinality(S) + 1
  BY <1>1, FS_AddElement
<1>4. IsFiniteSet(S \ {c}) /\ Cardinality(S \ {c}) \in Nat
  BY <1>1, FS_RemoveElement, FS_CardinalityType
<1>5. QED
  BY <1>1, <1>2, <1>3, <1>4

\* A client that is handled further and stays where it was, or leaves after it was open.
LEMMA HandlerMoves ==
  ASSUME TypeInv, SocketInv, NEW c \in Clients, NEW cl \in {client[c], "gone"}, NEW h,
         client[c] \in {"open", "gone"}, Socket(c, cl, h), UNCHANGED <<task, conns, accepting>>
  PROVE  SocketInv'
  BY DEF Socket, TypeInv, SocketTypes, TaskTypes, SocketInv, OpenIsKnown

LEMMA SocketStep == ASSUME TypeInv, SocketInv, [Next]_vars PROVE SocketInv'
<1> USE DEF SocketInv, OpenIsKnown
<1>1. conns \subseteq Clients /\ accepting \subseteq Clients /\ task.unsent \subseteq Clients /\ task.dead \subseteq Clients
      /\ task \in Tasks /\ MaxConnections \in Nat
  BY ConstantsAssumption DEF TypeInv, SocketTypes, TaskTypes, Tasks
<1>2. client \in [Clients -> {"away", "joining", "open", "gone"}]
      /\ handler \in [Clients -> {"none", "subscribe", "listen", "payload", "send", "sleep", "idle", "leaving", "failed"}]
  BY DEF TypeInv, SocketTypes
<1>3. ASSUME UNCHANGED <<client, handler, conns, accepting>>, task'.unsent \subseteq task.unsent,
             task'.dead \subseteq task.dead
      PROVE SocketInv'
  BY <1>3
<1>4. ASSUME NEW new, PublishFrame(new) PROVE SocketInv'
  BY <1>1, <1>2, <1>4 DEF PublishFrame
<1>5. CASE CopyConns
  <2>1. task'.unsent = conns /\ task'.dead = task.dead
    BY <1>1, <1>5 DEF CopyConns, Task, Tasks
  <2>2. \A c \in conns : client[c] \in {"open", "gone"}
    BY <1>1, <1>2
  <2>3. QED
    BY <1>5, <2>1, <2>2 DEF CopyConns, sockets
<1>6. ASSUME NEW c \in Clients, SendTo(c) PROVE SocketInv'
  <2>1. task'.unsent \subseteq task.unsent /\ task'.dead \subseteq task.dead \cup (IF client[c] = "open" THEN {} ELSE {c})
    BY <1>1, <1>6 DEF SendTo, Task, Unreachable, Tasks
  <2>2. client[c] # "open" => client[c] = "gone"
    BY <1>2, <1>6 DEF SendTo
  <2>3. QED
    BY <1>6, <2>1, <2>2 DEF SendTo
<1>7. ASSUME NEW c \in Clients, ForgetDead(c) PROVE SocketInv'
  <2>1. task'.unsent = task.unsent /\ task'.dead \subseteq task.dead /\ client[c] = "gone"
    BY <1>1, <1>7 DEF ForgetDead, Task, Tasks
  <2>2. Cardinality(conns') <= MaxConnections
    <3>1. conns' = conns \ {c}
      BY <1>7 DEF ForgetDead, Sockets, Without
    <3>2. Cardinality(conns \ {c}) <= Cardinality(conns) /\ Cardinality(conns \ {c}) \in Nat /\ Cardinality(conns) \in Nat
      BY <1>1, Sizes
    <3>3. QED
      BY <1>1, <3>1, <3>2
  <2>3. QED
    BY <1>7, <2>1, <2>2 DEF ForgetDead, Sockets, Without, LockFree
<1>8. ASSUME NEW c \in Clients, Dial(c) PROVE SocketInv'
  BY <1>1, <1>2, <1>8 DEF Dial, Socket
<1>9. ASSUME NEW c \in Clients, Enter(c) PROVE SocketInv'
  <2>1. Cardinality(conns) \in Nat
    BY <1>1, Sizes
  <2>2. QED
    BY <1>1, <1>2, <1>9, <2>1 DEF Enter, LockFree, Socket
<1>10. ASSUME NEW c \in Clients, Accept(c) PROVE SocketInv'
  <2>1. accepting' = {} /\ client[c] = "joining"
    BY <1>10 DEF Accept
  <2>2. Cardinality(conns') <= MaxConnections
    <3>1. conns' = conns \cup {c} /\ Cardinality(conns) < MaxConnections
      BY <1>10 DEF Accept
    <3>2. Cardinality(conns \cup {c}) <= Cardinality(conns) + 1 /\ Cardinality(conns \cup {c}) \in Nat /\ Cardinality(conns) \in Nat
      BY <1>1, Sizes
    <3>3. QED
      BY <1>1, <3>1, <3>2
  <2>3. QED
    BY <1>1, <1>2, <1>10, <2>1, <2>2 DEF Accept, Socket
<1>11. ASSUME NEW c \in Clients, FailAccept(c) PROVE SocketInv'
  BY <1>1, <1>2, <1>11 DEF FailAccept, Socket
<1>12. ASSUME NEW c \in Clients, Leave(c) PROVE SocketInv'
  <2>1. UNCHANGED <<task, conns, accepting>>
    BY <1>12 DEF Leave, Socket
  <2>2. QED
    BY <1>12, <2>1, HandlerMoves DEF Leave
<1>13. ASSUME NEW c \in Clients,
             \/ HandlerSubscribe(c) \/ HandlerPayload(c) \/ HandlerSend(c) \/ HandlerWake(c)
             \/ HandlerFails(c) \/ TrackingFails(c) \/ LeaveFails(c)
       PROVE SocketInv'
  <2>1. handler[c] # "none" /\ client[c] \in {"open", "gone"}
    BY <1>2, <1>13 DEF HandlerSubscribe, HandlerPayload, HandlerSend, HandlerWake, Asleep, HandlerFails, TrackingFails, LeaveFails
  <2>2. UNCHANGED <<task, conns, accepting>>
    BY <1>13 DEF HandlerSubscribe, HandlerPayload, HandlerSend, HandlerWake, HandlerFails, TrackingFails, LeaveFails, Socket
  <2>3. \E cl \in {client[c], "gone"} : \E h : Socket(c, cl, h)
    BY <1>13 DEF HandlerSubscribe, HandlerPayload, HandlerSend, HandlerWake, HandlerFails, TrackingFails, LeaveFails
  <2>4. QED
    BY <2>1, <2>2, <2>3, HandlerMoves
<1>14. ASSUME NEW c \in Clients, HandlerLeave(c) PROVE SocketInv'
  <2>1. Cardinality(conns') <= MaxConnections
    <3>1. conns' = conns \ {c}
      BY <1>14 DEF HandlerLeave
    <3>2. Cardinality(conns \ {c}) <= Cardinality(conns) /\ Cardinality(conns \ {c}) \in Nat /\ Cardinality(conns) \in Nat
      BY <1>1, Sizes
    <3>3. QED
      BY <1>1, <3>1, <3>2
  <2>2. QED
    BY <1>1, <1>2, <1>14, <2>1 DEF HandlerLeave, LockFree, Socket
<1>15. CASE Subscribe \/ Hear \/ Invalidate \/ BuildPayload \/ EndBroadcast \/ TaskDies
  <2>1. task'.unsent = {} /\ task'.dead = {} /\ UNCHANGED sockets
    BY <1>15 DEF Subscribe, Hear, Invalidate, BuildPayload, EndBroadcast, TaskDies, Task, Resting
  <2>2. QED
    BY <1>3, <2>1 DEF sockets
<1>16. CASE \/ Write(value + 1) \/ Write(value) \/ WriteQuietly \/ Announce \/ LoseAnnouncement \/ MissCache \/ ReadRows
            \/ StoreCache \/ FailRequest \/ Expire \/ UNCHANGED vars
  BY <1>3, <1>16 DEF Write, WriteQuietly, Announce, LoseAnnouncement, MissCache, ReadRows, StoreCache, FailRequest, Expire, Rest,
     sockets, vars
<1>17. QED
  BY <1>4, <1>5, <1>6, <1>7, <1>8, <1>9, <1>10, <1>11, <1>12, <1>13, <1>14, <1>15, <1>16 DEF Next

-----------------------------------------------------------------------------
(***************************************************************************)
(* The cache                                                               *)
(***************************************************************************)
LEMMA CacheStep == ASSUME TypeInv, CacheInv, [Next]_vars PROVE CacheInv'
<1> USE DEF CacheInv, StaleIsRemoved, Known
<1>1. value \in Nat /\ notices \in Nat /\ kind \in Kinds /\ request \in Requests \cup {None} /\ cache \in Entries \cup {None}
  BY ConstantsAssumption DEF TypeInv, Numbers, CacheTypes
<1>2. ASSUME UNCHANGED <<kind, value, scored, rest>>, Known => Known' PROVE CacheInv'
  BY <1>2 DEF rest
<1>3. ASSUME NEW new, Write(new) PROVE CacheInv'
  BY <1>3 DEF Write, Announced, rest
<1>4. ASSUME NEW new, PublishFrame(new) \/ WriteQuietly PROVE CacheInv'
  BY <1>4 DEF PublishFrame, WriteQuietly, rest
<1>5. CASE Announce \/ LoseAnnouncement
  BY <1>1, <1>2, <1>5 DEF Announce, LoseAnnouncement, Subscribed
<1>6. CASE Subscribe \/ Hear
  BY <1>1, <1>6 DEF Subscribe, Hear, Task, Resting, rest, Announced
<1>7. CASE Invalidate
  BY <1>1, <1>7 DEF Invalidate, EmptyCache, Task, Requests
<1>8. CASE BuildPayload \/ CopyConns \/ EndBroadcast
  BY <1>1, <1>2, <1>8 DEF BuildPayload, CopyConns, EndBroadcast, Task, Resting
<1>9. CASE TaskDies
  BY <1>1, <1>2, <1>9 DEF TaskDies
<1>10. CASE MissCache \/ ReadRows \/ StoreCache \/ FailRequest \/ Expire
  <2>1. UNCHANGED <<kind, value, scored>> /\ (Known => Known')
    BY <1>10 DEF MissCache, ReadRows, StoreCache, FailRequest, Expire, Rest
  <2>2. CASE MissCache
    BY <1>1, <2>1, <2>2 DEF MissCache
  <2>3. CASE ReadRows
    <3>1. request'.step = "store" /\ request'.data = value /\ cache' = cache /\ kind = "leaderboard"
      BY <1>1, <2>3 DEF ReadRows, Requests
    <3>2. ~(value < scored)
      BY ConstantsAssumption DEF TypeInv, Numbers
    <3>3. StaleIsRemoved'
      BY <2>1, <3>1
    <3>4. QED
      BY <2>1, <3>1, <3>2, <3>3
  <2>4. CASE StoreCache
    BY <1>1, <2>1, <2>4 DEF StoreCache, Requests
  <2>5. CASE FailRequest \/ Expire
    BY <1>1, <2>1, <2>5 DEF FailRequest, Expire
  <2>6. QED
    BY <1>10, <2>2, <2>3, <2>4, <2>5
<1>11. ASSUME NEW c \in Clients, SendTo(c) \/ ForgetDead(c) PROVE CacheInv'
  BY <1>2, <1>11 DEF SendTo, ForgetDead, Task, TypeInv, TaskTypes, Tasks
<1>12. ASSUME NEW c \in Clients,
              Dial(c) \/ Enter(c) \/ Accept(c) \/ FailAccept(c) \/ Leave(c)
              \/ HandlerStep(c) \/ HandlerFails(c) \/ TrackingFails(c) \/ LeaveFails(c)
       PROVE CacheInv'
  <2>1. UNCHANGED <<kind, value, scored, rest, missed, unannounced, notices, task>>
    BY <1>12 DEF Dial, Enter, Accept, FailAccept, Leave, HandlerStep, HandlerSubscribe, HandlerPayload,
       HandlerSend, HandlerWake, HandlerLeave, HandlerFails, TrackingFails, LeaveFails, Socket
  <2>2. QED
    BY <1>2, <2>1
<1>13. CASE UNCHANGED vars
  BY <1>2, <1>13 DEF vars
<1>14. QED
  BY <1>3, <1>4, <1>5, <1>6, <1>7, <1>8, <1>9, <1>10, <1>11, <1>12, <1>13 DEF Next, HandlerStep

-----------------------------------------------------------------------------
(***************************************************************************)
(* Theorems                                                                *)
(***************************************************************************)
\* The three parts hold together, for any clients, limit, values and faults.
THEOREM Inductive == Spec => []IInv
<1>1. Init => IInv
  BY TypeInit, SocketInit DEF IInv, Init, CacheInv, StaleIsRemoved
<1>2. IInv /\ [Next]_vars => IInv'
  BY TypeStep, SocketStep, CacheStep DEF IInv
<1>3. QED
  BY <1>1, <1>2, PTL DEF Spec

\* Every reachable state is well typed: in particular nobody is shown, and no request, task or
\* cache holds, a value that was not written.
THEOREM TypeCorrect == Spec => []TypeOK
<1>1. IInv => TypeOK
  BY TypesAreTypes DEF IInv
<1>2. QED
  BY <1>1, Inductive, PTL

\* WSManager's limit: with the client that is being accepted there are never more
\* connections than MAX_CONNECTIONS.
THEOREM LimitIsKept == Spec => []LimitHolds
<1>1. IInv => LimitHolds
  <2> SUFFICES ASSUME IInv PROVE LimitHolds
    OBVIOUS
  <2>1. conns \subseteq Clients /\ accepting \subseteq Clients /\ MaxConnections \in Nat
    BY ConstantsAssumption DEF IInv, TypeInv, SocketTypes
  <2>2. Cardinality(conns) \in Nat /\ Cardinality(conns) <= MaxConnections
    BY <2>1, Sizes DEF IInv, SocketInv
  <2>3. CASE accepting = {}
    <3>1. conns \cup accepting = conns
      BY <2>3
    <3>2. QED
      BY <2>2, <3>1 DEF LimitHolds
  <2>4. CASE accepting # {}
    <3>1. PICK c \in accepting : accepting = {c}
      BY <2>4 DEF IInv, SocketInv
    <3>2. Cardinality(conns \cup {c}) \in Nat /\ Cardinality(conns \cup {c}) <= Cardinality(conns) + 1
      BY <2>1, Sizes
    <3>3. Cardinality(conns) < MaxConnections
      BY <2>4 DEF IInv, SocketInv
    <3>4. conns \cup accepting = conns \cup {c}
      BY <3>1
    <3>5. QED
      BY <2>1, <2>2, <3>2, <3>3, <3>4 DEF LimitHolds
  <2>5. QED
    BY <2>3, <2>4
<1>2. QED
  BY <1>1, Inductive, PTL

\* WSManager.broadcast works on a copy and forgets the dead one by one: whoever joins
\* meanwhile stays known.
THEOREM NobodyIsForgotten == Spec => []OpenIsKnown
<1>1. IInv => OpenIsKnown
  BY DEF IInv, SocketInv
<1>2. QED
  BY <1>1, Inductive, PTL

\* A leaderboard in the cache that lacks the scores of a flush has an invalidation to come, or
\* a known cause, however many quiet changes come in between.
THEOREM StaleIsAccounted == Spec => []StaleIsRemoved
<1>1. IInv => StaleIsRemoved
  BY DEF IInv, CacheInv
<1>2. QED
  BY <1>1, Inductive, PTL
=============================================================================

------------------------------ MODULE LiveBoard ------------------------------
(***************************************************************************)
(* How a new score or a new heatmap reaches the dashboards.  A worker      *)
(* writes it and announces it on a channel; a background task of the API   *)
(* hears the announcement, empties the leaderboard cache and broadcasts to *)
(* the WebSockets the WSManager knows; each socket has a handler of its    *)
(* own, which for the leaderboard also pushes every 30 seconds, for a      *)
(* participant's page does nothing else, and for the heatmap only sleeps;  *)
(* the handler of a camera's boxes has a subscription of its own and       *)
(* forwards what the camera publishes, without a task or a broadcast;      *)
(* GET /scores/leaderboard answers from a cache or fills it.  All of them  *)
(* are coroutines of one event loop: they alternate at every await, and    *)
(* only the set of connections has a lock.                                 *)
(*                                                                         *)
(* The value shown is a number that grows, with every change of what the   *)
(* readers find; not all changes are announced.  One channel at a time:    *)
(* kind is chosen in the first state.  A client is one WebSocket; when it  *)
(* is gone and forgotten its place is taken by a new one.                  *)
(***************************************************************************)
EXTENDS Naturals, FiniteSets

CONSTANTS
  Clients, None,
  MaxConnections,   \* WSManager.MAX_CONNECTIONS
  MaxValue,         \* bound: values written
  MaxNotices,       \* bound: announcements that wait for the subscriber
  MaxFaults         \* bound: errors of Redis or PostgreSQL

ASSUME ConstantsAssumption == IsFiniteSet(Clients) /\ MaxConnections \in Nat
                              /\ MaxValue \in Nat /\ MaxNotices \in Nat /\ MaxFaults \in Nat

VARIABLES
  kind,        \* which of Kinds the channel is
  value,       \* what a reader finds in PostgreSQL and Redis, or heatmap:current
  scored,      \* history: the value after the last change that a worker announces
  unannounced, \* written, and not announced yet
  task,        \* the subscriber: what it does, payload, copy of the set, unsent and dead
  notices,     \* announcements in its subscription
  cache,       \* leaderboard_cache: what was read, and whether before an invalidation
  request,     \* a request that missed the cache
  client,      \* away, joining, open or gone (which the server does not know)
  handler,     \* where its coroutine is, or how it ended: idle, or failed
  payload,     \* what the coroutine is about to send
  shown,       \* what the client shows
  conns,       \* WSManager._channels[channel]
  accepting,   \* whom the holder of the lock is accepting
  missed,      \* history: an announcement the task did not handle
  faults

sockets == <<client, handler, payload, shown, conns, accepting>>
rest == <<cache, request>>
vars == <<kind, value, scored, unannounced, task, notices, rest, sockets, missed, faults>>

Resting(step) == [step |-> step, payload |-> 0, copy |-> {}, unsent |-> {}, dead |-> {}]
Kinds == {"leaderboard", "heatmap", "participant", "tracking"}
Announced == kind \in {"leaderboard", "heatmap"}
SlipNoLock == TRUE   \* Slip: connections are counted and added without a lock.
LockFree == accepting = {}

Init ==
  /\ kind \in Kinds /\ value = 0 /\ scored = 0 /\ unannounced = FALSE
  /\ task = Resting("starting") /\ notices = 0
  /\ cache = None /\ request = None
  /\ client = [c \in Clients |-> "away"] /\ handler = [c \in Clients |-> "none"]
  /\ payload = [c \in Clients |-> 0] /\ shown = [c \in Clients |-> 0]
  /\ conns = {} /\ accepting = {}
  /\ missed = FALSE /\ faults = 0

Fault == faults < MaxFaults /\ faults' = faults + 1
-----------------------------------------------------------------------------
(***************************************************************************)
(* Who writes                                                              *)
(***************************************************************************)
\* A flush that changed scores; a cycle of the heatmap worker, which may see what it saw.
Write(new) ==
  /\ kind # "tracking" /\ ~unannounced /\ unannounced' = Announced /\ notices < MaxNotices
  /\ new <= MaxValue /\ value' = new /\ scored' = new
  /\ UNCHANGED <<kind, task, notices, rest, sockets, missed, faults>>

\* An opt-out or a registration, which changes names, rows and their number, or a camera that
\* finds somebody elsewhere: nobody announces it, and nobody empties the cache.
WriteQuietly ==
  /\ kind = "leaderboard" /\ value < MaxValue /\ value' = value + 1
  /\ UNCHANGED <<kind, scored, unannounced, task, notices, rest, sockets, missed, faults>>

\* _publish_tracking, of a frame like the last or another: a message in the subscription
\* of every handler that listens.  (Bound: at most one waits in each.)
PublishFrame(new) ==
  /\ kind = "tracking" /\ new <= MaxValue /\ value' = new
  /\ \A c \in Clients : handler[c] # "send"
  /\ handler' = [c \in Clients |-> IF handler[c] = "listen" THEN "send" ELSE handler[c]]
  /\ payload' = [c \in Clients |-> IF handler[c] = "listen" THEN new ELSE payload[c]]
  /\ UNCHANGED <<kind, scored, unannounced, task, notices, rest, client, shown, conns, accepting, missed, faults>>

Subscribed == task.step \notin {"starting", "dead"}

\* publish_scores_updated, publish_heatmap_updated
Announce ==
  /\ unannounced /\ unannounced' = FALSE
  /\ IF Subscribed THEN notices' = notices + 1 /\ UNCHANGED missed
                   ELSE missed' = TRUE /\ UNCHANGED notices
  /\ UNCHANGED <<kind, value, scored, task, rest, sockets, faults>>

\* The worker dies, or Redis does not answer, between the two.
LoseAnnouncement ==
  /\ Fault /\ unannounced /\ unannounced' = FALSE /\ missed' = TRUE
  /\ UNCHANGED <<kind, value, scored, task, notices, rest, sockets>>
-----------------------------------------------------------------------------
(***************************************************************************)
(* The subscriber tasks: scores_updated_subscriber, heatmap_updated_...    *)
(***************************************************************************)
Task(t) == task' = t /\ UNCHANGED <<kind, value, scored, unannounced, missed, faults>>
Sockets(set) == conns' = set /\ UNCHANGED <<client, handler, payload, shown, accepting>>

Subscribe ==
  /\ Announced /\ task.step = "starting"
  /\ Task(Resting("listening")) /\ UNCHANGED <<notices, rest, sockets>>
Hear ==
  /\ task.step = "listening" /\ notices > 0 /\ notices' = notices - 1
  /\ Task(Resting(IF kind = "leaderboard" THEN "invalidate" ELSE "payload"))
  /\ UNCHANGED <<rest, sockets>>

\* Slip: the keys are looked for under another name.
SlipKeepCache == UNCHANGED rest

\* invalidate_leaderboard_cache; a request that has read its rows will store them later.
EmptyCache ==
  /\ cache' = None
  /\ request' = IF request # None /\ request.step = "store" THEN [request EXCEPT !.late = TRUE] ELSE request
Invalidate ==
  /\ task.step = "invalidate" /\ EmptyCache /\ Task(Resting("payload"))
  /\ UNCHANGED <<notices, sockets>>

\* _leaderboard_payload, _heatmap_payload
BuildPayload ==
  /\ task.step = "payload" /\ Task([Resting("copy") EXCEPT !.payload = value])
  /\ UNCHANGED <<notices, rest, sockets>>

\* WSManager.broadcast: copy the set under the lock, send to one after the other, and then
\* forget those to whom nothing could be sent, each under the lock.
CopyConns ==
  /\ task.step = "copy" /\ LockFree
  /\ Task([task EXCEPT !.step = "send", !.copy = conns, !.unsent = conns])
  /\ UNCHANGED <<notices, rest, sockets>>
SlipIgnored(c) == FALSE   \* Slip: an error of send_text is passed over.
Unreachable(c) == client[c] # "open"
SendTo(c) ==
  /\ task.step = "send" /\ c \in task.unsent
  /\ Task([task EXCEPT !.unsent = @ \ {c}, !.dead = IF Unreachable(c) THEN @ \cup {c} ELSE @])
  /\ shown' = IF client[c] = "open" THEN [shown EXCEPT ![c] = task.payload] ELSE shown
  /\ UNCHANGED <<notices, rest, client, handler, payload, conns, accepting>>

SlipOverwrite(c) == task.copy \ task.dead   \* Slip: the copy, less the dead, becomes the set.
Without(c) == conns \ {c}
ForgetDead(c) ==
  /\ task.step = "send" /\ task.unsent = {} /\ c \in task.dead /\ LockFree
  /\ Sockets(Without(c)) /\ Task([task EXCEPT !.dead = @ \ {c}])
  /\ UNCHANGED <<notices, rest>>
EndBroadcast ==
  /\ task.step = "send" /\ task.unsent = {} /\ task.dead = {}
  /\ Task(Resting("listening")) /\ UNCHANGED <<notices, rest, sockets>>

\* An error of Redis or PostgreSQL ends the task, and nobody starts another.
TaskDies ==
  /\ Fault /\ Announced
  /\ task.step \in {"starting", "listening", "invalidate", "payload"}
  /\ task' = Resting("dead") /\ notices' = 0
  /\ missed' = (missed \/ notices > 0 \/ task.step \in {"invalidate", "payload"})
  /\ UNCHANGED <<kind, value, scored, unannounced, rest, sockets>>
-----------------------------------------------------------------------------
(***************************************************************************)
(* GET /scores/leaderboard                                                 *)
(***************************************************************************)
Rest == UNCHANGED <<kind, value, scored, unannounced, task, notices, sockets, missed, faults>>

\* A hit changes nothing.
MissCache ==
  /\ kind = "leaderboard" /\ request = None /\ cache = None
  /\ request' = [step |-> "read", data |-> 0, late |-> FALSE] /\ UNCHANGED cache /\ Rest
ReadRows ==
  /\ request # None /\ request.step = "read"
  /\ request' = [request EXCEPT !.step = "store", !.data = value] /\ UNCHANGED cache /\ Rest
\* SETEX
StoreCache ==
  /\ request # None /\ request.step = "store"
  /\ cache' = [data |-> request.data, late |-> request.late] /\ request' = None /\ Rest
FailRequest ==
  /\ Fault /\ request # None /\ request' = None
  /\ UNCHANGED <<kind, value, scored, unannounced, task, notices, cache, sockets, missed>>

\* setex: the entry's time to live is over.
Expire == cache # None /\ cache' = None /\ UNCHANGED request /\ Rest
-----------------------------------------------------------------------------
(***************************************************************************)
(* WebSockets: WSManager and the handlers                                  *)
(***************************************************************************)
Socket(c, cl, h) ==
  /\ client' = [client EXCEPT ![c] = cl] /\ handler' = [handler EXCEPT ![c] = h]
  /\ UNCHANGED <<kind, value, scored, unannounced, task, notices, rest, missed>>

\* A token of a role that may see the channel; others are turned away before this.
Dial(c) ==
  /\ \/ client[c] = "away"
     \/ client[c] = "gone" /\ handler[c] = "idle" /\ c \notin conns \cup task.unsent \cup task.dead
  /\ Socket(c, "joining", "none")
  /\ shown' = [shown EXCEPT ![c] = 0] /\ UNCHANGED <<payload, conns, accepting, faults>>

\* connect: with the lock, count; ...
Enter(c) ==
  /\ client[c] = "joining" /\ c \notin accepting /\ LockFree
  /\ IF Cardinality(conns) >= MaxConnections
     THEN Socket(c, "away", "none") /\ UNCHANGED accepting
     ELSE Socket(c, "joining", "none") /\ accepting' = accepting \cup {c}
  /\ UNCHANGED <<payload, shown, conns, faults>>

\* ... still with the lock, wait for accept(), which may fail; then add.
Accept(c) ==
  /\ c \in accepting /\ accepting' = accepting \ {c} /\ conns' = conns \cup {c}
  /\ Socket(c, "open", IF kind = "tracking" THEN "subscribe" ELSE "payload") /\ UNCHANGED <<payload, shown, faults>>
FailAccept(c) ==
  /\ c \in accepting /\ accepting' = accepting \ {c}
  /\ Socket(c, "away", "none") /\ UNCHANGED <<payload, shown, conns, faults>>

\* The browser goes away.  No handler reads from its socket.
Leave(c) ==
  /\ client[c] = "open" /\ Socket(c, "gone", handler[c])
  /\ UNCHANGED <<payload, shown, conns, accepting, faults>>

\* ws_tracking opens its subscription before it forwards anything.
HandlerSubscribe(c) ==
  /\ handler[c] = "subscribe" /\ Socket(c, client[c], "listen")
  /\ UNCHANGED <<payload, shown, conns, accepting, faults>>

\* The loop of ws_leaderboard and ws_participant; ws_heatmap sends once; ws_tracking sends
\* what it hears.
HandlerPayload(c) ==
  /\ handler[c] = "payload" /\ payload' = [payload EXCEPT ![c] = value]
  /\ Socket(c, client[c], "send") /\ UNCHANGED <<shown, conns, accepting, faults>>
HandlerSend(c) ==
  /\ handler[c] = "send"
  /\ IF client[c] = "open"
     THEN /\ shown' = [shown EXCEPT ![c] = payload[c]]
          /\ Socket(c, "open", CASE kind = "heatmap" -> "idle" [] kind = "tracking" -> "listen"
                                 [] OTHER -> "sleep")
     ELSE Socket(c, "gone", "leaving") /\ UNCHANGED shown
  /\ payload' = [payload EXCEPT ![c] = 0] /\ UNCHANGED <<conns, accepting, faults>>

SlipPushOnce(c) == FALSE   \* Slip: one push and then only broadcasts.
Asleep(c) == handler[c] = "sleep"
HandlerWake(c) ==
  Asleep(c) /\ Socket(c, client[c], "payload") /\ UNCHANGED <<payload, shown, conns, accepting, faults>>

\* The payload cannot be computed: the handler ends and its socket is closed.
HandlerFails(c) ==
  /\ Fault /\ handler[c] = "payload" /\ Socket(c, "gone", "leaving")
  /\ UNCHANGED <<payload, shown, conns, accepting>>

\* Redis fails ws_tracking: outside its try, or in it, and then once more when its finally
\* clause wants to unsubscribe, and nothing frees the place; or it is back by then.
TrackingFails(c) ==
  /\ Fault /\ handler[c] \in {"subscribe", "listen"}
  /\ Socket(c, "gone", "failed") \/ (handler[c] = "listen" /\ Socket(c, "gone", "leaving"))
  /\ UNCHANGED <<payload, shown, conns, accepting>>

\* Redis fails ws_tracking only in its finally clause, when the browser has left.
LeaveFails(c) ==
  /\ Fault /\ kind = "tracking" /\ handler[c] = "leaving" /\ Socket(c, "gone", "failed")
  /\ UNCHANGED <<payload, shown, conns, accepting>>

\* finally: disconnect, for ws_tracking after unsubscribe and close
HandlerLeave(c) ==
  /\ handler[c] = "leaving" /\ LockFree
  /\ conns' = conns \ {c} /\ Socket(c, "gone", "idle") /\ UNCHANGED <<payload, shown, accepting, faults>>
-----------------------------------------------------------------------------
Next ==
  \/ Write(value + 1) \/ (kind = "heatmap" /\ Write(value)) \/ WriteQuietly
  \/ PublishFrame(value + 1) \/ PublishFrame(value)
  \/ Announce \/ LoseAnnouncement
  \/ Subscribe \/ Hear \/ Invalidate \/ BuildPayload \/ CopyConns \/ EndBroadcast \/ TaskDies
  \/ MissCache \/ ReadRows \/ StoreCache \/ FailRequest \/ Expire
  \/ \E c \in Clients :
       \/ SendTo(c) \/ ForgetDead(c)
       \/ Dial(c) \/ Enter(c) \/ Accept(c) \/ FailAccept(c) \/ Leave(c)
       \/ HandlerSubscribe(c) \/ HandlerPayload(c) \/ HandlerSend(c) \/ HandlerWake(c) \/ HandlerLeave(c)
       \/ HandlerFails(c) \/ TrackingFails(c) \/ LeaveFails(c)

Spec == Init /\ [][Next]_vars

SubscriberStep ==
  \/ Subscribe \/ Hear \/ Invalidate \/ BuildPayload \/ CopyConns \/ EndBroadcast
  \/ \E c \in Clients : SendTo(c) \/ ForgetDead(c)
HandlerStep(c) == HandlerSubscribe(c) \/ HandlerPayload(c) \/ HandlerSend(c) \/ HandlerWake(c) \/ HandlerLeave(c)

\* The event loop runs every coroutine, the lock serves in the order of arrival, entries
\* expire and the heatmap worker goes round.  No camera owes anybody a frame.
FairSpec ==
  /\ Spec
  /\ WF_vars(Announce \/ (kind = "heatmap" /\ Write(value)))
  /\ SF_vars(SubscriberStep) /\ WF_vars(ReadRows \/ StoreCache \/ Expire)
  /\ \A c \in Clients : WF_vars(Accept(c) \/ FailAccept(c)) /\ SF_vars(HandlerStep(c))
-----------------------------------------------------------------------------
(***************************************************************************)
(* Properties                                                              *)
(***************************************************************************)
\* Every variable keeps its type; announcements wait for a listening task only, and nobody is
\* shown a value that was not written.
TypeOK ==
  /\ kind \in Kinds /\ value \in 0..MaxValue /\ scored \in 0..value /\ unannounced \in BOOLEAN
  /\ task.step \in {"starting", "listening", "invalidate", "payload", "copy", "send", "dead"}
  /\ task.payload \in 0..value /\ task.unsent \cup task.dead \subseteq task.copy
  /\ notices \in 0..MaxNotices /\ (task.step \in {"starting", "dead"} => notices = 0)
  /\ cache # None => cache.data \in 0..value
  /\ client \in [Clients -> {"away", "joining", "open", "gone"}]
  /\ handler \in [Clients -> {"none", "subscribe", "listen", "payload", "send", "sleep", "idle", "leaving", "failed"}]
  /\ \A c \in Clients : payload[c] \in 0..value /\ shown[c] \in 0..value
  /\ conns \subseteq Clients /\ accepting \subseteq Clients
  /\ missed \in BOOLEAN /\ faults \in 0..MaxFaults

\* However many connect at once, and although accept() is awaited between the count and
\* the addition, there are never more connections than the limit.
LimitHolds == Cardinality(conns \cup accepting) <= MaxConnections

\* Every client that is connected is in the set that broadcasts go to, whatever joins,
\* leaves and is forgotten while a broadcast is under way.
OpenIsKnown == \A c \in Clients : client[c] = "open" => c \in conns

\* A cached leaderboard that lacks the scores of a flush is about to be removed, or was read
\* before the last invalidation and stored after it, or an announcement was missed.  (What
\* changes quietly, the name of somebody who opted out for one, stays until the entry expires.)
StaleIsRemoved ==
  cache # None /\ cache.data < scored =>
    cache.late \/ missed \/ unannounced \/ notices > 0 \/ task.step = "invalidate"

\* The camera has frames: handlers that wait for one do not wait for ever.
FramesGoOn == []<>((\E c \in Clients : handler[c] = "send") \/ \A c \in Clients : handler[c] # "listen")

\* A client that stays connected ends up showing the last value: of the leaderboard even
\* when the subscriber is dead or the change is a quiet one, of a participant without any
\* subscriber, of the heatmap as long as it lives, and of a camera if it has frames.
EventuallyShown ==
  FramesGoOn => \A c \in Clients :
    <>[](client[c] = "open" /\ (kind = "heatmap" => task.step # "dead")) => <>[](shown[c] = value)

\* The place of a client that went away without a word is freed: of the heatmap by a
\* broadcast, of a camera if it has frames, and of all others by its own handler; unless Redis
\* failed the handler of a camera before it could free it, and then nothing does.
GoneAreForgotten ==
  FramesGoOn => \A c \in Clients :
    client[c] = "gone" ~>
      (c \notin conns \/ handler[c] = "failed" \/ (kind = "heatmap" /\ task.step = "dead"))
=============================================================================

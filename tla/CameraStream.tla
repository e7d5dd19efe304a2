---------------------------- MODULE CameraStream ----------------------------
(***************************************************************************)
(* One camera from its RTSP source to the operators.  The generator        *)
(* frame_generator_with_reconnect opens the stream, hands frames to        *)
(* CameraWorker.run and retries with a doubling backoff; every processed   *)
(* frame may send a heartbeat to camera_status:<id>, from which the health *)
(* endpoint concludes whether the camera is active or stale.  Docker       *)
(* restarts the process when it dies.  What the pipeline finds in a frame  *)
(* is left out, and so is the tracker that a reconnection resets.          *)
(*                                                                         *)
(* The names of the specification are the stream's own, for a module that  *)
(* extends CameraTracks too.                                               *)
(***************************************************************************)
EXTENDS Naturals

CONSTANTS
  HeartbeatSeconds,  \* CAMERA_HEARTBEAT_SECONDS
  StaleAfter,        \* age from which the health endpoint calls a heartbeat stale
  MaxBackoff,        \* longest pause between two attempts to open the stream
  MaxRetries,        \* failures in a row that make a failure persistent
  MaxCrashes,        \* bound: how often the process dies
  MaxStops           \* bound: how often an operator stops the container

ASSUME TimesAssumption ==
  /\ HeartbeatSeconds \in Nat \ {0} /\ MaxBackoff \in Nat \ {0} /\ MaxRetries \in Nat \ {0}
  /\ StaleAfter \in Nat /\ HeartbeatSeconds <= StaleAfter
  /\ MaxCrashes \in Nat /\ MaxStops \in Nat

VARIABLES
  up,        \* the source delivers frames
  pc,        \* where the generator and the loop over it stand
  retries,   \* retry_count, up to MaxRetries
  backoff,   \* the next pause
  wait,      \* what is left of the current pause
  lost,      \* disconnect_at is set
  status,    \* CameraWorker._status
  sinceBeat, \* time since this process's last heartbeat, up to HeartbeatSeconds
  stop,      \* _shutdown: SIGTERM was received
  shown,     \* status in camera_status:<id>, "none" without the key
  age,       \* age of last_heartbeat, up to StaleAfter + 1
  sinceFrame,\* history: time since a frame was processed, up to StaleAfter + 1
  crashes, stops

generator == <<retries, backoff, wait, lost>>
process == <<generator, status, sinceBeat>>
published == <<shown, age, sinceFrame>>
bounds == <<crashes, stops>>
streamVars == <<up, pc, process, stop, published, bounds>>

Smaller(a, b) == IF a < b THEN a ELSE b
-----------------------------------------------------------------------------
StreamInit ==
  /\ up \in BOOLEAN
  /\ pc = "open" /\ stop = FALSE
  /\ retries = 0 /\ backoff = 1 /\ wait = 0 /\ lost = FALSE
  /\ status = "active" /\ sinceBeat = HeartbeatSeconds
  /\ shown = "none" /\ age = StaleAfter + 1 /\ sinceFrame = StaleAfter + 1
  /\ crashes = 0 /\ stops = 0

\* The source or the network fails or comes back.
Flip ==
  /\ up' = ~up
  /\ UNCHANGED <<pc, process, stop, published, bounds>>

Tick ==
  /\ wait' = IF wait > 0 THEN wait - 1 ELSE 0
  /\ sinceBeat' = Smaller(sinceBeat + 1, HeartbeatSeconds)
  /\ age' = Smaller(age + 1, StaleAfter + 1)
  /\ sinceFrame' = Smaller(sinceFrame + 1, StaleAfter + 1)
  /\ UNCHANGED <<up, pc, retries, backoff, lost, status, stop, shown, bounds>>
-----------------------------------------------------------------------------
(***************************************************************************)
(* frame_generator_with_reconnect                                          *)
(***************************************************************************)
Open ==
  /\ pc = "open" /\ up
  /\ pc' = "read"
  /\ UNCHANGED <<up, process, stop, published, bounds>>

\* Slip: the status is not set back to active.
SlipKeepStatus == status

\* on_reconnected, called with the first frame after a failure.
StatusWithFrame == IF lost THEN "active" ELSE status

\* A frame is yielded.
Read ==
  /\ pc = "read" /\ up
  /\ pc' = "frame"
  /\ status' = StatusWithFrame
  /\ lost' = FALSE /\ retries' = 0 /\ backoff' = 1
  /\ UNCHANGED <<up, wait, sinceBeat, stop, published, bounds>>

NextBackoff == Smaller(2 * backoff, MaxBackoff)

StatusAfterFailure == IF retries + 1 >= MaxRetries THEN "error" ELSE "reconnecting"

\* Slip: a heartbeat is sent before the status changes.
SlipBeatFirst ==
  /\ pc \in {"open", "read"} /\ ~up
  /\ retries' = Smaller(retries + 1, MaxRetries)
  /\ lost' = TRUE
  /\ status' = StatusAfterFailure
  /\ pc' = "sleep"
  /\ wait' = backoff /\ backoff' = NextBackoff
  /\ shown' = status /\ age' = 0 /\ sinceBeat' = 0
  /\ UNCHANGED <<up, stop, sinceFrame, bounds>>

\* Opening or reading raises: on_reconnecting, after MaxRetries failures in a row also
\* on_persistent_failure, and a pause.
Fail ==
  /\ pc \in {"open", "read"} /\ ~up
  /\ retries' = Smaller(retries + 1, MaxRetries)
  /\ lost' = TRUE
  /\ status' = StatusAfterFailure
  /\ pc' = "sleep"
  /\ wait' = backoff /\ backoff' = NextBackoff
  /\ UNCHANGED <<up, sinceBeat, stop, published, bounds>>

\* Slip: no attempt after a persistent failure.
SlipGiveUp ==
  /\ pc = "sleep" /\ wait = 0 /\ retries < MaxRetries
  /\ pc' = "open"
  /\ UNCHANGED <<up, process, stop, published, bounds>>

\* time.sleep goes on after a signal: SIGTERM does not cut the pause short.
WakeUp ==
  /\ pc = "sleep" /\ wait = 0
  /\ pc' = "open"
  /\ UNCHANGED <<up, process, stop, published, bounds>>
-----------------------------------------------------------------------------
(***************************************************************************)
(* The loop of CameraWorker.run over the frames                            *)
(***************************************************************************)
\* _should_process_frame: too soon after the last frame.
Skip ==
  /\ pc = "frame" /\ ~stop /\ sinceFrame = 0
  /\ pc' = "read"
  /\ UNCHANGED <<up, process, stop, published, bounds>>

\* _process_frame ends with _maybe_heartbeat.
Process ==
  /\ pc = "frame" /\ ~stop
  /\ pc' = "read"
  /\ sinceFrame' = 0
  /\ IF sinceBeat < HeartbeatSeconds
     THEN UNCHANGED <<shown, age, sinceBeat>>
     ELSE shown' = status /\ age' = 0 /\ sinceBeat' = 0
  /\ UNCHANGED <<up, generator, status, stop, bounds>>

\* Slip: no final heartbeat.
SlipExitSilently ==
  /\ pc = "frame" /\ stop
  /\ pc' = "off" /\ stop' = FALSE
  /\ UNCHANGED <<up, process, published, bounds>>

\* The shutdown flag is looked at when a frame arrives: _flush_shutdown_state.
Exit ==
  /\ pc = "frame" /\ stop
  /\ pc' = "off" /\ stop' = FALSE
  /\ shown' = "shutdown" /\ age' = 0
  /\ sinceFrame' = StaleAfter + 1
  /\ UNCHANGED <<up, process, bounds>>
-----------------------------------------------------------------------------
(***************************************************************************)
(* Docker and the operator                                                 *)
(***************************************************************************)
\* Inference, Redis or the machine fails: the process dies wherever it stands.
Crash ==
  /\ pc \notin {"dead", "off"} /\ crashes < MaxCrashes
  /\ crashes' = crashes + 1
  /\ pc' = "dead"
  /\ UNCHANGED <<up, process, stop, published, stops>>

\* A new process; its first processed frame sends a heartbeat.
Boot ==
  /\ pc' = "open" /\ stop' = FALSE
  /\ retries' = 0 /\ backoff' = 1 /\ wait' = 0 /\ lost' = FALSE
  /\ status' = "active" /\ sinceBeat' = HeartbeatSeconds

\* "restart: always", unless the container is being stopped.
DockerRestart ==
  /\ pc = "dead" /\ ~stop
  /\ Boot
  /\ UNCHANGED <<up, published, bounds>>

\* docker stop sends SIGTERM; the handler sets the flag.
Terminate ==
  /\ pc \notin {"dead", "off"} /\ ~stop /\ stops < MaxStops
  /\ stop' = TRUE /\ stops' = stops + 1
  /\ UNCHANGED <<up, pc, process, published, crashes>>

\* SIGKILL when the grace period ends.  A worker that has frames leaves before it.
Kill ==
  /\ stop /\ (~up \/ pc \in {"sleep", "dead"})
  /\ pc' = "off" /\ stop' = FALSE
  /\ UNCHANGED <<up, process, published, bounds>>

Start ==
  /\ pc = "off"
  /\ Boot
  /\ UNCHANGED <<up, published, bounds>>

Work == Open \/ Read \/ Fail \/ WakeUp \/ Process \/ Exit \/ DockerRestart

StreamNext == Flip \/ Tick \/ Work \/ Skip \/ Crash \/ Terminate \/ Kill \/ Start

StreamSpec == StreamInit /\ [][StreamNext]_streamVars

\* The process runs, Docker restarts it, and time passes.
FairStreamSpec == StreamSpec /\ WF_streamVars(Work) /\ WF_streamVars(Tick)
-----------------------------------------------------------------------------
(***************************************************************************)
(* The health endpoint                                                     *)
(***************************************************************************)
\* The status shown for the camera; "none" when there is no key yet.
Health == IF shown = "active" /\ age > StaleAfter THEN "stale" ELSE shown
-----------------------------------------------------------------------------
(***************************************************************************)
(* Properties                                                              *)
(***************************************************************************)

\* Every variable keeps its type; the backoff never exceeds its cap.
StreamTypeOK ==
  /\ up \in BOOLEAN /\ lost \in BOOLEAN /\ stop \in BOOLEAN
  /\ pc \in {"open", "read", "frame", "sleep", "dead", "off"}
  /\ retries \in 0..MaxRetries
  /\ backoff \in 1..MaxBackoff /\ wait \in 0..MaxBackoff
  /\ status \in {"active", "reconnecting", "error"}
  /\ shown \in {"none", "active", "reconnecting", "error", "shutdown"}
  /\ sinceBeat \in 0..HeartbeatSeconds
  /\ age \in 0..(StaleAfter + 1) /\ sinceFrame \in 0..(StaleAfter + 1)
  /\ crashes \in 0..MaxCrashes /\ stops \in 0..MaxStops

\* No false calm: a camera is shown as active only if a frame of it was processed in
\* the last StaleAfter seconds, through outages, retries, crashes and restarts.
ActiveMeansFrames == Health = "active" => sinceFrame <= StaleAfter

\* No false alarm: a camera of which a frame was processed so recently that the
\* heartbeat before it cannot be stale is shown as active, although the heartbeat is
\* not sent with every frame and an outage has set the status to something else.
FramesMeanActive == sinceFrame + HeartbeatSeconds <= StaleAfter => Health = "active"

\* An outage is never published: heartbeats are sent with processed frames only, and
\* the first of them has set the status back, so what the operators see of a camera
\* without stream is an active one that turns stale, and never "reconnecting" or
\* "error", whichever way outages, retries, deaths and stops follow each other.
OutageIsNotPublished == shown \in {"none", "active", "shutdown"}

\* A camera whose source stays up is shown as active again and again, however often
\* the stream failed before and however persistently.
RecoveryShows ==
  <>[](up /\ ~stop /\ pc # "off") => []<>(Health = "active")

\* "Write final heartbeat before exit (SIGTERM graceful shutdown)"
\* (camera_worker.py:495): so it is as long as frames arrive.
ShutdownShows ==
  (stop /\ pc # "sleep" /\ [](up /\ pc # "dead")) ~> Health = "shutdown"
=============================================================================

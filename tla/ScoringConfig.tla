---------------------------- MODULE ScoringConfig ----------------------------
(***************************************************************************)
(* What an activity is worth, and what a flush pays for it.  Weights and   *)
(* minimum dwells are edited through PUT /config/scoring and announced on  *)
(* scoring_config_updated; a thread of the scoring worker reloads them     *)
(* whenever it hears of it, also while the main thread is in the middle of *)
(* a flush (scoring_worker.py reads self._config twice).  The flush turns  *)
(* a participant's events into minutes, points and tags (scoring_engine),  *)
(* and the score card is computed from the row it leaves (api/scores.py).  *)
(*                                                                         *)
(* One participant; reading the stream, the log rows and the cursor are in *)
(* module ScoringWorker.  Time is counted in seconds and weights in units; *)
(* Interval is divisible by the sizes of the batches.                      *)
(***************************************************************************)
EXTENDS Integers, Sequences, FiniteSetsExt

CONSTANTS
  Activities,  \* the activities of the events
  Settings,    \* what an activity may be set to: a weight and a dwell
  Bodies,      \* the lists an administrator sends: settings of some activities
  Yaml,        \* configs/scoring.yaml
  Interval,    \* SCORING_FLUSH_INTERVAL
  MaxBatch,    \* bound: events of the participant in one flush
  MaxPuts, MaxFlushes, MaxFaults,   \* bounds
  None

VARIABLES
  saved,     \* table scoring_config
  request,   \* the PUT in progress: what it sets, and whether it is committed
  config,    \* ScoringWorker._config
  listener,  \* its scoring-config thread: starting, listening or dead
  notices,   \* announcements in the thread's subscription
  loading,   \* the configuration a reload has read and not assigned yet
  flush,     \* the participant's turn in the flush in progress
  row,       \* the participant's row of table scores
  flushes,   \* flushes that credited the participant
  missed,    \* history: an edit the worker will not hear of
  puts, faults

worker == <<config, listener, notices, loading>>
vars == <<saved, request, worker, flush, row, flushes, missed, puts, faults>>

\* ACTIVITY_TO_MINUTE_COLUMN
Column(activity) ==
  CASE activity = "helping_others" -> "helping"
    [] activity \in {"idle", "resting", "eating"} -> "idle"
    [] activity = "sponsor_engagement" -> "networking"
    [] OTHER -> activity
Columns == {"coding", "collaborating", "mentoring", "presenting", "networking", "helping", "idle"}
Axes == {"coding", "collaborating", "mentoring", "presenting", "networking"}

ASSUME ConstantsAssumption ==
  /\ IsFiniteSet(Activities) /\ \A a \in Activities : Column(a) \in Columns
  /\ \A s \in Settings : s.weight \in Nat /\ s.dwell \in Nat
  /\ \A b \in Bodies : DOMAIN b \subseteq Activities /\ \A a \in DOMAIN b : b[a] \in Settings
  /\ Yaml \in [Activities -> Settings \cup {None}] /\ \E a \in Activities : Yaml[a] # None
  /\ Interval \in Nat /\ \A n \in 1..MaxBatch : Interval % n = 0
  /\ MaxBatch \in Nat /\ MaxPuts \in Nat /\ MaxFlushes \in Nat /\ MaxFaults \in Nat

Total(f, S) == FoldFunctionOnSet(+, 0, f, S)
-----------------------------------------------------------------------------
(***************************************************************************)
(* scoring_engine.py                                                       *)
(***************************************************************************)
\* Slip: an empty table is an empty configuration.
SlipNoFallback(table) == table

\* load_scoring_config: the file for an empty table.
Loaded(table) == IF \A a \in Activities : table[a] = None THEN Yaml ELSE table

\* aggregate_events_by_participant: the interval is shared out by the counts of events.
Minutes(batch) ==
  [a \in {b \in Activities : batch[b] > 0} |-> (Interval * batch[a]) \div Total(batch, Activities)]

\* Slip: the dwell is not looked at.
SlipNoDwell(minutes, cfg) == [a \in {b \in DOMAIN minutes : cfg[b] # None} |-> minutes[a]]

\* apply_min_dwell: unknown activities go, short ones count nothing.
ApplyMinDwell(minutes, cfg) ==
  [a \in {b \in DOMAIN minutes : cfg[b] # None} |-> IF minutes[a] < cfg[a].dwell THEN 0 ELSE minutes[a]]

\* calculate_period_points
PeriodPoints(applied, cfg) ==
  Total([a \in DOMAIN applied |-> IF cfg[a] = None THEN 0 ELSE applied[a] * cfg[a].weight], DOMAIN applied)

\* minute_deltas: what a flush adds to each column.
MinuteDeltas(applied) ==
  [c \in Columns |-> Total(applied, {a \in DOMAIN applied : Column(a) = c})]

\* merge_minutes_into_row, activity by activity.
MergeMinutes(minutes, applied) ==
  FoldSet(LAMBDA a, m : [m EXCEPT ![Column(a)] = @ + applied[a]], minutes, DOMAIN applied)

\* assign_tags, the night owl and the visited zones left out.
AssignTags(m) ==
  LET total == Total(m, Columns)
  IN IF total <= 0 THEN {}
     ELSE {t \in {"Builder", "Mentor", "Collaborator", "Networker"} :
             CASE t = "Builder" -> 100 * m["coding"] > 50 * total
               [] t = "Mentor" -> 100 * (m["mentoring"] + m["helping"]) > 15 * total
               [] t = "Collaborator" -> 100 * m["collaborating"] > 30 * total
               [] t = "Networker" -> 100 * m["networking"] > 20 * total}

\* Slip: the percentages are of the time on the axes, without idling and helping.
SlipOfAxes(m) == [percentage |-> [c \in Columns |-> 100 * m[c]], of |-> Total(m, Axes)]

\* build_radar_data and the breakdown of compare_scores and get_score_detail, as fractions:
\* numerators and the denominator.
Radar(m) == [share |-> [x \in Axes |-> m[x]], of |-> LET d == Total(m, Axes) IN IF d = 0 THEN 1 ELSE d]
Breakdown(m) == [percentage |-> [c \in Columns |-> 100 * m[c]], of |-> Total(m, Columns)]
-----------------------------------------------------------------------------
NoMinutes == [c \in Columns |-> 0]

Init ==
  /\ saved \in {Yaml, [a \in Activities |-> None]}   \* seeded by the first migration, or not
  /\ request = None
  /\ config = Loaded(saved) /\ listener = "starting" /\ notices = 0 /\ loading = None
  /\ flush = None
  /\ row = [minutes |-> NoMinutes, total |-> 0, tags |-> {}] /\ flushes = 0
  /\ missed = FALSE /\ puts = 0 /\ faults = 0

\* update_scoring_config: a list of activities with their settings, and ...
Put(body) ==
  /\ request = None /\ puts < MaxPuts
  /\ request' = [body |-> body, committed |-> FALSE]
  /\ puts' = puts + 1
  /\ UNCHANGED <<saved, worker, flush, row, flushes, missed, faults>>

\* ... one commit for all of them, ...
CommitPut ==
  /\ request # None /\ ~request.committed
  /\ saved' = [a \in Activities |-> IF a \in DOMAIN request.body THEN request.body[a] ELSE saved[a]]
  /\ request' = [request EXCEPT !.committed = TRUE]
  /\ UNCHANGED <<worker, flush, row, flushes, missed, puts, faults>>

\* ... then the announcement, which may fail after the commit.
PublishPut(arrives) ==
  /\ request # None /\ request.committed /\ request' = None
  /\ arrives \/ faults < MaxFaults
  /\ faults' = faults + (IF arrives THEN 0 ELSE 1)
  /\ IF arrives /\ listener = "listening"
     THEN notices' = notices + 1 /\ UNCHANGED missed
     ELSE missed' = TRUE /\ UNCHANGED notices
  /\ UNCHANGED <<saved, config, listener, loading, flush, row, flushes, puts>>

\* ScoringWorker.__init__, in a new process: load, then start the thread.  A flush in
\* progress is gone with its transaction.
RestartWorker ==
  /\ faults < MaxFaults /\ faults' = faults + 1
  /\ config' = Loaded(saved) /\ listener' = "starting" /\ notices' = 0 /\ loading' = None
  /\ flush' = None /\ missed' = FALSE
  /\ UNCHANGED <<saved, request, row, flushes, puts>>

Subscribe ==
  /\ listener = "starting" /\ listener' = "listening"
  /\ UNCHANGED <<saved, request, config, notices, loading, flush, row, flushes, missed, puts, faults>>

ListenerDies ==
  /\ faults < MaxFaults /\ faults' = faults + 1
  /\ listener = "listening" /\ loading = None /\ listener' = "dead"
  /\ notices' = 0 /\ missed' = (missed \/ notices > 0)
  /\ UNCHANGED <<saved, request, config, loading, flush, row, flushes, puts>>

\* One turn of _listen: what cannot be read leaves the configuration as it was.
ReadConfig(answers) ==
  /\ listener = "listening" /\ notices > 0 /\ loading = None
  /\ answers \/ faults < MaxFaults
  /\ notices' = notices - 1
  /\ loading' = IF answers THEN Loaded(saved) ELSE None
  /\ missed' = ~answers /\ faults' = faults + (IF answers THEN 0 ELSE 1)
  /\ UNCHANGED <<saved, request, config, listener, flush, row, flushes, puts>>

SlipHeardOnce == 0   \* Slip: one reload answers every announcement that came before its end.
StillToHear == notices
AssignConfig ==
  /\ loading # None /\ config' = loading /\ loading' = None /\ notices' = StillToHear
  /\ flush' = IF flush = None THEN None ELSE [flush EXCEPT !.configs = Append(@, loading)]
  /\ UNCHANGED <<saved, request, listener, row, flushes, missed, puts, faults>>

\* _flush_once, for the participant: the events of the interval, ...
BeginFlush(batch) ==
  /\ flush = None /\ flushes < MaxFlushes /\ Total(batch, Activities) \in 1..MaxBatch
  /\ flush' = [step |-> "dwell", batch |-> batch, applied |-> None, points |-> 0, configs |-> <<config>>]
  /\ UNCHANGED <<saved, request, worker, row, flushes, missed, puts, faults>>

\* ... of which there may be none, ...
FlushNothing == flush = None /\ UNCHANGED vars

\* ... the two uses of self._config, ...
ApplyDwell ==
  /\ flush # None /\ flush.step = "dwell"
  /\ flush' = [flush EXCEPT !.step = "points", !.applied = ApplyMinDwell(Minutes(flush.batch), config)]
  /\ UNCHANGED <<saved, request, worker, row, flushes, missed, puts, faults>>
CalculatePoints ==
  /\ flush # None /\ flush.step = "points"
  /\ flush' = [flush EXCEPT !.step = "commit", !.points = PeriodPoints(flush.applied, config)]
  /\ UNCHANGED <<saved, request, worker, row, flushes, missed, puts, faults>>

\* ... and apply_score_update, whose transaction may fail; the events are then given up.
CommitFlush(commits) ==
  /\ flush # None /\ flush.step = "commit" /\ flush' = None
  /\ commits \/ faults < MaxFaults
  /\ IF commits
     THEN LET delta == MinuteDeltas(flush.applied)
          IN row' = [minutes |-> [c \in Columns |-> row.minutes[c] + delta[c]],
                     total |-> row.total + flush.points,
                     tags |-> AssignTags(MergeMinutes(row.minutes, flush.applied))]
             /\ flushes' = flushes + 1 /\ UNCHANGED faults
     ELSE faults' = faults + 1 /\ UNCHANGED <<row, flushes>>
  /\ UNCHANGED <<saved, request, worker, missed, puts>>

Next ==
  \/ \E body \in Bodies : Put(body)
  \/ CommitPut \/ \E arrives \in BOOLEAN : PublishPut(arrives)
  \/ RestartWorker \/ Subscribe \/ ListenerDies \/ AssignConfig
  \/ \E answers \in BOOLEAN : ReadConfig(answers)
  \/ \E batch \in [Activities -> 0..MaxBatch] : BeginFlush(batch)
  \/ FlushNothing \/ ApplyDwell \/ CalculatePoints
  \/ \E commits \in BOOLEAN : CommitFlush(commits)

Spec == Init /\ [][Next]_vars

\* A running handler and a running thread go on.
FairSpec ==
  /\ Spec
  /\ WF_vars(CommitPut) /\ WF_vars(PublishPut(TRUE))
  /\ WF_vars(Subscribe) /\ WF_vars(ReadConfig(TRUE)) /\ WF_vars(AssignConfig)
-----------------------------------------------------------------------------
(***************************************************************************)
(* Properties                                                              *)
(***************************************************************************)
Tables == [Activities -> Settings \cup {None}]
\* Every variable keeps its type, and the worker has a configuration.
TypeOK ==
  /\ saved \in Tables /\ config \in Tables /\ (\E a \in Activities : config[a] # None)
  /\ (loading # None => loading \in Tables)
  /\ request # None => DOMAIN request.body \subseteq Activities /\ request.committed \in BOOLEAN
  /\ listener \in {"starting", "listening", "dead"} /\ notices \in 0..MaxPuts
  /\ row.minutes \in [Columns -> Nat] /\ row.total \in Nat
  /\ flush # None => flush.step \in {"dwell", "points", "commit"} /\ Len(flush.configs) \in 1..(MaxPuts + 2)
  /\ missed \in BOOLEAN /\ flushes \in 0..MaxFlushes /\ puts \in 0..MaxPuts /\ faults \in 0..MaxFaults

\* Whatever is reloaded while it runs, a flush pays each activity its share of the interval
\* times a weight the worker had during the flush, if the share reaches a dwell the worker
\* had before: points mix two configurations in that order only.
Pay(batch, dwells, weights) ==
  Total([a \in Activities |->
    IF /\ dwells[a] # None /\ weights[a] # None
       /\ Interval * batch[a] >= dwells[a].dwell * Total(batch, Activities)
    THEN Interval * batch[a] * weights[a].weight ELSE 0], Activities)
FlushPays ==
  flush # None /\ flush.step = "commit" =>
    \E i, j \in DOMAIN flush.configs :
      i <= j /\ flush.points * Total(flush.batch, Activities)
                = Pay(flush.batch, flush.configs[i], flush.configs[j])

\* The score card does not contradict the tags, which were computed from a copy of the row
\* into which the minutes were merged in another way; however activities share columns and
\* configurations change, its total is at most one interval per flush; its percentages add
\* up; and its radar shows no axis smaller than the percentages do.
CardAgrees ==
  LET card == Breakdown(row.minutes)
      radar == Radar(row.minutes)
      over(columns, limit) == Total(card.percentage, columns) > limit * card.of
  IN /\ "Builder" \in row.tags <=> over({"coding"}, 50)
     /\ "Mentor" \in row.tags <=> over({"mentoring", "helping"}, 15)
     /\ "Collaborator" \in row.tags <=> over({"collaborating"}, 30)
     /\ "Networker" \in row.tags <=> over({"networking"}, 20)
     /\ card.of <= Interval * flushes
     /\ Total(card.percentage, Columns) = 100 * card.of
     /\ \A x \in Axes : 100 * radar.share[x] * card.of >= card.percentage[x] * radar.of

\* If nothing is missed in the end, the worker ends with the saved configuration.
ConfigConverges ==
  <>[](listener = "listening" /\ ~missed) => <>[](config = Loaded(saved))
=============================================================================

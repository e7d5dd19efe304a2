--------------------------- MODULE HeatmapAlerts ---------------------------
(***************************************************************************)
(* The heatmap worker (workers/heatmap_worker.py) and its alert rules      *)
(* (core/alert_engine.py).  Every cycle takes a snapshot of the zone       *)
(* occupancy, stores it, runs the five rules in order, and stores and      *)
(* publishes the alerts that fired.  What the rules remember is in Redis:  *)
(* a cooldown per rule and zone, and since when a zone has been full or    *)
(* empty.  Redis times are kept as time to live and as age, up to the      *)
(* point from which more makes no difference.                              *)
(***************************************************************************)
EXTENDS Integers, Sequences

CONSTANTS
  Zones,      \* zone names in sorted order
  Capacity,   \* capacity of each zone in its table, 0 for NULL
  Default,    \* the capacity of a zone without one: 50
  Type,       \* zone_type of each zone
  MaxCount,   \* bound: people counted in a zone
  Cooldown,   \* cooldown_seconds of each rule, in ticks
  Sustain,    \* 30 minutes, in ticks
  Budget      \* bound: faults in a behaviour

Rules == <<"zone_capacity", "mentor_empty", "energy_dip", "zone_empty", "sustained_high_load">>
Places == 1..Len(Zones)
Global == 0          \* the cooldown key of energy_dip
Keys == {Rules[k] : k \in DOMAIN Rules} \X (Places \cup {Global})
Never == Sustain + 1 \* no "since" key

ASSUME ConstantsAssumption ==
  /\ Capacity \in [Places -> Int] /\ Default \in Nat \ {0} /\ MaxCount \in Nat
  /\ Cooldown \in [{Rules[k] : k \in DOMAIN Rules} -> Nat \ {0}]
  /\ Sustain \in Nat /\ Budget \in Nat

VARIABLES
  current,   \* heatmap:current: the people in each zone, and whether energy_level < 0.25
  ttl,       \* time to live of alert_cooldown:{rule}:{zone}
  full,      \* age of zone_high_since:{zone}, or Never
  empty,     \* age of zone_empty_since:{zone}, or Never
  pc,        \* where the cycle stands
  rule,      \* the rule to check next
  fired,     \* alerts that fired in this cycle
  rows,      \* alerts of running cooldowns that are in PostgreSQL
  listed,    \* alerts of running cooldowns that are in the Redis list
  calm,      \* history: age of the last snapshot in which the zone was not full
  faults     \* history

worker == <<pc, rule, fired>>
told == <<rows, listed>>
vars == <<current, ttl, full, empty, worker, told, calm, faults>>
-----------------------------------------------------------------------------
Init ==
  /\ current = [count |-> [z \in Places |-> 0], lowEnergy |-> FALSE]
  /\ ttl = [k \in Keys |-> 0]
  /\ full = [z \in Places |-> Never] /\ empty = [z \in Places |-> Never]
  /\ pc = "idle" /\ rule = 0 /\ fired = <<>>
  /\ rows = {} /\ listed = {}
  /\ calm = [z \in Places |-> 0]
  /\ faults = 0

Older(age) == [z \in Places |-> IF age[z] < Sustain THEN age[z] + 1 ELSE age[z]]

Tick ==
  /\ ttl' = [k \in Keys |-> IF ttl[k] > 0 THEN ttl[k] - 1 ELSE 0]
  /\ full' = Older(full) /\ empty' = Older(empty) /\ calm' = Older(calm)
  /\ UNCHANGED <<current, worker, told, faults>>
-----------------------------------------------------------------------------
(***************************************************************************)
(* The checks, on the snapshot of the cycle                                *)
(***************************************************************************)
\* A missing capacity, and one of 0, becomes the default on the way into the snapshot.
Limit(z) == IF Capacity[z] = 0 THEN Default ELSE Capacity[z]
Limited == {z \in Places : Limit(z) > 0}

\* The counts above 90% and above 85%; a negative capacity is no limit.
AboveNinety(z) == {n \in 0..MaxCount : z \in Limited /\ 10 * n > 9 * Limit(z)}
AboveEightyFive(z) == {n \in 0..MaxCount : z \in Limited /\ 20 * n > 17 * Limit(z)}
Empty(z) == current.count[z] = 0

\* A check walks the zones in order and returns the first that qualifies.
First(S) == {z \in S : \A y \in S : z <= y}

ZoneCapacity == First({z \in Places : current.count[z] \in AboveNinety(z)})
ZoneEmpty == First({z \in Places : Type[z] \in {"coding", "networking"} /\ Empty(z)})
EnergyDip == IF current.lowEnergy THEN {Global} ELSE {}

MentorEmpty ==
  First({z \in Places : Type[z] = "mentoring" /\ Empty(z) /\ empty[z] = Sustain})
SustainedHighLoad ==
  First({z \in Places : current.count[z] \in AboveEightyFive(z) /\ full[z] = Sustain})

\* Slip: a zone that is no longer full keeps its age.
SlipNeverCleared(age, applies, on, hit) ==
  [z \in Places |-> IF z \in on /\ age[z] = Never /\ \A h \in hit : z < h THEN 0 ELSE age[z]]

\* The walk starts or clears the ages of the zones before the one it returns; it
\* does not get to the others.
Walk(age, applies, on, hit) ==
  [z \in Places |->
     IF z \notin applies \/ (\E h \in hit : h <= z) THEN age[z]
     ELSE IF z \notin on THEN Never
     ELSE IF age[z] = Never THEN 0 ELSE age[z]]

Mentoring == {z \in Places : Type[z] = "mentoring"}
Result(name) ==
  CASE name = "zone_capacity" -> ZoneCapacity
    [] name = "mentor_empty" -> MentorEmpty
    [] name = "energy_dip" -> EnergyDip
    [] name = "zone_empty" -> ZoneEmpty
    [] name = "sustained_high_load" -> SustainedHighLoad
-----------------------------------------------------------------------------
(***************************************************************************)
(* _cycle                                                                  *)
(***************************************************************************)
\* The energy level is the share of the registered who were active lately, and 0 when
\* nobody is registered.
LowEnergy(active, registered) == registered = 0 \/ 4 * active < registered

\* build_heatmap_snapshot: the occupancy the cameras reported, which may be any, and the
\* energy level; store heatmap:current.
BeginCycle(count, active, registered) ==
  /\ pc = "idle"
  /\ current' = [count |-> count, lowEnergy |-> LowEnergy(active, registered)]
  /\ calm' = [z \in Places |-> IF count[z] \in AboveEightyFive(z) THEN calm[z] ELSE 0]
  /\ pc' = "save"
  /\ UNCHANGED <<ttl, full, empty, rule, fired, told, faults>>

\* Insert the snapshot, publish heatmap_updated, and turn to the rules.
SaveSnapshot ==
  /\ pc = "save"
  /\ pc' = "rules" /\ rule' = 1 /\ fired' = <<>>
  /\ UNCHANGED <<current, ttl, full, empty, told, calm, faults>>

Fires(name, hit) == {z \in hit : ttl[<<name, z>>] = 0}

\* Slip: a silenced alert starts its cooldown again.
SlipRenew(name, hit) ==
  [k \in Keys |-> IF k[1] = name /\ k[2] \in hit THEN Cooldown[name] ELSE ttl[k]]

StartCooldown(name, hit) ==
  [k \in Keys |-> IF k[1] = name /\ k[2] \in Fires(name, hit) THEN Cooldown[name] ELSE ttl[k]]

\* One rule: what it found fires unless it is in its cooldown, and starts one.
CheckRule ==
  /\ pc = "rules"
  /\ LET name == Rules[rule]
         hit == Result(name)
         new == {<<name, z>> : z \in Fires(name, hit)}
     IN /\ empty' = IF name = "mentor_empty"
                    THEN Walk(empty, Mentoring, {z \in Places : Empty(z)}, hit) ELSE empty
        /\ full' = IF name = "sustained_high_load"
                   THEN Walk(full, Limited,
                             {z \in Places : current.count[z] \in AboveEightyFive(z)}, hit)
                   ELSE full
        /\ ttl' = StartCooldown(name, hit)
        /\ fired' = IF new = {} THEN fired ELSE Append(fired, CHOOSE a \in new : TRUE)
        /\ rows' = rows \ new /\ listed' = listed \ new
        /\ IF rule = Len(Rules) THEN pc' = "persist" /\ rule' = 0
           ELSE pc' = "rules" /\ rule' = rule + 1
  /\ UNCHANGED <<current, calm, faults>>

\* Insert the next alert.
Persist ==
  /\ pc = "persist" /\ fired # <<>>
  /\ rows' = rows \cup {Head(fired)}
  /\ pc' = "push"
  /\ UNCHANGED <<current, ttl, full, empty, rule, fired, listed, calm, faults>>

\* Slip: the loop returns after its first alert.
SlipOneAlert ==
  /\ pc = "push"
  /\ listed' = listed \cup {Head(fired)}
  /\ fired' = <<>> /\ pc' = "persist"
  /\ UNCHANGED <<current, ttl, full, empty, rule, rows, calm, faults>>

\* Put it on the Redis list and publish it.
Push ==
  /\ pc = "push"
  /\ listed' = listed \cup {Head(fired)}
  /\ fired' = Tail(fired) /\ pc' = "persist"
  /\ UNCHANGED <<current, ttl, full, empty, rule, rows, calm, faults>>

EndCycle ==
  /\ pc = "persist" /\ fired = <<>>
  /\ pc' = "idle"
  /\ UNCHANGED <<current, ttl, full, empty, rule, fired, told, calm, faults>>
-----------------------------------------------------------------------------
Fault == faults < Budget /\ faults' = faults + 1

\* Slip: the alert is published all the same.
SlipPushUnstored ==
  /\ pc = "persist" /\ fired # <<>> /\ Fault
  /\ pc' = "push"
  /\ UNCHANGED <<current, ttl, full, empty, rule, fired, told, calm>>

\* _persist_alert logs the error of its transaction and drops the alert.
FailPersist ==
  /\ pc = "persist" /\ fired # <<>> /\ Fault
  /\ fired' = Tail(fired)
  /\ UNCHANGED <<current, ttl, full, empty, pc, rule, told, calm>>

\* PostgreSQL refuses the snapshot, Redis fails in a rule or a push, or the process
\* dies: the rest of the cycle does not happen.
AbortCycle ==
  /\ pc # "idle" /\ Fault
  /\ pc' = "idle" /\ rule' = 0 /\ fired' = <<>>
  /\ UNCHANGED <<current, ttl, full, empty, told, calm>>

Work ==
  \/ \E count \in [Places -> 0..MaxCount], active, registered \in 0..MaxCount :
       BeginCycle(count, active, registered)
  \/ SaveSnapshot \/ CheckRule \/ Persist \/ Push \/ EndCycle

Next ==
  \/ Tick
  \/ Work
  \/ FailPersist \/ AbortCycle

Spec == Init /\ [][Next]_vars

\* The loop runs and time passes.
FairSpec == Spec /\ WF_vars(Work) /\ WF_vars(Tick)
-----------------------------------------------------------------------------
(***************************************************************************)
(* Properties                                                              *)
(***************************************************************************)

\* Every variable keeps its type; a cycle fires at most one alert of each rule.
TypeOK ==
  /\ current \in [count : [Places -> 0..MaxCount], lowEnergy : BOOLEAN]
  /\ ttl \in [Keys -> Nat] /\ \A k \in Keys : ttl[k] <= Cooldown[k[1]]
  /\ full \in [Places -> 0..Never] /\ empty \in [Places -> 0..Never]
  /\ calm \in [Places -> 0..Sustain]
  /\ pc \in {"idle", "save", "rules", "persist", "push"}
  /\ rule \in 0..Len(Rules)
  /\ fired \in Seq(Keys) /\ \A i, j \in DOMAIN fired : fired[i][1] = fired[j][1] => i = j
  /\ rows \subseteq Keys /\ listed \subseteq Keys
  /\ faults \in 0..Budget

\* Without faults, a running cooldown that silences a rule for a zone means that the
\* operators were told: its alert is stored and listed before the cycle ends.  (The
\* cooldown starts first, so a failed insert silences the rule for nothing.)
CooldownMeansTold ==
  (pc = "idle" /\ faults = 0) =>
    \A k \in Keys : ttl[k] > 0 => k \in rows /\ k \in listed

\* Every alert on the operators' list is in PostgreSQL, whatever fails on the way.
ListedIsStored == listed \subseteq rows

\* A zone was full in every snapshot of the last half hour when the rule says so.
SustainedSince(z) ==
  \A i \in DOMAIN fired : fired[i] = <<"sustained_high_load", z>> => calm[z] = Sustain

\* Without faults the message is true of the first zone of the walk.
FirstZoneSustained == faults = 0 => SustainedSince(1)

FirstZoneFull == current.count[1] \in AboveNinety(1)
AlertingFirstZone == pc = "push" /\ Head(fired) = <<"zone_capacity", 1>>

\* If every snapshot finds the first zone above 90%, an alert about it is stored again and
\* again, although a cycle may fail after it started the cooldown.
FullZoneKeepsAlerting == <>[]FirstZoneFull => []<>AlertingFirstZone
=============================================================================

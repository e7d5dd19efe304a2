------------------------- MODULE HeatmapAlertsProofs -------------------------
(***************************************************************************)
(* For any zones, capacities, cooldowns and faults: types, that a silenced *)
(* rule has spoken, that what is listed is stored, and that the sustained- *)
(* load message is true of the first zone.                                 *)
(***************************************************************************)
EXTENDS HeatmapAlerts, TLAPS

-----------------------------------------------------------------------------
(***************************************************************************)
(* The inductive invariant                                                 *)
(***************************************************************************)
\* Alerts are collected by the rules and handed over one by one.
FiredFits ==
  /\ pc \in {"idle", "save"} => fired = <<>>
  /\ pc = "rules" => /\ rule \in 1..5
                     /\ \A i \in DOMAIN fired : \E k \in 1..(rule - 1) : fired[i][1] = Rules[k]
  /\ pc = "push" => fired # <<>> /\ Head(fired) \in rows

\* A cooldown runs for an alert the operators have, or will have when this cycle ends.
ToldOrFired ==
  faults = 0 =>
    \A k \in Keys : ttl[k] > 0 => (k \in rows /\ k \in listed) \/ \E i \in DOMAIN fired : fired[i] = k

\* No age is kept for a zone without a limit (of negative capacity); the age of the first
\* zone is that of its last calm snapshot at most, once the walk of the cycle has passed it.
UnlimitedIsNeverFull == \A z \in Places \ Limited : full[z] = Never
Passed == pc \in {"save", "rules"} => current.count[1] \in AboveEightyFive(1)
FullSinceCalm == faults = 0 /\ 1 \in Places /\ full[1] # Never /\ Passed => full[1] <= calm[1]

IInv ==
  /\ TypeOK /\ FiredFits /\ ToldOrFired /\ ListedIsStored
  /\ UnlimitedIsNeverFull /\ FullSinceCalm /\ FirstZoneSustained
-----------------------------------------------------------------------------
(***************************************************************************)
(* Lemmas                                                                  *)
(***************************************************************************)
LEMMA RuleNames ==
  /\ DOMAIN Rules = 1..5 /\ Len(Rules) = 5
  /\ Rules[1] = "zone_capacity" /\ Rules[2] = "mentor_empty" /\ Rules[3] = "energy_dip"
  /\ Rules[4] = "zone_empty" /\ Rules[5] = "sustained_high_load"
  /\ \A i, j \in 1..5 : Rules[i] = Rules[j] => i = j
  BY DEF Rules

\* Of some zones at most one is the first.
LEMMA OneIsFirst ==
  ASSUME NEW S \in SUBSET Places
  PROVE  First(S) \subseteq S /\ \A x, y \in First(S) : x = y
  BY DEF First, Places

\* What a rule finds is a zone at most, or the venue.
LEMMA ResultFits ==
  ASSUME NEW r \in 1..5
  PROVE  /\ Result(Rules[r]) \subseteq Places \cup {Global}
         /\ \A x, y \in Result(Rules[r]) : x = y
  <1>1. CASE r = 1
    <2>1. Result(Rules[r]) = ZoneCapacity
      BY <1>1, RuleNames DEF Result
    <2> QED BY <2>1, OneIsFirst DEF ZoneCapacity
  <1>2. CASE r = 2
    <2>1. Result(Rules[r]) = MentorEmpty
      BY <1>2, RuleNames DEF Result
    <2> QED BY <2>1, OneIsFirst DEF MentorEmpty
  <1>3. CASE r = 3
    <2>1. Result(Rules[r]) = EnergyDip
      BY <1>3, RuleNames DEF Result
    <2> QED BY <2>1 DEF EnergyDip
  <1>4. CASE r = 4
    <2>1. Result(Rules[r]) = ZoneEmpty
      BY <1>4, RuleNames DEF Result
    <2> QED BY <2>1, OneIsFirst DEF ZoneEmpty
  <1>5. CASE r = 5
    <2>1. Result(Rules[r]) = SustainedHighLoad
      BY <1>5, RuleNames DEF Result
    <2> QED BY <2>1, OneIsFirst DEF SustainedHighLoad
  <1> QED BY <1>1, <1>2, <1>3, <1>4, <1>5

\* Ages stay in their range, and those that are missing or long enough stay so.
LEMMA OlderFits ==
  ASSUME NEW age \in [Places -> 0..Never]
  PROVE  /\ Older(age) \in [Places -> 0..Never]
         /\ age \in [Places -> 0..Sustain] => Older(age) \in [Places -> 0..Sustain]
         /\ \A z \in Places : /\ age[z] = Never <=> Older(age)[z] = Never
                              /\ age[z] = Sustain => Older(age)[z] = Sustain
  <1>1. Sustain \in Nat /\ Never = Sustain + 1
    BY ConstantsAssumption DEF Never
  <1>2. \A z \in Places : age[z] \in 0..Never /\ Older(age)[z] = IF age[z] < Sustain THEN age[z] + 1 ELSE age[z]
    BY DEF Older
  <1>3. Older(age) = [z \in Places |-> Older(age)[z]]
    BY DEF Older
  <1> QED BY <1>1, <1>2, <1>3

LEMMA WalkFits ==
  ASSUME NEW age \in [Places -> 0..Never], NEW applies, NEW on, NEW hit
  PROVE  Walk(age, applies, on, hit) \in [Places -> 0..Never]
  <1>1. 0 \in 0..Never /\ Never \in 0..Never
    BY ConstantsAssumption DEF Never
  <1> QED BY <1>1 DEF Walk
-----------------------------------------------------------------------------
(***************************************************************************)
(* The steps                                                               *)
(***************************************************************************)
LEMMA InitInv == Init => IInv
  <1> SUFFICES ASSUME Init PROVE IInv
    OBVIOUS
  <1>1. Sustain \in Nat /\ Never = Sustain + 1
    BY ConstantsAssumption DEF Never
  <1>2. \A k \in Keys : Cooldown[k[1]] \in Nat
    BY ConstantsAssumption DEF Keys
  <1>3. TypeOK
    BY <1>1, <1>2, ConstantsAssumption DEF Init, TypeOK
  <1>4. FiredFits /\ ToldOrFired /\ ListedIsStored
    BY DEF Init, FiredFits, ToldOrFired, ListedIsStored
  <1>5. UnlimitedIsNeverFull /\ FullSinceCalm /\ FirstZoneSustained
    BY DEF Init, UnlimitedIsNeverFull, FullSinceCalm, FirstZoneSustained, SustainedSince
  <1> QED BY <1>3, <1>4, <1>5 DEF IInv

LEMMA TickInv == IInv /\ Tick => IInv'
  <1> SUFFICES ASSUME IInv, Tick PROVE IInv'
    OBVIOUS
  <1>1. /\ UNCHANGED <<current, pc, rule, fired, rows, listed, faults>>
        /\ ttl' = [k \in Keys |-> IF ttl[k] > 0 THEN ttl[k] - 1 ELSE 0]
        /\ full' = Older(full) /\ empty' = Older(empty) /\ calm' = Older(calm)
    BY DEF Tick, worker, told
  <1>2. Sustain \in Nat /\ Never = Sustain + 1
    BY ConstantsAssumption DEF Never
  <1>3. /\ full \in [Places -> 0..Never] /\ empty \in [Places -> 0..Never]
        /\ calm \in [Places -> 0..Sustain] /\ calm \in [Places -> 0..Never]
    BY <1>2 DEF IInv, TypeOK
  <1>4. ttl' \in [Keys -> Nat] /\ \A k \in Keys : ttl'[k] <= ttl[k] /\ ttl'[k] <= Cooldown[k[1]]
    <2>1. \A k \in Keys : ttl[k] \in Nat /\ ttl[k] <= Cooldown[k[1]] /\ Cooldown[k[1]] \in Nat
      BY ConstantsAssumption DEF IInv, TypeOK, Keys
    <2> QED BY <1>1, <2>1
  <1>5. TypeOK'
    <2>1. full' \in [Places -> 0..Never] /\ empty' \in [Places -> 0..Never] /\ calm' \in [Places -> 0..Sustain]
      BY <1>1, <1>3, OlderFits
    <2> QED BY <1>1, <1>4, <2>1 DEF IInv, TypeOK
  <1>6. FiredFits' /\ ListedIsStored'
    BY <1>1 DEF IInv, FiredFits, ListedIsStored
  <1>7. ToldOrFired'
    <2>1. \A k \in Keys : ttl'[k] > 0 => ttl[k] > 0
      BY <1>4 DEF IInv, TypeOK
    <2> QED BY <1>1, <2>1 DEF IInv, ToldOrFired
  <1>8. UnlimitedIsNeverFull'
    BY <1>1, <1>3, OlderFits DEF IInv, UnlimitedIsNeverFull
  <1>9. FullSinceCalm'
    <2>1. ASSUME 1 \in Places, full'[1] # Never, faults = 0, Passed PROVE full'[1] <= calm'[1]
      <3>1. full[1] # Never /\ full[1] <= calm[1]
        BY <2>1, <1>1, <1>3, OlderFits DEF IInv, FullSinceCalm
      <3>2. /\ full'[1] = IF full[1] < Sustain THEN full[1] + 1 ELSE full[1]
            /\ calm'[1] = IF calm[1] < Sustain THEN calm[1] + 1 ELSE calm[1]
        BY <2>1, <1>1 DEF Older
      <3>3. full[1] \in 0..Never /\ calm[1] \in 0..Sustain
        BY <2>1, <1>3
      <3> QED BY <3>1, <3>2, <3>3, <1>2
    <2> QED BY <2>1, <1>1 DEF FullSinceCalm, Passed, AboveEightyFive
  <1>10. FirstZoneSustained'
    <2>1. ASSUME NEW i \in DOMAIN fired, faults = 0, fired[i] = <<"sustained_high_load", 1>>
          PROVE  calm'[1] = Sustain
      <3>1. fired[i] \in Keys
        <4>1. fired \in Seq(Keys)
          BY DEF IInv, TypeOK
        <4> QED BY <4>1
      <3>2. 1 \in Places
        BY <2>1, <3>1 DEF Keys, Global
      <3>3. calm[1] = Sustain
        BY <2>1 DEF IInv, FirstZoneSustained, SustainedSince
      <3> QED BY <3>2, <3>3, <1>1, <1>3, OlderFits
    <2> QED BY <2>1, <1>1 DEF FirstZoneSustained, SustainedSince
  <1> QED BY <1>5, <1>6, <1>7, <1>8, <1>9, <1>10 DEF IInv

\* A snapshot in which the first zone is not full has not been walked yet.
LEMMA BeginInv ==
  ASSUME NEW count \in [Places -> 0..MaxCount], NEW active \in 0..MaxCount, NEW registered \in 0..MaxCount,
         IInv, BeginCycle(count, active, registered)
  PROVE  IInv'
  <1>1. /\ UNCHANGED <<ttl, full, empty, rule, fired, rows, listed, faults>>
        /\ pc = "idle" /\ pc' = "save" /\ current'.count = count
        /\ current' = [count |-> count, lowEnergy |-> LowEnergy(active, registered)]
        /\ calm' = [z \in Places |-> IF count[z] \in AboveEightyFive(z) THEN calm[z] ELSE 0]
    BY DEF BeginCycle, told
  <1>2. TypeOK'
    <2>1. LowEnergy(active, registered) \in BOOLEAN
      BY DEF LowEnergy
    <2>2. current' \in [count : [Places -> 0..MaxCount], lowEnergy : BOOLEAN]
      BY <1>1, <2>1
    <2>3. calm' \in [Places -> 0..Sustain]
      BY <1>1, ConstantsAssumption DEF IInv, TypeOK
    <2> QED BY <1>1, <2>2, <2>3 DEF IInv, TypeOK
  <1>3. FiredFits' /\ ListedIsStored' /\ ToldOrFired' /\ UnlimitedIsNeverFull'
    BY <1>1 DEF IInv, FiredFits, ListedIsStored, ToldOrFired, UnlimitedIsNeverFull
  <1>4. FullSinceCalm'
    BY <1>1 DEF IInv, FullSinceCalm, Passed, AboveEightyFive
  <1>5. FirstZoneSustained'
    BY <1>1 DEF IInv, FiredFits, FirstZoneSustained, SustainedSince
  <1> QED BY <1>2, <1>3, <1>4, <1>5 DEF IInv

LEMMA SaveInv == IInv /\ SaveSnapshot => IInv'
  <1> SUFFICES ASSUME IInv, SaveSnapshot PROVE IInv'
    OBVIOUS
  <1>1. /\ UNCHANGED <<current, ttl, full, empty, rows, listed, calm, faults>>
        /\ pc = "save" /\ pc' = "rules" /\ rule' = 1 /\ fired' = <<>> /\ fired = <<>>
    BY DEF SaveSnapshot, told, IInv, FiredFits
  <1>2. TypeOK'
    BY <1>1, RuleNames DEF IInv, TypeOK
  <1>3. FiredFits' /\ ListedIsStored' /\ ToldOrFired' /\ UnlimitedIsNeverFull'
    BY <1>1 DEF IInv, FiredFits, ListedIsStored, ToldOrFired, UnlimitedIsNeverFull
  <1>4. FullSinceCalm' /\ FirstZoneSustained'
    BY <1>1 DEF IInv, FullSinceCalm, Passed, AboveEightyFive, FirstZoneSustained, SustainedSince
  <1> QED BY <1>2, <1>3, <1>4 DEF IInv

\* The handing over: what leaves the queue is stored and listed, unless something failed.
LEMMA PersistInv == IInv /\ Persist => IInv'
  <1> SUFFICES ASSUME IInv, Persist PROVE IInv'
    OBVIOUS
  <1>1. /\ UNCHANGED <<current, ttl, full, empty, rule, fired, listed, calm, faults>>
        /\ pc = "persist" /\ pc' = "push" /\ fired # <<>> /\ rows' = rows \cup {Head(fired)}
    BY DEF Persist
  <1>2. Head(fired) \in Keys
    BY <1>1 DEF IInv, TypeOK
  <1>3. TypeOK'
    BY <1>1, <1>2 DEF IInv, TypeOK
  <1>4. FiredFits' /\ ListedIsStored' /\ ToldOrFired' /\ UnlimitedIsNeverFull'
    BY <1>1 DEF IInv, FiredFits, ListedIsStored, ToldOrFired, UnlimitedIsNeverFull
  <1>5. FullSinceCalm' /\ FirstZoneSustained'
    BY <1>1 DEF IInv, FullSinceCalm, Passed, AboveEightyFive, FirstZoneSustained, SustainedSince
  <1> QED BY <1>3, <1>4, <1>5 DEF IInv

LEMMA PopInv == IInv /\ (Push \/ FailPersist) => IInv'
  <1> SUFFICES ASSUME IInv, Push \/ FailPersist PROVE IInv'
    OBVIOUS
  <1>1. /\ UNCHANGED <<current, ttl, full, empty, rule, rows, calm>>
        /\ pc \in {"push", "persist"} /\ pc' = "persist" /\ fired # <<>> /\ fired' = Tail(fired)
        /\ (listed' = listed \cup {Head(fired)} /\ Head(fired) \in rows /\ faults' = faults)
           \/ (listed' = listed /\ faults' = faults + 1 /\ faults < Budget)
    BY DEF Push, FailPersist, Fault, told, IInv, FiredFits
  <1>2. faults \in Nat /\ faults' \in 0..Budget /\ (faults' = 0 => listed' = listed \cup {Head(fired)} /\ Head(fired) \in rows /\ faults = 0)
    BY <1>1, ConstantsAssumption DEF IInv, TypeOK
  <1>3. /\ fired \in Seq(Keys) /\ fired' \in Seq(Keys) /\ Head(fired) \in Keys
        /\ DOMAIN fired = 1..Len(fired) /\ DOMAIN fired' = 1..(Len(fired) - 1) /\ Len(fired) \in Nat
        /\ Head(fired) = fired[1] /\ \A i \in 1..(Len(fired) - 1) : fired'[i] = fired[i + 1]
    BY <1>1 DEF IInv, TypeOK
  <1>4. \A i \in DOMAIN fired' : i + 1 \in DOMAIN fired /\ fired'[i] = fired[i + 1]
    BY <1>3
  <1>5. TypeOK'
    <2>1. \A i, j \in DOMAIN fired' : fired'[i][1] = fired'[j][1] => i = j
      <3>1. \A i, j \in DOMAIN fired : fired[i][1] = fired[j][1] => i = j
        BY DEF IInv, TypeOK
      <3>2. ASSUME NEW i \in DOMAIN fired', NEW j \in DOMAIN fired', fired'[i][1] = fired'[j][1] PROVE i = j
        <4>1. i + 1 = j + 1
          BY <3>1, <3>2, <1>4
        <4> QED BY <4>1, <1>3
      <3> QED BY <3>2
    <2>2. listed' \subseteq Keys
      BY <1>1, <1>3 DEF IInv, TypeOK
    <2> QED BY <1>1, <1>2, <1>3, <2>1, <2>2 DEF IInv, TypeOK
  <1>6. FiredFits' /\ ListedIsStored' /\ UnlimitedIsNeverFull'
    BY <1>1 DEF IInv, FiredFits, ListedIsStored, UnlimitedIsNeverFull
  <1>7. ToldOrFired'
    <2>1. ASSUME NEW k \in Keys, ttl[k] > 0, faults' = 0
          PROVE  (k \in rows /\ k \in listed') \/ \E i \in DOMAIN fired' : fired'[i] = k
      <3>1. (k \in rows /\ k \in listed) \/ \E i \in DOMAIN fired : fired[i] = k
        BY <2>1, <1>2 DEF IInv, ToldOrFired
      <3>2. CASE k \in rows /\ k \in listed
        BY <3>2, <2>1, <1>2
      <3>3. ASSUME NEW i \in DOMAIN fired, fired[i] = k
            PROVE  (k \in rows /\ k \in listed') \/ \E j \in DOMAIN fired' : fired'[j] = k
        <4>1. CASE i = 1
          BY <4>1, <3>3, <2>1, <1>2, <1>3
        <4>2. CASE i # 1
          <5>1. i - 1 \in DOMAIN fired' /\ (i - 1) + 1 = i
            BY <4>2, <1>3
          <5> QED BY <5>1, <3>3, <1>4
        <4> QED BY <4>1, <4>2
      <3> QED BY <3>1, <3>2, <3>3
    <2> QED BY <2>1, <1>1 DEF ToldOrFired
  <1>8. FullSinceCalm'
    BY <1>1, <1>2 DEF IInv, FullSinceCalm, Passed, AboveEightyFive
  <1>9. FirstZoneSustained'
    BY <1>1, <1>2, <1>4 DEF IInv, FirstZoneSustained, SustainedSince
  <1> QED BY <1>5, <1>6, <1>7, <1>8, <1>9 DEF IInv

LEMMA EndInv == IInv /\ EndCycle => IInv'
  <1> SUFFICES ASSUME IInv, EndCycle PROVE IInv'
    OBVIOUS
  <1>1. /\ UNCHANGED <<current, ttl, full, empty, rule, fired, rows, listed, calm, faults>>
        /\ pc = "persist" /\ pc' = "idle" /\ fired = <<>>
    BY DEF EndCycle, told
  <1>2. TypeOK'
    BY <1>1 DEF IInv, TypeOK
  <1> QED BY <1>1, <1>2 DEF IInv, FiredFits, ListedIsStored, ToldOrFired, UnlimitedIsNeverFull, FullSinceCalm,
       Passed, AboveEightyFive, FirstZoneSustained, SustainedSince

LEMMA AbortInv == IInv /\ AbortCycle => IInv'
  <1> SUFFICES ASSUME IInv, AbortCycle PROVE IInv'
    OBVIOUS
  <1>1. /\ UNCHANGED <<current, ttl, full, empty, rows, listed, calm>>
        /\ pc' = "idle" /\ rule' = 0 /\ fired' = <<>> /\ faults' \in 0..Budget /\ faults' # 0
    BY ConstantsAssumption DEF AbortCycle, Fault, told, IInv, TypeOK
  <1>2. TypeOK'
    BY <1>1, RuleNames DEF IInv, TypeOK
  <1> QED BY <1>1, <1>2 DEF IInv, FiredFits, ListedIsStored, ToldOrFired, UnlimitedIsNeverFull, FullSinceCalm,
       FirstZoneSustained

LEMMA StutterInv == IInv /\ UNCHANGED vars => IInv'
  <1> SUFFICES ASSUME IInv, UNCHANGED vars PROVE IInv'
    OBVIOUS
  <1>1. UNCHANGED <<current, ttl, full, empty, pc, rule, fired, rows, listed, calm, faults>>
    BY DEF vars, worker, told
  <1>2. TypeOK'
    BY <1>1 DEF IInv, TypeOK
  <1> QED BY <1>1, <1>2 DEF IInv, FiredFits, ListedIsStored, ToldOrFired, UnlimitedIsNeverFull, FullSinceCalm,
       Passed, AboveEightyFive, FirstZoneSustained, SustainedSince
-----------------------------------------------------------------------------
(***************************************************************************)
(* A rule is checked                                                       *)
(***************************************************************************)
\* What fires now, if anything.
New == {<<Rules[rule], z>> : z \in Fires(Rules[rule], Result(Rules[rule]))}

\* The queue with what fired, whose rule is not among those before it.
LEMMA FiredGrows ==
  ASSUME IInv, CheckRule
  PROVE  /\ New \subseteq Keys
         /\ fired' \in Seq(Keys) /\ \A i, j \in DOMAIN fired' : fired'[i][1] = fired'[j][1] => i = j
         /\ \A i \in DOMAIN fired' : \E k \in 1..rule : fired'[i][1] = Rules[k]
         /\ \A i \in DOMAIN fired : i \in DOMAIN fired' /\ fired'[i] = fired[i]
         /\ \A i \in DOMAIN fired' : i \in DOMAIN fired \/ fired'[i] \in New
         /\ \A a \in New : \E i \in DOMAIN fired' : fired'[i] = a
  <1>1. /\ pc = "rules" /\ rule \in 1..5
        /\ fired' = IF New = {} THEN fired ELSE Append(fired, CHOOSE a \in New : TRUE)
        /\ \A i \in DOMAIN fired : \E k \in 1..(rule - 1) : fired[i][1] = Rules[k]
    BY DEF CheckRule, New, IInv, FiredFits
  <1>2. New \subseteq Keys
    <2>1. Rules[rule] \in {Rules[k] : k \in DOMAIN Rules}
      BY <1>1, RuleNames
    <2>2. Fires(Rules[rule], Result(Rules[rule])) \subseteq Places \cup {Global}
      BY <1>1, ResultFits DEF Fires
    <2> QED BY <2>1, <2>2 DEF New, Keys
  <1>3. \A x, y \in New : x = y
    BY <1>1, ResultFits DEF New, Fires
  <1>4. \A a \in New : a[1] = Rules[rule]
    BY DEF New
  <1>5. /\ fired \in Seq(Keys) /\ Len(fired) \in Nat /\ DOMAIN fired = 1..Len(fired)
        /\ \A i, j \in DOMAIN fired : fired[i][1] = fired[j][1] => i = j
    BY DEF IInv, TypeOK
  <1>6. CASE New = {}
    BY <1>1, <1>2, <1>5, <1>6
  <1>7. CASE New # {}
    <2>1. PICK a \in New : fired' = Append(fired, a)
      BY <1>1, <1>7
    <2>2. /\ fired' \in Seq(Keys) /\ DOMAIN fired' = 1..(Len(fired) + 1) /\ fired'[Len(fired) + 1] = a
          /\ \A i \in DOMAIN fired : i \in DOMAIN fired' /\ fired'[i] = fired[i]
      BY <1>2, <1>5, <2>1
    <2>3. \A i \in DOMAIN fired' : i \in DOMAIN fired \/ i = Len(fired) + 1
      BY <1>5, <2>2
    <2>4. \A i \in DOMAIN fired : fired[i][1] # a[1]
      <3>1. ASSUME NEW i \in DOMAIN fired, fired[i][1] = a[1] PROVE FALSE
        <4>1. PICK k \in 1..(rule - 1) : Rules[k] = Rules[rule]
          BY <1>1, <1>4, <3>1
        <4> QED BY <4>1, <1>1, RuleNames
      <3> QED BY <3>1
    <2>5. \A i, j \in DOMAIN fired' : fired'[i][1] = fired'[j][1] => i = j
      BY <1>5, <2>2, <2>3, <2>4
    <2>6. \A i \in DOMAIN fired' : \E k \in 1..rule : fired'[i][1] = Rules[k]
      <3>1. ASSUME NEW i \in DOMAIN fired PROVE \E k \in 1..rule : fired[i][1] = Rules[k]
        <4>1. PICK k \in 1..(rule - 1) : fired[i][1] = Rules[k]
          BY <1>1
        <4>2. k \in 1..rule
          BY <1>1
        <4> QED BY <4>1, <4>2
      <3>2. rule \in 1..rule /\ a[1] = Rules[rule]
        BY <1>1, <1>4
      <3> QED BY <3>1, <3>2, <2>2, <2>3
    <2>7. Len(fired) + 1 \in DOMAIN fired'
      BY <1>5, <2>2
    <2> QED BY <1>2, <1>3, <2>1, <2>2, <2>3, <2>5, <2>6, <2>7
  <1> QED BY <1>6, <1>7

LEMMA CheckInv == IInv /\ CheckRule => IInv'
  <1> SUFFICES ASSUME IInv, CheckRule PROVE IInv'
    OBVIOUS
  <1> DEFINE name == Rules[rule]
             hit == Result(name)
             above == {z \in Places : current.count[z] \in AboveEightyFive(z)}
  <1>1. /\ UNCHANGED <<current, calm, faults>>
        /\ pc = "rules" /\ rule \in 1..5
        /\ empty' = IF name = "mentor_empty"
                    THEN Walk(empty, Mentoring, {z \in Places : Empty(z)}, hit) ELSE empty
        /\ full' = IF name = "sustained_high_load" THEN Walk(full, Limited, above, hit) ELSE full
        /\ ttl' = StartCooldown(name, hit)
        /\ rows' = rows \ New /\ listed' = listed \ New
    BY DEF CheckRule, New, IInv, FiredFits
  <1>2. (rule = 5 /\ pc' = "persist" /\ rule' = 0) \/ (rule < 5 /\ pc' = "rules" /\ rule' = rule + 1)
    BY <1>1, RuleNames DEF CheckRule
  <1>3. name \in {Rules[k] : k \in DOMAIN Rules} /\ (name = "sustained_high_load" <=> rule = 5)
    BY <1>1, RuleNames
  <1>4. \A k \in Keys : ttl'[k] = IF k[1] = name /\ k[2] \in Fires(name, hit) THEN Cooldown[name] ELSE ttl[k]
    BY <1>1 DEF StartCooldown
  <1>5. full \in [Places -> 0..Never] /\ calm \in [Places -> 0..Sustain] /\ empty \in [Places -> 0..Never]
    BY DEF IInv, TypeOK
  <1>6. Sustain \in Nat /\ Never = Sustain + 1
    BY ConstantsAssumption DEF Never
  <1>7. TypeOK'
    <2>1. full' \in [Places -> 0..Never] /\ empty' \in [Places -> 0..Never]
      BY <1>1, <1>5, WalkFits
    <2>2. ttl' \in [Keys -> Nat] /\ \A k \in Keys : ttl'[k] <= Cooldown[k[1]]
      <3>1. \A r \in {Rules[k] : k \in DOMAIN Rules} : Cooldown[r] \in Nat
        BY ConstantsAssumption
      <3>2. ttl \in [Keys -> Nat] /\ \A k \in Keys : ttl[k] <= Cooldown[k[1]]
        BY DEF IInv, TypeOK
      <3>3. ttl' = [k \in Keys |-> ttl'[k]]
        BY <1>1 DEF StartCooldown
      <3>4. \A k \in Keys : ttl'[k] \in Nat
        BY <1>3, <1>4, <3>1, <3>2
      <3>5. \A k \in Keys : ttl'[k] <= Cooldown[k[1]]
        BY <1>3, <1>4, <3>1, <3>2
      <3> QED BY <3>3, <3>4, <3>5
    <2>3. rule' \in 0..Len(Rules)
      BY <1>1, <1>2, RuleNames
    <2>4. pc' \in {"idle", "save", "rules", "persist", "push"}
      BY <1>2
    <2> QED BY <1>1, <2>1, <2>2, <2>3, <2>4, FiredGrows DEF IInv, TypeOK
  <1>8. FiredFits'
    <2>1. ASSUME rule < 5, rule' = rule + 1
          PROVE  rule' \in 1..5 /\ \A i \in DOMAIN fired' : \E k \in 1..(rule' - 1) : fired'[i][1] = Rules[k]
      <3>1. rule' \in 1..5 /\ rule' - 1 = rule
        BY <1>1, <2>1
      <3> QED BY <3>1, FiredGrows
    <2> QED BY <1>2, <2>1 DEF FiredFits
  <1>9. ToldOrFired'
    <2>1. ASSUME NEW k \in Keys, ttl'[k] > 0, faults = 0
          PROVE  (k \in rows' /\ k \in listed') \/ \E i \in DOMAIN fired' : fired'[i] = k
      <3>1. CASE k \in New
        BY <3>1, FiredGrows
      <3>2. CASE k \notin New
        <4>1. k = <<k[1], k[2]>>
          BY <2>1 DEF Keys
        <4>2. ~(k[1] = name /\ k[2] \in Fires(name, hit))
          BY <3>2, <4>1 DEF New
        <4>3. ttl[k] > 0
          BY <1>4, <2>1, <4>2
        <4>4. (k \in rows /\ k \in listed) \/ \E i \in DOMAIN fired : fired[i] = k
          BY <2>1, <4>3 DEF IInv, ToldOrFired
        <4> QED BY <3>2, <4>4, <1>1, FiredGrows
      <3> QED BY <3>1, <3>2
    <2> QED BY <2>1, <1>1 DEF ToldOrFired
  <1>10. ListedIsStored'
    BY <1>1 DEF IInv, ListedIsStored
  <1>11. UnlimitedIsNeverFull'
    BY <1>1, ConstantsAssumption DEF IInv, UnlimitedIsNeverFull, Walk
  <1>12. FullSinceCalm'
    <2>1. ASSUME 1 \in Places, full'[1] # Never, faults = 0,
                 pc' = "rules" => current.count[1] \in AboveEightyFive(1)
          PROVE  full'[1] <= calm[1]
      <3>1. full[1] # Never /\ current.count[1] \in AboveEightyFive(1) => full[1] <= calm[1]
        BY <2>1, <1>1 DEF IInv, FullSinceCalm, Passed
      <3>2. CASE rule < 5
        BY <2>1, <3>1, <3>2, <1>1, <1>2, <1>3
      <3>3. CASE rule = 5
        <4>1. full'[1] = IF 1 \notin Limited \/ (\E h \in hit : h <= 1) THEN full[1]
                         ELSE IF 1 \notin above THEN Never
                         ELSE IF full[1] = Never THEN 0 ELSE full[1]
          BY <2>1, <3>3, <1>1, <1>3 DEF Walk
        <4>2. 1 \in Limited
          BY <2>1, <4>1, ConstantsAssumption DEF IInv, UnlimitedIsNeverFull
        <4>3. \A h \in hit : h <= 1 => 1 \in above
          <5>1. hit = SustainedHighLoad
            BY <3>3, RuleNames DEF Result
          <5>2. hit \subseteq above /\ hit \subseteq Places
            BY <5>1, OneIsFirst DEF SustainedHighLoad, First
          <5>3. \A h \in Places : h <= 1 => h = 1
            BY DEF Places
          <5> QED BY <5>2, <5>3
        <4>4. 1 \in above => current.count[1] \in AboveEightyFive(1)
          OBVIOUS
        <4>5. full[1] \in 0..Never /\ calm[1] \in 0..Sustain
          BY <2>1, <1>5
        <4> HIDE DEF hit, above
        <4> QED BY <2>1, <3>1, <4>1, <4>2, <4>3, <4>4, <4>5, <1>6
      <3> QED BY <3>2, <3>3, <1>1
    <2>2. (current.count[1] \in AboveEightyFive(1))' <=> current.count[1] \in AboveEightyFive(1)
      BY <1>1 DEF AboveEightyFive
    <2> QED BY <2>1, <2>2, <1>1, <1>2 DEF FullSinceCalm, Passed
  <1>13. FirstZoneSustained'
    <2>1. ASSUME NEW i \in DOMAIN fired', faults = 0, fired'[i] = <<"sustained_high_load", 1>>
          PROVE  calm[1] = Sustain
      <3>1. CASE i \in DOMAIN fired
        <4>1. fired[i] = <<"sustained_high_load", 1>>
          BY <3>1, <2>1, FiredGrows
        <4> QED BY <4>1, <3>1, <2>1 DEF IInv, FirstZoneSustained, SustainedSince
      <3>2. CASE i \notin DOMAIN fired
        <4>1. <<"sustained_high_load", 1>> \in New
          <5>1. fired'[i] \in New
            BY <3>2, FiredGrows
          <5> QED BY <5>1, <2>1
        <4>2. name = "sustained_high_load" /\ 1 \in hit
          BY <4>1 DEF New, Fires
        <4>3. hit = SustainedHighLoad
          BY <4>2 DEF Result
        <4>4. 1 \in Places /\ current.count[1] \in AboveEightyFive(1) /\ full[1] = Sustain
          BY <4>2, <4>3 DEF SustainedHighLoad, First
        <4>5. full[1] <= calm[1]
          BY <4>4, <2>1, <1>1, <1>6 DEF IInv, FullSinceCalm, Passed
        <4>6. calm[1] \in 0..Sustain
          BY <4>4, <1>5
        <4> HIDE DEF hit
        <4> QED BY <4>4, <4>5, <4>6, <1>6
      <3> QED BY <3>1, <3>2
    <2> QED BY <2>1, <1>1 DEF FirstZoneSustained, SustainedSince
  <1> QED BY <1>7, <1>8, <1>9, <1>10, <1>11, <1>12, <1>13 DEF IInv
-----------------------------------------------------------------------------
(***************************************************************************)
(* Theorems                                                                *)
(***************************************************************************)
\* One case per action.
LEMMA StepInv == IInv /\ [Next]_vars => IInv'
  <1> SUFFICES ASSUME IInv, [Next]_vars PROVE IInv'
    OBVIOUS
  <1>1. CASE Tick BY <1>1, TickInv
  <1>2. CASE Work
    BY <1>2, BeginInv, SaveInv, CheckInv, PersistInv, PopInv, EndInv DEF Work
  <1>3. CASE FailPersist \/ AbortCycle BY <1>3, PopInv, AbortInv
  <1>4. CASE UNCHANGED vars BY <1>4, StutterInv
  <1> QED BY <1>1, <1>2, <1>3, <1>4 DEF Next

\* The strengthening of the invariants holds in every reachable state.
THEOREM Inductive == Spec => []IInv
  <1> QED BY InitInv, StepInv, PTL DEF Spec

\* Every reachable state of the heatmap worker is well typed: one alert of a rule at most, and
\* no cooldown longer than its rule's.
THEOREM TypeCorrect == Spec => []TypeOK
  <1>1. IInv => TypeOK
    BY DEF IInv
  <1> QED BY <1>1, Inductive, PTL

\* Without faults, a rule that is silenced has told the operators.
THEOREM SilenceIsEarned == Spec => []CooldownMeansTold
  <1>1. IInv => CooldownMeansTold
    BY DEF IInv, FiredFits, ToldOrFired, CooldownMeansTold
  <1> QED BY <1>1, Inductive, PTL

\* Whatever fails, no alert is listed that is not in the table.
THEOREM NothingUnstored == Spec => []ListedIsStored
  <1>1. IInv => ListedIsStored
    BY DEF IInv
  <1> QED BY <1>1, Inductive, PTL

\* Without faults, the sustained-load message is true of the first zone.
THEOREM FirstMessageIsTrue == Spec => []FirstZoneSustained
  <1>1. IInv => FirstZoneSustained
    BY DEF IInv
  <1> QED BY <1>1, Inductive, PTL
=============================================================================

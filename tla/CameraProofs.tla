---------------------------- MODULE CameraProofs ----------------------------
(***************************************************************************)
(* A camera worker.  What the health endpoint shows of its stream, for     *)
(* every choice of the periods: types, no false calm and no false alarm,   *)
(* by an invariant that relates the ages of the last heartbeat and of the  *)
(* last processed frame.  What it takes from the frames: within one        *)
(* generation of the tracker no body gets the name or the side of another, *)
(* and no crossing is invented, for any number of bodies, track numbers    *)
(* and reconnections.                                                      *)
(***************************************************************************)
EXTENDS CameraStream, CameraTracks, FiniteSetTheorems, TLAPS

-----------------------------------------------------------------------------
(***************************************************************************)
(* The stream                                                              *)
(***************************************************************************)
\* The status is "active" unless the stream is lost, and frames only come when it
\* is not.
StatusFits ==
  /\ ~lost => status = "active"
  /\ pc = "frame" => ~lost

\* A process that need not send a heartbeat has sent one, which the key still holds.
BeatKept == (pc # "off" /\ sinceBeat < HeartbeatSeconds) => (shown = "active" /\ age <= sinceBeat)

\* A heartbeat is never younger than the last frame.
FrameFirst == shown = "active" => sinceFrame <= age

\* After a recent frame the heartbeat is older by one period at most.
RecentFrame ==
  sinceFrame + HeartbeatSeconds <= StaleAfter =>
    shown = "active" /\ age <= sinceFrame + HeartbeatSeconds

StreamInv == StreamTypeOK /\ StatusFits /\ BeatKept /\ FrameFirst /\ RecentFrame /\ OutageIsNotPublished
-----------------------------------------------------------------------------
\* The initial states satisfy the invariant.
LEMMA StreamInitInvariant == StreamInit => StreamInv
  <1> SUFFICES ASSUME StreamInit PROVE StreamInv
    OBVIOUS
  <1>1. up \in BOOLEAN /\ lost \in BOOLEAN /\ stop \in BOOLEAN
    BY Zenon DEF StreamInit
  <1>2. StreamTypeOK
    BY <1>1, TimesAssumption, SMT DEF StreamInit, StreamTypeOK
  <1>3. StatusFits
    BY DEF StreamInit, StatusFits
  <1>4. BeatKept /\ FrameFirst /\ RecentFrame /\ OutageIsNotPublished
    BY TimesAssumption, SMT DEF StreamInit, BeatKept, FrameFirst, RecentFrame, OutageIsNotPublished
  <1> QED BY <1>2, <1>3, <1>4 DEF StreamInv

\* The passing of time keeps the order of the two ages, although both are capped.
LEMMA TickInvariant == ASSUME StreamInv, Tick PROVE StreamInv'
  <1>1. /\ wait \in 0..MaxBackoff /\ sinceBeat \in Nat /\ age \in Nat /\ sinceFrame \in Nat
        /\ wait' \in 0..MaxBackoff
    BY TimesAssumption, SMT DEF StreamInv, StreamTypeOK, Tick
  <1>2. /\ sinceBeat' \in 0..HeartbeatSeconds
        /\ sinceBeat' = sinceBeat + 1 \/ sinceBeat' = HeartbeatSeconds
    BY <1>1, TimesAssumption, SMT DEF Tick, Smaller
  <1>3. /\ age' \in 0..(StaleAfter + 1) /\ age' <= age + 1
        /\ age' = age + 1 \/ age' = StaleAfter + 1
    BY <1>1, TimesAssumption, SMT DEF Tick, Smaller
  <1>4. /\ sinceFrame' \in 0..(StaleAfter + 1) /\ sinceFrame' <= sinceFrame + 1
        /\ sinceFrame' = sinceFrame + 1 \/ sinceFrame' = StaleAfter + 1
    BY <1>1, TimesAssumption, SMT DEF Tick, Smaller
  <1>5. StreamTypeOK'
    BY <1>1, <1>2, <1>3, <1>4, SMT DEF StreamInv, StreamTypeOK, Tick, bounds
  <1>6. StatusFits'
    BY DEF StreamInv, StatusFits, Tick
  <1>7. BeatKept'
    BY <1>1, <1>2, <1>3, TimesAssumption, SMT DEF StreamInv, BeatKept, Tick
  <1>8. FrameFirst'
    BY <1>1, <1>3, <1>4, TimesAssumption, SMT DEF StreamInv, FrameFirst, Tick
  <1>9. RecentFrame'
    BY <1>1, <1>3, <1>4, TimesAssumption, SMT DEF StreamInv, RecentFrame, Tick
  <1>10. OutageIsNotPublished'
    BY DEF StreamInv, OutageIsNotPublished, Tick
  <1> QED BY <1>5, <1>6, <1>7, <1>8, <1>9, <1>10 DEF StreamInv

\* Every step keeps the invariant.
LEMMA StreamStepInvariant == StreamInv /\ [StreamNext]_streamVars => StreamInv'
  <1> SUFFICES ASSUME StreamInv, [StreamNext]_streamVars PROVE StreamInv'
    OBVIOUS
  <1> USE TimesAssumption
      DEF StreamInv, StreamTypeOK, StatusFits, BeatKept, FrameFirst, RecentFrame, OutageIsNotPublished,
          generator, process, published, bounds
  <1>1. CASE Flip
    <2>1. up' \in BOOLEAN /\ lost' \in BOOLEAN /\ stop' \in BOOLEAN
      BY <1>1, Zenon DEF Flip
    <2> QED BY <1>1, <2>1, SMT DEF Flip
  <1>2. CASE Tick
    BY <1>2, TickInvariant DEF StreamInv
  <1>3. CASE Open
    BY <1>3, SMT DEF Open
  <1>4. CASE Read
    <2>1. up' \in BOOLEAN /\ lost' \in BOOLEAN /\ stop' \in BOOLEAN
      BY <1>4, Zenon DEF Read, StatusWithFrame
    <2> QED BY <1>4, <2>1, SMT DEF Read, StatusWithFrame
  <1>5. CASE Fail
    BY <1>5, SMT DEF Fail, NextBackoff, StatusAfterFailure, Smaller
  <1>6. CASE WakeUp
    BY <1>6, SMT DEF WakeUp
  <1>7. CASE Skip
    BY <1>7, SMT DEF Skip
  <1>8. CASE Process
    <2>1. CASE sinceBeat < HeartbeatSeconds
      BY <1>8, <2>1, SMT DEF Process
    <2>2. CASE ~(sinceBeat < HeartbeatSeconds)
      BY <1>8, <2>2, SMT DEF Process
    <2> QED BY <2>1, <2>2
  <1>9. CASE Exit
    <2>1. up' \in BOOLEAN /\ lost' \in BOOLEAN /\ stop' \in BOOLEAN
      BY <1>9, Zenon DEF Exit
    <2> QED BY <1>9, <2>1, SMT DEF Exit
  <1>10. CASE Crash
    BY <1>10, SMT DEF Crash
  <1>11. CASE DockerRestart
    <2>1. up' \in BOOLEAN /\ lost' \in BOOLEAN /\ stop' \in BOOLEAN
      BY <1>11, Zenon DEF DockerRestart, Boot
    <2> QED BY <1>11, <2>1, SMT DEF DockerRestart, Boot
  <1>12. CASE Terminate
    <2>1. up' \in BOOLEAN /\ lost' \in BOOLEAN /\ stop' \in BOOLEAN
      BY <1>12, Zenon DEF Terminate
    <2> QED BY <1>12, <2>1, SMT DEF Terminate
  <1>13. CASE Kill
    <2>1. up' \in BOOLEAN /\ lost' \in BOOLEAN /\ stop' \in BOOLEAN
      BY <1>13, Zenon DEF Kill
    <2> QED BY <1>13, <2>1, SMT DEF Kill
  <1>14. CASE Start
    <2>1. up' \in BOOLEAN /\ lost' \in BOOLEAN /\ stop' \in BOOLEAN
      BY <1>14, Zenon DEF Start, Boot
    <2> QED BY <1>14, <2>1, SMT DEF Start, Boot
  <1>15. CASE UNCHANGED streamVars
    BY <1>15, SMT DEF streamVars
  <1> QED
    BY <1>1, <1>2, <1>3, <1>4, <1>5, <1>6, <1>7, <1>8, <1>9, <1>10, <1>11, <1>12,
       <1>13, <1>14, <1>15 DEF StreamNext, Work
-----------------------------------------------------------------------------
\* The invariant holds in every reachable state.
THEOREM StreamInductive == StreamSpec => []StreamInv
  BY StreamInitInvariant, StreamStepInvariant, PTL DEF StreamSpec

\* Every reachable state is well typed; in particular no pause exceeds the cap.
THEOREM StreamTypeCorrect == StreamSpec => []StreamTypeOK
  <1>1. StreamInv => StreamTypeOK
    BY DEF StreamInv
  <1> QED BY <1>1, StreamInductive, PTL

\* A camera shown as active has had a frame processed in the last StaleAfter seconds.
THEOREM NoFalseCalm == StreamSpec => []ActiveMeansFrames
  <1>1. StreamInv => ActiveMeansFrames
    BY TimesAssumption, SMT DEF StreamInv, StreamTypeOK, FrameFirst, ActiveMeansFrames, Health
  <1> QED BY <1>1, StreamInductive, PTL

\* Whatever a camera publishes of itself is that it is active or that it was shut down.
THEOREM OutageUnpublished == StreamSpec => []OutageIsNotPublished
  <1>1. StreamInv => OutageIsNotPublished
    BY DEF StreamInv
  <1> QED BY <1>1, StreamInductive, PTL

\* A camera whose last frame is recent enough is shown as active.
THEOREM NoFalseAlarm == StreamSpec => []FramesMeanActive
  <1>1. StreamInv => FramesMeanActive
    BY TimesAssumption, SMT DEF StreamInv, StreamTypeOK, RecentFrame, FramesMeanActive, Health
  <1> QED BY <1>1, StreamInductive, PTL
-----------------------------------------------------------------------------
(***************************************************************************)
(* The tracks                                                              *)
(***************************************************************************)
\* What is remembered of a number was learned of somebody, and if this tracker has given the
\* number, not before it did.
RememberedOnly ==
  \A i \in Ids : \A m \in {identity[i], crossing[i]} :
    m # Nothing => m.of \in People /\ m.gen # 0 /\ (m.gen = generation => i < fresh)

\* The line remembers of a number that follows a body the side on which the body was last seen,
\* and remembers nothing while it is not loaded.
SideKept ==
  \A i \in Ids : crossing[i] # Nothing =>
    /\ lines /\ crossing[i].at \in Sides
    /\ track[i] # Nobody /\ crossing[i].gen = generation => crossing[i].at = before[track[i]]

IInv == TypeOK /\ RememberedOnly /\ SideKept /\ MemoryFits /\ CrossingsAreReal
-----------------------------------------------------------------------------
(***************************************************************************)
(* The tracker                                                             *)
(***************************************************************************)
\* The numbers that go on, the bodies without one, and the last number given to them.
Kept(seen) == {i \in Ids : track[i] \in seen \/ (track[i] # Nobody /\ missed[i] < LostBuffer)}
NewBodies(seen) == seen \ {track[i] : i \in Kept(seen)}
LastGiven(seen) == fresh + Cardinality(NewBodies(seen)) - 1

\* As many new numbers as new bodies.
LEMMA LastIsNat ==
  ASSUME TypeOK, NEW seen \in SUBSET People
  PROVE  /\ IsFiniteSet(NewBodies(seen)) /\ Cardinality(NewBodies(seen)) \in Nat
         /\ LastGiven(seen) \in Nat /\ fresh <= LastGiven(seen) + 1
         /\ Cardinality(fresh..LastGiven(seen)) = Cardinality(NewBodies(seen))
  <1>1. NewBodies(seen) \subseteq People
    BY DEF NewBodies
  <1>2. IsFiniteSet(NewBodies(seen))
    BY <1>1, ConstantsAssumption, FS_Subset
  <1>3. Cardinality(NewBodies(seen)) \in Nat
    BY <1>2, FS_CardinalityType
  <1>4. fresh \in Nat /\ fresh >= 1
    BY ConstantsAssumption DEF TypeOK
  <1>5. LastGiven(seen) \in Nat /\ fresh <= LastGiven(seen) + 1
    BY <1>3, <1>4 DEF LastGiven
  <1>6. \A n \in Nat : Cardinality(fresh..n) = IF fresh > n THEN 0 ELSE n - fresh + 1
    BY <1>4, FS_Interval
  <1>7. Cardinality(fresh..LastGiven(seen)) = Cardinality(NewBodies(seen))
    BY <1>3, <1>4, <1>5, <1>6 DEF LastGiven
  <1> QED BY <1>2, <1>3, <1>5, <1>7

\* A number goes on with its body, or is new, or follows nobody.
LEMMA FollowFits ==
  ASSUME TypeOK, NEW seen \in SUBSET People, Follow(seen)
  PROVE  /\ track' \in [Ids -> People \cup {Nobody}] /\ missed' \in [Ids -> 0..LostBuffer]
         /\ fresh' \in 1..(MaxTracks + 1) /\ fresh <= fresh' /\ generation' = generation
         /\ \A i \in Ids : track'[i] # Nobody => i < fresh' /\ (i < fresh => track'[i] = track[i])
         /\ \A i, j \in Ids : track'[i] # Nobody /\ track'[i] = track'[j] => i = j
         /\ \A i \in Ids : track'[i] \in seen => missed'[i] = 0
  <1> DEFINE kept == Kept(seen)
             new == NewBodies(seen)
             last == LastGiven(seen)
  <1>1. PICK body \in [fresh..last -> new] :
          /\ \A p \in new : \E i \in fresh..last : body[i] = p
          /\ track' = [i \in Ids |-> IF i \in fresh..last THEN body[i]
                                     ELSE IF i \in kept THEN track[i] ELSE Nobody]
    BY DEF Follow, Kept, NewBodies, LastGiven
  <1>2. /\ last <= MaxTracks /\ fresh' = last + 1 /\ generation' = generation
        /\ missed' = [i \in Ids |-> IF i \in kept /\ track[i] \notin seen THEN missed[i] + 1 ELSE 0]
    BY DEF Follow, Kept, NewBodies, LastGiven
  <1>3. /\ IsFiniteSet(new) /\ last \in Nat /\ fresh <= last + 1
        /\ Cardinality(fresh..last) = Cardinality(new)
    BY LastIsNat
  <1>4. /\ fresh \in 1..(MaxTracks + 1) /\ MaxTracks \in Nat /\ LostBuffer \in Nat
        /\ track \in [Ids -> People \cup {Nobody}] /\ missed \in [Ids -> 0..LostBuffer]
        /\ \A i, j \in Ids : track[i] # Nobody => i < fresh /\ (track[i] = track[j] => i = j)
        /\ Nobody \notin People
    BY ConstantsAssumption DEF TypeOK
  <1>5. kept \subseteq Ids /\ (\A i \in kept : track[i] # Nobody /\ i < fresh) /\ new \subseteq People
    BY <1>4 DEF Kept, NewBodies
  <1>6. body \in Injection(fresh..last, new)
    <2>1. body \in Surjection(fresh..last, new)
      BY <1>1 DEF Surjection
    <2>2. IsFiniteSet(fresh..last)
      BY <1>3, <1>4, FS_Interval
    <2> HIDE DEF last, new
    <2> QED BY <2>1, <2>2, <1>3, FS_SurjSameCardinalityImpliesInj
  <1>7. \A i, j \in fresh..last : body[i] = body[j] => i = j
    BY <1>6 DEF Injection, IsInjective
  <1>8. \A i \in fresh..last : body[i] \in People /\ \A j \in kept : body[i] # track[j]
    BY <1>1, <1>5 DEF NewBodies
  <1> HIDE DEF kept, new, last
  <1>9. track' \in [Ids -> People \cup {Nobody}] /\ fresh' \in 1..(MaxTracks + 1) /\ fresh <= fresh'
    BY <1>1, <1>2, <1>3, <1>4, <1>8
  <1>10. missed' \in [Ids -> 0..LostBuffer]
    <2> SUFFICES ASSUME NEW i \in Ids, i \in kept, track[i] \notin seen PROVE missed[i] + 1 \in 0..LostBuffer
      BY <1>2, <1>4
    <2>1. missed[i] < LostBuffer
      BY DEF kept, Kept
    <2> QED BY <2>1, <1>4
  <1>11. \A i \in Ids : track'[i] # Nobody => i < fresh' /\ (i < fresh => track'[i] = track[i])
    BY <1>1, <1>2, <1>3, <1>4, <1>5 DEF Ids
  <1>12. ASSUME NEW i \in Ids, NEW j \in Ids, track'[i] # Nobody, track'[i] = track'[j] PROVE i = j
    <2>1. i \in fresh..last \/ i \in kept
      BY <1>1, <1>12
    <2>2. j \in fresh..last \/ j \in kept
      BY <1>1, <1>12
    <2>3. CASE i \in fresh..last /\ j \in fresh..last
      BY <1>1, <1>7, <1>12, <2>3
    <2>4. CASE i \in fresh..last /\ j \notin fresh..last
      BY <1>1, <1>8, <1>12, <2>2, <2>4
    <2>5. CASE i \notin fresh..last /\ j \in fresh..last
      BY <1>1, <1>8, <1>12, <2>1, <2>5
    <2>6. CASE i \notin fresh..last /\ j \notin fresh..last
      BY <1>1, <1>4, <1>5, <1>12, <2>1, <2>2, <2>6
    <2> QED BY <2>3, <2>4, <2>5, <2>6
  <1>13. ASSUME NEW i \in Ids, track'[i] \in seen PROVE missed'[i] = 0
    <2>1. i \in kept => i \notin fresh..last
      BY <1>2, <1>3, <1>4, <1>5
    <2> QED BY <1>1, <1>2, <1>13, <2>1
  <1> QED BY <1>2, <1>9, <1>10, <1>11, <1>12, <1>13
-----------------------------------------------------------------------------
(***************************************************************************)
(* A frame                                                                 *)
(***************************************************************************)
\* What a name or a side learned in this frame looks like.
LEMMA LearnedFits ==
  ASSUME TypeOK, NEW p \in People, NEW at \in {"on", "in", "out"}, NEW face \in {"own", "shared"}
  PROVE  /\ Learned(p, at, face) \in Memory /\ Learned(p, at, face) # Nothing
         /\ Learned(p, at, face).of = p /\ Learned(p, at, face).at = at
         /\ Learned(p, at, face).face = face
         /\ Learned(p, at, face).gen = generation /\ generation # 0
  <1>1. generation \in Nat /\ generation >= 1
    BY ConstantsAssumption DEF TypeOK
  <1> QED BY <1>1 DEF Learned, Memory, Nothing

\* What the frame leaves alone of a memory still fits.
Fits(m, i) ==
  m # Nothing => /\ m.of \in People /\ m.gen # 0
                 /\ (m.gen = generation => i < fresh')
                 /\ (m.gen = generation /\ m.face = "own" /\ track'[i] # Nobody => m.of = track'[i])

LEMMA OldMemoryFits ==
  ASSUME IInv, NEW seen \in SUBSET People, Follow(seen), NEW i \in Ids
  PROVE  Fits(identity[i], i) /\ Fits(crossing[i], i)
  <1>1. /\ fresh <= fresh'
        /\ track'[i] # Nobody => (i < fresh => track'[i] = track[i])
    BY FollowFits DEF IInv
  <1>2. fresh \in Nat /\ fresh' \in Nat /\ i \in Nat
    BY FollowFits, ConstantsAssumption DEF IInv, TypeOK, Ids
  <1>3. \A m \in {identity[i], crossing[i]} :
          m # Nothing => /\ m.of \in People /\ m.gen # 0 /\ (m.gen = generation => i < fresh)
                         /\ (track[i] # Nobody /\ m.gen = generation /\ m.face = "own"
                               => m.of = track[i])
    BY DEF IInv, RememberedOnly, MemoryFits
  <1> QED BY <1>1, <1>2, <1>3 DEF Fits

\* Names learned of a face in its own body only are right after the recognition, and stay so
\* in the other frames.
LEMMA NamesFit ==
  ASSUME IInv, NEW seen \in SUBSET People, Follow(seen), NEW holds \in [Registered -> SUBSET People],
         UpdateIdentities(holds) \/ UNCHANGED identity
  PROVE  /\ identity' \in [Ids -> Memory]
         /\ \A i \in Ids : Fits(identity'[i], i)
  <1>1. CASE UNCHANGED identity
    BY <1>1, OldMemoryFits DEF IInv, TypeOK
  <1>2. CASE UpdateIdentities(holds)
    <2>1. PICK onto \in [Found(holds) -> Present'], name \in [Present' -> Found(holds) \cup {Nobody}] :
            /\ \A p \in Found(holds) : MatchFaceToBody(p, onto[p], holds)
            /\ \A i \in Present' : IF \E p \in Found(holds) : onto[p] = i
                                  THEN name[i] # Nobody /\ onto[name[i]] = i ELSE name[i] = Nobody
            /\ identity' = [i \in Ids |-> IF i \in Present' THEN Renamed(i, name[i], holds) ELSE Nothing]
      BY <1>2 DEF UpdateIdentities
    <2> SUFFICES ASSUME NEW i \in Ids PROVE identity'[i] \in Memory /\ Fits(identity'[i], i)
      BY <2>1
    <2>2. Nothing \in Memory /\ Fits(Nothing, i)
      BY ConstantsAssumption DEF IInv, TypeOK, Nothing, Memory, Fits
    <2>3. identity[i] \in Memory /\ Fits(identity[i], i)
      BY OldMemoryFits DEF IInv, TypeOK
    <2>4. ASSUME i \in Present', name[i] # Nobody
          PROVE  Renamed(i, name[i], holds) \in Memory /\ Fits(Renamed(i, name[i], holds), i)
      <3> DEFINE p == name[i]
                 face == IF holds[p] = {p} THEN "own" ELSE "shared"
      <3>1. p \in Registered /\ p \in People /\ track'[i] \in holds[p]
        <4>1. p \in Found(holds) /\ onto[p] = i
          BY <2>1, <2>4
        <4> QED BY <2>1, <4>1, ConstantsAssumption DEF Found, MatchFaceToBody
      <3>2. track'[i] \in People /\ (face = "own" => track'[i] = p)
        BY <3>1
      <3>3. Renamed(i, p, holds) = Learned(p, "on", face)
        BY <2>4 DEF Renamed
      <3> HIDE DEF p, face
      <3>4. face \in {"own", "shared"}
        BY DEF face
      <3>5. /\ Learned(p, "on", face) \in Memory /\ Learned(p, "on", face).of = p
            /\ Learned(p, "on", face).gen # 0 /\ Learned(p, "on", face).face = face
        BY <3>1, <3>4, LearnedFits DEF IInv
      <3>6. i < fresh'
        BY <3>2, FollowFits, ConstantsAssumption DEF IInv
      <3>7. Fits(Learned(p, "on", face), i)
        BY <3>1, <3>2, <3>5, <3>6 DEF Fits
      <3> QED BY <3>3, <3>5, <3>7 DEF p
    <2>5. ASSUME i \in Present', name[i] = Nobody PROVE identity'[i] = identity[i]
      BY <2>1, <2>5 DEF Renamed
    <2>6. i \notin Present' => identity'[i] = Nothing
      BY <2>1
    <2> QED BY <2>1, <2>2, <2>3, <2>4, <2>5, <2>6
  <1> QED BY <1>1, <1>2

\* A number clearly on one side follows a body, which is there.
LEMMA ClearIsSomebody ==
  ASSUME TypeOK, NEW seen \in SUBSET People, Follow(seen), NEW place, NEW i \in Clear(place)
  PROVE  i \in Ids /\ track'[i] \in People /\ place[track'[i]] \in Sides /\ i < fresh'
  <1>1. i \in Ids /\ track'[i] # Nobody /\ place[track'[i]] \in Sides
    BY DEF Clear, Present
  <1> QED BY <1>1, FollowFits

\* The line's memory after the frame.
LEMMA SidesFit ==
  ASSUME IInv, NEW place \in [People -> Places], NEW seen, seen = {p \in People : place[p] # "away"},
         Follow(seen), CrossLines(place),
         before' = [p \in People |-> IF place[p] \in Sides THEN place[p] ELSE before[p]]
  PROVE  /\ crossing' \in [Ids -> Memory]
         /\ \A i \in Ids : Fits(crossing'[i], i)
         /\ \A i \in Ids : crossing'[i] # Nothing =>
              /\ lines /\ crossing'[i].at \in Sides
              /\ track'[i] # Nobody /\ crossing'[i].gen = generation
                   => crossing'[i].at = before'[track'[i]]
  <1>1. /\ crossing \in [Ids -> Memory] /\ track \in [Ids -> People \cup {Nobody}]
        /\ before \in [People -> {"on", "in", "out"}] /\ Nobody \notin People
        /\ track' \in [Ids -> People \cup {Nobody}]
    BY FollowFits, ConstantsAssumption DEF IInv, TypeOK
  <1> SUFFICES ASSUME NEW i \in Ids
               PROVE  /\ crossing'[i] \in Memory /\ Fits(crossing'[i], i)
                      /\ crossing'[i] # Nothing =>
                           /\ lines /\ crossing'[i].at \in Sides
                           /\ track'[i] # Nobody /\ crossing'[i].gen = generation
                                => crossing'[i].at = before'[track'[i]]
    <2>1. crossing' = [i \in Ids |-> crossing'[i]]
      BY <1>1 DEF CrossLines
    <2> QED BY <2>1
  <1>2. CASE lines /\ i \in Clear(place)
    <2> DEFINE p == track'[i]
    <2>1. p \in People /\ place[p] \in Sides /\ i < fresh'
      BY <1>2, ClearIsSomebody DEF IInv
    <2>2. crossing'[i] = Learned(p, place[p], "own")
      BY <1>2 DEF CrossLines
    <2>3. place[p] \in {"on", "in", "out"}
      BY <2>1 DEF Sides
    <2>4. before'[p] = place[p]
      BY <2>1
    <2> HIDE DEF p
    <2>5. /\ Learned(p, place[p], "own") \in Memory /\ Learned(p, place[p], "own").of = p
          /\ Learned(p, place[p], "own").at = place[p] /\ Learned(p, place[p], "own").gen # 0
      BY <2>1, <2>3, LearnedFits DEF IInv
    <2>6. p = track'[i]
      BY DEF p
    <2> QED BY <1>2, <2>1, <2>2, <2>4, <2>5, <2>6 DEF Fits
  <1>3. CASE ~lines \/ i \notin Clear(place)
    <2>1. crossing'[i] = crossing[i]
      BY <1>1, <1>3 DEF CrossLines
    <2>2. crossing[i] \in Memory /\ Fits(crossing[i], i)
      BY <1>1, OldMemoryFits
    <2>3. ASSUME crossing[i] # Nothing PROVE i \notin Clear(place) /\ lines /\ crossing[i].at \in Sides
      BY <1>3, <2>3 DEF IInv, SideKept
    <2>4. ASSUME crossing[i] # Nothing, track'[i] # Nobody, crossing[i].gen = generation
          PROVE  crossing[i].at = before'[track'[i]]
      <3>1. i < fresh
        BY <2>4 DEF IInv, RememberedOnly
      <3>2. track'[i] = track[i]
        BY <2>4, <3>1, FollowFits DEF IInv
      <3>3. crossing[i].at = before[track[i]] /\ i \notin Clear(place)
        BY <2>3, <2>4, <3>2 DEF IInv, SideKept
      <3>4. track'[i] \in People /\ (place[track'[i]] \in Sides => i \in Clear(place))
        <4>1. track'[i] \in People
          BY <1>1, <2>4
        <4>2. place[track'[i]] \in Sides => track'[i] \in seen
          BY <4>1 DEF Sides
        <4> QED BY <2>4, <4>1, <4>2, FollowFits DEF IInv, Clear, Present
      <3> QED BY <1>1, <2>4, <3>2, <3>3, <3>4
    <2> QED BY <2>1, <2>2, <2>3, <2>4
  <1> QED BY <1>2, <1>3

\* The events of the frame name those who crossed, between the sides they were seen on.
LEMMA EventsFit ==
  ASSUME IInv, NEW place \in [People -> Places], NEW seen \in SUBSET People, Follow(seen),
         CrossLines(place), \A i \in Ids : Fits(identity'[i], i)
  PROVE  \A e \in sent' : /\ e.kind \in Sides /\ {e.pid, e.body} \subseteq People
                          /\ e.sideTrusted => {e.was, e.kind} = Sides
                          /\ e.nameTrusted => e.pid = e.body
  <1> SUFFICES ASSUME NEW i \in Clear(place), lines, Crosses(i, place[track'[i]]), Named(i)
               PROVE  LET e == Event(i, place[track'[i]])
                      IN /\ e.kind \in Sides /\ {e.pid, e.body} \subseteq People
                         /\ e.sideTrusted => {e.was, e.kind} = Sides
                         /\ e.nameTrusted => e.pid = e.body
    BY DEF CrossLines
  <1> DEFINE e == Event(i, place[track'[i]])
  <1>1. i \in Ids /\ track'[i] \in People /\ place[track'[i]] \in Sides
    BY ClearIsSomebody DEF IInv
  <1>2. track'[i] # Nobody
    BY <1>1, ConstantsAssumption
  <1>3. /\ e.kind = place[track'[i]] /\ e.pid = identity'[i].of /\ e.body = track'[i]
        /\ e.was = before[track'[i]]
        /\ e.sideTrusted <=> crossing[i].gen \in {0, generation}
        /\ e.nameTrusted <=> identity'[i].gen = generation /\ identity'[i].face = "own"
    BY DEF Event
  <1>4. /\ identity'[i].of \in People
        /\ identity'[i].gen = generation /\ identity'[i].face = "own" => identity'[i].of = track'[i]
    BY <1>1, <1>2 DEF Fits, Named
  <1>5. ASSUME e.sideTrusted PROVE {e.was, e.kind} = Sides
    <2>1. crossing[i].gen \in {0, generation}
      BY <1>3, <1>5
    <2>2. crossing[i] # Nothing /\ crossing[i].at # place[track'[i]]
      BY DEF Crosses
    <2>3. crossing[i].gen = generation /\ i < fresh
      BY <1>1, <2>1, <2>2 DEF IInv, RememberedOnly
    <2>4. track'[i] = track[i]
      BY <1>1, <1>2, <2>3, FollowFits DEF IInv
    <2>5. crossing[i].at \in Sides /\ crossing[i].at = before[track'[i]]
      BY <1>1, <1>2, <2>2, <2>3, <2>4 DEF IInv, SideKept
    <2> QED BY <1>1, <1>3, <2>2, <2>5 DEF Sides
  <1>6. ASSUME e.nameTrusted PROVE e.pid = e.body
    BY <1>3, <1>4, <1>6
  <1> QED BY <1>1, <1>3, <1>4, <1>5, <1>6

LEMMA FrameInv ==
  ASSUME IInv, NEW place \in [People -> Places], NEW holds \in [Registered -> SUBSET People],
         ProcessFrame(place, holds)
  PROVE  IInv'
  <1> DEFINE seen == {p \in People : place[p] # "away"}
  <1>1. Follow(seen) /\ CrossLines(place) /\ UNCHANGED lines /\ seen \in SUBSET People
    BY DEF ProcessFrame
  <1>2. before' = [p \in People |-> IF place[p] \in Sides THEN place[p] ELSE before[p]]
    BY DEF ProcessFrame
  <1>3. UpdateIdentities(holds) \/ UNCHANGED identity
    BY DEF ProcessFrame
  <1>4. frames' \in 0..(Interval - 1)
    BY ConstantsAssumption DEF ProcessFrame, IInv, TypeOK
  <1>5. /\ before' \in [People -> {"on", "in", "out"}]
        /\ box' \in [People -> {"none", "own", "mixed"}]
    BY <1>2 DEF ProcessFrame, IInv, TypeOK, Sides
  <1> HIDE DEF seen
  <1>6. identity' \in [Ids -> Memory] /\ \A i \in Ids : Fits(identity'[i], i)
    BY <1>1, <1>3, NamesFit
  <1>7. /\ crossing' \in [Ids -> Memory] /\ \A i \in Ids : Fits(crossing'[i], i)
        /\ SideKept'
    <2>1. generation' = generation
      BY <1>1, FollowFits DEF IInv
    <2>2. seen = {p \in People : place[p] # "away"}
      BY DEF seen
    <2> QED BY <1>1, <1>2, <2>1, <2>2, SidesFit DEF SideKept
  <1>8. \A e \in sent' : /\ e.kind \in Sides /\ {e.pid, e.body} \subseteq People
                         /\ e.sideTrusted => {e.was, e.kind} = Sides
                         /\ e.nameTrusted => e.pid = e.body
    BY <1>1, <1>6, EventsFit
  <1>9. /\ track' \in [Ids -> People \cup {Nobody}] /\ missed' \in [Ids -> 0..LostBuffer]
        /\ fresh' \in 1..(MaxTracks + 1) /\ generation' = generation
        /\ \A i \in Ids : track'[i] # Nobody => i < fresh'
        /\ \A i, j \in Ids : track'[i] # Nobody /\ track'[i] = track'[j] => i = j
    BY <1>1, FollowFits DEF IInv
  <1>10. TypeOK'
    BY <1>1, <1>4, <1>5, <1>6, <1>7, <1>8, <1>9 DEF IInv, TypeOK, Memory
  <1>11. RememberedOnly' /\ MemoryFits'
    <2>1. \A i \in Ids : \A m \in {identity'[i], crossing'[i]} : Fits(m, i)
      BY <1>6, <1>7
    <2>2. 0 # generation
      BY ConstantsAssumption DEF IInv, TypeOK
    <2> QED BY <1>9, <2>1, <2>2 DEF RememberedOnly, MemoryFits, Fits, Nothing
  <1>12. CrossingsAreReal'
    BY <1>8 DEF CrossingsAreReal
  <1> QED BY <1>7, <1>10, <1>11, <1>12 DEF IInv
-----------------------------------------------------------------------------
(***************************************************************************)
(* Reloads, reconnections and restarts                                     *)
(***************************************************************************)
LEMMA NothingIsMemory ==
  ASSUME TypeOK
  PROVE  Nothing \in [of : People \cup {Nobody}, at : {"on", "in", "out"}, gen : 0..generation,
                     face : {"own", "shared"}]
         /\ 1 \in 1..(MaxTracks + 1) /\ 0 \in 0..LostBuffer /\ 0 \in 0..(Interval - 1)
         /\ 0 # generation
  BY ConstantsAssumption DEF TypeOK, Nothing

LEMMA ReloadInv ==
  ASSUME IInv, NEW answers \in BOOLEAN, NEW listed \in BOOLEAN, ReloadLines(answers, listed)
  PROVE  IInv'
  <1>1. /\ UNCHANGED <<frames, tracker, identity, sent, before, box>> /\ lines' \in BOOLEAN
        /\ crossing' = [i \in Ids |-> Nothing]
    BY DEF ReloadLines, Attached
  <1>2. TypeOK'
    BY <1>1, NothingIsMemory DEF IInv, TypeOK, tracker, Memory
  <1>3. RememberedOnly' /\ SideKept'
    BY <1>1 DEF IInv, RememberedOnly, SideKept, tracker
  <1>4. MemoryFits' /\ CrossingsAreReal'
    BY <1>1, NothingIsMemory DEF IInv, MemoryFits, CrossingsAreReal, tracker, Nothing
  <1> QED BY <1>2, <1>3, <1>4 DEF IInv

LEMMA ReconnectInv ==
  ASSUME IInv, Reconnect
  PROVE  IInv'
  <1>1. /\ generation <= MaxResets /\ generation' = generation + 1
        /\ track' = [i \in Ids |-> Nobody] /\ missed' = [i \in Ids |-> 0] /\ fresh' = 1
        /\ UNCHANGED <<frames, identity, crossing, lines, sent, before, box>>
    BY DEF Reconnect, NewTracker
  <1>2. generation \in Nat /\ generation' \in 1..(MaxResets + 1) /\ MaxResets \in Nat
    BY <1>1, ConstantsAssumption DEF IInv, TypeOK
  <1>3. Memory \subseteq Memory'
    BY <1>1, <1>2 DEF Memory
  <1>4. TypeOK'
    BY <1>1, <1>2, <1>3, NothingIsMemory DEF IInv, TypeOK
  <1>5. \A i \in Ids : \A m \in {identity[i], crossing[i]} : m.gen # generation'
    <2> SUFFICES ASSUME NEW i \in Ids, NEW m \in {identity[i], crossing[i]} PROVE m.gen # generation'
      OBVIOUS
    <2>1. m.gen \in 0..generation
      BY DEF IInv, TypeOK, Memory
    <2> QED BY <1>1, <1>2, <2>1
  <1>6. RememberedOnly' /\ SideKept'
    BY <1>1, <1>5 DEF IInv, RememberedOnly, SideKept
  <1>7. MemoryFits' /\ CrossingsAreReal'
    BY <1>1 DEF IInv, MemoryFits, CrossingsAreReal
  <1> QED BY <1>4, <1>6, <1>7 DEF IInv

\* A state in which nothing is remembered and nothing was sent.
LEMMA EmptyInv ==
  ASSUME track = [i \in Ids |-> Nobody], missed = [i \in Ids |-> 0], fresh = 1, generation = 1,
         frames = 0, identity = [i \in Ids |-> Nothing], crossing = [i \in Ids |-> Nothing],
         lines \in BOOLEAN, sent = {}, before = [p \in People |-> "on"],
         box = [p \in People |-> "none"]
  PROVE  IInv
  <1>1. Nothing \in Memory
    BY DEF Nothing, Memory
  <1>2. TypeOK
    BY <1>1, ConstantsAssumption DEF TypeOK
  <1> QED BY <1>2 DEF IInv, RememberedOnly, SideKept, MemoryFits, CrossingsAreReal

LEMMA RestartInv ==
  ASSUME NEW answers \in BOOLEAN, NEW listed \in BOOLEAN, Restart(answers, listed)
  PROVE  IInv'
  <1>1. Nothing \in Memory'
    BY DEF Nothing, Memory, Restart
  <1>2. TypeOK'
    BY <1>1, ConstantsAssumption DEF TypeOK, Restart, NewTracker, Attached
  <1> QED BY <1>2 DEF IInv, RememberedOnly, SideKept, MemoryFits, CrossingsAreReal, Restart, NewTracker
-----------------------------------------------------------------------------
(***************************************************************************)
(* Theorems                                                                *)
(***************************************************************************)
LEMMA StepInv == IInv /\ [Next]_vars => IInv'
  <1> SUFFICES ASSUME IInv, [Next]_vars PROVE IInv'
    OBVIOUS
  <1>1. CASE Frame
    <2>1. PICK place \in [People -> Places] :
            \E holds \in [Registered -> IF frames + 1 = Interval
                                       THEN SUBSET {p \in People : place[p] # "away"} ELSE {{}}] :
              ProcessFrame(place, holds)
      BY <1>1 DEF Frame
    <2>2. PICK holds \in [Registered -> IF frames + 1 = Interval
                                       THEN SUBSET {p \in People : place[p] # "away"} ELSE {{}}] :
            ProcessFrame(place, holds)
      BY <2>1
    <2>3. holds \in [Registered -> SUBSET People]
      OBVIOUS
    <2> QED BY <2>2, <2>3, FrameInv
  <1>2. CASE \E answers, listed \in BOOLEAN : ReloadLines(answers, listed) \/ Restart(answers, listed)
    BY <1>2, ReloadInv, RestartInv
  <1>3. CASE Reconnect
    BY <1>3, ReconnectInv
  <1>4. CASE UNCHANGED vars
    BY <1>4 DEF vars, tracker, IInv, TypeOK, Memory, RememberedOnly, SideKept, MemoryFits, CrossingsAreReal
  <1> QED BY <1>1, <1>2, <1>3, <1>4 DEF Next

\* The inductive invariant holds in every reachable state.
THEOREM Inductive == Spec => []IInv
  <1>1. Init => IInv
    BY EmptyInv DEF Init
  <1> QED BY <1>1, StepInv, PTL DEF Spec

\* Every reachable state of the camera's memory is well typed: no body ever has two numbers,
\* and no number is given twice by one tracker.
THEOREM TypeCorrect == Spec => []TypeOK
  <1>1. IInv => TypeOK
    BY DEF IInv
  <1> QED BY <1>1, Inductive, PTL

\* As long as the stream is not reconnected, sides stay with the body they were learned of, and
\* so do names, if they were learned of a face that lay in the box of its own body only.
THEOREM MemoryIsKept == Spec => []MemoryFits
  <1>1. IInv => MemoryFits
    BY DEF IInv
  <1> QED BY <1>1, Inductive, PTL

\* No sponsor event is invented, however lines are reloaded and bodies come and go; and one
\* whose name was learned where no bodies overlapped names the body that crossed.
THEOREM NothingInvented == Spec => []CrossingsAreReal
  <1>1. IInv => CrossingsAreReal
    BY DEF IInv
  <1> QED BY <1>1, Inductive, PTL
=============================================================================

---------------------------- MODULE CameraTracks ----------------------------
(***************************************************************************)
(* Whose face, whose side of the line?  In every frame the tracker gives   *)
(* the bodies numbers; every few frames the identity linker puts a         *)
(* participant's name on a number; an entrance line compares the side of   *)
(* a number with the side it was last seen on, and the crossing of a       *)
(* number with a name becomes a sponsor event                              *)
(* (CameraWorker._process_frame).  A listener thread replaces the lines    *)
(* whenever zones_updated arrives.  A reconnection of the stream resets    *)
(* the tracker, which numbers from 1 again, and nothing else.              *)
(*                                                                         *)
(* A frame is one action: the listener touches nothing that the frame uses *)
(* before the lines, so a reload in mid-frame is a reload before the frame.*)
(* Zones and activity events are in module VenueZones.                     *)
(*                                                                         *)
(* A face goes to a body whose box holds its centre.  Where bodies overlap *)
(* the larger intersection with an upper half decides, which may be that of*)
(* the wrong one: here any box that holds the face may get it.             *)
(*                                                                         *)
(* What is remembered of a number carries whom it was learned of, whether  *)
(* the face lay in its own body only, and the generation of the tracker    *)
(* that gave the number; the code has but the first.                       *)
(***************************************************************************)
EXTENDS Naturals, FiniteSets

CONSTANTS
  People,        \* the bodies in front of the camera
  Registered,    \* those the face index knows
  Interval,      \* FACE_RECOGNITION_INTERVAL_FRAMES
  Reach,         \* bound: the places each body goes to
  LostBuffer,    \* frames for which the tracker looks for a body it lost
  MaxTracks,     \* bound: numbers one tracker gives
  MaxResets      \* bound: reconnections of one process

Nobody == "nobody"

\* On the line, left or right of it, or out of sight.
Places == {"in", "out", "on", "away"}
Sides == {"in", "out"}

ASSUME ConstantsAssumption ==
  /\ IsFiniteSet(People) /\ Nobody \notin People /\ Registered \subseteq People
  /\ Interval \in Nat \ {0} /\ LostBuffer \in Nat
  /\ Reach \in [People -> SUBSET Places] /\ MaxTracks \in Nat /\ MaxResets \in Nat

VARIABLES
  frames,      \* frames since the last recognition
  \* the tracker
  track,       \* the body each number follows
  missed,      \* for how many frames it was not seen
  fresh,       \* the next number
  generation,  \* history: the tracker's, counted by reconnections
  \* what is remembered of a number
  identity,    \* IdentityLinker._cache
  crossing,    \* crossing history of the LineZone: the side seen last
  lines,       \* the entrance line is loaded, with its sponsor
  sent,        \* the sponsor events of the last frame
  before,      \* history: the side on which this process last saw each body
  box          \* history: the faces in each body's box, in the last frame: "none", its "own",
               \* or "mixed" with somebody else's

tracker == <<track, missed, fresh, generation>>
vars == <<frames, tracker, identity, crossing, lines, sent, before, box>>

Ids == 1..MaxTracks
Nothing == [of |-> Nobody, at |-> "on", gen |-> 0, face |-> "own"]
Learned(p, at, face) == [of |-> p, at |-> at, gen |-> generation, face |-> face]
-----------------------------------------------------------------------------
Init ==
  /\ frames = 0
  /\ track = [i \in Ids |-> Nobody] /\ missed = [i \in Ids |-> 0]
  /\ fresh = 1 /\ generation = 1
  /\ identity = [i \in Ids |-> Nothing] /\ crossing = [i \in Ids |-> Nothing]
  /\ lines \in BOOLEAN
  /\ sent = {} /\ before = [p \in People |-> "on"] /\ box = [p \in People |-> "none"]

\* The numbers in the detections of a frame.
Present == {i \in Ids : track[i] # Nobody /\ missed[i] = 0}

\* PersonTracker.update: a body seen again within the buffer keeps its number, a new one
\* gets the next.
Follow(seen) ==
  LET kept == {i \in Ids : track[i] \in seen \/ (track[i] # Nobody /\ missed[i] < LostBuffer)}
      new == seen \ {track[i] : i \in kept}
      last == fresh + Cardinality(new) - 1
  IN /\ last <= MaxTracks
     /\ \E body \in [fresh..last -> new] :
          /\ \A p \in new : \E i \in fresh..last : body[i] = p
          /\ track' = [i \in Ids |-> IF i \in fresh..last THEN body[i]
                                     ELSE IF i \in kept THEN track[i] ELSE Nobody]
     /\ missed' = [i \in Ids |-> IF i \in kept /\ track[i] \notin seen THEN missed[i] + 1 ELSE 0]
     /\ fresh' = last + 1
     /\ UNCHANGED generation

\* The faces that are found and recognised: the centre of each lies in some body's box.
Found(holds) == {p \in Registered : holds[p] # {}}

\* Slip: a face goes to the lowest number.
SlipLowest(p, i, holds) == \A j \in Present' : i <= j

\* _match_face_to_body: a body whose box holds the centre of the face.
MatchFaceToBody(p, i, holds) == track'[i] \in holds[p]

\* Slip: a name is given once.
SlipNamedOnce(i, p, holds) ==
  IF p = Nobody \/ identity[i] # Nothing THEN identity[i] ELSE Learned(p, "on", "own")

\* A face that was matched replaces the name of its number.
Renamed(i, p, holds) ==
  IF p = Nobody THEN identity[i]
  ELSE Learned(p, "on", IF holds[p] = {p} THEN "own" ELSE "shared")

\* update_identities: forget the numbers that are not in this frame, then name those to which
\* faces were matched, one face after the other: the last one counts.
UpdateIdentities(holds) ==
  \E onto \in [Found(holds) -> Present'], name \in [Present' -> Found(holds) \cup {Nobody}] :
    /\ \A p \in Found(holds) : MatchFaceToBody(p, onto[p], holds)
    /\ \A i \in Present' : IF \E p \in Found(holds) : onto[p] = i
                          THEN name[i] # Nobody /\ onto[name[i]] = i ELSE name[i] = Nobody
    /\ identity' = [i \in Ids |-> IF i \in Present' THEN Renamed(i, name[i], holds) ELSE Nothing]

\* get_participant: there is a name for the number.
Named(i) == identity'[i] # Nothing

\* The numbers that are clearly on one side of the line.
Clear(place) == {i \in Present' : place[track'[i]] \in Sides}

\* Slip: the first side a number is seen on counts as a crossing.
SlipFirstSide(i, at) == crossing[i].at # at

\* LineZone.trigger: the number was last seen on the other side.
Crosses(i, at) == crossing[i] # Nothing /\ crossing[i].at # at

\* A crossing of a number with a name; its side, and its name, is trusted if it is not from
\* before a reconnection, and the name not from a face that lay in more than its own body.
Event(i, at) ==
  [kind |-> at, pid |-> identity'[i].of, body |-> track'[i], was |-> before[track'[i]],
   sideTrusted |-> crossing[i].gen \in {0, generation},
   nameTrusted |-> identity'[i].gen = generation /\ identity'[i].face = "own"]

\* _process_sponsor_lines
CrossLines(place) ==
  LET at(i) == place[track'[i]]
      crossed == {i \in Clear(place) : Crosses(i, at(i))}
  IN IF lines
     THEN /\ sent' = {Event(i, at(i)) : i \in {j \in crossed : Named(j)}}
          /\ crossing' = [i \in Ids |-> IF i \in Clear(place) THEN Learned(track'[i], at(i), "own")
                                                               ELSE crossing[i]]
     ELSE sent' = {} /\ UNCHANGED crossing

\* _process_frame: bodies are where they are, and when it is the frame's turn to be searched
\* faces are found in the boxes of some of them.
ProcessFrame(place, holds) ==
  /\ Follow({p \in People : place[p] # "away"})
  /\ IF frames + 1 = Interval
     THEN frames' = 0 /\ UpdateIdentities(holds)
     ELSE frames' = frames + 1 /\ UNCHANGED identity
  /\ CrossLines(place)
  /\ before' = [p \in People |-> IF place[p] \in Sides THEN place[p] ELSE before[p]]
  /\ box' = [p \in People |-> IF \E q \in Registered \ {p} : p \in holds[q] THEN "mixed"
                             ELSE IF p \in Registered /\ holds[p] = {p} THEN "own" ELSE "none"]
  /\ UNCHANGED lines

\* attach_sponsor_ids: the table of sponsors has the name the file gives the line.  A line
\* without an id is left out, and so are all lines when PostgreSQL does not answer.
Attached(answers, listed) == answers /\ listed

\* _reload_zones: new LineZones, which have seen nothing.
ReloadLines(answers, listed) ==
  /\ lines' = Attached(answers, listed)
  /\ crossing' = [i \in Ids |-> Nothing]
  /\ UNCHANGED <<frames, tracker, identity, sent, before, box>>

\* Slip: the numbers start again, and the tracks stay.
SlipKeepTracks == UNCHANGED <<track, missed>> /\ fresh' = 1

\* PersonTracker.reset
NewTracker ==
  /\ track' = [i \in Ids |-> Nobody] /\ missed' = [i \in Ids |-> 0] /\ fresh' = 1

\* on_reconnected: PersonTracker.reset, and nothing of what was remembered.
Reconnect ==
  /\ generation <= MaxResets
  /\ generation' = generation + 1
  /\ NewTracker
  /\ UNCHANGED <<frames, identity, crossing, lines, sent, before, box>>

\* The process dies and starts again with nothing in memory.
Restart(answers, listed) ==
  /\ frames' = 0 /\ generation' = 1 /\ NewTracker
  /\ identity' = [i \in Ids |-> Nothing] /\ crossing' = [i \in Ids |-> Nothing]
  /\ lines' = Attached(answers, listed)
  /\ sent' = {} /\ before' = [p \in People |-> "on"] /\ box' = [p \in People |-> "none"]

Frame ==
  \E place \in {f \in [People -> Places] : \A p \in People : f[p] \in Reach[p]} :
    \E holds \in [Registered -> IF frames + 1 = Interval
                               THEN SUBSET {p \in People : place[p] # "away"} ELSE {{}}] :
      ProcessFrame(place, holds)

Next ==
  \/ Frame
  \/ \E answers, listed \in BOOLEAN : ReloadLines(answers, listed) \/ Restart(answers, listed)
  \/ Reconnect

Spec == Init /\ [][Next]_vars
-----------------------------------------------------------------------------
(***************************************************************************)
(* Properties                                                              *)
(***************************************************************************)
Memory == [of : People \cup {Nobody}, at : {"on", "in", "out"}, gen : 0..generation,
           face : {"own", "shared"}]

\* Every variable keeps its type; a body has at most one number, below the next one.
TypeOK ==
  /\ frames \in 0..(Interval - 1)
  /\ track \in [Ids -> People \cup {Nobody}] /\ missed \in [Ids -> 0..LostBuffer]
  /\ fresh \in 1..(MaxTracks + 1) /\ generation \in 1..(MaxResets + 1)
  /\ \A i, j \in Ids : track[i] # Nobody => i < fresh /\ (track[i] = track[j] => i = j)
  /\ identity \in [Ids -> Memory] /\ crossing \in [Ids -> Memory]
  /\ lines \in BOOLEAN
  /\ \A e \in sent : e.kind \in Sides /\ {e.pid, e.body} \subseteq People
  /\ before \in [People -> {"on", "in", "out"}] /\ box \in [People -> {"none", "own", "mixed"}]

\* A side remembered of a number is that of the body it follows, and so is a name, if its face
\* lay in the box of its own body only: bodies that come and go, faces that are missed and
\* lines that are reloaded never give it to another body; a reconnection does, after which the
\* numbers start again and their memories stay.  (A face that lies in somebody else's box too
\* may give its name to that body.)
MemoryFits ==
  \A i \in Ids : track[i] # Nobody =>
    \A m \in {identity[i], crossing[i]} :
      m.gen = generation /\ m.face = "own" => m.of = track[i]

\* The body of a sponsor event had last been seen on the other side, although it may have
\* been out of sight in between, have had another name, and the line may have been reloaded;
\* and the event names this body, if the name was learned where no bodies overlapped.  (Unless
\* the side, or the name, is from before a reconnection.)
CrossingsAreReal ==
  \A e \in sent : /\ e.sideTrusted => {e.was, e.kind} = Sides
                  /\ e.nameTrusted => e.pid = e.body

\* Somebody who stays in sight, whose face is recognised in their own box again and again, and
\* in whose box no other face is found from some time on, ends up under the right name,
\* whatever name the number had from an overlapping body or from before a reconnection.
NameHeals ==
  \A p \in Registered :
    (/\ <>[](box[p] # "mixed" /\ \E i \in Present : track[i] = p)
     /\ []<>(box[p] = "own"))
    => <>[](\A i \in Present : track[i] = p => identity[i].of = p)
=============================================================================

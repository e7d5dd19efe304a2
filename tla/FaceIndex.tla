----------------------------- MODULE FaceIndex -----------------------------
(***************************************************************************)
(* The face index: the API process adds a vector for every registration    *)
(* and removes one on opt-out (core/face_matcher.py, api/registration.py,  *)
(* api/participants.py); PostgreSQL remembers the vector's position as     *)
(* embedding_id; two files carry the index and the position -> participant *)
(* map to the camera workers, which reload them when a file's mtime moves. *)
(*                                                                         *)
(* The handlers run on one event loop: a handler is interrupted only at an *)
(* await, and save() not at all.  save() truncates each file and writes it *)
(* in place: until the write is finished the file is torn, and so it stays *)
(* if the API dies or the write raises.  Cameras are other processes and   *)
(* may read the files at any time; load() raises on a torn file, which     *)
(* ends a camera worker and keeps the API from starting.                   *)
(* Positions count from 1 here.                                            *)
(***************************************************************************)
EXTENDS Naturals, Sequences, SequencesExt

CONSTANTS
  Registrations,  \* attempts to register; each draws a participant uuid of its own
  Faces,          \* people's faces
  FaceOf,         \* the face in the photo of each attempt
  Requests,       \* opt-out requests that may be in progress together
  Cameras,        \* camera workers
  Failing,        \* the kinds of fault that happen
  Budget          \* bound: how many faults a behaviour has

\* A crash counts as "torn" when it falls into the writing of a file.
FaultKinds == {"flush", "save", "commit", "crash", "torn"}
NoPosition == 0
Nobody == "nobody"

ASSUME ConstantsAssumption ==
  /\ FaceOf \in [Registrations -> Faces]
  /\ Nobody \notin Registrations \cup Requests
  /\ Registrations \cap Requests = {}
  /\ Failing \subseteq FaultKinds /\ Budget \in Nat

VARIABLES
  \* the API's FaceMatcher
  vectors,      \* the index: for each position, the attempt that added the vector
  owner,        \* _embedding_map: position -> participant
  api,          \* "up", or "down" when it cannot load the files
  \* the files; a time counts the writes, as st_mtime does
  diskVectors, diskOwner, indexTime, mapTime,
  torn,         \* the files that are truncated or half written
  \* PostgreSQL, committed
  participant,  \* "absent", "active" or "opted"
  embedding,    \* embedding_id, NoPosition for NULL
  \* requests in progress
  reg,          \* where each registration stands
  position,     \* the position add() returned to it
  optout,       \* where each opt-out stands, its participant and the id it read
  saving,       \* the request inside save()
  stage,        \* how far save() is: writing "index", "between", writing "map"
  \* each camera worker
  camVectors, camOwner, camTimes,
  camNew,       \* the times read before a reload in progress, <<>> if none
  faults        \* history

matcher == <<vectors, owner>>
disk == <<diskVectors, diskOwner, indexTime, mapTime, torn>>
postgres == <<participant, embedding>>
requests == <<reg, position, optout>>
save == <<saving, stage>>
camera == <<camVectors, camOwner, camTimes, camNew>>
vars == <<matcher, api, disk, postgres, requests, save, camera, faults>>

NoOptOut == [pc |-> "idle", who |-> Nobody, pos |-> NoPosition]
NoMap == [i \in {} |-> Nobody]
-----------------------------------------------------------------------------
Init ==
  /\ vectors = <<>> /\ owner = NoMap
  /\ diskVectors = <<>> /\ diskOwner = NoMap /\ indexTime = 0 /\ mapTime = 0
  /\ torn = {} /\ api = "up"
  /\ participant = [r \in Registrations |-> "absent"]
  /\ embedding = [r \in Registrations |-> NoPosition]
  /\ reg = [r \in Registrations |-> "idle"]
  /\ position = [r \in Registrations |-> NoPosition]
  /\ optout = [q \in Requests |-> NoOptOut]
  /\ saving = Nobody /\ stage = "none"
  /\ camVectors = [c \in Cameras |-> <<>>] /\ camOwner = [c \in Cameras |-> NoMap]
  /\ camTimes = [c \in Cameras |-> <<0, 0>>] /\ camNew = [c \in Cameras |-> <<>>]
  /\ faults = [k \in FaultKinds |-> 0]

Fault(k) ==
  /\ k \in Failing
  /\ faults["flush"] + faults["save"] + faults["commit"] + faults["crash"] + faults["torn"] < Budget
  /\ faults' = [faults EXCEPT ![k] = @ + 1]

LoopFree == api = "up" /\ saving = Nobody
-----------------------------------------------------------------------------
(***************************************************************************)
(* FaceMatcher                                                             *)
(***************************************************************************)
\* Slip: the map keeps its old positions.
SlipMapNotShifted(pos) ==
  IF vectors = <<>> \/ pos \notin DOMAIN vectors THEN UNCHANGED matcher
  ELSE /\ vectors' = RemoveAt(vectors, pos)
       /\ owner' = [i \in DOMAIN owner \ {pos} |-> owner[i]]

\* remove_by_index: positions behind the removed one move down, in the index and in
\* the map; entries of the map without a vector disappear.
RemoveByIndex(pos) ==
  IF vectors = <<>> THEN UNCHANGED matcher
  ELSE LET old(i) == IF pos <= i /\ pos \in DOMAIN vectors THEN i + 1 ELSE i IN
       /\ vectors' = IF pos \in DOMAIN vectors THEN RemoveAt(vectors, pos) ELSE vectors
       /\ owner' = [i \in {j \in DOMAIN vectors' : old(j) \in DOMAIN owner} |-> owner[old(i)]]

RollbackLastAdd == RemoveByIndex(Len(vectors))

\* add and set_participant_id
Add(r) ==
  /\ vectors' = Append(vectors, r)
  /\ owner' = [i \in DOMAIN owner \cup {Len(vectors')} |->
                IF i = Len(vectors') THEN r ELSE owner[i]]

\* save() begins: write_index truncates the first file.
BeginSave(x) ==
  /\ saving' = x /\ stage' = "index"
  /\ torn' = torn \cup {"index"} /\ indexTime' = indexTime + 1
  /\ UNCHANGED <<api, diskVectors, diskOwner, mapTime>>

\* write_index returns.
WriteIndex(x) ==
  /\ saving = x /\ stage = "index"
  /\ diskVectors' = vectors /\ torn' = torn \ {"index"} /\ indexTime' = indexTime + 1
  /\ stage' = "between"
  /\ UNCHANGED <<matcher, api, diskOwner, mapTime, postgres, requests, saving, camera, faults>>

\* open(map_path, "w") truncates the second file.
OpenMap(x) ==
  /\ saving = x /\ stage = "between"
  /\ torn' = torn \cup {"map"} /\ mapTime' = mapTime + 1
  /\ stage' = "map"
  /\ UNCHANGED <<matcher, api, diskVectors, diskOwner, indexTime, postgres, requests, saving,
                 camera, faults>>

\* The map is dumped and the file closed: the handler continues to its commit.
WriteMap(x) ==
  /\ saving = x /\ stage = "map"
  /\ diskOwner' = owner /\ torn' = torn \ {"map"} /\ mapTime' = mapTime + 1
  /\ saving' = Nobody /\ stage' = "none"
  /\ reg' = [r \in Registrations |-> IF r = x THEN "commit" ELSE reg[r]]
  /\ optout' = [q \in Requests |-> IF q = x THEN [optout[q] EXCEPT !.pc = "commit"] ELSE optout[q]]
  /\ UNCHANGED <<matcher, api, diskVectors, indexTime, postgres, position, camera, faults>>

\* The rest of save() raises, leaving the file it was writing torn.
AbandonSave(x) ==
  /\ saving = x /\ Fault("save")
  /\ saving' = Nobody /\ stage' = "none"
-----------------------------------------------------------------------------
(***************************************************************************)
(* POST /register                                                          *)
(***************************************************************************)
Known(r) == \E i \in DOMAIN vectors : FaceOf[vectors[i]] = FaceOf[r]

RejectDuplicate(r) ==
  /\ LoopFree /\ reg[r] = "idle"
  /\ Known(r)
  /\ reg' = [reg EXCEPT ![r] = "rejected"]
  /\ UNCHANGED <<matcher, api, disk, postgres, position, optout, save, camera, faults>>

\* Slip: another request may run between the duplicate check and add().
SlipAddUnchecked(r) ==
  /\ LoopFree /\ reg[r] = "idle"
  /\ Add(r)
  /\ position' = [position EXCEPT ![r] = Len(vectors')]
  /\ reg' = [reg EXCEPT ![r] = "flush"]
  /\ UNCHANGED <<api, disk, postgres, optout, save, camera, faults>>

\* Check for a duplicate, add the vector and map it, without an await; then wait for
\* db.flush().
Register(r) ==
  /\ LoopFree /\ reg[r] = "idle"
  /\ ~Known(r)
  /\ Add(r)
  /\ position' = [position EXCEPT ![r] = Len(vectors')]
  /\ reg' = [reg EXCEPT ![r] = "flush"]
  /\ UNCHANGED <<api, disk, postgres, optout, save, camera, faults>>

\* Slip: save only after the commit.
SlipSaveLater(r) ==
  /\ LoopFree /\ reg[r] = "flush"
  /\ reg' = [reg EXCEPT ![r] = "commit"]
  /\ UNCHANGED <<matcher, api, disk, postgres, position, optout, save, camera, faults>>

\* db.flush() returned: begin save().
Flushed(r) ==
  /\ LoopFree /\ reg[r] = "flush"
  /\ UNCHANGED matcher /\ BeginSave(r)
  /\ UNCHANGED <<postgres, requests, camera, faults>>

\* db.flush(), or opening the first file, raised: the last vector goes, 500.
FailFlush(r) ==
  /\ LoopFree /\ reg[r] = "flush"
  /\ Fault("flush")
  /\ RollbackLastAdd
  /\ reg' = [reg EXCEPT ![r] = "failed"]
  /\ UNCHANGED <<api, disk, postgres, position, optout, save, camera>>

\* Raised inside save().
FailSave(r) ==
  /\ AbandonSave(r)
  /\ RollbackLastAdd
  /\ reg' = [reg EXCEPT ![r] = "failed"]
  /\ UNCHANGED <<api, disk, postgres, position, optout, camera>>

\* get_db commits after the handler.
CommitRegistration(r) ==
  /\ LoopFree /\ reg[r] = "commit"
  /\ participant' = [participant EXCEPT ![r] = "active"]
  /\ embedding' = [embedding EXCEPT ![r] = position[r]]
  /\ reg' = [reg EXCEPT ![r] = "done"]
  /\ UNCHANGED <<matcher, api, disk, position, optout, save, camera, faults>>

\* Slip: the vector is taken back.
SlipTakeBack(r) ==
  /\ LoopFree /\ reg[r] = "commit"
  /\ Fault("commit")
  /\ RollbackLastAdd
  /\ reg' = [reg EXCEPT ![r] = "failed"]
  /\ UNCHANGED <<api, disk, postgres, position, optout, save, camera>>

\* The commit fails: nobody takes the vector back.
FailCommit(r) ==
  /\ LoopFree /\ reg[r] = "commit"
  /\ Fault("commit")
  /\ reg' = [reg EXCEPT ![r] = "failed"]
  /\ UNCHANGED <<matcher, api, disk, postgres, position, optout, save, camera>>
-----------------------------------------------------------------------------
(***************************************************************************)
(* DELETE /participants/{id}                                               *)
(***************************************************************************)
\* Read the participant; other handlers run before the answer arrives.
SelectOptOut(q, r) ==
  /\ LoopFree /\ optout[q].pc = "idle"
  /\ participant[r] # "absent"
  /\ optout' = [optout EXCEPT ![q] = [pc |-> "selected", who |-> r, pos |-> embedding[r]]]
  /\ UNCHANGED <<matcher, api, disk, postgres, reg, position, save, camera, faults>>

RemoveVector(q) ==
  /\ LoopFree /\ optout[q].pc = "selected"
  /\ optout[q].pos # NoPosition
  /\ RemoveByIndex(optout[q].pos) /\ BeginSave(q)
  /\ UNCHANGED <<postgres, requests, camera, faults>>

NothingToRemove(q) ==
  /\ LoopFree /\ optout[q].pc = "selected"
  /\ optout[q].pos = NoPosition
  /\ optout' = [optout EXCEPT ![q].pc = "commit"]
  /\ UNCHANGED <<matcher, api, disk, postgres, reg, position, save, camera, faults>>

\* save() raised, when it opened the first file or later: the error is only logged.
FailOptOutSave(q) ==
  /\ \/ /\ LoopFree /\ optout[q].pc = "selected" /\ optout[q].pos # NoPosition
        /\ Fault("save")
        /\ RemoveByIndex(optout[q].pos)
        /\ UNCHANGED save
     \/ AbandonSave(q) /\ UNCHANGED matcher
  /\ optout' = [optout EXCEPT ![q].pc = "commit"]
  /\ UNCHANGED <<api, disk, postgres, reg, position, camera>>

CommitOptOut(q) ==
  /\ LoopFree /\ optout[q].pc = "commit"
  /\ participant' = [participant EXCEPT ![optout[q].who] = "opted"]
  /\ embedding' = [embedding EXCEPT ![optout[q].who] = NoPosition]
  /\ optout' = [optout EXCEPT ![q] = NoOptOut]
  /\ UNCHANGED <<matcher, api, disk, reg, position, save, camera, faults>>

FailOptOutCommit(q) ==
  /\ LoopFree /\ optout[q].pc = "commit"
  /\ Fault("commit")
  /\ optout' = [optout EXCEPT ![q] = NoOptOut]
  /\ UNCHANGED <<matcher, api, disk, postgres, reg, position, save, camera>>

\* The API dies, at any time, and loads the files when it starts; a torn file makes load()
\* raise, at every start, until somebody repairs the files by hand.
Crash ==
  /\ api = "up"
  /\ Fault(IF stage \in {"index", "map"} THEN "torn" ELSE "crash")
  /\ IF torn = {} THEN api' = "up" /\ vectors' = diskVectors /\ owner' = diskOwner
                  ELSE api' = "down" /\ vectors' = <<>> /\ owner' = NoMap
  /\ reg' = [r \in Registrations |->
              IF reg[r] \in {"flush", "commit"} THEN "failed" ELSE reg[r]]
  /\ optout' = [q \in Requests |-> NoOptOut]
  /\ saving' = Nobody /\ stage' = "none"
  /\ UNCHANGED <<disk, postgres, position, camera>>
-----------------------------------------------------------------------------
(***************************************************************************)
(* A camera worker: reload_faiss_if_needed and load, before each frame     *)
(***************************************************************************)
ReloadIndex(c) ==
  /\ camNew[c] = <<>> /\ <<indexTime, mapTime>> # camTimes[c]
  /\ "index" \notin torn
  /\ camNew' = [camNew EXCEPT ![c] = <<indexTime, mapTime>>]
  /\ camVectors' = [camVectors EXCEPT ![c] = diskVectors]
  /\ UNCHANGED <<matcher, api, disk, postgres, requests, save, camOwner, camTimes, faults>>

\* A map that was never written is not read.
ReadOwners(c) ==
  camOwner' = [camOwner EXCEPT ![c] = IF mapTime = 0 THEN @ ELSE diskOwner]

\* Slip: remember the times at the end of the reload.
SlipStatAfterwards(c) ==
  /\ camNew[c] # <<>> /\ "map" \notin torn
  /\ ReadOwners(c)
  /\ camTimes' = [camTimes EXCEPT ![c] = <<indexTime, mapTime>>]
  /\ camNew' = [camNew EXCEPT ![c] = <<>>]
  /\ UNCHANGED <<matcher, api, disk, postgres, requests, save, camVectors, faults>>

ReloadMap(c) ==
  /\ camNew[c] # <<>> /\ "map" \notin torn
  /\ ReadOwners(c)
  /\ camTimes' = [camTimes EXCEPT ![c] = camNew[c]]
  /\ camNew' = [camNew EXCEPT ![c] = <<>>]
  /\ UNCHANGED <<matcher, api, disk, postgres, requests, save, camVectors, faults>>

\* load() raises on a torn file: the worker ends, and Docker starts it again, knowing nothing.
\* (What its constructor loads is loaded again when it first looks at the times.)
Die(c) ==
  /\ \/ camNew[c] = <<>> /\ <<indexTime, mapTime>> # camTimes[c] /\ "index" \in torn
     \/ camNew[c] # <<>> /\ "map" \in torn
  /\ camVectors' = [camVectors EXCEPT ![c] = <<>>] /\ camOwner' = [camOwner EXCEPT ![c] = NoMap]
  /\ camTimes' = [camTimes EXCEPT ![c] = <<0, 0>>] /\ camNew' = [camNew EXCEPT ![c] = <<>>]
  /\ UNCHANGED <<matcher, api, disk, postgres, requests, save, faults>>

Camera(c) == ReloadIndex(c) \/ ReloadMap(c) \/ Die(c)

SaveStep(x) == WriteIndex(x) \/ OpenMap(x) \/ WriteMap(x)

RegistrationStep(r) ==
  \/ RejectDuplicate(r) \/ Register(r) \/ Flushed(r) \/ SaveStep(r) \/ CommitRegistration(r)
  \/ FailFlush(r) \/ FailSave(r) \/ FailCommit(r)

OptOutStep(q) ==
  \/ \E r \in Registrations : SelectOptOut(q, r)
  \/ RemoveVector(q) \/ NothingToRemove(q) \/ SaveStep(q) \/ CommitOptOut(q)
  \/ FailOptOutSave(q) \/ FailOptOutCommit(q)

Next ==
  \/ \E r \in Registrations : RegistrationStep(r)
  \/ \E q \in Requests : OptOutStep(q)
  \/ Crash
  \/ \E c \in Cameras : Camera(c)

Spec == Init /\ [][Next]_vars

\* Cameras look at the files before every frame, and frames keep coming.
FairSpec == Spec /\ \A c \in Cameras : WF_vars(Camera(c))
-----------------------------------------------------------------------------
(***************************************************************************)
(* Properties                                                              *)
(***************************************************************************)
\* Every variable keeps its type; the second file never runs ahead of the first.
TypeOK ==
  /\ vectors \in Seq(Registrations) /\ diskVectors \in Seq(Registrations)
  /\ camVectors \in [Cameras -> Seq(Registrations)]
  /\ \A m \in {owner, diskOwner} \cup {camOwner[c] : c \in Cameras} :
       \A i \in DOMAIN m : m[i] \in Registrations
  /\ indexTime \in Nat /\ mapTime \in 0..indexTime
  /\ participant \in [Registrations -> {"absent", "active", "opted"}]
  /\ embedding \in [Registrations -> Nat] /\ position \in [Registrations -> Nat]
  /\ reg \in [Registrations -> {"idle", "rejected", "flush", "commit", "failed", "done"}]
  /\ optout \in [Requests -> [pc : {"idle", "selected", "commit"},
                              who : Registrations \cup {Nobody}, pos : Nat]]
  /\ api \in {"up", "down"} /\ torn \in SUBSET {"index", "map"}
  /\ saving \in Registrations \cup Requests \cup {Nobody}
  /\ stage \in {"none", "index", "between", "map"}
  /\ camTimes \in [Cameras -> Nat \X Nat]
  /\ camNew \in [Cameras -> {<<>>} \cup (Nat \X Nat)]
  /\ faults \in [FaultKinds -> Nat]

\* The index never holds two vectors of one face: registrations in progress together,
\* removals, rollbacks and restarts never let the same person in twice.
OneVectorPerFace ==
  \A i, j \in DOMAIN vectors : FaceOf[vectors[i]] = FaceOf[vectors[j]] => i = j

\* As long as the API did not restart, every vector of its index is mapped to the
\* participant it was added for, and nothing else is mapped, however removals and
\* rollbacks shift the positions.  (A restart may load two files that do not fit.)
MapFitsIndex == faults["crash"] = 0 => owner = vectors

OnDisk(r) ==
  \E i \in DOMAIN diskVectors : /\ diskVectors[i] = r
                                /\ i \in DOMAIN diskOwner /\ diskOwner[i] = r

\* Whenever both files are whole, a committed participant can be recognised from them alone,
\* whatever else was registering and whenever the API died: they are written before the commit.
\* And a file is torn only while save() writes it, unless a crash fell into the writing.
\* (For runs without opt-outs and failing flushes, which remove other people's vectors.)
CommittedIsOnDisk ==
  /\ torn = {} => \A r \in Registrations : participant[r] = "active" => OnDisk(r)
  /\ torn # {} => saving # Nobody \/ faults["torn"] > 0

\* A camera never gives a face somebody else's name, not even when it reads one file before
\* and the other after a registration, or while it has read only one of them, whichever
\* commits fail and whenever the API dies: positions are only added.  (For the same runs.)
CamerasNameRight ==
  \A c \in Cameras : \A i \in DOMAIN camVectors[c] \cap DOMAIN camOwner[c] :
    camOwner[c][i] = camVectors[c][i]

\* Once registrations and opt-outs are over, every camera ends up with the pair of
\* files on disk, even if the files changed, or were torn, while it was reading them;
\* unless a crash in mid-write left a torn file for good.
EventuallyFresh ==
  \A c \in Cameras :
    <>[](torn = {} => camVectors[c] = diskVectors /\ camOwner[c] = diskOwner)

\* "Opt-out: remove embedding, anonymize record, delete photo." (participants.py:188)
OptOutRemovesEmbedding ==
  \A r \in Registrations : participant[r] = "opted" => ~Contains(vectors, r)
=============================================================================

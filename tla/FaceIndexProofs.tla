--------------------------- MODULE FaceIndexProofs ---------------------------
(***************************************************************************)
(* Nobody is in the index twice, the map fits the index until a restart,   *)
(* and a committed participant is on disk, for any number of registrations,*)
(* opt-outs, cameras and faults.                                           *)
(***************************************************************************)
EXTENDS FaceIndex, SequenceTheorems, TLAPS

\* A map to participants; an index without a second vector of a face.
Mapped(m) == \A i \in DOMAIN m : m[i] \in Registrations
Index(v) == v \in Seq(Registrations)
            /\ \A i, j \in DOMAIN v : FaceOf[v[i]] = FaceOf[v[j]] => i = j

\* What the API holds and what is on disk, from which a restart takes it.
IndexInv ==
  /\ Index(vectors) /\ Index(diskVectors) /\ Mapped(owner) /\ Mapped(diskOwner)
  /\ faults \in [FaultKinds -> Nat] /\ MapFitsIndex

\* The second file stays behind the first while a request is inside save(), and the file it
\* writes is torn.
FilesInOrder ==
  /\ indexTime \in Nat /\ mapTime \in 0..indexTime
  /\ api \in {"up", "down"} /\ torn \in SUBSET {"index", "map"}
  /\ saving \in Registrations \cup Requests \cup {Nobody}
  /\ stage \in {"none", "index", "between", "map"}
  /\ saving = Nobody <=> stage = "none"
  /\ stage = "index" => "index" \in torn /\ mapTime + 1 <= indexTime
  /\ stage = "between" => mapTime + 2 <= indexTime
  /\ stage = "map" => "map" \in torn /\ mapTime + 1 <= indexTime

RequestsTyped ==
  /\ participant \in [Registrations -> {"absent", "active", "opted"}]
  /\ embedding \in [Registrations -> Nat] /\ position \in [Registrations -> Nat]
  /\ reg \in [Registrations -> {"idle", "rejected", "flush", "commit", "failed", "done"}]
  /\ optout \in [Requests -> [pc : {"idle", "selected", "commit"},
                              who : Registrations \cup {Nobody}, pos : Nat]]

CamerasTyped ==
  /\ camVectors \in [Cameras -> Seq(Registrations)]
  /\ \A c \in Cameras : Mapped(camOwner[c])
  /\ DOMAIN camOwner = Cameras /\ camOwner = [c \in Cameras |-> camOwner[c]]
  /\ camTimes \in [Cameras -> Nat \X Nat]
  /\ camNew \in [Cameras -> {<<>>} \cup (Nat \X Nat)]

IInv == IndexInv /\ FilesInOrder /\ RequestsTyped /\ CamerasTyped
-----------------------------------------------------------------------------
(***************************************************************************)
(* Lemmas: sequences and maps                                              *)
(***************************************************************************)
\* A map with the entries of a sequence is the sequence.
LEMMA MapIsSeq ==
  ASSUME NEW S, NEW s \in Seq(S), NEW m, m = [i \in DOMAIN m |-> m[i]],
         DOMAIN m = DOMAIN s, \A i \in DOMAIN s : m[i] = s[i]
  PROVE  m = s
  <1>1. s = [i \in DOMAIN s |-> s[i]]
    OBVIOUS
  <1> QED BY <1>1

\* Taking a position out of a sequence.
LEMMA Removed ==
  ASSUME NEW S, NEW s \in Seq(S), NEW p \in DOMAIN s
  PROVE  /\ RemoveAt(s, p) \in Seq(S) /\ Len(RemoveAt(s, p)) = Len(s) - 1
         /\ \A i \in 1..(Len(s) - 1) : RemoveAt(s, p)[i] = IF p <= i THEN s[i + 1] ELSE s[i]
  <1>1. Len(s) \in Nat /\ p \in 1..Len(s) /\ \A i \in 1..Len(s) : s[i] \in S
    BY ElementOfSeq, LenProperties
  <1> DEFINE a == SubSeq(s, 1, p - 1)
             b == SubSeq(s, p + 1, Len(s))
  <1>2. /\ a \in Seq(S) /\ Len(a) = p - 1
        /\ \A i \in 1..(p - 1) : a[i] = s[i]
    <2>1. p - 1 \in Int /\ \A i \in 1..(p - 1) : s[i] \in S
      BY <1>1
    <2>2. /\ a \in Seq(S) /\ Len(a) = IF 1 <= p - 1 THEN (p - 1) - 1 + 1 ELSE 0
          /\ \A i \in 1..((p - 1) - 1 + 1) : a[i] = s[1 + i - 1]
      BY <2>1, SubSeqProperties
    <2> HIDE DEF a
    <2> QED BY <1>1, <2>2
  <1>3. /\ b \in Seq(S) /\ Len(b) = Len(s) - p
        /\ \A i \in 1..(Len(s) - p) : b[i] = s[p + i]
    <2>1. p + 1 \in Int /\ Len(s) \in Int /\ \A i \in (p + 1)..Len(s) : s[i] \in S
      BY <1>1
    <2>2. /\ b \in Seq(S) /\ Len(b) = IF p + 1 <= Len(s) THEN Len(s) - (p + 1) + 1 ELSE 0
          /\ \A i \in 1..(Len(s) - (p + 1) + 1) : b[i] = s[(p + 1) + i - 1]
      BY <2>1, SubSeqProperties
    <2> HIDE DEF b
    <2> QED BY <1>1, <2>2
  <1> HIDE DEF a, b
  <1>4. /\ a \o b \in Seq(S) /\ Len(a \o b) = Len(a) + Len(b)
        /\ \A i \in 1..(Len(a) + Len(b)) : (a \o b)[i] = IF i <= Len(a) THEN a[i] ELSE b[i - Len(a)]
    BY <1>2, <1>3, ConcatProperties
  <1>5. RemoveAt(s, p) = a \o b
    BY DEF RemoveAt, a, b
  <1>6. ASSUME NEW i \in 1..(Len(s) - 1)
        PROVE  (a \o b)[i] = IF p <= i THEN s[i + 1] ELSE s[i]
    <2>1. p \in Int /\ i \in Int /\ i \in 1..(Len(a) + Len(b))
      BY <1>1, <1>2, <1>3
    <2>2. CASE p <= i
      <3>1. i - (p - 1) \in 1..(Len(s) - p) /\ p + (i - (p - 1)) = i + 1 /\ ~(i <= p - 1)
        BY <1>1, <2>1, <2>2
      <3>2. b[i - (p - 1)] = s[i + 1]
        BY <1>3, <3>1
      <3> QED BY <1>2, <1>4, <2>1, <2>2, <3>1, <3>2
    <2>3. CASE ~(p <= i)
      <3>1. i \in 1..(p - 1) /\ i <= p - 1
        BY <1>1, <2>1, <2>3
      <3> QED BY <1>2, <1>4, <2>1, <2>3, <3>1
    <2> QED BY <2>2, <2>3
  <1>7. Len(a) + Len(b) = Len(s) - 1
    BY <1>1, <1>2, <1>3
  <1> QED BY <1>4, <1>5, <1>6, <1>7
-----------------------------------------------------------------------------
(***************************************************************************)
(* The FaceMatcher                                                         *)
(***************************************************************************)
\* A removal, of any position, leaves an index without repetitions, and a map that fits if it
\* did before.
LEMMA RemoveKeeps ==
  ASSUME Index(vectors), Mapped(owner), NEW pos \in Nat, RemoveByIndex(pos)
  PROVE  Index(vectors') /\ Mapped(owner') /\ (owner = vectors => owner' = vectors')
  <1> DEFINE old(i) == IF pos <= i /\ pos \in DOMAIN vectors THEN i + 1 ELSE i
  <1>1. CASE vectors = <<>>
    BY <1>1 DEF RemoveByIndex, Index, Mapped, matcher
  <1>2. CASE vectors # <<>>
    <2>1. /\ vectors' = IF pos \in DOMAIN vectors THEN RemoveAt(vectors, pos) ELSE vectors
          /\ owner' = [i \in {j \in DOMAIN vectors' : old(j) \in DOMAIN owner} |-> owner[old(i)]]
      BY <1>2 DEF RemoveByIndex
    <2>2. vectors \in Seq(Registrations) /\ Len(vectors) \in Nat /\ DOMAIN vectors = 1..Len(vectors)
      BY LenProperties DEF Index
    <2>3. /\ vectors' \in Seq(Registrations)
          /\ \A i \in DOMAIN vectors' : old(i) \in DOMAIN vectors /\ vectors'[i] = vectors[old(i)]
          /\ \A i, j \in DOMAIN vectors' : old(i) = old(j) => i = j
      <3>1. CASE pos \in DOMAIN vectors
        <4>1. /\ vectors' \in Seq(Registrations) /\ Len(vectors') = Len(vectors) - 1
              /\ \A i \in 1..(Len(vectors) - 1) :
                   vectors'[i] = IF pos <= i THEN vectors[i + 1] ELSE vectors[i]
          BY <2>1, <2>2, <3>1, Removed
        <4>2. DOMAIN vectors' = 1..(Len(vectors) - 1)
          BY <4>1, LenProperties
        <4> QED BY <2>2, <3>1, <4>1, <4>2
      <3>2. CASE pos \notin DOMAIN vectors
        BY <2>1, <2>2, <3>2
      <3> QED BY <3>1, <3>2
    <2> HIDE DEF old
    <2>4. Index(vectors')
      BY <2>3 DEF Index
    <2>5. Mapped(owner')
      BY <2>1 DEF Mapped
    <2>6. ASSUME owner = vectors PROVE owner' = vectors'
      <3>1. DOMAIN owner' = DOMAIN vectors' /\ \A i \in DOMAIN vectors' : owner'[i] = vectors'[i]
        BY <2>1, <2>3, <2>6
      <3>2. owner' = [i \in DOMAIN owner' |-> owner'[i]]
        BY <2>1
      <3> QED BY <2>3, <3>1, <3>2, MapIsSeq
    <2> QED BY <2>4, <2>5, <2>6
  <1> QED BY <1>1, <1>2

\* Somebody unknown is added.
LEMMA AddKeeps ==
  ASSUME Index(vectors), Mapped(owner), NEW r \in Registrations, ~Known(r), Add(r)
  PROVE  /\ Index(vectors') /\ Mapped(owner') /\ (owner = vectors => owner' = vectors')
         /\ Len(vectors') = Len(vectors) + 1 /\ Len(vectors') \in Nat
         /\ \A i \in DOMAIN vectors : i \in DOMAIN vectors' /\ vectors'[i] = vectors[i]
         /\ vectors'[Len(vectors')] = r
  <1>1. /\ vectors' = Append(vectors, r)
        /\ owner' = [i \in DOMAIN owner \cup {Len(vectors')} |->
                      IF i = Len(vectors') THEN r ELSE owner[i]]
    BY DEF Add
  <1>2. vectors \in Seq(Registrations) /\ Len(vectors) \in Nat /\ DOMAIN vectors = 1..Len(vectors)
    BY LenProperties DEF Index
  <1>3. /\ vectors' \in Seq(Registrations) /\ Len(vectors') = Len(vectors) + 1
        /\ DOMAIN vectors' = 1..(Len(vectors) + 1)
        /\ \A i \in DOMAIN vectors : vectors'[i] = vectors[i]
        /\ vectors'[Len(vectors) + 1] = r
    BY <1>1, <1>2, AppendProperties
  <1>4. Index(vectors')
    <2>1. \A i \in DOMAIN vectors : FaceOf[vectors[i]] # FaceOf[r]
      BY DEF Known
    <2>2. \A i \in DOMAIN vectors' : i \in DOMAIN vectors \/ i = Len(vectors) + 1
      BY <1>2, <1>3
    <2> QED BY <1>3, <2>1, <2>2 DEF Index
  <1>5. Mapped(owner')
    BY <1>1 DEF Mapped
  <1>6. ASSUME owner = vectors PROVE owner' = vectors'
    <2>1. DOMAIN owner' = DOMAIN vectors' /\ \A i \in DOMAIN vectors' : owner'[i] = vectors'[i]
      BY <1>1, <1>2, <1>3, <1>6
    <2>2. owner' = [i \in DOMAIN owner' |-> owner'[i]]
      BY <1>1
    <2> QED BY <1>3, <2>1, <2>2, MapIsSeq
  <1> QED BY <1>2, <1>3, <1>4, <1>5, <1>6

\* Faults are only counted up.
LEMMA FaultCounts ==
  ASSUME faults \in [FaultKinds -> Nat], NEW k \in FaultKinds, Fault(k)
  PROVE  /\ faults' \in [FaultKinds -> Nat]
         /\ faults'["crash"] = 0 => faults["crash"] = 0 /\ k # "crash"
  BY DEF Fault, FaultKinds
-----------------------------------------------------------------------------
(***************************************************************************)
(* The steps                                                               *)
(***************************************************************************)
\* A step keeps the index if its FaceMatcher does, whichever files it writes.
LEMMA IndexStep ==
  ASSUME IndexInv, Index(vectors'), Mapped(owner'), owner = vectors => owner' = vectors',
         diskVectors' \in {diskVectors, vectors'}, diskOwner' \in {diskOwner, owner},
         UNCHANGED faults \/ \E k \in FaultKinds : Fault(k)
  PROVE  IndexInv'
  <1>1. Index(diskVectors') /\ Mapped(diskOwner')
    BY DEF IndexInv
  <1>2. faults' \in [FaultKinds -> Nat] /\ (faults'["crash"] = 0 => faults["crash"] = 0)
    BY FaultCounts DEF IndexInv
  <1>3. MapFitsIndex'
    BY <1>2 DEF IndexInv, MapFitsIndex
  <1> QED BY <1>1, <1>2, <1>3 DEF IndexInv

LEMMA IndexStays ==
  ASSUME IndexInv, UNCHANGED matcher,
         diskVectors' \in {diskVectors, vectors'}, diskOwner' \in {diskOwner, owner},
         UNCHANGED faults \/ \E k \in FaultKinds : Fault(k)
  PROVE  IndexInv'
  <1>1. vectors' = vectors /\ owner' = owner
    BY DEF matcher
  <1>2. Index(vectors') /\ Mapped(owner')
    BY <1>1 DEF IndexInv, Index, Mapped
  <1> QED BY <1>1, <1>2, IndexStep

LEMMA IndexRemoves ==
  ASSUME IndexInv, NEW pos \in Nat, RemoveByIndex(pos),
         diskVectors' \in {diskVectors, vectors'}, diskOwner' = diskOwner,
         UNCHANGED faults \/ \E k \in FaultKinds : Fault(k)
  PROVE  IndexInv'
  <1>1. Index(vectors') /\ Mapped(owner') /\ (owner = vectors => owner' = vectors')
    BY RemoveKeeps DEF IndexInv
  <1> QED BY <1>1, IndexStep

\* The steps of a request, between which the cameras see nothing but the files.
CamerasStay == UNCHANGED camera /\ CamerasTyped => CamerasTyped'
LEMMA CamerasUntouched == CamerasStay
  BY DEF CamerasStay, camera, CamerasTyped, Mapped

LEMMA SaveBegins ==
  ASSUME FilesInOrder, NEW x \in Registrations \cup Requests, BeginSave(x)
  PROVE  FilesInOrder'
  <1>1. /\ saving' = x /\ stage' = "index" /\ torn' = torn \cup {"index"}
        /\ indexTime' = indexTime + 1 /\ mapTime' = mapTime /\ api' = api /\ x # Nobody
    BY ConstantsAssumption DEF BeginSave
  <1> QED BY <1>1 DEF FilesInOrder

LEMMA SaveInv ==
  ASSUME IInv, NEW x \in Registrations \cup Requests, SaveStep(x)
  PROVE  IInv'
  <1> USE DEF IInv
  <1>1. UNCHANGED <<matcher, postgres, position, camera, faults>>
    BY DEF SaveStep, WriteIndex, OpenMap, WriteMap, requests
  <1>2. IndexInv'
    BY <1>1, IndexStays DEF SaveStep, WriteIndex, OpenMap, WriteMap, matcher
  <1>3. FilesInOrder'
    <2>1. x # Nobody
      BY ConstantsAssumption
    <2>2. CASE WriteIndex(x)
      BY <2>1, <2>2 DEF WriteIndex, FilesInOrder
    <2>3. CASE OpenMap(x)
      BY <2>1, <2>3 DEF OpenMap, FilesInOrder
    <2>4. CASE WriteMap(x)
      BY <2>1, <2>4 DEF WriteMap, FilesInOrder
    <2> QED BY <2>2, <2>3, <2>4 DEF SaveStep
  <1>4. RequestsTyped'
    <2>1. CASE UNCHANGED requests
      BY <1>1, <2>1 DEF requests, postgres, RequestsTyped
    <2>2. CASE WriteMap(x)
      BY <2>2 DEF WriteMap, postgres, RequestsTyped
    <2> QED BY <2>1, <2>2 DEF SaveStep, WriteIndex, OpenMap
  <1> QED BY <1>1, <1>2, <1>3, <1>4, CamerasUntouched DEF CamerasStay

LEMMA RegistrationInv ==
  ASSUME IInv, NEW r \in Registrations, RegistrationStep(r)
  PROVE  IInv'
  <1> USE DEF IInv
  <1>0. UNCHANGED camera => CamerasTyped'
    BY CamerasUntouched DEF CamerasStay
  <1>1. CASE RejectDuplicate(r)
    <2>1. IndexInv'
      BY <1>1, IndexStays DEF RejectDuplicate, disk
    <2>2. FilesInOrder' /\ RequestsTyped'
      BY <1>1 DEF RejectDuplicate, disk, postgres, save, FilesInOrder, RequestsTyped
    <2> QED BY <1>0, <1>1, <2>1, <2>2 DEF RejectDuplicate
  <1>2. CASE Register(r)
    <2>1. /\ Index(vectors') /\ Mapped(owner') /\ (owner = vectors => owner' = vectors')
          /\ Len(vectors') \in Nat
      BY <1>2, AddKeeps DEF Register, IndexInv
    <2>2. IndexInv'
      BY <1>2, <2>1, IndexStep DEF Register, disk
    <2>3. FilesInOrder' /\ RequestsTyped'
      BY <1>2, <2>1 DEF Register, disk, postgres, save, FilesInOrder, RequestsTyped
    <2> QED BY <1>0, <1>2, <2>2, <2>3 DEF Register
  <1>3. CASE Flushed(r)
    <2>1. IndexInv'
      BY <1>3, IndexStays DEF Flushed, BeginSave
    <2>2. RequestsTyped'
      BY <1>3 DEF Flushed, BeginSave, requests, postgres, RequestsTyped
    <2>3. FilesInOrder'
      BY <1>3, SaveBegins DEF Flushed
    <2> QED BY <1>0, <1>3, <2>1, <2>2, <2>3 DEF Flushed
  <1>4. CASE SaveStep(r)
    BY <1>4, SaveInv
  <1>5. CASE CommitRegistration(r)
    <2>1. IndexInv'
      BY <1>5, IndexStays DEF CommitRegistration, disk
    <2>2. FilesInOrder' /\ RequestsTyped'
      BY <1>5 DEF CommitRegistration, disk, save, FilesInOrder, RequestsTyped
    <2> QED BY <1>0, <1>5, <2>1, <2>2 DEF CommitRegistration
  <1>6. CASE FailFlush(r) \/ FailSave(r)
    <2>1. /\ RollbackLastAdd /\ UNCHANGED disk /\ UNCHANGED postgres
          /\ \E k \in FaultKinds : Fault(k)
      BY <1>6 DEF FailFlush, FailSave, AbandonSave, FaultKinds
    <2>2. Len(vectors) \in Nat
      BY LenProperties DEF IndexInv, Index
    <2>3. IndexInv'
      BY <2>1, <2>2, IndexRemoves DEF RollbackLastAdd, disk
    <2>4. FilesInOrder'
      BY <1>6, <2>1 DEF FailFlush, FailSave, AbandonSave, disk, save, FilesInOrder
    <2>5. RequestsTyped'
      BY <1>6, <2>1 DEF FailFlush, FailSave, postgres, RequestsTyped
    <2> QED BY <1>0, <1>6, <2>3, <2>4, <2>5 DEF FailFlush, FailSave
  <1>7. CASE FailCommit(r)
    <2>1. IndexInv'
      BY <1>7, IndexStays DEF FailCommit, disk, FaultKinds
    <2>2. FilesInOrder' /\ RequestsTyped'
      BY <1>7 DEF FailCommit, disk, postgres, save, FilesInOrder, RequestsTyped
    <2> QED BY <1>0, <1>7, <2>1, <2>2 DEF FailCommit
  <1> QED BY <1>1, <1>2, <1>3, <1>4, <1>5, <1>6, <1>7 DEF RegistrationStep

LEMMA OptOutInv ==
  ASSUME IInv, NEW q \in Requests, OptOutStep(q)
  PROVE  IInv'
  <1> USE DEF IInv
  <1>0. UNCHANGED camera => CamerasTyped'
    BY CamerasUntouched DEF CamerasStay
  <1>1. optout[q].pos \in Nat /\ optout[q].who \in Registrations \cup {Nobody}
    BY DEF RequestsTyped
  <1>2. CASE \E r \in Registrations : SelectOptOut(q, r)
    <2>1. PICK r \in Registrations : SelectOptOut(q, r)
      BY <1>2
    <2>2. IndexInv'
      BY <2>1, IndexStays DEF SelectOptOut, disk
    <2>3. FilesInOrder' /\ RequestsTyped'
      BY <2>1 DEF SelectOptOut, disk, postgres, save, FilesInOrder, RequestsTyped
    <2> QED BY <1>0, <2>1, <2>2, <2>3 DEF SelectOptOut
  <1>3. CASE RemoveVector(q)
    <2>1. IndexInv'
      BY <1>1, <1>3, IndexRemoves DEF RemoveVector, BeginSave
    <2>2. RequestsTyped'
      BY <1>3 DEF RemoveVector, BeginSave, requests, postgres, RequestsTyped
    <2>3. FilesInOrder'
      BY <1>3, SaveBegins DEF RemoveVector
    <2> QED BY <1>0, <1>3, <2>1, <2>2, <2>3 DEF RemoveVector
  <1>4. CASE NothingToRemove(q)
    <2>1. IndexInv'
      BY <1>4, IndexStays DEF NothingToRemove, disk
    <2>2. FilesInOrder' /\ RequestsTyped'
      BY <1>4 DEF NothingToRemove, disk, postgres, save, FilesInOrder, RequestsTyped
    <2> QED BY <1>0, <1>4, <2>1, <2>2 DEF NothingToRemove
  <1>5. CASE SaveStep(q)
    BY <1>5, SaveInv
  <1>6. CASE CommitOptOut(q)
    <2>1. IndexInv'
      BY <1>6, IndexStays DEF CommitOptOut, disk
    <2>2. FilesInOrder' /\ RequestsTyped'
      BY <1>6 DEF CommitOptOut, disk, save, FilesInOrder, RequestsTyped, NoOptOut, NoPosition
    <2> QED BY <1>0, <1>6, <2>1, <2>2 DEF CommitOptOut
  <1>7. CASE FailOptOutSave(q)
    <2>1. IndexInv'
      <3>1. /\ UNCHANGED disk /\ (RemoveByIndex(optout[q].pos) \/ UNCHANGED matcher)
            /\ \E k \in FaultKinds : Fault(k)
        BY <1>7 DEF FailOptOutSave, AbandonSave, FaultKinds
      <3> QED BY <1>1, <3>1, IndexRemoves, IndexStays DEF disk
    <2>2. FilesInOrder'
      BY <1>7 DEF FailOptOutSave, AbandonSave, disk, save, FilesInOrder
    <2>3. RequestsTyped'
      BY <1>7 DEF FailOptOutSave, postgres, RequestsTyped
    <2> QED BY <1>0, <1>7, <2>1, <2>2, <2>3 DEF FailOptOutSave
  <1>8. CASE FailOptOutCommit(q)
    <2>1. IndexInv'
      BY <1>8, IndexStays DEF FailOptOutCommit, disk, FaultKinds
    <2>2. FilesInOrder' /\ RequestsTyped'
      BY <1>8 DEF FailOptOutCommit, disk, postgres, save, FilesInOrder, RequestsTyped, NoOptOut, NoPosition
    <2> QED BY <1>0, <1>8, <2>1, <2>2 DEF FailOptOutCommit
  <1> QED BY <1>2, <1>3, <1>4, <1>5, <1>6, <1>7, <1>8 DEF OptOutStep

LEMMA CrashInv == IInv /\ Crash => IInv'
  <1> SUFFICES ASSUME IInv, Crash PROVE IInv'
    OBVIOUS
  <1> USE DEF IInv
  <1>1. /\ saving' = Nobody /\ stage' = "none" /\ api' \in {"up", "down"}
        /\ reg' = [r \in Registrations |->
                     IF reg[r] \in {"flush", "commit"} THEN "failed" ELSE reg[r]]
        /\ optout' = [q \in Requests |-> NoOptOut]
        /\ UNCHANGED <<disk, postgres, position, camera>>
    BY DEF Crash
  <1>2. \E k \in {"crash", "torn"} : Fault(k) /\ (torn = {} => k = "crash")
    BY DEF Crash, FilesInOrder
  <1>3. faults' \in [FaultKinds -> Nat] /\ (torn = {} => faults'["crash"] # 0)
    BY <1>2, FaultCounts DEF IndexInv, FaultKinds
  <1>4. IndexInv'
    <2>1. CASE torn = {}
      <3>1. vectors' = diskVectors /\ owner' = diskOwner
        BY <2>1 DEF Crash
      <3> QED BY <1>1, <1>3, <2>1, <3>1 DEF IndexInv, Index, Mapped, MapFitsIndex, disk
    <2>2. CASE torn # {}
      <3>1. vectors' = <<>> /\ owner' = NoMap
        BY <2>2 DEF Crash
      <3>2. Index(vectors') /\ Mapped(owner')
        BY <3>1, EmptySeq DEF Index, Mapped, NoMap
      <3>3. owner' = vectors'
        <4>1. DOMAIN owner' = {} /\ owner' = [i \in DOMAIN owner' |-> owner'[i]]
          BY <3>1 DEF NoMap
        <4>2. DOMAIN vectors' = {}
          BY <3>1
        <4> QED BY <3>2, <4>1, <4>2, MapIsSeq DEF Index
      <3> QED BY <1>1, <1>3, <3>2, <3>3 DEF IndexInv, Index, Mapped, MapFitsIndex, disk
    <2> QED BY <2>1, <2>2
  <1>5. FilesInOrder'
    BY <1>1 DEF FilesInOrder, disk
  <1>6. RequestsTyped'
    BY <1>1 DEF RequestsTyped, postgres, NoOptOut, NoPosition
  <1> QED BY <1>1, <1>4, <1>5, <1>6, CamerasUntouched DEF CamerasStay

LEMMA CameraInv ==
  ASSUME IInv, NEW c \in Cameras, Camera(c)
  PROVE  IInv'
  <1> USE DEF IInv
  <1>1. UNCHANGED <<matcher, api, disk, postgres, requests, save, faults>>
    BY DEF Camera, ReloadIndex, ReloadMap, Die
  <1>2. IndexInv'
    BY <1>1, IndexStays DEF disk
  <1>3. FilesInOrder' /\ RequestsTyped'
    BY <1>1 DEF FilesInOrder, RequestsTyped, disk, save, postgres, requests
  <1>4. diskVectors \in Seq(Registrations) /\ Mapped(diskOwner) /\ indexTime \in Nat /\ mapTime \in Nat
    BY DEF IndexInv, Index, FilesInOrder
  <1>5. CASE ReloadIndex(c)
    <2>1. /\ camNew' = [camNew EXCEPT ![c] = <<indexTime, mapTime>>]
          /\ camVectors' = [camVectors EXCEPT ![c] = diskVectors]
          /\ UNCHANGED <<camOwner, camTimes>>
      BY <1>5 DEF ReloadIndex
    <2>2. /\ camNew' \in [Cameras -> {<<>>} \cup (Nat \X Nat)]
          /\ camVectors' \in [Cameras -> Seq(Registrations)]
      BY <1>4, <2>1 DEF CamerasTyped
    <2>3. CamerasTyped'
      BY <2>1, <2>2 DEF CamerasTyped, Mapped
    <2> QED BY <1>2, <1>3, <2>3
  <1>6. CASE ReloadMap(c)
    <2>1. /\ camOwner' = [camOwner EXCEPT ![c] = IF mapTime = 0 THEN @ ELSE diskOwner]
          /\ camTimes' = [camTimes EXCEPT ![c] = camNew[c]]
          /\ camNew' = [camNew EXCEPT ![c] = <<>>] /\ camNew[c] # <<>>
          /\ camVectors' = camVectors
      BY <1>6 DEF ReloadMap, ReadOwners
    <2>2. camNew[c] \in Nat \X Nat
      BY <2>1 DEF CamerasTyped
    <2>3. /\ DOMAIN camOwner' = Cameras /\ camOwner' = [d \in Cameras |-> camOwner'[d]]
          /\ \A d \in Cameras : camOwner'[d] \in {camOwner[d], diskOwner}
      BY <2>1 DEF CamerasTyped
    <2>4. \A d \in Cameras : Mapped(camOwner'[d])
      BY <1>4, <2>3 DEF CamerasTyped
    <2>5. camTimes' \in [Cameras -> Nat \X Nat] /\ camNew' \in [Cameras -> {<<>>} \cup (Nat \X Nat)]
      BY <2>1, <2>2 DEF CamerasTyped
    <2>6. CamerasTyped'
      BY <2>1, <2>3, <2>4, <2>5 DEF CamerasTyped, Mapped
    <2> QED BY <1>2, <1>3, <2>6
  <1>7. CASE Die(c)
    <2>1. /\ camVectors' = [camVectors EXCEPT ![c] = <<>>]
          /\ camOwner' = [camOwner EXCEPT ![c] = NoMap]
          /\ camTimes' = [camTimes EXCEPT ![c] = <<0, 0>>]
          /\ camNew' = [camNew EXCEPT ![c] = <<>>]
      BY <1>7 DEF Die
    <2>2. /\ camVectors' \in [Cameras -> Seq(Registrations)]
          /\ camTimes' \in [Cameras -> Nat \X Nat] /\ camNew' \in [Cameras -> {<<>>} \cup (Nat \X Nat)]
      BY <2>1, EmptySeq DEF CamerasTyped
    <2>3. /\ DOMAIN camOwner' = Cameras /\ camOwner' = [d \in Cameras |-> camOwner'[d]]
          /\ \A d \in Cameras : camOwner'[d] \in {camOwner[d], NoMap}
      BY <2>1 DEF CamerasTyped
    <2>4. \A d \in Cameras : Mapped(camOwner'[d])
      BY <2>3 DEF CamerasTyped, Mapped, NoMap
    <2>5. CamerasTyped'
      BY <2>2, <2>3, <2>4 DEF CamerasTyped, Mapped
    <2> QED BY <1>2, <1>3, <2>5
  <1> QED BY <1>2, <1>3, <1>5, <1>6, <1>7 DEF Camera

LEMMA InitInv == Init => IInv
  <1> SUFFICES ASSUME Init PROVE IInv
    OBVIOUS
  <1>1. IndexInv
    BY EmptySeq DEF Init, IndexInv, Index, Mapped, NoMap, MapFitsIndex, FaultKinds
  <1>2. FilesInOrder /\ RequestsTyped
    BY DEF Init, FilesInOrder, RequestsTyped, NoOptOut, NoPosition
  <1>3. CamerasTyped
    BY EmptySeq DEF Init, CamerasTyped, Mapped, NoMap
  <1> QED BY <1>1, <1>2, <1>3 DEF IInv

LEMMA StepInv == IInv /\ [Next]_vars => IInv'
  <1> SUFFICES ASSUME IInv, [Next]_vars PROVE IInv'
    OBVIOUS
  <1>1. CASE \E r \in Registrations : RegistrationStep(r)
    BY <1>1, RegistrationInv
  <1>2. CASE \E q \in Requests : OptOutStep(q)
    BY <1>2, OptOutInv
  <1>3. CASE Crash
    BY <1>3, CrashInv
  <1>4. CASE \E c \in Cameras : Camera(c)
    BY <1>4, CameraInv
  <1>5. CASE UNCHANGED vars
    BY <1>5 DEF vars, matcher, disk, postgres, requests, save, camera, IInv, IndexInv, Index, Mapped,
                MapFitsIndex, FilesInOrder, RequestsTyped, CamerasTyped
  <1> QED BY <1>1, <1>2, <1>3, <1>4, <1>5 DEF Next
-----------------------------------------------------------------------------
(***************************************************************************)
(* Theorems                                                                *)
(***************************************************************************)
\* The inductive invariant holds in every reachable state.
THEOREM Inductive == Spec => []IInv
  <1> QED BY InitInv, StepInv, PTL DEF Spec

\* Every reachable state is well typed, and the second file never runs ahead of the first.
THEOREM TypeCorrect == Spec => []TypeOK
  <1>1. IInv => TypeOK
    BY DEF IInv, IndexInv, Index, Mapped, FilesInOrder, RequestsTyped, CamerasTyped, TypeOK
  <1> QED BY <1>1, Inductive, PTL

\* Nobody gets into the index twice, whatever requests run together, fail or restart.
THEOREM NobodyTwice == Spec => []OneVectorPerFace
  <1>1. IInv => OneVectorPerFace
    BY DEF IInv, IndexInv, Index, OneVectorPerFace
  <1> QED BY <1>1, Inductive, PTL

\* Without a restart the map is that of the index, however often positions shift.
THEOREM MapIsOfIndex == Spec => []MapFitsIndex
  <1>1. IInv => MapFitsIndex
    BY DEF IInv, IndexInv
  <1> QED BY <1>1, Inductive, PTL
-----------------------------------------------------------------------------
(***************************************************************************)
(* What is committed is on disk, if nothing is ever removed                *)
(***************************************************************************)
\* The map is of the index as far as it goes, the files are of what the API holds, unless a
\* torn file keeps it from starting; no file is torn that is not being written.  Whoever
\* waits for save() is in the map, and whoever waits for the commit is in the file.
OnMap(m, r) == \E i \in DOMAIN m : m[i] = r
DiskInv ==
  /\ \A i \in DOMAIN owner : i \in DOMAIN vectors /\ owner[i] = vectors[i]
  /\ \A i \in DOMAIN diskOwner : i \in DOMAIN diskVectors /\ diskOwner[i] = diskVectors[i]
  /\ api = "up" =>
       /\ \A i \in DOMAIN diskVectors : i \in DOMAIN vectors /\ diskVectors[i] = vectors[i]
       /\ \A i \in DOMAIN diskOwner : i \in DOMAIN owner
       /\ torn = IF stage = "index" THEN {"index"} ELSE IF stage = "map" THEN {"map"} ELSE {}
  /\ api = "down" => faults["torn"] > 0 /\ \A r \in Registrations : reg[r] \notin {"flush", "commit"}
  /\ saving # Nobody => /\ saving \in Registrations /\ reg[saving] = "flush" /\ api = "up"
                        /\ stage \in {"between", "map"} => diskVectors = vectors
  /\ \A r \in Registrations : reg[r] = "flush" => OnMap(owner, r)
  /\ \A r \in Registrations : reg[r] = "commit" \/ participant[r] = "active" => OnMap(diskOwner, r)

NothingRemoves == Requests = {} /\ Failing \cap {"flush", "save"} = {}

LEMMA DiskRegistration ==
  ASSUME NothingRemoves, IInv, DiskInv, NEW x \in Registrations, RegistrationStep(x)
  PROVE  DiskInv'
  <1>1. CASE RejectDuplicate(x)
    BY <1>1 DEF RejectDuplicate, matcher, disk, save, postgres, DiskInv, OnMap, IInv, RequestsTyped
  <1>2. CASE Register(x)
    <2>1. /\ \A i \in DOMAIN vectors : i \in DOMAIN vectors' /\ vectors'[i] = vectors[i]
          /\ Len(vectors') = Len(vectors) + 1 /\ vectors'[Len(vectors')] = x /\ Index(vectors')
      BY <1>2, AddKeeps DEF Register, IInv, IndexInv
    <2>2. Len(vectors') \in DOMAIN vectors'
      BY <2>1, LenProperties DEF Index, IInv, IndexInv
    <2>3. /\ DOMAIN owner' = DOMAIN owner \cup {Len(vectors')}
          /\ \A i \in DOMAIN owner' : owner'[i] = IF i = Len(vectors') THEN x ELSE owner[i]
      BY <1>2 DEF Register, Add
    <2>4. Len(vectors') \notin DOMAIN vectors
      BY <2>1, LenProperties DEF Index, IInv, IndexInv
    <2>5. \A i \in DOMAIN owner' : i \in DOMAIN vectors' /\ owner'[i] = vectors'[i]
      BY <2>1, <2>2, <2>3 DEF DiskInv
    <2>6. \A r \in Registrations : OnMap(owner, r) \/ r = x => OnMap(owner', r)
      BY <2>3, <2>4 DEF DiskInv, OnMap
    <2>7. /\ saving = Nobody /\ UNCHANGED <<diskVectors, diskOwner, participant, saving, stage, torn>>
          /\ UNCHANGED <<api, faults>> /\ api = "up"
          /\ \A r \in Registrations : reg'[r] = IF r = x THEN "flush" ELSE reg[r]
      BY <1>2 DEF Register, LoopFree, disk, save, postgres, IInv, RequestsTyped
    <2> QED BY <2>1, <2>3, <2>5, <2>6, <2>7 DEF DiskInv
  <1>3. CASE Flushed(x)
    <2>1. /\ UNCHANGED <<vectors, owner, diskVectors, diskOwner, participant, reg, api, faults>>
          /\ saving' = x /\ stage' = "index" /\ reg[x] = "flush" /\ api = "up"
          /\ saving = Nobody /\ torn' = torn \cup {"index"}
      BY <1>3 DEF Flushed, LoopFree, BeginSave, matcher, postgres, requests
    <2>2. torn = {}
      BY <2>1 DEF DiskInv, IInv, FilesInOrder
    <2> QED BY <2>1, <2>2 DEF DiskInv, OnMap
  <1>4. CASE SaveStep(x)
    <2>1. /\ UNCHANGED <<vectors, owner, participant, api, faults>> /\ saving = x /\ x # Nobody
      BY <1>4, ConstantsAssumption DEF SaveStep, WriteIndex, OpenMap, WriteMap, matcher, postgres
    <2>2. reg[x] = "flush" /\ OnMap(owner, x) /\ api = "up"
      BY <2>1 DEF DiskInv
    <2>3. \A r \in Registrations : OnMap(diskOwner, r) => OnMap(owner, r)
      BY <2>2 DEF DiskInv, OnMap
    <2>4. CASE WriteIndex(x)
      <3>1. /\ diskVectors' = vectors /\ UNCHANGED <<diskOwner, reg, saving>>
            /\ torn' = torn \ {"index"} /\ stage' = "between" /\ stage = "index"
        BY <2>4 DEF WriteIndex, requests
      <3>2. torn' = {}
        BY <2>2, <3>1 DEF DiskInv
      <3> QED BY <2>1, <2>2, <3>1, <3>2 DEF DiskInv, OnMap
    <2>5. CASE OpenMap(x)
      <3>1. /\ UNCHANGED <<diskVectors, diskOwner, reg, saving>> /\ torn' = torn \cup {"map"}
            /\ stage' = "map" /\ stage = "between"
        BY <2>5 DEF OpenMap, requests
      <3> QED BY <2>1, <2>2, <3>1 DEF DiskInv, OnMap
    <2>6. CASE WriteMap(x)
      <3>1. /\ diskVectors' = diskVectors /\ diskOwner' = owner /\ saving' = Nobody
            /\ torn' = torn \ {"map"} /\ stage = "map" /\ stage' = "none"
            /\ \A r \in Registrations : reg'[r] = IF r = x THEN "commit" ELSE reg[r]
        BY <2>6 DEF WriteMap
      <3>2. torn' = {}
        BY <2>2, <3>1 DEF DiskInv
      <3> QED BY <2>1, <2>2, <2>3, <3>1, <3>2 DEF DiskInv, OnMap
    <2> QED BY <1>4, <2>4, <2>5, <2>6 DEF SaveStep
  <1>5. CASE CommitRegistration(x)
    <2>1. /\ UNCHANGED <<vectors, owner, diskVectors, diskOwner, torn, saving, stage, api, faults>>
          /\ saving = Nobody /\ api = "up" /\ reg[x] = "commit"
          /\ \A r \in Registrations : /\ reg'[r] = IF r = x THEN "done" ELSE reg[r]
                                      /\ participant'[r] = IF r = x THEN "active" ELSE participant[r]
      BY <1>5 DEF CommitRegistration, LoopFree, matcher, disk, save, IInv, RequestsTyped
    <2> QED BY <2>1 DEF DiskInv, OnMap
  <1>6. CASE FailCommit(x)
    <2>1. /\ UNCHANGED <<vectors, owner, diskVectors, diskOwner, torn, participant, saving, stage, api>>
          /\ saving = Nobody /\ api = "up"
          /\ \A r \in Registrations : reg'[r] = IF r = x THEN "failed" ELSE reg[r]
      BY <1>6 DEF FailCommit, LoopFree, matcher, disk, postgres, save, IInv, RequestsTyped
    <2> QED BY <2>1 DEF DiskInv, OnMap
  <1>7. ~FailFlush(x) /\ ~FailSave(x)
    BY DEF FailFlush, FailSave, AbandonSave, Fault, NothingRemoves
  <1> QED BY <1>1, <1>2, <1>3, <1>4, <1>5, <1>6, <1>7 DEF RegistrationStep

\* After a crash the API holds what the files say, or nothing.
LEMMA DiskCrash ==
  ASSUME IInv, DiskInv, Crash
  PROVE  DiskInv'
  <1>1. /\ saving' = Nobody /\ stage' = "none" /\ api = "up"
        /\ UNCHANGED <<diskVectors, diskOwner, torn, participant>>
        /\ \A r \in Registrations : reg'[r] \notin {"flush", "commit"}
    BY DEF Crash, disk, postgres
  <1>2. CASE torn = {}
    <2>1. api' = "up" /\ vectors' = diskVectors /\ owner' = diskOwner
      BY <1>2 DEF Crash
    <2> QED BY <1>1, <1>2, <2>1 DEF DiskInv, OnMap
  <1>3. CASE torn # {}
    <2>1. api' = "down" /\ vectors' = <<>> /\ owner' = NoMap
      BY <1>3 DEF Crash
    <2>2. Fault("torn")
      BY <1>1, <1>3 DEF Crash, DiskInv
    <2>3. faults'["torn"] > 0
      BY <2>2 DEF Fault, FaultKinds, IInv, IndexInv
    <2>4. DOMAIN owner' = {}
      BY <2>1 DEF NoMap
    <2> QED BY <1>1, <2>1, <2>3, <2>4 DEF DiskInv, OnMap
  <1> QED BY <1>2, <1>3

\* Only save() changes what the files hold, and it only adds.
Extended(m, n) == \A i \in DOMAIN m : i \in DOMAIN n /\ n[i] = m[i]
LEMMA FilesGrow ==
  ASSUME NothingRemoves, IInv, DiskInv, [Next]_vars
  PROVE  Extended(diskVectors, diskVectors') /\ Extended(diskOwner, diskOwner')
  <1>1. CASE \E r \in Registrations : WriteIndex(r)
    <2>1. PICK r \in Registrations : WriteIndex(r)
      BY <1>1
    <2>2. diskVectors' = vectors /\ diskOwner' = diskOwner /\ saving # Nobody
      BY <2>1, ConstantsAssumption DEF WriteIndex
    <2> QED BY <2>2 DEF DiskInv, Extended
  <1>2. CASE \E r \in Registrations : WriteMap(r)
    <2>1. PICK r \in Registrations : WriteMap(r)
      BY <1>2
    <2>2. diskOwner' = owner /\ diskVectors' = diskVectors /\ saving # Nobody
      BY <2>1, ConstantsAssumption DEF WriteMap
    <2> QED BY <2>2 DEF DiskInv, Extended
  <1>3. CASE UNCHANGED <<diskVectors, diskOwner>>
    BY <1>3 DEF Extended
  <1>4. ~\E q \in Requests : OptOutStep(q)
    BY DEF NothingRemoves
  <1>5. ASSUME NEW r \in Registrations, RegistrationStep(r), ~WriteIndex(r), ~WriteMap(r)
        PROVE  UNCHANGED <<diskVectors, diskOwner>>
    BY <1>5 DEF RegistrationStep, RejectDuplicate, Register, Flushed, BeginSave, SaveStep, OpenMap,
                CommitRegistration, FailFlush, FailSave, FailCommit, disk
  <1>6. Crash \/ (\E c \in Cameras : Camera(c)) => UNCHANGED disk
    BY DEF Crash, Camera, ReloadIndex, ReloadMap, Die
  <1> QED BY <1>1, <1>2, <1>3, <1>4, <1>5, <1>6 DEF Next, vars, disk

\* What a camera holds is an earlier stage of the files.
CamerasBehind ==
  \A c \in Cameras : Extended(camVectors[c], diskVectors) /\ Extended(camOwner[c], diskOwner)

LEMMA CamerasStayBehind ==
  ASSUME NothingRemoves, IInv, DiskInv, CamerasBehind, [Next]_vars
  PROVE  CamerasBehind'
  <1> SUFFICES ASSUME NEW c \in Cameras
               PROVE  Extended(camVectors'[c], diskVectors') /\ Extended(camOwner'[c], diskOwner')
    BY DEF CamerasBehind
  <1>1. Extended(diskVectors, diskVectors') /\ Extended(diskOwner, diskOwner')
    BY FilesGrow
  <1>2. /\ camVectors'[c] \in {camVectors[c], diskVectors, <<>>}
        /\ camOwner'[c] \in {camOwner[c], diskOwner, NoMap}
    <2>1. CASE UNCHANGED camera
      BY <2>1 DEF camera
    <2>2. CASE \E d \in Cameras : Camera(d)
      BY <2>2 DEF Camera, ReloadIndex, ReloadMap, ReadOwners, Die, IInv, CamerasTyped
    <2>3. ~\E q \in Requests : OptOutStep(q)
      BY DEF NothingRemoves
    <2>4. (\E r \in Registrations : RegistrationStep(r)) \/ Crash => UNCHANGED camera
      BY DEF RegistrationStep, RejectDuplicate, Register, Flushed, SaveStep, WriteIndex, OpenMap,
             WriteMap, CommitRegistration, FailFlush, FailSave, FailCommit, Crash
    <2> QED BY <2>1, <2>2, <2>3, <2>4 DEF Next, vars
  <1>3. DOMAIN NoMap = {} /\ DOMAIN <<>> = {}
    BY DEF NoMap
  <1> QED BY <1>1, <1>2, <1>3 DEF CamerasBehind, Extended

LEMMA DurableInductive ==
  ASSUME NothingRemoves
  PROVE  Spec => [](IInv /\ DiskInv /\ CamerasBehind)
  <1>1. Init => IInv /\ DiskInv /\ CamerasBehind
    BY InitInv DEF Init, DiskInv, NoMap, CamerasBehind, Extended
  <1>2. ASSUME IInv, DiskInv, CamerasBehind, [Next]_vars PROVE IInv' /\ DiskInv' /\ CamerasBehind'
    <2>1. IInv'
      BY <1>2, StepInv
    <2>2. CASE \E r \in Registrations : RegistrationStep(r)
      BY <1>2, <2>1, <2>2, DiskRegistration, CamerasStayBehind
    <2>3. CASE Crash
      BY <1>2, <2>1, <2>3, DiskCrash, CamerasStayBehind
    <2>4. CASE UNCHANGED <<matcher, api, disk, postgres, requests, save, faults>>
      <3>1. DiskInv'
        BY <1>2, <2>4 DEF matcher, disk, postgres, requests, save, DiskInv, OnMap
      <3> QED BY <1>2, <2>1, <3>1, CamerasStayBehind
    <2>5. ~\E q \in Requests : OptOutStep(q)
      BY DEF NothingRemoves
    <2> QED BY <1>2, <2>2, <2>3, <2>4, <2>5 DEF Next, Camera, ReloadIndex, ReloadMap, Die, vars
  <1> QED BY <1>1, <1>2, PTL DEF Spec

\* A registration that was committed can be recognised from the files whenever both are whole,
\* whatever else was registering, whichever commits failed and whenever the API died; and outside
\* of save() both are whole unless a crash fell into the writing of one.  (As long as there are no
\* requests that remove vectors, and no failures that roll back, which take somebody else's.)
THEOREM CommittedStaysOnDisk ==
  ASSUME NothingRemoves
  PROVE  Spec => []CommittedIsOnDisk
  <1>1. ASSUME IInv, DiskInv PROVE CommittedIsOnDisk
    <2>1. ASSUME NEW r \in Registrations, participant[r] = "active" PROVE OnDisk(r)
      BY <1>1, <2>1 DEF DiskInv, OnMap, OnDisk
    <2>2. torn # {} => saving # Nobody \/ faults["torn"] > 0
      BY <1>1 DEF IInv, FilesInOrder, DiskInv
    <2> QED BY <2>1, <2>2 DEF CommittedIsOnDisk
  <1> QED BY <1>1, DurableInductive, PTL

\* Under the same conditions no camera gives a face somebody else's name, whatever it reads
\* between the writes of the two files.
THEOREM NobodyMistaken ==
  ASSUME NothingRemoves
  PROVE  Spec => []CamerasNameRight
  <1>1. IInv /\ DiskInv /\ CamerasBehind => CamerasNameRight
    BY DEF DiskInv, CamerasBehind, Extended, CamerasNameRight
  <1> QED BY <1>1, DurableInductive, PTL
=============================================================================

------------------------- MODULE PairingRecordsProofs -------------------------
(***************************************************************************)
(* Proofs about PairingRecords for any texts, edits and commits.           *)
(***************************************************************************)
EXTENDS PairingRecords, TLAPS

--------------------------------------------------------------------------------
(* Planes *)

\* The three kinds of content a file may have exclude each other.
LEMMA Kinds ==
    /\ Absent \notin Texts /\ Torn \notin Texts
    /\ Absent \notin Records /\ Torn \notin Records /\ Absent # Torn
  BY DEF Absent, Torn, Texts, Records

LEMMA BlobTypes ==
    ASSUME NEW plane \in Planes
    PROVE  Blobs(plane) \subseteq Texts
  BY DEF Planes, Blobs, Present, Sides, Files

\* A plane in which one file was replaced by a content it may have.
LEMMA PlaneUpdate ==
    ASSUME NEW plane \in Planes, NEW f \in Files, NEW content,
           f \in Sides => content \in Texts \union {Absent},
           f = "meta" => content \in Records \union {Absent, Torn}
    PROVE  [plane EXCEPT ![f] = content] \in Planes
  BY DEF Planes, Files, Sides

LEMMA RecordType ==
    ASSUME NEW md \in Texts, NEW zh \in Texts
    PROVE  Record(md, zh) \in Records /\ Record(md, zh).md = md /\ Record(md, zh).zh = zh
  BY DEF Record, Records

\* A side that is there holds a text.
LEMMA SideTypes ==
    ASSUME NEW plane \in Planes, NEW s \in Sides
    PROVE  /\ plane[s] \in Texts \union {Absent}
           /\ plane[s] # Absent => plane[s] \in Blobs(plane)
           /\ Other(s) \in Sides /\ Other(s) # s /\ s # "meta"
  BY DEF Planes, Sides, Files, Other, Blobs, Present

--------------------------------------------------------------------------------
(* Types *)

LEMMA TypeInit == Init => TypeOK
  <1> SUFFICES ASSUME Init PROVE TypeOK
    OBVIOUS
  <1>1. head \in Planes
    <2>1. None \in Planes
      BY DEF None, Planes, Files, Sides
    <2>2. ASSUME NEW md \in Texts, NEW zh \in Texts
          PROVE  [None EXCEPT !["md"] = md, !["zh"] = zh, !["meta"] = Record(md, zh)] \in Planes
      BY RecordType DEF None, Planes, Files, Sides
    <2> QED
      BY <2>1, <2>2 DEF Init
  <1>2. FilesOK
    BY <1>1 DEF Init, FilesOK
  <1>3. ObjectsOK
    <2>1. Blobs(head) \subseteq Texts
      BY <1>1, BlobTypes
    <2>2. index = head /\ parent = {} /\ objects = Blobs(head) /\ pins = {} /\ confirmed = {}
      BY DEF Init
    <2>3. Blobs(index) = Blobs(head)
      BY <2>2
    <2>4. parent \subseteq Texts /\ objects \subseteq Texts /\ confirmed \subseteq Texts
      BY <2>1, <2>2
    <2>5. pins \union Blobs(index) \union Blobs(head) \union parent \subseteq objects
      <3> DEFINE blobs == Blobs(head)
      <3> HIDE DEF blobs
      <3>1. Blobs(index) = blobs /\ Blobs(head) = blobs /\ objects = blobs
        BY <2>2, <2>3 DEF blobs
      <3> QED
        BY <2>2, <3>1, Zenon
    <2> QED
      BY <2>4, <2>5 DEF ObjectsOK
  <1>4. RecordOK
    BY DEF Init, RecordOK, NoRecording, Sides
  <1>5. BriefOK
    BY DEF Init, BriefOK, NoBrief, Sides
  <1>6. CountersOK
    <2>1. edits = 0 /\ commits = 0 /\ rewritten = FALSE /\ late = FALSE
      BY DEF Init
    <2>2. 0 \in 0..MaxEdits /\ 0 \in 0..MaxCommits
      BY RecordsAssumption
    <2> QED
      BY <2>1, <2>2 DEF CountersOK
  <1> QED
    BY <1>2, <1>3, <1>4, <1>5, <1>6 DEF TypeOK

\* A run of `record` that ends, or goes on with what it read, is well formed.
LEMMA RecordMoves ==
    ASSUME RecordOK
    PROVE  /\ RecordEnds => RecordOK'
           /\ \A at \in {"store", "pin", "write", "torn"}, s \in Sides :
                record.at \notin {"idle", "zh"} /\ RecordGoes(at, s) =>
                    RecordOK' /\ record'.at = at /\ record'.side = s
                    /\ record'.md = record.md /\ record'.zh = record.zh
  <1>1. RecordEnds => RecordOK'
    BY DEF RecordEnds, RecordOK, NoRecording, Sides
  <1>2. ASSUME NEW at \in {"store", "pin", "write", "torn"}, NEW s \in Sides,
               record.at \notin {"idle", "zh"}, RecordGoes(at, s)
        PROVE  RecordOK' /\ record'.at = at /\ record'.side = s
               /\ record'.md = record.md /\ record'.zh = record.zh
    BY <1>2 DEF RecordGoes, RecordOK
  <1> QED
    BY <1>1, <1>2

\* The text of the side being stored.
LEMMA StoredText ==
    ASSUME RecordOK, record.at \notin {"idle", "zh"}
    PROVE  record[record.side] \in {record.md, record.zh} /\ record[record.side] \in Texts
  BY DEF RecordOK, Sides

LEMMA TypeRecord ==
    ASSUME TypeOK, ReadSide \/ Store \/ Pin \/ WriteRecord
    PROVE  TypeOK'
  <1> USE DEF TypeOK
  <1>1. BriefOK' /\ CountersOK'
    BY DEF BriefOK, CountersOK, ReadSide, Store, Pin, WriteRecord, git
  <1>2. CASE ReadSide
    <2>1. work["md"] \in Texts \union {Absent} /\ work["zh"] \in Texts \union {Absent}
      BY SideTypes DEF FilesOK, Sides
    <2>2. RecordOK'
      BY <1>2, <2>1, RecordMoves DEF ReadSide, RecordOK
    <2> QED
      BY <1>1, <1>2, <2>2 DEF ReadSide, FilesOK, ObjectsOK, git, Blobs, Present
  <1>3. CASE Store
    <2>1. record.at = "store" /\ record.side \in Sides /\ record[record.side] \in Texts
      BY <1>3, StoredText DEF Store, RecordOK
    <2>2. RecordOK'
      BY <1>3, <2>1, RecordMoves DEF Store
    <2>3. ObjectsOK'
      BY <1>3, <2>1 DEF Store, ObjectsOK, git, Blobs, Present
    <2> QED
      BY <1>1, <1>3, <2>2, <2>3 DEF Store, FilesOK, git
  <1>4. CASE Pin
    <2>1. record.at = "pin" /\ record.side \in Sides
      BY <1>4 DEF Pin, RecordOK
    <2>2. RecordOK'
      BY <1>4, <2>1, RecordMoves DEF Pin, AfterPin, Sides
    <2>3. ObjectsOK'
      BY <1>4 DEF Pin, ObjectsOK, git, Blobs, Present
    <2> QED
      BY <1>1, <1>4, <2>2, <2>3 DEF Pin, FilesOK, git
  <1>5. CASE WriteRecord
    <2>1. record.at \in {"write", "torn"} /\ record.md \in Texts /\ record.zh \in Texts
      BY <1>5 DEF WriteRecord, RecordOK
    <2>2. RecordOK'
      BY <1>5, <2>1, RecordMoves DEF WriteRecord, Recorded, Sides
    <2>3. work' \in Planes
      <3> DEFINE new == Record(record.md, record.zh)
      <3>1. new \in Records /\ work \in Planes
        BY <2>1, RecordType DEF FilesOK
      <3>2. [work EXCEPT !["meta"] = Torn] \in Planes
        BY <3>1, PlaneUpdate DEF Files, Sides
      <3>3. [work EXCEPT !["meta"] = IF work["meta"] = Torn THEN new ELSE work["meta"]] \in Planes
        <4>1. work["meta"] \in Records \union {Absent, Torn}
          BY <3>1 DEF Planes
        <4> HIDE DEF new
        <4> QED BY <3>1, <4>1, PlaneUpdate DEF Files, Sides
      <3> QED
        BY <1>5, <3>1, <3>2, <3>3 DEF WriteRecord
    <2>4. ObjectsOK'
      <3>1. confirmed' \subseteq Texts
        BY <1>5, <2>1 DEF WriteRecord, Recorded, ObjectsOK
      <3> QED
        BY <1>5, <3>1 DEF WriteRecord, ObjectsOK, git, Blobs, Present
    <2> QED
      BY <1>1, <1>5, <2>2, <2>3, <2>4 DEF WriteRecord, FilesOK, git
  <1> QED
    BY <1>2, <1>3, <1>4, <1>5

\* An update is a text of its own shape.
LEMMA UpdateType ==
    ASSUME NEW last \in Texts, NEW current \in Texts, NEW target \in Texts
    PROVE  /\ MechanicalUpdate(last, current, target) \in Texts \union {NoUpdate}
           /\ MechanicalUpdate(last, current, target) # NoUpdate =>
                /\ target.code = last.code
                /\ MechanicalUpdate(last, current, target).prose = target.prose
  <1>1. [target EXCEPT !.code = current.code] \in Texts
    BY DEF Texts
  <1>2. [target EXCEPT !.code = current.code].prose = target.prose
    BY DEF Texts
  <1> QED
    BY <1>1, <1>2 DEF MechanicalUpdate

LEMMA TypeBrief ==
    ASSUME TypeOK, BriefLoads \/ BriefReads \/ BriefApplies
    PROVE  TypeOK'
  <1> USE DEF TypeOK
  <1>1. RecordOK' /\ ObjectsOK'
    BY DEF RecordOK, ObjectsOK, BriefLoads, BriefReads, BriefApplies, git, Blobs, Present
  <1>2. CountersOK'
    BY DEF CountersOK, BriefLoads, BriefReads, BriefApplies, git
  <1>3. CASE BriefLoads
    <2>1. work["meta"] \in Records
      <3>1. work["meta"] # Absent /\ work["meta"] # Torn
        BY <1>3 DEF BriefLoads, Present, Files
      <3> QED
        BY <3>1 DEF FilesOK, Planes
    <2>2. \A s \in Sides : work["meta"][s] \in Texts
      BY <2>1 DEF Records, Sides
    <2>3. BriefOK'
      <3>1. PICK s \in Sides :
              brief' = [NoBrief EXCEPT !.at = "source", !.side = s, !.last = work["meta"][s]]
        BY <1>3 DEF BriefLoads
      <3> QED
        BY <2>2, <3>1 DEF BriefOK, NoBrief
    <2> QED
      BY <1>1, <1>2, <1>3, <2>3 DEF BriefLoads, FilesOK, git
  <1>4. CASE BriefReads
    <2>1. brief.side \in Sides
      BY DEF BriefOK
    <2>2. /\ work[brief.side] \in Texts \union {Absent}
          /\ work[Other(brief.side)] \in Texts \union {Absent}
      BY <2>1, SideTypes DEF FilesOK
    <2>3. BriefOK'
      <3>1. ASSUME NEW text \in Texts, brief.at = "source",
                   brief' = [brief EXCEPT !.at = "counterpart", !.source = text]
            PROVE  BriefOK'
        BY <3>1 DEF BriefOK
      <3>2. ASSUME NEW text \in Texts, brief.at = "counterpart",
                   brief' = [brief EXCEPT !.at = "apply", !.counterpart = text]
            PROVE  BriefOK'
        BY <3>2 DEF BriefOK
      <3>3. brief' = NoBrief => BriefOK'
        BY DEF BriefOK, NoBrief, Sides
      <3> QED
        BY <1>4, <2>2, <3>1, <3>2, <3>3 DEF BriefReads
    <2> QED
      BY <1>1, <1>2, <1>4, <2>3 DEF BriefReads, FilesOK, git
  <1>5. CASE BriefApplies
    <2>1. BriefOK'
      BY <1>5 DEF BriefApplies, BriefOK, NoBrief, Sides
    <2>2. Applies => Result \in Texts
      BY <1>5, UpdateType DEF BriefApplies, BriefOK, Applies, Result
    <2>3. Other(brief.side) \in Sides /\ Other(brief.side) \in Files /\ Other(brief.side) # "meta"
      BY DEF BriefOK, Other, Sides, Files
    <2>4. work' \in Planes
      BY <1>5, <2>2, <2>3, PlaneUpdate DEF BriefApplies, FilesOK
    <2> QED
      BY <1>1, <1>2, <1>5, <2>1, <2>4 DEF BriefApplies, FilesOK, git
  <1> QED
    BY <1>3, <1>4, <1>5

\* What an index entry, a commit or a garbage collection does to the refs.
LEMMA TypeRefs ==
    ASSUME TypeOK, Stage \/ Commit \/ Amend \/ CollectGarbage
    PROVE  FilesOK' /\ ObjectsOK'
  <1> USE DEF TypeOK
  <1>1. Blobs(index) \subseteq Texts /\ Blobs(head) \subseteq Texts
    BY BlobTypes DEF FilesOK
  <1>2. CASE Stage
    <2>1. index' \in Planes
      <3>1. PICK files \in SUBSET Files :
              index' = [f \in Files |-> IF f \in files THEN work[f] ELSE index[f]]
        BY <1>2 DEF Stage
      <3>2. DOMAIN index' = Files /\ \A f \in Files : index'[f] \in {work[f], index[f]}
        BY <3>1
      <3>3. \A f \in Files : index'[f] \in Texts \union Records \union {Absent, Torn}
        BY <3>2 DEF FilesOK, Planes
      <3>4. (\A s \in Sides : index'[s] \in Texts \union {Absent})
            /\ index'["meta"] \in Records \union {Absent, Torn}
        BY <3>2 DEF FilesOK, Planes, Files
      <3>5. index' \in [Files -> Texts \union Records \union {Absent, Torn}]
        BY <3>1, <3>3
      <3> QED
        BY <3>4, <3>5 DEF Planes
    <2>2. Blobs(index') \subseteq Texts /\ Blobs(index)' = Blobs(index')
      BY <2>1, BlobTypes DEF Blobs, Present
    <2>3. Blobs(head)' = Blobs(head)
      BY <1>2 DEF Stage, Blobs, Present
    <2>4. objects' = objects \union Blobs(index') /\ UNCHANGED <<work, head, parent, pins, confirmed>>
      BY <1>2 DEF Stage
    <2>5. ObjectsOK'
      <3> HIDE DEF Blobs
      <3> QED BY <2>2, <2>3, <2>4 DEF ObjectsOK
    <2> QED
      BY <2>1, <2>4, <2>5 DEF FilesOK
  <1>3. CASE Commit \/ Amend
    <2>1. head' = index /\ UNCHANGED <<work, index, objects, pins, confirmed>>
      BY <1>3 DEF Commit, Amend, Committing
    <2>2. parent' = parent \/ parent' = parent \union Blobs(head)
      BY <1>3 DEF Commit, Amend
    <2>3. Blobs(head)' = Blobs(index) /\ Blobs(index)' = Blobs(index)
      BY <2>1 DEF Blobs, Present
    <2>4. ObjectsOK'
      <3> HIDE DEF Blobs
      <3> QED BY <1>1, <2>1, <2>2, <2>3 DEF ObjectsOK
    <2> QED
      BY <2>1, <2>4 DEF FilesOK
  <1>4. CASE CollectGarbage
    <2>1. /\ objects' = objects \intersect (pins \union parent \union Blobs(head) \union Blobs(index))
          /\ UNCHANGED <<work, index, head, parent, pins>> /\ confirmed' = confirmed
      BY <1>4 DEF CollectGarbage, git
    <2>2. Blobs(head)' = Blobs(head) /\ Blobs(index)' = Blobs(index)
      BY <2>1 DEF Blobs, Present
    <2>3. ObjectsOK'
      <3> HIDE DEF Blobs
      <3> QED BY <2>1, <2>2 DEF ObjectsOK
    <2> QED
      BY <2>1, <2>3 DEF FilesOK
  <1> QED
    BY <1>2, <1>3, <1>4

LEMMA TypePeople ==
    ASSUME TypeOK, Edits \/ Stage \/ Commit \/ Amend \/ CollectGarbage \/ Kill
    PROVE  TypeOK'
  <1> USE DEF TypeOK
  <1>1. CASE Edits
    <2>1. PICK f \in Files, content \in Texts \union Records \union {Absent, Torn} :
            /\ Edit(f, content)
            /\ f \in Sides => content \in Texts \union {Absent}
            /\ f = "meta" => content \in Records \union {Absent, Torn}
      <3>1. \A f \in Files : (f \in Sides => head[f] \in Texts \union {Absent})
                             /\ (f = "meta" => head[f] \in Records \union {Absent, Torn})
        BY DEF FilesOK, Planes
      <3>2. Sides \subseteq Files /\ "meta" \notin Sides
        BY DEF Files, Sides
      <3>3. CASE \E s \in Sides, t \in Texts : Edit(s, t)
        BY <3>2, <3>3
      <3>4. ASSUME NEW f \in Files, Edit(f, Absent) \/ Edit(f, head[f])
            PROVE  \E content \in Texts \union Records \union {Absent, Torn} :
                     /\ Edit(f, content)
                     /\ f \in Sides => content \in Texts \union {Absent}
                     /\ f = "meta" => content \in Records \union {Absent, Torn}
        <4>1. CASE Edit(f, Absent)
          BY <4>1
        <4>2. CASE Edit(f, head[f])
          <5>1. head[f] \in Texts \union Records \union {Absent, Torn}
            BY DEF FilesOK, Planes
          <5> QED
            BY <4>2, <5>1, <3>1
        <4> QED
          BY <3>4, <4>1, <4>2
      <3> QED
        BY <1>1, <3>3, <3>4 DEF Edits
    <2>2. work' \in Planes
      BY <2>1, PlaneUpdate DEF Edit, FilesOK
    <2>3. edits' \in 0..MaxEdits
      BY <2>1, RecordsAssumption DEF Edit, CountersOK
    <2>4. late' \in BOOLEAN
      BY <2>1 DEF Edit, CountersOK
    <2>5. UNCHANGED <<git, objects, pins, record, brief, confirmed>>
      BY <2>1 DEF Edit
    <2> QED
      BY <2>2, <2>3, <2>4, <2>5
         DEF FilesOK, ObjectsOK, RecordOK, BriefOK, CountersOK, git, Blobs, Present
  <1>2. CASE Stage \/ CollectGarbage
    <2>1. UNCHANGED <<record, brief, edits, commits, rewritten, late>>
      BY <1>2 DEF Stage, CollectGarbage, git
    <2> QED
      BY <1>2, <2>1, TypeRefs DEF RecordOK, BriefOK, CountersOK
  <1>3. CASE Commit \/ Amend
    <2>1. UNCHANGED <<record, brief, edits, late>>
      BY <1>3 DEF Commit, Amend, Committing
    <2>2. commits' \in 0..MaxCommits
      BY <1>3, RecordsAssumption DEF Commit, Amend, Committing, CountersOK
    <2>3. rewritten' = rewritten \/ rewritten' = TRUE
      BY <1>3 DEF Commit, Amend
    <2>4. CountersOK'
      BY <2>1, <2>2, <2>3 DEF CountersOK
    <2> QED
      BY <1>3, <2>1, <2>4, TypeRefs DEF RecordOK, BriefOK, CountersOK
  <1>4. CASE Kill
    <2>1. UNCHANGED <<work, git, objects, pins, edits, confirmed, late>>
      BY <1>4 DEF Kill
    <2>2. RecordOK'
      BY <1>4, RecordMoves DEF Kill, RecordOK
    <2>3. BriefOK'
      BY <1>4 DEF Kill, BriefOK, NoBrief, Sides
    <2> QED
      BY <2>1, <2>2, <2>3 DEF FilesOK, ObjectsOK, CountersOK, git, Blobs, Present
  <1> QED
    BY <1>1, <1>2, <1>3, <1>4

LEMMA TypeStep == TypeOK /\ [Next]_vars => TypeOK'
  <1> SUFFICES ASSUME TypeOK, [Next]_vars PROVE TypeOK'
    OBVIOUS
  <1>1. CASE UNCHANGED vars
    BY <1>1 DEF vars, git, TypeOK, FilesOK, ObjectsOK, RecordOK, BriefOK, CountersOK, Blobs, Present
  <1> QED
    BY <1>1, TypeRecord, TypeBrief, TypePeople DEF Next

\* Every file, ref, object and command keeps its type, and no ref ever points
\* to an object that garbage collection took.
THEOREM TypeCorrect == Spec => []TypeOK
  BY TypeInit, TypeStep, PTL DEF Spec

--------------------------------------------------------------------------------
(* Recovery and edits *)

LEMMA InvariantInit == Init => RecordsInvariant
  <1> SUFFICES ASSUME Init PROVE RecordsInvariant
    OBVIOUS
  <1>1. TypeOK
    BY TypeInit
  <1>2. ConfirmedArePinned
    BY DEF Init, ConfirmedArePinned, NoRecording
  <1>3. CloneRecovers
    <2> SUFFICES ASSUME head["meta"] \in Records
                 PROVE  {head["meta"].md, head["meta"].zh} \subseteq Blobs(head)
      BY DEF CloneRecovers
    <2>1. head # None
      BY Kinds DEF None, Files
    <2>2. PICK md \in Texts, zh \in Texts :
            head = [None EXCEPT !["md"] = md, !["zh"] = zh, !["meta"] = Record(md, zh)]
      BY <2>1 DEF Init
    <2>3. head["md"] = md /\ head["zh"] = zh /\ head["meta"] = Record(md, zh)
      BY <2>2 DEF None, Files, Sides
    <2>4. md \in Blobs(head) /\ zh \in Blobs(head)
      BY <2>3, Kinds DEF Blobs, Present, Sides, Files
    <2> QED
      BY <2>3, <2>4, RecordType
  <1>4. CounterpartIsSeen
    BY DEF Init, CounterpartIsSeen, NoBrief
  <1> QED
    BY <1>1, <1>2, <1>3, <1>4 DEF RecordsInvariant

\* Refs are never deleted, and only a run that pinned both sides confirms them.
LEMMA PinsStep ==
    ASSUME TypeOK, ConfirmedArePinned, [Next]_vars
    PROVE  ConfirmedArePinned'
  <1> USE DEF ConfirmedArePinned
  <1>1. CASE ReadSide
    <2>1. record.side = "md" /\ UNCHANGED <<pins, confirmed>>
      BY <1>1 DEF ReadSide
    <2>2. \/ record' = [record EXCEPT !.at = "zh", !.md = work["md"]]
          \/ record' = [record EXCEPT !.at = "store", !.zh = work["zh"]]
          \/ record' = NoRecording
      BY <1>1 DEF ReadSide, RecordEnds
    <2>3. \/ record'.at \in {"idle", "zh"} /\ record'.side = "md"
          \/ record'.at = "store" /\ record'.side = "md"
      <3>1. ASSUME NEW text, record' = [record EXCEPT !.at = "zh", !.md = text]
            PROVE  record'.at = "zh" /\ record'.side = record.side
        BY <3>1 DEF TypeOK, RecordOK
      <3>2. ASSUME NEW text, record' = [record EXCEPT !.at = "store", !.zh = text]
            PROVE  record'.at = "store" /\ record'.side = record.side
        BY <3>2 DEF TypeOK, RecordOK
      <3>3. record' = NoRecording => record'.at = "idle" /\ record'.side = "md"
        BY DEF NoRecording
      <3> HIDE DEF ConfirmedArePinned
      <3>4. CASE record' = [record EXCEPT !.at = "zh", !.md = work["md"]]
        BY <2>1, <3>1, <3>4
      <3>5. CASE record' = [record EXCEPT !.at = "store", !.zh = work["zh"]]
        BY <2>1, <3>2, <3>5
      <3> QED
        BY <2>2, <3>3, <3>4, <3>5
    <2> QED
      BY <2>1, <2>3
  <1>2. CASE Store
    BY <1>2 DEF Store, RecordGoes, TypeOK, RecordOK
  <1>3. CASE Pin
    <2>1. record.at = "pin" /\ UNCHANGED confirmed /\ pins \subseteq pins' /\ record.side \in Sides
      BY <1>3 DEF Pin, TypeOK, RecordOK
    <2>2. CASE RecordEnds
      BY <2>1, <2>2 DEF RecordEnds, NoRecording
    <2>3. CASE AfterPin /\ pins' = pins \union {record[record.side]}
      <3>1. CASE record.side = "md"
        BY <2>1, <2>3, <3>1, RecordMoves DEF AfterPin, Sides, TypeOK
      <3>2. CASE record.side = "zh"
        BY <2>1, <2>3, <3>2, RecordMoves DEF AfterPin, Sides, TypeOK
      <3> QED
        BY <2>1, <3>1, <3>2 DEF Sides
    <2> QED
      BY <1>3, <2>2, <2>3 DEF Pin
  <1>4. CASE WriteRecord
    <2>1. record.at \in {"write", "torn"} /\ UNCHANGED pins
      BY <1>4 DEF WriteRecord
    <2>2. CASE Recorded
      BY <2>1, <2>2 DEF Recorded, RecordEnds, NoRecording
    <2>3. CASE RecordGoes("torn", "zh") /\ UNCHANGED confirmed
      BY <2>1, <2>3, RecordMoves DEF Sides, TypeOK
    <2> QED
      BY <1>4, <2>2, <2>3 DEF WriteRecord
  <1>5. CASE Kill
    BY <1>5 DEF Kill, RecordEnds, NoRecording
  <1>6. CASE UNCHANGED <<record, pins, confirmed>>
    BY <1>6
  <1>7. CASE BriefLoads \/ BriefReads \/ BriefApplies
    BY <1>6, <1>7 DEF BriefLoads, BriefReads, BriefApplies
  <1>8. CASE Edits \/ Stage \/ Commit \/ Amend \/ CollectGarbage
    BY <1>6, <1>8 DEF Edits, Edit, Stage, Commit, Amend, Committing, CollectGarbage
  <1> QED
    BY <1>1, <1>2, <1>3, <1>4, <1>5, <1>6, <1>7, <1>8 DEF Next, vars

\* A commit takes a sidecar the hook verified, or one whose texts the history
\* already holds; the texts of the previous commit become ancestors.
LEMMA CloneStep ==
    ASSUME TypeOK, CloneRecovers, [Next]_vars
    PROVE  CloneRecovers'
  <1>1. CASE Commit
    <2>1. /\ head' = index /\ parent' = parent \union Blobs(head) /\ rewritten' = rewritten
          /\ HookAccepts /\ index' = index
      BY <1>1 DEF Commit, Committing
    <2>2. Blobs(head)' = Blobs(index)
      BY <2>1 DEF Blobs, Present
    <2> SUFFICES ASSUME ~rewritten, index["meta"] \in Records
                 PROVE  {index["meta"].md, index["meta"].zh} \subseteq parent' \union Blobs(index)
      BY <2>1, <2>2 DEF CloneRecovers
    <2>3. CASE index["meta"] = head["meta"]
      BY <2>1, <2>3 DEF CloneRecovers
    <2>4. CASE Verified(index)
      <3>1. "meta" \in Present(index)
        BY Kinds DEF Present, Files
      <3>2. Present(index) = Files /\ Drifted(index) = {}
        BY <2>4, <3>1 DEF Verified
      <3>3. index["md"] = index["meta"].md /\ index["zh"] = index["meta"].zh
        BY <3>2 DEF Drifted, Sides
      <3>4. index["md"] \in Blobs(index) /\ index["zh"] \in Blobs(index)
        BY <3>2 DEF Blobs, Sides, Files
      <3> QED
        BY <3>3, <3>4
    <2> QED
      BY <2>1, <2>3, <2>4, Kinds DEF HookAccepts
  <1>2. CASE Amend
    BY <1>2 DEF Amend, CloneRecovers
  <1>3. CASE UNCHANGED <<head, parent, rewritten>>
    BY <1>3 DEF CloneRecovers, Blobs, Present
  <1>4. CASE ReadSide \/ Store \/ Pin \/ WriteRecord \/ BriefLoads \/ BriefReads \/ BriefApplies
    BY <1>3, <1>4 DEF ReadSide, Store, Pin, WriteRecord, BriefLoads, BriefReads, BriefApplies, git
  <1>5. CASE Edits \/ Stage \/ CollectGarbage \/ Kill
    BY <1>3, <1>5 DEF Edits, Edit, Stage, CollectGarbage, Kill, git
  <1> QED
    BY <1>1, <1>2, <1>3, <1>4, <1>5 DEF Next, vars, git

\* Only an edit of the counterpart separates it from what brief read, and that
\* is what late remembers.
LEMMA CounterpartStep ==
    ASSUME TypeOK, CounterpartIsSeen, [Next]_vars
    PROVE  CounterpartIsSeen'
  <1> USE DEF CounterpartIsSeen
  <1>1. CASE BriefReads
    <2>1. /\ UNCHANGED work /\ brief' # NoBrief /\ brief'.at = "apply" =>
               /\ brief.at = "counterpart"
               /\ brief' = [brief EXCEPT !.at = "apply", !.counterpart = work[Other(brief.side)]]
      BY <1>1 DEF BriefReads, NoBrief, TypeOK, BriefOK
    <2>2. UNCHANGED work
      BY <1>1 DEF BriefReads
    <2>3. brief'.at = "apply" => brief' # NoBrief
      BY DEF NoBrief
    <2> QED
      BY <2>1, <2>2, <2>3 DEF TypeOK, BriefOK
  <1>2. CASE BriefLoads
    BY <1>2 DEF BriefLoads, NoBrief
  <1>3. CASE BriefApplies
    BY <1>3 DEF BriefApplies, NoBrief
  <1>4. CASE Kill
    BY <1>4 DEF Kill, NoBrief
  <1>5. CASE WriteRecord
    <2>1. Other(brief.side) # "meta" /\ Other(brief.side) \in Files
      BY DEF Other, Sides, Files
    <2>2. work'[Other(brief.side)] = work[Other(brief.side)]
      BY <1>5, <2>1 DEF WriteRecord, TypeOK, FilesOK, Planes
    <2> QED
      BY <1>5, <2>2 DEF WriteRecord
  <1>6. CASE Edits
    <2>1. PICK f, content : Edit(f, content)
      BY <1>6 DEF Edits
    <2>2. UNCHANGED brief /\ work' = [work EXCEPT ![f] = content]
          /\ late' = (late \/ (brief.at = "apply" /\ f = Other(brief.side)))
      BY <2>1 DEF Edit
    <2>3. Other(brief.side) \in Files
      BY DEF Other, Files, Sides
    <2>4. f # Other(brief.side) => work'[Other(brief.side)] = work[Other(brief.side)]
      BY <2>2, <2>3 DEF TypeOK, FilesOK, Planes
    <2> QED
      BY <2>2, <2>4
  <1>7. CASE UNCHANGED <<work, brief, late>>
    BY <1>7
  <1>8. CASE ReadSide \/ Store \/ Pin \/ Stage \/ Commit \/ Amend \/ CollectGarbage
    BY <1>7, <1>8 DEF ReadSide, Store, Pin, Stage, Commit, Amend, Committing, CollectGarbage
  <1> QED
    BY <1>1, <1>2, <1>3, <1>4, <1>5, <1>6, <1>7, <1>8 DEF Next, vars

LEMMA InvariantStep == RecordsInvariant /\ [Next]_vars => RecordsInvariant'
  BY TypeStep, PinsStep, CloneStep, CounterpartStep DEF RecordsInvariant

LEMMA InvariantHolds == Spec => []RecordsInvariant
  BY InvariantInit, InvariantStep, PTL DEF Spec

\* The texts a successful record named survive every edit, amend, kill and
\* garbage collection, for any texts and any number of steps.
THEOREM ConfirmedRecoverableHolds == Spec => []ConfirmedStaysRecoverable
  <1>1. RecordsInvariant => ConfirmedStaysRecoverable
    BY DEF RecordsInvariant, ConfirmedArePinned, TypeOK, ObjectsOK, ConfirmedStaysRecoverable
  <1> QED
    BY <1>1, InvariantHolds, PTL

\* Every history without amended commits holds the texts its sidecar names.
THEOREM CloneRecoversHolds == Spec => []CloneRecovers
  <1>1. RecordsInvariant => CloneRecovers
    BY DEF RecordsInvariant
  <1> QED
    BY <1>1, InvariantHolds, PTL

\* brief --apply keeps the prose and any unconfirmed fence of the counterpart,
\* unless it was edited after brief read it.
THEOREM ApplyKeepsEditsHolds == Spec => ApplyKeepsEdits
  <1> DEFINE c == Other(brief.side)
             Keeps == BriefApplies /\ work' # work /\ ~late =>
                        /\ work[c] # Absent
                        /\ work'[c].prose = work[c].prose
                        /\ work[c].code = brief.last.code
  <1>1. ASSUME RecordsInvariant, BriefApplies, work' # work, ~late
        PROVE  /\ work[c] # Absent
               /\ work'[c].prose = work[c].prose
               /\ work[c].code = brief.last.code
    <2>1. brief.at = "apply" /\ Applies /\ work' = [work EXCEPT ![c] = Result]
      BY <1>1 DEF BriefApplies
    <2>2. work[c] = brief.counterpart
      BY <1>1, <2>1 DEF RecordsInvariant, CounterpartIsSeen
    <2>3. {brief.last, brief.source, brief.counterpart} \subseteq Texts
      BY <1>1, <2>1 DEF RecordsInvariant, TypeOK, BriefOK
    <2>4. Result.prose = brief.counterpart.prose /\ brief.counterpart.code = brief.last.code
      BY <2>1, <2>3, UpdateType DEF Applies, Result
    <2>5. work'[c] = Result
      BY <1>1, <2>1 DEF RecordsInvariant, TypeOK, FilesOK, Planes, Other, Files, Sides
    <2> QED
      BY <2>2, <2>3, <2>4, <2>5, Kinds
  <1>2. RecordsInvariant /\ [Next]_vars => [Keeps]_vars
    BY <1>1
  <1> QED
    BY <1>2, InvariantHolds, PTL DEF Spec, ApplyKeepsEdits

================================================================================

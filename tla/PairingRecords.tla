----------------------------- MODULE PairingRecords -----------------------------
(***************************************************************************)
(* One bilingual pair over its life: an English side, a Chinese side and   *)
(* the sidecar that records the two blobs last confirmed consistent        *)
(* (src/hdsh/pairing/verify.py, records.py, git.py, brief.py).             *)
(*                                                                         *)
(* `hdsh pairing record` reads both sides, stores and pins their blobs and *)
(* writes the sidecar; `hdsh pairing brief --apply` splices a code-only    *)
(* change of one side into the other; `hdsh pairing verify --cached` is a  *)
(* commit hook that runs when the sidecar is staged.  Each step of the two *)
(* writers interleaves with edits, staging, commits, amends, garbage       *)
(* collection and kills.                                                   *)
(*                                                                         *)
(* A blob hash is the text itself.                                         *)
(***************************************************************************)
EXTENDS Naturals, FiniteSets

CONSTANTS
    Prose,      \* prose of a side, whatever its language
    ShapeOf,    \* its structure: headings, lists, links, generated regions
    Code,       \* contents of the code fences of a side
    MaxEdits,   \* bound: edits of the working tree
    MaxCommits  \* bound: commits and amends

Sides == {"md", "zh"}
Files == Sides \union {"meta"}
Other(s) == IF s = "md" THEN "zh" ELSE "md"

ASSUME RecordsAssumption ==
    /\ DOMAIN ShapeOf = Prose
    /\ MaxEdits \in Nat /\ MaxCommits \in Nat

Texts  == [kind : {"text"}, prose : Prose, code : Code]
Absent == [kind |-> "absent"]
Torn   == [kind |-> "torn"]         \* a sidecar that does not parse
Record(md, zh) == [kind |-> "record", md |-> md, zh |-> zh]
Records == [kind : {"record"}, md : Texts, zh : Texts]
Planes == {f \in [Files -> Texts \union Records \union {Absent, Torn}] :
               /\ \A s \in Sides : f[s] \in Texts \union {Absent}
               /\ f["meta"] \in Records \union {Absent, Torn}}

VARIABLES
    work, index, head,  \* the pair in the working tree, staged and committed
    parent,             \* texts in the ancestors of head
    objects, pins,      \* texts in the object database, and under a snapshot ref
    record,             \* a run of `record`: where it is and what it read
    brief,              \* a run of `brief --apply`
    edits, commits,
    confirmed,          \* history: texts `record` reported as recorded here
    rewritten,          \* history: a commit was amended
    late                \* history: the counterpart was edited after brief read it

git   == <<index, head, parent, commits, rewritten>>
vars  == <<work, git, objects, pins, record, brief, edits, confirmed, late>>

Present(plane) == {f \in Files : plane[f] # Absent}
Blobs(plane)   == {plane[s] : s \in Sides \intersect Present(plane)}

NoRecording == [at |-> "idle", side |-> "md", md |-> Absent, zh |-> Absent]
NoBrief     == [at |-> "idle", side |-> "md", last |-> Absent, source |-> Absent, counterpart |-> Absent]

None == [f \in Files |-> Absent]

\* A clone: a recorded pair, or none yet.  No snapshot ref is cloned.
Init ==
    /\ \/ head = None
       \/ \E md, zh \in Texts :
            /\ md.code = zh.code /\ ShapeOf[md.prose] = ShapeOf[zh.prose]
            /\ head = [None EXCEPT !["md"] = md, !["zh"] = zh, !["meta"] = Record(md, zh)]
    /\ work = head /\ index = head /\ parent = {}
    /\ objects = Blobs(head) /\ pins = {}
    /\ record = NoRecording /\ brief = NoBrief
    /\ edits = 0 /\ commits = 0
    /\ confirmed = {} /\ rewritten = FALSE /\ late = FALSE

--------------------------------------------------------------------------------
(* The gate. *)

\* The checks on the texts of a complete pair: structure, fences, generated
\* regions, locale of links and language switchers agree.
Conforms(md, zh) == md.code = zh.code /\ ShapeOf[md.prose] = ShapeOf[zh.prose]

\* Mistake (mutation runs only): only the English side is hashed.
DriftedSource(plane) ==
    {s \in {"md"} : plane[s] # plane["meta"][s]}

\* The sides whose bytes are not the recorded ones.
Drifted(plane) ==
    {s \in Sides : plane[s] # plane["meta"][s]}

\* verify on one content plane: an absent pair is fine, a source alone wants a
\* counterpart, any other pair is complete, recorded and conforming.
Verified(plane) ==
    \/ Present(plane) = {}
    \/ /\ Present(plane) = Files
       /\ plane["meta"] # Torn
       /\ Drifted(plane) = {}
       /\ Conforms(plane["md"], plane["zh"])

--------------------------------------------------------------------------------
(* `hdsh pairing record`: every path out ends the run. *)

RecordEnds == record' = NoRecording

RecordGoes(at, s) == record' = [record EXCEPT !.at = at, !.side = s]

\* The sides are read into the content cache, one after the other.
ReadSide ==
    /\ \/ /\ record.at = "idle" /\ brief.at = "idle" /\ work["md"] # Absent
          /\ record' = [record EXCEPT !.at = "zh", !.md = work["md"]]
       \/ /\ record.at = "zh" /\ work["zh"] = Absent
          /\ RecordEnds
       \/ /\ record.at = "zh" /\ work["zh"] # Absent
          /\ record' = [record EXCEPT !.at = "store", !.zh = work["zh"]]
    /\ UNCHANGED <<work, git, objects, pins, brief, edits, confirmed, late>>

\* Mistake (mutation runs only): a sidecar that is current ends the run here.
StoreUnlessCurrent ==
    /\ record.at = "store"
    /\ IF work["meta"] = Record(record.md, record.zh)
       THEN /\ RecordEnds
            /\ confirmed' = confirmed \union {record.md, record.zh}
            /\ UNCHANGED objects
       ELSE /\ objects' = objects \union {record[record.side]}
            /\ RecordGoes("pin", record.side)
            /\ UNCHANGED confirmed
    /\ UNCHANGED <<work, git, pins, brief, edits, late>>

\* store_git_blob: hash-object -w, even when the sidecar is current ...
Store ==
    /\ record.at = "store"
    /\ objects' = objects \union {record[record.side]}
    /\ RecordGoes("pin", record.side)
    /\ UNCHANGED <<work, git, pins, brief, edits, confirmed, late>>

\* English first, then Chinese.
AfterPin == IF record.side = "md" THEN RecordGoes("store", "zh") ELSE RecordGoes("write", "zh")

\* Mistake (mutation runs only): the ref is written whatever became of the object.
PinUnchecked ==
    /\ record.at = "pin"
    /\ pins' = pins \union {record[record.side]} /\ AfterPin
    /\ UNCHANGED <<work, git, objects, brief, edits, confirmed, late>>

\* ... then update-ref, which fails when a garbage collection took the object.
Pin ==
    /\ record.at = "pin"
    /\ IF record[record.side] \in objects
       THEN pins' = pins \union {record[record.side]} /\ AfterPin
       ELSE RecordEnds /\ UNCHANGED pins
    /\ UNCHANGED <<work, git, objects, brief, edits, confirmed, late>>

Recorded ==
    /\ RecordEnds
    /\ confirmed' = confirmed \union {record.md, record.zh}

\* The sidecar is written unless it is current: truncated, then filled; a file
\* that replaced it in between is another one.
WriteRecord ==
    LET new == Record(record.md, record.zh) IN
    /\ \/ /\ record.at = "write" /\ work["meta"] = new
          /\ Recorded /\ UNCHANGED work
       \/ /\ record.at = "write" /\ work["meta"] # new
          /\ work' = [work EXCEPT !["meta"] = Torn]
          /\ RecordGoes("torn", "zh") /\ UNCHANGED confirmed
       \/ /\ record.at = "torn"
          /\ work' = [work EXCEPT !["meta"] = IF @ = Torn THEN new ELSE @]
          /\ Recorded
    /\ UNCHANGED <<git, objects, pins, brief, edits, late>>

--------------------------------------------------------------------------------
(* `hdsh pairing brief --apply`. *)

NoUpdate == Absent

\* Mistake (mutation runs only): fences of the counterpart are not compared.
UpdateOfAnyTarget(confirmedText, current, target) ==
    IF /\ confirmedText.prose = current.prose
       /\ confirmedText.code # current.code
    THEN [target EXCEPT !.code = current.code]
    ELSE NoUpdate

\* compute_mechanical_update: the edited fences go into the counterpart when
\* prose is untouched and the counterpart still has the confirmed fences.
MechanicalUpdate(confirmedText, current, target) ==
    IF /\ confirmedText.prose = current.prose
       /\ target.code = confirmedText.code
       /\ confirmedText.code # current.code
    THEN [target EXCEPT !.code = current.code]
    ELSE NoUpdate

\* _load_pair: a complete, parseable pair whose recorded blobs can be read and
\* of which one side drifted (two give a briefing and no update).
BriefLoads ==
    /\ brief.at = "idle" /\ record.at = "idle"
    /\ Present(work) = Files /\ work["meta"] # Torn
    /\ {work["meta"].md, work["meta"].zh} \subseteq objects
    /\ \E s \in Sides :
         /\ Drifted(work) = {s}
         /\ brief' = [NoBrief EXCEPT !.at = "source", !.side = s, !.last = work["meta"][s]]
    /\ UNCHANGED <<work, git, objects, pins, record, edits, confirmed, late>>

\* _brief_direction reads both sides again; a side that is gone ends the run.
BriefReads ==
    LET counterpart == work[Other(brief.side)] IN
    /\ \/ /\ brief.at = "source"
          /\ brief' = IF work[brief.side] = Absent THEN NoBrief
                      ELSE [brief EXCEPT !.at = "counterpart", !.source = work[brief.side]]
       \/ /\ brief.at = "counterpart"
          /\ brief' = IF counterpart = Absent THEN NoBrief
                      ELSE [brief EXCEPT !.at = "apply", !.counterpart = counterpart]
    /\ late' = FALSE
    /\ UNCHANGED <<work, git, objects, pins, record, edits, confirmed>>

Result == MechanicalUpdate(brief.last, brief.source, brief.counterpart)
Applies == brief.at = "apply" /\ Result # NoUpdate /\ Conforms(brief.source, Result)

\* _plan_scope and _apply_mechanical: the counterpart is replaced.
BriefApplies ==
    /\ brief.at = "apply"
    /\ brief' = NoBrief
    /\ work' = IF Applies THEN [work EXCEPT ![Other(brief.side)] = Result] ELSE work
    /\ UNCHANGED <<git, objects, pins, record, edits, confirmed, late>>

--------------------------------------------------------------------------------
(* People, Git and kills. *)

\* A side is edited, or a file is removed or restored from head.
Edit(f, content) ==
    /\ edits < MaxEdits /\ edits' = edits + 1
    /\ work' = [work EXCEPT ![f] = content] /\ work' # work
    /\ late' = (late \/ (brief.at = "apply" /\ f = Other(brief.side)))
    /\ UNCHANGED <<git, objects, pins, record, brief, confirmed>>

Edits == \/ \E s \in Sides, t \in Texts : Edit(s, t)
         \/ \E f \in Files : Edit(f, Absent) \/ Edit(f, head[f])

\* git add of some files.
Stage ==
    /\ \E files \in SUBSET Files :
         index' = [f \in Files |-> IF f \in files THEN work[f] ELSE index[f]]
    /\ index' # index
    /\ objects' = objects \union Blobs(index')
    /\ UNCHANGED <<work, head, parent, commits, rewritten, pins, record, brief, edits, confirmed, late>>

\* The hook runs when a sidecar is staged and not deleted.
HookAccepts == index["meta"] \in {head["meta"], Absent} \/ Verified(index)

Committing ==
    /\ commits < MaxCommits /\ commits' = commits + 1
    /\ index # head /\ HookAccepts
    /\ head' = index
    /\ UNCHANGED <<work, index, objects, pins, record, brief, edits, confirmed, late>>

Commit == Committing /\ parent' = parent \union Blobs(head) /\ UNCHANGED rewritten
Amend  == Committing /\ head # None /\ UNCHANGED parent /\ rewritten' = TRUE

\* git gc, reflogs expired: what no ref and no index entry reaches is gone.
CollectGarbage ==
    /\ objects' = objects \intersect (pins \union parent \union Blobs(head) \union Blobs(index))
    /\ objects' # objects
    /\ UNCHANGED <<work, git, pins, record, brief, edits, confirmed, late>>

\* A command is killed; what it wrote stays.
Kill ==
    /\ \/ record # NoRecording /\ RecordEnds /\ UNCHANGED brief
       \/ brief # NoBrief /\ brief' = NoBrief /\ UNCHANGED record
    /\ UNCHANGED <<work, git, objects, pins, edits, confirmed, late>>

Next ==
    \/ ReadSide \/ Store \/ Pin \/ WriteRecord
    \/ BriefLoads \/ BriefReads \/ BriefApplies
    \/ Edits \/ Stage \/ Commit \/ Amend \/ CollectGarbage \/ Kill

Spec == Init /\ [][Next]_vars

--------------------------------------------------------------------------------
(* Correctness. *)

FilesOK == work \in Planes /\ index \in Planes /\ head \in Planes

\* Every ref and every index entry points to an object.
ObjectsOK ==
    /\ parent \subseteq Texts /\ objects \subseteq Texts /\ confirmed \subseteq Texts
    /\ pins \union Blobs(index) \union Blobs(head) \union parent \subseteq objects

\* A running command has read what its next steps use.
RecordOK ==
    /\ record \in [at : {"idle", "zh", "store", "pin", "write", "torn"}, side : Sides,
                   md : Texts \union {Absent}, zh : Texts \union {Absent}]
    /\ record.at # "idle" => record.md \in Texts
    /\ record.at \notin {"idle", "zh"} => record.zh \in Texts

BriefOK ==
    /\ brief \in [at : {"idle", "source", "counterpart", "apply"}, side : Sides,
                  last : Texts \union {Absent}, source : Texts \union {Absent},
                  counterpart : Texts \union {Absent}]
    /\ brief.at # "idle" => brief.last \in Texts
    /\ brief.at \in {"counterpart", "apply"} => brief.source \in Texts
    /\ brief.at = "apply" => brief.counterpart \in Texts

CountersOK ==
    /\ edits \in 0..MaxEdits /\ commits \in 0..MaxCommits
    /\ rewritten \in BOOLEAN /\ late \in BOOLEAN

\* Files, the object database and the two commands are well formed together.
TypeOK == FilesOK /\ ObjectsOK /\ RecordOK /\ BriefOK /\ CountersOK

\* The texts a successful `record` named can be read back, whatever is edited,
\* amended, killed or collected afterwards: also when the sidecar was current,
\* and when the texts were never staged (_write_records, store_git_blob).
ConfirmedStaysRecoverable == confirmed \subseteq objects

\* In every clone of a history no commit of which was amended, the recorded
\* texts of the pair are in that history, though commits without the sidecar
\* are not checked and let the sides drift from it (run_gate with --cached).
CloneRecovers ==
    ~rewritten /\ head["meta"] \in Records =>
        {head["meta"].md, head["meta"].zh} \subseteq parent \union Blobs(head)

\* An update applied while people edit keeps the prose the counterpart has by
\* then, and overwrites fences only if they are the confirmed ones: an edit that
\* brief could still see is never lost (_load_pair, _brief_direction).
ApplyKeepsEdits ==
    [][BriefApplies /\ work' # work /\ ~late =>
         LET c == Other(brief.side) IN
         /\ work[c] # Absent
         /\ work'[c].prose = work[c].prose
         /\ work[c].code = brief.last.code]_vars

\* What the proofs add: a side is confirmed only when both are pinned, and the
\* counterpart brief holds is the one in the tree until somebody edits it.
ConfirmedArePinned ==
    /\ confirmed \subseteq pins
    /\ record.at \in {"idle", "zh"} => record.side = "md"
    /\ record.at \in {"store", "pin"} /\ record.side = "zh" => record.md \in pins
    /\ record.at \in {"write", "torn"} => {record.md, record.zh} \subseteq pins

CounterpartIsSeen ==
    brief.at = "apply" /\ ~late => work[Other(brief.side)] = brief.counterpart

RecordsInvariant == TypeOK /\ ConfirmedArePinned /\ CloneRecovers /\ CounterpartIsSeen

================================================================================

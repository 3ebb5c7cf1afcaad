--------------------------- MODULE PairingMergeProofs ---------------------------
(***************************************************************************)
(* Proofs about PairingMerge for any pairs, documents and histories.       *)
(***************************************************************************)
EXTENDS PairingMerge, TLAPS

--------------------------------------------------------------------------------
(* Three-way merges *)

\* A clean merge of documents is a document.
LEMMA TextMergeType ==
    ASSUME NEW b \in Doc, NEW o \in Doc, NEW t \in Doc
    PROVE  TextMerge(b, o, t) \in Doc
  BY DEF TextMerge, Pick, Doc

\* A merge that only one side changed keeps that side.
LEMMA TextMergeTrivial ==
    ASSUME NEW b \in Doc, NEW o \in Doc, NEW t \in Doc, ~Clash(b, o, t)
    PROVE  TextMerge(b, o, t) = Pick(b, o, t)
  <1>1. \A h \in Hunk : Pick(b[h], o[h], t[h]) = Pick(b, o, t)[h]
    BY DEF Clash, Pick
  <1>2. Pick(b, o, t) \in Doc
    BY DEF Pick
  <1> QED
    BY <1>1, <1>2 DEF TextMerge, Doc

\* Generated text that agrees hunk by hunk in all three versions of two languages
\* agrees in their clean merges, although each language may take a hunk from a
\* different side.
LEMMA RegionsMergeAlike ==
    ASSUME NEW be \in Doc, NEW oe \in Doc, NEW te \in Doc,
           NEW bz \in Doc, NEW oz \in Doc, NEW tz \in Doc,
           MergesCleanly(be, oe, te), MergesCleanly(bz, oz, tz),
           SameRegions(be, bz), SameRegions(oe, oz), SameRegions(te, tz)
    PROVE  SameRegions(TextMerge(be, oe, te), TextMerge(bz, oz, tz))
  BY DEF SameRegions, TextMerge, MergesCleanly, Clash, Pick

\* The versions of a pair are typed.
LEMMA VersionTypes ==
    ASSUME TypeOK, NEW p \in Pair
    PROVE  /\ history[p] \in Histories
           /\ \A f \in Owner : /\ Base(p, f) \in Doc \union {Gone}
                               /\ Ours(p, f) \in Doc \union {Gone}
                               /\ Theirs(p, f) \in Doc \union {Gone}
           /\ Base(p, "record") \in Record \union {Marked, Gone}
           /\ Ours(p, "record") \in Record \union {Marked, Gone}
           /\ Theirs(p, "record") \in Record \union {Marked, Gone}
  <1>1. history[p] \in Histories
    BY DEF TypeOK
  <1>2. /\ history[p].base \in Side
        /\ history[p].ours \in Side
        /\ history[p].theirs \in Side
    BY <1>1 DEF Histories
  <1> QED
    BY <1>1, <1>2 DEF Base, Ours, Theirs, Side, Owner

\* What composes is a record of two clean merges.
LEMMA CompositionType ==
    ASSUME NEW p \in Pair, Composes(p)
    PROVE  /\ Composition(p) \in Record
           /\ \A f \in Owner : /\ Base(p, "record")[f] \in Doc
                               /\ Ours(p, "record")[f] \in Doc
                               /\ Theirs(p, "record")[f] \in Doc
                               /\ Composition(p)[f] =
                                    TextMerge(Base(p, "record")[f], Ours(p, "record")[f],
                                              Theirs(p, "record")[f])
  <1>1. \A f \in Owner : /\ Base(p, "record")[f] \in Doc
                         /\ Ours(p, "record")[f] \in Doc
                         /\ Theirs(p, "record")[f] \in Doc
    BY DEF Composes, Record, Owner
  <1>2. \A f \in Owner : TextMerge(Base(p, "record")[f], Ours(p, "record")[f],
                                   Theirs(p, "record")[f]) \in Doc
    BY <1>1, TextMergeType
  <1> QED
    BY <1>1, <1>2 DEF Composition, Record, Owner

\* The text merge of the records is a record or has markers.
LEMMA FallbackType ==
    ASSUME NEW p \in Pair
    PROVE  FallbackRecord(p) \in Record \union {Marked}
  BY DEF FallbackRecord, Pick, Record

\* What Git makes of an owner.
LEMMA OwnerTypes ==
    ASSUME TypeOK, NEW p \in Pair, NEW f \in Owner, NEW m \in MergedOwner(p, f)
    PROVE  m.stage \in Version /\ m.file \in Version \ {Unmerged}
  <1>1. /\ Base(p, f) \in Doc \union {Gone}
        /\ Ours(p, f) \in Doc \union {Gone}
        /\ Theirs(p, f) \in Doc \union {Gone}
    BY VersionTypes
  <1>2. CASE Trivial(p, f)
    BY <1>1, <1>2, ValuesDiffer DEF MergedOwner, Both, Pick, Version
  <1>3. CASE ~Trivial(p, f) /\ Gone \in {Ours(p, f), Theirs(p, f)}
    BY <1>1, <1>3, ValuesDiffer DEF MergedOwner, Conflict, Survivor, Version
  <1>4. CASE ~Trivial(p, f) /\ Gone \notin {Ours(p, f), Theirs(p, f)} /\ ~history[p].text
    BY <1>1, <1>4, ValuesDiffer DEF MergedOwner, Conflict, Both, Version
  <1>5. CASE ~Trivial(p, f) /\ Gone \notin {Ours(p, f), Theirs(p, f)} /\ history[p].text
    <2>1. Base(p, f) # Gone =>
             TextMerge(Base(p, f), Ours(p, f), Theirs(p, f)) \in Doc
      BY <1>1, <1>5, TextMergeType
    <2> QED
      BY <1>5, <2>1, ValuesDiffer DEF MergedOwner, Conflict, Both, Version
  <1> QED
    BY <1>2, <1>3, <1>4, <1>5

\* What Git and the driver make of a sidecar.
LEMMA SidecarTypes ==
    ASSUME TypeOK, NEW p \in Pair, NEW m \in MergedSidecar(p)
    PROVE  m.stage \in Sidecar /\ m.file \in Sidecar \ {Unmerged}
  <1>1. /\ Base(p, "record") \in Record \union {Marked, Gone}
        /\ Ours(p, "record") \in Record \union {Marked, Gone}
        /\ Theirs(p, "record") \in Record \union {Marked, Gone}
    BY VersionTypes
  <1>2. Record \union {Marked, Gone} \subseteq Sidecar \ {Unmerged}
    BY ValuesDiffer DEF Record, Sidecars, Sidecar
  <1>3. Unmerged \in Sidecar
    BY DEF Sidecar
  <1>4. CASE Trivial(p, "record")
    BY <1>1, <1>2, <1>4 DEF MergedSidecar, Both, Pick
  <1>5. CASE ~Trivial(p, "record") /\ Gone \in {Ours(p, "record"), Theirs(p, "record")}
    BY <1>1, <1>2, <1>3, <1>5 DEF MergedSidecar, Conflict, Survivor
  <1>6. CASE ~Trivial(p, "record") /\ Gone \notin {Ours(p, "record"), Theirs(p, "record")}
    <2>1. m \in Driver(p)
      BY <1>6 DEF MergedSidecar
    <2>2. m \in {Conflict(FallbackRecord(p)), Conflict(Ours(p, "record"))}
          \/ (Composes(p) /\ m = Both(Composition(p)))
      BY <2>1 DEF Driver
    <2>3. Composes(p) => Composition(p) \in Record
      BY CompositionType
    <2> QED
      BY <1>1, <1>2, <1>3, <2>2, <2>3, FallbackType DEF Conflict, Both
  <1> QED
    BY <1>4, <1>5, <1>6

--------------------------------------------------------------------------------
(* The invariant: checks *)

\* What a merge is depends on the history only, which no step changes.
LEMMA HistoryStays ==
    ASSUME history' = history
    PROVE  \A p \in Pair :
              /\ Composition(p)' = Composition(p)
              /\ Composes(p)' <=> Composes(p)
              /\ FallbackRecord(p)' = FallbackRecord(p)
              /\ MergedSidecar(p)' = MergedSidecar(p)
              /\ \A f \in Owner : MergedOwner(p, f)' = MergedOwner(p, f)
              /\ Ours(p, "record")' = Ours(p, "record")
              /\ Theirs(p, "record")' = Theirs(p, "record")
  BY DEF Composition, Composes, FallbackRecord, MergedSidecar, MergedOwner, Driver, Trivial,
         Survivor, Base, Ours, Theirs

\* Steps that write no file keep what is said of files.
LEMMA ReadsKeep ==
    ASSUME MergeInvariant, UNCHANGED <<merge, tree, user>>
    PROVE  /\ GitsWorkStays'
           /\ ManualIsNotMarked'
           /\ \A p \in Pair :
                 /\ Composition(p)' = Composition(p)
                 /\ Composes(p)' <=> Composes(p)
                 /\ Unedited(p)' <=> Unedited(p)
                 /\ Names(index[p], Composition(p))' <=> Names(index[p], Composition(p))
                 /\ Names(file[p], Composition(p))' <=> Names(file[p], Composition(p))
  <1>1. /\ history' = history /\ phase' = phase /\ index' = index /\ file' = file
        /\ touched' = touched /\ manual' = manual
    BY DEF merge, tree, user
  <1>2. \A p \in Pair : Unedited(p)' <=> Unedited(p)
    BY <1>1, HistoryStays DEF Unedited
  <1>3. GitsWorkStays'
    BY <1>1, HistoryStays DEF MergeInvariant, GitsWorkStays
  <1> QED
    BY <1>1, <1>2, <1>3, HistoryStays DEF MergeInvariant, ManualIsNotMarked, Names

\* A run starts with nothing found out.
LEMMA StartKeeps ==
    ASSUME MergeInvariant, StartResolve
    PROVE  MergeInvariant'
  <1> USE DEF MergeInvariant, StartResolve
  <1>1. UNCHANGED <<merge, tree, user>>
    OBVIOUS
  <1>2. TypeOK'
    BY DEF TypeOK, merge, tree, user, Step, TakingTurns
  <1>3. TakingTurns' /\ Sorted'
    BY DEF TypeOK, TakingTurns, Sorted, merge, user
  <1>4. FindingsStayTrue'
    BY <1>1, ReadsKeep DEF TypeOK, FindingsStayTrue, TakingTurns
  <1> QED
    BY <1>1, <1>2, <1>3, <1>4, ReadsKeep

\* A refusal leaves the sidecar out of what is composed.
LEMMA RefuseKeeps ==
    ASSUME MergeInvariant, NEW p \in Pair, p \in queue, pc \in {"examine", "staged", "files"},
           Refuse(p), UNCHANGED <<merge, tree, user>>
    PROVE  MergeInvariant'
  <1> USE DEF MergeInvariant, Refuse
  <1>1. TypeOK'
    BY DEF TypeOK, merge, tree, user, Step
  <1>2. TakingTurns' /\ Sorted'
    BY DEF TypeOK, TakingTurns, Sorted, merge, user
  <1>3. FindingsStayTrue'
    BY ReadsKeep, ValuesDiffer DEF FindingsStayTrue, tree
  <1> QED
    BY <1>1, <1>2, <1>3, ReadsKeep

\* An examined sidecar composes and is as Git left it, or is refused.
LEMMA ExamineSidecarKeeps ==
    ASSUME MergeInvariant, NEW p \in Pair, ExamineSidecar(p)
    PROVE  MergeInvariant'
  <1>1. CASE Refuse(p)
    BY <1>1, RefuseKeeps DEF ExamineSidecar
  <1>2. CASE ~Refuse(p)
    <2> USE <1>2 DEF MergeInvariant, ExamineSidecar
    <2>1. TypeOK'
      BY ValuesDiffer DEF TypeOK, merge, tree, user, Step
    <2>2. TakingTurns' /\ Sorted'
      BY DEF TypeOK, TakingTurns, Sorted, merge, user
    <2>3. FindingsStayTrue'
      BY ReadsKeep DEF FindingsStayTrue, tree
    <2> QED
      BY <2>1, <2>2, <2>3, ReadsKeep
  <1> QED
    BY <1>1, <1>2

\* Then its owners are staged as composed, or it is refused.
LEMMA ExamineStagedKeeps ==
    ASSUME MergeInvariant, ExamineStaged
    PROVE  MergeInvariant'
  <1>1. at \in Pair /\ at \in queue
    BY DEF MergeInvariant, TypeOK, Sorted, ExamineStaged
  <1>2. CASE Refuse(at)
    BY <1>1, <1>2, RefuseKeeps DEF ExamineStaged
  <1>3. CASE ~Refuse(at)
    <2> USE <1>3 DEF MergeInvariant, ExamineStaged
    <2>1. TypeOK'
      BY DEF TypeOK, merge, tree, user, Step
    <2>2. TakingTurns' /\ Sorted'
      BY DEF TypeOK, TakingTurns, Sorted, merge, user
    <2>3. FindingsStayTrue'
      BY ReadsKeep DEF FindingsStayTrue, tree
    <2> QED
      BY <2>1, <2>2, <2>3, ReadsKeep
  <1> QED
    BY <1>2, <1>3

\* Then they are so in the working tree, too, and the record is composed.
LEMMA ExamineFilesKeeps ==
    ASSUME MergeInvariant, ExamineFiles
    PROVE  MergeInvariant'
  <1>1. at \in Pair /\ at \in queue
    BY DEF MergeInvariant, TypeOK, Sorted, ExamineFiles
  <1>2. CASE Refuse(at)
    BY <1>1, <1>2, RefuseKeeps DEF ExamineFiles
  <1>3. CASE ~Refuse(at)
    <2> USE <1>3 DEF MergeInvariant, ExamineFiles
    <2>1. /\ Composes(at) /\ Unedited(at)
          /\ Names(index[at], Composition(at)) /\ Names(file[at], Composition(at))
      BY <1>1 DEF FindingsStayTrue
    <2>2. composed' = [composed EXCEPT ![at] = Composition(at)] /\ Composition(at) \in Record
      BY <1>1, <2>1, CompositionType
    <2>3. TypeOK'
      BY <2>2, ValuesDiffer DEF TypeOK, merge, tree, user, Step
    <2>4. TakingTurns' /\ Sorted'
      BY <1>1, <2>2 DEF TypeOK, TakingTurns, Sorted, merge, user
    <2>5. FindingsStayTrue'
      <3> SUFFICES ASSUME NEW p \in Pair, composed'[p] # NoRecord
                   PROVE  /\ composed'[p] = Composition(p)'
                          /\ Composes(p)'
                          /\ Names(index[p], Composition(p))'
                          /\ Names(file[p], Composition(p))'
                          /\ Unedited(p)'
        BY ValuesDiffer DEF FindingsStayTrue
      <3>1. CASE p = at
        BY <1>1, <2>1, <2>2, <3>1, ReadsKeep DEF TypeOK
      <3>2. CASE p # at
        BY <2>2, <3>2, ReadsKeep DEF TypeOK, FindingsStayTrue, tree
      <3> QED
        BY <3>1, <3>2
    <2> QED
      BY <2>3, <2>4, <2>5, ReadsKeep
  <1> QED
    BY <1>2, <1>3

\* The end of a run keeps the invariant wherever it happens.
LEMMA EndKeeps ==
    ASSUME MergeInvariant, Ends, UNCHANGED <<merge, tree, user>>
    PROVE  MergeInvariant'
  <1> USE DEF MergeInvariant, Ends
  <1>1. TypeOK'
    BY DEF TypeOK, merge, tree, user, Step
  <1>2. TakingTurns' /\ Sorted'
    BY DEF TypeOK, TakingTurns, Sorted, merge, user
  <1>3. FindingsStayTrue'
    BY ValuesDiffer DEF FindingsStayTrue
  <1> QED
    BY <1>1, <1>2, <1>3, ReadsKeep

\* So it does when the write of a sidecar is cut short.
LEMMA TornKeeps ==
    ASSUME MergeInvariant, pc = "write", NEW p \in queue, Ends,
           file' = [file EXCEPT ![p].record = Torn], manual' = manual \ {p},
           UNCHANGED <<merge, index, touched>>
    PROVE  MergeInvariant'
  <1> USE DEF MergeInvariant, Ends
  <1>1. history' = history /\ phase' = phase /\ touched' = touched /\ index' = index
    BY DEF merge
  <1>2. Torn \in Sidecar \ {Unmerged}
    BY ValuesDiffer DEF Sidecar
  <1>3. /\ file' \in [Pair -> [en : Version, zh : Version, record : Sidecar]]
        /\ \A q \in Pair : Unmerged \notin {file'[q].en, file'[q].zh, file'[q].record}
        /\ \A q \in Pair \ {p} : file'[q] = file[q]
    BY <1>2 DEF TypeOK
  <1>4. TypeOK'
    BY <1>1, <1>3 DEF TypeOK, Step
  <1>5. TakingTurns' /\ Sorted'
    BY <1>1 DEF TypeOK, TakingTurns, Sorted
  <1>6. GitsWorkStays'
    BY <1>1, HistoryStays DEF GitsWorkStays
  <1>7. FindingsStayTrue'
    BY ValuesDiffer DEF FindingsStayTrue
  <1>8. ManualIsNotMarked'
    BY <1>3 DEF TypeOK, ManualIsNotMarked
  <1> QED
    BY <1>4, <1>5, <1>6, <1>7, <1>8

\* What is composed is queued to be written.
LEMMA EndExaminationKeeps ==
    ASSUME MergeInvariant, EndExamination
    PROVE  MergeInvariant'
  <1>1. CASE Ends
    BY <1>1, EndKeeps DEF EndExamination
  <1>2. CASE ~Ends
    <2> USE <1>2 DEF MergeInvariant, EndExamination
    <2>1. TypeOK'
      BY DEF TypeOK, merge, tree, user, Step, Sorted, Resolved
    <2>2. TakingTurns' /\ Sorted'
      BY DEF TypeOK, TakingTurns, Sorted, merge, user, Resolved
    <2>3. FindingsStayTrue'
      BY ReadsKeep DEF FindingsStayTrue, Resolved, tree
    <2> QED
      BY <2>1, <2>2, <2>3, ReadsKeep
  <1> QED
    BY <1>1, <1>2

--------------------------------------------------------------------------------
(* The invariant: writes *)

\* A composed record is one, and a sidecar may hold it.
LEMMA ComposedType ==
    ASSUME TypeOK, FindingsStayTrue, NEW p \in Pair, composed[p] # NoRecord
    PROVE  composed[p] \in Record /\ composed[p] \in Sidecar \ {Unmerged}
  <1>1. composed[p] \in Record
    BY DEF TypeOK
  <1> QED
    BY <1>1, ValuesDiffer DEF Record, Sidecars, Sidecar

\* A write changes one sidecar, to the record composed for it.
LEMMA WriteKeeps ==
    ASSUME MergeInvariant, NEW p \in Pair, WriteSidecar(p)
    PROVE  MergeInvariant'
  <1> USE DEF MergeInvariant, WriteSidecar
  <1>1. /\ history' = history /\ phase' = phase /\ touched' = touched /\ index' = index
        /\ at' = at /\ composed' = composed /\ failures' = failures
    BY DEF merge
  <1>2. composed[p] # NoRecord
    BY DEF Sorted
  <1>3. composed[p] \in Sidecar \ {Unmerged}
    BY <1>2, ComposedType
  <1>4. /\ file'[p] = [file[p] EXCEPT !.record = composed[p]]
        /\ \A q \in Pair \ {p} : file'[q] = file[q]
        /\ \A q \in Pair : \A f \in Owner : file'[q][f] = file[q][f]
    BY DEF TypeOK, Owner
  <1>5. TypeOK'
    <2>1. file' \in [Pair -> [en : Version, zh : Version, record : Sidecar]]
      BY <1>3 DEF TypeOK
    <2>2. \A q \in Pair : Unmerged \notin {file'[q].en, file'[q].zh, file'[q].record}
      BY <1>3, <1>4, ValuesDiffer DEF TypeOK
    <2>3. pc' \in {"write", "add"} /\ pc = "write"
      OBVIOUS
    <2>4. /\ index' \in [Pair -> [en : Version, zh : Version, record : Sidecar]]
          /\ history' \in [Pair -> Histories]
          /\ phase' \in {"merging", "stopped", "merged", "aborted"}
          /\ at' \in Pair \union {NoPair}
          /\ composed' \in [Pair -> Record \union {NoRecord}]
          /\ failures' \subseteq Pair /\ queue' \subseteq Pair
          /\ queue' \intersect failures' = {}
          /\ manual' \subseteq touched' /\ touched' \subseteq Pair
      BY <1>1 DEF TypeOK
    <2>5. pc' \in Step /\ (pc' \in {"staged", "files"} <=> at' # NoPair)
      BY <1>1, <2>3 DEF TypeOK, Step
    <2> QED
      BY <2>1, <2>2, <2>4, <2>5 DEF TypeOK
  <1>6. TakingTurns' /\ Sorted'
    BY <1>1 DEF TakingTurns, Sorted
  <1>7. GitsWorkStays'
    BY <1>1, HistoryStays DEF GitsWorkStays
  <1>8. FindingsStayTrue'
    <2>1. at' = NoPair /\ NoPair \notin Pair
      BY <1>1, ValuesDiffer DEF TypeOK
    <2> SUFFICES ASSUME NEW q \in Pair, composed[q] # NoRecord
                 PROVE  /\ composed[q] = Composition(q)
                        /\ Composes(q)
                        /\ Names(index[q], Composition(q))
                        /\ Names(file'[q], Composition(q))
                        /\ IF q \in queue' THEN Unedited(q)' ELSE file'[q].record = composed[q]
      BY <1>1, <2>1, HistoryStays DEF FindingsStayTrue, Names
    <2>2. /\ composed[q] = Composition(q)
          /\ Composes(q)
          /\ Names(index[q], Composition(q))
          /\ Names(file[q], Composition(q))
          /\ IF q \in queue THEN Unedited(q) ELSE file[q].record = composed[q]
      BY DEF FindingsStayTrue
    <2>3. Names(file'[q], Composition(q))
      BY <1>4, <2>2 DEF Names
    <2>4. CASE q = p
      BY <1>4, <2>2, <2>3, <2>4 DEF TypeOK
    <2>5. CASE q # p
      <3>1. Unedited(q)' <=> Unedited(q)
        BY <1>1, <1>4, <2>5, HistoryStays DEF Unedited
      <3> QED
        BY <1>4, <2>2, <2>3, <2>5, <3>1
    <2> QED
      BY <2>4, <2>5
  <1>9. ManualIsNotMarked'
    BY <1>4, <1>5 DEF TypeOK, ManualIsNotMarked
  <1> QED
    BY <1>5, <1>6, <1>7, <1>8, <1>9

\* What is added to the index are the composed records.
LEMMA StageSidecarsKeeps ==
    ASSUME MergeInvariant, StageSidecars
    PROVE  MergeInvariant'
  <1> USE DEF MergeInvariant, StageSidecars, Ends
  <1>1. /\ history' = history /\ phase' = phase /\ touched' = touched /\ manual' = manual
        /\ file' = file
    BY DEF merge, user
  <1>2. /\ \A p \in Resolved : index'[p].record = Composition(p) /\ Composes(p)
        /\ \A p \in Pair \ Resolved : index'[p] = index[p]
        /\ \A p \in Pair : \A f \in Owner : index'[p][f] = index[p][f]
    BY DEF TypeOK, Owner, Resolved, FindingsStayTrue
  <1>3. TypeOK'
    <2>1. index' \in [Pair -> [en : Version, zh : Version, record : Sidecar]]
      BY DEF TypeOK
    <2> QED
      BY <1>1, <2>1 DEF TypeOK, Step
  <1>4. TakingTurns' /\ Sorted'
    BY <1>1 DEF TypeOK, TakingTurns, Sorted
  <1>5. GitsWorkStays'
    <2>1. phase = "stopped"
      BY DEF TakingTurns
    <2> SUFFICES ASSUME NEW p \in Pair \ touched
                 PROVE  /\ \A f \in Owner : \E m \in MergedOwner(p, f) : index'[p][f] = m.stage
                        /\ \/ \E m \in MergedSidecar(p) : index'[p].record = m.stage
                           \/ Composes(p) /\ index'[p].record = Composition(p)
      BY <1>1, <2>1, HistoryStays DEF GitsWorkStays
    <2>2. /\ \A f \in Owner : \E m \in MergedOwner(p, f) : index[p][f] = m.stage
          /\ \/ \E m \in MergedSidecar(p) : index[p].record = m.stage
             \/ Composes(p) /\ index[p].record = Composition(p)
      BY <2>1 DEF GitsWorkStays
    <2> QED
      BY <1>2, <2>2
  <1>6. FindingsStayTrue'
    BY ValuesDiffer DEF FindingsStayTrue
  <1>7. ManualIsNotMarked'
    BY <1>1 DEF ManualIsNotMarked
  <1> QED
    BY <1>3, <1>4, <1>5, <1>6, <1>7

\* `git merge` hands over what the lemmas on types say.
LEMMA GitMergeKeeps ==
    ASSUME MergeInvariant, GitMerge
    PROVE  MergeInvariant'
  <1> USE DEF MergeInvariant
  <1>1. /\ history' = history /\ phase = "merging" /\ phase' \in {"stopped", "merged"}
        /\ pc' = pc /\ queue' = queue /\ at' = at /\ composed' = composed
        /\ failures' = failures /\ touched' = touched /\ manual' = manual
    BY DEF GitMerge, resolver, user
  <1>2. /\ pc = "idle" /\ touched = {} /\ manual = {} /\ queue = {} /\ failures = {}
        /\ at = NoPair /\ \A p \in Pair : composed[p] = NoRecord
    BY <1>1 DEF TakingTurns, TypeOK
  <1>3. PICK en \in [Pair -> UNION {MergedOwner(p, "en") : p \in Pair}],
             zh \in [Pair -> UNION {MergedOwner(p, "zh") : p \in Pair}],
             record \in [Pair -> UNION {MergedSidecar(p) : p \in Pair}] :
             /\ \A p \in Pair : en[p] \in MergedOwner(p, "en")
             /\ \A p \in Pair : zh[p] \in MergedOwner(p, "zh")
             /\ \A p \in Pair : record[p] \in MergedSidecar(p)
             /\ index' = [p \in Pair |-> [en |-> en[p].stage, zh |-> zh[p].stage,
                                          record |-> record[p].stage]]
             /\ file' = [p \in Pair |-> [en |-> en[p].file, zh |-> zh[p].file,
                                         record |-> record[p].file]]
    BY DEF GitMerge
  <1>4. \A p \in Pair :
           /\ en[p].stage \in Version /\ en[p].file \in Version \ {Unmerged}
           /\ zh[p].stage \in Version /\ zh[p].file \in Version \ {Unmerged}
           /\ record[p].stage \in Sidecar /\ record[p].file \in Sidecar \ {Unmerged}
    BY <1>3, OwnerTypes, SidecarTypes DEF Owner
  <1>5. TypeOK'
    <2>1. index' \in [Pair -> [en : Version, zh : Version, record : Sidecar]]
      BY <1>3, <1>4
    <2>2. file' \in [Pair -> [en : Version, zh : Version, record : Sidecar]]
      BY <1>3, <1>4
    <2>3. \A p \in Pair : Unmerged \notin {file'[p].en, file'[p].zh, file'[p].record}
      BY <1>3, <1>4
    <2> QED
      BY <1>1, <2>1, <2>2, <2>3 DEF TypeOK
  <1>6. TakingTurns' /\ Sorted'
    BY <1>1, <1>2 DEF TakingTurns, Sorted
  <1>7. GitsWorkStays'
    <2> SUFFICES ASSUME NEW p \in Pair
                 PROVE  /\ \A f \in Owner : \E m \in MergedOwner(p, f) : index'[p][f] = m.stage
                        /\ \E m \in MergedSidecar(p) : index'[p].record = m.stage
      <3>1. \A p \in Pair : /\ MergedSidecar(p)' = MergedSidecar(p)
                           /\ \A f \in Owner : MergedOwner(p, f)' = MergedOwner(p, f)
        BY <1>1, HistoryStays
      <3>2. phase' # "aborted"
        BY <1>1
      <3> QED
        BY <3>1, <3>2 DEF GitsWorkStays
    <2>1. /\ en[p] \in MergedOwner(p, "en") /\ index'[p].en = en[p].stage
          /\ zh[p] \in MergedOwner(p, "zh") /\ index'[p].zh = zh[p].stage
          /\ record[p] \in MergedSidecar(p) /\ index'[p].record = record[p].stage
      BY <1>3
    <2> QED
      BY <2>1 DEF Owner
  <1>8. FindingsStayTrue' /\ ManualIsNotMarked'
    BY <1>1, <1>2, ValuesDiffer DEF FindingsStayTrue, ManualIsNotMarked
  <1> QED
    BY <1>5, <1>6, <1>7, <1>8

--------------------------------------------------------------------------------
(* The invariant: the user *)

\* While no resolver runs there is nothing it has found out.
LEMMA IdleKeeps ==
    ASSUME MergeInvariant, pc = "idle", UNCHANGED resolver, phase = "stopped",
           phase' \in {"stopped", "aborted"}
    PROVE  TakingTurns' /\ Sorted' /\ FindingsStayTrue'
  <1> USE DEF MergeInvariant, resolver
  <1>1. TakingTurns' /\ Sorted'
    BY DEF TakingTurns, Sorted
  <1>2. at' = NoPair /\ NoPair \notin Pair
    BY ValuesDiffer DEF TypeOK
  <1> QED
    BY <1>1, <1>2 DEF TakingTurns, FindingsStayTrue

\* An edit of an owner, with no run to disturb.
LEMMA EditOwnerKeeps ==
    ASSUME MergeInvariant, "beside" \notin Events, NEW p \in Pair, NEW f \in Owner,
           EditOwner(p, f)
    PROVE  MergeInvariant'
  <1> USE DEF MergeInvariant, EditOwner, Works
  <1>1. /\ history' = history /\ phase' = phase /\ index' = index /\ manual' = manual
        /\ touched' = touched \union {p}
        /\ UNCHANGED resolver
    BY DEF merge
  <1>2. PICK v \in {Ours(p, f), Theirs(p, f)} : file' = [file EXCEPT ![p][f] = v]
    OBVIOUS
  <1>3. v \in Version \ {Unmerged}
    <2>1. v \in Doc \union {Gone}
      BY <1>2, VersionTypes
    <2> QED
      BY <2>1, ValuesDiffer DEF Version
  <1>4. /\ file' \in [Pair -> [en : Version, zh : Version, record : Sidecar]]
        /\ \A q \in Pair : Unmerged \notin {file'[q].en, file'[q].zh, file'[q].record}
        /\ \A q \in Pair : file'[q].record = file[q].record
    <2>1. CASE f = "en"
      BY <1>2, <1>3, <2>1 DEF TypeOK
    <2>2. CASE f = "zh"
      BY <1>2, <1>3, <2>2 DEF TypeOK
    <2> QED
      BY <2>1, <2>2 DEF Owner
  <1>5. TypeOK'
    BY <1>1, <1>4 DEF TypeOK, resolver
  <1>6. GitsWorkStays'
    BY <1>1, HistoryStays DEF GitsWorkStays
  <1>7. ManualIsNotMarked'
    BY <1>1, <1>4 DEF TypeOK, ManualIsNotMarked
  <1> QED
    BY <1>1, <1>5, <1>6, <1>7, IdleKeeps

\* `git add`, with no run to disturb.
LEMMA StageKeeps ==
    ASSUME MergeInvariant, "beside" \notin Events, NEW p \in Pair,
           NEW f \in Owner \union {"record"}, Stage(p, f)
    PROVE  MergeInvariant'
  <1> USE DEF MergeInvariant, Stage, Works
  <1>1. /\ history' = history /\ phase' = phase /\ file' = file /\ manual' = manual
        /\ touched' = touched \union {p}
        /\ UNCHANGED resolver
    BY DEF merge
  <1>2. /\ index' \in [Pair -> [en : Version, zh : Version, record : Sidecar]]
        /\ \A q \in Pair \ {p} : index'[q] = index[q]
    <2>1. CASE f = "en"
      BY <2>1 DEF TypeOK
    <2>2. CASE f = "zh"
      BY <2>2 DEF TypeOK
    <2>3. CASE f = "record"
      BY <2>3 DEF TypeOK
    <2> QED
      BY <2>1, <2>2, <2>3 DEF Owner
  <1>3. TypeOK'
    BY <1>1, <1>2 DEF TypeOK, resolver
  <1>4. GitsWorkStays'
    BY <1>1, <1>2, HistoryStays DEF GitsWorkStays
  <1>5. ManualIsNotMarked'
    BY <1>1 DEF ManualIsNotMarked
  <1> QED
    BY <1>1, <1>3, <1>4, <1>5, IdleKeeps

\* A sidecar written by the user has no conflict markers.
LEMMA EditSidecarKeeps ==
    ASSUME MergeInvariant, "beside" \notin Events, NEW p \in Pair, EditSidecar(p)
    PROVE  MergeInvariant'
  <1> USE DEF MergeInvariant, EditSidecar, Works
  <1>1. /\ history' = history /\ phase' = phase /\ index' = index
        /\ touched' = touched \union {p} /\ manual' = manual \union {p}
        /\ UNCHANGED resolver
    BY DEF merge
  <1>2. PICK v : /\ file' = [file EXCEPT ![p].record = v]
                 /\ \/ v \in {Edited, Annotated}
                    \/ /\ Gone \notin {file[p].en, file[p].zh}
                       /\ v = [en |-> file[p].en, zh |-> file[p].zh]
    OBVIOUS
  <1>3. v \in Sidecar \ {Unmerged, Marked}
    <2>1. CASE v \in {Edited, Annotated}
      BY <2>1, ValuesDiffer DEF Sidecar
    <2>2. CASE v \notin {Edited, Annotated}
      <3>1. file[p].en \in Doc \union {Marked} /\ file[p].zh \in Doc \union {Marked}
        BY <1>2, <2>2 DEF TypeOK, Version
      <3>2. v \in Sidecars
        BY <1>2, <2>2, <3>1 DEF Sidecars
      <3> QED
        BY <3>2, ValuesDiffer DEF Sidecar
    <2> QED
      BY <2>1, <2>2
  <1>4. /\ file' \in [Pair -> [en : Version, zh : Version, record : Sidecar]]
        /\ \A q \in Pair : Unmerged \notin {file'[q].en, file'[q].zh, file'[q].record}
        /\ \A q \in Pair \ {p} : file'[q] = file[q]
        /\ file'[p].record = v
    BY <1>2, <1>3 DEF TypeOK
  <1>5. TypeOK'
    BY <1>1, <1>4 DEF TypeOK, resolver
  <1>6. GitsWorkStays'
    BY <1>1, HistoryStays DEF GitsWorkStays
  <1>7. ManualIsNotMarked'
    BY <1>1, <1>3, <1>4 DEF TypeOK, ManualIsNotMarked
  <1> QED
    BY <1>1, <1>5, <1>6, <1>7, IdleKeeps

\* A version of a pair is a state of its three files.
LEMMA OursIsATree ==
    ASSUME TypeOK, NEW p \in Pair
    PROVE  /\ history[p].ours \in [en : Version, zh : Version, record : Sidecar]
           /\ Unmerged \notin {history[p].ours.en, history[p].ours.zh, history[p].ours.record}
  <1>1. history[p].ours \in Side
    BY DEF TypeOK, Histories
  <1>2. Record \subseteq Sidecars
    BY DEF Record, Sidecars
  <1> QED
    BY <1>1, <1>2, ValuesDiffer DEF Side, Version, Sidecar

\* After `git merge --abort` the pairs are as our branch has them.
LEMMA AbortKeeps ==
    ASSUME MergeInvariant, "beside" \notin Events, Abort
    PROVE  MergeInvariant'
  <1> USE DEF MergeInvariant, Abort, Works
  <1>1. history' = history /\ touched' = touched /\ UNCHANGED resolver
    OBVIOUS
  <1>2. \A p \in Pair : index'[p] = history[p].ours /\ file'[p] = history[p].ours
    OBVIOUS
  <1>3. TypeOK'
    <2>1. /\ index' \in [Pair -> [en : Version, zh : Version, record : Sidecar]]
          /\ file' \in [Pair -> [en : Version, zh : Version, record : Sidecar]]
      BY OursIsATree
    <2>2. \A p \in Pair : Unmerged \notin {file'[p].en, file'[p].zh, file'[p].record}
      BY <1>2, OursIsATree
    <2> QED
      BY <1>1, <2>1, <2>2 DEF TypeOK, resolver
  <1>4. GitsWorkStays'
    BY <1>1, <1>2 DEF GitsWorkStays
  <1>5. ManualIsNotMarked'
    BY DEF ManualIsNotMarked
  <1> QED
    BY <1>1, <1>3, <1>4, <1>5, IdleKeeps

--------------------------------------------------------------------------------
(* The invariant holds *)

\* The invariant holds before the merge.
LEMMA InvariantInit == Init => MergeInvariant
  <1> SUFFICES ASSUME Init PROVE MergeInvariant
    OBVIOUS
  <1>1. history \in [Pair -> Histories]
    BY HistoryAssumption DEF Init
  <1>2. TypeOK
    <2>1. \A p \in Pair :
             /\ history[p].ours \in [en : Version, zh : Version, record : Sidecar]
             /\ Unmerged \notin {history[p].ours.en, history[p].ours.zh, history[p].ours.record}
      <3> TAKE p \in Pair
      <3>1. history[p].ours \in Side
        BY <1>1 DEF Histories
      <3>2. Record \subseteq Sidecars
        BY DEF Record, Sidecars
      <3> QED
        BY <3>1, <3>2, ValuesDiffer DEF Side, Version, Sidecar
    <2> QED
      BY <1>1, <2>1 DEF Init, TypeOK, Step
  <1>3. TakingTurns /\ Sorted /\ ManualIsNotMarked
    BY DEF Init, TakingTurns, Sorted, ManualIsNotMarked
  <1>4. GitsWorkStays
    BY DEF Init, GitsWorkStays
  <1>5. FindingsStayTrue
    BY ValuesDiffer DEF Init, FindingsStayTrue
  <1> QED
    BY <1>2, <1>3, <1>4, <1>5 DEF MergeInvariant

\* Every step keeps it.
LEMMA InvariantStep ==
    ASSUME MergeInvariant, "beside" \notin Events, [Next]_vars
    PROVE  MergeInvariant'
  <1>1. CASE GitMerge
    BY <1>1, GitMergeKeeps
  <1>2. CASE StartResolve
    BY <1>2, StartKeeps
  <1>3. ASSUME NEW p \in Pair, ExamineSidecar(p) PROVE MergeInvariant'
    BY <1>3, ExamineSidecarKeeps
  <1>4. ASSUME NEW p \in Pair, WriteSidecar(p) PROVE MergeInvariant'
    BY <1>4, WriteKeeps
  <1>5. CASE ExamineStaged
    BY <1>5, ExamineStagedKeeps
  <1>6. CASE ExamineFiles
    BY <1>6, ExamineFilesKeeps
  <1>7. CASE EndExamination
    BY <1>7, EndExaminationKeeps
  <1>8. CASE StageSidecars
    BY <1>8, StageSidecarsKeeps
  <1>9. CASE Fails
    <2>1. CASE UNCHANGED <<file, manual>>
      BY <1>9, <2>1, EndKeeps DEF Fails, tree, user
    <2>2. CASE /\ pc = "write"
               /\ \E p \in queue : /\ file' = [file EXCEPT ![p].record = Torn]
                                  /\ manual' = manual \ {p}
      BY <1>9, <2>2, TornKeeps DEF Fails
    <2> QED
      BY <1>9, <2>1, <2>2 DEF Fails
  <1>10. CASE User
    <2>1. ASSUME NEW p \in Pair, NEW f \in Owner, EditOwner(p, f) PROVE MergeInvariant'
      BY <2>1, EditOwnerKeeps
    <2>2. ASSUME NEW p \in Pair, NEW f \in Owner \union {"record"}, Stage(p, f)
          PROVE  MergeInvariant'
      BY <2>2, StageKeeps
    <2>3. ASSUME NEW p \in Pair, EditSidecar(p) PROVE MergeInvariant'
      BY <2>3, EditSidecarKeeps
    <2>4. CASE Abort
      BY <2>4, AbortKeeps
    <2> QED
      BY <1>10, <2>1, <2>2, <2>3, <2>4 DEF User
  <1>11. CASE UNCHANGED vars
    <2>1. UNCHANGED <<merge, tree, user, resolver>>
      BY <1>11 DEF vars
    <2>2. TypeOK' /\ TakingTurns' /\ Sorted'
      BY <2>1 DEF MergeInvariant, TypeOK, TakingTurns, Sorted, merge, tree, user, resolver
    <2>3. FindingsStayTrue'
      BY <2>1, ReadsKeep DEF MergeInvariant, FindingsStayTrue, tree, resolver
    <2> QED
      BY <2>1, <2>2, <2>3, ReadsKeep DEF MergeInvariant
  <1> QED
    BY <1>1, <1>2, <1>3, <1>4, <1>5, <1>6, <1>7, <1>8, <1>9, <1>10, <1>11 DEF Next, Resolve

--------------------------------------------------------------------------------
(* Verified branches *)

Consistent(side) == IF side.record = Gone THEN side.en = Gone /\ side.zh = Gone
                    ELSE Verifies(side)

\* Each version of a confirmed pair is consistent, and its record tells its owners.
LEMMA ConfirmedSides ==
    ASSUME NEW p \in Pair, Confirmed(p)
    PROVE  /\ \A f \in Owner :
                 /\ Base(p, "record") # Gone =>
                       Base(p, f) = Base(p, "record")[f] /\ Base(p, f) # Gone
                 /\ Ours(p, "record") # Gone =>
                       Ours(p, f) = Ours(p, "record")[f] /\ Ours(p, f) # Gone
                 /\ Theirs(p, "record") # Gone =>
                       Theirs(p, f) = Theirs(p, "record")[f] /\ Theirs(p, f) # Gone
                 /\ Base(p, "record") = Gone => Base(p, f) = Gone
                 /\ Ours(p, "record") = Gone => Ours(p, f) = Gone
                 /\ Theirs(p, "record") = Gone => Theirs(p, f) = Gone
           /\ Consistent(history[p].base)
           /\ Consistent(history[p].ours)
           /\ Consistent(history[p].theirs)
  <1>1. \A side \in {history[p].base, history[p].ours, history[p].theirs} :
           /\ Consistent(side)
           /\ side.record = Gone => side.en = Gone /\ side.zh = Gone
           /\ side.record # Gone => /\ side.en = side.record.en /\ side.en # Gone
                                   /\ side.zh = side.record.zh /\ side.zh # Gone
    BY DEF Confirmed, Consistent, Verifies
  <1> QED
    BY <1>1 DEF Base, Ours, Theirs, Owner

\* When the driver composes a confirmed pair, Git merges each owner to what was
\* composed for it.
LEMMA OwnersMergeAsComposed ==
    ASSUME TypeOK, NEW p \in Pair, Confirmed(p), Composes(p),
           NEW f \in Owner, NEW m \in MergedOwner(p, f)
    PROVE  m.stage = Composition(p)[f]
  <1>1. /\ Base(p, "record") \in Record
        /\ Ours(p, "record") \in Record
        /\ Theirs(p, "record") \in Record
        /\ history[p].text
    BY DEF Composes
  <1>2. Gone \notin Record
    BY ValuesDiffer DEF Record, Sidecars
  <1>3. /\ Base(p, f) = Base(p, "record")[f] /\ Base(p, f) # Gone
        /\ Ours(p, f) = Ours(p, "record")[f] /\ Ours(p, f) # Gone
        /\ Theirs(p, f) = Theirs(p, "record")[f] /\ Theirs(p, f) # Gone
    BY <1>1, <1>2, ConfirmedSides
  <1>4. /\ Base(p, f) \in Doc /\ Ours(p, f) \in Doc /\ Theirs(p, f) \in Doc
        /\ MergesCleanly(Base(p, f), Ours(p, f), Theirs(p, f))
        /\ Composition(p)[f] = TextMerge(Base(p, f), Ours(p, f), Theirs(p, f))
    BY <1>3, CompositionType DEF Composes
  <1>5. CASE Trivial(p, f)
    BY <1>4, <1>5, TextMergeTrivial DEF Trivial, MergedOwner, Both
  <1>6. CASE ~Trivial(p, f)
    BY <1>1, <1>3, <1>4, <1>6 DEF MergedOwner, Both
  <1> QED
    BY <1>5, <1>6

\* What is composed for a confirmed pair has the same structure, for the driver
\* checks it, and the same generated text, which nobody checks.
LEMMA CompositionVerifies ==
    ASSUME TypeOK, NEW p \in Pair, Confirmed(p), Composes(p)
    PROVE  /\ SameStructure(Composition(p).en, Composition(p).zh)
           /\ SameRegions(Composition(p).en, Composition(p).zh)
  <1>1. /\ Base(p, "record") \in Record
        /\ Ours(p, "record") \in Record
        /\ Theirs(p, "record") \in Record
    BY DEF Composes
  <1>2. Gone \notin Record
    BY ValuesDiffer DEF Record, Sidecars
  <1>3. /\ SameRegions(Base(p, "record").en, Base(p, "record").zh)
        /\ SameRegions(Ours(p, "record").en, Ours(p, "record").zh)
        /\ SameRegions(Theirs(p, "record").en, Theirs(p, "record").zh)
    <2>1. /\ Base(p, "record").en = Base(p, "en") /\ Base(p, "record").zh = Base(p, "zh")
          /\ Ours(p, "record").en = Ours(p, "en") /\ Ours(p, "record").zh = Ours(p, "zh")
          /\ Theirs(p, "record").en = Theirs(p, "en") /\ Theirs(p, "record").zh = Theirs(p, "zh")
      BY <1>1, <1>2, ConfirmedSides DEF Owner
    <2>2. /\ Verifies(history[p].base)
          /\ Verifies(history[p].ours)
          /\ Verifies(history[p].theirs)
      BY <1>1, <1>2, ConfirmedSides DEF Consistent, Base, Ours, Theirs
    <2>3. /\ SameRegions(Base(p, "en"), Base(p, "zh"))
          /\ SameRegions(Ours(p, "en"), Ours(p, "zh"))
          /\ SameRegions(Theirs(p, "en"), Theirs(p, "zh"))
      BY <2>2 DEF Verifies, Base, Ours, Theirs
    <2> QED
      BY <2>1, <2>3
  <1>4. /\ Base(p, "record").en \in Doc /\ Base(p, "record").zh \in Doc
        /\ Ours(p, "record").en \in Doc /\ Ours(p, "record").zh \in Doc
        /\ Theirs(p, "record").en \in Doc /\ Theirs(p, "record").zh \in Doc
    BY <1>1 DEF Record
  <1>5. /\ MergesCleanly(Base(p, "record").en, Ours(p, "record").en, Theirs(p, "record").en)
        /\ MergesCleanly(Base(p, "record").zh, Ours(p, "record").zh, Theirs(p, "record").zh)
        /\ SameStructure(Composition(p).en, Composition(p).zh)
    BY DEF Composes, Owner
  <1>6. SameRegions(Composition(p).en, Composition(p).zh)
    <2>1. /\ Composition(p).en = TextMerge(Base(p, "record").en, Ours(p, "record").en,
                                           Theirs(p, "record").en)
          /\ Composition(p).zh = TextMerge(Base(p, "record").zh, Ours(p, "record").zh,
                                           Theirs(p, "record").zh)
      BY DEF Composition
    <2>2. SameRegions(TextMerge(Base(p, "record").en, Ours(p, "record").en,
                                Theirs(p, "record").en),
                      TextMerge(Base(p, "record").zh, Ours(p, "record").zh,
                                Theirs(p, "record").zh))
      BY <1>3, <1>4, <1>5, RegionsMergeAlike
    <2> QED
      BY <2>1, <2>2
  <1> QED
    BY <1>5, <1>6

\* A sidecar that only one branch changed comes with the owners of that branch.
LEMMA TrivialSidecarBringsOwners ==
    ASSUME NEW p \in Pair, Confirmed(p), Trivial(p, "record")
    PROVE  \E side \in {history[p].ours, history[p].theirs} :
              /\ side.record = Pick(Base(p, "record"), Ours(p, "record"), Theirs(p, "record"))
              /\ \A f \in Owner : /\ Trivial(p, f)
                                  /\ side[f] = Pick(Base(p, f), Ours(p, f), Theirs(p, f))
  <1>1. \A f \in Owner :
           /\ Ours(p, "record") = Base(p, "record") => Ours(p, f) = Base(p, f)
           /\ Theirs(p, "record") = Base(p, "record") => Theirs(p, f) = Base(p, f)
           /\ Ours(p, "record") = Theirs(p, "record") => Ours(p, f) = Theirs(p, f)
    BY ConfirmedSides
  <1>2. CASE Ours(p, "record") = Base(p, "record")
    <2>1. /\ Theirs(p, "record") = Pick(Base(p, "record"), Ours(p, "record"), Theirs(p, "record"))
          /\ \A f \in Owner : Trivial(p, f) /\ Theirs(p, f) = Pick(Base(p, f), Ours(p, f), Theirs(p, f))
      BY <1>1, <1>2 DEF Trivial, Clash, Pick
    <2> QED
      BY <2>1 DEF Theirs
  <1>3. CASE Ours(p, "record") # Base(p, "record")
    <2>1. /\ Ours(p, "record") = Pick(Base(p, "record"), Ours(p, "record"), Theirs(p, "record"))
          /\ \A f \in Owner : Trivial(p, f) /\ Ours(p, f) = Pick(Base(p, f), Ours(p, f), Theirs(p, f))
      BY <1>1, <1>3 DEF Trivial, Clash, Pick
    <2> QED
      BY <2>1 DEF Ours
  <1> QED
    BY <1>2, <1>3

\* What Git, the driver or the resolver staged for a confirmed pair verifies.
LEMMA InvariantMergesVerified == MergeInvariant => VerifiedBranchesMergeVerified
  <1> SUFFICES ASSUME MergeInvariant, NEW p \in Pair \ touched, phase # "merging",
                      Confirmed(p), index[p].record # Unmerged
               PROVE  Consistent(index[p])
    BY DEF VerifiedBranchesMergeVerified, Consistent
  <1> USE DEF MergeInvariant
  <1>1. CASE phase = "aborted"
    BY <1>1, ConfirmedSides DEF GitsWorkStays
  <1>2. CASE phase # "aborted"
    <2>1. /\ \A f \in Owner : \E m \in MergedOwner(p, f) : index[p][f] = m.stage
          /\ \/ \E m \in MergedSidecar(p) : index[p].record = m.stage
             \/ Composes(p) /\ index[p].record = Composition(p)
      BY <1>2 DEF GitsWorkStays, TypeOK
    <2>2. CASE Composes(p) /\ index[p].record = Composition(p)
      <3>1. index[p].en = Composition(p).en /\ index[p].zh = Composition(p).zh
        BY <2>1, <2>2, OwnersMergeAsComposed DEF Owner
      <3>2. Composition(p) = [en |-> Composition(p).en, zh |-> Composition(p).zh]
        BY <2>2 DEF Composition
      <3> QED
        BY <2>2, <3>1, <3>2, CompositionVerifies, CompositionType, ValuesDiffer
        DEF Consistent, Verifies, Record, Sidecars
    <2>3. CASE Trivial(p, "record") /\ ~(Composes(p) /\ index[p].record = Composition(p))
      <3>1. index[p].record = Pick(Base(p, "record"), Ours(p, "record"), Theirs(p, "record"))
        BY <2>1, <2>3 DEF MergedSidecar, Both
      <3>2. PICK side \in {history[p].ours, history[p].theirs} :
              /\ side.record = index[p].record
              /\ \A f \in Owner : /\ Trivial(p, f)
                                  /\ side[f] = Pick(Base(p, f), Ours(p, f), Theirs(p, f))
        BY <2>3, <3>1, TrivialSidecarBringsOwners
      <3>3. \A f \in Owner : index[p][f] = side[f]
        BY <2>1, <3>2 DEF MergedOwner, Both
      <3>4. index[p].en = side.en /\ index[p].zh = side.zh
        BY <3>3 DEF Owner
      <3>5. Consistent(side)
        BY <3>2, ConfirmedSides
      <3> QED
        BY <3>2, <3>4, <3>5 DEF Consistent, Verifies
    <2>4. CASE ~Trivial(p, "record")
      <3>1. ASSUME NEW m \in MergedSidecar(p), m.stage # Unmerged
            PROVE  Composes(p) /\ m.stage = Composition(p)
        <4>1. m \in {Conflict(Survivor(p, "record"))} \union Driver(p)
          BY <2>4, <3>1 DEF MergedSidecar
        <4>2. \A v : Conflict(v).stage = Unmerged
          BY DEF Conflict
        <4>3. Composes(p) /\ m = Both(Composition(p))
          BY <3>1, <4>1, <4>2 DEF Driver
        <4> QED
          BY <4>3 DEF Both
      <3> QED
        BY <2>1, <2>2, <3>1
    <2> QED
      BY <2>2, <2>3, <2>4
  <1> QED
    BY <1>1, <1>2

--------------------------------------------------------------------------------
(* What the resolver writes and stages *)

\* A write that is cut short.
Tears(p) ==
    /\ pc = "write" /\ p \in queue
    /\ file' = [file EXCEPT ![p].record = Torn]
    /\ index' = index

\* Only these steps of the resolver write anything.
LEMMA ResolverSteps ==
    ASSUME [Next]_vars, resolver' # resolver
    PROVE  \/ \E p \in Pair : WriteSidecar(p)
           \/ \E p \in queue : Tears(p)
           \/ StageSidecars
           \/ UNCHANGED tree
  <1>1. CASE UNCHANGED vars
    BY <1>1 DEF vars
  <1>2. CASE GitMerge \/ User
    BY <1>2 DEF GitMerge, User, EditOwner, Stage, EditSidecar, Abort
  <1>3. CASE StartResolve \/ Fails
    BY <1>3 DEF StartResolve, Fails, Tears, tree
  <1>4. CASE Resolve
    BY <1>4 DEF Resolve, ExamineSidecar, ExamineStaged, ExamineFiles, EndExamination
  <1> QED
    BY <1>1, <1>2, <1>3, <1>4 DEF Next

\* The writes and the staging are of records proven before.
LEMMA StepStagesProven ==
    ASSUME MergeInvariant, [Next]_vars, resolver' # resolver, NEW p \in Pair
    PROVE  /\ index'[p] # index[p] =>
                /\ index'[p] = [index[p] EXCEPT !.record = Composition(p)]
                /\ Composes(p)
                /\ Names(index[p], Composition(p))
                /\ Names(file[p], Composition(p))
           /\ file'[p] # file[p] =>
                /\ file'[p] \in {[file[p] EXCEPT !.record = r] : r \in {Composition(p), Torn}}
                /\ Composes(p) /\ Names(index[p], Composition(p))
  <1> USE DEF MergeInvariant
  <1>1. ASSUME NEW q \in Pair, WriteSidecar(q)
        PROVE  /\ index' = index
               /\ file'[p] # file[p] =>
                     /\ file'[p] = [file[p] EXCEPT !.record = Composition(p)]
                     /\ Composes(p) /\ Names(index[p], Composition(p))
    <2>1. composed[q] = Composition(q) /\ Composes(q) /\ Names(index[q], Composition(q))
      BY <1>1 DEF WriteSidecar, Sorted, FindingsStayTrue
    <2>2. file' = [file EXCEPT ![q].record = composed[q]]
      BY <1>1 DEF WriteSidecar
    <2>3. CASE q = p
      BY <1>1, <2>1, <2>2, <2>3 DEF WriteSidecar, TypeOK
    <2>4. CASE q # p
      BY <1>1, <2>2, <2>4 DEF WriteSidecar, TypeOK
    <2> QED
      BY <2>3, <2>4
  <1>2. ASSUME StageSidecars
        PROVE  /\ file' = file
               /\ index'[p] # index[p] =>
                    /\ index'[p] = [index[p] EXCEPT !.record = Composition(p)]
                    /\ Composes(p)
                    /\ Names(index[p], Composition(p))
                    /\ Names(file[p], Composition(p))
    <2>1. CASE p \in Resolved
      <3>1. /\ file[p].record = Composition(p) /\ Composes(p)
            /\ Names(index[p], Composition(p)) /\ Names(file[p], Composition(p))
        BY <1>2, <2>1 DEF StageSidecars, FindingsStayTrue, Resolved
      <3>2. index'[p] = [index[p] EXCEPT !.record = file[p].record] /\ file' = file
        BY <1>2, <2>1 DEF StageSidecars
      <3> QED
        BY <3>1, <3>2
    <2>2. CASE p \notin Resolved
      BY <1>2, <2>2 DEF StageSidecars
    <2> QED
      BY <2>1, <2>2
  <1>3. ASSUME NEW q \in queue, Tears(q)
        PROVE  /\ index' = index
               /\ file'[p] # file[p] =>
                     /\ file'[p] = [file[p] EXCEPT !.record = Torn]
                     /\ Composes(p) /\ Names(index[p], Composition(p))
    <2>1. q \in Pair /\ Composes(q) /\ Names(index[q], Composition(q))
      BY <1>3 DEF Tears, TypeOK, Sorted, FindingsStayTrue
    <2> QED
      BY <1>3, <2>1 DEF Tears, TypeOK
  <1> QED
    BY <1>1, <1>2, <1>3, ResolverSteps DEF tree

\* What is written over was unedited.
LEMMA StepSparesManualWork ==
    ASSUME MergeInvariant, [Next]_vars, resolver' # resolver, NEW p \in manual,
           file'[p].record # file[p].record
    PROVE  file[p].record \in {Ours(p, "record"), Theirs(p, "record"), FallbackRecord(p),
                               Annotated}
  <1> USE DEF MergeInvariant
  <1>1. p \in Pair
    BY DEF TypeOK
  <1>2. PICK q \in queue : pc = "write" /\ \E v : file' = [file EXCEPT ![q].record = v]
    BY ResolverSteps DEF StageSidecars, WriteSidecar, Tears, tree
  <1>3. q = p
    BY <1>1, <1>2 DEF TypeOK
  <1>4. Unedited(p)
    BY <1>1, <1>2, <1>3 DEF Sorted, FindingsStayTrue
  <1> QED
    BY <1>4 DEF Unedited, ManualIsNotMarked

--------------------------------------------------------------------------------
(* Theorems *)

\* What the resolver has found out stays true until it acts on it, provided nobody
\* edits the files beside it: the strengthening the other theorems follow from.
THEOREM MergeInvariantCorrect ==
    ASSUME "beside" \notin Events
    PROVE  Spec => []MergeInvariant
  <1>1. MergeInvariant /\ [Next]_vars => MergeInvariant'
    BY InvariantStep
  <1> QED
    BY <1>1, InvariantInit, PTL DEF Spec

\* The state is well typed while the user and the resolver take turns.
THEOREM TypeCorrect ==
    ASSUME "beside" \notin Events
    PROVE  Spec => []TypeOK
  <1>1. MergeInvariant => TypeOK
    BY DEF MergeInvariant
  <1> QED
    BY <1>1, MergeInvariantCorrect, PTL

\* For any pairs, documents and histories: branches that verify merge to an index
\* that verifies, in the structure driver_main checks and in the generated regions
\* it does not.
THEOREM VerifiedBranchesMergeVerifiedHolds ==
    ASSUME "beside" \notin Events
    PROVE  Spec => []VerifiedBranchesMergeVerified
  BY InvariantMergesVerified, MergeInvariantCorrect, PTL

\* resolve_conflicts stages only records of owners that are staged and in the
\* working tree as recorded, and touches nothing else, even when a write is cut
\* short and the run repeated.
THEOREM OnlyProvenRecordsStagedHolds ==
    ASSUME "beside" \notin Events
    PROVE  Spec => OnlyProvenRecordsStaged
  <1>1. MergeInvariant /\ [Next]_vars =>
           [ resolver' # resolver =>
               \A p \in Pair :
                   /\ index'[p] # index[p] =>
                         /\ index'[p] = [index[p] EXCEPT !.record = Composition(p)]
                         /\ Composes(p)
                         /\ Names(index[p], Composition(p))
                         /\ Names(file[p], Composition(p))
                   /\ file'[p] # file[p] =>
                         /\ file'[p] \in {[file[p] EXCEPT !.record = r] :
                                              r \in {Composition(p), Torn}}
                         /\ Composes(p) /\ Names(index[p], Composition(p))
           ]_vars
    BY StepStagesProven
  <1> QED
    BY <1>1, MergeInvariantCorrect, PTL DEF Spec, OnlyProvenRecordsStaged

\* resolve_conflicts neither replaces nor cuts short a sidecar that the user wrote
\* between its runs, unless it says what a branch or the text merge says, or still
\* holds the markers and every data line of both sides, which the code takes for
\* an unedited conflict.
THEOREM ManualWorkSurvivesHolds ==
    ASSUME "beside" \notin Events
    PROVE  Spec => ManualWorkSurvives
  <1>1. MergeInvariant /\ [Next]_vars =>
           [ \A p \in manual :
               resolver' # resolver /\ file'[p].record # file[p].record =>
                   file[p].record \in {Ours(p, "record"), Theirs(p, "record"), FallbackRecord(p),
                                       Annotated}
           ]_vars
    BY StepSparesManualWork
  <1> QED
    BY <1>1, MergeInvariantCorrect, PTL DEF Spec, ManualWorkSurvives
================================================================================

------------------------------ MODULE PairingMerge ------------------------------
(***************************************************************************)
(* A Git merge of branches that edit bilingual pairs, with the merge       *)
(* driver and the resolver of src/hdsh/pairing/merge.py.  A pair is an     *)
(* English and a Chinese owner and the sidecar that records the blob hash  *)
(* of each.  Git merges the owners itself; the driver composes the sidecar *)
(* from the three records alone, and `hdsh pairing merge --resolve` does   *)
(* the same later for what the merge left unresolved.                      *)
(*                                                                         *)
(* A document is a function from hunks to revisions: hunks merge           *)
(* independently, as in Git's text merge.  A blob hash stands for its      *)
(* content.  What the gate compares across languages is the structure of   *)
(* each hunk (headings, code, lists, tables, links, switcher) and its      *)
(* generated text.  The driver runs while Git has written nothing yet; the *)
(* resolver reads and writes step by step and may fail or be killed        *)
(* anywhere.  The user works between its runs, or beside it.               *)
(***************************************************************************)

CONSTANTS
    Pair,           \* the bilingual pairs both branches know
    Hunk,           \* the pieces of a document
    Rev,            \* the revisions of a hunk
    Structure,      \* what the structural signature says of a revision
    Region,         \* the generated text of a revision
    History,        \* what may have happened to a pair on the two branches
    Events,         \* what may go wrong and what the user may do, a bound
    Gone,           \* a file that does not exist
    Unmerged,       \* an index entry with conflict stages
    Marked,         \* a file with conflict markers, or no valid record
    Annotated,      \* one the user changed, its markers and both records' lines kept
    Edited,         \* any other sidecar the user wrote
    Torn,           \* a sidecar whose writing was cut short
    NoRecord,
    NoPair

VARIABLES
    history,        \* the three versions of each pair, and its attributes
    phase,          \* "merging", "stopped", "merged" or "aborted"
    index,          \* stage zero of the three files of each pair
    file,           \* the same files in the working tree
    pc,             \* the next step of the resolver
    queue,          \* unmerged sidecars it has still to examine
    at,             \* the one it is examining
    composed,       \* resolutions: the records it has proven
    failures,       \* the sidecars it has refused
    touched,        \* pairs the user has worked on
    manual          \* sidecars in the working tree that are the user's work

merge    == <<history, phase>>
tree     == <<index, file>>
resolver == <<pc, queue, at, composed, failures>>
user     == <<touched, manual>>
vars     == <<merge, tree, resolver, user>>

Doc    == [Hunk -> Rev]
Record == [en : Doc, zh : Doc]
Owner  == {"en", "zh"}

\* `hdsh pairing record` hashes whatever the two files hold.
Sidecars == [en : Doc \union {Marked}, zh : Doc \union {Marked}]

\* One version of a pair: its owners and its sidecar, which need not agree.
Side == [en : Doc \union {Gone}, zh : Doc \union {Gone},
         record : Record \union {Marked, Gone}]

(* A history also says whether the owners use Git's default text merge and *)
(* whether a comment keeps the two lines of the record apart.              *)
Histories == [base : Side, ours : Side, theirs : Side, text : BOOLEAN, apart : BOOLEAN]

ASSUME HistoryAssumption == History \subseteq Histories
ASSUME ValuesDiffer ==
    /\ {Gone, Unmerged, Marked} \intersect Doc = {}
    /\ {Gone, Unmerged, Marked, Annotated, Edited, Torn, NoRecord} \intersect Sidecars = {}
    /\ Unmerged \notin {Gone, Marked, Annotated, Edited, Torn}
    /\ Marked \notin {Gone, Annotated, Edited, Torn}
    /\ NoPair \notin Pair

--------------------------------------------------------------------------------
(* Three-way merges *)

Clash(b, o, t) == o # b /\ t # b /\ o # t
Pick(b, o, t)  == IF o = b THEN t ELSE o

\* git merge-file of three documents.
MergesCleanly(b, o, t) == \A h \in Hunk : ~Clash(b[h], o[h], t[h])
TextMerge(b, o, t)     == [h \in Hunk |-> Pick(b[h], o[h], t[h])]

\* The same structure and the same generated text, hunk by hunk.
SameStructure(en, zh) == \A h \in Hunk : Structure[en[h]] = Structure[zh[h]]
SameRegions(en, zh)   == \A h \in Hunk : Region[en[h]] = Region[zh[h]]

\* `hdsh pairing verify` finds the pair consistent.
Verifies(side) ==
    /\ side.record = [en |-> side.en, zh |-> side.zh]
    /\ SameStructure(side.en, side.zh)
    /\ SameRegions(side.en, side.zh)

\* The three versions of an owner or of the sidecar.
Base(p, f)   == history[p].base[f]
Ours(p, f)   == history[p].ours[f]
Theirs(p, f) == history[p].theirs[f]

\* merge_records up to the blobs: what the driver would record, if it can.
Composition(p) ==
    LET merged(f) == TextMerge(Base(p, "record")[f], Ours(p, "record")[f],
                               Theirs(p, "record")[f])
    IN  [en |-> merged("en"), zh |-> merged("zh")]

\* Mistake (mutation runs only): the merge attribute of the owners is ignored.
ComposesAnyOwner(p) ==
    /\ {Base(p, "record"), Ours(p, "record"), Theirs(p, "record")} \subseteq Record
    /\ \A f \in Owner : MergesCleanly(Base(p, "record")[f], Ours(p, "record")[f],
                                      Theirs(p, "record")[f])
    /\ SameStructure(Composition(p).en, Composition(p).zh)

\* merge_records does not raise: the owners use the text merge, the records are
\* valid, both languages merge cleanly and keep the same structure.
Composes(p) ==
    /\ history[p].text
    /\ {Base(p, "record"), Ours(p, "record"), Theirs(p, "record")} \subseteq Record
    /\ \A f \in Owner : MergesCleanly(Base(p, "record")[f], Ours(p, "record")[f],
                                      Theirs(p, "record")[f])
    /\ SameStructure(Composition(p).en, Composition(p).zh)

\* git merge-file of the records as text: two lines, one for each owner, which
\* merge independently only when they are not adjacent.
FallbackRecord(p) ==
    LET b == Base(p, "record")
        o == Ours(p, "record")
        t == Theirs(p, "record")
    IN  IF /\ history[p].apart
           /\ {b, o, t} \subseteq Record
           /\ \A f \in Owner : ~Clash(b[f], o[f], t[f])
        THEN [en |-> Pick(b.en, o.en, t.en), zh |-> Pick(b.zh, o.zh, t.zh)]
        ELSE Marked

--------------------------------------------------------------------------------
(* Git's merge of one file: the stage-zero entry and the working-tree file. *)

Both(v) == [stage |-> v, file |-> v]
Conflict(v) == [stage |-> Unmerged, file |-> v]

\* The version that Git keeps in the working tree when one side deleted it.
Survivor(p, f) == IF Ours(p, f) = Gone THEN Theirs(p, f) ELSE Ours(p, f)

\* Only one side changed the file, or both changed it alike.
Trivial(p, f) == ~Clash(Base(p, f), Ours(p, f), Theirs(p, f))

MergedOwner(p, f) ==
    IF Trivial(p, f) THEN {Both(Pick(Base(p, f), Ours(p, f), Theirs(p, f)))}
    ELSE IF Gone \in {Ours(p, f), Theirs(p, f)} THEN {Conflict(Survivor(p, f))}
    ELSE IF ~history[p].text
         THEN {Conflict(Marked), Both(Ours(p, f)), Both(Theirs(p, f))}
    ELSE IF Base(p, f) # Gone /\ MergesCleanly(Base(p, f), Ours(p, f), Theirs(p, f))
         THEN {Both(TextMerge(Base(p, f), Ours(p, f), Theirs(p, f)))}
    ELSE {Conflict(Marked)}

\* driver_main: the composed record, or an ordinary text conflict with the index
\* stages left; when that fails too, or the driver cannot start, the file is ours.
Driver(p) ==
    (IF Composes(p) THEN {Both(Composition(p))} ELSE {Conflict(FallbackRecord(p))})
    \union (IF "git fails" \in Events
            THEN {Conflict(FallbackRecord(p)), Conflict(Ours(p, "record"))} ELSE {})
    \union (IF "no runtime" \in Events THEN {Conflict(Ours(p, "record"))} ELSE {})

MergedSidecar(p) ==
    IF Trivial(p, "record")
    THEN {Both(Pick(Base(p, "record"), Ours(p, "record"), Theirs(p, "record")))}
    ELSE IF Gone \in {Ours(p, "record"), Theirs(p, "record")}
         THEN {Conflict(Survivor(p, "record"))}
    ELSE Driver(p)

Init ==
    /\ history \in [Pair -> History]
    /\ phase = "merging"
    /\ index = [p \in Pair |-> history[p].ours]
    /\ file = index
    /\ pc = "idle"
    /\ queue = {}
    /\ at = NoPair
    /\ composed = [p \in Pair |-> NoRecord]
    /\ failures = {}
    /\ touched = {}
    /\ manual = {}

\* `git merge`: every path is merged, then the index and the files are written.
GitMerge ==
    /\ phase = "merging"
    /\ \E en \in {f \in [Pair -> UNION {MergedOwner(p, "en") : p \in Pair}] :
                     \A p \in Pair : f[p] \in MergedOwner(p, "en")},
          zh \in {f \in [Pair -> UNION {MergedOwner(p, "zh") : p \in Pair}] :
                     \A p \in Pair : f[p] \in MergedOwner(p, "zh")},
          record \in {f \in [Pair -> UNION {MergedSidecar(p) : p \in Pair}] :
                     \A p \in Pair : f[p] \in MergedSidecar(p)} :
          /\ index' = [p \in Pair |-> [en |-> en[p].stage, zh |-> zh[p].stage,
                                       record |-> record[p].stage]]
          /\ file' = [p \in Pair |-> [en |-> en[p].file, zh |-> zh[p].file,
                                      record |-> record[p].file]]
    /\ phase' = IF \A p \in Pair : Unmerged \notin {index'[p].en, index'[p].zh, index'[p].record}
                THEN "merged" ELSE "stopped"
    /\ UNCHANGED <<history, resolver, user>>

--------------------------------------------------------------------------------
(* hdsh pairing merge --resolve *)

Step == {"idle", "examine", "staged", "files", "write", "add"}

\* The command ends, whatever it has done.
Ends ==
    /\ pc' = "idle"
    /\ queue' = {}
    /\ at' = NoPair
    /\ composed' = [p \in Pair |-> NoRecord]
    /\ failures' = {}

\* _unmerged_sidecars
StartResolve ==
    /\ phase = "stopped"
    /\ pc = "idle"
    /\ queue' = {p \in Pair : index[p].record = Unmerged}
    /\ queue' # {}
    /\ pc' = "examine"
    /\ UNCHANGED <<merge, tree, at, composed, failures, user>>

\* Mistake (mutation runs only): the first pair that fails ends the command.
RefuseAll(p) == p \in queue /\ Ends

\* Mistake (mutation runs only): a refused sidecar is examined again.
RefuseAndRetry(p) ==
    /\ failures' = failures \union {p}
    /\ at' = NoPair
    /\ pc' = "examine"
    /\ UNCHANGED <<queue, composed>>

\* One sidecar fails; the others are still examined.
Refuse(p) ==
    /\ failures' = failures \union {p}
    /\ queue' = queue \ {p}
    /\ at' = NoPair
    /\ pc' = "examine"
    /\ UNCHANGED composed

\* Mistake (mutation runs only): the data lines of both sides are looked for, but
\* not the conflict markers.
UneditedIfLinesKept(p) ==
    file[p].record \in {Ours(p, "record"), Theirs(p, "record"), FallbackRecord(p), Marked,
                        Annotated, Edited}

\* _assert_unedited_sidecar: one side's record, a clean text merge of the two, or
\* a file that holds the markers and every data line of both sides, whatever else
\* it holds.
Unedited(p) ==
    file[p].record \in {Ours(p, "record"), Theirs(p, "record"), FallbackRecord(p), Marked,
                        Annotated}

\* The stages are complete, the file is as Git left it and the records compose.
ExamineSidecar(p) ==
    /\ pc = "examine"
    /\ p \in queue
    /\ \/ /\ Gone \notin {Base(p, "record"), Ours(p, "record"), Theirs(p, "record")}
          /\ Unedited(p)
          /\ Composes(p)
          /\ at' = p
          /\ pc' = "staged"
          /\ UNCHANGED <<queue, composed, failures>>
       \/ /\ \/ Gone \in {Base(p, "record"), Ours(p, "record"), Theirs(p, "record")}
             \/ ~Unedited(p)
             \/ ~Composes(p)
             \/ "git fails" \in Events
          /\ Refuse(p)
    /\ UNCHANGED <<merge, tree, user>>

Names(versions, record) == \A f \in Owner : versions[f] = record[f]

\* Git's own merge of the owners, as staged, is the one that was composed.
ExamineStaged ==
    /\ pc = "staged"
    /\ \/ /\ Names(index[at], Composition(at))
          /\ pc' = "files"
          /\ UNCHANGED <<queue, at, composed, failures>>
       \/ ~Names(index[at], Composition(at)) /\ Refuse(at)
    /\ UNCHANGED <<merge, tree, user>>

\* Mistake (mutation runs only): unstaged content is not compared.
ExamineFilesNothing ==
    /\ pc = "files"
    /\ composed' = [composed EXCEPT ![at] = Composition(at)]
    /\ queue' = queue \ {at}
    /\ at' = NoPair
    /\ pc' = "examine"
    /\ UNCHANGED <<merge, tree, failures, user>>

\* And so is what the working tree holds.
ExamineFiles ==
    /\ pc = "files"
    /\ \/ /\ Names(file[at], Composition(at))
          /\ composed' = [composed EXCEPT ![at] = Composition(at)]
          /\ queue' = queue \ {at}
          /\ at' = NoPair
          /\ pc' = "examine"
          /\ UNCHANGED failures
       \/ ~Names(file[at], Composition(at)) /\ Refuse(at)
    /\ UNCHANGED <<merge, tree, user>>

Resolved == {p \in Pair : composed[p] # NoRecord}

\* Every sidecar is examined: write, or report that nothing was safe.
EndExamination ==
    /\ pc = "examine"
    /\ queue = {}
    /\ \/ /\ Resolved # {}
          /\ pc' = "write"
          /\ queue' = Resolved
          /\ UNCHANGED <<at, composed, failures>>
       \/ Resolved = {} /\ Ends
    /\ UNCHANGED <<merge, tree, user>>

\* Path.write_text of one record; after the last, `git add`.
WriteSidecar(p) ==
    /\ pc = "write"
    /\ p \in queue
    /\ file' = [file EXCEPT ![p].record = composed[p]]
    /\ manual' = manual \ {p}
    /\ queue' = queue \ {p}
    /\ pc' = IF queue = {p} THEN "add" ELSE "write"
    /\ UNCHANGED <<merge, index, at, composed, failures, touched>>

\* One `git add` of what the written files hold by now; then the failures are
\* reported.
StageSidecars ==
    /\ pc = "add"
    /\ index' = [p \in Pair |-> IF p \in Resolved
                                THEN [index[p] EXCEPT !.record = file[p].record] ELSE index[p]]
    /\ Ends
    /\ UNCHANGED <<merge, file, user>>

\* A write or `git add` fails (the index is locked), or the command is killed.
\* Path.write_text truncates first: the sidecar being written may be left cut short.
Fails ==
    /\ \/ "write fails" \in Events /\ pc \in {"write", "add"}
       \/ "kill" \in Events /\ pc # "idle"
    /\ \/ UNCHANGED <<file, manual>>
       \/ /\ pc = "write"
          /\ \E p \in queue : /\ file' = [file EXCEPT ![p].record = Torn]
                             /\ manual' = manual \ {p}
    /\ Ends
    /\ UNCHANGED <<merge, index, touched>>

Resolve ==
    \/ \E p \in Pair : ExamineSidecar(p) \/ WriteSidecar(p)
    \/ ExamineStaged \/ ExamineFiles \/ EndExamination \/ StageSidecars

--------------------------------------------------------------------------------
(* The user, while the merge is stopped. *)

Works ==
    /\ "user" \in Events
    /\ phase = "stopped"
    /\ "beside" \in Events \/ pc = "idle"

\* An owner conflict is settled, or an owner changed, in favour of one branch.
EditOwner(p, f) ==
    /\ Works
    /\ \E v \in {Ours(p, f), Theirs(p, f)} :
          /\ v # file[p][f]
          /\ file' = [file EXCEPT ![p][f] = v]
    /\ touched' = touched \union {p}
    /\ UNCHANGED <<merge, index, resolver, manual>>

\* `git add` of an owner or of the sidecar.
Stage(p, f) ==
    /\ Works
    /\ index[p][f] # file[p][f]
    /\ index' = [index EXCEPT ![p][f] = file[p][f]]
    /\ touched' = touched \union {p}
    /\ UNCHANGED <<merge, file, resolver, manual>>

\* The sidecar is written by hand, over the conflict or within it, or by `hdsh
\* pairing record` for the pair.
EditSidecar(p) ==
    /\ Works
    /\ \/ file' = [file EXCEPT ![p].record = Edited]
       \/ file[p].record = Marked /\ file' = [file EXCEPT ![p].record = Annotated]
       \/ /\ Gone \notin {file[p].en, file[p].zh}
          /\ file' = [file EXCEPT ![p].record = [en |-> file[p].en, zh |-> file[p].zh]]
    /\ file' # file
    /\ touched' = touched \union {p}
    /\ manual' = manual \union {p}
    /\ UNCHANGED <<merge, index, resolver>>

\* git merge --abort
Abort ==
    /\ Works
    /\ phase' = "aborted"
    /\ index' = [p \in Pair |-> history[p].ours]
    /\ file' = index'
    /\ manual' = {}
    /\ UNCHANGED <<history, resolver, touched>>

User ==
    \/ \E p \in Pair : \/ \E f \in Owner : EditOwner(p, f) \/ Stage(p, f)
                       \/ Stage(p, "record")
                       \/ EditSidecar(p)
    \/ Abort

Next == GitMerge \/ StartResolve \/ Resolve \/ Fails \/ User

Spec == Init /\ [][Next]_vars

\* The user runs the resolver, and a run that has begun is scheduled.
FairSpec == Spec /\ WF_vars(GitMerge) /\ WF_vars(StartResolve) /\ WF_vars(Resolve)

--------------------------------------------------------------------------------
(* Properties *)

Version == Doc \union {Gone, Unmerged, Marked}
Sidecar == Sidecars \union {Gone, Unmerged, Marked, Annotated, Edited, Torn}

\* Conflict stages are in the index only; a sidecar is examined exactly between
\* the steps that do so; none is both queued and refused.
TypeOK ==
    /\ history \in [Pair -> Histories]
    /\ phase \in {"merging", "stopped", "merged", "aborted"}
    /\ {index, file} \subseteq [Pair -> [en : Version, zh : Version, record : Sidecar]]
    /\ \A p \in Pair : Unmerged \notin {file[p].en, file[p].zh, file[p].record}
    /\ pc \in Step
    /\ queue \subseteq Pair
    /\ at \in Pair \union {NoPair}
    /\ pc \in {"staged", "files"} <=> at # NoPair
    /\ composed \in [Pair -> Record \union {NoRecord}]
    /\ failures \subseteq Pair
    /\ queue \intersect failures = {}
    /\ manual \subseteq touched /\ touched \subseteq Pair

\* The merge and the resolver take turns with the user.
TakingTurns ==
    /\ phase = "merging" => touched = {} /\ manual = {}
    /\ phase # "stopped" => pc = "idle"
    /\ pc = "idle" => queue = {} /\ failures = {} /\ \A p \in Pair : composed[p] = NoRecord

\* A sidecar is queued, refused or composed.
Sorted ==
    /\ pc \in {"staged", "files"} => at \in queue
    /\ pc \in {"examine", "staged", "files"} => \A p \in queue : composed[p] = NoRecord
    /\ pc = "write" => \A p \in queue : composed[p] # NoRecord
    /\ pc = "add" => queue = {}
    /\ \A p \in failures : composed[p] = NoRecord

\* What Git staged for a pair stays staged; a sidecar is also staged when composed.
GitsWorkStays ==
    \A p \in Pair \ touched :
        /\ phase \in {"stopped", "merged"} =>
              /\ \A f \in Owner : \E m \in MergedOwner(p, f) : index[p][f] = m.stage
              /\ \/ \E m \in MergedSidecar(p) : index[p].record = m.stage
                 \/ Composes(p) /\ index[p].record = Composition(p)
        /\ phase = "aborted" => index[p] = history[p].ours

\* What the resolver has found out stays true, and its sidecars hold what it wrote.
FindingsStayTrue ==
    /\ \A p \in Pair : at = p =>
          /\ Composes(p)
          /\ Unedited(p)
          /\ pc = "files" => Names(index[p], Composition(p))
    /\ \A p \in Pair : composed[p] # NoRecord =>
          /\ composed[p] = Composition(p)
          /\ Composes(p)
          /\ Names(index[p], Composition(p))
          /\ Names(file[p], Composition(p))
          /\ IF pc = "add" \/ (pc = "write" /\ p \notin queue)
             THEN file[p].record = composed[p] ELSE Unedited(p)

\* Nothing but Git writes conflict markers.
ManualIsNotMarked == \A p \in manual : file[p].record # Marked

\* Inductive while the user does not work beside a running resolver.
MergeInvariant ==
    TypeOK /\ TakingTurns /\ Sorted /\ GitsWorkStays /\ FindingsStayTrue /\ ManualIsNotMarked

\* A pair that every branch had confirmed and verified.
Confirmed(p) == \A side \in {history[p].base, history[p].ours, history[p].theirs} :
    IF side.record = Gone THEN side.en = Gone /\ side.zh = Gone
    ELSE /\ side.record \in Record /\ Gone \notin {side.en, side.zh} /\ Verifies(side)

\* When every branch had verified a pair, so does its merge: whoever resolved the
\* sidecar (Git, the driver or the resolver), the staged record names the owners
\* Git itself merged and staged, and they have the same structure and the same
\* generated regions, which merge.py does not look at.  Pairs merge whole: a
\* sidecar that is gone leaves no owner.
VerifiedBranchesMergeVerified ==
    \A p \in Pair \ touched :
        phase # "merging" /\ Confirmed(p) /\ index[p].record # Unmerged =>
            IF index[p].record = Gone THEN index[p].en = Gone /\ index[p].zh = Gone
            ELSE Verifies(index[p])

\* "refuses to overwrite edited conflict content": a sidecar the user wrote, by
\* hand or with `hdsh pairing record`, between runs of the resolver is never
\* replaced or cut short by a later run, with two exceptions the code makes: it
\* says what one of the branches said, or it still holds the conflict markers and
\* every data line of both sides.
ManualWorkSurvives ==
    [][ \A p \in manual :
          resolver' # resolver /\ file'[p].record # file[p].record =>
              file[p].record \in {Ours(p, "record"), Theirs(p, "record"), FallbackRecord(p),
                                  Annotated}
      ]_vars

\* The resolver stages a record only for owners that are staged and in the
\* working tree exactly as recorded, and leaves every other pair as it was:
\* drifted records, hand-made merges, unstaged edits and what a run that was cut
\* off while writing left of a sidecar included.
OnlyProvenRecordsStaged ==
    [][ resolver' # resolver =>
          \A p \in Pair :
              /\ index'[p] # index[p] =>
                    /\ index'[p] = [index[p] EXCEPT !.record = Composition(p)]
                    /\ Composes(p)
                    /\ Names(index[p], Composition(p))
                    /\ Names(file[p], Composition(p))
              /\ file'[p] # file[p] =>
                    /\ file'[p] \in {[file[p] EXCEPT !.record = r] : r \in {Composition(p), Torn}}
                    /\ Composes(p) /\ Names(index[p], Composition(p))
      ]_vars

\* A pair the driver could not compose (hdsh was not available) but that is safe
\* is resolved by the resolver, whatever conflicts other pairs have, when no write
\* fails: a sidecar that was cut short is refused from then on.
SafeRecordsGetResolved ==
    \A p \in Pair :
        (phase = "stopped" /\ Composes(p) /\ Names(index[p], Composition(p)))
            ~> index[p].record # Unmerged

================================================================================

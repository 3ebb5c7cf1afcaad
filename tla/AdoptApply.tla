------------------------------ MODULE AdoptApply ------------------------------
(***************************************************************************)
(* `hdsh adopt apply` and `hdsh adopt verify` (src/hdsh/adopt).  Apply is  *)
(* preflight, then one write per destination, then one pairing record per  *)
(* installed pair, then the adopt manifest; a later apply, of the same or  *)
(* a newer release, reads the manifest back.  Between and during runs the  *)
(* consumer edits, completes, deletes and commits files, and a run may die *)
(* at any step.                                                            *)
(*                                                                         *)
(* A file is what the decisions tell apart: who wrote it, which release    *)
(* rendered it, and the part of it that is the consumer's (the answer in a *)
(* slot, lines in a shared file, merged anchors).  A digest is the content *)
(* itself.  The two sides of a bilingual pair are one destination, and a   *)
(* slot template has one slot.                                             *)
(***************************************************************************)
EXTENDS Naturals, FiniteSets, Sequences

CONSTANTS
    MirroredFiles,  \* upstream-owned files without a pair record
    MirroredPairs,  \* upstream-owned bilingual pairs
    TemplatePairs,  \* pairs installed as templates the consumer completes
    SlotTemplates,  \* skills whose slots the consumer fills
    Shared,         \* prek.toml, .gitattributes
    RfcAnchors,     \* the dated adoption RFC, one anchor per day
    Guidance,       \* the guidance of the slots, per release
    Preexisting,    \* destinations the consumer's repository already holds
    Contended,      \* bound: what the consumer may edit while apply runs
    MaxEdits,       \* bound: edits of the consumer
    MaxRuns         \* bound: apply runs that pass preflight

RootOrders      == "AGENTS.md"
DocsOrders      == "docs/AGENTS.md"
PairingManifest == ".hdsh/pairing.manifest.json"
IssueConfig     == "config.json"

Orders   == {RootOrders, DocsOrders}
Config   == {PairingManifest, IssueConfig}
Editable == TemplatePairs \union {RootOrders}
Releases == 1..Len(Guidance)
Days     == 1..Len(RfcAnchors)
Rfcs     == {RfcAnchors[day] : day \in Days}
Dest     == MirroredFiles \union MirroredPairs \union TemplatePairs \union
            SlotTemplates \union Shared \union Orders \union Config \union Rfcs

\* The parameters the wizard derives when their flag is absent.
Flags == {"--hdsh-ref", "--account-type", "--lifecycle-actor", "--time-zone"}

Mirrored == MirroredFiles \union MirroredPairs

\* No destination is of two kinds, something is mirrored, and the anchor of the
\* adoption RFC holds its date.
ASSUME AdoptAssumption ==
    /\ Len(Guidance) \in Nat \ {0} /\ Len(RfcAnchors) \in Nat \ {0}
    /\ MaxEdits \in Nat /\ MaxRuns \in Nat
    /\ \A S \in {MirroredFiles, MirroredPairs, TemplatePairs, SlotTemplates, Shared} :
         S \intersect (Orders \union Config \union Rfcs) = {}
    /\ (Orders \union Config) \intersect Rfcs = {}
    /\ MirroredFiles \intersect MirroredPairs = {} /\ Mirrored # {}
    /\ Mirrored \intersect (TemplatePairs \union SlotTemplates \union Shared) = {}
    /\ TemplatePairs \intersect (SlotTemplates \union Shared) = {}
    /\ SlotTemplates \intersect Shared = {}
    /\ \A i, j \in Days : RfcAnchors[i] = RfcAnchors[j] => i = j
    /\ Preexisting \subseteq Dest

--------------------------------------------------------------------------------
(* Contents. *)

Bytes(by, release, part) == [by |-> by, release |-> release, part |-> part]

Part(kind, guidance) == [kind |-> kind, guidance |-> guidance]

Nothing  == Part("nothing", 0)
Lines    == Part("lines", 0)     \* the consumer's own entries of a shared file
Anchors  == Part("anchors", 0)   \* the harness anchors, merged by hand
Asks(g)  == Part("asks", g)      \* a slot that still holds its guidance
Fills(g) == Part("fills", g)     \* a slot the consumer filled in answer to g

Absent == Bytes("nobody", 0, Nothing)
Own    == Bytes("consumer", 0, Nothing)
Merged == Bytes("consumer", 0, Anchors)
Broken == Bytes("broken", 0, Nothing)   \* torn, malformed or contradicting the flags
Up(r)  == Bytes("hdsh", r, Nothing)

VARIABLES
    disk,       \* destination -> content
    record,     \* pair -> the content its consistency record names
    manifest,   \* .hdsh/adopt.manifest.json
    dirty,      \* `git status --porcelain` reports a change
    head,       \* the files as last committed
    release,    \* the installed hdsh
    day,        \* today in the Project's time zone
    pc,         \* "idle" or the phase of the running apply
    plan,       \* the AdoptionPlan of the running apply
    todo,       \* destinations, then pairs, the phase has still to do
    exit,       \* how the last apply ended
    touched,    \* history: edited by the consumer since the last preflight
    unvouched,  \* history: a run ended with files on disk and no valid manifest
    edits, runs \* counters of the bounds

consumer == <<release, day, edits>>
vars == <<disk, record, manifest, dirty, head, pc, plan, todo, exit, touched,
          unvouched, runs, consumer>>

NoManifest == [state |-> "none", release |-> 0, files |-> <<>>, editable |-> {},
               pending |-> {}, guidance |-> <<>>, date |-> 0]
NoPlan     == [writes |-> <<>>, records |-> {}, pending |-> {}, guidance |-> <<>>,
               date |-> 0, release |-> 0]

Init ==
    /\ disk = [d \in Dest |-> IF d \in Preexisting
                              THEN IF d \in Shared THEN Bytes("consumer", 0, Lines) ELSE Own
                              ELSE Absent]
    /\ head = disk
    /\ record = [d \in MirroredPairs \union TemplatePairs \union Rfcs |-> Absent]
    /\ manifest = NoManifest /\ dirty = FALSE /\ release = 1 /\ day = 1
    /\ pc = "idle" /\ plan = NoPlan /\ todo = {} /\ exit = "none"
    /\ touched = {} /\ unvouched = FALSE /\ edits = 0 /\ runs = 0

--------------------------------------------------------------------------------
(* Preflight. *)

Exists(d) == disk[d] # Absent

\* load_manifest rejects the file: a blocker, and no baseline.
Malformed == manifest.state = "broken"

\* The manifest of the previous adoption, if it is there and valid.
Previous == IF manifest.state = "valid" THEN manifest ELSE NoManifest

\* Mistake (mutation runs only): every run asks the clock.
AdoptionDateToday == day

\* The adoption date: reused from the manifest, else derived from the clock.
AdoptionDate == IF Previous.date # 0 THEN Previous.date ELSE day

\* A template pair adoption has not installed: left alone with its record.
ConsumerOwned(d) == d \in TemplatePairs /\ Exists(d) /\ d \notin Previous.editable

\* Mistake (mutation runs only): a filled slot survives whatever it answered.
SlotValueKept(d) ==
    IF disk[d].part.kind = "fills" THEN disk[d].part ELSE Asks(Guidance[release])

\* parse_slots: what stands between the markers of a slot file.  A consumer's
\* file without markers has no slot; unbalanced markers are a blocker.
Slot(d) == disk[d].part
SlotMalformed(d) == d \in SlotTemplates /\ disk[d] = Broken

\* The value apply puts in a slot: the consumer's, if the guidance is the one
\* recorded at the last apply, else the guidance of this release.
SlotValue(d) ==
    LET fresh == Asks(Guidance[release])
        known == d \in DOMAIN Previous.guidance /\ Previous.guidance[d] = Guidance[release]
    IN  IF Slot(d) # Nothing /\ Slot(d) # fresh /\ known THEN Slot(d) ELSE fresh

\* The consumer's part of a rendered slot file or shared file survives around
\* (or inside) what hdsh owns; everything else is rendered from the templates.
SplicedSlots(d) == Bytes("hdsh", release, SlotValue(d))

\* Mistake (mutation runs only): the managed block replaces the whole shared file.
WholeFile(d) == Bytes("hdsh", release, Nothing)

\* The managed block is inserted or replaced between its markers.
WithManagedBlock(d) == Bytes("hdsh", release, disk[d].part)

\* prek.toml does not parse, .gitattributes maps the records elsewhere.
SharedRefused(d) == d \in Shared /\ disk[d] = Broken

\* What this release would install.
Rendered(d) ==
    IF d \in Shared THEN WithManagedBlock(d)
    ELSE IF d \in SlotTemplates THEN SplicedSlots(d) ELSE Up(release)

\* Every write preflight considers, before the clobber check.
Considered ==
    ((Dest \ Rfcs) \union {RfcAnchors[AdoptionDate]}) \ {d \in TemplatePairs : ConsumerOwned(d)}

\* Mistake (mutation runs only): only the digest of the manifest vouches.
VouchedByManifest(d) ==
    d \in DOMAIN Previous.files /\ disk[d] = Previous.files[d]

\* Bytes a plain destination may hold and still be replaced: the planned
\* ones, or the ones the manifest recorded.
Vouched(d) ==
    \/ disk[d] = Rendered(d)
    \/ d \in DOMAIN Previous.files /\ disk[d] = Previous.files[d]

\* _plan_clobbers: replaced without looking, left alone, or compared.
Replaced == {d \in Considered : d \in Shared \union SlotTemplates \/ ~Exists(d)}

\* Mistake (mutation runs only): an existing mirrored pair is left alone too.
LeftAloneWithPairs ==
    (Considered \ Replaced) \intersect (Config \union Orders \union Editable \union MirroredPairs)

LeftAlone == (Considered \ Replaced) \intersect (Config \union Orders \union Editable)
Compared == Considered \ (Replaced \union LeftAlone)

Kept == Replaced \union {d \in Compared : Vouched(d)}

\* config.json is a binding input: unreadable, or contradicting a flag.
ContradictsConfig == disk[IssueConfig] = Broken

\* Everything but the dirty worktree that refuses the run.  The pairing
\* manifest is not looked at.
Blockers ==
    {d \in Compared : ~Vouched(d)} \union
    {d \in Dest : SharedRefused(d) \/ SlotMalformed(d) \/ (d = IssueConfig /\ ContradictsConfig)}
    \union (IF Malformed THEN {"manifest"} ELSE {})

\* Parameters neither given, nor bound by config.json, nor derivable.
Unresolved(given, derivable) ==
    IF Exists(IssueConfig) THEN {} ELSE Flags \ (given \union derivable)

\* With a config.json no wizard runs, and a ref that was not given is None:
\* rendering the templates raises before any blocker is reported.
RenderingRaises(given) == Exists(IssueConfig) /\ "--hdsh-ref" \notin given

\* Mistake (mutation runs only): a dirty worktree is accepted.
RefusedUnlessClean(given, derivable) ==
    Blockers # {} \/ Unresolved(given, derivable) # {} \/ RenderingRaises(given)

Refused(given, derivable) ==
    dirty \/ Blockers # {} \/ Unresolved(given, derivable) # {} \/ RenderingRaises(given)

\* Mistake (mutation runs only): whatever is left alone awaits a merge.
PlannedMergesOfAll == LeftAlone

\* Standing orders the consumer has already: merged by hand.
PlannedMerges == LeftAlone \intersect Orders

\* The validated plan.  Records keep every installed pair, the template pairs
\* included whose write the clobber check drops.
AdoptionPlan ==
    [writes   |-> [d \in Kept |-> Rendered(d)],
     records  |-> (Considered \intersect (MirroredPairs \union TemplatePairs))
                  \union {RfcAnchors[AdoptionDate]},
     pending  |-> PlannedMerges,
     guidance |-> [d \in SlotTemplates |-> Guidance[release]],
     date     |-> AdoptionDate,
     release  |-> release]

\* gh answers or not; the ref and the time zone derive without it.
Derivations == {{}, {"--hdsh-ref", "--time-zone"}, Flags}

Refuse(given, derivable) ==
    /\ pc = "idle" /\ exit # "refused" /\ Refused(given, derivable)
    /\ exit' = "refused"
    /\ UNCHANGED <<head, disk, record, manifest, dirty, pc, plan, todo, touched, unvouched, runs,
                   consumer>>

Preflight(given, derivable) ==
    /\ pc = "idle" /\ runs < MaxRuns /\ ~Refused(given, derivable)
    /\ plan' = AdoptionPlan /\ todo' = Kept
    /\ pc' = "writing" /\ exit' = "none" /\ touched' = {} /\ runs' = runs + 1
    /\ UNCHANGED <<head, disk, record, manifest, dirty, unvouched, consumer>>

--------------------------------------------------------------------------------
(* The run. *)

\* The installation order of the plan.
Order ==
    <<Shared, MirroredFiles, MirroredPairs, TemplatePairs, {DocsOrders}, {RootOrders},
      {PairingManifest}, SlotTemplates, Rfcs, {IssueConfig}>>

IsNext(d) ==
    \E i \in DOMAIN Order :
        d \in Order[i] \intersect todo /\ \A j \in 1..(i - 1) : Order[j] \intersect todo = {}

\* The end of a run: what the next preflight no longer needs is forgotten.
End(how) ==
    /\ pc' = "idle" /\ exit' = how /\ todo' = {}
    /\ plan' = [NoPlan EXCEPT !.release = plan.release]

\* A run that ends without its manifest, when no valid one stands.
EndUnsaved(how, left) == End(how) /\ unvouched' = (unvouched \/ left # "valid")

Write(d) ==
    /\ pc = "writing" /\ IsNext(d)
    /\ disk' = [disk EXCEPT ![d] = plan.writes[d]]
    /\ dirty' = (dirty \/ disk'[d] # disk[d])
    /\ todo' = todo \ {d}
    /\ UNCHANGED <<head, record, manifest, pc, plan, exit, touched, unvouched, runs, consumer>>

StartRecording ==
    /\ pc = "writing" /\ todo = {}
    /\ pc' = "recording" /\ todo' = plan.records
    /\ UNCHANGED <<head, disk, record, manifest, dirty, plan, exit, touched, unvouched, runs, consumer>>

\* The recording gate reads the consumer's pairing manifest and the pair.
Recordable(d) == disk[PairingManifest].by \in {"hdsh", "consumer"} /\ Exists(d)

Record(d) ==
    /\ pc = "recording" /\ IsNext(d) /\ Recordable(d)
    /\ record' = [record EXCEPT ![d] = disk[d]]
    /\ dirty' = (dirty \/ record' # record)
    /\ todo' = todo \ {d}
    /\ UNCHANGED <<head, disk, manifest, pc, plan, exit, touched, unvouched, runs, consumer>>

RecordFails(d) ==
    /\ pc = "recording" /\ IsNext(d) /\ ~Recordable(d)
    /\ EndUnsaved("failed", manifest.state)
    /\ UNCHANGED <<head, disk, record, manifest, dirty, touched, runs, consumer>>

\* The destinations whose digest the manifest pins.
Pinned(S) == S \ (Shared \union Editable \union Config \union SlotTemplates)

AdoptManifest ==
    [state |-> "valid", release |-> plan.release, date |-> plan.date,
     files |-> [d \in Pinned(DOMAIN plan.writes) |-> plan.writes[d]],
     editable |-> DOMAIN plan.writes \intersect Editable,
     pending |-> plan.pending, guidance |-> plan.guidance]

SaveManifest ==
    /\ pc = "recording" /\ todo = {}
    /\ manifest' = AdoptManifest /\ dirty' = (dirty \/ manifest' # manifest)
    /\ End("installed")
    /\ UNCHANGED <<head, disk, record, touched, unvouched, runs, consumer>>

\* A killed run leaves the file it was writing whole, absent or torn.
Die ==
    /\ pc # "idle"
    /\ \/ UNCHANGED <<disk, manifest>>
       \/ /\ pc = "writing" /\ \E d \in todo : IsNext(d) /\ disk' = [disk EXCEPT ![d] = Broken]
          /\ UNCHANGED manifest
       \/ /\ pc = "recording" /\ todo = {}
          /\ manifest' = [NoManifest EXCEPT !.state = "broken"] /\ UNCHANGED disk
    /\ dirty' = (dirty \/ disk' # disk \/ manifest' # manifest)
    /\ EndUnsaved("died", manifest'.state)
    /\ UNCHANGED <<head, record, touched, runs, consumer>>

--------------------------------------------------------------------------------
(* The consumer. *)

\* Placeholders: TODO(adopt) markers of the installed text.
Unfilled(d) ==
    IF d \in SlotTemplates THEN disk[d].part.kind = "asks" ELSE disk[d].by = "hdsh"

\* The consumer fills the slot of a file, or adds lines of its own.
Filled(c)    == [c EXCEPT !.part = Fills(c.part.guidance)]
WithLines(c) == [c EXCEPT !.part = Lines, !.by = IF c.by = "hdsh" THEN c.by ELSE "consumer"]

\* What the consumer may put at a destination: complete or replace a file,
\* fill a slot, add lines, merge anchors, remove a file, break a syntax.
Edits(d) ==
    CASE d \in SlotTemplates -> {Broken} \union
           (IF disk[d].part.kind = "asks" THEN {Filled(disk[d])} ELSE {})
      [] d \in Shared -> {WithLines(disk[d])}
      [] d \in Orders -> {Own, Merged}
      [] d \in Config -> {Own, Broken}
      [] d \in Rfcs /\ ~Exists(d) -> {}
      [] OTHER -> {Own, Absent}

Edit(d) ==
    /\ edits < MaxEdits /\ (pc = "idle" \/ d \in Contended)
    /\ \E c \in Edits(d) \ {disk[d]} : disk' = [disk EXCEPT ![d] = c]
    /\ touched' = touched \union {d} /\ dirty' = TRUE /\ edits' = edits + 1
    /\ UNCHANGED <<head, record, manifest, pc, plan, todo, exit, unvouched, runs, release, day>>

\* "complete the TODO(adopt) placeholders": every installed one at once.
Complete ==
    LET open == {d \in Editable \union SlotTemplates : Unfilled(d)}
    IN  /\ pc = "idle" /\ open # {}
        /\ disk' = [d \in Dest |->
                      IF d \notin open THEN disk[d]
                      ELSE IF d \in SlotTemplates THEN Filled(disk[d])
                      ELSE IF d \in Orders THEN Merged ELSE Own]
        /\ touched' = touched \union open /\ dirty' = TRUE
        /\ UNCHANGED <<head, record, manifest, pc, plan, todo, exit, unvouched, runs, consumer>>

Commit ==
    /\ pc = "idle" /\ dirty /\ dirty' = FALSE /\ head' = disk
    /\ UNCHANGED <<disk, record, manifest, pc, plan, todo, exit, touched, unvouched, runs, consumer>>

\* "Repair or remove it, then rerun": a torn manifest is removed.
RemoveManifest ==
    /\ pc = "idle" /\ manifest.state = "broken" /\ manifest' = NoManifest /\ dirty' = TRUE
    /\ UNCHANGED <<head, disk, record, pc, plan, todo, exit, touched, unvouched, runs, consumer>>

Upgrade ==
    /\ pc = "idle" /\ release + 1 \in Releases /\ release' = release + 1
    /\ UNCHANGED <<head, disk, record, manifest, dirty, pc, plan, todo, exit, touched, unvouched, runs,
                   day, edits>>

NextDay ==
    /\ pc = "idle" /\ day + 1 \in Days /\ day' = day + 1
    /\ UNCHANGED <<head, disk, record, manifest, dirty, pc, plan, todo, exit, touched, unvouched, runs,
                   release, edits>>

Next ==
    \/ \E given \in {{}, {"--hdsh-ref"}, Flags}, derivable \in Derivations :
         Refuse(given, derivable) \/ Preflight(given, derivable)
    \/ \E d \in Dest : Write(d)
    \/ StartRecording
    \/ \E d \in DOMAIN record : Record(d) \/ RecordFails(d)
    \/ SaveManifest
    \/ Die
    \/ \E d \in Dest : Edit(d)
    \/ Complete \/ Commit \/ RemoveManifest \/ Upgrade \/ NextDay

Spec == Init /\ [][Next]_vars

--------------------------------------------------------------------------------
(* `hdsh adopt verify`. *)

\* A consumer-owned configuration is missing or does not load.
ConfigDrift == {d \in Config : disk[d].by \notin {"hdsh", "consumer"}}

Drift ==
    {d \in DOMAIN manifest.files : disk[d] # manifest.files[d]} \union ConfigDrift \union
    {d \in manifest.editable \union SlotTemplates \union manifest.pending : ~Exists(d)}

Placeholders == {d \in manifest.editable \union SlotTemplates : Unfilled(d)}

\* A standing-orders file that lacks the anchors the corpus links into.
PendingMerges == {d \in manifest.pending : disk[d].by = "consumer" /\ disk[d].part # Anchors}

VerifyPasses ==
    manifest.state = "valid" /\ Drift \union Placeholders \union PendingMerges = {}

--------------------------------------------------------------------------------
(* Correctness. *)

Parts    == {Nothing, Lines, Anchors} \union
            {Asks(Guidance[r]) : r \in Releases} \union {Fills(Guidance[r]) : r \in Releases}
Contents == [by : {"nobody", "consumer", "broken", "hdsh"}, release : 0..Len(Guidance), part : Parts]

\* Files, records, the manifest and the running plan have their shapes; a run
\* has a plan only while it is under way.
TypeOK ==
    /\ disk \in [Dest -> Contents]
    /\ record \in [MirroredPairs \union TemplatePairs \union Rfcs -> Contents]
    /\ manifest.state \in {"none", "valid", "broken"} /\ manifest.date \in 0..Len(RfcAnchors)
    /\ manifest.editable \subseteq Editable /\ manifest.pending \subseteq Orders
    /\ DOMAIN manifest.files \subseteq Dest /\ DOMAIN plan.writes \subseteq Dest
    /\ head \in [Dest -> Contents] /\ dirty \in BOOLEAN /\ unvouched \in BOOLEAN
    /\ release \in Releases /\ day \in Days
    /\ pc \in {"idle", "writing", "recording"} /\ todo \subseteq Dest
    /\ exit \in {"none", "refused", "died", "failed", "installed"}
    /\ touched \subseteq Dest /\ edits \in 0..MaxEdits /\ runs \in 0..MaxRuns

\* The consumer's own work in a content.
Work(c) == IF c.by = "consumer" THEN c ELSE
           IF c.part.kind \in {"fills", "lines"} THEN c.part ELSE Nothing

Resettable(d) ==
    d \in SlotTemplates /\ ~(d \in DOMAIN Previous.guidance
                             /\ Previous.guidance[d] = plan.guidance[d])

\* Over any sequence of applies, upgrades, crashes and partial commits, a
\* completed write destroys the consumer's work only where the consumer edited
\* the file after that run's preflight read it, or where a slot resets because
\* the recorded guidance is not the one installed (_plan_clobbers).
WritesPreserveWork ==
    [][pc = "writing" /\ todo' # todo /\ exit' = "none" =>
         \A d \in Dest :
            \/ d \in touched \/ Resettable(d)
            \/ Work(disk'[d]) = Work(disk[d])
            \/ d \in Shared /\ disk'[d].part = disk[d].part]_vars

\* Whatever a run destroys, with a write, a slot reset or a torn file, is in
\* the last commit, unless the consumer edited it under the run: the dirty
\* check is what makes apply safe to run (_preflight).
DestroyedBytesAreCommitted ==
    [][pc # "idle" /\ edits' = edits =>
         \A d \in Dest \ touched :
            disk'[d] # disk[d] => disk[d] = head[d]]_vars

\* The adoption RFC is minted once: a second dated RFC appears only after a
\* run that ended with its files on disk and no valid manifest to reuse the
\* date from (_preflight, _adoption_date).
OneAdoptionRfc ==
    Cardinality({d \in Rfcs : disk[d].by = "hdsh"}) > 1 => unvouched

\* A run that died or failed can be run again: as long as the consumer changed
\* nothing and no file is torn, adoption's own bytes never block it, though no
\* manifest lists them.
UnfinishedRunIsRetriable ==
    /\ exit \in {"died", "failed"} /\ touched = {} /\ release = plan.release
    /\ manifest.state # "broken" /\ \A d \in Dest : disk[d] # Broken
    => Blockers = {}

\* When verify passes, every installed slot is filled, and in answer to the
\* guidance of the recorded release, even after upgrades and crashes.
VerifiedSlotsAnswerTheGuidance ==
    VerifyPasses =>
        \A d \in SlotTemplates : disk[d].by = "hdsh" => disk[d].part = Fills(manifest.guidance[d])

\* Apply records an upstream-owned pair only as the bytes this run planned,
\* unless the consumer edited the pair under it.
RecordsOnlyPlannedBytes ==
    [][\A d \in (MirroredPairs \union Rfcs) :
         record'[d] # record[d] => d \in touched \/ (d \in DOMAIN plan.writes /\ record'[d] = plan.writes[d])]_vars

\* commands.py: "adopt never overwrites consumer-owned files" -- no write
\* replaces a file the consumer authored and adoption never installed.
NeverOverwritesConsumerFiles ==
    [][pc = "writing" /\ todo' # todo /\ exit' = "none" =>
         \A d \in Dest \ (Shared \union touched) :
            disk[d].by = "consumer" => disk'[d] = disk[d]]_vars

--------------------------------------------------------------------------------
(* What the proofs add. *)

Running == pc # "idle"

\* The running apply has still to write d.
Pending(d) == pc = "writing" /\ d \in todo

\* A valid manifest is the one of a finished run: its digests are the bytes
\* that release installs, and every mirrored file is among them.
ManifestFits ==
    /\ manifest.state = "valid" =>
         /\ manifest.release \in 1..release /\ manifest.date \in 1..day
         /\ Mirrored \subseteq DOMAIN manifest.files
         /\ \A d \in DOMAIN manifest.files : manifest.files[d] = Up(manifest.release)
         /\ manifest.guidance = [d \in SlotTemplates |-> Guidance[manifest.release]]
    /\ manifest.state # "valid" =>
         manifest.files = <<>> /\ manifest.guidance = <<>> /\ manifest.date = 0

\* The running plan is the one preflight would make of this release and date.
PlanFits ==
    /\ plan.release \in 0..release
    /\ Running =>
         /\ plan.release = release /\ plan.date = AdoptionDate /\ manifest.state # "broken"
         /\ plan.guidance = [d \in SlotTemplates |-> Guidance[release]]
         /\ plan.pending \subseteq Orders
         /\ Mirrored \union SlotTemplates \union {RfcAnchors[plan.date]} \subseteq DOMAIN plan.writes
         /\ DOMAIN plan.writes \intersect Rfcs \subseteq {RfcAnchors[plan.date]}
         /\ \A d \in DOMAIN plan.writes :
              /\ plan.writes[d] \in Contents /\ plan.writes[d].by = "hdsh"
              /\ d \notin Shared \union SlotTemplates => plan.writes[d] = Up(release)
         /\ plan.records \subseteq DOMAIN record
         /\ plan.records \intersect (MirroredPairs \union Rfcs) \subseteq DOMAIN plan.writes
    /\ pc = "writing" => todo \subseteq DOMAIN plan.writes
    /\ pc = "recording" => todo \subseteq plan.records
    /\ ~Running => todo = {}

\* What the run has written is on disk, unless the consumer edited it.
PlannedBytesOnDisk ==
    Running => \A d \in DOMAIN plan.writes \ touched : Pending(d) \/ disk[d] = plan.writes[d]

\* git status is clean only when the last commit holds every file, and what the
\* run has still to write is still what was committed.
CommitHoldsTheRest ==
    /\ ~dirty => disk = head
    /\ \A d \in Dest \ touched : Pending(d) => disk[d] = head[d]

\* A slot file of hdsh has a slot, and every slot file is of hdsh once a run has
\* reached it.
SlotFiles ==
    \A d \in SlotTemplates :
        /\ IF disk[d].by = "hdsh" THEN disk[d].part.kind \in {"asks", "fills"}
                                  ELSE disk[d].part = Nothing
        /\ disk[d].by = "broken" => disk[d] = Broken
        /\ manifest.state = "valid" \/ (Running /\ ~Pending(d)) => disk[d].by \in {"hdsh", "broken"}
        /\ Running => plan.writes[d].part.kind \in {"asks", "fills"}

\* What the run has still to write keeps the consumer's work.
PlanPreservesWork ==
    \A d \in Dest \ touched : Pending(d) =>
        \/ Resettable(d)
        \/ Work(plan.writes[d]) = Work(disk[d])
        \/ d \in Shared /\ plan.writes[d].part = disk[d].part

\* Without a lost manifest the only dated RFC is that of the adoption date.
RfcOfTheDate ==
    ~unvouched =>
        /\ manifest.state # "broken"
        /\ \A d \in Rfcs : disk[d].by = "hdsh" =>
             (manifest.state = "valid" \/ Running) /\ d = RfcAnchors[AdoptionDate]

AdoptInvariant ==
    /\ TypeOK /\ ManifestFits /\ PlanFits /\ PlannedBytesOnDisk /\ CommitHoldsTheRest
    /\ SlotFiles /\ PlanPreservesWork /\ RfcOfTheDate

\* No adoption RFC of a later date than the next run's is on disk, and until the
\* release changes, the clobber check vouches for what an unfinished run left.
Retriable ==
    /\ \A i \in Days : i > AdoptionDate => ~Exists(RfcAnchors[i])
    /\ Running \/ (exit \in {"died", "failed"} /\ release = plan.release) =>
         \A d \in (Mirrored \union {RfcAnchors[AdoptionDate]}) \ touched :
             \/ disk[d] \in {Absent, Broken, Up(release)}
             \/ d \in DOMAIN Previous.files /\ disk[d] = Previous.files[d]

\* The consumer's repository holds no adoption RFC before its first adoption.
NoPriorRfc == Preexisting \intersect Rfcs = {}

\* No release brings back a guidance that a release in between had replaced.
GuidanceNeverReturns ==
    \A i, j, k \in Releases :
        i < j /\ j < k /\ Guidance[i] = Guidance[k] => Guidance[j] = Guidance[i]

\* A slot holds or answers the guidance of release r.
Answers(part, r) == part \in {Asks(Guidance[r]), Fills(Guidance[r])}

\* A slot that does not answer the recorded guidance answers a later one, and
\* the run that wrote it replaced every mirrored file first.
SlotsAnswer ==
    /\ \A x \in Mirrored : Running => Pending(x) \/ disk[x] \in {Up(release), Own, Absent}
    /\ \A d \in SlotTemplates : disk[d].by = "hdsh" =>
         /\ manifest.state = "valid" =>
              \/ Answers(disk[d].part, manifest.release)
              \/ \E r \in (manifest.release + 1)..release :
                   /\ Answers(disk[d].part, r)
                   /\ \A x \in Mirrored : disk[x] # Up(manifest.release)
         /\ Running /\ ~Pending(d) => Answers(disk[d].part, release)
    /\ \A d \in SlotTemplates : Running => Answers(plan.writes[d].part, release)

================================================================================

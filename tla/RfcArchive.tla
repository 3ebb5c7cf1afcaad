------------------------------- MODULE RfcArchive -------------------------------
(***************************************************************************)
(* The frozen RFC archive (src/hdsh/rfc/archive.py): `hdsh rfc seal`       *)
(* appends the hashes of newly archived triplets to the archive manifest,  *)
(* and `hdsh rfc archive` verifies the archive, as a commit hook, against  *)
(* the manifest and against the manifest of HEAD.  Between them people     *)
(* move the three files of an RFC into the archive one by one, edit,       *)
(* record, stage and commit them, bypass the hook, and a seal may be       *)
(* killed while it writes.                                                 *)
(*                                                                         *)
(* A hash is the content itself.  A language side is its text and the date *)
(* of its `Archived:` line; a sidecar holds the two sides it recorded.     *)
(***************************************************************************)
EXTENDS Naturals, FiniteSets

CONSTANTS
    Notes,      \* RFCs: {class}/yyyy-mm-dd-topic
    FileDate,   \* the date in an RFC's file name
    Texts,      \* contents a language side may be given, [text, archived]
    MaxEdits,   \* bound: edits of the working tree
    MaxCommits  \* bound: commits

Sides     == {"md", "zh"}
Artifacts == Notes \X {"md", "zh", "i18n"}
Rules     == <<"AGENTS", "rules">>            \* archived/AGENTS.md
Paths     == Artifacts \union {Rules}

ASSUME ArchiveAssumption ==
    /\ \A t \in Texts : t.archived \in Nat    \* 0: no such line
    /\ \A n \in Notes : FileDate[n] \in Nat \ {0}
    /\ MaxEdits \in Nat /\ MaxCommits \in Nat

Absent       == [kind |-> "absent"]
Text(t)      == [kind |-> "text", content |-> t]
Instructions == [kind |-> "rules"]
Sidecar(md, zh) == [kind |-> "sidecar", md |-> md, zh |-> zh]

\* manifest.json: absent, malformed, or the sealed hash of each path.
NoManifest == [state |-> "absent", files |-> <<>>]
Torn       == [state |-> "malformed", files |-> <<>>]
ArchiveManifest(files) == [state |-> "valid", files |-> files]

VARIABLES
    work,        \* the working tree: [files, manifest]
    index, head, \* what is staged, and what is committed; head is unborn at first
    sealing,     \* the manifest a running seal is about to write, or NoManifest
    edits, commits,
    frozen,      \* history: path -> the bytes first accepted as sealed since
                 \* the archive was last absent or a commit was not gated
    gated,       \* history: the hook accepted head, every archive path tracked
    sealed       \* history: nothing changed since a seal succeeded

vars == <<work, index, head, sealing, edits, commits, frozen, gated, sealed>>

\* No directory at all; an archive without RFCs, before and after its manifest.
Nothing == [files |-> [p \in Paths |-> Absent], manifest |-> NoManifest]
Empty(manifest) ==
    [files |-> [Nothing.files EXCEPT ![Rules] = Instructions], manifest |-> manifest]

Init ==
    /\ \E manifest \in {NoManifest, ArchiveManifest(<<>>)} : work = Empty(manifest)
    /\ index = work /\ head \in {Nothing, work}
    /\ sealing = NoManifest /\ edits = 0 /\ commits = 0
    /\ frozen = <<>> /\ gated = FALSE /\ sealed = FALSE

--------------------------------------------------------------------------------
(* The gate. *)

Present(plane) == {p \in Paths : plane.files[p] # Absent}

\* An error: its kind, and the path it is about.
Violations(kind, paths) == {<<kind, p>> : p \in paths}
ManifestPath == <<"manifest", "json">>

\* The closed tree: its instructions are required.
StructureErrors(plane) == Violations("structure", {Rules} \ Present(plane))

\* The header of a side: the archive date is there and not before the RFC's.
HeaderErrors(plane, n) ==
    LET date(s) == plane.files[<<n, s>>].content.archived
    IN  Violations("header", {<<n, s>> : s \in {t \in Sides : date(t) = 0 \/ date(t) < FileDate[n]}})

\* A complete triplet: one archive date, and a sidecar of exactly these bytes.
TripletErrors(plane, n) ==
    LET md   == plane.files[<<n, "md">>]
        zh   == plane.files[<<n, "zh">>]
        meta == plane.files[<<n, "i18n">>]
    IN  IF {md, zh, meta} = {Absent} THEN {}
        ELSE IF Absent \in {md, zh, meta} THEN Violations("incomplete", {<<n, "md">>})
        ELSE HeaderErrors(plane, n)
             \union {e \in Violations("dates", {<<n, "zh">>}) :
                       Cardinality({md.content.archived, zh.content.archived} \ {0}) = 2}
             \union {e \in Violations("record", {<<n, "i18n">>}) : meta # Sidecar(md, zh)}

validate_artifacts(plane) == UNION {TripletErrors(plane, n) : n \in Notes}

\* Mistake (mutation runs only): the committed manifest is not asked.
AnyExtension(baseline, files) == {}

\* Entries of the trusted manifest that are missing or changed in this one.
manifest_extension_errors(baseline, files) ==
    Violations("seal moved", {p \in DOMAIN baseline : p \notin DOMAIN files \/ files[p] # baseline[p]})

\* Sealed paths whose bytes are missing or changed.
SealErrors(plane, files) ==
    Violations("seal broken", {p \in DOMAIN files : plane.files[p] # files[p]})

\* Mistake (mutation runs only): every file of the archive is sealed.
AddedFiles(plane, files) == Present(plane) \ DOMAIN files

\* Artifacts without a seal.
Added(plane, files) == (Present(plane) \intersect Artifacts) \ DOMAIN files

\* Mistake (mutation runs only): the sidecar is not sealed.
SealLanguages(plane, files) ==
    [p \in DOMAIN files \union {q \in Added(plane, files) : q[2] # "i18n"} |->
        IF p \in DOMAIN files THEN files[p] ELSE plane.files[p]]

\* seal_state: every sealed entry is kept, new artifacts are added.
Extended(plane, files) ==
    [p \in DOMAIN files \union Added(plane, files) |->
        IF p \in DOMAIN files THEN files[p] ELSE plane.files[p]]

\* The baseline: empty before the first commit and before the manifest.
BaselineErrors(files) ==
    IF head.manifest.state = "malformed" THEN Violations("baseline", {ManifestPath})
    ELSE manifest_extension_errors(head.manifest.files, files)

\* A manifest that does not parse, or that verification misses.
ManifestErrors(plane, seal) ==
    {e \in Violations("manifest", {ManifestPath}) :
        plane.manifest.state = "malformed" \/ (plane.manifest.state = "absent" /\ ~seal)}

\* Mistake (mutation runs only): a sealed path that is gone is not missed.
ErrorsOfPresent(plane, seal) ==
    LET files == plane.manifest.files IN
    StructureErrors(plane) \union validate_artifacts(plane) \union ManifestErrors(plane, seal)
    \union BaselineErrors(files)
    \union {e \in SealErrors(plane, files) : plane.files[e[2]] # Absent}
    \union (IF seal THEN {} ELSE Violations("unsealed", Added(plane, files)))

\* run: everything that is wrong with one view of the archive; with no archive
\* directory, nothing is.
Errors(plane, seal) ==
    LET files == plane.manifest.files IN
    IF plane = Nothing THEN {}
    ELSE StructureErrors(plane) \union validate_artifacts(plane) \union ManifestErrors(plane, seal)
         \union BaselineErrors(files)
         \union SealErrors(plane, files)
         \union (IF seal THEN {} ELSE Violations("unsealed", Added(plane, files)))

--------------------------------------------------------------------------------
(* The commands. *)

\* `hdsh rfc seal` reads the archive and both manifests; an error ends it.
SealReads ==
    /\ sealing = NoManifest /\ work # Nothing /\ Errors(work, TRUE) = {}
    /\ sealing' = ArchiveManifest(Extended(work, work.manifest.files))
    /\ sealed' = TRUE
    /\ UNCHANGED <<work, index, head, edits, commits, frozen, gated>>

\* The manifest is written, whatever was edited since; not without a directory.
SealWrites ==
    /\ sealing # NoManifest
    /\ work' = IF work = Nothing THEN work ELSE [work EXCEPT !.manifest = sealing]
    /\ sealing' = NoManifest
    /\ UNCHANGED <<index, head, edits, commits, frozen, gated, sealed>>

\* A kill during the write leaves half a manifest; a current one is not written.
SealDies ==
    /\ sealing \notin {NoManifest, work.manifest} /\ work # Nothing
    /\ work' = [work EXCEPT !.manifest = Torn] /\ sealing' = NoManifest /\ sealed' = FALSE
    /\ UNCHANGED <<index, head, edits, commits, frozen, gated>>

--------------------------------------------------------------------------------
(* People and Git. *)

Edit(new) ==
    /\ edits < MaxEdits /\ edits' = edits + 1 /\ new # work /\ work' = new /\ sealed' = FALSE
    /\ UNCHANGED <<index, head, sealing, commits, frozen, gated>>

Put(p, content) == Edit([work EXCEPT !.files[p] = content])

\* Move a recorded triplet into the archive.
Archive ==
    \E n \in Notes, t \in Texts :
        Edit([work EXCEPT !.files = [@ EXCEPT
            ![<<n, "md">>] = Text(t), ![<<n, "zh">>] = Text(t),
            ![<<n, "i18n">>] = Sidecar(Text(t), Text(t))]])

\* Move or edit one file, or remove it, or remove the archive.
EditFile == \/ \E n \in Notes, s \in Sides, t \in Texts : Put(<<n, s>>, Text(t))
            \/ \E p \in Present(work) : Put(p, Absent)
            \/ Edit(Nothing)

\* Re-record the pair; the sidecar comes with the sides it named.
EditSidecar ==
    \E n \in Notes : LET md == work.files[<<n, "md">>]  zh == work.files[<<n, "zh">>] IN
        Absent \notin {md, zh} /\ Put(<<n, "i18n">>, Sidecar(md, zh))

\* Edit the manifest by hand: restore it, or drop seals.
EditManifest ==
    \/ Edit([work EXCEPT !.manifest = index.manifest])
    \/ \E kept \in SUBSET DOMAIN work.manifest.files :
         Edit([work EXCEPT !.manifest.files = [p \in kept |-> work.manifest.files[p]]])

Staging(new) ==
    /\ index' = new /\ new # index
    /\ UNCHANGED <<work, head, sealing, edits, commits, frozen, gated, sealed>>

\* One path, or the manifest, of one plane in another.
With(plane, p, other) ==
    IF p = ManifestPath THEN [plane EXCEPT !.manifest = other.manifest]
    ELSE [plane EXCEPT !.files[p] = other.files[p]]

\* `git add --all`; or, once per commit, all but one path, or `git rm --cached`
\* of one.
Stage ==
    \/ Staging(work)
    \/ index = head /\ \E p \in Paths \union {ManifestPath} :
         Staging(With(work, p, index)) \/ Staging(With(index, p, Nothing))

\* What the hook sees: staged bytes of tracked paths, since unstaged changes
\* are stashed, and the working tree's untracked files.
HookView ==
    [files    |-> [p \in Paths |-> IF index.files[p] # Absent THEN index.files[p] ELSE work.files[p]],
     manifest |-> IF index.manifest # NoManifest THEN index.manifest ELSE work.manifest]

Committing ==
    /\ sealing = NoManifest /\ commits < MaxCommits /\ commits' = commits + 1
    /\ head' = index /\ head # index
    /\ UNCHANGED <<work, index, sealing, edits>>

\* A commit the hook accepts.  The sealed bytes are followed no further when it
\* ran with an archive path untracked, and so saw a file that is not committed.
Commit ==
    /\ Committing /\ Errors(HookView, FALSE) = {}
    /\ gated' = (HookView = index)
    /\ LET files == index.manifest.files
           new   == DOMAIN files \ DOMAIN frozen
       IN  frozen' = IF index = Nothing \/ ~gated' THEN <<>>
                     ELSE [p \in DOMAIN frozen \union new |-> IF p \in new THEN files[p] ELSE frozen[p]]
    /\ sealed' = FALSE

\* `git commit --no-verify`, or a tool that runs no hooks.
CommitUnverified ==
    /\ Committing /\ gated' = FALSE /\ frozen' = <<>> /\ sealed' = FALSE

Next ==
    \/ SealReads \/ SealWrites \/ SealDies
    \/ Archive \/ EditFile \/ EditSidecar \/ EditManifest \/ Stage
    \/ Commit \/ CommitUnverified

Spec == Init /\ [][Next]_vars

--------------------------------------------------------------------------------
(* Correctness. *)

SideTexts == {Text(t) : t \in Texts}
Sidecars  == {Sidecar(md, zh) : md, zh \in SideTexts}
Contents  == {Absent, Instructions} \union SideTexts \union Sidecars

\* What a path may hold.
ContentOf(p) ==
    {Absent} \union (IF p = Rules THEN {Instructions} ELSE IF p[2] = "i18n" THEN Sidecars ELSE SideTexts)

IsManifest(m) ==
    /\ m = [state |-> m.state, files |-> m.files]
    /\ m.state \in {"absent", "malformed", "valid"}
    /\ m.state # "valid" => DOMAIN m.files = {}
    /\ \A p \in DOMAIN m.files : p \in Artifacts /\ m.files[p] # Absent

IsPlane(plane) ==
    /\ plane = [files |-> plane.files, manifest |-> plane.manifest]
    /\ plane.files \in [Paths -> Contents]
    /\ \A p \in Paths : plane.files[p] \in ContentOf(p)
    /\ IsManifest(plane.manifest)

\* Files and manifests have their kinds, and no manifest seals anything but
\* artifacts, the one a running seal is about to write included (seal_state).
TypeOK ==
    /\ IsPlane(work) /\ IsPlane(index) /\ IsPlane(head)
    /\ IsManifest(sealing) /\ sealing.state # "malformed"
    /\ DOMAIN frozen \subseteq Artifacts
    /\ edits \in 0..MaxEdits /\ commits \in 0..MaxCommits
    /\ gated \in BOOLEAN /\ sealed \in BOOLEAN

\* The committed archive is whole: complete triplets with good headers and
\* records, every file sealed, every seal kept.
Whole(plane) ==
    /\ plane.manifest.state = "valid"
    /\ \A n \in Notes : {s \in {"md", "zh", "i18n"} : <<n, s>> \in Present(plane)}
                          \in {{}, {"md", "zh", "i18n"}}
    /\ Present(plane) = DOMAIN plane.manifest.files \union {Rules}
    /\ \A p \in DOMAIN plane.manifest.files : plane.manifest.files[p] = plane.files[p]
    /\ \A n \in Notes : <<n, "i18n">> \in Present(plane) =>
         LET md == plane.files[<<n, "md">>]  zh == plane.files[<<n, "zh">>] IN
         /\ plane.files[<<n, "i18n">>] = Sidecar(md, zh)
         /\ md.content.archived = zh.content.archived /\ md.content.archived >= FileDate[n]

\* Through partial moves, edits, stale staging and killed seals, every commit
\* the hook accepted holds a whole archive or none, unless an archive path was
\* untracked when the hook ran (run).
AcceptedCommitsAreWhole == gated => Whole(head) \/ head = Nothing

\* Bytes that an accepted commit held as sealed are the bytes of every accepted
\* commit after it, though seals can be edited by hand and re-made with `hdsh rfc
\* seal` in between (manifest_extension_errors, seal_state).  The chain ends at the
\* first commit that bypasses the hook, that removes the whole archive, or that the
\* hook accepts with an archive path untracked: after `git rm --cached` of a sealed
\* file or of the manifest it still finds the file in the working tree, accepts,
\* and the sealed bytes or the baseline are gone from HEAD.
FrozenBytesStay == \A p \in DOMAIN frozen : head.files[p] = frozen[p]

\* A seal that succeeded leaves an archive that verifies, as long as nobody
\* edits or commits: no half-sealed state needs a second seal.
SealThenVerify == sealed /\ sealing = NoManifest => Errors(work, FALSE) = {}

\* README of the RFC tree: sealed triplets are "permanently frozen", and the
\* archive gate "enforces ... the append-only frozen-content manifest": from one
\* accepted commit to the next no seal is lost, all archive paths being tracked.
AcceptedCommitsKeepSeals ==
    [][gated /\ Commit /\ gated' =>
         manifest_extension_errors(head.manifest.files, head'.manifest.files) = {}]_vars

\* What the proofs add: a path that is frozen is sealed in head with its frozen
\* bytes, and a seal about to be written extends the archive it read.
FrozenIsSealed ==
    \A p \in DOMAIN frozen :
        /\ p \in DOMAIN head.manifest.files
        /\ head.manifest.files[p] = frozen[p]
        /\ head.files[p] = frozen[p]

SealIsSound ==
    /\ sealed /\ sealing # NoManifest =>
         /\ work # Nothing /\ Errors(work, TRUE) = {}
         /\ sealing = ArchiveManifest(Extended(work, work.manifest.files))
    /\ SealThenVerify

ArchiveInvariant == TypeOK /\ AcceptedCommitsAreWhole /\ FrozenIsSealed /\ SealIsSound

================================================================================

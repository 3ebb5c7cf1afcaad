--------------------------- MODULE RfcArchiveProofs ---------------------------
(***************************************************************************)
(* Proofs about RfcArchive for any RFCs, texts, edits and commits.         *)
(***************************************************************************)
EXTENDS RfcArchive, FiniteSetTheorems, TLAPS

--------------------------------------------------------------------------------
(* Planes *)

\* The parts of an archive, and how paths differ.
LEMMA PathKinds ==
    /\ \A n \in Notes : <<n, "md">> \in Artifacts /\ <<n, "zh">> \in Artifacts /\ <<n, "i18n">> \in Artifacts
    /\ Artifacts \subseteq Paths /\ Rules \in Paths /\ Rules \notin Artifacts
    /\ \A p \in Artifacts : p # Rules /\ (p[2] = "i18n" \/ p[2] \in Sides)
    /\ \A n \in Notes, s \in Sides : <<n, s>> \in Artifacts /\ <<n, s>>[2] # "i18n"
  BY DEF Artifacts, Paths, Rules, Sides

\* The kinds of content exclude each other.
LEMMA ContentKinds ==
    /\ Absent \notin SideTexts /\ Absent \notin Sidecars /\ Absent # Instructions
    /\ \A md, zh : Sidecar(md, zh) # Absent
  <1>1. Absent.kind = "absent" /\ Instructions.kind = "rules"
    BY DEF Absent, Instructions
  <1>2. (\A t : Text(t).kind = "text") /\ \A md, zh : Sidecar(md, zh).kind = "sidecar"
    BY DEF Text, Sidecar
  <1>3. "absent" # "rules" /\ "absent" # "text" /\ "absent" # "sidecar"
    OBVIOUS
  <1>4. Absent # Instructions /\ (\A t : Text(t) # Absent) /\ \A md, zh : Sidecar(md, zh) # Absent
    BY <1>1, <1>2, <1>3
  <1> QED
    BY <1>4 DEF SideTexts, Sidecars

LEMMA ContentTypes ==
    /\ \A p \in Paths : ContentOf(p) \subseteq Contents /\ Absent \in ContentOf(p)
    /\ Instructions \in ContentOf(Rules)
    /\ \A n \in Notes : ContentOf(<<n, "i18n">>) = {Absent} \union Sidecars
    /\ \A n \in Notes, s \in Sides : ContentOf(<<n, s>>) = {Absent} \union SideTexts
  BY PathKinds DEF ContentOf, Contents, Sides

LEMMA ManifestTypes ==
    /\ IsManifest(NoManifest) /\ IsManifest(Torn)
    /\ \A files : (\A p \in DOMAIN files : p \in Artifacts /\ files[p] # Absent)
                    => IsManifest(ArchiveManifest(files))
    /\ \A files : ArchiveManifest(files).state = "valid" /\ ArchiveManifest(files).files = files
  BY DEF IsManifest, NoManifest, Torn, ArchiveManifest

\* One file of a plane, or its manifest, replaced.
LEMMA FileUpdate ==
    ASSUME NEW plane, IsPlane(plane), NEW p \in Paths, NEW content \in ContentOf(p)
    PROVE  IsPlane([plane EXCEPT !.files[p] = content])
  <1>1. content \in Contents
    BY ContentTypes
  <1>2. [plane EXCEPT !.files[p] = content] =
          [files |-> [plane.files EXCEPT ![p] = content], manifest |-> plane.manifest]
    BY DEF IsPlane
  <1> DEFINE new == [plane.files EXCEPT ![p] = content]
  <1>3. new \in [Paths -> Contents] /\ \A q \in Paths : new[q] \in ContentOf(q)
    BY <1>1 DEF IsPlane
  <1> QED
    BY <1>2, <1>3 DEF IsPlane

LEMMA FilesUpdate ==
    ASSUME NEW plane, IsPlane(plane), NEW files \in [Paths -> Contents],
           \A p \in Paths : files[p] \in ContentOf(p)
    PROVE  IsPlane([plane EXCEPT !.files = files])
  <1>1. [plane EXCEPT !.files = files] = [files |-> files, manifest |-> plane.manifest]
    BY DEF IsPlane
  <1> QED
    BY <1>1 DEF IsPlane

LEMMA ManifestUpdate ==
    ASSUME NEW plane, IsPlane(plane), NEW m, IsManifest(m)
    PROVE  /\ IsPlane([plane EXCEPT !.manifest = m])
           /\ [plane EXCEPT !.manifest = m].files = plane.files
           /\ [plane EXCEPT !.manifest = m].manifest = m
  <1>1. [plane EXCEPT !.manifest = m] = [files |-> plane.files, manifest |-> m]
    BY DEF IsPlane
  <1> QED
    BY <1>1 DEF IsPlane

LEMMA NothingIsPlane == IsPlane(Nothing)
  <1>1. \A p \in Paths : Absent \in ContentOf(p) /\ Absent \in Contents
    BY ContentTypes DEF Contents
  <1> QED
    BY <1>1, ManifestTypes DEF IsPlane, Nothing

LEMMA EmptyIsPlane ==
    ASSUME NEW m, IsManifest(m)
    PROVE  IsPlane(Empty(m))
  <1>1. Empty(m) = [files |-> [Nothing.files EXCEPT ![Rules] = Instructions], manifest |-> m]
    BY DEF Empty
  <1> DEFINE files == [Nothing.files EXCEPT ![Rules] = Instructions]
  <1>2. files \in [Paths -> Contents] /\ \A p \in Paths : files[p] \in ContentOf(p)
    BY NothingIsPlane, ContentTypes, PathKinds DEF IsPlane, Contents
  <1> QED
    BY <1>1, <1>2 DEF IsPlane

LEMMA WithIsPlane ==
    ASSUME NEW plane, IsPlane(plane), NEW other, IsPlane(other),
           NEW p \in Paths \union {ManifestPath}
    PROVE  IsPlane(With(plane, p, other))
  <1>1. CASE p = ManifestPath
    BY <1>1, ManifestUpdate DEF With, IsPlane
  <1>2. CASE p # ManifestPath
    <2>1. other.files[p] \in ContentOf(p)
      BY <1>2 DEF IsPlane
    <2> QED
      BY <1>2, <2>1, FileUpdate DEF With
  <1> QED
    BY <1>1, <1>2

\* What seal_state returns.
LEMMA ExtendedEntries ==
    ASSUME NEW plane, NEW files
    PROVE  /\ DOMAIN Extended(plane, files) = DOMAIN files \union Added(plane, files)
           /\ \A p \in DOMAIN files : Extended(plane, files)[p] = files[p]
           /\ \A p \in Added(plane, files) : Extended(plane, files)[p] = plane.files[p]
  BY DEF Extended, Added

--------------------------------------------------------------------------------
(* Types *)

LEMMA TypeInit == Init => TypeOK
  <1> SUFFICES ASSUME Init PROVE TypeOK
    OBVIOUS
  <1>1. PICK m \in {NoManifest, ArchiveManifest(<<>>)} : work = Empty(m)
    BY DEF Init
  <1>2. IsManifest(m)
    BY ManifestTypes
  <1>3. IsPlane(work) /\ IsPlane(index) /\ IsPlane(head)
    BY <1>1, <1>2, EmptyIsPlane, NothingIsPlane DEF Init
  <1>4. IsManifest(sealing) /\ sealing.state # "malformed"
    BY ManifestTypes DEF Init, NoManifest
  <1>5. 0 \in 0..MaxEdits /\ 0 \in 0..MaxCommits
    BY ArchiveAssumption
  <1>6. edits = 0 /\ commits = 0 /\ gated = FALSE /\ sealed = FALSE /\ DOMAIN frozen = {}
    BY DEF Init
  <1> QED
    BY <1>3, <1>4, <1>5, <1>6 DEF TypeOK

LEMMA TypeSeal ==
    ASSUME TypeOK, SealReads \/ SealWrites \/ SealDies
    PROVE  TypeOK'
  <1>1. CASE SealReads
    <2>1. IsManifest(sealing') /\ sealing'.state # "malformed"
      <3> DEFINE new == Extended(work, work.manifest.files)
      <3>1. \A p \in DOMAIN new : p \in Artifacts /\ new[p] # Absent
        <4>1. \A p \in DOMAIN work.manifest.files :
                p \in Artifacts /\ work.manifest.files[p] # Absent
          BY DEF TypeOK, IsPlane, IsManifest
        <4>2. /\ DOMAIN new = DOMAIN work.manifest.files \union Added(work, work.manifest.files)
              /\ \A p \in DOMAIN work.manifest.files : new[p] = work.manifest.files[p]
              /\ \A p \in Added(work, work.manifest.files) : new[p] = work.files[p]
          BY ExtendedEntries
        <4>3. \A p \in Added(work, work.manifest.files) : p \in Artifacts /\ work.files[p] # Absent
          BY DEF Added, Present
        <4> HIDE DEF new
        <4> QED
          BY <4>1, <4>2, <4>3
      <3> HIDE DEF new
      <3>2. sealing' = ArchiveManifest(new)
        BY <1>1 DEF SealReads, new
      <3> QED
        BY <3>1, <3>2, ManifestTypes
    <2>2. sealed' = TRUE /\ UNCHANGED <<work, index, head, edits, commits, frozen, gated>>
      BY <1>1 DEF SealReads
    <2> QED
      BY <2>1, <2>2 DEF TypeOK
  <1>2. CASE SealWrites \/ SealDies
    <2>1. IsPlane(work')
      BY <1>2, ManifestUpdate, ManifestTypes DEF SealWrites, SealDies, TypeOK
    <2>2. sealing' = NoManifest /\ (sealed' = sealed \/ sealed' = FALSE)
          /\ UNCHANGED <<index, head, edits, commits, frozen, gated>>
      BY <1>2 DEF SealWrites, SealDies
    <2>3. IsManifest(NoManifest) /\ NoManifest.state # "malformed"
      BY ManifestTypes DEF NoManifest
    <2> QED
      BY <2>1, <2>2, <2>3 DEF TypeOK
  <1> QED
    BY <1>1, <1>2

\* An edit that leaves a plane keeps the types.
LEMMA EditTypes ==
    ASSUME TypeOK, NEW new, Edit(new), IsPlane(new)
    PROVE  TypeOK'
  <1>1. edits' \in 0..MaxEdits
    BY ArchiveAssumption DEF Edit, TypeOK
  <1>2. work' = new /\ sealed' = FALSE
        /\ UNCHANGED <<index, head, sealing, commits, frozen, gated>>
    BY DEF Edit
  <1> QED
    BY <1>1, <1>2 DEF TypeOK

LEMMA PutTypes ==
    ASSUME TypeOK, NEW p \in Paths, NEW content \in ContentOf(p), Put(p, content)
    PROVE  TypeOK'
  BY FileUpdate, EditTypes DEF Put, TypeOK

LEMMA TypeEdits ==
    ASSUME TypeOK, Archive \/ EditFile \/ EditSidecar \/ EditManifest
    PROVE  TypeOK'
  <1>1. CASE Archive
    <2>1. PICK n \in Notes, t \in Texts :
            Edit([work EXCEPT !.files = [@ EXCEPT
                ![<<n, "md">>] = Text(t), ![<<n, "zh">>] = Text(t),
                ![<<n, "i18n">>] = Sidecar(Text(t), Text(t))]])
      BY <1>1 DEF Archive
    <2> DEFINE side == Text(t)
               meta == Sidecar(side, side)
               files == [work.files EXCEPT ![<<n, "md">>] = side, ![<<n, "zh">>] = side,
                                           ![<<n, "i18n">>] = meta]
    <2>2. side \in SideTexts /\ meta \in Sidecars
      BY DEF SideTexts, Sidecars
    <2>3. /\ side \in ContentOf(<<n, "md">>) /\ side \in ContentOf(<<n, "zh">>)
          /\ meta \in ContentOf(<<n, "i18n">>)
      BY <2>2, ContentTypes DEF Sides
    <2>4. /\ <<n, "md">> \in Paths /\ <<n, "zh">> \in Paths /\ <<n, "i18n">> \in Paths
          /\ side \in Contents /\ meta \in Contents
      BY <2>2, PathKinds DEF Contents
    <2>5. work.files \in [Paths -> Contents] /\ \A p \in Paths : work.files[p] \in ContentOf(p)
      BY DEF TypeOK, IsPlane
    <2>6. files \in [Paths -> Contents] /\ \A p \in Paths : files[p] \in ContentOf(p)
      <3> HIDE DEF side, meta
      <3> QED BY <2>3, <2>4, <2>5
    <2>7. Edit([work EXCEPT !.files = files])
      BY <2>1
    <2> HIDE DEF files
    <2> QED
      BY <2>6, <2>7, FilesUpdate, EditTypes DEF TypeOK
  <1>2. CASE EditFile
    <2>1. ASSUME NEW n \in Notes, NEW s \in Sides, NEW t \in Texts, Put(<<n, s>>, Text(t))
          PROVE  TypeOK'
      <3>1. Text(t) \in ContentOf(<<n, s>>) /\ <<n, s>> \in Paths
        BY ContentTypes, PathKinds DEF SideTexts
      <3> QED
        BY <2>1, <3>1, PutTypes
    <2>2. ASSUME NEW p \in Present(work), Put(p, Absent)
          PROVE  TypeOK'
      <3>1. p \in Paths /\ Absent \in ContentOf(p)
        BY ContentTypes DEF Present
      <3> QED
        BY <2>2, <3>1, PutTypes
    <2>3. Edit(Nothing) => TypeOK'
      BY EditTypes, NothingIsPlane
    <2> QED
      BY <1>2, <2>1, <2>2, <2>3 DEF EditFile
  <1>3. CASE EditSidecar
    <2>1. PICK n \in Notes :
            /\ Absent \notin {work.files[<<n, "md">>], work.files[<<n, "zh">>]}
            /\ Put(<<n, "i18n">>, Sidecar(work.files[<<n, "md">>], work.files[<<n, "zh">>]))
      BY <1>3 DEF EditSidecar
    <2> DEFINE md == work.files[<<n, "md">>]
               zh == work.files[<<n, "zh">>]
    <2>2. md \in SideTexts /\ zh \in SideTexts
      BY <2>1, ContentTypes, PathKinds DEF TypeOK, IsPlane, Sides
    <2>3. Sidecar(md, zh) \in ContentOf(<<n, "i18n">>) /\ <<n, "i18n">> \in Paths
      BY <2>2, ContentTypes, PathKinds DEF Sidecars
    <2> QED
      BY <2>1, <2>3, PutTypes
  <1>4. CASE EditManifest
    <2>1. CASE Edit([work EXCEPT !.manifest = index.manifest])
      BY <2>1, ManifestUpdate, EditTypes DEF TypeOK, IsPlane
    <2>2. ASSUME NEW kept \in SUBSET DOMAIN work.manifest.files,
                 Edit([work EXCEPT !.manifest.files = [p \in kept |-> work.manifest.files[p]]])
          PROVE  TypeOK'
      <3> DEFINE files == [p \in kept |-> work.manifest.files[p]]
                 m == [state |-> work.manifest.state, files |-> files]
      <3>1. DOMAIN files = kept /\ \A p \in kept : files[p] = work.manifest.files[p]
        OBVIOUS
      <3> HIDE DEF files
      <3>2. IsManifest(m)
        BY <3>1 DEF TypeOK, IsPlane, IsManifest
      <3>3. [work EXCEPT !.manifest.files = files] = [work EXCEPT !.manifest = m]
        BY DEF TypeOK, IsPlane, IsManifest
      <3>4. Edit([work EXCEPT !.manifest = m])
        BY <2>2, <3>3 DEF files
      <3> HIDE DEF m
      <3> QED
        BY <3>2, <3>4, ManifestUpdate, EditTypes DEF TypeOK
    <2> QED
      BY <1>4, <2>1, <2>2 DEF EditManifest
  <1> QED
    BY <1>1, <1>2, <1>3, <1>4

LEMMA TypeGit ==
    ASSUME TypeOK, Stage \/ Commit \/ CommitUnverified
    PROVE  TypeOK'
  <1>1. CASE Stage
    <2>1. PICK new : Staging(new) /\ IsPlane(new)
      <3>1. IsPlane(work) /\ IsPlane(index) /\ IsPlane(Nothing)
        BY NothingIsPlane DEF TypeOK
      <3>2. \A p \in Paths \union {ManifestPath} :
              IsPlane(With(work, p, index)) /\ IsPlane(With(index, p, Nothing))
        BY <3>1, WithIsPlane
      <3> QED
        BY <1>1, <3>1, <3>2 DEF Stage
    <2>2. index' = new /\ UNCHANGED <<work, head, sealing, edits, commits, frozen, gated, sealed>>
      BY <2>1 DEF Staging
    <2> QED
      BY <2>1, <2>2 DEF TypeOK
  <1>2. CASE Commit \/ CommitUnverified
    <2>1. head' = index /\ UNCHANGED <<work, index, sealing, edits>>
      BY <1>2 DEF Commit, CommitUnverified, Committing
    <2>2. commits' \in 0..MaxCommits
      <3>1. commits < MaxCommits /\ commits' = commits + 1
        BY <1>2 DEF Commit, CommitUnverified, Committing
      <3>2. commits \in 0..MaxCommits /\ MaxCommits \in Nat
        BY ArchiveAssumption DEF TypeOK
      <3> QED
        BY <3>1, <3>2
    <2>3. gated' \in BOOLEAN /\ sealed' = FALSE
      BY <1>2 DEF Commit, CommitUnverified
    <2>4. DOMAIN frozen' \subseteq Artifacts
      <3>1. DOMAIN index.manifest.files \subseteq Artifacts /\ DOMAIN frozen \subseteq Artifacts
        BY DEF TypeOK, IsPlane, IsManifest
      <3>2. \/ frozen' = <<>>
            \/ DOMAIN frozen' = DOMAIN frozen \union (DOMAIN index.manifest.files \ DOMAIN frozen)
        BY <1>2 DEF Commit, CommitUnverified
      <3> QED
        BY <3>1, <3>2
    <2> QED
      BY <2>1, <2>2, <2>3, <2>4 DEF TypeOK
  <1> QED
    BY <1>1, <1>2

LEMMA TypeStep == TypeOK /\ [Next]_vars => TypeOK'
  <1> SUFFICES ASSUME TypeOK, [Next]_vars PROVE TypeOK'
    OBVIOUS
  <1>1. CASE UNCHANGED vars
    BY <1>1 DEF vars, TypeOK
  <1> QED
    BY <1>1, TypeSeal, TypeEdits, TypeGit DEF Next

\* Files and manifests keep their kinds, and only artifacts get sealed.
THEOREM TypeCorrect == Spec => []TypeOK
  BY TypeInit, TypeStep, PTL DEF Spec

--------------------------------------------------------------------------------
(* What a run without errors has seen *)

LEMMA NoViolations ==
    ASSUME NEW kind, NEW paths
    PROVE  Violations(kind, paths) = {} <=> paths = {}
  BY DEF Violations

\* run without an error, the committed manifest given.
Clean(plane, baseline, seal) ==
    plane # Nothing =>
        /\ StructureErrors(plane) = {} /\ validate_artifacts(plane) = {}
        /\ ManifestErrors(plane, seal) = {}
        /\ baseline.state # "malformed"
        /\ manifest_extension_errors(baseline.files, plane.manifest.files) = {}
        /\ SealErrors(plane, plane.manifest.files) = {}
        /\ seal \/ Added(plane, plane.manifest.files) = {}

LEMMA BaselineClean ==
    ASSUME NEW files
    PROVE  BaselineErrors(files) = {} <=>
             /\ head.manifest.state # "malformed"
             /\ manifest_extension_errors(head.manifest.files, files) = {}
  BY NoViolations DEF BaselineErrors

LEMMA ErrorsClean ==
    ASSUME NEW plane, NEW seal \in BOOLEAN
    PROVE  Errors(plane, seal) = {} <=> Clean(plane, head.manifest, seal)
  <1>1. Violations("unsealed", Added(plane, plane.manifest.files)) = {}
          <=> Added(plane, plane.manifest.files) = {}
    BY NoViolations
  <1>2. BaselineErrors(plane.manifest.files) = {} <=>
             /\ head.manifest.state # "malformed"
             /\ manifest_extension_errors(head.manifest.files, plane.manifest.files) = {}
    BY BaselineClean
  <1> QED
    BY <1>1, <1>2 DEF Errors, Clean

\* The entries a clean manifest has.
LEMMA CleanSeals ==
    ASSUME NEW plane, NEW baseline, NEW seal \in BOOLEAN, Clean(plane, baseline, seal),
           plane # Nothing
    PROVE  /\ \A p \in DOMAIN baseline.files :
                p \in DOMAIN plane.manifest.files /\ plane.manifest.files[p] = baseline.files[p]
           /\ \A p \in DOMAIN plane.manifest.files : plane.files[p] = plane.manifest.files[p]
           /\ Rules \in Present(plane)
           /\ plane.manifest.state # "malformed" /\ (plane.manifest.state = "absent" => seal)
  <1>1. \A p \in DOMAIN baseline.files :
          p \in DOMAIN plane.manifest.files /\ plane.manifest.files[p] = baseline.files[p]
    <2> DEFINE moved == {p \in DOMAIN baseline.files :
                           \/ p \notin DOMAIN plane.manifest.files
                           \/ plane.manifest.files[p] # baseline.files[p]}
    <2>1. Violations("seal moved", moved) = {}
      BY DEF Clean, manifest_extension_errors
    <2>2. moved = {}
      BY <2>1, NoViolations
    <2> QED
      BY <2>2
  <1>2. \A p \in DOMAIN plane.manifest.files : plane.files[p] = plane.manifest.files[p]
    <2> DEFINE broken == {p \in DOMAIN plane.manifest.files : plane.files[p] # plane.manifest.files[p]}
    <2>1. Violations("seal broken", broken) = {}
      BY DEF Clean, SealErrors
    <2>2. broken = {}
      BY <2>1, NoViolations
    <2> QED
      BY <2>2
  <1>3. Rules \in Present(plane)
    BY NoViolations DEF Clean, StructureErrors
  <1>4. plane.manifest.state # "malformed" /\ (plane.manifest.state = "absent" => seal)
    <2>1. <<"manifest", ManifestPath>> \in Violations("manifest", {ManifestPath})
      BY DEF Violations
    <2> QED
      BY <2>1 DEF Clean, ManifestErrors
  <1> QED
    BY <1>1, <1>2, <1>3, <1>4

\* A triplet without errors is absent or complete, recorded and dated.
LEMMA CleanTriplet ==
    ASSUME NEW plane, IsPlane(plane), NEW n \in Notes, TripletErrors(plane, n) = {}
    PROVE  LET md   == plane.files[<<n, "md">>]
               zh   == plane.files[<<n, "zh">>]
               meta == plane.files[<<n, "i18n">>]
           IN  \/ {md, zh, meta} = {Absent}
               \/ /\ Absent \notin {md, zh, meta}
                  /\ meta = Sidecar(md, zh)
                  /\ md.content.archived = zh.content.archived
                  /\ md.content.archived >= FileDate[n]
  <1> DEFINE md   == plane.files[<<n, "md">>]
             zh   == plane.files[<<n, "zh">>]
             meta == plane.files[<<n, "i18n">>]
  <1>1. CASE {md, zh, meta} = {Absent}
    BY <1>1
  <1>2. CASE {md, zh, meta} # {Absent} /\ Absent \in {md, zh, meta}
    <2>1. TripletErrors(plane, n) = Violations("incomplete", {<<n, "md">>})
      BY <1>2 DEF TripletErrors
    <2> QED
      BY <2>1, NoViolations
  <1>3. CASE Absent \notin {md, zh, meta}
    <2> DEFINE dates == Cardinality({md.content.archived, zh.content.archived} \ {0})
    <2>1. /\ HeaderErrors(plane, n) = {}
          /\ {e \in Violations("dates", {<<n, "zh">>}) : dates = 2} = {}
          /\ {e \in Violations("record", {<<n, "i18n">>}) : meta # Sidecar(md, zh)} = {}
      BY <1>3 DEF TripletErrors
    <2>2. meta = Sidecar(md, zh)
      <3>1. <<"record", <<n, "i18n">>>> \in Violations("record", {<<n, "i18n">>})
        BY DEF Violations
      <3> QED
        BY <2>1, <3>1
    <2>3. dates # 2
      <3>1. <<"dates", <<n, "zh">>>> \in Violations("dates", {<<n, "zh">>})
        BY DEF Violations
      <3> QED
        BY <2>1, <3>1
    <2>4. md \in SideTexts /\ zh \in SideTexts
      BY <1>3, ContentTypes, PathKinds DEF IsPlane, Sides
    <2>5. md.content.archived \in Nat /\ zh.content.archived \in Nat /\ FileDate[n] \in Nat
      <3>1. \A side \in SideTexts : side.content \in Texts
        BY DEF SideTexts, Text
      <3> QED
        BY <2>4, <3>1, ArchiveAssumption
    <2>6. \A s \in Sides : LET date == plane.files[<<n, s>>].content.archived
                           IN  date # 0 /\ ~(date < FileDate[n])
      <3> DEFINE date(s) == plane.files[<<n, s>>].content.archived
                 bad == {<<n, s>> : s \in {t \in Sides : date(t) = 0 \/ date(t) < FileDate[n]}}
      <3>1. Violations("header", bad) = {}
        BY <2>1 DEF HeaderErrors
      <3>2. bad = {}
        BY <3>1, NoViolations
      <3> QED
        BY <3>2
    <2>7. /\ md.content.archived # 0 /\ ~(md.content.archived < FileDate[n])
          /\ zh.content.archived # 0
      BY <2>6 DEF Sides
    <2>8. md.content.archived = zh.content.archived
      <3> SUFFICES ASSUME md.content.archived # zh.content.archived PROVE FALSE
        OBVIOUS
      <3>1. {md.content.archived, zh.content.archived} \ {0} =
              {md.content.archived} \union {zh.content.archived}
        BY <2>7
      <3>2. Cardinality({md.content.archived} \union {zh.content.archived}) = 2
        <4> DEFINE a == md.content.archived
                   b == zh.content.archived
        <4>1. IsFiniteSet({a}) /\ Cardinality({a}) = 1
          BY FS_Singleton
        <4>2. b \notin {a}
          OBVIOUS
        <4> HIDE DEF a, b
        <4>3. Cardinality({a} \union {b}) = Cardinality({a}) + 1
          BY <4>1, <4>2, FS_AddElement
        <4> QED
          BY <4>1, <4>3 DEF a, b
      <3> QED
        BY <2>3, <3>1, <3>2
    <2> QED
      BY <1>3, <2>2, <2>5, <2>7, <2>8
  <1> QED
    BY <1>1, <1>2, <1>3

LEMMA CleanIsWhole ==
    ASSUME NEW plane, IsPlane(plane), NEW baseline, Clean(plane, baseline, FALSE), plane # Nothing
    PROVE  Whole(plane)
  <1>1. \A n \in Notes : TripletErrors(plane, n) = {}
    BY DEF Clean, validate_artifacts
  <1>2. plane.manifest.state = "valid"
    BY CleanSeals DEF IsPlane, IsManifest
  <1>3. \A p \in DOMAIN plane.manifest.files : plane.manifest.files[p] = plane.files[p]
    BY CleanSeals
  <1>4. Present(plane) = DOMAIN plane.manifest.files \union {Rules}
    <2>1. Rules \in Present(plane)
      BY CleanSeals
    <2>2. Present(plane) \subseteq DOMAIN plane.manifest.files \union {Rules}
      BY DEF Clean, Added, Present, Paths
    <2>3. DOMAIN plane.manifest.files \subseteq Present(plane)
      BY <1>3, PathKinds DEF Present, IsPlane, IsManifest
    <2> QED
      BY <2>1, <2>2, <2>3
  <1>5. ASSUME NEW n \in Notes
        PROVE  {s \in {"md", "zh", "i18n"} : <<n, s>> \in Present(plane)} \in {{}, {"md", "zh", "i18n"}}
    <2>1. \A s \in {"md", "zh", "i18n"} :
            <<n, s>> \in Present(plane) <=> plane.files[<<n, s>>] # Absent
      BY PathKinds DEF Present
    <2>2. \/ \A s \in {"md", "zh", "i18n"} : plane.files[<<n, s>>] = Absent
          \/ \A s \in {"md", "zh", "i18n"} : plane.files[<<n, s>>] # Absent
      BY <1>1, CleanTriplet
    <2> QED
      BY <2>1, <2>2
  <1>6. ASSUME NEW n \in Notes, <<n, "i18n">> \in Present(plane)
        PROVE  LET md == plane.files[<<n, "md">>]  zh == plane.files[<<n, "zh">>] IN
               /\ plane.files[<<n, "i18n">>] = Sidecar(md, zh)
               /\ md.content.archived = zh.content.archived /\ md.content.archived >= FileDate[n]
    <2>1. plane.files[<<n, "i18n">>] # Absent
      BY <1>6 DEF Present
    <2> QED
      BY <1>1, <2>1, CleanTriplet
  <1> QED
    BY <1>2, <1>3, <1>4, <1>5, <1>6 DEF Whole

\* Writing what seal_state returned leaves an archive that verifies.
LEMMA SealVerifies ==
    ASSUME NEW plane, IsPlane(plane), plane # Nothing, NEW baseline,
           Clean(plane, baseline, TRUE), NEW new,
           new = [plane EXCEPT !.manifest =
                    ArchiveManifest(Extended(plane, plane.manifest.files))]
    PROVE  Clean(new, baseline, FALSE)
  <1> DEFINE old == plane.manifest.files
             files == Extended(plane, old)
             m == ArchiveManifest(files)
  <1>1. new.files = plane.files /\ new.manifest = m
    BY DEF IsPlane
  <1>2. m.state = "valid" /\ m.files = files
    BY DEF ArchiveManifest
  <1>3. /\ DOMAIN files = DOMAIN old \union Added(plane, old)
        /\ \A p \in DOMAIN old : files[p] = old[p]
        /\ \A p \in Added(plane, old) : files[p] = plane.files[p]
    BY ExtendedEntries
  <1>4. /\ \A p \in DOMAIN baseline.files : p \in DOMAIN old /\ old[p] = baseline.files[p]
        /\ \A p \in DOMAIN old : plane.files[p] = old[p]
    BY CleanSeals
  <1>5. StructureErrors(new) = {} /\ validate_artifacts(new) = {}
    <2>1. StructureErrors(new) = StructureErrors(plane)
      BY <1>1 DEF StructureErrors, Present
    <2>2. \A n : TripletErrors(new, n) = TripletErrors(plane, n)
      BY <1>1 DEF TripletErrors, HeaderErrors
    <2> QED
      BY <2>1, <2>2 DEF Clean, validate_artifacts
  <1> HIDE DEF files, m
  <1>6. ManifestErrors(new, FALSE) = {}
    BY <1>1, <1>2 DEF ManifestErrors
  <1>7. manifest_extension_errors(baseline.files, new.manifest.files) = {}
    <2> DEFINE moved == {p \in DOMAIN baseline.files :
                           p \notin DOMAIN files \/ files[p] # baseline.files[p]}
    <2>1. moved = {}
      BY <1>3, <1>4
    <2>2. manifest_extension_errors(baseline.files, files) = Violations("seal moved", moved)
      BY DEF manifest_extension_errors
    <2> QED
      BY <1>1, <1>2, <2>1, <2>2, NoViolations
  <1>8. SealErrors(new, new.manifest.files) = {}
    <2> DEFINE broken == {p \in DOMAIN files : new.files[p] # files[p]}
    <2>1. broken = {}
      BY <1>1, <1>3, <1>4
    <2>2. SealErrors(new, files) = Violations("seal broken", broken)
      BY DEF SealErrors
    <2> QED
      BY <1>1, <1>2, <2>1, <2>2, NoViolations
  <1>9. Added(new, new.manifest.files) = {}
    <2>1. Present(new) = Present(plane)
      BY <1>1 DEF Present
    <2> QED
      BY <1>1, <1>2, <1>3, <2>1 DEF Added
  <1>10. baseline.state # "malformed"
    BY DEF Clean
  <1> QED
    BY <1>5, <1>6, <1>7, <1>8, <1>9, <1>10 DEF Clean

--------------------------------------------------------------------------------
(* The archive invariant *)

\* The errors of a state and of the next one.
LEMMA WorkErrors ==
    /\ \A seal \in BOOLEAN : Errors(work, seal) = {} <=> Clean(work, head.manifest, seal)
    /\ Errors(work, FALSE)' = {} <=> Clean(work', head'.manifest, FALSE)
    /\ Errors(work, TRUE)' = {} <=> Clean(work', head'.manifest, TRUE)
  <1>1. \A seal \in BOOLEAN : Errors(work, seal) = {} <=> Clean(work, head.manifest, seal)
    BY ErrorsClean
  <1>2. (\A seal \in BOOLEAN : Errors(work, seal) = {} <=> Clean(work, head.manifest, seal))'
    BY <1>1, PTL
  <1> QED
    BY <1>1, <1>2

LEMMA InvariantInit == Init => ArchiveInvariant
  <1> SUFFICES ASSUME Init PROVE ArchiveInvariant
    OBVIOUS
  <1>1. TypeOK
    BY TypeInit
  <1>2. AcceptedCommitsAreWhole /\ SealIsSound
    BY DEF Init, AcceptedCommitsAreWhole, SealIsSound, SealThenVerify
  <1>3. FrozenIsSealed
    <2>1. DOMAIN frozen = {}
      BY DEF Init
    <2> QED
      BY <2>1 DEF FrozenIsSealed
  <1> QED
    BY <1>1, <1>2, <1>3 DEF ArchiveInvariant

\* What the hook accepts when every archive path is tracked is what is committed.
LEMMA CommitClean ==
    ASSUME Commit
    PROVE  /\ head' = index
           /\ gated' => Clean(index, head.manifest, FALSE)
           /\ gated' \in BOOLEAN
  <1>1. Errors(HookView, FALSE) = {} /\ head' = index /\ gated' = (HookView = index)
    BY DEF Commit, Committing
  <1>2. Clean(HookView, head.manifest, FALSE)
    BY <1>1, ErrorsClean
  <1> QED
    BY <1>1, <1>2

LEMMA WholeStep ==
    ASSUME TypeOK, AcceptedCommitsAreWhole, [Next]_vars
    PROVE  AcceptedCommitsAreWhole'
  <1> USE DEF AcceptedCommitsAreWhole
  <1>1. CASE Commit
    <2> SUFFICES ASSUME gated', index # Nothing
                 PROVE  Whole(index)
      BY <1>1, CommitClean DEF Whole, Present
    <2> QED
      BY <1>1, CommitClean, CleanIsWhole DEF TypeOK
  <1>2. CASE CommitUnverified
    BY <1>2 DEF CommitUnverified
  <1>3. CASE UNCHANGED <<head, gated>>
    BY <1>3 DEF Whole, Present
  <1>4. CASE SealReads \/ SealWrites \/ SealDies \/ Archive \/ EditFile \/ EditSidecar
             \/ EditManifest \/ Stage
    BY <1>3, <1>4 DEF SealReads, SealWrites, SealDies, Archive, EditFile, EditSidecar,
                      EditManifest, Stage, Put, Edit, Staging
  <1> QED
    BY <1>1, <1>2, <1>3, <1>4 DEF Next, vars

\* An accepted commit keeps what head sealed, with the bytes head had.
LEMMA FrozenStep ==
    ASSUME FrozenIsSealed, [Next]_vars
    PROVE  FrozenIsSealed'
  <1>1. CASE Commit
    <2> DEFINE files == index.manifest.files
               new == DOMAIN files \ DOMAIN frozen
    <2>1. CASE frozen' = <<>>
      <3>1. DOMAIN frozen' = {}
        BY <2>1
      <3> QED
        BY <3>1 DEF FrozenIsSealed
    <2>2. CASE /\ index # Nothing /\ gated'
               /\ frozen' = [p \in DOMAIN frozen \union new |->
                               IF p \in new THEN files[p] ELSE frozen[p]]
      <3>1. head' = index /\ Clean(index, head.manifest, FALSE)
        BY <1>1, <2>2, CommitClean
      <3>2. /\ \A p \in DOMAIN head.manifest.files :
                 p \in DOMAIN files /\ files[p] = head.manifest.files[p]
            /\ \A p \in DOMAIN files : index.files[p] = files[p]
        BY <2>2, <3>1, CleanSeals
      <3>3. \A p \in DOMAIN frozen : p \in DOMAIN files /\ files[p] = frozen[p]
        BY <3>2 DEF FrozenIsSealed
      <3>4. \A p \in DOMAIN frozen' : p \in DOMAIN files /\ frozen'[p] = files[p]
        BY <2>2, <3>3
      <3> QED
        BY <3>1, <3>2, <3>4 DEF FrozenIsSealed
    <2> QED
      BY <1>1, <2>1, <2>2 DEF Commit
  <1>2. CASE CommitUnverified
    <2>1. DOMAIN frozen' = {}
      BY <1>2 DEF CommitUnverified
    <2> QED
      BY <2>1 DEF FrozenIsSealed
  <1>3. CASE UNCHANGED <<head, frozen>>
    BY <1>3 DEF FrozenIsSealed
  <1>4. CASE SealReads \/ SealWrites \/ SealDies \/ Archive \/ EditFile \/ EditSidecar
             \/ EditManifest \/ Stage
    BY <1>3, <1>4 DEF SealReads, SealWrites, SealDies, Archive, EditFile, EditSidecar,
                      EditManifest, Stage, Put, Edit, Staging
  <1> QED
    BY <1>1, <1>2, <1>3, <1>4 DEF Next, vars

\* A seal computes from the archive as it is, and edits in between unset sealed.
LEMMA SealStep ==
    ASSUME TypeOK, SealIsSound, [Next]_vars
    PROVE  SealIsSound'
  <1> USE DEF SealIsSound, SealThenVerify
  <1>1. CASE SealReads
    <2>1. /\ work # Nothing /\ Errors(work, TRUE) = {} /\ UNCHANGED <<work, head>>
          /\ sealing' = ArchiveManifest(Extended(work, work.manifest.files))
      BY <1>1 DEF SealReads
    <2>2. Errors(work, TRUE)' = {}
      BY <2>1, WorkErrors
    <2>3. sealing' # NoManifest
      BY <2>1, ManifestTypes DEF NoManifest
    <2>4. sealing' = ArchiveManifest(Extended(work', work'.manifest.files))
      BY <2>1
    <2>5. Extended(work, work.manifest.files)' = Extended(work', work'.manifest.files)
      BY DEF Extended, Added, Present
    <2> QED
      BY <2>1, <2>2, <2>3, <2>4, <2>5
  <1>2. CASE SealWrites
    <2>1. sealing' = NoManifest /\ head' = head /\ sealed' = sealed /\ sealing # NoManifest
      BY <1>2 DEF SealWrites
    <2> SUFFICES ASSUME sealed
                 PROVE  Errors(work, FALSE)' = {}
      BY <2>1
    <2>2. /\ work # Nothing /\ Errors(work, TRUE) = {}
          /\ work' = [work EXCEPT !.manifest =
                        ArchiveManifest(Extended(work, work.manifest.files))]
      BY <1>2, <2>1 DEF SealWrites
    <2>3. Clean(work, head.manifest, TRUE)
      BY <2>2, WorkErrors
    <2>4. Clean(work', head.manifest, FALSE)
      BY <2>2, <2>3, SealVerifies DEF TypeOK
    <2> QED
      BY <2>1, <2>4, WorkErrors
  <1>3. CASE SealDies \/ Archive \/ EditFile \/ EditSidecar \/ EditManifest
             \/ Commit \/ CommitUnverified
    <2>1. sealed' = FALSE
      BY <1>3 DEF SealDies, Archive, EditFile, EditSidecar, EditManifest, Put, Edit,
                  Commit, CommitUnverified
    <2> QED
      BY <2>1
  <1>4. CASE UNCHANGED <<work, head, sealing, sealed>>
    <2>1. /\ Errors(work, TRUE)' = {} <=> Errors(work, TRUE) = {}
          /\ Errors(work, FALSE)' = {} <=> Errors(work, FALSE) = {}
      BY <1>4, WorkErrors
    <2>2. Extended(work, work.manifest.files)' = Extended(work, work.manifest.files)
      BY <1>4 DEF Extended, Added, Present
    <2> QED
      BY <1>4, <2>1, <2>2
  <1>5. CASE Stage
    BY <1>4, <1>5 DEF Stage, Staging
  <1> QED
    BY <1>1, <1>2, <1>3, <1>4, <1>5 DEF Next, vars

LEMMA InvariantStep == ArchiveInvariant /\ [Next]_vars => ArchiveInvariant'
  BY TypeStep, WholeStep, FrozenStep, SealStep DEF ArchiveInvariant

LEMMA InvariantHolds == Spec => []ArchiveInvariant
  BY InvariantInit, InvariantStep, PTL DEF Spec

\* Every commit the hook accepted with all archive paths tracked holds a whole
\* archive or none, for any RFCs, texts, edits and commits.
THEOREM AcceptedCommitsAreWholeHolds == Spec => []AcceptedCommitsAreWhole
  <1>1. ArchiveInvariant => AcceptedCommitsAreWhole
    BY DEF ArchiveInvariant
  <1> QED
    BY <1>1, InvariantHolds, PTL

\* Bytes once accepted as sealed are the bytes of every accepted commit after it, up
\* to the first that bypasses the hook, removes the whole archive, or is accepted
\* with an archive path untracked: past such a commit nothing is promised, and
\* after the last of these the sealed bytes may be gone.
THEOREM FrozenBytesStayHolds == Spec => []FrozenBytesStay
  <1>1. ArchiveInvariant => FrozenBytesStay
    BY DEF ArchiveInvariant, FrozenIsSealed, FrozenBytesStay
  <1> QED
    BY <1>1, InvariantHolds, PTL

\* What a successful seal leaves verifies until somebody edits or commits.
THEOREM SealThenVerifyHolds == Spec => []SealThenVerify
  <1>1. ArchiveInvariant => SealThenVerify
    BY DEF ArchiveInvariant, SealIsSound
  <1> QED
    BY <1>1, InvariantHolds, PTL

================================================================================

--------------------------- MODULE AdoptApplyProofs ---------------------------
(***************************************************************************)
(* Proofs about AdoptApply, for any destinations, any number of releases   *)
(* and days, and any number of runs and edits.                             *)
(***************************************************************************)
EXTENDS AdoptApply, FiniteSetTheorems, TLAPS

--------------------------------------------------------------------------------
(* Destinations and contents *)

LEMMA Kinds ==
    /\ \A d \in Mirrored :
         d \in Dest /\ d \notin TemplatePairs /\ d \notin SlotTemplates /\ d \notin Shared
                    /\ d \notin Orders /\ d \notin Config /\ d \notin Editable /\ d \notin Rfcs
    /\ \A d \in Rfcs :
         d \in Dest /\ d \notin TemplatePairs /\ d \notin SlotTemplates /\ d \notin Shared
                    /\ d \notin Orders /\ d \notin Config /\ d \notin Editable
    /\ \A d \in SlotTemplates :
         d \in Dest /\ d \notin TemplatePairs /\ d \notin Shared /\ d \notin Orders
                    /\ d \notin Config /\ d \notin Editable
    /\ \A d \in Shared :
         d \in Dest /\ d \notin TemplatePairs /\ d \notin Orders /\ d \notin Config /\ d \notin Editable
    /\ \A d \in Dest : d \in Mirrored \/ d \in Editable \/ d \in SlotTemplates \/ d \in Shared
                       \/ d \in Orders \/ d \in Config \/ d \in Rfcs
    /\ \A d \in Orders \union Config \union Editable : d \in Dest
    /\ PairingManifest \in Dest /\ IssueConfig \in Dest
    /\ MirroredPairs \subseteq Mirrored
  <1>1. (Orders \union Config) \subseteq Dest
    BY DEF Dest
  <1>2. \A d \in Mirrored : d \notin TemplatePairs /\ d \notin SlotTemplates /\ d \notin Shared
                    /\ d \notin Orders /\ d \notin Config /\ d \notin Rfcs
    <2>1. \A d \in MirroredFiles : d \notin Orders /\ d \notin Config /\ d \notin Rfcs
      BY AdoptAssumption
    <2>2. \A d \in MirroredPairs : d \notin Orders /\ d \notin Config /\ d \notin Rfcs
      BY AdoptAssumption
    <2> QED BY <2>1, <2>2, AdoptAssumption DEF Mirrored
  <1>3. \A d \in TemplatePairs \union SlotTemplates \union Shared :
          d \notin Orders /\ d \notin Config /\ d \notin Rfcs
    BY AdoptAssumption
  <1>4. RootOrders \in Orders /\ PairingManifest \in Config /\ IssueConfig \in Config
    BY DEF Orders, Config
  <1>5. \A d \in Orders : d \notin Config
    BY DEF Orders, Config, RootOrders, DocsOrders, PairingManifest, IssueConfig
  <1>6. \A d \in Rfcs : d \notin Orders /\ d \notin Config
    BY AdoptAssumption
  <1> QED BY <1>1, <1>2, <1>3, <1>4, <1>5, <1>6, AdoptAssumption DEF Mirrored, Dest, Editable

LEMMA PartsAre ==
    /\ Nothing \in Parts /\ Lines \in Parts /\ Anchors \in Parts
    /\ \A r \in Releases : Asks(Guidance[r]) \in Parts /\ Fills(Guidance[r]) \in Parts
    /\ \A p \in Parts : p.kind \in {"nothing", "lines", "anchors", "asks", "fills"}
    /\ \A p \in Parts : p.kind = "nothing" => p = Nothing
    /\ \A p \in Parts : p.kind = "asks" =>
         p = Asks(p.guidance) /\ Fills(p.guidance) \in Parts /\ Fills(p.guidance).kind = "fills"
    /\ \A p \in Parts : p.kind = "fills" => p = Fills(p.guidance)
    /\ Nothing.kind = "nothing" /\ Lines.kind = "lines" /\ Anchors.kind = "anchors"
    /\ \A g : Asks(g).kind = "asks" /\ Fills(g).kind = "fills"
    /\ \A g, h : /\ Asks(g) = Asks(h) => g = h
                 /\ Fills(g) = Fills(h) => g = h
                 /\ Asks(g) # Fills(h)
  BY DEF Parts, Part, Nothing, Lines, Anchors, Asks, Fills

LEMMA BytesAre ==
    ASSUME NEW b \in {"nobody", "consumer", "broken", "hdsh"}, NEW r \in 0..Len(Guidance),
           NEW p \in Parts
    PROVE  /\ Bytes(b, r, p) \in Contents
           /\ Bytes(b, r, p).by = b /\ Bytes(b, r, p).release = r /\ Bytes(b, r, p).part = p
  BY DEF Bytes, Contents

LEMMA ContentsAre ==
    /\ Own \in Contents /\ Absent \in Contents /\ Merged \in Contents /\ Broken \in Contents
    /\ Own.by = "consumer" /\ Own.part = Nothing /\ Absent.by = "nobody" /\ Absent.part = Nothing
    /\ Merged.by = "consumer" /\ Broken.by = "broken" /\ Broken.part = Nothing
    /\ \A r \in 0..Len(Guidance) :
         Up(r) \in Contents /\ Up(r).by = "hdsh" /\ Up(r).part = Nothing /\ Up(r).release = r
    /\ \A c \in Contents : c.by \in {"nobody", "consumer", "broken", "hdsh"} /\ c.part \in Parts
                           /\ c.release \in 0..Len(Guidance)
  <1>1. 0 \in 0..Len(Guidance)
    BY AdoptAssumption
  <1> QED BY <1>1, PartsAre, BytesAre DEF Own, Absent, Merged, Broken, Up, Contents

\* Changing one field of a content.
LEMMA ChangePart ==
    ASSUME NEW c \in Contents, NEW p \in Parts, NEW e, e = [c EXCEPT !.part = p]
    PROVE  e \in Contents /\ e.by = c.by /\ e.part = p /\ e.release = c.release
  BY DEF Contents

LEMMA ReleasesAre ==
    ASSUME NEW r \in Releases
    PROVE  r \in 0..Len(Guidance) /\ r \in Nat
  BY AdoptAssumption DEF Releases

LEMMA DiskTyped ==
    ASSUME TypeOK, NEW d \in Dest
    PROVE  /\ disk[d] \in Contents /\ head[d] \in Contents
           /\ disk[d].by \in {"nobody", "consumer", "broken", "hdsh"} /\ disk[d].part \in Parts
  BY ContentsAre DEF TypeOK

--------------------------------------------------------------------------------
(* What preflight plans *)

LEMMA PreviousIs ==
    ASSUME ManifestFits
    PROVE  /\ manifest.state = "valid" => Previous = manifest
           /\ manifest.state # "valid" =>
                /\ Previous.date = 0 /\ Previous.files = <<>> /\ Previous.guidance = <<>>
                /\ \A d : d \notin DOMAIN Previous.files /\ d \notin DOMAIN Previous.guidance
  <1>1. \A d : d \notin DOMAIN <<>>
    OBVIOUS
  <1>2. NoManifest.files = <<>> /\ NoManifest.guidance = <<>> /\ NoManifest.date = 0
    BY DEF NoManifest
  <1> QED BY <1>1, <1>2 DEF Previous, ManifestFits

LEMMA DateIsADay ==
    ASSUME TypeOK, ManifestFits
    PROVE  /\ AdoptionDate \in 1..day /\ AdoptionDate \in Days /\ day \in Nat
           /\ RfcAnchors[AdoptionDate] \in Rfcs
           /\ manifest.state = "valid" => AdoptionDate = manifest.date
           /\ manifest.state # "valid" => AdoptionDate = day
  <1>1. day \in Nat /\ day \in 1..Len(RfcAnchors)
    BY AdoptAssumption DEF TypeOK, Days
  <1>2. manifest.state = "valid" => manifest.date \in 1..day
    BY DEF ManifestFits
  <1> QED BY <1>1, <1>2, PreviousIs, AdoptAssumption DEF AdoptionDate, Days, Rfcs

\* The clobber check compares exactly the mirrored files and the dated RFC that
\* are on disk.
LEMMA ComparedMeans ==
    ASSUME TypeOK, ManifestFits, NEW d
    PROVE  d \in Compared <=> d \in Mirrored \union {RfcAnchors[AdoptionDate]} /\ Exists(d)
  <1>1. d \in Compared <=>
          d \in Considered /\ Exists(d) /\ d \notin Shared \union SlotTemplates
                           /\ d \notin Config \union Orders \union Editable
    BY DEF Compared, Replaced, LeftAlone
  <1>2. d \in Considered <=> /\ d \in (Dest \ Rfcs) \union {RfcAnchors[AdoptionDate]}
                             /\ ~(d \in TemplatePairs /\ ConsumerOwned(d))
    BY DEF Considered
  <1>3. RfcAnchors[AdoptionDate] \in Rfcs
    BY DateIsADay
  <1> QED BY <1>1, <1>2, <1>3, Kinds

LEMMA RenderedIs ==
    ASSUME TypeOK, SlotFiles, NEW d \in Dest
    PROVE  /\ Rendered(d) \in Contents /\ Rendered(d).by = "hdsh"
           /\ d \notin Shared \union SlotTemplates => Rendered(d) = Up(release)
           /\ d \in Shared => Rendered(d).part = disk[d].part
           /\ d \in SlotTemplates =>
                /\ Rendered(d).part = SlotValue(d) /\ Rendered(d).part.kind \in {"asks", "fills"}
                /\ SlotValue(d) \in {disk[d].part, Asks(Guidance[release])}
  <1>1. release \in Releases /\ release \in 0..Len(Guidance)
    BY ReleasesAre DEF TypeOK
  <1>2. CASE d \in Shared
    <2>1. Rendered(d) = Bytes("hdsh", release, disk[d].part)
      BY <1>2 DEF Rendered, WithManagedBlock
    <2>2. d \notin SlotTemplates
      BY <1>2, Kinds
    <2> QED BY <1>1, <1>2, <2>1, <2>2, BytesAre, DiskTyped
  <1>3. CASE d \in SlotTemplates
    <2>1. d \notin Shared
      BY <1>3, Kinds
    <2>2. Rendered(d) = Bytes("hdsh", release, SlotValue(d))
      BY <1>3, <2>1 DEF Rendered, SplicedSlots
    <2>3. \/ SlotValue(d) = Asks(Guidance[release])
          \/ SlotValue(d) = disk[d].part /\ disk[d].part # Nothing
      BY DEF SlotValue, Slot
    <2>4. Asks(Guidance[release]) \in Parts /\ Asks(Guidance[release]).kind = "asks"
      BY <1>1, PartsAre
    <2>5. disk[d].part \in Parts /\ (disk[d].part # Nothing => disk[d].part.kind \in {"asks", "fills"})
      BY <1>3, DiskTyped DEF SlotFiles
    <2>6. SlotValue(d) \in Parts /\ SlotValue(d).kind \in {"asks", "fills"}
      BY <2>3, <2>4, <2>5
    <2> QED BY <1>1, <1>3, <2>1, <2>2, <2>3, <2>6, BytesAre
  <1>4. CASE d \notin Shared \union SlotTemplates
    <2>1. Rendered(d) = Up(release)
      BY <1>4 DEF Rendered
    <2> QED BY <1>1, <1>4, <2>1, ContentsAre
  <1> QED BY <1>2, <1>3, <1>4

\* With no blocker, the plan writes every mirrored file, every slot and the RFC
\* of the adoption date, and what it replaces is absent, vouched for, or keeps
\* the consumer's part.
LEMMA KeptIs ==
    ASSUME TypeOK, ManifestFits, Blockers = {}
    PROVE  /\ Kept \subseteq Dest
           /\ Mirrored \union SlotTemplates \union {RfcAnchors[AdoptionDate]} \subseteq Kept
           /\ Kept \intersect Rfcs \subseteq {RfcAnchors[AdoptionDate]}
           /\ \A d \in Kept : d \in Shared \/ d \in SlotTemplates \/ ~Exists(d) \/ Vouched(d)
           /\ \A d \in SlotTemplates : disk[d] # Broken
           /\ manifest.state # "broken"
  <1>1. RfcAnchors[AdoptionDate] \in Rfcs
    BY DateIsADay
  <1>2. Considered \subseteq Dest /\ Considered \intersect Rfcs \subseteq {RfcAnchors[AdoptionDate]}
        /\ Kept \subseteq Considered
    BY <1>1, Kinds DEF Considered, Kept, Replaced, Compared
  <1>3. \A d \in Compared : Vouched(d)
    BY DEF Blockers
  <1>4. \A d \in SlotTemplates : disk[d] # Broken
    BY Kinds DEF Blockers, SlotMalformed
  <1>5. manifest.state # "broken"
    BY DEF Blockers, Malformed
  <1>6. \A d \in Kept : d \in Shared \/ d \in SlotTemplates \/ ~Exists(d) \/ Vouched(d)
    BY DEF Kept, Replaced
  <1>7. ASSUME NEW d \in Mirrored \union SlotTemplates \union {RfcAnchors[AdoptionDate]}
        PROVE  d \in Kept
    <2>1. d \in Considered
      BY <1>1, Kinds DEF Considered
    <2>2. d \in Replaced \/ d \in Compared
      BY <1>1, <2>1, Kinds DEF Compared, LeftAlone
    <2> QED BY <1>3, <2>2 DEF Kept
  <1> QED BY <1>2, <1>4, <1>5, <1>6, <1>7

--------------------------------------------------------------------------------
(* The invariant *)

LEMMA WorkIs ==
    /\ Work(Absent) = Nothing
    /\ \A r \in 0..Len(Guidance) : Work(Up(r)) = Nothing
    /\ \A c, e : c.by # "consumer" /\ e.by # "consumer" /\ c.part = e.part => Work(c) = Work(e)
  <1>1. "nothing" \notin {"fills", "lines"} /\ Nothing.kind = "nothing"
    BY PartsAre
  <1> QED BY <1>1, ContentsAre DEF Work

LEMMA NoPlanIs ==
    /\ NoPlan.release = 0 /\ NoPlan.writes = <<>> /\ DOMAIN NoPlan.writes = {}
    /\ \A r : /\ [NoPlan EXCEPT !.release = r].release = r
              /\ DOMAIN [NoPlan EXCEPT !.release = r].writes = {}
  <1>1. DOMAIN <<>> = {}
    OBVIOUS
  <1> QED BY <1>1 DEF NoPlan

LEMMA InvInit ==
    ASSUME Init
    PROVE  AdoptInvariant
  <1>a. /\ disk = [d \in Dest |-> IF d \in Preexisting
                              THEN IF d \in Shared THEN Bytes("consumer", 0, Lines) ELSE Own
                              ELSE Absent]
        /\ head = disk
        /\ record = [d \in MirroredPairs \union TemplatePairs \union Rfcs |-> Absent]
        /\ manifest = NoManifest /\ dirty = FALSE /\ release = 1 /\ day = 1
        /\ pc = "idle" /\ plan = NoPlan /\ todo = {} /\ exit = "none"
        /\ touched = {} /\ unvouched = FALSE /\ edits = 0 /\ runs = 0
    BY DEF Init
  <1>b. /\ manifest.state = "none" /\ manifest.date = 0 /\ manifest.files = <<>>
        /\ manifest.guidance = <<>> /\ manifest.editable = {} /\ manifest.pending = {}
        /\ DOMAIN manifest.files = {}
    <2>1. DOMAIN <<>> = {}
      OBVIOUS
    <2> QED BY <1>a, <2>1 DEF NoManifest
  <1>c. 0 \in 0..Len(Guidance) /\ 0 \in 0..Len(RfcAnchors) /\ 1 \in Releases /\ 1 \in Days
        /\ 0 \in 0..MaxEdits /\ 0 \in 0..MaxRuns
    BY AdoptAssumption DEF Releases, Days
  <1>d. Bytes("consumer", 0, Lines) \in Contents /\ Bytes("consumer", 0, Lines).by = "consumer"
    BY <1>c, BytesAre, PartsAre
  <1>e. \A d \in Dest : disk[d] \in Contents /\ disk[d].by \in {"consumer", "nobody"}
                        /\ (d \notin Shared => disk[d].part = Nothing)
    BY <1>a, <1>d, ContentsAre
  <1>f. ~Running /\ \A d : ~Pending(d)
    BY <1>a DEF Running, Pending
  <1>1. TypeOK
    <2>1. disk \in [Dest -> Contents]
      BY <1>a, <1>e
    <2>2. record \in [MirroredPairs \union TemplatePairs \union Rfcs -> Contents]
      BY <1>a, ContentsAre
    <2> QED BY <1>a, <1>b, <1>c, <2>1, <2>2, NoPlanIs DEF TypeOK
  <1>2. ManifestFits
    BY <1>b DEF ManifestFits
  <1>3. PlanFits
    BY <1>a, <1>f, NoPlanIs DEF PlanFits
  <1>4. PlannedBytesOnDisk
    BY <1>f DEF PlannedBytesOnDisk
  <1>5. CommitHoldsTheRest
    BY <1>a, <1>f DEF CommitHoldsTheRest
  <1>6. SlotFiles
    BY <1>b, <1>e, <1>f, Kinds DEF SlotFiles
  <1>7. PlanPreservesWork
    BY <1>f DEF PlanPreservesWork
  <1>8. RfcOfTheDate
    BY <1>b, <1>e, Kinds DEF RfcOfTheDate
  <1> QED BY <1>1, <1>2, <1>3, <1>4, <1>5, <1>6, <1>7, <1>8 DEF AdoptInvariant

LEMMA InvPreflight ==
    ASSUME AdoptInvariant, NEW given, NEW derivable, Preflight(given, derivable)
    PROVE  AdoptInvariant'
  <1> USE DEF AdoptInvariant
  <1>a. /\ pc = "idle" /\ runs < MaxRuns /\ ~dirty /\ Blockers = {}
        /\ plan' = AdoptionPlan /\ todo' = Kept /\ pc' = "writing" /\ exit' = "none"
        /\ touched' = {} /\ runs' = runs + 1
        /\ head' = head /\ disk' = disk /\ record' = record /\ manifest' = manifest
        /\ dirty' = dirty /\ unvouched' = unvouched /\ release' = release /\ day' = day
        /\ edits' = edits
    BY DEF Preflight, Refused, consumer
  <1>b. /\ plan'.writes = [d \in Kept |-> Rendered(d)] /\ plan'.release = release
        /\ plan'.records = (Considered \intersect (MirroredPairs \union TemplatePairs))
                           \union {RfcAnchors[AdoptionDate]}
        /\ plan'.pending = PlannedMerges /\ plan'.date = AdoptionDate
        /\ plan'.guidance = [d \in SlotTemplates |-> Guidance[release]]
    BY <1>a DEF AdoptionPlan
  <1>c. Previous' = Previous /\ AdoptionDate' = AdoptionDate /\ Running'
        /\ \A d : Pending(d)' <=> d \in Kept
    BY <1>a DEF Previous, AdoptionDate, Running, Pending
  <1>d. DOMAIN plan'.writes = Kept /\ \A d \in Kept : plan'.writes[d] = Rendered(d)
    BY <1>b
  <1>e. Kept \subseteq Dest /\ RfcAnchors[AdoptionDate] \in Rfcs
    BY <1>a, KeptIs, DateIsADay
  <1>f. release \in 0..Len(Guidance) /\ release \in Nat
    BY ReleasesAre DEF TypeOK
  <1>1. TypeOK'
    <2>1. runs' \in 0..MaxRuns
      BY <1>a, AdoptAssumption DEF TypeOK
    <2> QED BY <1>a, <1>d, <1>e, <2>1 DEF TypeOK
  <1>2. ManifestFits'
    BY <1>a DEF ManifestFits
  <1>3. PlanFits'
    <2>1. \A d \in Kept : /\ Rendered(d) \in Contents /\ Rendered(d).by = "hdsh"
                          /\ (d \notin Shared \union SlotTemplates => Rendered(d) = Up(release))
      BY <1>e, RenderedIs
    <2>2. plan'.records \subseteq DOMAIN record'
      BY <1>a, <1>b, <1>e DEF TypeOK
    <2>3. plan'.records \intersect (MirroredPairs \union Rfcs) \subseteq Kept
      BY <1>a, <1>b, KeptIs, Kinds
    <2>4. plan'.pending \subseteq Orders
      BY <1>b DEF PlannedMerges
    <2>5. plan'.release \in 0..release'
      BY <1>a, <1>b, <1>f
    <2> QED
      BY <1>a, <1>b, <1>c, <1>d, <2>1, <2>2, <2>3, <2>4, <2>5, KeptIs DEF PlanFits, Running
  <1>4. PlannedBytesOnDisk'
    BY <1>c, <1>d DEF PlannedBytesOnDisk
  <1>5. CommitHoldsTheRest'
    BY <1>a DEF CommitHoldsTheRest
  <1>6. SlotFiles'
    <2>1. \A d \in SlotTemplates : d \in Kept /\ Rendered(d).part.kind \in {"asks", "fills"}
      BY <1>a, Kinds, KeptIs, RenderedIs
    <2> QED BY <1>a, <1>c, <1>d, <2>1 DEF SlotFiles
  <1>7. PlanPreservesWork'
    <2>1. SUFFICES ASSUME NEW d \in Kept, ~Resettable(d)'
                   PROVE  \/ Work(plan'.writes[d]) = Work(disk[d])
                          \/ d \in Shared /\ plan'.writes[d].part = disk[d].part
      BY <1>a, <1>c DEF PlanPreservesWork
    <2>2. d \in Dest /\ plan'.writes[d] = Rendered(d) /\ disk[d] \in Contents
      BY <1>d, <1>e, DiskTyped
    <2>3. CASE d \in Shared
      BY <2>2, <2>3, RenderedIs
    <2>4. CASE d \in SlotTemplates
      <3>1. d \in DOMAIN Previous.guidance /\ Previous.guidance[d] = Guidance[release]
        BY <1>b, <1>c, <2>1, <2>4 DEF Resettable
      <3>2. manifest.state = "valid"
        BY <3>1, PreviousIs
      <3>3. disk[d].by = "hdsh" /\ disk[d].part.kind \in {"asks", "fills"}
        BY <1>a, <2>4, <3>2, KeptIs DEF SlotFiles
      <3>4. SlotValue(d) = disk[d].part
        BY <3>1, <3>3, PartsAre DEF SlotValue, Slot
      <3> QED BY <2>2, <2>4, <3>3, <3>4, RenderedIs, WorkIs
    <2>5. CASE d \notin Shared \union SlotTemplates
      <3>1. Rendered(d) = Up(release) /\ Work(Up(release)) = Nothing
        BY <1>f, <2>2, <2>5, RenderedIs, WorkIs
      <3>2. ~Exists(d) \/ Vouched(d)
        BY <1>a, <2>5, KeptIs
      <3>3. CASE ~Exists(d) \/ disk[d] = Rendered(d)
        BY <2>2, <3>1, <3>3, WorkIs DEF Exists
      <3>4. CASE d \in DOMAIN Previous.files /\ disk[d] = Previous.files[d]
        <4>1. manifest.state = "valid" /\ Previous = manifest
          BY <3>4, PreviousIs
        <4>2. disk[d] = Up(manifest.release) /\ manifest.release \in 1..release
          BY <3>4, <4>1 DEF ManifestFits
        <4>3. manifest.release \in 0..Len(Guidance)
          BY <1>f, <4>2
        <4> QED BY <2>2, <3>1, <4>2, <4>3, WorkIs
      <3> QED BY <3>2, <3>3, <3>4 DEF Vouched
    <2> QED BY <2>3, <2>4, <2>5
  <1>8. RfcOfTheDate'
    BY <1>a, <1>c DEF RfcOfTheDate, Running
  <1> QED BY <1>1, <1>2, <1>3, <1>4, <1>5, <1>6, <1>7, <1>8

LEMMA NextIsPending ==
    ASSUME NEW d, IsNext(d)
    PROVE  d \in todo
  BY DEF IsNext

LEMMA InvWrite ==
    ASSUME AdoptInvariant, NEW d \in Dest, Write(d)
    PROVE  AdoptInvariant'
  <1> USE DEF AdoptInvariant
  <1>a. /\ pc = "writing" /\ d \in todo
        /\ disk' = [disk EXCEPT ![d] = plan.writes[d]]
        /\ (dirty' <=> (dirty \/ disk'[d] # disk[d])) /\ dirty' \in BOOLEAN
        /\ todo' = todo \ {d}
        /\ head' = head /\ record' = record /\ manifest' = manifest /\ pc' = pc /\ plan' = plan
        /\ exit' = exit /\ touched' = touched /\ unvouched' = unvouched /\ runs' = runs
        /\ release' = release /\ day' = day /\ edits' = edits
    BY NextIsPending DEF Write, consumer, TypeOK
  <1>b. Previous' = Previous /\ AdoptionDate' = AdoptionDate /\ Running /\ Running'
        /\ \A e : Pending(e)' <=> Pending(e) /\ e # d
    BY <1>a DEF Previous, AdoptionDate, Running, Pending
  <1>c. d \in DOMAIN plan.writes /\ Pending(d) /\ plan.writes[d] \in Contents
        /\ plan.writes[d].by = "hdsh" /\ Pending(d)
    BY <1>a, <1>b DEF PlanFits, Pending
  <1>d. disk'[d] = plan.writes[d] /\ \A e \in Dest : e # d => disk'[e] = disk[e]
    BY <1>a DEF TypeOK
  <1>1. TypeOK'
    <2>1. disk' \in [Dest -> Contents]
      BY <1>a, <1>c DEF TypeOK
    <2> QED BY <1>a, <2>1 DEF TypeOK
  <1>2. ManifestFits'
    BY <1>a DEF ManifestFits
  <1>3. PlanFits'
    BY <1>a, <1>b DEF PlanFits
  <1>4. PlannedBytesOnDisk'
    <2>1. DOMAIN plan.writes \subseteq Dest
      BY DEF TypeOK
    <2> QED BY <1>a, <1>b, <1>d, <2>1 DEF PlannedBytesOnDisk
  <1>5. CommitHoldsTheRest'
    <2>1. ~dirty' => disk' = disk /\ ~dirty
      BY <1>a, <1>d DEF TypeOK
    <2> QED BY <1>a, <1>b, <1>d, <2>1 DEF CommitHoldsTheRest
  <1>6. SlotFiles'
    <2>1. ASSUME NEW e \in SlotTemplates, e # d
          PROVE  disk'[e] = disk[e] /\ (Pending(e)' <=> Pending(e))
      BY <1>b, <1>d, <2>1, Kinds
    <2> QED BY <1>a, <1>b, <1>c, <1>d, <2>1 DEF SlotFiles
  <1>7. PlanPreservesWork'
    <2>1. \A e : Resettable(e)' <=> Resettable(e)
      BY <1>a, <1>b DEF Resettable
    <2> QED BY <1>a, <1>b, <1>d, <2>1 DEF PlanPreservesWork
  <1>8. RfcOfTheDate'
    <2>1. d \in Rfcs => d = RfcAnchors[AdoptionDate]
      BY <1>b, <1>c DEF PlanFits
    <2>2. \A e \in Rfcs : e # d => disk'[e] = disk[e]
      BY <1>d, Kinds
    <2> QED BY <1>a, <1>b, <2>1, <2>2 DEF RfcOfTheDate
  <1> QED BY <1>1, <1>2, <1>3, <1>4, <1>5, <1>6, <1>7, <1>8

LEMMA InvStartRecording ==
    ASSUME AdoptInvariant, StartRecording
    PROVE  AdoptInvariant'
  <1> USE DEF AdoptInvariant
  <1>a. /\ pc = "writing" /\ todo = {} /\ pc' = "recording" /\ todo' = plan.records
        /\ head' = head /\ disk' = disk /\ record' = record /\ manifest' = manifest
        /\ dirty' = dirty /\ plan' = plan /\ exit' = exit /\ touched' = touched
        /\ unvouched' = unvouched /\ runs' = runs
        /\ release' = release /\ day' = day /\ edits' = edits
    BY DEF StartRecording, consumer
  <1>b. Previous' = Previous /\ AdoptionDate' = AdoptionDate /\ Running /\ Running'
        /\ \A e : ~Pending(e)' /\ ~Pending(e)
    BY <1>a DEF Previous, AdoptionDate, Running, Pending
  <1>1. TypeOK'
    <2>1. plan.records \subseteq Dest
      BY <1>b, Kinds DEF PlanFits, TypeOK, Dest
    <2> QED BY <1>a, <2>1 DEF TypeOK
  <1>2. ManifestFits'
    BY <1>a DEF ManifestFits
  <1>3. PlanFits'
    BY <1>a, <1>b DEF PlanFits
  <1>4. PlannedBytesOnDisk'
    BY <1>a, <1>b DEF PlannedBytesOnDisk
  <1>5. CommitHoldsTheRest'
    BY <1>a, <1>b DEF CommitHoldsTheRest
  <1>6. SlotFiles'
    BY <1>a, <1>b DEF SlotFiles
  <1>7. PlanPreservesWork'
    BY <1>b DEF PlanPreservesWork
  <1>8. RfcOfTheDate'
    BY <1>a, <1>b DEF RfcOfTheDate
  <1> QED BY <1>1, <1>2, <1>3, <1>4, <1>5, <1>6, <1>7, <1>8

LEMMA InvRecord ==
    ASSUME AdoptInvariant, NEW d \in DOMAIN record, Record(d)
    PROVE  AdoptInvariant'
  <1> USE DEF AdoptInvariant
  <1>a. /\ pc = "recording" /\ d \in todo
        /\ record' = [record EXCEPT ![d] = disk[d]]
        /\ (dirty' <=> (dirty \/ record' # record)) /\ dirty' \in BOOLEAN
        /\ todo' = todo \ {d}
        /\ head' = head /\ disk' = disk /\ manifest' = manifest /\ pc' = pc /\ plan' = plan
        /\ exit' = exit /\ touched' = touched /\ unvouched' = unvouched /\ runs' = runs
        /\ release' = release /\ day' = day /\ edits' = edits
    BY NextIsPending DEF Record, consumer, TypeOK
  <1>b. Previous' = Previous /\ AdoptionDate' = AdoptionDate /\ Running /\ Running'
        /\ \A e : ~Pending(e)' /\ ~Pending(e)
    BY <1>a DEF Previous, AdoptionDate, Running, Pending
  <1>1. TypeOK'
    <2>1. disk[d] \in Contents
      BY DiskTyped, Kinds DEF TypeOK, Dest
    <2>2. record' \in [MirroredPairs \union TemplatePairs \union Rfcs -> Contents]
      BY <1>a, <2>1 DEF TypeOK
    <2> QED BY <1>a, <2>2 DEF TypeOK
  <1>2. ManifestFits'
    BY <1>a DEF ManifestFits
  <1>3. PlanFits'
    <2>1. DOMAIN record' = DOMAIN record
      BY <1>a
    <2> QED BY <1>a, <1>b, <2>1 DEF PlanFits
  <1>4. PlannedBytesOnDisk'
    BY <1>a, <1>b DEF PlannedBytesOnDisk
  <1>5. CommitHoldsTheRest'
    BY <1>a, <1>b DEF CommitHoldsTheRest
  <1>6. SlotFiles'
    BY <1>a, <1>b DEF SlotFiles
  <1>7. PlanPreservesWork'
    BY <1>b DEF PlanPreservesWork
  <1>8. RfcOfTheDate'
    BY <1>a, <1>b DEF RfcOfTheDate
  <1> QED BY <1>1, <1>2, <1>3, <1>4, <1>5, <1>6, <1>7, <1>8

LEMMA InvSaveManifest ==
    ASSUME AdoptInvariant, SaveManifest
    PROVE  AdoptInvariant'
  <1> USE DEF AdoptInvariant
  <1>a. /\ pc = "recording" /\ todo = {} /\ manifest' = AdoptManifest
        /\ (dirty' <=> (dirty \/ manifest' # manifest)) /\ dirty' \in BOOLEAN
        /\ pc' = "idle" /\ exit' = "installed" /\ todo' = {}
        /\ plan' = [NoPlan EXCEPT !.release = plan.release]
        /\ head' = head /\ disk' = disk /\ record' = record
        /\ touched' = touched /\ unvouched' = unvouched /\ runs' = runs
        /\ release' = release /\ day' = day /\ edits' = edits
    BY DEF SaveManifest, End, consumer, TypeOK
  <1>b. /\ manifest'.state = "valid" /\ manifest'.release = plan.release
        /\ manifest'.date = plan.date /\ manifest'.pending = plan.pending
        /\ manifest'.guidance = plan.guidance
        /\ manifest'.editable = DOMAIN plan.writes \intersect Editable
        /\ manifest'.files = [d \in Pinned(DOMAIN plan.writes) |-> plan.writes[d]]
    BY <1>a DEF AdoptManifest
  <1>c. Running /\ ~Running' /\ \A e : ~Pending(e)' /\ ~Pending(e)
    BY <1>a DEF Running, Pending
  <1>d. /\ DOMAIN plan'.writes = {} /\ plan'.release = plan.release /\ plan.release = release
        /\ plan.date = AdoptionDate
    BY <1>a, <1>c, NoPlanIs DEF PlanFits
  <1>e. DOMAIN manifest'.files = Pinned(DOMAIN plan.writes)
        /\ Pinned(DOMAIN plan.writes) \subseteq DOMAIN plan.writes
    BY <1>b DEF Pinned
  <1>f. AdoptionDate \in 1..day /\ day \in 1..Len(RfcAnchors) /\ release \in Nat /\ release > 0
    BY DateIsADay, ReleasesAre DEF TypeOK, Days, Releases
  <1>1. TypeOK'
    <2>1. manifest'.state \in {"none", "valid", "broken"} /\ manifest'.date \in 0..Len(RfcAnchors)
          /\ manifest'.editable \subseteq Editable /\ manifest'.pending \subseteq Orders
          /\ DOMAIN manifest'.files \subseteq Dest
      BY <1>b, <1>c, <1>d, <1>e, <1>f, AdoptAssumption DEF PlanFits, TypeOK
    <2> QED BY <1>a, <1>d, <2>1 DEF TypeOK
  <1>2. ManifestFits'
    <2>1. manifest'.release \in 1..release' /\ manifest'.date \in 1..day'
      BY <1>a, <1>b, <1>d, <1>f
    <2>2. Mirrored \subseteq DOMAIN manifest'.files
      BY <1>c, <1>e, Kinds DEF Pinned, PlanFits
    <2>3. \A e \in DOMAIN manifest'.files : manifest'.files[e] = Up(manifest'.release)
      BY <1>b, <1>c, <1>d, <1>e DEF Pinned, PlanFits
    <2> QED BY <1>b, <1>c, <1>d, <2>1, <2>2, <2>3 DEF ManifestFits, PlanFits
  <1>3. PlanFits'
    BY <1>a, <1>c, <1>d DEF PlanFits
  <1>4. PlannedBytesOnDisk'
    BY <1>c DEF PlannedBytesOnDisk
  <1>5. CommitHoldsTheRest'
    BY <1>a, <1>c DEF CommitHoldsTheRest
  <1>6. SlotFiles'
    BY <1>a, <1>c DEF SlotFiles
  <1>7. PlanPreservesWork'
    BY <1>c DEF PlanPreservesWork
  <1>8. RfcOfTheDate'
    <2>1. AdoptionDate' = plan.date
      BY <1>b, <1>d, <1>f DEF Previous, AdoptionDate
    <2> QED BY <1>a, <1>b, <1>d, <2>1 DEF RfcOfTheDate
  <1> QED BY <1>1, <1>2, <1>3, <1>4, <1>5, <1>6, <1>7, <1>8

LEMMA InvEndUnsaved ==
    ASSUME AdoptInvariant, Running,
           NEW how \in {"failed", "died"}, EndUnsaved(how, manifest'.state),
           disk' = disk \/ \E d \in Dest : disk' = [disk EXCEPT ![d] = Broken],
           manifest' = manifest \/ manifest' = [NoManifest EXCEPT !.state = "broken"],
           dirty' <=> (dirty \/ disk' # disk \/ manifest' # manifest), dirty' \in BOOLEAN,
           head' = head, record' = record, touched' = touched, runs' = runs,
           consumer' = consumer
    PROVE  AdoptInvariant'
  <1> USE DEF AdoptInvariant
  <1>a. /\ pc' = "idle" /\ exit' = how /\ todo' = {}
        /\ plan' = [NoPlan EXCEPT !.release = plan.release]
        /\ unvouched' = (unvouched \/ manifest'.state # "valid")
        /\ release' = release /\ day' = day /\ edits' = edits
    BY DEF EndUnsaved, End, consumer
  <1>b. ~Running' /\ \A e : ~Pending(e)'
    BY <1>a DEF Running, Pending
  <1>c. /\ DOMAIN plan'.writes = {} /\ plan'.release = plan.release
    BY <1>a, NoPlanIs
  <1>d. \A e \in Dest : disk'[e] = disk[e] \/ disk'[e] = Broken
    BY DEF TypeOK
  <1>e. \/ manifest' = manifest
        \/ /\ manifest'.state = "broken" /\ manifest'.files = <<>> /\ manifest'.guidance = <<>>
           /\ manifest'.date = 0 /\ manifest'.editable = {} /\ manifest'.pending = {}
    BY DEF NoManifest
  <1>1. TypeOK'
    <2>1. disk' \in [Dest -> Contents]
      BY ContentsAre DEF TypeOK
    <2>2. unvouched' \in BOOLEAN
      BY <1>a DEF TypeOK
    <2>3. manifest'.state \in {"none", "valid", "broken"} /\ manifest'.date \in 0..Len(RfcAnchors)
          /\ manifest'.editable \subseteq Editable /\ manifest'.pending \subseteq Orders
          /\ DOMAIN manifest'.files \subseteq Dest
      <3>1. DOMAIN <<>> = {} /\ 0 \in 0..Len(RfcAnchors)
        BY AdoptAssumption
      <3> QED BY <1>e, <3>1 DEF TypeOK
    <2> QED BY <1>a, <1>c, <2>1, <2>2, <2>3 DEF TypeOK
  <1>2. ManifestFits'
    BY <1>a, <1>e DEF ManifestFits
  <1>3. PlanFits'
    BY <1>a, <1>b, <1>c DEF PlanFits
  <1>4. PlannedBytesOnDisk'
    BY <1>b DEF PlannedBytesOnDisk
  <1>5. CommitHoldsTheRest'
    BY <1>b DEF CommitHoldsTheRest
  <1>6. SlotFiles'
    <2>1. \A e \in SlotTemplates : disk'[e] = disk[e] \/ disk'[e] = Broken
      BY <1>d, Kinds
    <2>2. manifest'.state = "valid" => manifest.state = "valid"
      BY <1>e
    <2> QED BY <1>b, <2>1, <2>2, ContentsAre DEF SlotFiles
  <1>7. PlanPreservesWork'
    BY <1>b DEF PlanPreservesWork
  <1>8. RfcOfTheDate'
    <2>1. ~unvouched' => ~unvouched /\ manifest'.state = "valid"
      BY <1>a DEF TypeOK
    <2>2. manifest'.state = "valid" => manifest' = manifest /\ AdoptionDate' = AdoptionDate
      BY <1>a, <1>e DEF Previous, AdoptionDate
    <2>3. \A e \in Rfcs : disk'[e].by = "hdsh" => disk'[e] = disk[e]
      BY <1>d, ContentsAre, Kinds
    <2> QED BY <2>1, <2>2, <2>3 DEF RfcOfTheDate
  <1> QED BY <1>1, <1>2, <1>3, <1>4, <1>5, <1>6, <1>7, <1>8

LEMMA InvRecordFails ==
    ASSUME AdoptInvariant, NEW d \in DOMAIN record, RecordFails(d)
    PROVE  AdoptInvariant'
  <1>1. /\ Running /\ EndUnsaved("failed", manifest'.state)
        /\ disk' = disk /\ manifest' = manifest /\ dirty' = dirty
        /\ head' = head /\ record' = record /\ touched' = touched /\ runs' = runs
        /\ consumer' = consumer
    BY DEF RecordFails, Running
  <1>2. (dirty' <=> (dirty \/ disk' # disk \/ manifest' # manifest)) /\ dirty' \in BOOLEAN
    BY <1>1 DEF AdoptInvariant, TypeOK
  <1> QED BY <1>1, <1>2, InvEndUnsaved

LEMMA InvDie ==
    ASSUME AdoptInvariant, Die
    PROVE  AdoptInvariant'
  <1>1. /\ Running /\ EndUnsaved("died", manifest'.state)
        /\ head' = head /\ record' = record /\ touched' = touched /\ runs' = runs
        /\ consumer' = consumer
    BY DEF Die, Running
  <1>2. (dirty' <=> (dirty \/ disk' # disk \/ manifest' # manifest)) /\ dirty' \in BOOLEAN
    BY DEF Die, AdoptInvariant, TypeOK
  <1>3. /\ disk' = disk \/ \E d \in Dest : disk' = [disk EXCEPT ![d] = Broken]
        /\ manifest' = manifest \/ manifest' = [NoManifest EXCEPT !.state = "broken"]
    BY DEF Die, AdoptInvariant, TypeOK
  <1> QED BY <1>1, <1>2, <1>3, InvEndUnsaved

LEMMA EditsAre ==
    ASSUME TypeOK, SlotFiles, NEW d \in Dest, NEW c \in Edits(d)
    PROVE  /\ c \in Contents
           /\ d \in SlotTemplates =>
                \/ c = Broken
                \/ /\ disk[d].by = "hdsh" /\ c.by = "hdsh" /\ disk[d].part.kind = "asks"
                   /\ c.part = Fills(disk[d].part.guidance) /\ c.part.kind = "fills"
           /\ d \in Mirrored => c \in {Own, Absent}
           /\ d \in Rfcs => c \in {Own, Absent} /\ Exists(d)
  <1>a. disk[d] \in Contents
    BY DiskTyped
  <1>1. CASE d \in SlotTemplates
    <2>1. Edits(d) = {Broken} \union
            (IF disk[d].part.kind = "asks" THEN {Filled(disk[d])} ELSE {})
      <3>1. d \notin Shared /\ d \notin Orders /\ d \notin Config /\ d \notin Rfcs
        BY <1>1, Kinds
      <3> QED BY <1>1, <3>1 DEF Edits
    <2>2. CASE c = Broken
      BY <1>1, <2>2, ContentsAre, Kinds
    <2>3. CASE disk[d].part.kind = "asks" /\ c = Filled(disk[d])
      <3>1. c = [disk[d] EXCEPT !.part = Fills(disk[d].part.guidance)]
        BY <2>3 DEF Filled
      <3>2. Fills(disk[d].part.guidance) \in Parts /\ Fills(disk[d].part.guidance).kind = "fills"
        BY <2>3, DiskTyped, PartsAre
      <3>3. disk[d].by = "hdsh"
        BY <1>1, <2>3, PartsAre DEF SlotFiles
      <3>4. c \in Contents /\ c.by = disk[d].by /\ c.part = Fills(disk[d].part.guidance)
        BY <1>a, <3>1, <3>2, ChangePart
      <3> QED BY <1>1, <2>3, <3>2, <3>3, <3>4, Kinds
    <2> QED BY <2>1, <2>2, <2>3
  <1>2. CASE d \in Shared
    <2>1. d \notin SlotTemplates /\ d \notin Mirrored /\ d \notin Rfcs /\ d \notin Orders
          /\ d \notin Config
      BY <1>2, Kinds
    <2>2. Edits(d) = {WithLines(disk[d])}
      BY <1>2, <2>1 DEF Edits
    <2>3. c = [disk[d] EXCEPT !.part = Lines,
                               !.by = IF disk[d].by = "hdsh" THEN disk[d].by ELSE "consumer"]
      BY <2>2 DEF WithLines
    <2>4. c \in Contents
      BY <1>a, <2>3, PartsAre DEF Contents
    <2> QED BY <2>1, <2>4
  <1>3. CASE d \notin SlotTemplates /\ d \notin Shared
    <2>1. Edits(d) \subseteq {Own, Merged, Broken, Absent}
      BY <1>3 DEF Edits
    <2>2. d \in Mirrored \union Rfcs => Edits(d) \subseteq {Own, Absent}
      BY <1>3, Kinds DEF Edits
    <2>3. d \in Rfcs => Exists(d)
      BY <1>3, Kinds DEF Edits
    <2> QED BY <1>3, <2>1, <2>2, <2>3, ContentsAre
  <1> QED BY <1>1, <1>2, <1>3

LEMMA InvEdit ==
    ASSUME AdoptInvariant, NEW d \in Dest, Edit(d)
    PROVE  AdoptInvariant'
  <1> USE DEF AdoptInvariant
  <1>1. PICK c \in Edits(d) : disk' = [disk EXCEPT ![d] = c]
    BY DEF Edit
  <1>a. /\ edits < MaxEdits /\ touched' = touched \union {d} /\ dirty' = TRUE /\ edits' = edits + 1
        /\ head' = head /\ record' = record /\ manifest' = manifest /\ pc' = pc /\ plan' = plan
        /\ todo' = todo /\ exit' = exit /\ unvouched' = unvouched /\ runs' = runs
        /\ release' = release /\ day' = day
    BY DEF Edit
  <1>b. Previous' = Previous /\ AdoptionDate' = AdoptionDate /\ (Running' <=> Running)
        /\ \A e : Pending(e)' <=> Pending(e)
    BY <1>a DEF Previous, AdoptionDate, Running, Pending
  <1>c. disk'[d] = c /\ \A e \in Dest : e # d => disk'[e] = disk[e]
    BY <1>1 DEF TypeOK
  <1>d. c \in Contents
    BY EditsAre
  <1>2. TypeOK'
    <2>1. disk' \in [Dest -> Contents]
      BY <1>1, <1>d DEF TypeOK
    <2>2. edits' \in 0..MaxEdits
      BY <1>a, AdoptAssumption DEF TypeOK
    <2> QED BY <1>a, <2>1, <2>2 DEF TypeOK
  <1>3. ManifestFits'
    BY <1>a DEF ManifestFits
  <1>4. PlanFits'
    BY <1>a, <1>b DEF PlanFits
  <1>5. PlannedBytesOnDisk'
    <2>1. DOMAIN plan.writes \subseteq Dest
      BY DEF TypeOK
    <2> QED BY <1>a, <1>b, <1>c, <2>1 DEF PlannedBytesOnDisk
  <1>6. CommitHoldsTheRest'
    BY <1>a, <1>b, <1>c DEF CommitHoldsTheRest
  <1>7. SlotFiles'
    <2>1. ASSUME NEW e \in SlotTemplates, e # d
          PROVE  disk'[e] = disk[e] /\ (Pending(e)' <=> Pending(e))
      BY <1>b, <1>c, <2>1, Kinds
    <2>2. d \in SlotTemplates => c = Broken \/ (c.by = "hdsh" /\ c.part.kind = "fills")
      BY EditsAre
    <2> QED BY <1>a, <1>b, <1>c, <2>1, <2>2, ContentsAre DEF SlotFiles
  <1>8. PlanPreservesWork'
    <2>1. \A e : Resettable(e)' <=> Resettable(e)
      BY <1>a, <1>b DEF Resettable
    <2> QED BY <1>a, <1>b, <1>c, <2>1 DEF PlanPreservesWork
  <1>9. RfcOfTheDate'
    <2>1. d \in Rfcs => c.by # "hdsh"
      BY EditsAre, ContentsAre
    <2>2. \A e \in Rfcs : e # d => disk'[e] = disk[e]
      BY <1>c, Kinds
    <2> QED BY <1>a, <1>b, <1>c, <2>1, <2>2 DEF RfcOfTheDate
  <1> QED BY <1>2, <1>3, <1>4, <1>5, <1>6, <1>7, <1>8, <1>9

LEMMA OpenIs ==
    ASSUME TypeOK, SlotFiles, NEW open, open = {d \in Editable \union SlotTemplates : Unfilled(d)},
           disk' = [d \in Dest |->
                      IF d \notin open THEN disk[d]
                      ELSE IF d \in SlotTemplates THEN Filled(disk[d])
                      ELSE IF d \in Orders THEN Merged ELSE Own]
    PROVE  /\ disk' \in [Dest -> Contents] /\ open \subseteq Editable \union SlotTemplates
           /\ \A d \in Dest \ open : disk'[d] = disk[d]
           /\ \A d \in SlotTemplates \intersect open :
                /\ disk[d].by = "hdsh" /\ disk[d].part.kind = "asks"
                /\ disk'[d].by = "hdsh" /\ disk'[d].part = Fills(disk[d].part.guidance)
                /\ disk'[d].part.kind = "fills"
  <1>1. \A d \in Dest : disk'[d] = IF d \notin open THEN disk[d]
                                   ELSE IF d \in SlotTemplates THEN Filled(disk[d])
                                   ELSE IF d \in Orders THEN Merged ELSE Own
    OBVIOUS
  <1>2. ASSUME NEW d \in SlotTemplates \intersect open
        PROVE  /\ disk[d].by = "hdsh" /\ disk[d].part.kind = "asks" /\ Filled(disk[d]) \in Contents
               /\ Filled(disk[d]).by = "hdsh" /\ Filled(disk[d]).part = Fills(disk[d].part.guidance)
               /\ Filled(disk[d]).part.kind = "fills"
    <2>1. disk[d].part.kind = "asks" /\ d \in Dest
      BY Kinds DEF Unfilled
    <2>2. disk[d].by = "hdsh"
      BY <2>1, PartsAre DEF SlotFiles
    <2>3. Fills(disk[d].part.guidance) \in Parts /\ Fills(disk[d].part.guidance).kind = "fills"
      BY <2>1, DiskTyped, PartsAre
    <2>4. Filled(disk[d]) = [disk[d] EXCEPT !.part = Fills(disk[d].part.guidance)]
      BY DEF Filled
    <2> QED BY <2>1, <2>2, <2>3, <2>4, DiskTyped, ChangePart
  <1>3. \A d \in Dest : disk'[d] \in Contents
    BY <1>1, <1>2, ContentsAre, DiskTyped
  <1> QED BY <1>1, <1>2, <1>3, Kinds

LEMMA InvComplete ==
    ASSUME AdoptInvariant, Complete
    PROVE  AdoptInvariant'
  <1> USE DEF AdoptInvariant
  <1> DEFINE open == {d \in Editable \union SlotTemplates : Unfilled(d)}
  <1>a. /\ pc = "idle" /\ touched' = touched \union open /\ dirty' = TRUE
        /\ disk' = [d \in Dest |->
                      IF d \notin open THEN disk[d]
                      ELSE IF d \in SlotTemplates THEN Filled(disk[d])
                      ELSE IF d \in Orders THEN Merged ELSE Own]
        /\ head' = head /\ record' = record /\ manifest' = manifest /\ pc' = pc /\ plan' = plan
        /\ todo' = todo /\ exit' = exit /\ unvouched' = unvouched /\ runs' = runs
        /\ release' = release /\ day' = day /\ edits' = edits
    BY DEF Complete, consumer
  <1> HIDE DEF open
  <1>b. /\ disk' \in [Dest -> Contents] /\ open \subseteq Editable \union SlotTemplates
        /\ \A d \in Dest \ open : disk'[d] = disk[d]
        /\ \A d \in SlotTemplates \intersect open :
             disk[d].by = "hdsh" /\ disk'[d].by = "hdsh" /\ disk'[d].part.kind = "fills"
    <2>1. open = {d \in Editable \union SlotTemplates : Unfilled(d)}
      BY DEF open
    <2>2. TypeOK /\ SlotFiles
      OBVIOUS
    <2>3. disk' = [d \in Dest |->
                      IF d \notin open THEN disk[d]
                      ELSE IF d \in SlotTemplates THEN Filled(disk[d])
                      ELSE IF d \in Orders THEN Merged ELSE Own]
      BY <1>a
    <2>4. /\ disk' \in [Dest -> Contents] /\ open \subseteq Editable \union SlotTemplates
          /\ \A d \in Dest \ open : disk'[d] = disk[d]
          /\ \A d \in SlotTemplates \intersect open :
                /\ disk[d].by = "hdsh" /\ disk[d].part.kind = "asks"
                /\ disk'[d].by = "hdsh" /\ disk'[d].part = Fills(disk[d].part.guidance)
                /\ disk'[d].part.kind = "fills"
      BY <2>1, <2>2, <2>3, OpenIs
    <2> QED BY <2>4
  <1>c. Previous' = Previous /\ AdoptionDate' = AdoptionDate /\ ~Running /\ ~Running'
        /\ \A e : ~Pending(e) /\ ~Pending(e)'
    BY <1>a DEF Previous, AdoptionDate, Running, Pending
  <1>1. TypeOK'
    <2>1. touched' \subseteq Dest
      BY <1>a, <1>b, Kinds DEF TypeOK
    <2> QED BY <1>a, <1>b, <2>1 DEF TypeOK
  <1>2. ManifestFits'
    BY <1>a DEF ManifestFits
  <1>3. PlanFits'
    BY <1>a, <1>c DEF PlanFits
  <1>4. PlannedBytesOnDisk'
    BY <1>c DEF PlannedBytesOnDisk
  <1>5. CommitHoldsTheRest'
    BY <1>a, <1>c DEF CommitHoldsTheRest
  <1>6. SlotFiles'
    <2>1. \A e \in SlotTemplates : e \notin open => disk'[e] = disk[e]
      BY <1>b, Kinds
    <2> QED BY <1>a, <1>b, <1>c, <2>1, PartsAre DEF SlotFiles
  <1>7. PlanPreservesWork'
    BY <1>c DEF PlanPreservesWork
  <1>8. RfcOfTheDate'
    <2>1. \A e \in Rfcs : disk'[e] = disk[e]
      BY <1>b, Kinds
    <2> QED BY <1>a, <1>c, <2>1 DEF RfcOfTheDate
  <1> QED BY <1>1, <1>2, <1>3, <1>4, <1>5, <1>6, <1>7, <1>8

\* The steps between runs that leave files, records and plan alone.
LEMMA InvIdle ==
    ASSUME AdoptInvariant, pc = "idle",
           disk' = disk, record' = record, pc' = pc, plan' = plan, todo' = todo,
           touched' = touched, unvouched' = unvouched, runs' = runs, edits' = edits,
           exit' \in {exit, "refused"},
           manifest' = manifest \/ (manifest.state = "broken" /\ manifest' = NoManifest),
           head' = head \/ head' = disk, dirty' \in BOOLEAN, ~dirty' => disk' = head',
           release' \in Releases, release' >= release, day' \in Days, day' >= day
    PROVE  AdoptInvariant'
  <1> USE DEF AdoptInvariant
  <1>a. ~Running /\ ~Running' /\ \A e : ~Pending(e) /\ ~Pending(e)'
    BY DEF Running, Pending
  <1>b. \/ manifest' = manifest
        \/ /\ manifest.state = "broken" /\ manifest'.state = "none" /\ manifest'.files = <<>>
           /\ manifest'.guidance = <<>> /\ manifest'.date = 0 /\ manifest'.editable = {}
           /\ manifest'.pending = {}
    BY DEF NoManifest
  <1>c. release \in Nat /\ release' \in Nat /\ day \in Nat /\ day' \in Nat
    BY AdoptAssumption DEF TypeOK, Releases, Days
  <1>1. TypeOK'
    <2>1. head' \in [Dest -> Contents]
      BY DEF TypeOK
    <2>2. manifest'.state \in {"none", "valid", "broken"} /\ manifest'.date \in 0..Len(RfcAnchors)
          /\ manifest'.editable \subseteq Editable /\ manifest'.pending \subseteq Orders
          /\ DOMAIN manifest'.files \subseteq Dest
      <3>1. DOMAIN <<>> = {} /\ 0 \in 0..Len(RfcAnchors)
        BY AdoptAssumption
      <3> QED BY <1>b, <3>1 DEF TypeOK
    <2> QED BY <2>1, <2>2 DEF TypeOK
  <1>2. ManifestFits'
    <2>1. manifest.state = "valid" => /\ manifest.release \in 1..release'
                                      /\ manifest.date \in 1..day'
      BY <1>c DEF ManifestFits
    <2> QED BY <1>b, <2>1 DEF ManifestFits
  <1>3. PlanFits'
    <2>1. plan.release \in 0..release'
      BY <1>c DEF PlanFits
    <2> QED BY <1>a, <2>1 DEF PlanFits, Running
  <1>4. PlannedBytesOnDisk'
    BY <1>a DEF PlannedBytesOnDisk
  <1>5. CommitHoldsTheRest'
    BY <1>a DEF CommitHoldsTheRest
  <1>6. SlotFiles'
    BY <1>a, <1>b DEF SlotFiles
  <1>7. PlanPreservesWork'
    BY <1>a DEF PlanPreservesWork
  <1>8. RfcOfTheDate'
    <2>1. manifest.state = "valid" => AdoptionDate' = AdoptionDate
      BY <1>b DEF AdoptionDate, Previous, ManifestFits
    <2> QED BY <1>a, <1>b, <2>1 DEF RfcOfTheDate
  <1> QED BY <1>1, <1>2, <1>3, <1>4, <1>5, <1>6, <1>7, <1>8

LEMMA InvNext ==
    ASSUME AdoptInvariant, [Next]_vars
    PROVE  AdoptInvariant'
  <1>a. TypeOK /\ CommitHoldsTheRest
    BY DEF AdoptInvariant
  <1>1. ASSUME NEW given, NEW derivable, Refuse(given, derivable)
        PROVE  AdoptInvariant'
    BY <1>1, <1>a, InvIdle DEF Refuse, TypeOK, CommitHoldsTheRest, consumer, Days, Releases
  <1>2. ASSUME NEW given, NEW derivable, Preflight(given, derivable)
        PROVE  AdoptInvariant'
    BY <1>2, InvPreflight
  <1>3. CASE Commit
    <2>1. /\ pc = "idle" /\ head' = disk /\ dirty' = FALSE /\ disk' = disk /\ record' = record
          /\ pc' = pc /\ plan' = plan /\ todo' = todo /\ touched' = touched
          /\ unvouched' = unvouched /\ runs' = runs /\ edits' = edits /\ exit' = exit
          /\ manifest' = manifest /\ release' = release /\ day' = day
      BY <1>3 DEF Commit, consumer
    <2>2. release' \in Releases /\ day' \in Days /\ release' >= release /\ day' >= day
      BY <2>1, <1>a DEF TypeOK, Releases, Days
    <2>3. dirty' \in BOOLEAN /\ (~dirty' => disk' = head')
      BY <2>1
    <2> QED BY <2>1, <2>2, <2>3, InvIdle
  <1>4. CASE RemoveManifest
    BY <1>4, <1>a, InvIdle DEF RemoveManifest, TypeOK, CommitHoldsTheRest, consumer, Days, Releases
  <1>5. CASE Upgrade
    <2>1. release' >= release
      BY <1>5, <1>a DEF Upgrade, TypeOK, Releases
    <2> QED BY <1>5, <2>1, <1>a, InvIdle
        DEF Upgrade, TypeOK, CommitHoldsTheRest, consumer, Days, Releases
  <1>6. CASE NextDay
    <2>1. day' >= day
      BY <1>6, <1>a DEF NextDay, TypeOK, Days
    <2> QED BY <1>6, <2>1, <1>a, InvIdle
        DEF NextDay, TypeOK, CommitHoldsTheRest, consumer, Days, Releases
  <1>7. CASE UNCHANGED vars
    <2>1. /\ disk' = disk /\ record' = record /\ manifest' = manifest /\ dirty' = dirty
          /\ head' = head /\ release' = release /\ day' = day /\ pc' = pc /\ plan' = plan
          /\ todo' = todo /\ exit' = exit /\ touched' = touched /\ unvouched' = unvouched
          /\ edits' = edits /\ runs' = runs
      BY <1>7 DEF vars, consumer
    <2>2. /\ Previous' = Previous /\ AdoptionDate' = AdoptionDate /\ (Running' <=> Running)
          /\ \A e : Pending(e)' <=> Pending(e)
      BY <2>1 DEF Previous, AdoptionDate, Running, Pending
    <2>3. \A e : Resettable(e)' <=> Resettable(e)
      BY <2>1, <2>2 DEF Resettable
    <2>4. TypeOK'
      BY <2>1 DEF AdoptInvariant, TypeOK
    <2>5. ManifestFits' /\ PlanFits'
      BY <2>1, <2>2 DEF AdoptInvariant, ManifestFits, PlanFits
    <2>6. PlannedBytesOnDisk' /\ CommitHoldsTheRest' /\ SlotFiles'
      BY <2>1, <2>2 DEF AdoptInvariant, PlannedBytesOnDisk, CommitHoldsTheRest, SlotFiles
    <2>7. PlanPreservesWork' /\ RfcOfTheDate'
      BY <2>1, <2>2, <2>3 DEF AdoptInvariant, PlanPreservesWork, RfcOfTheDate
    <2> QED BY <2>4, <2>5, <2>6, <2>7 DEF AdoptInvariant
  <1> QED
    BY <1>1, <1>2, <1>3, <1>4, <1>5, <1>6, <1>7, InvWrite, InvStartRecording, InvRecord,
       InvRecordFails, InvSaveManifest, InvDie, InvEdit, InvComplete DEF Next

\* What every reachable state satisfies: manifest, plan, files and last commit
\* agree as the parts of the invariant say.
THEOREM AdoptInvariantHolds == Spec => []AdoptInvariant
  BY InvInit, InvNext, PTL DEF Spec

\* The files, records, manifest and plan of apply keep their shapes.
THEOREM TypeCorrect == Spec => []TypeOK
  <1>1. AdoptInvariant => TypeOK
    BY DEF AdoptInvariant
  <1> QED BY <1>1, AdoptInvariantHolds, PTL

--------------------------------------------------------------------------------
(* What follows from it *)

\* The adoption RFC is minted once: while no run lost the manifest, the RFCs that
\* hdsh wrote are at most the one of the adoption date.
THEOREM OneAdoptionRfcHolds == Spec => []OneAdoptionRfc
  <1>1. ASSUME AdoptInvariant
        PROVE  OneAdoptionRfc
    <2> DEFINE S == {d \in Rfcs : disk[d].by = "hdsh"}
               r == RfcAnchors[AdoptionDate]
    <2>1. SUFFICES ASSUME ~unvouched
                   PROVE  ~(Cardinality(S) > 1)
      BY DEF OneAdoptionRfc
    <2>2. S \subseteq {r}
      BY <1>1, <2>1 DEF AdoptInvariant, RfcOfTheDate
    <2>3. S = {} \/ S = {r}
      BY <2>2
    <2> HIDE DEF S, r
    <2>4. Cardinality({}) = 0 /\ Cardinality({r}) = 1
      BY FS_EmptySet, FS_Singleton
    <2> QED BY <2>3, <2>4
  <1> QED BY <1>1, AdoptInvariantHolds, PTL

\* The steps of a running apply, and the consumer's edits under it.
LEMMA RunningSteps ==
    ASSUME Next, Running
    PROVE  \/ \E d \in Dest : Write(d)
           \/ StartRecording
           \/ \E d \in DOMAIN record : Record(d) \/ RecordFails(d)
           \/ SaveManifest \/ Die
           \/ \E d \in Dest : Edit(d)
  BY DEF Next, Running, Refuse, Preflight, Complete, Commit, RemoveManifest, Upgrade, NextDay

\* A completed write destroys the consumer's work only in a file edited under the
\* run, or in a slot whose recorded guidance is not the one installed.
THEOREM WritesPreserveWorkHolds == Spec => WritesPreserveWork
  <1> DEFINE Step == pc = "writing" /\ todo' # todo /\ exit' = "none" =>
               \A d \in Dest :
                  \/ d \in touched \/ Resettable(d)
                  \/ Work(disk'[d]) = Work(disk[d])
                  \/ d \in Shared /\ disk'[d].part = disk[d].part
  <1>1. ASSUME AdoptInvariant, Next
        PROVE  Step
    <2>1. SUFFICES ASSUME pc = "writing", todo' # todo, exit' = "none", NEW d \in Dest
                   PROVE  \/ d \in touched \/ Resettable(d)
                          \/ Work(disk'[d]) = Work(disk[d])
                          \/ d \in Shared /\ disk'[d].part = disk[d].part
      OBVIOUS
    <2>2. CASE disk'[d] = disk[d]
      BY <2>2
    <2>3. ASSUME NEW e \in Dest, Write(e)
          PROVE  \/ disk'[d] = disk[d]
                 \/ Pending(d) /\ disk'[d] = plan.writes[d]
      BY <1>1, <2>1, <2>3, NextIsPending DEF Write, Pending, AdoptInvariant, TypeOK
    <2>4. CASE Pending(d) /\ disk'[d] = plan.writes[d]
      BY <1>1, <2>4 DEF AdoptInvariant, PlanPreservesWork
    <2>5. StartRecording => disk' = disk
      BY DEF StartRecording
    <2>6. ~Die /\ (\A e \in Dest : ~Edit(e)) /\ \A e : ~Record(e) /\ ~RecordFails(e)
      BY <2>1 DEF Die, Edit, Record, RecordFails, EndUnsaved, End
    <2> QED BY <1>1, <2>1, <2>2, <2>3, <2>4, <2>5, <2>6, RunningSteps DEF Running, SaveManifest
  <1>2. UNCHANGED vars => Step
    BY DEF vars
  <1>3. AdoptInvariant /\ [Next]_vars => [Step]_vars
    BY <1>1
  <1> HIDE DEF Step
  <1>4. Spec => [][Step]_vars
    BY <1>3, AdoptInvariantHolds, PTL DEF Spec
  <1> QED BY <1>4 DEF Step, WritesPreserveWork

\* Whatever a run replaces, tears or resets was in the last commit, unless the
\* consumer edited it under the run.
THEOREM DestroyedBytesAreCommittedHolds == Spec => DestroyedBytesAreCommitted
  <1> DEFINE Step == pc # "idle" /\ edits' = edits =>
               \A d \in Dest \ touched : disk'[d] # disk[d] => disk[d] = head[d]
  <1>1. ASSUME AdoptInvariant, Next
        PROVE  Step
    <2>1. SUFFICES ASSUME pc # "idle", edits' = edits, NEW d \in Dest \ touched,
                          disk'[d] # disk[d]
                   PROVE  disk[d] = head[d]
      OBVIOUS
    <2>2. SUFFICES Pending(d)
      BY <1>1, <2>1 DEF AdoptInvariant, CommitHoldsTheRest
    <2>3. ASSUME NEW e \in Dest, Write(e)
          PROVE  Pending(d)
      BY <1>1, <2>1, <2>3, NextIsPending DEF Write, Pending, AdoptInvariant, TypeOK
    <2>4. CASE Die
      BY <1>1, <2>1, <2>4, NextIsPending DEF Die, Pending, AdoptInvariant, TypeOK
    <2>5. \A e \in Dest : ~Edit(e)
      BY <1>1, <2>1 DEF Edit, AdoptInvariant, TypeOK
    <2>6. /\ StartRecording => disk' = disk
          /\ SaveManifest => disk' = disk
          /\ \A e : Record(e) \/ RecordFails(e) => disk' = disk
      BY DEF StartRecording, SaveManifest, Record, RecordFails
    <2> QED BY <1>1, <2>1, <2>3, <2>4, <2>5, <2>6, RunningSteps DEF Running
  <1>3. AdoptInvariant /\ [Next]_vars => [Step]_vars
    BY <1>1
  <1> HIDE DEF Step
  <1>4. Spec => [][Step]_vars
    BY <1>3, AdoptInvariantHolds, PTL DEF Spec
  <1> QED BY <1>4 DEF Step, DestroyedBytesAreCommitted

\* The consistency record of an upstream-owned pair names only bytes this run
\* planned, unless the consumer edited the pair under it.
THEOREM RecordsOnlyPlannedBytesHolds == Spec => RecordsOnlyPlannedBytes
  <1> DEFINE Step == \A d \in (MirroredPairs \union Rfcs) :
               record'[d] # record[d] =>
                  d \in touched \/ (d \in DOMAIN plan.writes /\ record'[d] = plan.writes[d])
  <1>1. ASSUME AdoptInvariant, Next
        PROVE  Step
    <2>1. SUFFICES ASSUME NEW d \in MirroredPairs \union Rfcs, record'[d] # record[d], d \notin touched
                   PROVE  d \in DOMAIN plan.writes /\ record'[d] = plan.writes[d]
      OBVIOUS
    <2>2. PICK e \in DOMAIN record : Record(e)
      BY <1>1, <2>1 DEF Next, Refuse, Preflight, Write, StartRecording, RecordFails, SaveManifest,
         Die, Edit, Complete, Commit, RemoveManifest, Upgrade, NextDay
    <2>3. /\ pc = "recording" /\ e \in todo /\ record' = [record EXCEPT ![e] = disk[e]]
      BY <2>2, NextIsPending DEF Record
    <2>4. e = d /\ record'[d] = disk[d]
      BY <2>1, <2>3
    <2>5. Running /\ ~Pending(d) /\ d \in plan.records
      BY <1>1, <2>3, <2>4 DEF Running, Pending, AdoptInvariant, PlanFits
    <2>6. d \in DOMAIN plan.writes
      BY <1>1, <2>1, <2>5 DEF AdoptInvariant, PlanFits
    <2>7. disk[d] = plan.writes[d]
      BY <1>1, <2>1, <2>5, <2>6 DEF AdoptInvariant, PlannedBytesOnDisk
    <2> QED BY <2>4, <2>6, <2>7
  <1>3. AdoptInvariant /\ [Next]_vars => [Step]_vars
    BY <1>1
  <1> HIDE DEF Step
  <1>4. Spec => [][Step]_vars
    BY <1>3, AdoptInvariantHolds, PTL DEF Spec
  <1> QED BY <1>4 DEF Step, RecordsOnlyPlannedBytes

--------------------------------------------------------------------------------
(* An unfinished run can be run again *)

LEMMA UpIsNotAbsent ==
    /\ \A r : Up(r) # Absent /\ Up(r) # Own /\ Up(r) # Broken
    /\ \A r, s : Up(r) = Up(s) => r = s
    /\ Own # Absent /\ Broken # Absent
  BY DEF Up, Absent, Own, Broken, Bytes

LEMMA RetriableInit ==
    ASSUME NoPriorRfc, Init
    PROVE  Retriable
  <1>1. ~Running /\ exit = "none"
    BY DEF Init, Running
  <1>2. \A d \in Rfcs : disk[d] = Absent
    BY Kinds DEF Init, NoPriorRfc
  <1>3. \A i \in Days : RfcAnchors[i] \in Rfcs
    BY DEF Rfcs
  <1> QED BY <1>1, <1>2, <1>3 DEF Retriable, Exists

\* Steps that leave the later RFCs absent and, if the run goes on or has just
\* ended, every other file as it was or as planned.
LEMMA RetriableStep ==
    ASSUME AdoptInvariant, Retriable, AdoptInvariant',
           Previous' = Previous, AdoptionDate' = AdoptionDate,
           \A d \in Mirrored \union Rfcs :
              \/ disk'[d] = disk[d]
              \/ d \in touched' /\ Exists(d)
              \/ d \in touched' /\ d \in Mirrored
              \/ Pending(d) /\ disk'[d] \in {Up(release'), Broken},
           touched \subseteq touched',
           Running' \/ (exit' \in {"died", "failed"} /\ release' = plan'.release) =>
              /\ Running \/ (exit \in {"died", "failed"} /\ release = plan.release)
              /\ release' = release
    PROVE  Retriable'
  <1>a. TypeOK /\ ManifestFits /\ PlanFits
    BY DEF AdoptInvariant
  <1>1. RfcAnchors[AdoptionDate] \in Rfcs /\ AdoptionDate \in Days
    BY <1>a, DateIsADay
  <1>2. ASSUME NEW i \in Days, i > AdoptionDate
        PROVE  disk'[RfcAnchors[i]] = disk[RfcAnchors[i]]
    <2>1. RfcAnchors[i] \in Rfcs /\ ~Exists(RfcAnchors[i])
      BY <1>2 DEF Retriable, Rfcs
    <2>2. RfcAnchors[i] # RfcAnchors[AdoptionDate]
      BY <1>1, <1>2, AdoptAssumption DEF Days
    <2>3. ~Pending(RfcAnchors[i])
      BY <1>a, <2>1, <2>2 DEF PlanFits, Pending, Running
    <2>4. RfcAnchors[i] \notin Mirrored
      BY <2>1, Kinds
    <2> QED BY <2>1, <2>3, <2>4
  <1>3. \A i \in Days : i > AdoptionDate => ~Exists(RfcAnchors[i])'
    BY <1>2 DEF Retriable, Exists
  <1>4. ASSUME Running' \/ (exit' \in {"died", "failed"} /\ release' = plan'.release),
               NEW d \in (Mirrored \union {RfcAnchors[AdoptionDate]}) \ touched'
        PROVE  \/ disk'[d] \in {Absent, Broken, Up(release')}
               \/ d \in DOMAIN Previous.files /\ disk'[d] = Previous.files[d]
    BY <1>1, <1>4 DEF Retriable
  <1> QED BY <1>3, <1>4 DEF Retriable

LEMMA RetriableDie ==
    ASSUME AdoptInvariant, Retriable, Die, AdoptInvariant'
    PROVE  Retriable'
  <1>a. /\ TypeOK /\ ManifestFits /\ PlanFits /\ PlannedBytesOnDisk
        /\ Running /\ ~Running' /\ touched' = touched /\ release' = release /\ day' = day
        /\ plan'.release = plan.release /\ plan.release = release
    BY NoPlanIs DEF AdoptInvariant, Die, EndUnsaved, End, Running, PlanFits, consumer
  <1>1. CASE manifest' = manifest
    <2>1. Previous' = Previous /\ AdoptionDate' = AdoptionDate
      BY <1>1, <1>a DEF Previous, AdoptionDate
    <2>2. disk' = disk \/ \E d \in Dest : Pending(d) /\ disk' = [disk EXCEPT ![d] = Broken]
      BY <1>a, NextIsPending DEF Die, Pending, TypeOK
    <2>3. \A d \in Mirrored \union Rfcs : disk'[d] = disk[d] \/ (Pending(d) /\ disk'[d] = Broken)
      BY <1>a, <2>2, Kinds DEF TypeOK
    <2> QED BY <1>a, <2>1, <2>3, RetriableStep
  <1>2. CASE manifest' # manifest
    <2>1. /\ pc = "recording" /\ todo = {} /\ disk' = disk
          /\ manifest' = [NoManifest EXCEPT !.state = "broken"]
      BY <1>2 DEF Die
    <2>2. manifest'.date = 0 /\ manifest'.state = "broken"
      BY <2>1 DEF NoManifest
    <2>3. AdoptionDate' = day
      BY <1>a, <2>2 DEF AdoptionDate, Previous, NoManifest
    <2>4. AdoptionDate \in 1..day /\ AdoptionDate \in Days /\ day \in Days
      BY <1>a, DateIsADay DEF TypeOK
    <2>5. \A i \in Days : i > day => ~Exists(RfcAnchors[i])
      BY <2>4 DEF Retriable, Days
    <2>6. ASSUME NEW d \in (Mirrored \union {RfcAnchors[day]}) \ touched, Exists(d)
          PROVE  disk[d] = Up(release)
      <3>1. d \in Mirrored \/ d = RfcAnchors[AdoptionDate]
        <4>1. CASE day > AdoptionDate
          BY <2>4, <2>6, <4>1 DEF Retriable
        <4>2. CASE day = AdoptionDate
          BY <4>2
        <4> QED BY <2>4, <4>1, <4>2 DEF Days
      <3>2. d \in DOMAIN plan.writes /\ ~Pending(d)
        BY <1>a, <2>1, <3>1 DEF PlanFits, Pending
      <3>3. d \in Mirrored \/ d \in Rfcs
        BY <1>a, <3>1, DateIsADay
      <3> QED BY <1>a, <3>2, <3>3, Kinds DEF PlanFits, PlannedBytesOnDisk
    <2> QED BY <1>a, <2>1, <2>3, <2>5, <2>6 DEF Retriable, Exists
  <1> QED BY <1>1, <1>2

LEMMA RetriableNext ==
    ASSUME AdoptInvariant, AdoptInvariant', Retriable, [Next]_vars
    PROVE  Retriable'
  <1>a. TypeOK /\ ManifestFits /\ PlanFits
    BY DEF AdoptInvariant
  <1>1. ASSUME NEW d \in Dest, Write(d)
        PROVE  Retriable'
    <2>1. /\ pc = "writing" /\ d \in todo /\ disk' = [disk EXCEPT ![d] = plan.writes[d]]
          /\ manifest' = manifest /\ pc' = pc /\ touched' = touched /\ release' = release
          /\ day' = day /\ plan' = plan /\ exit' = exit
      BY <1>1, NextIsPending DEF Write, consumer
    <2>2. Previous' = Previous /\ AdoptionDate' = AdoptionDate /\ Running /\ Pending(d)
      BY <2>1 DEF Previous, AdoptionDate, Running, Pending
    <2>3. \A e \in Mirrored \union Rfcs :
             disk'[e] = disk[e] \/ (Pending(e) /\ disk'[e] = Up(release))
      <3>1. \A e \in Mirrored \union Rfcs : e \in Dest /\ e \notin Shared \union SlotTemplates
        BY Kinds
      <3>2. d \in DOMAIN plan.writes
        BY <1>a, <2>1 DEF PlanFits
      <3>3. d \in Mirrored \union Rfcs => plan.writes[d] = Up(release)
        BY <1>a, <2>2, <3>1, <3>2 DEF PlanFits
      <3> QED BY <1>a, <2>1, <2>2, <3>1, <3>3 DEF TypeOK
    <2> QED BY <2>1, <2>2, <2>3, RetriableStep
  <1>2. ASSUME NEW d \in Dest, Edit(d)
        PROVE  Retriable'
    <2>1. PICK c \in Edits(d) : disk' = [disk EXCEPT ![d] = c]
      BY <1>2 DEF Edit
    <2>2. /\ manifest' = manifest /\ pc' = pc /\ touched' = touched \union {d}
          /\ release' = release /\ day' = day /\ plan' = plan /\ exit' = exit
      BY <1>2 DEF Edit
    <2>3. Previous' = Previous /\ AdoptionDate' = AdoptionDate /\ (Running' <=> Running)
      BY <2>2 DEF Previous, AdoptionDate, Running
    <2>4. \A e \in Mirrored \union Rfcs : disk'[e] = disk[e] \/ e = d
      BY <1>a, <2>1, Kinds DEF TypeOK
    <2>5. d \in Rfcs => Exists(d)
      BY <1>a, EditsAre DEF AdoptInvariant
    <2> QED BY <2>2, <2>3, <2>4, <2>5, RetriableStep
  <1>3. CASE Complete
    <2>1. /\ pc = "idle" /\ manifest' = manifest /\ pc' = pc /\ touched \subseteq touched'
          /\ release' = release /\ day' = day /\ plan' = plan /\ exit' = exit
      BY <1>3 DEF Complete, consumer
    <2>2. Previous' = Previous /\ AdoptionDate' = AdoptionDate /\ ~Running /\ ~Running'
      BY <2>1 DEF Previous, AdoptionDate, Running
    <2>3. \A e \in Mirrored \union Rfcs : disk'[e] = disk[e]
      BY <1>3, Kinds DEF Complete
    <2> QED BY <2>1, <2>2, <2>3, RetriableStep
  <1>4. ASSUME NEW given, NEW derivable, Preflight(given, derivable)
        PROVE  Retriable'
    <2>1. /\ Blockers = {} /\ disk' = disk /\ manifest' = manifest
          /\ release' = release /\ day' = day
      BY <1>4 DEF Preflight, Refused, consumer
    <2>2. Previous' = Previous /\ AdoptionDate' = AdoptionDate
      BY <2>1 DEF Previous, AdoptionDate
    <2>3. ASSUME NEW d \in Mirrored \union {RfcAnchors[AdoptionDate]}
          PROVE  \/ disk[d] \in {Absent, Up(release)}
                 \/ d \in DOMAIN Previous.files /\ disk[d] = Previous.files[d]
      <3>1. d \in Mirrored \union Rfcs
        BY <1>a, DateIsADay
      <3>2. Exists(d) => Vouched(d)
        BY <1>a, <2>1, ComparedMeans DEF Blockers
      <3>3. Rendered(d) = Up(release)
        BY <3>1, Kinds DEF Rendered
      <3> QED BY <3>2, <3>3 DEF Vouched, Exists
    <2> QED BY <2>1, <2>2, <2>3 DEF Retriable, Exists
  <1>5. ASSUME NEW d \in DOMAIN record, Record(d) \/ RecordFails(d)
        PROVE  Retriable'
    <2>1. /\ pc = "recording" /\ disk' = disk /\ manifest' = manifest /\ touched' = touched
          /\ release' = release /\ day' = day
      BY <1>5 DEF Record, RecordFails, consumer
    <2>2. Previous' = Previous /\ AdoptionDate' = AdoptionDate /\ Running
      BY <2>1 DEF Previous, AdoptionDate, Running
    <2> QED BY <2>1, <2>2, RetriableStep
  <1>6. CASE StartRecording
    <2>1. /\ pc = "writing" /\ disk' = disk /\ manifest' = manifest /\ touched' = touched
          /\ release' = release /\ day' = day
      BY <1>6 DEF StartRecording, consumer
    <2>2. Previous' = Previous /\ AdoptionDate' = AdoptionDate /\ Running
      BY <2>1 DEF Previous, AdoptionDate, Running
    <2> QED BY <2>1, <2>2, RetriableStep
  <1>7. CASE SaveManifest
    <2>1. /\ pc = "recording" /\ pc' = "idle" /\ exit' = "installed" /\ disk' = disk
          /\ release' = release /\ day' = day /\ manifest' = AdoptManifest
      BY <1>7 DEF SaveManifest, End, consumer
    <2>2. manifest'.state = "valid" /\ manifest'.date = plan.date /\ plan.date = AdoptionDate
      BY <1>a, <2>1 DEF AdoptManifest, PlanFits, Running
    <2>3. AdoptionDate' = AdoptionDate
      <3>1. AdoptionDate # 0
        BY <1>a, DateIsADay
      <3> QED BY <2>1, <2>2, <3>1 DEF AdoptionDate, Previous
    <2>4. ~Running' /\ exit' \notin {"died", "failed"}
      BY <2>1 DEF Running
    <2> QED BY <2>1, <2>3, <2>4 DEF Retriable, Exists
  <1>8. CASE RemoveManifest \/ Commit \/ UNCHANGED vars
    <2>1. /\ disk' = disk /\ release' = release /\ day' = day /\ pc' = pc /\ exit' = exit
          /\ plan' = plan /\ touched' = touched
          /\ manifest' = manifest \/ (manifest.state = "broken" /\ manifest' = NoManifest)
      BY <1>8 DEF RemoveManifest, Commit, consumer, vars
    <2>2. Previous' = Previous
      BY <2>1 DEF Previous, NoManifest
    <2>3. AdoptionDate' = AdoptionDate /\ (Running' <=> Running)
      BY <2>1, <2>2 DEF AdoptionDate, Running
    <2> QED BY <2>1, <2>2, <2>3, RetriableStep
  <1>9. ASSUME NEW given, NEW derivable, Refuse(given, derivable)
        PROVE  Retriable'
    <2>1. /\ disk' = disk /\ release' = release /\ day' = day /\ pc = "idle" /\ pc' = pc
          /\ exit' = "refused" /\ touched' = touched /\ manifest' = manifest
      BY <1>9 DEF Refuse, consumer
    <2>2. Previous' = Previous /\ AdoptionDate' = AdoptionDate /\ ~Running'
      BY <2>1 DEF Previous, AdoptionDate, Running
    <2> QED BY <2>1, <2>2, RetriableStep
  <1>10. CASE Upgrade
    <2>1. /\ disk' = disk /\ release' = release + 1 /\ day' = day /\ pc = "idle" /\ pc' = pc
          /\ touched' = touched /\ manifest' = manifest /\ plan' = plan
      BY <1>10 DEF Upgrade
    <2>2. Previous' = Previous /\ AdoptionDate' = AdoptionDate /\ ~Running'
      BY <2>1 DEF Previous, AdoptionDate, Running
    <2>3. release' # plan'.release
      BY <1>a, <2>1 DEF PlanFits, TypeOK, Releases
    <2> QED BY <2>1, <2>2, <2>3, RetriableStep
  <1>11. CASE NextDay
    <2>1. /\ disk' = disk /\ release' = release /\ day' = day + 1 /\ pc = "idle" /\ pc' = pc
          /\ touched' = touched /\ manifest' = manifest /\ plan' = plan /\ exit' = exit
          /\ day + 1 \in Days
      BY <1>11 DEF NextDay
    <2>2. Previous' = Previous /\ ~Running /\ ~Running'
      BY <2>1 DEF Previous, Running
    <2>3. CASE manifest.state = "valid"
      <3>1. AdoptionDate' = AdoptionDate
        BY <1>a, <2>1, <2>2, <2>3, PreviousIs DEF AdoptionDate, ManifestFits
      <3> QED BY <2>1, <2>2, <3>1, RetriableStep
    <2>4. CASE manifest.state # "valid"
      <3>1. AdoptionDate = day /\ AdoptionDate' = day + 1 /\ day \in Nat
        BY <1>a, <2>1, <2>2, <2>4, PreviousIs, DateIsADay DEF AdoptionDate
      <3>2. ~Exists(RfcAnchors[day + 1])
        BY <2>1, <3>1 DEF Retriable
      <3>3. \A i \in Days : i > day + 1 => ~Exists(RfcAnchors[i])
        BY <3>1 DEF Retriable, Days
      <3> QED BY <2>1, <2>2, <3>1, <3>2, <3>3 DEF Retriable, Exists
    <2> QED BY <2>3, <2>4
  <1> QED
    BY <1>1, <1>2, <1>3, <1>4, <1>5, <1>6, <1>7, <1>8, <1>9, <1>10, <1>11, RetriableDie DEF Next

\* A run that died or failed can be run again, whatever day it is by then: the
\* files it left never block it, if no adoption RFC predates the first adoption.
THEOREM UnfinishedRunIsRetriableHolds ==
    ASSUME NoPriorRfc
    PROVE  Spec => []UnfinishedRunIsRetriable
  <1>1. ASSUME AdoptInvariant, Retriable
        PROVE  UnfinishedRunIsRetriable
    <2>1. SUFFICES ASSUME exit \in {"died", "failed"}, touched = {}, release = plan.release,
                          manifest.state # "broken", \A d \in Dest : disk[d] # Broken
                   PROVE  Blockers = {}
      BY DEF UnfinishedRunIsRetriable
    <2>2. ASSUME NEW d \in Compared
          PROVE  Vouched(d)
      <3>1. d \in Mirrored \union {RfcAnchors[AdoptionDate]} /\ Exists(d)
        BY <1>1, <2>2, ComparedMeans DEF AdoptInvariant
      <3>2. d \in Mirrored \union Rfcs
        BY <1>1, <3>1, DateIsADay DEF AdoptInvariant
      <3>3. Rendered(d) = Up(release) /\ d \in Dest
        BY <3>2, Kinds DEF Rendered
      <3> QED BY <1>1, <2>1, <3>1, <3>3 DEF Retriable, Vouched, Exists
    <2> QED BY <2>1, <2>2, Kinds
        DEF Blockers, SharedRefused, SlotMalformed, ContradictsConfig, Malformed
  <1>2. NoPriorRfc /\ Init => Retriable
    BY RetriableInit
  <1>3. AdoptInvariant /\ AdoptInvariant' /\ Retriable /\ [Next]_vars => Retriable'
    BY RetriableNext
  <1>4. Spec => []Retriable
    BY <1>2, <1>3, AdoptInvariantHolds, PTL DEF Spec
  <1> QED BY <1>1, <1>4, AdoptInvariantHolds, PTL

--------------------------------------------------------------------------------
(* A passing verify means answered slots *)

\* apply writes a slot file after every mirrored file.
LEMMA SlotsComeAfterMirrored ==
    ASSUME NEW d \in SlotTemplates, IsNext(d)
    PROVE  Mirrored \intersect todo = {}
  <1>1. PICK i \in DOMAIN Order :
          d \in Order[i] \intersect todo /\ \A j \in 1..(i - 1) : Order[j] \intersect todo = {}
    BY DEF IsNext
  <1>2. /\ DOMAIN Order = 1..10
        /\ Order[1] = Shared /\ Order[2] = MirroredFiles /\ Order[3] = MirroredPairs
        /\ Order[4] = TemplatePairs
    BY DEF Order
  <1>3. i \in 1..10 /\ i # 1 /\ i # 2 /\ i # 3
    BY <1>1, <1>2, Kinds DEF Mirrored
  <1>4. 2 \in 1..(i - 1) /\ 3 \in 1..(i - 1)
    BY <1>3
  <1> QED BY <1>1, <1>2, <1>4 DEF Mirrored

LEMMA SlotsAnswerInit ==
    ASSUME AdoptInvariant, Init
    PROVE  SlotsAnswer
  <1>1. ~Running /\ manifest.state = "none"
    BY DEF Init, Running, NoManifest
  <1> QED BY <1>1 DEF SlotsAnswer

\* Steps that keep the manifest and the plan, and put on disk only planned bytes,
\* answers to what a slot asked, and bytes of no release.
LEMMA SlotsAnswerStep ==
    ASSUME AdoptInvariant, SlotsAnswer, AdoptInvariant',
           manifest' = manifest \/ manifest'.state # "valid",
           release' \in Releases, release' >= release,
           Running' => Running /\ release' = release /\ plan' = plan
                               /\ \A d : Pending(d)' <=> Pending(d),
           \A x \in Mirrored :
              \/ disk'[x] = disk[x] \/ disk'[x] \in {Own, Absent}
              \/ ~Running' /\ disk'[x] = Broken,
           \A d \in SlotTemplates :
              \/ disk'[d] = disk[d] \/ disk'[d].by # "hdsh"
              \/ /\ disk[d].by = "hdsh" /\ disk[d].part.kind = "asks"
                 /\ disk'[d].part = Fills(disk[d].part.guidance)
    PROVE  SlotsAnswer'
  <1>a. release \in Nat /\ release' \in Nat /\ release \in Releases
    BY AdoptAssumption DEF AdoptInvariant, TypeOK, Releases
  <1>1. \A x \in Mirrored : Running' => Pending(x)' \/ disk'[x] \in {Up(release'), Own, Absent}
    BY DEF SlotsAnswer
  <1>2. ASSUME NEW d \in SlotTemplates, disk'[d].by = "hdsh"
        PROVE  /\ disk[d].by = "hdsh"
               /\ \A r : Answers(disk[d].part, r) => Answers(disk'[d].part, r)
    <2>1. CASE disk'[d] = disk[d]
      BY <1>2, <2>1
    <2>2. CASE /\ disk[d].by = "hdsh" /\ disk[d].part.kind = "asks"
               /\ disk'[d].part = Fills(disk[d].part.guidance)
      <3>1. ASSUME NEW r, Answers(disk[d].part, r)
            PROVE  disk[d].part = Asks(Guidance[r])
        BY <2>2, <3>1, PartsAre DEF Answers
      <3>2. \A g : Asks(g).guidance = g
        BY DEF Asks, Part
      <3> QED BY <2>2, <3>1, <3>2 DEF Answers
    <2> QED BY <1>2, <2>1, <2>2
  <1>3. ASSUME NEW d \in SlotTemplates, disk'[d].by = "hdsh", manifest'.state = "valid"
        PROVE  \/ Answers(disk'[d].part, manifest'.release)
               \/ \E r \in (manifest'.release + 1)..release' :
                    /\ Answers(disk'[d].part, r)
                    /\ \A x \in Mirrored : disk'[x] # Up(manifest'.release)
    <2>1. manifest' = manifest /\ manifest.release \in Nat
      BY <1>a, <1>3 DEF AdoptInvariant, ManifestFits
    <2>2. CASE Answers(disk[d].part, manifest.release)
      BY <1>2, <1>3, <2>1, <2>2
    <2>3. CASE \E r \in (manifest.release + 1)..release :
                 /\ Answers(disk[d].part, r)
                 /\ \A x \in Mirrored : disk[x] # Up(manifest.release)
      <3>1. PICK r \in (manifest.release + 1)..release :
              /\ Answers(disk[d].part, r)
              /\ \A x \in Mirrored : disk[x] # Up(manifest.release)
        BY <2>3
      <3>2. r \in (manifest.release + 1)..release'
        BY <1>a, <2>1, <3>1
      <3>3. \A x \in Mirrored : disk'[x] # Up(manifest.release)
        BY <3>1, UpIsNotAbsent
      <3> QED BY <1>2, <1>3, <2>1, <3>1, <3>2, <3>3
    <2> QED BY <1>2, <1>3, <2>1, <2>2, <2>3 DEF SlotsAnswer
  <1>4. ASSUME NEW d \in SlotTemplates, disk'[d].by = "hdsh", Running', ~Pending(d)'
        PROVE  Answers(disk'[d].part, release')
    BY <1>2, <1>4 DEF SlotsAnswer
  <1>5. \A d \in SlotTemplates : Running' => Answers(plan'.writes[d].part, release')
    BY DEF SlotsAnswer
  <1> QED BY <1>1, <1>3, <1>4, <1>5 DEF SlotsAnswer

LEMMA SlotsAnswerPreflight ==
    ASSUME GuidanceNeverReturns, AdoptInvariant, SlotsAnswer, AdoptInvariant',
           NEW given, NEW derivable, Preflight(given, derivable)
    PROVE  SlotsAnswer'
  <1>a. /\ pc = "idle" /\ Blockers = {} /\ plan' = AdoptionPlan /\ todo' = Kept
        /\ pc' = "writing" /\ disk' = disk /\ manifest' = manifest /\ release' = release
    BY DEF Preflight, Refused, consumer
  <1>b. TypeOK /\ ManifestFits /\ SlotFiles /\ release \in Releases /\ release \in Nat
    BY ReleasesAre DEF AdoptInvariant, TypeOK
  <1>1. \A d \in Mirrored \union SlotTemplates : Pending(d)' /\ d \in Kept
    BY <1>a, <1>b, KeptIs DEF Pending
  <1>2. ASSUME NEW d \in SlotTemplates
        PROVE  Answers(plan'.writes[d].part, release)
    <2>1. plan'.writes[d].part = SlotValue(d)
      BY <1>1, <1>a, <1>b, RenderedIs, Kinds DEF AdoptionPlan
    <2>2. CASE SlotValue(d) = Asks(Guidance[release])
      BY <2>1, <2>2 DEF Answers
    <2>3. CASE SlotValue(d) # Asks(Guidance[release])
      <3>1. /\ SlotValue(d) = disk[d].part /\ disk[d].part # Nothing
            /\ d \in DOMAIN Previous.guidance /\ Previous.guidance[d] = Guidance[release]
        BY <2>3 DEF SlotValue, Slot
      <3>2. disk[d].by = "hdsh"
        BY <1>b, <3>1 DEF SlotFiles
      <3>3. manifest.state = "valid" /\ Previous = manifest
        BY <1>b, <3>1, PreviousIs
      <3>4. Guidance[manifest.release] = Guidance[release] /\ manifest.release \in 1..release
        BY <1>b, <3>1, <3>3 DEF ManifestFits
      <3>5. CASE Answers(disk[d].part, manifest.release)
        BY <2>1, <3>1, <3>4, <3>5 DEF Answers
      <3>6. ASSUME NEW r \in (manifest.release + 1)..release, Answers(disk[d].part, r)
            PROVE  Answers(disk[d].part, release)
        <4>1. manifest.release \in Releases /\ r \in Releases /\ manifest.release < r /\ r <= release
          BY <1>b, <3>4, <3>6 DEF Releases
        <4>2. Guidance[r] = Guidance[release]
          BY <1>b, <3>4, <4>1 DEF GuidanceNeverReturns, Releases
        <4> QED BY <3>6, <4>2 DEF Answers
      <3> QED BY <2>1, <3>1, <3>2, <3>3, <3>5, <3>6 DEF SlotsAnswer
    <2> QED BY <2>2, <2>3
  <1>3. ~Running
    BY <1>a DEF Running
  <1> QED BY <1>a, <1>1, <1>2, <1>3 DEF SlotsAnswer

LEMMA SlotsAnswerWrite ==
    ASSUME AdoptInvariant, SlotsAnswer, AdoptInvariant', NEW e \in Dest, Write(e)
    PROVE  SlotsAnswer'
  <1>a. /\ pc = "writing" /\ e \in todo /\ IsNext(e)
        /\ disk' = [disk EXCEPT ![e] = plan.writes[e]] /\ todo' = todo \ {e}
        /\ manifest' = manifest /\ pc' = pc /\ plan' = plan /\ release' = release
    BY NextIsPending DEF Write, consumer
  <1>b. TypeOK /\ ManifestFits /\ PlanFits /\ release \in Releases /\ release \in Nat
    BY ReleasesAre DEF AdoptInvariant, TypeOK
  <1>c. Running /\ Running' /\ \A d : Pending(d)' <=> Pending(d) /\ d # e
    BY <1>a DEF Running, Pending
  <1>d. disk'[e] = plan.writes[e] /\ \A d \in Mirrored \union SlotTemplates : d # e => disk'[d] = disk[d]
    BY <1>a, <1>b, Kinds DEF TypeOK
  <1>e. e \in Mirrored => plan.writes[e] = Up(release)
    BY <1>a, <1>b, <1>c, Kinds DEF PlanFits
  <1>1. \A x \in Mirrored : Pending(x)' \/ disk'[x] \in {Up(release), Own, Absent}
    BY <1>c, <1>d, <1>e DEF SlotsAnswer
  <1>2. ASSUME NEW d \in SlotTemplates, disk'[d].by = "hdsh", ~Pending(d)'
        PROVE  Answers(disk'[d].part, release)
    BY <1>2, <1>c, <1>d DEF SlotsAnswer
  <1>3. ASSUME NEW d \in SlotTemplates, disk'[d].by = "hdsh", manifest.state = "valid"
        PROVE  \/ Answers(disk'[d].part, manifest.release)
               \/ \E r \in (manifest.release + 1)..release :
                    /\ Answers(disk'[d].part, r)
                    /\ \A x \in Mirrored : disk'[x] # Up(manifest.release)
    <2>1. manifest.release \in 1..release
      BY <1>b, <1>3 DEF ManifestFits
    <2>2. CASE d = e /\ manifest.release # release
      <3>1. Answers(disk'[d].part, release)
        BY <1>2, <1>3, <1>c, <2>2
      <3>2. \A x \in Mirrored : ~Pending(x) /\ x # e
        BY <1>a, <2>2, SlotsComeAfterMirrored, Kinds DEF Pending
      <3>3. \A x \in Mirrored : disk'[x] \in {Up(release), Own, Absent}
        BY <1>1, <1>c, <3>2
      <3>4. release \in (manifest.release + 1)..release
        BY <1>b, <2>1, <2>2
      <3> QED BY <2>2, <3>1, <3>3, <3>4, UpIsNotAbsent
    <2>3. CASE d = e /\ manifest.release = release
      BY <1>2, <1>3, <1>c, <2>3
    <2>4. CASE d # e
      <3>1. disk'[d] = disk[d]
        BY <1>d, <2>4
      <3>2. CASE Answers(disk[d].part, manifest.release)
        BY <3>1, <3>2
      <3>3. CASE \E r \in (manifest.release + 1)..release :
                    /\ Answers(disk[d].part, r)
                    /\ \A x \in Mirrored : disk[x] # Up(manifest.release)
        <4>1. PICK r \in (manifest.release + 1)..release :
                    /\ Answers(disk[d].part, r)
                    /\ \A x \in Mirrored : disk[x] # Up(manifest.release)
          BY <3>3
        <4>2. manifest.release # release
          BY <1>b, <2>1, <4>1
        <4>3. \A x \in Mirrored : disk'[x] # Up(manifest.release)
          BY <1>d, <1>e, <4>1, <4>2, UpIsNotAbsent
        <4> QED BY <3>1, <4>1, <4>3
      <3> QED BY <1>3, <3>1, <3>2, <3>3 DEF SlotsAnswer
    <2> QED BY <2>2, <2>3, <2>4
  <1>4. \A d \in SlotTemplates : Answers(plan'.writes[d].part, release')
    BY <1>a, <1>c DEF SlotsAnswer
  <1> QED BY <1>a, <1>1, <1>2, <1>3, <1>4 DEF SlotsAnswer

LEMMA SlotsAnswerNext ==
    ASSUME GuidanceNeverReturns, AdoptInvariant, AdoptInvariant', SlotsAnswer, [Next]_vars
    PROVE  SlotsAnswer'
  <1>a. TypeOK /\ ManifestFits /\ PlanFits /\ SlotFiles /\ release \in Releases /\ release \in Nat
        /\ release' \in Releases
    BY ReleasesAre DEF AdoptInvariant, TypeOK
  <1>1. ASSUME NEW d \in Dest, Edit(d)
        PROVE  SlotsAnswer'
    <2>1. PICK c \in Edits(d) : disk' = [disk EXCEPT ![d] = c]
      BY <1>1 DEF Edit
    <2>2. /\ manifest' = manifest /\ pc' = pc /\ todo' = todo /\ release' = release /\ plan' = plan
      BY <1>1 DEF Edit
    <2>3. (Running' <=> Running) /\ \A e : Pending(e)' <=> Pending(e)
      BY <2>2 DEF Running, Pending
    <2>4. \A e \in Mirrored \union SlotTemplates : disk'[e] = disk[e] \/ (e = d /\ disk'[e] = c)
      BY <1>a, <2>1, Kinds DEF TypeOK
    <2>5. d \in Mirrored => c \in {Own, Absent}
      BY <1>a, EditsAre
    <2>6. d \in SlotTemplates =>
            \/ c.by # "hdsh"
            \/ /\ disk[d].by = "hdsh" /\ disk[d].part.kind = "asks"
               /\ c.part = Fills(disk[d].part.guidance)
      BY <1>a, EditsAre, ContentsAre
    <2>7. release' >= release
      BY <1>a, <2>2
    <2>8. \A x \in Mirrored : disk'[x] = disk[x] \/ disk'[x] \in {Own, Absent}
      BY <2>4, <2>5
    <2>9. \A e \in SlotTemplates :
              \/ disk'[e] = disk[e] \/ disk'[e].by # "hdsh"
              \/ /\ disk[e].by = "hdsh" /\ disk[e].part.kind = "asks"
                 /\ disk'[e].part = Fills(disk[e].part.guidance)
      BY <2>4, <2>6
    <2> QED BY <1>a, <2>2, <2>3, <2>7, <2>8, <2>9, SlotsAnswerStep
  <1>2. CASE Complete
    <2> DEFINE open == {d \in Editable \union SlotTemplates : Unfilled(d)}
    <2>1. /\ pc = "idle" /\ manifest' = manifest /\ pc' = pc /\ release' = release
          /\ disk' = [d \in Dest |->
                      IF d \notin open THEN disk[d]
                      ELSE IF d \in SlotTemplates THEN Filled(disk[d])
                      ELSE IF d \in Orders THEN Merged ELSE Own]
      BY <1>2 DEF Complete, consumer
    <2>2. open = {d \in Editable \union SlotTemplates : Unfilled(d)}
      OBVIOUS
    <2> HIDE DEF open
    <2>3. ~Running'
      BY <2>1 DEF Running
    <2>4. /\ open \subseteq Editable \union SlotTemplates
          /\ \A d \in Dest \ open : disk'[d] = disk[d]
          /\ \A d \in SlotTemplates \intersect open :
                /\ disk[d].by = "hdsh" /\ disk[d].part.kind = "asks"
                /\ disk'[d].part = Fills(disk[d].part.guidance)
      BY <1>a, <2>1, <2>2, OpenIs
    <2>5. \A x \in Mirrored : disk'[x] = disk[x]
      BY <2>4, Kinds
    <2>6. \A e \in SlotTemplates :
              \/ disk'[e] = disk[e]
              \/ /\ disk[e].by = "hdsh" /\ disk[e].part.kind = "asks"
                 /\ disk'[e].part = Fills(disk[e].part.guidance)
      BY <2>4, Kinds
    <2>7. release' >= release
      BY <1>a, <2>1
    <2> QED BY <1>a, <2>1, <2>3, <2>5, <2>6, <2>7, SlotsAnswerStep
  <1>3. CASE Die
    <2>1. /\ ~Running' /\ release' = release
          /\ manifest' = manifest \/ manifest'.state # "valid"
          /\ disk' = disk \/ \E d \in Dest : disk' = [disk EXCEPT ![d] = Broken]
      BY <1>3, <1>a DEF Die, EndUnsaved, End, Running, NoManifest, consumer, TypeOK
    <2>2. \A d \in Mirrored \union SlotTemplates : disk'[d] = disk[d] \/ disk'[d] = Broken
      BY <1>a, <2>1, Kinds DEF TypeOK
    <2>3. release' >= release
      BY <1>a, <2>1
    <2> QED BY <1>a, <2>1, <2>2, <2>3, SlotsAnswerStep, ContentsAre
  <1>4. ASSUME NEW d \in DOMAIN record, Record(d)
        PROVE  SlotsAnswer'
    <2>1. /\ pc = "recording" /\ disk' = disk /\ manifest' = manifest /\ pc' = pc /\ plan' = plan
          /\ release' = release
      BY <1>4 DEF Record, consumer
    <2>2. Running /\ \A e : ~Pending(e) /\ ~Pending(e)'
      BY <2>1 DEF Running, Pending
    <2>3. release' >= release
      BY <1>a, <2>1
    <2> QED BY <1>a, <2>1, <2>2, <2>3, SlotsAnswerStep
  <1>5. CASE StartRecording
    <2>1. /\ pc = "writing" /\ todo = {} /\ pc' = "recording" /\ disk' = disk
          /\ manifest' = manifest /\ plan' = plan /\ release' = release
      BY <1>5 DEF StartRecording, consumer
    <2>2. Running /\ \A e : ~Pending(e) /\ ~Pending(e)'
      BY <2>1 DEF Running, Pending
    <2>3. release' >= release
      BY <1>a, <2>1
    <2> QED BY <1>a, <2>1, <2>2, <2>3, SlotsAnswerStep
  <1>6. CASE SaveManifest
    <2>1. /\ pc = "recording" /\ pc' = "idle" /\ disk' = disk /\ release' = release
          /\ manifest' = AdoptManifest
      BY <1>6 DEF SaveManifest, End, consumer
    <2>2. Running /\ ~Running' /\ \A e : ~Pending(e)
      BY <2>1 DEF Running, Pending
    <2>3. manifest'.release = release
      BY <1>a, <2>1, <2>2 DEF AdoptManifest, PlanFits
    <2>4. \A d \in SlotTemplates : disk[d].by = "hdsh" => Answers(disk[d].part, release)
      BY <2>2 DEF SlotsAnswer
    <2> QED BY <2>1, <2>2, <2>3, <2>4 DEF SlotsAnswer
  <1>7. ASSUME pc = "idle", pc' = pc, disk' = disk, manifest' = manifest \/ manifest' = NoManifest,
               release' >= release
        PROVE  SlotsAnswer'
    <2>1. ~Running' /\ (manifest' = manifest \/ manifest'.state # "valid")
      BY <1>7 DEF Running, NoManifest
    <2> QED BY <1>7, <1>a, <2>1, SlotsAnswerStep
  <1>8. ASSUME NEW d \in DOMAIN record, RecordFails(d)
        PROVE  SlotsAnswer'
    <2>1. ~Running' /\ disk' = disk /\ manifest' = manifest /\ release' = release
      BY <1>8 DEF RecordFails, EndUnsaved, End, Running, consumer
    <2>2. release' >= release
      BY <1>a, <2>1
    <2> QED BY <1>a, <2>1, <2>2, SlotsAnswerStep
  <1>9. CASE UNCHANGED vars
    <2>1. /\ disk' = disk /\ manifest' = manifest /\ pc' = pc /\ plan' = plan
          /\ todo' = todo /\ release' = release
      BY <1>9 DEF vars, consumer
    <2>2. (Running' <=> Running) /\ \A e : Pending(e)' <=> Pending(e)
      BY <2>1 DEF Running, Pending
    <2>3. release' >= release
      BY <1>a, <2>1
    <2> QED BY <1>a, <2>1, <2>2, <2>3, SlotsAnswerStep
  <1>10. ASSUME NEW given, NEW derivable, Refuse(given, derivable)
         PROVE  SlotsAnswer'
    BY <1>10, <1>7, <1>a DEF Refuse, consumer
  <1>11. CASE Commit \/ RemoveManifest \/ NextDay
    BY <1>11, <1>7, <1>a DEF Commit, RemoveManifest, NextDay, consumer
  <1>12. CASE Upgrade
    BY <1>12, <1>7, <1>a DEF Upgrade
  <1> QED
    BY <1>1, <1>2, <1>3, <1>4, <1>5, <1>6, <1>8, <1>9, <1>10, <1>11, <1>12,
       SlotsAnswerPreflight, SlotsAnswerWrite DEF Next

\* Whenever verify passes, every installed slot is filled, in answer to the
\* guidance of the recorded release, if no release brings back a guidance that
\* an earlier one replaced.
THEOREM VerifiedSlotsAnswerTheGuidanceHolds ==
    ASSUME GuidanceNeverReturns
    PROVE  Spec => []VerifiedSlotsAnswerTheGuidance
  <1>1. ASSUME AdoptInvariant, SlotsAnswer
        PROVE  VerifiedSlotsAnswerTheGuidance
    <2>1. SUFFICES ASSUME VerifyPasses, NEW d \in SlotTemplates, disk[d].by = "hdsh"
                   PROVE  disk[d].part = Fills(manifest.guidance[d])
      BY DEF VerifiedSlotsAnswerTheGuidance
    <2>2. manifest.state = "valid" /\ Drift = {} /\ Placeholders = {}
      BY <2>1 DEF VerifyPasses
    <2>3. manifest.guidance[d] = Guidance[manifest.release]
      BY <1>1, <2>2 DEF AdoptInvariant, ManifestFits
    <2>4. disk[d].part.kind # "asks"
      BY <2>1, <2>2 DEF Placeholders, Unfilled
    <2>5. PICK x \in Mirrored : TRUE
      BY AdoptAssumption
    <2>6. disk[x] = Up(manifest.release)
      BY <1>1, <2>2, <2>5 DEF Drift, AdoptInvariant, ManifestFits
    <2>7. Answers(disk[d].part, manifest.release)
      BY <1>1, <2>1, <2>2, <2>5, <2>6 DEF SlotsAnswer
    <2> QED BY <2>3, <2>4, <2>7, PartsAre DEF Answers
  <1>2. AdoptInvariant /\ Init => SlotsAnswer
    BY SlotsAnswerInit
  <1>3. GuidanceNeverReturns /\ AdoptInvariant /\ AdoptInvariant' /\ SlotsAnswer /\ [Next]_vars
          => SlotsAnswer'
    BY SlotsAnswerNext
  <1>4. Spec => []SlotsAnswer
    BY <1>2, <1>3, AdoptInvariantHolds, PTL DEF Spec
  <1> QED BY <1>1, <1>4, AdoptInvariantHolds, PTL

================================================================================

-------------------------- MODULE PolicyLifecycleProofs --------------------------
(***************************************************************************)
(* Proofs about PolicyLifecycle: PolicyInvariant is an invariant, and from *)
(* it follow the type, the board and the audit invariants and the action   *)
(* properties: plans stand, and people's comments stay (which takes one    *)
(* invariant more).  The last section proves, for every body, that         *)
(* the scan of its details regions is the reading as nesting: an induction *)
(* over the prefixes of the body, carried out as the absence of a smallest *)
(* prefix that disagrees (UpTo).                                           *)
(***************************************************************************)
EXTENDS PolicyLifecycle, FiniteSetTheorems, WellFoundedInduction, TLAPS

--------------------------------------------------------------------------------
(* The operators the actions are built from. *)

\* A nonempty set of numbers has its least element.
LEMMA LeastElement ==
    ASSUME NEW S \in SUBSET Nat, S # {}
    PROVE  Least(S) \in S /\ \A m \in S : Least(S) <= m
<1> DEFINE Below == {0..n : n \in S}
<1>1. PICK n \in S : \A m \in S : ~(<<0..m, 0..n>> \in StrictSubsetOrdering(Nat))
  <2>1. \A n \in S : 0..n \in FiniteSubsetsOf(Nat)
    BY FS_Interval DEF FiniteSubsetsOf
  <2>2. Below \subseteq FiniteSubsetsOf(Nat) /\ Below # {}
    BY <2>1
  <2>3. \E x \in Below : \A y \in Below : ~(<<y, x>> \in StrictSubsetOrdering(Nat))
    <3> HIDE DEF Below
    <3> QED
      BY <2>2, FS_StrictSubsetOrderingWellFounded, WFMin
  <2> QED
    BY <2>3
<1>2. \A m \in S : n <= m
  <2> SUFFICES ASSUME NEW m \in S, m < n PROVE FALSE
    BY DEF Least
  <2>1. 0..m \subseteq 0..n /\ 0..n \subseteq Nat /\ n \in 0..n /\ n \notin 0..m
    OBVIOUS
  <2> QED
    BY <2>1, <1>1 DEF StrictSubsetOrdering
<1> QED
  BY <1>2 DEF Least

\* The least element of a singleton is its element.
LEMMA LeastOfOne ==
    ASSUME NEW n \in Nat
    PROVE  Least({n}) = n
BY LeastElement

\* What validation lists are texts, and none of them is what people say.
LEMMA ErrorsAreTexts ==
    ASSUME NEW i, NEW card
    PROVE  /\ validate_issue(i, card) \in CommentText
           /\ validate_issue(i, card) # Talk
<1>1. \A x \in BodyErrors(i.form) : x \in BodyTexts
  BY Zenon DEF BodyErrors, Error, BodyTexts
<1>2. \A x \in FormErrors(i.form) : x \in BodyErrors(i.form) \/ x \in FormTexts
  BY Zenon DEF FormErrors, Error, FormTexts
<1>3. /\ \A x \in StatusErrors(i, card.status) : x \in CardTexts
      /\ \A x \in PriorityErrors(card.priority) : x \in CardTexts
  BY Zenon DEF StatusErrors, PriorityErrors, Error, CardTexts
<1>4. \A x \in validate_issue(i, card) : x \in BodyTexts \union FormTexts \union CardTexts
  BY <1>1, <1>2, <1>3 DEF validate_issue
<1>5. "talk" \notin BodyTexts \union FormTexts \union CardTexts
  BY DEF BodyTexts, FormTexts, CardTexts
<1> QED
  BY <1>4, <1>5 DEF CommentText, Talk

\* The job of nobody, and the values in it.
LEMMA NoRunIsAJob ==
    /\ NoRun \in Jobs /\ OffBoard \in Cards /\ NewItem \in Cards /\ NoEvent \in Events
    /\ {} \in CommentText
<1>1. OffBoard \in Cards /\ NewItem \in Cards
  BY DEF OffBoard, NewItem, Card, Cards
<1>2. NoEvent \in Events
  BY DEF NoEvent, Event, Events
<1>3. Unread \in IssueStates \union {Unread} /\ {} \in CommentText
  BY DEF CommentText
<1> QED
  BY <1>1, <1>2, <1>3 DEF NoRun, Jobs

\* A job's fields.
LEMMA JobFields ==
    ASSUME NEW r \in Jobs
    PROVE  /\ r.pc \in {"idle", "item", "add", "pull", "context", "write", "issue", "board", "list",
                        "comment"}
           /\ r.task \in {"none", "status", "membership", "transition", "date"}
           /\ r.event \in Events /\ r.at \in Issues \union {0}
           /\ r.resolving \in SUBSET Issues /\ r.dates \in SUBSET Issues
           /\ r.seen \in Cards /\ r.snapshot \in IssueStates \union {Unread}
           /\ r.errors \in CommentText /\ r.found \in Nat
BY DEF Jobs

\* A pull request's job goes on to a transition, then to a start date, of an
\* Issue it has left, and ends when it has none; an Issue's ends at once.
LEMMA ContinueFits ==
    ASSUME NEW r \in Jobs
    PROVE  /\ Continue(r) \in Jobs
           /\ Continue(r).errors = {} /\ Continue(r).found = 0
           /\ \/ Continue(r) = NoRun
              \/ Continue(r).pc = "context" /\ Continue(r).task = "transition" /\ Continue(r).at \in Issues
              \/ Continue(r).pc = "item" /\ Continue(r).task = "date" /\ Continue(r).at \in Issues
           /\ r.resolving = {} /\ r.dates = {} => Continue(r) = NoRun
<1>1. r.resolving \in SUBSET Issues /\ r.dates \in SUBSET Issues /\ r.event \in Events
  BY JobFields
<1>2. Issues \subseteq Nat
  BY PolicyAssumption
<1>3. CASE r.resolving # {}
  <2>1. Least(r.resolving) \in Issues
    BY <1>1, <1>2, <1>3, LeastElement
  <2>2. Continue(r) = [NoRun EXCEPT !.pc = "context", !.task = "transition", !.event = r.event,
                       !.at = Least(r.resolving), !.dates = r.dates,
                       !.resolving = r.resolving \ {Least(r.resolving)}]
    BY <1>3 DEF Continue
  <2> QED
    <3>1. Continue(r) = [pc |-> "context", task |-> "transition", event |-> r.event,
                         at |-> Least(r.resolving), resolving |-> r.resolving \ {Least(r.resolving)},
                         dates |-> r.dates, seen |-> OffBoard, snapshot |-> Unread, errors |-> {},
                         found |-> 0]
      BY <2>2 DEF NoRun
    <3>2. Continue(r) \in Jobs
      BY <3>1, <1>1, <2>1, NoRunIsAJob DEF Jobs
    <3> QED
      BY <3>1, <3>2, <2>1, <1>3
<1>4. CASE r.resolving = {} /\ r.dates # {}
  <2>1. Least(r.dates) \in Issues
    BY <1>1, <1>2, <1>4, LeastElement
  <2>2. Continue(r) = [NoRun EXCEPT !.pc = "item", !.task = "date", !.event = r.event,
                       !.at = Least(r.dates), !.dates = r.dates \ {Least(r.dates)}]
    BY <1>4 DEF Continue
  <2> QED
    <3>1. Continue(r) = [pc |-> "item", task |-> "date", event |-> r.event, at |-> Least(r.dates),
                         resolving |-> {}, dates |-> r.dates \ {Least(r.dates)},
                         seen |-> OffBoard, snapshot |-> Unread, errors |-> {}, found |-> 0]
      BY <2>2 DEF NoRun
    <3>2. Continue(r) \in Jobs
      BY <3>1, <1>1, <2>1, NoRunIsAJob DEF Jobs
    <3> QED
      BY <3>1, <3>2, <2>1, <1>4
<1>5. CASE r.resolving = {} /\ r.dates = {}
  BY <1>5, NoRunIsAJob DEF Continue, NoRun
<1> QED
  BY <1>3, <1>4, <1>5

\* What a job does with its item: it goes on to the audit, finds its status or
\* its date set already, or is about to write.
LEMMA WithItemFits ==
    ASSUME NEW r \in Jobs, r.task \in {"status", "membership", "date"}, NEW card \in Cards,
           NEW n, n = WithItem(r, card)
    PROVE  /\ n \in Jobs
           /\ \/ /\ r.task = "date" /\ card.start # 0 /\ n = Continue(r)
              \/ /\ n.event = r.event /\ n.at = r.at /\ n.resolving = r.resolving /\ n.dates = r.dates
                 /\ n.errors = r.errors
                 /\ \/ r.task = "membership" /\ n.pc = "issue" /\ n.task = r.task
                    \/ /\ r.task = "status" /\ card.status = StateStatus(r.event)
                       /\ n.pc = "item" /\ n.task = "membership"
                    \/ /\ r.task \in {"status", "date"} /\ n.pc = "write" /\ n.task = r.task /\ n.seen = card
                       /\ r.task = "date" => card.start = 0
                       /\ r.task = "status" => card.status # StateStatus(r.event)
<1>1. CASE r.task = "membership"
  <2>1. n = [r EXCEPT !.pc = "issue"]
    BY <1>1 DEF WithItem
  <2> QED
    BY <1>1, <2>1 DEF Jobs
<1>2. CASE r.task = "status" /\ card.status = StateStatus(r.event)
  <2>1. n = [r EXCEPT !.pc = "item", !.task = "membership"]
    BY <1>2 DEF WithItem
  <2> QED
    BY <1>2, <2>1 DEF Jobs
<1>3. CASE r.task = "date" /\ card.start # 0
  <2>1. n = Continue(r)
    BY <1>3 DEF WithItem
  <2> QED
    BY <1>3, <2>1, ContinueFits
<1>4. CASE \/ r.task = "status" /\ card.status # StateStatus(r.event)
           \/ r.task = "date" /\ card.start = 0
  <2>1. n = [r EXCEPT !.pc = "write", !.seen = card]
    BY <1>4 DEF WithItem
  <2> QED
    BY <1>4, <2>1 DEF Jobs
<1> QED
  BY <1>1, <1>2, <1>3, <1>4

--------------------------------------------------------------------------------
(* The steps of a job. *)

\* A running job steps, and may write one thing about its Issue's card: what a
\* step has to show for the invariant.
LEMMA JobStep ==
    ASSUME PolicyInvariant, NEW g \in Groups, IsRunning(g), NEW n \in Jobs,
           run' = [run EXCEPT ![g] = n],
           UNCHANGED <<issue, pulls, comments, posted, pending, acts, failures, quiet>>,
           settled' \subseteq settled, raced \subseteq raced', raced' \subseteq Issues,
           board' \in [Issues -> Cards],
           \A i \in Issues : /\ board'[i].status = "off" => board'[i] = OffBoard
                             /\ board[i].status # "off" => board'[i].status # "off",
           n.pc \in {"idle", "pull"} <=> n.at = 0,
           n.pc = "write" /\ n.task = "transition" => NewStatus(n) \in {"In progress", "In review"},
           JobFits(g)',
           n.task = "status" => run[g].task = "status" /\ n.event = run[g].event,
           n.task # "status" /\ run[g].task = "status" => board'[g].status = StateStatus(run[g].event),
           \A i \in settled' : run[i].task # "status" /\ Fits(i, board[i].status)
                                 => Fits(i, board'[i].status),
           n.pc = "comment" /\ n.at \notin raced' =>
             /\ \A h \in Groups \ {g} : ~Writing(h, n.at)
             /\ IF n.found = 0 THEN Audits(n.at) = {} ELSE \E c \in Audits(n.at) : c.id = n.found,
           \A i \in quiet : pending[i] = NoEvent =>
             /\ Fresh(g, i)'
             /\ \/ i \in raced' \/ Auditing(g, i)' \/ AuditMatches(i)'
                \/ ~Auditing(g, i) /\ ErrorsOf(i)' = ErrorsOf(i)
    PROVE  PolicyInvariant'
<1> USE DEF PolicyInvariant
<1>a. /\ run'[g] = n /\ \A h \in Groups \ {g} : run'[h] = run[h]
      /\ run \in [Groups -> Jobs] /\ run' \in [Groups -> Jobs]
      /\ quiet \subseteq Issues /\ settled \subseteq Issues /\ Issues \subseteq Groups
      /\ board \in [Issues -> Cards]
  BY DEF TypeOK, Groups
<1>b. /\ issue' = issue /\ pulls' = pulls /\ comments' = comments /\ posted' = posted
      /\ pending' = pending /\ acts' = acts /\ failures' = failures /\ quiet' = quiet
  OBVIOUS
<1>1. TypeOK'
  <2>1. /\ issue' \in [Issues -> IssueStates] /\ board' \in [Issues -> Cards]
        /\ pulls' \in [PullRequests -> [opened : BOOLEAN, links : [Issues -> {"none", "related", "resolving"}]]]
        /\ posted' \in [Issues -> Nat] /\ comments' \in [Issues -> SUBSET [id : Nat, text : CommentText]]
        /\ \A i \in Issues : \A c \in comments'[i] : c.id \in 1..posted'[i] /\ c.text # {}
        /\ pending' \in [Groups -> Events]
        /\ quiet' \subseteq Issues /\ settled' \subseteq Issues /\ raced' \subseteq Issues
        /\ acts' \in 0..MaxActs /\ failures' \in 0..MaxFailures
    BY <1>b DEF TypeOK
  <2>2. \A h \in Groups : NewStatus(run[h])' = NewStatus(run'[h])
    BY DEF NewStatus
  <2>3. ASSUME NEW h \in Groups
        PROVE  /\ run'[h].pc \in {"idle", "pull"} <=> run'[h].at = 0
               /\ run'[h].pc = "write" /\ run'[h].task = "transition" =>
                    NewStatus(run'[h]) \in {"In progress", "In review"}
    BY <1>a DEF TypeOK
  <2> QED
    BY <2>1, <2>2, <2>3, <1>a DEF TypeOK
<1>2. JobsFit'
  <2> SUFFICES ASSUME NEW h \in Groups \ {g} PROVE JobFits(h)'
    BY DEF JobsFit
  <2>1. run'[h] = run[h] /\ JobFits(h) /\ run[h] \in Jobs
    BY <1>a DEF JobsFit
  <2>2. run[h].pc = "write" => run[h].at \in Issues
    BY <2>1, JobFields DEF TypeOK
  <2> QED
    BY <2>1, <2>2 DEF JobFits
<1>3. BoardFollows'
  <2> SUFFICES ASSUME NEW i \in settled'
               PROVE  IF IsStateEvent(pending[i]) THEN Fits(i, StateStatus(pending[i]))
                      ELSE IF run'[i].task = "status" THEN Fits(i, StateStatus(run'[i].event))
                      ELSE Fits(i, board'[i].status)
    BY <1>b DEF BoardFollows, Fits
  <2>1. /\ i \in settled /\ i \in Groups
        /\ IF IsStateEvent(pending[i]) THEN Fits(i, StateStatus(pending[i]))
           ELSE IF run[i].task = "status" THEN Fits(i, StateStatus(run[i].event))
           ELSE Fits(i, board[i].status)
    BY <1>a DEF BoardFollows
  <2>2. CASE i # g
    BY <2>1, <2>2, <1>a
  <2>3. CASE i = g
    BY <2>1, <2>3, <1>a
  <2> QED
    BY <2>2, <2>3
<1>4. CommentsNumbered'
  BY <1>b DEF CommentsNumbered
<1>5. AuditsAreSole'
  <2> SUFFICES ASSUME NEW i \in Issues \ raced'
               PROVE  /\ \A c, d \in Audits(i)' : c = d
                      /\ \A h, k \in Groups : Writing(h, i)' /\ Writing(k, i)' => h = k
                      /\ \A h \in Groups : Writing(h, i)' =>
                           IF run'[h].found = 0 THEN Audits(i)' = {}
                           ELSE \E c \in Audits(i)' : c.id = run'[h].found
    BY DEF AuditsAreSole
  <2>0. Audits(i)' = Audits(i)
    BY <1>b DEF Audits
  <2>1. /\ \A c, d \in Audits(i) : c = d
        /\ \A h, k \in Groups : Writing(h, i) /\ Writing(k, i) => h = k
        /\ \A h \in Groups : Writing(h, i) =>
             IF run[h].found = 0 THEN Audits(i) = {} ELSE \E c \in Audits(i) : c.id = run[h].found
    BY DEF AuditsAreSole
  <2>2. /\ \A h \in Groups \ {g} : Writing(h, i)' <=> Writing(h, i)
        /\ Writing(g, i)' <=> n.at = i /\ n.pc = "comment"
    BY <1>a DEF Writing
  <2>3. \A h, k \in Groups : Writing(h, i)' /\ Writing(k, i)' => h = k
    <3>1. Writing(g, i)' => \A h \in Groups \ {g} : ~Writing(h, i)
      BY <2>2
    <3> QED
      BY <2>1, <2>2, <3>1
  <2>4. ASSUME NEW h \in Groups, Writing(h, i)'
        PROVE  IF run'[h].found = 0 THEN Audits(i) = {} ELSE \E c \in Audits(i) : c.id = run'[h].found
    <3>1. CASE h = g
      BY <3>1, <2>2, <2>4, <1>a
    <3>2. CASE h # g
      BY <3>2, <2>1, <2>2, <2>4, <1>a
    <3> QED
      BY <3>1, <3>2
  <2> QED
    BY <2>0, <2>1, <2>3, <2>4
<1>6. AuditsFollow'
  <2>1. ASSUME NEW h \in Groups, IsRunning(h)' PROVE IsRunning(h)
    BY <2>1, <1>a DEF IsRunning
  <2>2. quiet # {} => \A h, k \in Groups : IsRunning(h) /\ IsRunning(k) => h = k
    BY DEF AuditsFollow
  <2> SUFFICES ASSUME NEW i \in quiet, pending[i] = NoEvent
               PROVE  /\ \A h \in Groups : Fresh(h, i)'
                      /\ i \in raced' \/ AuditMatches(i)' \/ \E h \in Groups : Auditing(h, i)'
    BY <2>1, <2>2, <1>b DEF AuditsFollow
  <2>3. ASSUME NEW h \in Groups \ {g} PROVE Fresh(h, i)'
    BY <2>2, <1>a DEF IsRunning, Fresh
  <2>4. i \in raced \/ AuditMatches(i) \/ \E h \in Groups : Auditing(h, i)
    BY DEF AuditsFollow
  <2>5. (\E h \in Groups : Auditing(h, i)) => Auditing(g, i)
    BY <2>2 DEF Auditing
  <2>6. ErrorsOf(i)' = ErrorsOf(i) /\ AuditMatches(i) => AuditMatches(i)'
    BY <1>b DEF AuditMatches, Audits
  <2> QED
    BY <2>3, <2>4, <2>5, <2>6
<1> QED
  BY <1>1, <1>2, <1>3, <1>4, <1>5, <1>6

\* What the invariant says of one group's job.
LEMMA JobOfGroup ==
    ASSUME PolicyInvariant, NEW g \in Groups
    PROVE  /\ run \in [Groups -> Jobs] /\ run[g] \in Jobs /\ JobFits(g)
           /\ g \in Issues <=> g \notin PullRequests
           /\ IsRunning(g) /\ run[g].pc # "pull" => run[g].at \in Issues
           /\ run[g].pc = "write" /\ run[g].task = "transition" =>
                NewStatus(run[g]) \in {"In progress", "In review"}
           /\ board \in [Issues -> Cards]
           /\ \A i \in Issues : board[i].status = "off" => board[i] = OffBoard
           /\ 0 \notin Issues
<1>1. TypeOK /\ JobsFit
  BY DEF PolicyInvariant
<1>2. run[g] \in Jobs /\ 0 \notin Issues
  BY <1>1, PolicyAssumption DEF TypeOK
<1> QED
  BY <1>1, <1>2, JobFields, PolicyAssumption DEF TypeOK, JobsFit, Groups, IsRunning

\* The job that goes on, or ends, is one of its group's.
LEMMA ContinuedJobFits ==
    ASSUME PolicyInvariant, NEW g \in Groups, NEW r \in Jobs,
           g \in Issues => r.resolving = {} /\ r.dates = {},
           run' = [run EXCEPT ![g] = Continue(r)]
    PROVE  /\ Continue(r) \in Jobs /\ JobFits(g)'
           /\ Continue(r).pc \in {"idle", "pull"} <=> Continue(r).at = 0
           /\ Continue(r).pc \in {"idle", "context", "item"} /\ Continue(r).task # "status"
           /\ \A i \in Issues : Fresh(g, i)'
<1>1. /\ run'[g] = Continue(r)
      /\ g \in Issues <=> g \notin PullRequests
      /\ 0 \notin Issues
  BY JobOfGroup
<1>2. NoRun.pc = "idle" /\ NoRun.at = 0 /\ NoRun.task = "none"
  BY DEF NoRun
<1> DEFINE n == Continue(r)
<1>0. /\ n \in Jobs /\ n.errors = {} /\ n.found = 0
      /\ \/ n = NoRun
         \/ n.pc = "context" /\ n.task = "transition" /\ n.at \in Issues
         \/ n.pc = "item" /\ n.task = "date" /\ n.at \in Issues
      /\ g \in Issues => n = NoRun
  BY ContinueFits
<1> HIDE DEF n
<1>n. run'[g] = n
  BY <1>1 DEF n
<1>3. JobFits(g)'
  <2>1. {} # Talk
    BY DEF Talk
  <2>2. CASE n = NoRun
    BY <1>0, <1>1, <1>2, <1>n, <2>1, <2>2 DEF JobFits
  <2>3. CASE n # NoRun
    BY <1>0, <1>1, <1>n, <2>1, <2>3 DEF JobFits
  <2> QED
    BY <2>2, <2>3
<1>4. \A i \in Issues : Fresh(g, i)'
  BY <1>0, <1>1, <1>2, <1>n DEF Fresh
<1> QED
  BY <1>0, <1>1, <1>2, <1>3, <1>4 DEF n

\* Reading the item keeps the invariant.
LEMMA ReadItemKeeps ==
    ASSUME PolicyInvariant, NEW g \in Groups, ReadItem(g)
    PROVE  PolicyInvariant'
<1> DEFINE r == run[g]
           n == IF board[r.at] = OffBoard THEN [r EXCEPT !.pc = "add"] ELSE WithItem(r, board[r.at])
<1>a. /\ r.pc = "item" /\ IsRunning(g) /\ run' = [run EXCEPT ![g] = n]
      /\ UNCHANGED <<issue, pulls, comments, posted, pending, acts, failures, quiet>>
      /\ board' = board /\ settled' = settled /\ raced' = raced
  BY DEF ReadItem, Go, IsRunning, history
<1>b. /\ r \in Jobs /\ JobFits(g) /\ r.at \in Issues /\ board[r.at] \in Cards /\ run \in [Groups -> Jobs]
      /\ board \in [Issues -> Cards]
      /\ \A i \in Issues : board[i].status = "off" => board[i] = OffBoard
      /\ g \in Issues <=> g \notin PullRequests
      /\ 0 \notin Issues
  BY <1>a, JobOfGroup
<1>c. r.task \in {"status", "membership", "date"}
  BY <1>a, <1>b, JobFields DEF JobFits
<1>d. quiet \subseteq Issues /\ raced \subseteq Issues /\ settled \subseteq Issues
  BY DEF PolicyInvariant, TypeOK
<1>e. run'[g] = n
  BY <1>a, <1>b
<1>f. \A i \in Issues : ErrorsOf(i)' = ErrorsOf(i)
  BY <1>a DEF ErrorsOf
<1>1. CASE board[r.at] = OffBoard
  <2>1. n = [r EXCEPT !.pc = "add"] /\ n \in Jobs
    BY <1>1, <1>b DEF Jobs
  <2>2. /\ n.pc = "add" /\ n.task = r.task /\ n.event = r.event /\ n.at = r.at /\ n.errors = r.errors
        /\ n.resolving = r.resolving /\ n.dates = r.dates
    BY <2>1, <1>b DEF Jobs
  <2>3. JobFits(g)'
    BY <1>a, <1>b, <1>e, <2>2 DEF JobFits
  <2>4. \A i \in Issues : Fresh(g, i)'
    BY <1>e, <2>2 DEF Fresh
  <2>5. \A i \in Issues : Auditing(g, i) => Auditing(g, i)'
    BY <1>a, <1>e, <2>2 DEF Auditing, IsRunning
  <2> HIDE DEF n, r
  <2> QED
    BY <1>a, <1>b, <1>d, <1>f, <2>1, <2>2, <2>3, <2>4, <2>5, JobStep DEF r
<1>2. CASE board[r.at] # OffBoard
  <2>0. n = WithItem(r, board[r.at])
    BY <1>2
  <2> HIDE DEF n
  <2>1. CASE r.task = "date" /\ board[r.at].start # 0 /\ n = Continue(r)
    <3>1. /\ n \in Jobs /\ JobFits(g)'
          /\ n.pc \in {"idle", "pull"} <=> n.at = 0
          /\ n.pc \in {"idle", "context", "item"} /\ n.task # "status"
          /\ \A i \in Issues : Fresh(g, i)'
      <4>1. g \in Issues => r.resolving = {} /\ r.dates = {}
        BY <1>a, <1>b DEF JobFits
      <4>2. run' = [run EXCEPT ![g] = Continue(r)]
        BY <1>a, <2>1
      <4> HIDE DEF r
      <4> QED
        BY <4>1, <4>2, <2>1, <1>b, ContinuedJobFits
    <3>2. \A i \in Issues : ~Auditing(g, i)
      BY <1>a, <1>b, <2>1 DEF Auditing, JobFits
    <3> QED
      BY <1>a, <1>b, <1>d, <1>f, <2>1, <3>1, <3>2, JobStep
  <2>2. CASE ~(r.task = "date" /\ board[r.at].start # 0)
    <3>1. /\ n \in Jobs
          /\ n.event = r.event /\ n.at = r.at /\ n.resolving = r.resolving /\ n.dates = r.dates
          /\ n.errors = r.errors
          /\ \/ r.task = "membership" /\ n.pc = "issue" /\ n.task = r.task
             \/ /\ r.task = "status" /\ board[r.at].status = StateStatus(r.event)
                /\ n.pc = "item" /\ n.task = "membership"
             \/ /\ r.task \in {"status", "date"} /\ n.pc = "write" /\ n.task = r.task /\ n.seen = board[r.at]
                /\ r.task = "date" => board[r.at].start = 0
      BY <2>0, <2>2, <1>b, <1>c, WithItemFits
    <3>2. JobFits(g)'
      BY <1>a, <1>b, <1>e, <1>2, <3>1 DEF JobFits
    <3>3. \A i \in Issues : Fresh(g, i)'
      BY <1>e, <3>1 DEF Fresh
    <3>4. \A i \in Issues : Auditing(g, i) => Auditing(g, i)'
      BY <1>a, <1>e, <3>1 DEF Auditing, IsRunning
    <3>5. n.task # "status" /\ r.task = "status" => board'[g].status = StateStatus(r.event)
      BY <1>a, <1>b, <3>1 DEF JobFits
    <3> QED
      BY <1>a, <1>b, <1>c, <1>d, <1>f, <3>1, <3>2, <3>3, <3>4, <3>5, JobStep
  <2> QED
    BY <2>1, <2>2, <2>0, <1>b, <1>c, WithItemFits
<1> QED
  BY <1>1, <1>2

\* A card without a status fits, and is validated, like no card.
LEMMA UnsetIsOff ==
    /\ \A i : validate_issue(i, NewItem) = validate_issue(i, OffBoard)
    /\ \A i \in Issues : Fits(i, "off") => Fits(i, "unset")
    /\ \A e : StateStatus(e) \in {"Inbox", "Done", "No action"}
<1>1. "off" \notin ToSet(Statuses) /\ "unset" \notin ToSet(Statuses)
  BY PolicyAssumption
<1>2. "off" \notin Terminal /\ "unset" \notin Terminal
  BY DEF Terminal
<1>3. ASSUME NEW i PROVE validate_issue(i, NewItem) = validate_issue(i, OffBoard)
  <2>1. StatusErrors(i, "unset") = StatusErrors(i, "off")
    BY <1>1, <1>2 DEF StatusErrors, Error
  <2> QED
    BY <2>1 DEF validate_issue, NewItem, OffBoard, Card
<1> QED
  BY <1>2, <1>3 DEF Fits, StateStatus

\* Adding the item keeps the invariant.
LEMMA AddItemKeeps ==
    ASSUME PolicyInvariant, NEW g \in Groups, AddItem(g)
    PROVE  PolicyInvariant'
<1> DEFINE r == run[g]
           n == WithItem(r, NewItem)
           card == IF board[r.at] = OffBoard THEN NewItem ELSE board[r.at]
<1>a. /\ r.pc = "add" /\ IsRunning(g) /\ run' = [run EXCEPT ![g] = n]
      /\ UNCHANGED <<issue, pulls, comments, posted, pending, acts, failures, quiet>>
      /\ board' = [board EXCEPT ![r.at] = card] /\ settled' = settled /\ raced' = raced
  BY DEF AddItem, Go, IsRunning, history
<1>b. /\ r \in Jobs /\ JobFits(g) /\ r.at \in Issues /\ board[r.at] \in Cards /\ run \in [Groups -> Jobs]
      /\ board \in [Issues -> Cards]
      /\ \A i \in Issues : board[i].status = "off" => board[i] = OffBoard
      /\ g \in Issues <=> g \notin PullRequests
      /\ 0 \notin Issues
  BY <1>a, JobOfGroup
<1>c. r.task \in {"status", "membership", "date"}
  BY <1>a, <1>b, JobFields DEF JobFits
<1>d. quiet \subseteq Issues /\ raced \subseteq Issues /\ settled \subseteq Issues
  BY DEF PolicyInvariant, TypeOK
<1>e. run'[g] = n
  BY <1>a, <1>b
<1>f. NewItem.status = "unset" /\ NewItem.start = 0 /\ OffBoard.status = "off" /\ NewItem \in Cards
  BY NoRunIsAJob DEF NewItem, OffBoard, Card
<1>g. card \in Cards /\ card.status # "off"
  BY <1>b, <1>f
<1>h. /\ board' \in [Issues -> Cards] /\ board'[r.at] = card
      /\ \A i \in Issues \ {r.at} : board'[i] = board[i]
  BY <1>a, <1>b, <1>g
<1>i. card = board[r.at] \/ (card = NewItem /\ board[r.at] = OffBoard)
  <2>1. CASE board[r.at] = OffBoard
    BY <2>1, <1>f
  <2>2. CASE board[r.at] # OffBoard
    BY <2>2
  <2> QED
    BY <2>1, <2>2
<1>1. /\ n \in Jobs
      /\ n.event = r.event /\ n.at = r.at /\ n.resolving = r.resolving /\ n.dates = r.dates
      /\ n.errors = r.errors
      /\ \/ r.task = "membership" /\ n.pc = "issue" /\ n.task = r.task
         \/ /\ r.task \in {"status", "date"} /\ n.pc = "write" /\ n.task = r.task /\ n.seen = NewItem
  <2>1. StateStatus(r.event) # NewItem.status /\ ~(NewItem.start # 0)
    BY <1>f, UnsetIsOff
  <2> HIDE DEF r
  <2>2. /\ n \in Jobs
        /\ \/ /\ r.task = "date" /\ NewItem.start # 0 /\ n = Continue(r)
           \/ /\ n.event = r.event /\ n.at = r.at /\ n.resolving = r.resolving /\ n.dates = r.dates
              /\ n.errors = r.errors
              /\ \/ r.task = "membership" /\ n.pc = "issue" /\ n.task = r.task
                 \/ /\ r.task = "status" /\ NewItem.status = StateStatus(r.event)
                    /\ n.pc = "item" /\ n.task = "membership"
                 \/ /\ r.task \in {"status", "date"} /\ n.pc = "write" /\ n.task = r.task
                    /\ n.seen = NewItem
    BY <1>b, <1>c, <1>f, WithItemFits
  <2> HIDE DEF n
  <2> QED
    BY <2>1, <2>2
<1> HIDE DEF n
<1>2. JobFits(g)'
  BY <1>a, <1>b, <1>e, <1>f, <1>g, <1>h, <1>1 DEF JobFits
<1>3. \A i \in Issues : Fresh(g, i)'
  BY <1>e, <1>1 DEF Fresh
<1>4. \A i \in Issues : Auditing(g, i) => Auditing(g, i)'
  BY <1>a, <1>e, <1>1 DEF Auditing, IsRunning
<1>5. \A i \in Issues : ErrorsOf(i)' = ErrorsOf(i)
  <2> SUFFICES ASSUME NEW i \in Issues PROVE ErrorsOf(i)' = ErrorsOf(i)
    OBVIOUS
  <2>1. issue'[i] = issue[i]
    BY <1>a
  <2>2. board'[i] = board[i] \/ (board'[i] = NewItem /\ board[i] = OffBoard)
    BY <1>h, <1>i
  <2> QED
    BY <2>1, <2>2, UnsetIsOff DEF ErrorsOf
<1>6. \A i \in Issues : Fits(i, board[i].status) => Fits(i, board'[i].status)
  <2> SUFFICES ASSUME NEW i \in Issues PROVE Fits(i, board[i].status) => Fits(i, board'[i].status)
    OBVIOUS
  <2>2. board'[i] = board[i] \/ (board'[i].status = "unset" /\ board[i].status = "off")
    BY <1>f, <1>h, <1>i
  <2> QED
    BY <2>2, UnsetIsOff
<1>7. \A i \in Issues : /\ board'[i].status = "off" => board'[i] = OffBoard
                        /\ board[i].status # "off" => board'[i].status # "off"
  BY <1>b, <1>g, <1>h
<1> HIDE DEF r, card
<1> QED
  BY <1>a, <1>b, <1>c, <1>d, <1>h, <1>1, <1>2, <1>3, <1>4, <1>5, <1>6, <1>7, JobStep DEF r

\* A job that goes on keeps the invariant, once the Issue it leaves is audited
\* or was not to be.
LEMMA ContinueStep ==
    ASSUME PolicyInvariant, NEW g \in Groups, IsRunning(g), NEW q \in Jobs,
           g \in Issues => q.resolving = {} /\ q.dates = {},
           run' = [run EXCEPT ![g] = Continue(q)],
           UNCHANGED <<issue, pulls, comments, posted, pending, acts, failures, quiet, settled>>,
           raced \subseteq raced', raced' \subseteq Issues,
           board' \in [Issues -> Cards],
           \A i \in Issues : board'[i].status = board[i].status /\ board'[i].priority = board[i].priority,
           \A i \in Issues : board[i] = OffBoard => board'[i] = OffBoard,
           run[g].task # "status",
           \A i \in quiet : pending[i] = NoEvent => i \in raced' \/ AuditMatches(i) \/ ~Auditing(g, i)
    PROVE  PolicyInvariant'
<1> DEFINE n == Continue(q)
<1>1. /\ n \in Jobs /\ JobFits(g)'
      /\ n.pc \in {"idle", "pull"} <=> n.at = 0
      /\ n.pc \in {"idle", "context", "item"} /\ n.task # "status"
      /\ \A i \in Issues : Fresh(g, i)'
  BY ContinuedJobFits
<1>2. run' = [run EXCEPT ![g] = n]
  OBVIOUS
<1> HIDE DEF n
<1>3. \A i \in Issues : ErrorsOf(i)' = ErrorsOf(i)
  BY DEF ErrorsOf, validate_issue
<1>4. \A i \in Issues : AuditMatches(i) => AuditMatches(i)'
  BY <1>3 DEF AuditMatches, Audits
<1>5. quiet \subseteq Issues /\ settled \subseteq Issues /\ settled' = settled
  BY DEF PolicyInvariant, TypeOK
<1>6. \A i \in Issues : /\ board'[i].status = "off" => board'[i] = OffBoard
                        /\ board[i].status # "off" => board'[i].status # "off"
  BY JobOfGroup
<1>7. \A i \in settled' : run[i].task # "status" /\ Fits(i, board[i].status) => Fits(i, board'[i].status)
  BY <1>5
<1> QED
  BY <1>1, <1>2, <1>3, <1>4, <1>5, <1>6, <1>7, JobStep

\* Reading the pull request keeps the invariant.
LEMMA ReadPullKeeps ==
    ASSUME PolicyInvariant, NEW g \in Groups, ReadPull(g)
    PROVE  PolicyInvariant'
<1> DEFINE r == run[g]
           refs == References(pulls[g].links)
           q == [r EXCEPT !.resolving = refs.resolving, !.dates = IF r.event.action = "opened" THEN refs.all ELSE {}]
<1>a. /\ r.pc = "pull" /\ IsRunning(g) /\ run' = [run EXCEPT ![g] = Continue(q)]
      /\ UNCHANGED <<issue, pulls, comments, posted, pending, acts, failures, quiet, settled>>
      /\ board' = board /\ raced' = raced
  BY DEF ReadPull, Go, IsRunning, history
<1>b. r \in Jobs /\ JobFits(g) /\ board \in [Issues -> Cards] /\ raced \subseteq Issues
  BY JobOfGroup DEF PolicyInvariant, TypeOK
<1>c. r.at = 0 /\ 0 \notin Issues
  BY <1>a, JobOfGroup DEF PolicyInvariant, TypeOK
<1>1. refs.resolving \subseteq Issues /\ refs.all \subseteq Issues
  BY DEF References
<1>2. q \in Jobs
  BY <1>b, <1>1 DEF Jobs
<1>3. g \notin Issues /\ r.task # "status"
  BY <1>a, <1>b, JobFields DEF JobFits
<1>4. \A i \in Issues : ~Auditing(g, i)
  BY <1>a, <1>c, <1>3 DEF Auditing
<1>5. quiet \subseteq Issues
  BY DEF PolicyInvariant, TypeOK
<1> HIDE DEF q, r
<1> QED
  BY <1>a, <1>b, <1>2, <1>3, <1>4, <1>5, ContinueStep DEF r

\* Reading the card a transition would start from keeps the invariant.
LEMMA ReadContextKeeps ==
    ASSUME PolicyInvariant, NEW g \in Groups, ReadContext(g)
    PROVE  PolicyInvariant'
<1> DEFINE r == run[g]
           n == [r EXCEPT !.pc = "write", !.seen = board[r.at]]
<1>a. /\ r.pc = "context" /\ IsRunning(g)
      /\ run' = [run EXCEPT ![g] = IF NextStatus(board[r.at], Command(r.event)) = "none" THEN Continue(r) ELSE n]
      /\ UNCHANGED <<issue, pulls, comments, posted, pending, acts, failures, quiet, settled>>
      /\ board' = board /\ raced' = raced /\ settled' = settled
  BY DEF ReadContext, Go, IsRunning, history
<1>b. /\ r \in Jobs /\ JobFits(g) /\ board \in [Issues -> Cards] /\ raced \subseteq Issues
      /\ run \in [Groups -> Jobs] /\ r.at \in Issues /\ 0 \notin Issues /\ board[r.at] \in Cards
      /\ quiet \subseteq Issues /\ settled \subseteq Issues
      /\ \A i \in Issues : board[i].status = "off" => board[i] = OffBoard
  BY <1>a, JobOfGroup DEF PolicyInvariant, TypeOK
<1>c. r.task = "transition" /\ g \notin Issues
  BY <1>a, <1>b, JobFields DEF JobFits
<1>d. \A i \in Issues : ~Auditing(g, i) /\ ErrorsOf(i)' = ErrorsOf(i)
  BY <1>a, <1>c DEF Auditing, ErrorsOf
<1>1. CASE NextStatus(board[r.at], Command(r.event)) = "none"
  <2>1. run' = [run EXCEPT ![g] = Continue(r)]
    BY <1>1, <1>a
  <2> HIDE DEF r
  <2> QED
    BY <2>1, <1>a, <1>b, <1>c, <1>d, ContinueStep DEF r
<1>2. CASE NextStatus(board[r.at], Command(r.event)) # "none"
  <2>1. run' = [run EXCEPT ![g] = n] /\ n \in Jobs
    BY <1>2, <1>a, <1>b DEF Jobs
  <2>2. /\ n.pc = "write" /\ n.task = r.task /\ n.event = r.event /\ n.at = r.at /\ n.errors = r.errors
        /\ n.seen = board[r.at] /\ run'[g] = n
    BY <2>1, <1>b DEF Jobs
  <2>3. board[r.at].status # "off"
    BY <1>2, PolicyAssumption DEF NextStatus, IsActive, active_statuses
  <2>4. NewStatus(n) \in {"In progress", "In review"}
    BY <1>2, <1>c, <2>2 DEF NewStatus, NextStatus
  <2> HIDE DEF n
  <2>5. JobFits(g)'
    BY <1>a, <1>b, <1>c, <2>2, <2>3 DEF JobFits
  <2>6. \A i \in Issues : Fresh(g, i)'
    BY <2>2 DEF Fresh
  <2> HIDE DEF r
  <2> QED
    BY <1>a, <1>b, <1>c, <1>d, <2>1, <2>2, <2>4, <2>5, <2>6, JobStep DEF r
<1> QED
  BY <1>1, <1>2

\* Writing a status keeps the invariant.
LEMMA WriteStatusKeeps ==
    ASSUME PolicyInvariant, NEW g \in Groups, WriteStatus(g)
    PROVE  PolicyInvariant'
<1> DEFINE r == run[g]
           n == IF r.task = "status" THEN [r EXCEPT !.pc = "item", !.task = "membership", !.seen = OffBoard]
                ELSE [r EXCEPT !.pc = "issue", !.seen = OffBoard]
           card == Card(NewStatus(r), "lifecycle", board[r.at].start, board[r.at].priority)
<1>a. /\ r.pc = "write" /\ IsRunning(g) /\ r.task \in {"status", "transition"}
      /\ run' = [run EXCEPT ![g] = n]
      /\ UNCHANGED <<issue, pulls, comments, posted, pending, acts, failures, quiet>>
      /\ board' = [board EXCEPT ![r.at] = card] /\ raced' = raced
      /\ settled' = IF r.task = "transition" /\ r.seen.status # board[r.at].status
                    THEN settled \ {r.at} ELSE settled
  BY DEF WriteStatus, Go, IsRunning
<1>b. /\ r \in Jobs /\ JobFits(g) /\ board \in [Issues -> Cards] /\ raced \subseteq Issues
      /\ run \in [Groups -> Jobs] /\ r.at \in Issues /\ 0 \notin Issues /\ board[r.at] \in Cards
      /\ quiet \subseteq Issues /\ settled \subseteq Issues
      /\ \A i \in Issues : board[i].status = "off" => board[i] = OffBoard
      /\ r.task = "transition" => NewStatus(r) \in {"In progress", "In review"}
  BY <1>a, JobOfGroup DEF PolicyInvariant, TypeOK
<1>c. /\ r.task = "status" => g \in Issues /\ r.at = g
      /\ r.task = "transition" => g \notin Issues
      /\ g \in Issues => r.resolving = {} /\ r.dates = {}
      /\ g \in Issues <=> g \notin PullRequests
  BY <1>a, <1>b, JobOfGroup DEF JobFits
<1>d. /\ r.task = "status" => NewStatus(r) = StateStatus(r.event)
      /\ NewStatus(r) \in {"Inbox", "Done", "No action", "In progress", "In review"}
  BY <1>a, <1>b, UnsetIsOff DEF NewStatus
<1>e. card \in Cards /\ card.status = NewStatus(r) /\ card.status # "off"
  BY <1>b, <1>d, PolicyAssumption DEF Card, Cards, Terminal
<1>h. /\ board' \in [Issues -> Cards] /\ board'[r.at] = card
      /\ \A i \in Issues \ {r.at} : board'[i] = board[i]
  BY <1>a, <1>b, <1>e
<1>1. /\ n \in Jobs /\ n.event = r.event /\ n.at = r.at /\ n.errors = r.errors
      /\ n.resolving = r.resolving /\ n.dates = r.dates
      /\ \/ r.task = "status" /\ n.pc = "item" /\ n.task = "membership"
         \/ r.task = "transition" /\ n.pc = "issue" /\ n.task = "transition"
  <2>1. CASE r.task = "status"
    <3>1. n = [r EXCEPT !.pc = "item", !.task = "membership", !.seen = OffBoard]
      BY <2>1
    <3> QED
      BY <2>1, <3>1, <1>b, NoRunIsAJob DEF Jobs
  <2>2. CASE r.task = "transition"
    <3>1. n = [r EXCEPT !.pc = "issue", !.seen = OffBoard]
      BY <2>2
    <3> QED
      BY <2>2, <3>1, <1>b, NoRunIsAJob DEF Jobs
  <2> QED
    BY <2>1, <2>2, <1>a
<1>2. run'[g] = n
  BY <1>a, <1>b
<1> HIDE DEF n, card
<1>3. JobFits(g)'
  BY <1>a, <1>b, <1>c, <1>1, <1>2 DEF JobFits
<1>4. \A i \in Issues : Fresh(g, i)'
  BY <1>1, <1>2 DEF Fresh
<1>5. \A i \in Issues : Auditing(g, i)' \/ (~Auditing(g, i) /\ ErrorsOf(i)' = ErrorsOf(i))
  <2> SUFFICES ASSUME NEW i \in Issues
               PROVE  Auditing(g, i)' \/ (~Auditing(g, i) /\ ErrorsOf(i)' = ErrorsOf(i))
    OBVIOUS
  <2>1. CASE i = r.at
    BY <2>1, <1>1, <1>2, <1>c DEF Auditing, IsRunning
  <2>2. CASE i # r.at
    <3>1. board'[i] = board[i]
      BY <2>2, <1>h
    <3> QED
      BY <2>2, <3>1, <1>a, <1>c DEF Auditing, ErrorsOf
  <2> QED
    BY <2>1, <2>2
<1>6. ASSUME NEW i \in settled', run[i].task # "status", Fits(i, board[i].status)
      PROVE  Fits(i, board'[i].status)
  <2>1. CASE i # r.at
    BY <2>1, <1>6, <1>a, <1>b, <1>h
  <2>2. CASE i = r.at
    <3>1. r.task = "transition" /\ r.seen.status = board[i].status
      BY <2>2, <1>6, <1>a, <1>c
    <3>2. NextStatus(r.seen, Command(r.event)) \in {"In progress", "In review"}
      BY <3>1, <1>b DEF NewStatus
    <3>3. board[i].status \notin Terminal
      BY <3>1, <3>2 DEF NextStatus, IsActive, active_statuses, Terminal
    <3>4. issue[i].state = "open"
      BY <3>3, <1>6 DEF Fits, Terminal
    <3> QED
      BY <2>2, <3>1, <3>4, <1>b, <1>e, <1>h DEF Fits, Terminal
  <2> QED
    BY <2>1, <2>2
<1>7. \A i \in Issues : /\ board'[i].status = "off" => board'[i] = OffBoard
                        /\ board[i].status # "off" => board'[i].status # "off"
  BY <1>b, <1>e, <1>h
<1>8. r.task = "status" => board'[g].status = StateStatus(r.event)
  BY <1>c, <1>d, <1>e, <1>h
<1>9. settled' \subseteq settled
  BY <1>a
<1> HIDE DEF r
<1> QED
  BY <1>a, <1>b, <1>h, <1>1, <1>3, <1>4, <1>5, <1>6, <1>7, <1>8, <1>9, JobStep DEF r

\* Writing a start date keeps the invariant.
LEMMA WriteDateKeeps ==
    ASSUME PolicyInvariant, NEW g \in Groups, WriteDate(g)
    PROVE  PolicyInvariant'
<1> DEFINE r == run[g]
           card == [board[r.at] EXCEPT !.start = g]
<1>a. /\ r.pc = "write" /\ IsRunning(g) /\ r.task = "date"
      /\ run' = [run EXCEPT ![g] = Continue(r)]
      /\ UNCHANGED <<issue, pulls, comments, posted, pending, acts, failures, quiet, settled>>
      /\ board' = [board EXCEPT ![r.at] = card] /\ raced' = raced
  BY DEF WriteDate, Go, IsRunning, history
<1>b. /\ r \in Jobs /\ JobFits(g) /\ board \in [Issues -> Cards] /\ raced \subseteq Issues
      /\ r.at \in Issues /\ board[r.at] \in Cards /\ quiet \subseteq Issues
      /\ g \in Issues <=> g \notin PullRequests
  BY <1>a, JobOfGroup DEF PolicyInvariant, TypeOK
<1>c. g \notin Issues /\ g \in PullRequests /\ board[r.at].status # "off"
  BY <1>a, <1>b DEF JobFits
<1>1. card \in Cards /\ card.status = board[r.at].status /\ card.priority = board[r.at].priority
  BY <1>b, <1>c DEF Cards
<1>2. board[r.at] # OffBoard
  BY <1>c DEF OffBoard, Card
<1>3. /\ board' \in [Issues -> Cards]
      /\ \A i \in Issues : board'[i].status = board[i].status /\ board'[i].priority = board[i].priority
      /\ \A i \in Issues : board[i] = OffBoard => board'[i] = OffBoard
  BY <1>a, <1>b, <1>1, <1>2
<1>4. \A i \in Issues : ~Auditing(g, i)
  BY <1>a, <1>c DEF Auditing
<1> HIDE DEF r, card
<1> QED
  BY <1>a, <1>b, <1>c, <1>3, <1>4, ContinueStep DEF r

\* Reading the Issue keeps the invariant.
LEMMA ReadIssueKeeps ==
    ASSUME PolicyInvariant, NEW g \in Groups, ReadIssue(g)
    PROVE  PolicyInvariant'
<1> DEFINE r == run[g]
           n == [r EXCEPT !.pc = "board", !.snapshot = issue[r.at]]
<1>a. /\ r.pc = "issue" /\ IsRunning(g) /\ run' = [run EXCEPT ![g] = n]
      /\ UNCHANGED <<issue, pulls, comments, posted, pending, acts, failures, quiet>>
      /\ board' = board /\ settled' = settled /\ raced' = raced
  BY DEF ReadIssue, Go, IsRunning, history
<1>b. /\ r \in Jobs /\ JobFits(g) /\ board \in [Issues -> Cards] /\ raced \subseteq Issues
      /\ run \in [Groups -> Jobs] /\ r.at \in Issues /\ 0 \notin Issues /\ issue[r.at] \in IssueStates
      /\ quiet \subseteq Issues /\ settled \subseteq Issues
      /\ \A i \in Issues : board[i].status = "off" => board[i] = OffBoard
  BY <1>a, JobOfGroup DEF PolicyInvariant, TypeOK
<1>1. /\ n \in Jobs /\ n.pc = "board" /\ n.task = r.task /\ n.event = r.event /\ n.at = r.at
      /\ n.resolving = r.resolving /\ n.dates = r.dates /\ n.errors = r.errors
      /\ n.snapshot = issue[r.at] /\ run'[g] = n
  BY <1>a, <1>b DEF Jobs
<1> HIDE DEF n
<1>2. JobFits(g)' /\ r.task # "status"
  BY <1>a, <1>b, <1>1 DEF JobFits
<1>3. \A i \in Issues : Fresh(g, i)'
  BY <1>a, <1>1 DEF Fresh
<1>4. \A i \in Issues : ErrorsOf(i)' = ErrorsOf(i) /\ (Auditing(g, i) => Auditing(g, i)')
  BY <1>a, <1>1 DEF Auditing, IsRunning, ErrorsOf
<1> HIDE DEF r
<1> QED
  BY <1>a, <1>b, <1>1, <1>2, <1>3, <1>4, JobStep DEF r

\* Reading the card and validating keeps the invariant.
LEMMA ReadBoardKeeps ==
    ASSUME PolicyInvariant, NEW g \in Groups, ReadBoard(g)
    PROVE  PolicyInvariant'
<1> DEFINE r == run[g]
           found == validate_issue(r.snapshot, board[r.at])
           n == [r EXCEPT !.pc = "list", !.snapshot = Unread, !.errors = found]
<1>a. /\ r.pc = "board" /\ IsRunning(g) /\ run' = [run EXCEPT ![g] = n]
      /\ UNCHANGED <<issue, pulls, comments, posted, pending, acts, failures, quiet>>
      /\ board' = board /\ settled' = settled /\ raced' = raced
  BY DEF ReadBoard, Go, IsRunning, history
<1>b. /\ r \in Jobs /\ JobFits(g) /\ board \in [Issues -> Cards] /\ raced \subseteq Issues
      /\ run \in [Groups -> Jobs] /\ r.at \in Issues /\ 0 \notin Issues
      /\ quiet \subseteq Issues /\ settled \subseteq Issues
      /\ \A i \in Issues : board[i].status = "off" => board[i] = OffBoard
  BY <1>a, JobOfGroup DEF PolicyInvariant, TypeOK
<1>c. found \in CommentText /\ found # Talk
  BY ErrorsAreTexts
<1>1. /\ n \in Jobs /\ n.pc = "list" /\ n.task = r.task /\ n.event = r.event /\ n.at = r.at
      /\ n.resolving = r.resolving /\ n.dates = r.dates /\ n.errors = found /\ run'[g] = n
  <2> HIDE DEF found
  <2> QED
    BY <1>a, <1>b, <1>c DEF Jobs
<1>3. \A i \in quiet : pending[i] = NoEvent => Fresh(g, i)'
  <2> SUFFICES ASSUME NEW i \in quiet, pending[i] = NoEvent PROVE Fresh(g, i)'
    OBVIOUS
  <2>1. r.at = i => r.snapshot = issue[i]
    BY <1>a DEF PolicyInvariant, AuditsFollow, Fresh
  <2>2. r.at = i => found = ErrorsOf(i)
    BY <2>1 DEF ErrorsOf
  <2>3. ErrorsOf(i)' = ErrorsOf(i)
    BY <1>a DEF ErrorsOf
  <2> HIDE DEF n, found
  <2> QED
    BY <2>2, <2>3, <1>1 DEF Fresh
<1> HIDE DEF n, found
<1>2. JobFits(g)' /\ r.task # "status"
  BY <1>a, <1>b, <1>c, <1>1 DEF JobFits
<1>4. \A i \in Issues : ErrorsOf(i)' = ErrorsOf(i) /\ (Auditing(g, i) => Auditing(g, i)')
  BY <1>a, <1>1 DEF Auditing, IsRunning, ErrorsOf
<1> HIDE DEF r
<1> QED
  BY <1>a, <1>b, <1>1, <1>2, <1>3, <1>4, JobStep DEF r

\* The audit of an Issue whose comments fit a page and that has one at most is
\* found, and nothing is found where there is none.
LEMMA ExistingIsTheAudit ==
    ASSUME TypeOK, CommentsNumbered, NEW i \in Issues
    PROVE  /\ Existing(i) \in Nat
           /\ Cardinality(comments[i]) <= PageSize /\ (\A c, d \in Audits(i) : c = d) =>
                IF Existing(i) = 0 THEN Audits(i) = {} ELSE \E c \in Audits(i) : c.id = Existing(i)
<1> DEFINE hits == {c.id : c \in {c \in Page(i) : c.text # Talk}}
<1>1. /\ comments[i] \in SUBSET [id : Nat, text : CommentText] /\ IsFiniteSet(comments[i])
      /\ posted[i] \in Nat /\ \A c \in comments[i] : c.id \in 1..posted[i]
  BY DEF TypeOK, CommentsNumbered
<1>2. /\ \A c \in comments[i] : c.id \in Nat \ {0}
      /\ Cardinality(comments[i]) \in Nat /\ PageSize \in Nat
  <2>1. \A c \in comments[i] : c.id \in Nat \ {0}
    BY <1>1
  <2>2. Cardinality(comments[i]) \in Nat
    BY <1>1, FS_CardinalityType
  <2> QED
    BY <2>1, <2>2, PolicyAssumption
<1>3. hits \in SUBSET Nat /\ 0 \notin hits
  BY <1>2 DEF Page
<1>4. Existing(i) = IF hits = {} THEN 0 ELSE Least(hits)
  BY DEF Existing
<1>5. hits # {} => Least(hits) \in hits
  BY <1>3, LeastElement
<1>6. ASSUME Cardinality(comments[i]) <= PageSize PROVE Page(i) = comments[i]
  <2> SUFFICES ASSUME NEW c \in comments[i]
               PROVE  Cardinality({e \in comments[i] : e.id < c.id}) < PageSize
    BY DEF Page
  <2> DEFINE older == {e \in comments[i] : e.id < c.id}
  <2>1. older \in SUBSET comments[i] /\ c \notin older
    BY <1>2
  <2> HIDE DEF older
  <2>2. Cardinality(older) \in Nat /\ Cardinality(older) <= Cardinality(comments[i])
        /\ Cardinality(comments[i]) # Cardinality(older)
    BY <1>1, <2>1, FS_Subset, FS_CardinalityType
  <2> QED
    BY <1>2, <1>6, <2>2 DEF older
<1>7. ASSUME Cardinality(comments[i]) <= PageSize PROVE hits = {c.id : c \in Audits(i)}
  BY <1>6, <1>7 DEF Audits
<1> HIDE DEF hits
<1>8. Existing(i) \in Nat /\ (hits = {} => Existing(i) = 0)
      /\ (hits # {} => Existing(i) # 0 /\ Existing(i) \in hits)
  <2>1. CASE hits = {}
    BY <1>4, <2>1
  <2>2. CASE hits # {}
    <3>1. Existing(i) = Least(hits)
      BY <1>4, <2>2
    <3> QED
      BY <1>3, <1>5, <2>2, <3>1
  <2> QED
    BY <2>1, <2>2
<1>9. ASSUME Cardinality(comments[i]) <= PageSize
      PROVE  IF Existing(i) = 0 THEN Audits(i) = {} ELSE \E c \in Audits(i) : c.id = Existing(i)
  <2>1. CASE hits = {}
    BY <1>7, <1>8, <1>9, <2>1
  <2>2. CASE hits # {}
    BY <1>7, <1>8, <1>9, <2>2
  <2> QED
    BY <2>1, <2>2
<1> QED
  BY <1>8, <1>9

\* Looking for the audit comment keeps the invariant.
LEMMA ListCommentsKeeps ==
    ASSUME PolicyInvariant, NEW g \in Groups, ListComments(g)
    PROVE  PolicyInvariant'
<1> DEFINE r == run[g]
           found == Existing(r.at)
           same == [id |-> found, text |-> r.errors] \in comments[r.at]
           n == [r EXCEPT !.pc = "comment", !.found = found]
<1>a. /\ r.pc = "list" /\ IsRunning(g)
      /\ run' = [run EXCEPT ![g] = IF same \/ (found = 0 /\ r.errors = {}) THEN Continue(r) ELSE n]
      /\ UNCHANGED <<issue, pulls, comments, posted, pending, acts, failures, quiet, settled>>
      /\ board' = board
      /\ raced' = IF \/ Cardinality(comments[r.at]) > PageSize
                     \/ \E h \in Groups \ {g} : run[h].at = r.at /\ run[h].pc = "comment"
                  THEN raced \union {r.at} ELSE raced
  BY DEF ListComments, Go, IsRunning
<1>b. /\ r \in Jobs /\ JobFits(g) /\ board \in [Issues -> Cards] /\ raced \subseteq Issues
      /\ run \in [Groups -> Jobs] /\ r.at \in Issues /\ 0 \notin Issues
      /\ quiet \subseteq Issues /\ settled \subseteq Issues
      /\ \A i \in Issues : board[i].status = "off" => board[i] = OffBoard
  BY <1>a, JobOfGroup DEF PolicyInvariant, TypeOK
<1>c. /\ found \in Nat
      /\ Cardinality(comments[r.at]) <= PageSize /\ (\A c, d \in Audits(r.at) : c = d) =>
           IF found = 0 THEN Audits(r.at) = {} ELSE \E c \in Audits(r.at) : c.id = found
  BY <1>b, ExistingIsTheAudit DEF PolicyInvariant
<1>d. Cardinality(comments[r.at]) \in Nat /\ PageSize \in Nat
  BY <1>b, FS_CardinalityType, PolicyAssumption DEF PolicyInvariant, CommentsNumbered
<1>e. raced \subseteq raced' /\ raced' \subseteq Issues
  BY <1>a, <1>b
<1>f. r.at \notin raced' =>
        /\ \A h \in Groups \ {g} : ~Writing(h, r.at)
        /\ \A c, d \in Audits(r.at) : c = d
        /\ IF found = 0 THEN Audits(r.at) = {} ELSE \E c \in Audits(r.at) : c.id = found
  <2> SUFFICES ASSUME r.at \notin raced'
               PROVE  /\ \A h \in Groups \ {g} : ~Writing(h, r.at)
                      /\ \A c, d \in Audits(r.at) : c = d
                      /\ IF found = 0 THEN Audits(r.at) = {} ELSE \E c \in Audits(r.at) : c.id = found
    OBVIOUS
  <2>1. /\ ~(Cardinality(comments[r.at]) > PageSize) /\ r.at \notin raced
        /\ \A h \in Groups \ {g} : ~(run[h].at = r.at /\ run[h].pc = "comment")
    BY <1>a, <1>b
  <2>2. \A c, d \in Audits(r.at) : c = d
    BY <2>1, <1>b DEF PolicyInvariant, AuditsAreSole
  <2> QED
    BY <2>1, <2>2, <1>c, <1>d DEF Writing
<1>g. \A i \in quiet : pending[i] = NoEvent /\ i = r.at => r.errors = ErrorsOf(i)
  BY <1>a DEF PolicyInvariant, AuditsFollow, Fresh
<1>h. /\ r.task # "status"
      /\ \A i \in Issues : Auditing(g, i) => i = r.at
      /\ g \in Issues => r.resolving = {} /\ r.dates = {}
  BY <1>a, <1>b DEF JobFits, Auditing
<1>1. CASE same \/ (found = 0 /\ r.errors = {})
  <2>1. run' = [run EXCEPT ![g] = Continue(r)]
    BY <1>1, <1>a
  <2>2. ASSUME NEW i \in quiet, pending[i] = NoEvent, i \notin raced', Auditing(g, i)
        PROVE  AuditMatches(i)
    <3>1. i = r.at /\ r.errors = ErrorsOf(i)
      BY <2>2, <1>b, <1>g, <1>h
    <3>2. CASE same
      <4> DEFINE audit == [id |-> found, text |-> r.errors]
      <4>1. audit \in Audits(i) /\ audit.text = r.errors /\ r.errors # {}
        BY <3>1, <3>2, <1>b DEF Audits, JobFits, PolicyInvariant, TypeOK
      <4>2. Audits(i) = {audit}
        BY <4>1, <3>1, <2>2, <1>f
      <4> HIDE DEF audit
      <4> QED
        BY <4>1, <4>2, <3>1 DEF AuditMatches
    <3>3. CASE found = 0 /\ r.errors = {}
      BY <3>1, <3>3, <2>2, <1>f DEF AuditMatches
    <3> QED
      BY <3>2, <3>3, <1>1
  <2> HIDE DEF r
  <2> QED
    BY <2>1, <2>2, <1>a, <1>b, <1>e, <1>h, ContinueStep DEF r
<1>2. CASE ~(same \/ (found = 0 /\ r.errors = {}))
  <2>1. run' = [run EXCEPT ![g] = n]
    BY <1>2, <1>a
  <2>2. /\ n \in Jobs /\ n.pc = "comment" /\ n.task = r.task /\ n.event = r.event /\ n.at = r.at
        /\ n.resolving = r.resolving /\ n.dates = r.dates /\ n.errors = r.errors /\ n.found = found
        /\ run'[g] = n
    BY <2>1, <1>b, <1>c DEF Jobs
  <2>3. found # 0 \/ r.errors # {}
    BY <1>2
  <2> HIDE DEF n, found
  <2>4. JobFits(g)'
    BY <1>a, <1>b, <2>2, <2>3 DEF JobFits
  <2>5. \A i \in quiet : pending[i] = NoEvent => Fresh(g, i)'
    <3> SUFFICES ASSUME NEW i \in quiet, pending[i] = NoEvent PROVE Fresh(g, i)'
      OBVIOUS
    <3>1. ErrorsOf(i)' = ErrorsOf(i)
      BY <1>a DEF ErrorsOf
    <3> QED
      BY <3>1, <2>2, <1>g DEF Fresh
  <2>6. \A i \in Issues : ErrorsOf(i)' = ErrorsOf(i) /\ (Auditing(g, i) => Auditing(g, i)')
    BY <1>a, <2>2 DEF Auditing, IsRunning, ErrorsOf
  <2>7. settled' \subseteq settled
    BY <1>a
  <2>8. n.at \notin raced' =>
          /\ \A h \in Groups \ {g} : ~Writing(h, n.at)
          /\ IF n.found = 0 THEN Audits(n.at) = {} ELSE \E c \in Audits(n.at) : c.id = n.found
    BY <1>f, <2>2
  <2> HIDE DEF r
  <2> QED
    BY <1>a, <1>b, <1>e, <1>h, <2>1, <2>2, <2>4, <2>5, <2>6, <2>7, <2>8, JobStep DEF r
<1> QED
  BY <1>1, <1>2

\* A new comment takes the next number; it adds an audit unless it is talk.
LEMMA PostFits ==
    ASSUME TypeOK, CommentsNumbered, NEW i \in Issues, NEW text \in CommentText, text # {},
           Post(i, text)
    PROVE  /\ posted' \in [Issues -> Nat] /\ comments' \in [Issues -> SUBSET [id : Nat, text : CommentText]]
           /\ \A j \in Issues : \A c \in comments'[j] : c.id \in 1..posted'[j] /\ c.text # {}
           /\ CommentsNumbered'
           /\ \A j \in Issues \ {i} : Audits(j)' = Audits(j)
           /\ Audits(i)' = Audits(i) \union (IF text = Talk THEN {} ELSE {[id |-> posted[i] + 1, text |-> text]})
<1> DEFINE new == [id |-> posted[i] + 1, text |-> text]
<1>1. /\ posted \in [Issues -> Nat] /\ comments \in [Issues -> SUBSET [id : Nat, text : CommentText]]
      /\ \A j \in Issues : \A c \in comments[j] : c.id \in 1..posted[j] /\ c.text # {}
  BY DEF TypeOK
<1>2. /\ posted' = [posted EXCEPT ![i] = posted[i] + 1]
      /\ comments' = [comments EXCEPT ![i] = comments[i] \union {new}]
  BY DEF Post
<1>3. new \in [id : Nat, text : CommentText] /\ new.id = posted[i] + 1 /\ new.text = text
  BY <1>1
<1> HIDE DEF new
<1>4. /\ posted'[i] = posted[i] + 1 /\ comments'[i] = comments[i] \union {new}
      /\ \A j \in Issues \ {i} : posted'[j] = posted[j] /\ comments'[j] = comments[j]
  BY <1>1, <1>2
<1>5. posted' \in [Issues -> Nat] /\ comments' \in [Issues -> SUBSET [id : Nat, text : CommentText]]
  BY <1>1, <1>2, <1>3
<1>6. ASSUME NEW j \in Issues, NEW c \in comments'[j] PROVE c.id \in 1..posted'[j] /\ c.text # {}
  <2>1. posted[j] \in Nat /\ (j = i => posted'[j] = posted[j] + 1) /\ (j # i => posted'[j] = posted[j])
    BY <1>1, <1>4
  <2>2. CASE c \in comments[j]
    BY <2>1, <2>2, <1>1
  <2>3. CASE j = i /\ c = new
    BY <2>1, <2>3, <1>3
  <2> QED
    BY <2>2, <2>3, <1>4
<1>7. ASSUME NEW j \in Issues
      PROVE  IsFiniteSet(comments'[j]) /\ \A c, d \in comments'[j] : c.id = d.id => c = d
  <2>1. IsFiniteSet(comments[j]) /\ \A c, d \in comments[j] : c.id = d.id => c = d
    BY DEF CommentsNumbered
  <2>2. CASE j # i
    BY <2>1, <2>2, <1>4
  <2>3. CASE j = i
    <3>1. IsFiniteSet(comments'[j])
      BY <2>1, <2>3, <1>4, FS_AddElement
    <3>2. posted[i] \in Nat /\ \A c \in comments[i] : c.id # new.id
      BY <1>1, <1>3
    <3> QED
      BY <2>1, <2>3, <1>4, <3>1, <3>2
  <2> QED
    BY <2>2, <2>3
<1>8. CommentsNumbered'
  BY <1>7 DEF CommentsNumbered
<1>9. \A j \in Issues \ {i} : Audits(j)' = Audits(j)
  BY <1>4 DEF Audits
<1>10. Audits(i)' = Audits(i) \union (IF text = Talk THEN {} ELSE {new})
  <2>1. Audits(i)' = {c \in comments[i] \union {new} : c.text # Talk}
    BY <1>4 DEF Audits
  <2> QED
    BY <2>1, <1>3 DEF Audits
<1> QED
  BY <1>5, <1>6, <1>8, <1>9, <1>10 DEF new

\* An audit that is replaced leaves nothing of its number but the new one.
LEMMA ReplacedFits ==
    ASSUME TypeOK, CommentsNumbered, NEW i \in Issues, NEW found \in Nat, NEW errors \in CommentText,
           errors # Talk, \E c \in comments[i] : c.id = found,
           comments' = [comments EXCEPT ![i] = Replaced(i, found, errors)], posted' = posted
    PROVE  /\ comments' \in [Issues -> SUBSET [id : Nat, text : CommentText]]
           /\ \A j \in Issues : \A c \in comments'[j] : c.id \in 1..posted'[j] /\ c.text # {}
           /\ CommentsNumbered'
           /\ \A j \in Issues \ {i} : Audits(j)' = Audits(j)
           /\ Audits(i)' = {c \in Audits(i) : c.id # found} \union
                           (IF errors = {} THEN {} ELSE {[id |-> found, text |-> errors]})
<1> DEFINE new  == [id |-> found, text |-> errors]
           rest == {c \in comments[i] : c.id # found}
<1>1. /\ comments \in [Issues -> SUBSET [id : Nat, text : CommentText]]
      /\ \A j \in Issues : \A c \in comments[j] : c.id \in 1..posted[j] /\ c.text # {}
  BY DEF TypeOK
<1>2. Replaced(i, found, errors) = rest \union (IF errors = {} THEN {} ELSE {new})
  BY DEF Replaced
<1>3. new \in [id : Nat, text : CommentText] /\ new.id = found /\ new.text = errors /\ found \in 1..posted[i]
  BY <1>1
<1> HIDE DEF new
<1>4. /\ comments'[i] = rest \union (IF errors = {} THEN {} ELSE {new})
      /\ \A j \in Issues \ {i} : comments'[j] = comments[j]
  BY <1>1, <1>2
<1>5. comments' \in [Issues -> SUBSET [id : Nat, text : CommentText]]
  <2>1. Replaced(i, found, errors) \in SUBSET [id : Nat, text : CommentText]
    BY <1>1, <1>2, <1>3
  <2> HIDE DEF rest
  <2> QED
    BY <1>1, <2>1
<1>6. ASSUME NEW j \in Issues, NEW c \in comments'[j] PROVE c.id \in 1..posted'[j] /\ c.text # {}
  <2>1. CASE c \in comments[j]
    BY <2>1, <1>1
  <2>2. CASE j = i /\ c = new /\ errors # {}
    BY <2>2, <1>3
  <2> QED
    BY <2>1, <2>2, <1>4
<1>7. ASSUME NEW j \in Issues
      PROVE  IsFiniteSet(comments'[j]) /\ \A c, d \in comments'[j] : c.id = d.id => c = d
  <2>1. IsFiniteSet(comments[j]) /\ \A c, d \in comments[j] : c.id = d.id => c = d
    BY DEF CommentsNumbered
  <2>2. CASE j # i
    BY <2>1, <2>2, <1>4
  <2>3. CASE j = i
    <3>1. IsFiniteSet(rest)
      BY <2>1, <2>3, FS_Subset
    <3>2. IsFiniteSet(rest \union {new})
      BY <3>1, FS_AddElement
    <3>3. IsFiniteSet(comments'[j])
      BY <3>1, <3>2, <2>3, <1>4
    <3>4. \A c \in rest : c \in comments[i] /\ c.id # new.id
      BY <1>3
    <3> QED
      BY <2>1, <2>3, <1>4, <3>3, <3>4
  <2> QED
    BY <2>2, <2>3
<1>8. CommentsNumbered'
  BY <1>7 DEF CommentsNumbered
<1>9. \A j \in Issues \ {i} : Audits(j)' = Audits(j)
  BY <1>4 DEF Audits
<1>10. Audits(i)' = {c \in Audits(i) : c.id # found} \union (IF errors = {} THEN {} ELSE {new})
  <2>1. Audits(i)' = {c \in rest \union (IF errors = {} THEN {} ELSE {new}) : c.text # Talk}
    BY <1>4 DEF Audits
  <2> QED
    BY <2>1, <1>3 DEF Audits
<1> QED
  BY <1>5, <1>6, <1>8, <1>9, <1>10 DEF new

\* A job that fails keeps the invariant: what it leaves undone is no longer
\* promised.
LEMMA AbortedKeeps ==
    ASSUME PolicyInvariant, NEW g \in Groups, Aborted(g), comments' = comments, posted' = posted,
           failures' \in 0..MaxFailures
    PROVE  PolicyInvariant'
<1> USE DEF PolicyInvariant
<1>a. /\ run' = [run EXCEPT ![g] = NoRun] /\ quiet' = {} /\ settled' = settled \ {g}
      /\ UNCHANGED <<issue, board, pulls, pending, acts, raced>>
  BY DEF Aborted, Go
<1>b. /\ run \in [Groups -> Jobs] /\ run' \in [Groups -> Jobs] /\ run'[g] = NoRun
      /\ \A h \in Groups \ {g} : run'[h] = run[h]
  BY <1>a, JobOfGroup, NoRunIsAJob
<1>c. NoRun.pc = "idle" /\ NoRun.at = 0 /\ NoRun.task = "none" /\ NoRun.errors = {}
  BY DEF NoRun
<1>1. TypeOK'
  <2>1. ASSUME NEW h \in Groups
        PROVE  /\ run'[h].pc \in {"idle", "pull"} <=> run'[h].at = 0
               /\ run'[h].pc = "write" /\ run'[h].task = "transition" =>
                    NewStatus(run'[h]) \in {"In progress", "In review"}
    BY <1>b, <1>c DEF TypeOK
  <2>2. \A h \in Groups : NewStatus(run[h])' = NewStatus(run'[h])
    BY DEF NewStatus
  <2> QED
    BY <1>a, <1>b, <2>1, <2>2 DEF TypeOK
<1>2. JobsFit'
  <2>1. JobFits(g)'
    BY <1>b, <1>c, PolicyAssumption DEF JobFits, Talk
  <2>2. ASSUME NEW h \in Groups \ {g} PROVE JobFits(h)'
    BY <1>a, <1>b DEF JobFits, JobsFit
  <2> QED
    BY <2>1, <2>2 DEF JobsFit
<1>3. BoardFollows'
  <2> SUFFICES ASSUME NEW i \in settled'
               PROVE  IF IsStateEvent(pending[i]) THEN Fits(i, StateStatus(pending[i]))
                      ELSE IF run'[i].task = "status" THEN Fits(i, StateStatus(run'[i].event))
                      ELSE Fits(i, board[i].status)
    BY <1>a DEF BoardFollows, Fits
  <2>1. i \in settled /\ i \in Groups \ {g}
    BY <1>a DEF TypeOK, Groups
  <2> QED
    BY <2>1, <1>b DEF BoardFollows
<1>4. CommentsNumbered'
  BY DEF CommentsNumbered
<1>5. AuditsAreSole'
  <2> SUFFICES ASSUME NEW i \in Issues \ raced'
               PROVE  /\ \A c, d \in Audits(i)' : c = d
                      /\ \A h, k \in Groups : Writing(h, i)' /\ Writing(k, i)' => h = k
                      /\ \A h \in Groups : Writing(h, i)' =>
                           IF run'[h].found = 0 THEN Audits(i)' = {}
                           ELSE \E c \in Audits(i)' : c.id = run'[h].found
    BY DEF AuditsAreSole
  <2>1. Audits(i)' = Audits(i) /\ i \in Issues \ raced
    BY <1>a DEF Audits
  <2>2. \A h \in Groups : Writing(h, i)' => h # g /\ Writing(h, i)
    BY <1>b, <1>c DEF Writing
  <2>3. /\ \A c, d \in Audits(i) : c = d
        /\ \A h, k \in Groups : Writing(h, i) /\ Writing(k, i) => h = k
        /\ \A h \in Groups : Writing(h, i) =>
             IF run[h].found = 0 THEN Audits(i) = {} ELSE \E c \in Audits(i) : c.id = run[h].found
    BY <2>1 DEF AuditsAreSole
  <2> QED
    BY <2>1, <2>2, <2>3, <1>b
<1>6. AuditsFollow'
  BY <1>a DEF AuditsFollow
<1> QED
  BY <1>1, <1>2, <1>3, <1>4, <1>5, <1>6

\* A failing call keeps the invariant.
LEMMA CallFailsKeeps ==
    ASSUME PolicyInvariant, NEW g \in Groups, CallFails(g)
    PROVE  PolicyInvariant'
<1>1. failures \in 0..MaxFailures /\ failures' = failures + 1 /\ failures < MaxFailures /\ MaxFailures \in Nat
  BY PolicyAssumption DEF CallFails, PolicyInvariant, TypeOK
<1>2. failures' \in 0..MaxFailures
  BY <1>1
<1>3. Aborted(g) /\ comments' = comments /\ posted' = posted
  BY DEF CallFails, Aborted
<1> QED
  BY <1>2, <1>3, AbortedKeeps

\* Writing the audit comment keeps the invariant: the Issue is left with the one
\* audit the job has computed.
LEMMA WriteCommentKeeps ==
    ASSUME PolicyInvariant, NEW g \in Groups, WriteComment(g)
    PROVE  PolicyInvariant'
<1> DEFINE r    == run[g]
           n    == Continue(r)
           gone == r.found # 0 /\ \A c \in comments[r.at] : c.id # r.found
<1>t. TypeOK /\ JobsFit /\ BoardFollows /\ CommentsNumbered /\ AuditsAreSole /\ AuditsFollow
  BY DEF PolicyInvariant
<1>1. CASE gone /\ Aborted(g) /\ failures' = failures
  <2>1. comments' = comments /\ posted' = posted /\ failures' \in 0..MaxFailures
    BY <1>1, <1>t DEF Aborted, TypeOK
  <2> QED
    BY <1>1, <2>1, AbortedKeeps
<1>2. CASE /\ ~gone
           /\ IF r.found = 0 THEN Post(r.at, r.errors)
              ELSE /\ comments' = [comments EXCEPT ![r.at] = Replaced(r.at, r.found, r.errors)]
                   /\ UNCHANGED posted
           /\ Go(g, Continue(r))
           /\ UNCHANGED <<issue, board, pulls, pending, acts, failures, history>>
  <2>a. /\ r.pc = "comment" /\ IsRunning(g) /\ run' = [run EXCEPT ![g] = n]
        /\ UNCHANGED <<issue, pulls, pending, acts, failures, quiet, board, settled, raced>>
    BY <1>2 DEF WriteComment, Go, IsRunning, history
  <2>b. /\ r \in Jobs /\ JobFits(g) /\ run \in [Groups -> Jobs] /\ r.at \in Issues /\ r.errors \in CommentText
        /\ r.found \in Nat /\ r.errors # Talk /\ (r.found # 0 \/ r.errors # {})
        /\ quiet \subseteq Issues /\ settled \subseteq Issues
        /\ board \in [Issues -> Cards]
    BY <2>a, <1>t, JobOfGroup, JobFields DEF TypeOK, JobFits
  <2>c. /\ r.task # "status"
        /\ \A i \in Issues : Auditing(g, i) => i = r.at
        /\ g \in Issues => r.resolving = {} /\ r.dates = {}
    BY <2>a, <2>b DEF JobFits, Auditing
  <2>d. /\ n \in Jobs /\ JobFits(g)'
        /\ n.pc \in {"idle", "pull"} <=> n.at = 0
        /\ n.pc \in {"idle", "context", "item"} /\ n.task # "status"
        /\ \A i \in Issues : Fresh(g, i)'
    <3> HIDE DEF r
    <3> QED
      BY <2>a, <2>b, <2>c, ContinuedJobFits
  <2> HIDE DEF n
  <2>e. run' \in [Groups -> Jobs] /\ run'[g] = n /\ \A h \in Groups \ {g} : run'[h] = run[h]
    BY <2>a, <2>b, <2>d
  <2>p. PICK k \in Issues, e \in CommentText, f \in Nat : k = r.at /\ e = r.errors /\ f = r.found
    BY <2>b
  <2>f. /\ posted' \in [Issues -> Nat] /\ comments' \in [Issues -> SUBSET [id : Nat, text : CommentText]]
        /\ \A j \in Issues : \A c \in comments'[j] : c.id \in 1..posted'[j] /\ c.text # {}
        /\ CommentsNumbered'
        /\ \A j \in Issues \ {k} : Audits(j)' = Audits(j)
        /\ k \notin raced =>
             IF e = {} THEN Audits(k)' = {}
             ELSE \E c : Audits(k)' = {c} /\ c.text = e
    <3>1. k \notin raced =>
            /\ \A c, d \in Audits(k) : c = d
            /\ IF f = 0 THEN Audits(k) = {} ELSE \E c \in Audits(k) : c.id = f
      BY <2>a, <2>b, <2>p, <1>t DEF AuditsAreSole, Writing
    <3>2. CASE f = 0
      <4>1. Post(k, e) /\ e # {}
        BY <3>2, <1>2, <2>b, <2>p
      <4>2. /\ posted' \in [Issues -> Nat] /\ comments' \in [Issues -> SUBSET [id : Nat, text : CommentText]]
            /\ \A j \in Issues : \A c \in comments'[j] : c.id \in 1..posted'[j] /\ c.text # {}
            /\ CommentsNumbered'
            /\ \A j \in Issues \ {k} : Audits(j)' = Audits(j)
            /\ Audits(k)' = Audits(k) \union
                  (IF e = Talk THEN {} ELSE {[id |-> posted[k] + 1, text |-> e]})
        BY <4>1, <1>t, PostFits
      <4> DEFINE new == [id |-> posted[k] + 1, text |-> e]
      <4>3. new.text = e
        OBVIOUS
      <4>4. Audits(k)' = Audits(k) \union {new}
        BY <4>2, <2>b, <2>p
      <4> HIDE DEF new
      <4>5. k \notin raced => Audits(k)' = {new}
        BY <3>1, <3>2, <4>4
      <4> QED
        BY <4>1, <4>2, <4>3, <4>5
    <3>3. CASE f # 0
      <4>1. /\ comments' = [comments EXCEPT ![k] = Replaced(k, f, e)] /\ posted' = posted
            /\ \E c \in comments[k] : c.id = f
        BY <3>3, <1>2, <2>p
      <4>2. /\ comments' \in [Issues -> SUBSET [id : Nat, text : CommentText]]
            /\ \A j \in Issues : \A c \in comments'[j] : c.id \in 1..posted'[j] /\ c.text # {}
            /\ CommentsNumbered'
            /\ \A j \in Issues \ {k} : Audits(j)' = Audits(j)
            /\ Audits(k)' = {c \in Audits(k) : c.id # f} \union
                  (IF e = {} THEN {} ELSE {[id |-> f, text |-> e]})
        <5>1. e # Talk
          BY <2>b, <2>p
        <5> QED
          BY <4>1, <5>1, <1>t, ReplacedFits
      <4> DEFINE new == [id |-> f, text |-> e]
      <4>3. new.text = e
        OBVIOUS
      <4> HIDE DEF new
      <4>4. k \notin raced => {c \in Audits(k) : c.id # f} = {}
        BY <3>1, <3>3
      <4>5. k \notin raced => Audits(k)' = IF e = {} THEN {} ELSE {new}
        BY <4>2, <4>4 DEF new
      <4>6. posted' \in [Issues -> Nat]
        BY <4>1, <1>t DEF TypeOK
      <4> QED
        BY <4>2, <4>3, <4>5, <4>6
    <3> QED
      BY <3>2, <3>3
  <2>1. TypeOK'
    <3>1. ASSUME NEW h \in Groups
          PROVE  /\ run'[h].pc \in {"idle", "pull"} <=> run'[h].at = 0
                 /\ run'[h].pc = "write" /\ run'[h].task = "transition" =>
                      NewStatus(run'[h]) \in {"In progress", "In review"}
      BY <1>t, <2>d, <2>e DEF TypeOK
    <3>2. \A h \in Groups : NewStatus(run[h])' = NewStatus(run'[h])
      BY DEF NewStatus
    <3> HIDE DEF r
    <3> QED
      BY <1>t, <2>a, <2>e, <2>f, <3>1, <3>2 DEF TypeOK
  <2>2. JobsFit'
    <3> SUFFICES ASSUME NEW h \in Groups \ {g} PROVE JobFits(h)'
      BY <2>d DEF JobsFit
    <3>1. JobFits(h)
      BY <1>t DEF JobsFit
    <3> QED
      BY <3>1, <2>a, <2>e DEF JobFits
  <2>3. BoardFollows'
    <3> SUFFICES ASSUME NEW i \in settled
                 PROVE  IF IsStateEvent(pending[i]) THEN Fits(i, StateStatus(pending[i]))
                        ELSE IF run'[i].task = "status" THEN Fits(i, StateStatus(run'[i].event))
                        ELSE Fits(i, board[i].status)
      BY <2>a DEF BoardFollows, Fits
    <3>1. i \in Groups
      BY <2>b DEF Groups
    <3> QED
      BY <3>1, <1>t, <2>c, <2>d, <2>e DEF BoardFollows
  <2>5. AuditsAreSole'
    <3> SUFFICES ASSUME NEW i \in Issues \ raced
                 PROVE  /\ \A c, d \in Audits(i)' : c = d
                        /\ \A h, l \in Groups : Writing(h, i)' /\ Writing(l, i)' => h = l
                        /\ \A h \in Groups : Writing(h, i)' =>
                             IF run'[h].found = 0 THEN Audits(i)' = {}
                             ELSE \E c \in Audits(i)' : c.id = run'[h].found
      BY <2>a DEF AuditsAreSole
    <3>1. \A h \in Groups : Writing(h, i)' => h # g /\ Writing(h, i)
      BY <2>d, <2>e DEF Writing
    <3>2. /\ \A c, d \in Audits(i) : c = d
          /\ \A h, l \in Groups : Writing(h, i) /\ Writing(l, i) => h = l
          /\ \A h \in Groups : Writing(h, i) =>
               IF run[h].found = 0 THEN Audits(i) = {} ELSE \E c \in Audits(i) : c.id = run[h].found
      BY <1>t DEF AuditsAreSole
    <3>3. CASE i # k
      BY <3>1, <3>2, <3>3, <2>e, <2>f
    <3>4. CASE i = k
      <4>1. Writing(g, i)
        BY <3>4, <2>a, <2>p DEF Writing
      <4>2. \A h \in Groups : ~Writing(h, i)'
        BY <3>1, <3>2, <4>1
      <4> QED
        BY <3>4, <4>2, <2>f, <2>p
    <3> QED
      BY <3>3, <3>4
  <2>6. AuditsFollow'
    <3>1. quiet # {} => \A h, l \in Groups : IsRunning(h) /\ IsRunning(l) => h = l
      BY <1>t DEF AuditsFollow
    <3>2. \A h \in Groups : IsRunning(h)' => IsRunning(h)
      BY <2>a, <2>e DEF IsRunning
    <3> SUFFICES ASSUME NEW i \in quiet, pending[i] = NoEvent
                 PROVE  /\ \A h \in Groups : Fresh(h, i)'
                        /\ i \in raced \/ AuditMatches(i)'
      BY <3>1, <3>2, <2>a DEF AuditsFollow
    <3>3. ASSUME NEW h \in Groups \ {g} PROVE Fresh(h, i)'
      BY <3>1, <2>a, <2>e DEF IsRunning, Fresh
    <3>4. ErrorsOf(i)' = ErrorsOf(i)
      BY <2>a DEF ErrorsOf
    <3>a. AuditMatches(i)' <=> {c.text : c \in Audits(i)'} = {ErrorsOf(i)} \ {{}}
      BY <3>4 DEF AuditMatches
    <3>5. CASE i = k
      <4>1. e = ErrorsOf(i)
        BY <3>5, <1>t, <2>a, <2>p DEF AuditsFollow, Fresh
      <4>2. ASSUME e = {}, i \notin raced PROVE AuditMatches(i)'
        <5>1. Audits(i)' = {}
          BY <4>2, <3>5, <2>f
        <5> QED
          <6>1. {c.text : c \in Audits(i)'} = {}
            BY <5>1
          <6>2. {ErrorsOf(i)} \ {{}} = {}
            BY <4>1, <4>2
          <6> QED
            BY <6>1, <6>2, <3>a
      <4>3. ASSUME e # {}, i \notin raced PROVE AuditMatches(i)'
        <5>1. PICK c : Audits(i)' = {c} /\ c.text = e
          BY <4>3, <3>5, <2>f
        <5> QED
          <6>1. {d.text : d \in Audits(i)'} = {c.text}
            BY <5>1
          <6>2. {ErrorsOf(i)} \ {{}} = {c.text}
            BY <4>1, <4>3, <5>1
          <6> QED
            BY <6>1, <6>2, <3>a
      <4>4. i \in raced \/ AuditMatches(i)'
        BY <4>2, <4>3
      <4> QED
        BY <4>4, <3>3, <2>d, <2>b
    <3>6. CASE i # k
      <4>1. ~\E h \in Groups : Auditing(h, i)
        BY <3>1, <3>6, <2>a, <2>b, <2>c, <2>p DEF Auditing
      <4>2. i \in raced \/ AuditMatches(i)
        BY <4>1, <1>t DEF AuditsFollow
      <4>3. Audits(i)' = Audits(i)
        BY <3>6, <2>b, <2>f
      <4>4. AuditMatches(i) => AuditMatches(i)'
        BY <4>3, <3>4 DEF AuditMatches
      <4> QED
        BY <4>2, <4>4, <3>3, <2>d, <2>b
    <3> QED
      BY <3>5, <3>6
  <2> QED
    BY <2>1, <2>2, <2>3, <2>f, <2>5, <2>6 DEF PolicyInvariant
<1> QED
  BY <1>1, <1>2 DEF WriteComment

\* Starting a job keeps the invariant.
LEMMA StartKeeps ==
    ASSUME PolicyInvariant, NEW g \in Groups, Start(g)
    PROVE  PolicyInvariant'
<1> DEFINE e == pending[g]
           r == [NoRun EXCEPT !.event = e, !.at = IF g \in Issues THEN g ELSE 0]
           n == IF g \in Issues
                THEN IF IsStateEvent(e) THEN [r EXCEPT !.pc = "item", !.task = "status"]
                                        ELSE [r EXCEPT !.pc = "item", !.task = "membership"]
                ELSE IF Command(e) = "none" THEN NoRun ELSE [r EXCEPT !.pc = "pull"]
<1>t. TypeOK /\ JobsFit /\ BoardFollows /\ CommentsNumbered /\ AuditsAreSole /\ AuditsFollow
  BY DEF PolicyInvariant
<1>a. /\ ~IsRunning(g) /\ e # NoEvent /\ pending' = [pending EXCEPT ![g] = NoEvent]
      /\ run' = [run EXCEPT ![g] = n]
      /\ quiet' = IF Alone(g) THEN quiet \union ({g} \intersect Issues) ELSE {}
      /\ UNCHANGED <<issue, board, pulls, comments, posted, acts, failures, settled, raced>>
  BY DEF Start, Go
<1>b. /\ e \in Events /\ run \in [Groups -> Jobs] /\ pending \in [Groups -> Events] /\ 0 \notin Issues
      /\ quiet \subseteq Issues /\ settled \subseteq Issues /\ Issues \subseteq Groups
      /\ g \in Issues <=> g \notin PullRequests
  BY <1>t, JobOfGroup, PolicyAssumption DEF TypeOK, Groups
<1>c. /\ NoRun.pc = "idle" /\ NoRun.at = 0 /\ NoRun.task = "none" /\ NoRun.errors = {} /\ NoRun.found = 0
      /\ NoRun.resolving = {} /\ NoRun.dates = {} /\ NoRun \in Jobs /\ {} # Talk
  BY NoRunIsAJob DEF NoRun, Talk
<1>d. /\ r \in Jobs /\ r.event = e /\ r.at = (IF g \in Issues THEN g ELSE 0) /\ r.pc = "idle" /\ r.task = "none"
      /\ r.errors = {} /\ r.found = 0 /\ r.resolving = {} /\ r.dates = {}
  <2> DEFINE place == IF g \in Issues THEN g ELSE 0
  <2>0. place \in Issues \union {0}
    OBVIOUS
  <2> HIDE DEF place, e
  <2>1. r = [pc |-> "idle", task |-> "none", event |-> e, at |-> place,
             resolving |-> {}, dates |-> {}, seen |-> OffBoard, snapshot |-> Unread, errors |-> {}, found |-> 0]
    <3>1. r = [NoRun EXCEPT !.event = e, !.at = place]
      BY DEF place
    <3> HIDE DEF r
    <3> QED
      BY <3>1 DEF NoRun
  <2> HIDE DEF r
  <2>2. r \in Jobs /\ r.at = (IF g \in Issues THEN g ELSE 0)
    BY <2>0, <2>1, <1>b, NoRunIsAJob DEF Jobs, place
  <2> QED
    BY <2>1, <2>2
<1> HIDE DEF r, e
<1>1. /\ n \in Jobs /\ n.errors = {} /\ n.found = 0 /\ n.resolving = {} /\ n.dates = {}
      /\ \/ /\ g \in Issues /\ n.at = g /\ n.pc = "item" /\ n.event = e
            /\ n.task = IF IsStateEvent(e) THEN "status" ELSE "membership"
         \/ g \notin Issues /\ n = NoRun
         \/ g \notin Issues /\ n.pc = "pull" /\ n.at = 0 /\ n.task = "none"
  <2>1. CASE g \in Issues /\ IsStateEvent(e)
    <3>1. n = [r EXCEPT !.pc = "item", !.task = "status"]
      BY <2>1
    <3> QED
      BY <2>1, <3>1, <1>d DEF Jobs
  <2>2. CASE g \in Issues /\ ~IsStateEvent(e)
    <3>1. n = [r EXCEPT !.pc = "item", !.task = "membership"]
      BY <2>2
    <3> QED
      BY <2>2, <3>1, <1>d DEF Jobs
  <2>3. CASE g \notin Issues /\ Command(e) = "none"
    <3>1. n = NoRun
      BY <2>3
    <3> QED
      BY <2>3, <3>1, <1>c
  <2>4. CASE g \notin Issues /\ Command(e) # "none"
    <3>1. n = [r EXCEPT !.pc = "pull"]
      BY <2>4
    <3> QED
      BY <2>4, <3>1, <1>d DEF Jobs
  <2> QED
    BY <2>1, <2>2, <2>3, <2>4
<1> HIDE DEF n
<1>2. run' \in [Groups -> Jobs] /\ run'[g] = n /\ \A h \in Groups \ {g} : run'[h] = run[h]
  BY <1>a, <1>b, <1>1
<1>3. pending' \in [Groups -> Events] /\ pending'[g] = NoEvent /\ \A h \in Groups \ {g} : pending'[h] = pending[h]
  BY <1>a, <1>b, NoRunIsAJob
<1>4. TypeOK'
  <2>1. ASSUME NEW h \in Groups
        PROVE  /\ run'[h].pc \in {"idle", "pull"} <=> run'[h].at = 0
               /\ run'[h].pc = "write" /\ run'[h].task = "transition" =>
                    NewStatus(run'[h]) \in {"In progress", "In review"}
    <3>1. CASE h # g
      BY <3>1, <1>t, <1>2 DEF TypeOK
    <3>2. CASE h = g /\ n = NoRun
      BY <3>2, <1>c, <1>2
    <3>3. CASE h = g /\ n # NoRun
      BY <3>3, <1>b, <1>1, <1>2
    <3> QED
      BY <3>1, <3>2, <3>3
  <2>2. \A h \in Groups : NewStatus(run[h])' = NewStatus(run'[h])
    BY DEF NewStatus
  <2>3. quiet' \subseteq Issues
    BY <1>a, <1>b
  <2> QED
    BY <1>t, <1>a, <1>2, <1>3, <2>1, <2>2, <2>3 DEF TypeOK
<1>5. JobsFit'
  <2>1. JobFits(g)'
    <3>1. CASE n = NoRun
      BY <3>1, <1>b, <1>c, <1>1, <1>2 DEF JobFits
    <3>2. CASE n # NoRun
      BY <3>2, <1>b, <1>c, <1>1, <1>2 DEF JobFits
    <3> QED
      BY <3>1, <3>2
  <2>2. ASSUME NEW h \in Groups \ {g} PROVE JobFits(h)'
    BY <1>t, <1>a, <1>2 DEF JobFits, JobsFit
  <2> QED
    BY <2>1, <2>2 DEF JobsFit
<1>6. BoardFollows'
  <2> SUFFICES ASSUME NEW i \in settled
               PROVE  IF IsStateEvent(pending'[i]) THEN Fits(i, StateStatus(pending'[i]))
                      ELSE IF run'[i].task = "status" THEN Fits(i, StateStatus(run'[i].event))
                      ELSE Fits(i, board[i].status)
    BY <1>a DEF BoardFollows, Fits
  <2>1. i \in Issues /\ i \in Groups
    BY <1>b
  <2>2. IF IsStateEvent(pending[i]) THEN Fits(i, StateStatus(pending[i]))
        ELSE IF run[i].task = "status" THEN Fits(i, StateStatus(run[i].event))
        ELSE Fits(i, board[i].status)
    BY <1>t DEF BoardFollows
  <2>3. CASE i # g
    BY <2>1, <2>2, <2>3, <1>2, <1>3
  <2>4. CASE i = g
    <3>1. ~IsStateEvent(pending'[i])
      BY <2>4, <1>3 DEF IsStateEvent, NoEvent, Event
    <3>2. run[i].task = "none"
      BY <2>4, <1>t, <1>a, <1>c DEF JobsFit, JobFits, IsRunning
    <3> QED
      BY <2>1, <2>2, <2>4, <3>1, <3>2, <1>1, <1>2 DEF e
  <2> QED
    BY <2>3, <2>4
<1>7. CommentsNumbered'
  BY <1>t, <1>a DEF CommentsNumbered
<1>8. AuditsAreSole'
  <2> SUFFICES ASSUME NEW i \in Issues \ raced
               PROVE  /\ \A c, d \in Audits(i)' : c = d
                      /\ \A h, k \in Groups : Writing(h, i)' /\ Writing(k, i)' => h = k
                      /\ \A h \in Groups : Writing(h, i)' =>
                           IF run'[h].found = 0 THEN Audits(i)' = {}
                           ELSE \E c \in Audits(i)' : c.id = run'[h].found
    BY <1>a DEF AuditsAreSole
  <2>1. Audits(i)' = Audits(i)
    BY <1>a DEF Audits
  <2>2. \A h \in Groups : Writing(h, i)' => h # g /\ Writing(h, i)
    BY <1>c, <1>1, <1>2 DEF Writing
  <2>3. /\ \A c, d \in Audits(i) : c = d
        /\ \A h, k \in Groups : Writing(h, i) /\ Writing(k, i) => h = k
        /\ \A h \in Groups : Writing(h, i) =>
             IF run[h].found = 0 THEN Audits(i) = {} ELSE \E c \in Audits(i) : c.id = run[h].found
    BY <1>t DEF AuditsAreSole
  <2> QED
    BY <2>1, <2>2, <2>3, <1>2
<1>9. AuditsFollow'
  <2>1. CASE ~Alone(g)
    BY <2>1, <1>a DEF AuditsFollow
  <2>2. CASE Alone(g)
    <3>1. /\ \A h \in Groups : ~IsRunning(h)
          /\ \A h \in Groups \ {g} : ~IsRunning(h)'
      BY <2>2, <1>a, <1>2 DEF Alone, IsRunning
    <3>2. quiet' = quiet \union ({g} \intersect Issues)
      BY <2>2, <1>a
    <3> SUFFICES ASSUME NEW i \in quiet', pending'[i] = NoEvent
                 PROVE  /\ \A h \in Groups : Fresh(h, i)'
                        /\ i \in raced \/ AuditMatches(i)' \/ \E h \in Groups : Auditing(h, i)'
      BY <3>1, <1>a DEF AuditsFollow
    <3>3. ASSUME NEW h \in Groups PROVE Fresh(h, i)'
      BY <3>1, <1>c, <1>1, <1>2 DEF IsRunning, Fresh
    <3>4. CASE i = g
      <4>1. Auditing(g, i)'
        BY <3>2, <3>4, <1>1, <1>2, <1>b DEF Auditing, IsRunning
      <4> QED
        BY <4>1, <3>3
    <3>5. CASE i # g
      <4>1. i \in quiet /\ pending[i] = NoEvent
        BY <3>2, <3>5, <1>3, <1>b
      <4>2. i \in raced \/ AuditMatches(i)
        BY <4>1, <3>1, <1>t DEF AuditsFollow, Auditing
      <4>3. AuditMatches(i)' = AuditMatches(i)
        BY <1>a DEF AuditMatches, Audits, ErrorsOf
      <4> QED
        BY <4>2, <4>3, <3>3
    <3> QED
      BY <3>4, <3>5
  <2> QED
    BY <2>1, <2>2
<1> QED
  BY <1>4, <1>5, <1>6, <1>7, <1>8, <1>9 DEF PolicyInvariant

--------------------------------------------------------------------------------
(* What people do. *)

\* A step that leaves the jobs alone keeps what is said of them.
LEMMA PeopleStep ==
    ASSUME PolicyInvariant, run' = run, raced' = raced,
           \A i \in Issues : board[i].status # "off" => board'[i].status # "off",
           \A i \in Issues : Audits(i)' = Audits(i),
           TypeOK', BoardFollows', CommentsNumbered', AuditsFollow'
    PROVE  PolicyInvariant'
<1>t. TypeOK /\ JobsFit /\ AuditsAreSole
  BY DEF PolicyInvariant
<1>1. JobsFit'
  <2> SUFFICES ASSUME NEW h \in Groups PROVE JobFits(h)'
    BY DEF JobsFit
  <2>1. JobFits(h) /\ run[h] \in Jobs /\ (run[h].pc = "write" => run[h].at \in Issues)
    BY <1>t, JobOfGroup DEF IsRunning
  <2> QED
    BY <2>1 DEF JobFits
<1>2. AuditsAreSole'
  <2> SUFFICES ASSUME NEW i \in Issues \ raced
               PROVE  /\ \A c, d \in Audits(i)' : c = d
                      /\ \A h, k \in Groups : Writing(h, i)' /\ Writing(k, i)' => h = k
                      /\ \A h \in Groups : Writing(h, i)' =>
                           IF run[h].found = 0 THEN Audits(i)' = {}
                           ELSE \E c \in Audits(i)' : c.id = run[h].found
    BY DEF AuditsAreSole
  <2>1. Audits(i)' = Audits(i) /\ \A h \in Groups : Writing(h, i)' <=> Writing(h, i)
    BY DEF Writing
  <2>2. /\ \A c, d \in Audits(i) : c = d
        /\ \A h, k \in Groups : Writing(h, i) /\ Writing(k, i) => h = k
        /\ \A h \in Groups : Writing(h, i) =>
             IF run[h].found = 0 THEN Audits(i) = {} ELSE \E c \in Audits(i) : c.id = run[h].found
    BY <1>t DEF AuditsAreSole
  <2> QED
    BY <2>1, <2>2
<1> QED
  BY <1>1, <1>2 DEF PolicyInvariant

\* An event that is sent keeps the invariant, when a state event says where its
\* Issue belongs and another leaves the state of the Issue alone.
LEMMA SendStep ==
    ASSUME PolicyInvariant, NEW g \in Groups, NEW e \in Events, Send(g, e), Act, e # NoEvent,
           comments' = comments, posted' = posted, issue' \in [Issues -> IssueStates],
           pulls' \in [PullRequests -> [opened : BOOLEAN, links : [Issues -> {"none", "related", "resolving"}]]],
           \A i \in Issues \ {g} : issue'[i] = issue[i],
           IsStateEvent(e) => g \in Issues /\ Fits(g, StateStatus(e))',
           g \in Issues /\ ~IsStateEvent(e) =>
             issue'[g].state = issue[g].state /\ issue'[g].reason = issue[g].reason
    PROVE  PolicyInvariant'
<1>t. TypeOK /\ JobsFit /\ BoardFollows /\ CommentsNumbered /\ AuditsAreSole /\ AuditsFollow
  BY DEF PolicyInvariant
<1>a. /\ pending' = [pending EXCEPT ![g] = e] /\ UNCHANGED <<board, run, failures, quiet, raced>>
      /\ settled' = IF IsStateEvent(e) THEN settled \union {g}
                    ELSE IF IsStateEvent(pending[g]) THEN settled \ {g} ELSE settled
      /\ acts < MaxActs /\ acts' = acts + 1
  BY DEF Send, Act
<1>b. /\ pending' \in [Groups -> Events] /\ pending'[g] = e
      /\ \A h \in Groups \ {g} : pending'[h] = pending[h]
      /\ quiet \subseteq Issues /\ settled \subseteq Issues /\ Issues \subseteq Groups
  BY <1>t, <1>a DEF TypeOK, Groups
<1>1. TypeOK'
  <2>1. acts' \in 0..MaxActs
    <3>1. acts \in 0..MaxActs /\ MaxActs \in Nat
      BY <1>t, PolicyAssumption DEF TypeOK
    <3> QED
      BY <3>1, <1>a
  <2>2. settled' \subseteq Issues
    BY <1>a, <1>b
  <2>3. \A h \in Groups : NewStatus(run[h])' = NewStatus(run[h])
    BY <1>a DEF NewStatus
  <2> QED
    BY <1>t, <1>a, <1>b, <2>1, <2>2, <2>3 DEF TypeOK
<1>2. BoardFollows'
  <2> SUFFICES ASSUME NEW i \in settled'
               PROVE  IF IsStateEvent(pending[i])' THEN Fits(i, StateStatus(pending[i]))'
                      ELSE IF run[i].task' = "status" THEN Fits(i, StateStatus(run[i].event))'
                      ELSE Fits(i, board[i].status)'
    BY DEF BoardFollows
  <2>1. CASE i = g /\ IsStateEvent(e)
    <3>1. /\ Fits(g, StateStatus(e))' => Fits(i, StateStatus(pending[i]))'
          /\ IsStateEvent(pending[i])'
      BY <2>1, <1>b DEF Fits, StateStatus, IsStateEvent
    <3> QED
      BY <2>1, <3>1
  <2>2. CASE ~(i = g /\ IsStateEvent(e))
    <3>0. /\ i \in settled /\ i \in Issues
          /\ i = g => ~IsStateEvent(pending[i]) /\ pending'[i] = e
          /\ i # g => pending'[i] = pending[i]
      BY <2>2, <1>a, <1>b
    <3>1. /\ i \in settled /\ i \in Issues
          /\ i = g => ~IsStateEvent(pending[i]) /\ ~IsStateEvent(pending[i])'
          /\ i # g => (IsStateEvent(pending[i])' <=> IsStateEvent(pending[i]))
      BY <2>2, <3>0 DEF IsStateEvent
    <3>2. IF IsStateEvent(pending[i]) THEN Fits(i, StateStatus(pending[i]))
          ELSE IF run[i].task = "status" THEN Fits(i, StateStatus(run[i].event))
          ELSE Fits(i, board[i].status)
      BY <3>1, <1>t DEF BoardFollows
    <3>3. issue'[i].state = issue[i].state /\ issue'[i].reason = issue[i].reason
      BY <2>2, <3>1
    <3>4. /\ i # g => (Fits(i, StateStatus(pending[i]))' <=> Fits(i, StateStatus(pending[i])))
          /\ Fits(i, StateStatus(run[i].event))' <=> Fits(i, StateStatus(run[i].event))
          /\ Fits(i, board[i].status)' <=> Fits(i, board[i].status)
      BY <3>0, <3>3, <1>a DEF Fits, StateStatus
    <3> QED
      BY <3>1, <3>2, <3>4, <1>a
  <2> QED
    BY <2>1, <2>2
<1>3. CommentsNumbered' /\ \A i \in Issues : Audits(i)' = Audits(i)
  BY <1>t DEF CommentsNumbered, Audits
<1>4. AuditsFollow'
  <2>1. quiet # {} => \A h, k \in Groups : IsRunning(h)' /\ IsRunning(k)' => h = k
    BY <1>t, <1>a DEF AuditsFollow, IsRunning
  <2> SUFFICES ASSUME NEW i \in quiet, pending'[i] = NoEvent
               PROVE  /\ \A h \in Groups : Fresh(h, i)'
                      /\ i \in raced \/ AuditMatches(i)' \/ \E h \in Groups : Auditing(h, i)'
    BY <2>1, <1>a DEF AuditsFollow
  <2>2. i # g /\ pending[i] = NoEvent /\ i \in Issues
    BY <1>b
  <2>3. issue'[i] = issue[i] /\ board'[i] = board[i]
    BY <2>2, <1>a
  <2>4. ErrorsOf(i)' = ErrorsOf(i)
    BY <2>3 DEF ErrorsOf
  <2>5. /\ AuditMatches(i)' <=> AuditMatches(i)
        /\ \A h \in Groups : Fresh(h, i)' <=> Fresh(h, i)
        /\ \A h \in Groups : Auditing(h, i)' <=> Auditing(h, i)
    BY <2>2, <2>3, <2>4, <1>3, <1>a DEF AuditMatches, Fresh, Auditing, IsRunning
  <2> QED
    BY <2>2, <2>5, <1>t DEF AuditsFollow
<1> QED
  BY <1>1, <1>2, <1>3, <1>4, <1>a, PeopleStep

\* The events that are sent.
LEMMA SentEvents ==
    /\ \A reason \in CloseReasons : Event("issues", "closed", reason) \in Events
    /\ Event("issues", "reopened", "none") \in Events /\ Event("issues", "edited", "none") \in Events
    /\ Event("pull_request", "opened", "none") \in Events /\ Event("pull_request", "edited", "none") \in Events
    /\ PullEvents \subseteq Events
BY DEF Event, Events, PullEvents, CloseReasons

\* Closing, reopening and editing an Issue keep the invariant.
LEMMA IssueActsKeep ==
    ASSUME PolicyInvariant, NEW i \in Issues,
           \/ \E reason \in CloseReasons : Close(i, reason)
           \/ Reopen(i)
           \/ \E form \in Forms : EditIssue(i, form)
    PROVE  PolicyInvariant'
<1>a. issue \in [Issues -> IssueStates] /\ i \in Groups /\ TypeOK
  BY DEF PolicyInvariant, TypeOK, Groups
<1>1. ASSUME NEW reason \in CloseReasons, Close(i, reason)
      PROVE  PolicyInvariant'
  <2> DEFINE e == Event("issues", "closed", reason)
             s == [issue[i] EXCEPT !.state = "closed", !.reason = reason]
  <2>1. /\ Send(i, e) /\ Act /\ comments' = comments /\ posted' = posted /\ pulls' = pulls
        /\ issue' = [issue EXCEPT ![i] = s]
    BY <1>1, <1>a DEF Close
  <2>2. s \in IssueStates /\ s.state = "closed" /\ s.reason = reason
    BY <1>a DEF IssueStates
  <2> HIDE DEF s
  <2>3. issue' \in [Issues -> IssueStates] /\ issue'[i] = s /\ \A j \in Issues \ {i} : issue'[j] = issue[j]
    BY <1>a, <2>1, <2>2
  <2>4. e \in Events /\ e # NoEvent /\ IsStateEvent(e)
    BY SentEvents DEF Event, NoEvent, IsStateEvent
  <2>5. Fits(i, StateStatus(e))'
    BY <2>2, <2>3 DEF Fits, StateStatus, Event
  <2> HIDE DEF e
  <2>6. pulls' \in [PullRequests -> [opened : BOOLEAN, links : [Issues -> {"none", "related", "resolving"}]]]
    BY <2>1, <1>a DEF TypeOK
  <2> QED
    BY <1>a, <2>1, <2>3, <2>4, <2>5, <2>6, SendStep
<1>2. CASE Reopen(i)
  <2> DEFINE e == Event("issues", "reopened", "none")
             s == [issue[i] EXCEPT !.state = "open", !.reason = "none"]
  <2>1. /\ Send(i, e) /\ Act /\ comments' = comments /\ posted' = posted /\ pulls' = pulls
        /\ issue' = [issue EXCEPT ![i] = s]
    BY <1>2, <1>a DEF Reopen
  <2>2. s \in IssueStates /\ s.state = "open"
    BY <1>a DEF IssueStates
  <2> HIDE DEF s
  <2>3. issue' \in [Issues -> IssueStates] /\ issue'[i] = s /\ \A j \in Issues \ {i} : issue'[j] = issue[j]
    BY <1>a, <2>1, <2>2
  <2>4. e \in Events /\ e # NoEvent /\ IsStateEvent(e)
    BY SentEvents DEF Event, NoEvent, IsStateEvent
  <2>5. Fits(i, StateStatus(e))'
    BY <2>2, <2>3 DEF Fits, StateStatus, Event, Terminal
  <2> HIDE DEF e
  <2>6. pulls' \in [PullRequests -> [opened : BOOLEAN, links : [Issues -> {"none", "related", "resolving"}]]]
    BY <2>1, <1>a DEF TypeOK
  <2> QED
    BY <1>a, <2>1, <2>3, <2>4, <2>5, <2>6, SendStep
<1>3. ASSUME NEW form \in Forms, EditIssue(i, form)
      PROVE  PolicyInvariant'
  <2> DEFINE e == Event("issues", "edited", "none")
             s == [issue[i] EXCEPT !.form = form]
  <2>1. /\ Send(i, e) /\ Act /\ comments' = comments /\ posted' = posted /\ pulls' = pulls
        /\ issue' = [issue EXCEPT ![i] = s]
    BY <1>3, <1>a DEF EditIssue
  <2>2. s \in IssueStates /\ s.state = issue[i].state /\ s.reason = issue[i].reason
    BY <1>a DEF IssueStates
  <2> HIDE DEF s
  <2>3. issue' \in [Issues -> IssueStates] /\ issue'[i] = s /\ \A j \in Issues \ {i} : issue'[j] = issue[j]
    BY <1>a, <2>1, <2>2
  <2>4. e \in Events /\ e # NoEvent /\ ~IsStateEvent(e)
    BY SentEvents DEF Event, NoEvent, IsStateEvent
  <2> HIDE DEF e
  <2>6. pulls' \in [PullRequests -> [opened : BOOLEAN, links : [Issues -> {"none", "related", "resolving"}]]]
    BY <2>1, <1>a DEF TypeOK
  <2> QED
    BY <1>a, <2>1, <2>2, <2>3, <2>4, <2>6, SendStep
<1> QED
  BY <1>1, <1>2, <1>3

\* Opening, editing and working on a pull request keep the invariant.
LEMMA PullActsKeep ==
    ASSUME PolicyInvariant, NEW p \in PullRequests,
           \/ \E links \in [Issues -> {"none", "related", "resolving"}] : OpenPull(p, links) \/ EditPull(p, links)
           \/ \E e \in PullEvents : PullActivity(p, e)
    PROVE  PolicyInvariant'
<1> DEFINE Pull == [opened : BOOLEAN, links : [Issues -> {"none", "related", "resolving"}]]
<1>a. /\ pulls \in [PullRequests -> Pull] /\ issue \in [Issues -> IssueStates]
      /\ p \in Groups /\ p \notin Issues
  BY PolicyAssumption DEF PolicyInvariant, TypeOK, Groups
<1>1. PICK sent \in Events : /\ Send(p, sent) /\ Act /\ sent # NoEvent /\ ~IsStateEvent(sent)
                             /\ comments' = comments /\ posted' = posted /\ issue' = issue
  <2>1. ASSUME NEW links, OpenPull(p, links)
        PROVE  \E e \in Events : /\ Send(p, e) /\ Act /\ e # NoEvent /\ ~IsStateEvent(e)
                                 /\ comments' = comments /\ posted' = posted /\ issue' = issue
    <3>1. LET e == Event("pull_request", "opened", "none") IN e # NoEvent /\ ~IsStateEvent(e)
      BY DEF Event, NoEvent, IsStateEvent
    <3> QED
      BY <2>1, <3>1, SentEvents DEF OpenPull
  <2>2. ASSUME NEW links, EditPull(p, links)
        PROVE  \E e \in Events : /\ Send(p, e) /\ Act /\ e # NoEvent /\ ~IsStateEvent(e)
                                 /\ comments' = comments /\ posted' = posted /\ issue' = issue
    <3>1. LET e == Event("pull_request", "edited", "none") IN e # NoEvent /\ ~IsStateEvent(e)
      BY DEF Event, NoEvent, IsStateEvent
    <3> QED
      BY <2>2, <3>1, SentEvents DEF EditPull
  <2>3. ASSUME NEW e \in PullEvents, PullActivity(p, e)
        PROVE  e \in Events /\ e # NoEvent /\ ~IsStateEvent(e)
    BY SentEvents DEF Event, NoEvent, IsStateEvent, PullEvents
  <2>4. ASSUME NEW e \in PullEvents, PullActivity(p, e)
        PROVE  Send(p, e) /\ Act /\ comments' = comments /\ posted' = posted /\ issue' = issue
    BY <2>4 DEF PullActivity
  <2> QED
    BY <2>1, <2>2, <2>3, <2>4
<1>2. pulls' \in [PullRequests -> Pull]
  <2>1. ASSUME NEW links \in [Issues -> {"none", "related", "resolving"}], OpenPull(p, links)
        PROVE  pulls' \in [PullRequests -> Pull]
    BY <1>a, <2>1 DEF OpenPull
  <2>2. ASSUME NEW links \in [Issues -> {"none", "related", "resolving"}], EditPull(p, links)
        PROVE  pulls' \in [PullRequests -> Pull]
    <3>1. [pulls[p] EXCEPT !.links = links] \in Pull
      BY <1>a
    <3>2. pulls' = [pulls EXCEPT ![p] = [pulls[p] EXCEPT !.links = links]]
      BY <1>a, <2>2 DEF EditPull
    <3> HIDE DEF Pull
    <3> QED
      BY <1>a, <3>1, <3>2
  <2>3. ASSUME NEW e \in PullEvents, PullActivity(p, e)
        PROVE  pulls' \in [PullRequests -> Pull]
    BY <1>a, <2>3 DEF PullActivity
  <2> QED
    BY <2>1, <2>2, <2>3
<1> QED
  BY <1>a, <1>1, <1>2, SendStep

\* A person's comment keeps the invariant.
LEMMA CommentKeeps ==
    ASSUME PolicyInvariant, NEW i \in Issues, Comment(i)
    PROVE  PolicyInvariant'
<1>t. TypeOK /\ BoardFollows /\ CommentsNumbered /\ AuditsFollow
  BY DEF PolicyInvariant
<1>a. /\ Post(i, Talk) /\ acts < MaxActs /\ acts' = acts + 1
      /\ UNCHANGED <<issue, board, pulls, pending, run, failures, quiet, settled, raced>>
  BY DEF Comment, Act, history
<1>b. Talk \in CommentText /\ Talk # {}
  BY DEF Talk, CommentText
<1>1. /\ posted' \in [Issues -> Nat] /\ comments' \in [Issues -> SUBSET [id : Nat, text : CommentText]]
      /\ \A j \in Issues : \A c \in comments'[j] : c.id \in 1..posted'[j] /\ c.text # {}
      /\ CommentsNumbered'
      /\ \A j \in Issues : Audits(j)' = Audits(j)
  <2>1. /\ posted' \in [Issues -> Nat] /\ comments' \in [Issues -> SUBSET [id : Nat, text : CommentText]]
        /\ \A j \in Issues : \A c \in comments'[j] : c.id \in 1..posted'[j] /\ c.text # {}
        /\ CommentsNumbered'
        /\ \A j \in Issues \ {i} : Audits(j)' = Audits(j)
        /\ Audits(i)' = Audits(i) \union
              (IF Talk = Talk THEN {} ELSE {[id |-> posted[i] + 1, text |-> Talk]})
    BY <1>t, <1>a, <1>b, PostFits
  <2> QED
    BY <2>1
<1>2. acts' \in 0..MaxActs
  <2>1. acts \in 0..MaxActs /\ MaxActs \in Nat
    BY <1>t, PolicyAssumption DEF TypeOK
  <2> QED
    BY <2>1, <1>a
<1>3. TypeOK'
  <2>1. \A h \in Groups : NewStatus(run[h])' = NewStatus(run[h])
    BY <1>a DEF NewStatus
  <2> QED
    BY <1>t, <1>a, <1>1, <1>2, <2>1 DEF TypeOK
<1>4. BoardFollows'
  BY <1>t, <1>a DEF BoardFollows, Fits, IsStateEvent, StateStatus
<1>5. AuditsFollow'
  <2>1. \A j \in Issues : ErrorsOf(j)' = ErrorsOf(j)
    BY <1>a DEF ErrorsOf
  <2>2. \A j \in Issues : AuditMatches(j)' <=> AuditMatches(j)
    BY <1>1, <2>1 DEF AuditMatches
  <2>3. \A j \in Issues : \A h \in Groups :
          (Fresh(h, j)' <=> Fresh(h, j)) /\ (Auditing(h, j)' <=> Auditing(h, j))
    BY <1>a, <2>1 DEF Fresh, Auditing, IsRunning
  <2>4. \A h \in Groups : IsRunning(h)' <=> IsRunning(h)
    BY <1>a DEF IsRunning
  <2>5. quiet \subseteq Issues
    BY <1>t DEF TypeOK
  <2>6. quiet # {} => \A h, k \in Groups : IsRunning(h) /\ IsRunning(k) => h = k
    BY <1>t DEF AuditsFollow
  <2>7. ASSUME NEW j \in quiet, pending[j] = NoEvent
        PROVE  /\ \A h \in Groups : Fresh(h, j)'
               /\ j \in raced \/ AuditMatches(j)' \/ \E h \in Groups : Auditing(h, j)'
    BY <2>2, <2>3, <2>5, <2>7, <1>t DEF AuditsFollow
  <2> QED
    BY <2>4, <2>6, <2>7, <1>a DEF AuditsFollow
<1>6. run' = run /\ raced' = raced /\ board' = board
  BY <1>a
<1> QED
  BY <1>1, <1>3, <1>4, <1>5, <1>6, PeopleStep

\* What people do without an event keeps the invariant: nothing is promised for
\* the audit of the Issue, nor for its column when its status is set.
LEMMA SilentActStep ==
    ASSUME PolicyInvariant, NEW i \in Issues, Act,
           NEW s \in IssueStates, issue' = [issue EXCEPT ![i] = s],
           s.state = issue[i].state, s.reason = issue[i].reason,
           NEW card \in Cards, board' = [board EXCEPT ![i] = card],
           card.status = "off" => card = OffBoard, board[i].status # "off" => card.status # "off",
           quiet' = quiet \ {i}, settled' \subseteq settled,
           i \in settled' => card.status = board[i].status,
           UNCHANGED <<pulls, comments, posted, pending, run, failures, raced>>
    PROVE  PolicyInvariant'
<1>t. TypeOK /\ BoardFollows /\ CommentsNumbered /\ AuditsFollow
  BY DEF PolicyInvariant
<1>b. /\ issue \in [Issues -> IssueStates] /\ board \in [Issues -> Cards]
      /\ quiet \subseteq Issues /\ settled \subseteq Issues /\ Issues \subseteq Groups
  BY <1>t DEF TypeOK, Groups
<1>c. acts < MaxActs /\ acts' = acts + 1
  BY DEF Act
<1>d. /\ board' \in [Issues -> Cards] /\ board'[i] = card
      /\ issue' \in [Issues -> IssueStates] /\ issue'[i] = s
      /\ \A j \in Issues \ {i} : board'[j] = board[j] /\ issue'[j] = issue[j]
  BY <1>b
<1>2. acts' \in 0..MaxActs
  <2>1. acts \in 0..MaxActs /\ MaxActs \in Nat
    BY <1>t, PolicyAssumption DEF TypeOK
  <2> QED
    BY <2>1, <1>c
<1>3. TypeOK'
  <2>1. \A h \in Groups : NewStatus(run[h])' = NewStatus(run[h])
    BY DEF NewStatus
  <2>2. \A j \in Issues : board'[j].status = "off" => board'[j] = OffBoard
    BY <1>t, <1>b, <1>d DEF TypeOK
  <2>3. quiet' \subseteq Issues /\ settled' \subseteq Issues
    BY <1>b
  <2> QED
    BY <1>t, <1>d, <1>2, <2>1, <2>2, <2>3 DEF TypeOK
<1>4. BoardFollows'
  <2> SUFFICES ASSUME NEW j \in settled'
               PROVE  IF IsStateEvent(pending[j]) THEN Fits(j, StateStatus(pending[j]))'
                      ELSE IF run[j].task = "status" THEN Fits(j, StateStatus(run[j].event))'
                      ELSE Fits(j, board[j].status)'
    BY DEF BoardFollows, Fits, IsStateEvent, StateStatus
  <2>1. /\ j \in settled /\ board'[j].status = board[j].status
        /\ issue'[j].state = issue[j].state /\ issue'[j].reason = issue[j].reason
    BY <1>b, <1>d
  <2>2. /\ Fits(j, StateStatus(pending[j]))' <=> Fits(j, StateStatus(pending[j]))
        /\ Fits(j, StateStatus(run[j].event))' <=> Fits(j, StateStatus(run[j].event))
        /\ Fits(j, board[j].status)' <=> Fits(j, board[j].status)
    BY <2>1 DEF Fits, StateStatus
  <2> QED
    BY <2>1, <2>2, <1>t DEF BoardFollows
<1>5. CommentsNumbered' /\ \A j \in Issues : Audits(j)' = Audits(j)
  BY <1>t DEF CommentsNumbered, Audits
<1>6. AuditsFollow'
  <2>1. \A h \in Groups : IsRunning(h)' <=> IsRunning(h)
    BY DEF IsRunning
  <2>2. quiet' # {} => \A h, k \in Groups : IsRunning(h) /\ IsRunning(k) => h = k
    BY <1>t DEF AuditsFollow
  <2>3. ASSUME NEW j \in quiet', pending[j] = NoEvent
        PROVE  /\ \A h \in Groups : Fresh(h, j)'
               /\ j \in raced \/ AuditMatches(j)' \/ \E h \in Groups : Auditing(h, j)'
    <3>1. j \in quiet /\ j \in Issues /\ board'[j] = board[j] /\ issue'[j] = issue[j]
      BY <1>b, <1>d
    <3>2. ErrorsOf(j)' = ErrorsOf(j)
      BY <3>1 DEF ErrorsOf
    <3>3. /\ AuditMatches(j)' <=> AuditMatches(j)
          /\ \A h \in Groups : Fresh(h, j)' <=> Fresh(h, j)
          /\ \A h \in Groups : Auditing(h, j)' <=> Auditing(h, j)
      BY <3>1, <3>2, <1>5 DEF AuditMatches, Fresh, Auditing, IsRunning
    <3> QED
      BY <2>3, <3>1, <3>3, <1>t DEF AuditsFollow
  <2> QED
    BY <2>1, <2>2, <2>3 DEF AuditsFollow
<1>7. \A j \in Issues : board[j].status # "off" => board'[j].status # "off"
  BY <1>b, <1>d
<1> QED
  BY <1>3, <1>4, <1>5, <1>6, <1>7, PeopleStep

\* Dragging a card, setting its priority and changing a native type are such acts.
LEMMA SilentActsKeep ==
    ASSUME PolicyInvariant, NEW i \in Issues,
           \/ \E form \in Forms : RetypeIssue(i, form)
           \/ \E status \in Moves : MoveCard(i, status)
           \/ \E priority \in Priorities : SetPriority(i, priority)
    PROVE  PolicyInvariant'
<1>b. /\ issue \in [Issues -> IssueStates] /\ issue[i] \in IssueStates
      /\ board \in [Issues -> Cards] /\ board[i] \in Cards
      /\ board[i].status = "off" => board[i] = OffBoard
      /\ issue = [issue EXCEPT ![i] = issue[i]] /\ board = [board EXCEPT ![i] = board[i]]
  BY DEF PolicyInvariant, TypeOK
<1>1. ASSUME NEW form \in Forms, RetypeIssue(i, form)
      PROVE  PolicyInvariant'
  <2> DEFINE s == [issue[i] EXCEPT !.form = form]
  <2>1. s \in IssueStates /\ s.state = issue[i].state /\ s.reason = issue[i].reason
    BY <1>b DEF IssueStates
  <2>2. /\ Act /\ issue' = [issue EXCEPT ![i] = s] /\ board' = board
        /\ quiet' = quiet \ {i} /\ settled' = settled
        /\ UNCHANGED <<pulls, comments, posted, pending, run, failures, raced>>
    BY <1>1, <1>b DEF RetypeIssue
  <2> HIDE DEF s
  <2> QED
    BY <1>b, <2>1, <2>2, SilentActStep
<1>2. ASSUME NEW status \in Moves, MoveCard(i, status)
      PROVE  PolicyInvariant'
  <2> DEFINE card == [board[i] EXCEPT !.status = status, !.by = "human"]
  <2>1. status \in ToSet(Statuses) /\ status # "off"
    BY PolicyAssumption
  <2>2. card \in Cards /\ card.status # "off"
    BY <1>b, <2>1 DEF Cards
  <2>3. /\ Act /\ issue' = issue /\ board' = [board EXCEPT ![i] = card]
        /\ quiet' = quiet \ {i} /\ settled' = settled \ {i}
        /\ UNCHANGED <<pulls, comments, posted, pending, run, failures, raced>>
    BY <1>2, <1>b DEF MoveCard
  <2> HIDE DEF card
  <2> QED
    BY <1>b, <2>2, <2>3, SilentActStep
<1>3. ASSUME NEW priority \in Priorities, SetPriority(i, priority)
      PROVE  PolicyInvariant'
  <2> DEFINE card == [board[i] EXCEPT !.priority = priority]
  <2>1. card \in Cards /\ card.status = board[i].status
    BY <1>b DEF Cards
  <2>2. /\ Act /\ issue' = issue /\ board' = [board EXCEPT ![i] = card] /\ board[i] # OffBoard
        /\ quiet' = quiet \ {i} /\ settled' = settled
        /\ UNCHANGED <<pulls, comments, posted, pending, run, failures, raced>>
    BY <1>3, <1>b DEF SetPriority
  <2> HIDE DEF card
  <2> QED
    BY <1>b, <2>1, <2>2, SilentActStep
<1> QED
  BY <1>1, <1>2, <1>3

--------------------------------------------------------------------------------
(* The invariant. *)

\* The initial states satisfy it.
LEMMA InitEstablishes == Init => PolicyInvariant
<1> SUFFICES ASSUME Init PROVE PolicyInvariant
  OBVIOUS
<1> USE DEF Init
<1>a. /\ NoRun.pc = "idle" /\ NoRun.at = 0 /\ NoRun.task = "none" /\ NoRun.errors = {}
      /\ NoRun \in Jobs /\ {} # Talk
  BY NoRunIsAJob DEF NoRun, Talk
<1>b. \A g \in Groups : run[g] = NoRun
  OBVIOUS
<1>1. TypeOK
  <2>1. issue \in [Issues -> IssueStates]
    BY DEF IssueStates
  <2>2. board \in [Issues -> Cards] /\ \A i \in Issues : board[i] = OffBoard
    BY NoRunIsAJob
  <2>3. pulls \in [PullRequests -> [opened : BOOLEAN, links : [Issues -> {"none", "related", "resolving"}]]]
    OBVIOUS
  <2>4. comments \in [Issues -> SUBSET [id : Nat, text : CommentText]] /\ posted \in [Issues -> Nat]
        /\ \A i \in Issues : comments[i] = {}
    OBVIOUS
  <2>5. pending \in [Groups -> Events]
    BY NoRunIsAJob DEF Event, Events
  <2>6. run \in [Groups -> Jobs]
    BY <1>a
  <2>7. acts \in 0..MaxActs /\ failures \in 0..MaxFailures
    <3>1. MaxActs \in Nat /\ MaxFailures \in Nat
      BY PolicyAssumption
    <3>2. 0 \in 0..MaxActs /\ 0 \in 0..MaxFailures
      BY <3>1
    <3> QED
      BY <3>2
  <2> HIDE DEF Init
  <2>8. quiet \subseteq Issues /\ settled \subseteq Issues /\ raced \subseteq Issues
    BY DEF Init
  <2> QED
    BY <1>a, <1>b, <2>1, <2>2, <2>3, <2>4, <2>5, <2>6, <2>7, <2>8 DEF TypeOK
<1>2. JobsFit
  BY <1>a, <1>b, PolicyAssumption DEF JobsFit, JobFits, Groups
<1>3. BoardFollows
  <2> SUFFICES ASSUME NEW i \in Issues
               PROVE  IsStateEvent(pending[i]) /\ Fits(i, StateStatus(pending[i]))
    BY DEF BoardFollows
  <2>1. pending[i] = Event("issues", "opened", "none") /\ issue[i].state = "open"
    BY DEF Groups
  <2> HIDE DEF Init
  <2> QED
    BY <2>1 DEF IsStateEvent, StateStatus, Fits, Event, Terminal
<1>4. CommentsNumbered
  BY FS_EmptySet DEF CommentsNumbered
<1>5. AuditsAreSole
  BY <1>a, <1>b DEF AuditsAreSole, Audits, Writing
<1>6. AuditsFollow
  BY DEF AuditsFollow
<1> QED
  BY <1>1, <1>2, <1>3, <1>4, <1>5, <1>6 DEF PolicyInvariant

\* So does a stuttering step.
LEMMA StutterKeeps ==
    ASSUME PolicyInvariant, UNCHANGED vars
    PROVE  PolicyInvariant'
<1>a. UNCHANGED <<issue, board, pulls, comments, posted, pending, run, acts, failures, quiet, settled, raced>>
  BY DEF vars, history
<1>1. TypeOK'
  <2>1. \A h \in Groups : NewStatus(run[h])' = NewStatus(run[h])
    BY <1>a DEF NewStatus
  <2> QED
    BY <1>a, <2>1 DEF PolicyInvariant, TypeOK
<1>2. BoardFollows'
  BY <1>a DEF PolicyInvariant, BoardFollows, Fits, IsStateEvent, StateStatus
<1>3. CommentsNumbered' /\ \A i \in Issues : Audits(i)' = Audits(i)
  BY <1>a DEF PolicyInvariant, CommentsNumbered, Audits
<1>4. AuditsFollow'
  <2>1. \A i \in quiet : ErrorsOf(i)' = ErrorsOf(i) /\ Audits(i)' = Audits(i)
    BY <1>a DEF ErrorsOf, Audits
  <2>2. \A i \in quiet : AuditMatches(i)' <=> AuditMatches(i)
    BY <2>1 DEF AuditMatches
  <2>3. \A i \in quiet : \A h \in Groups :
          (Fresh(h, i)' <=> Fresh(h, i)) /\ (Auditing(h, i)' <=> Auditing(h, i))
    BY <1>a, <2>1 DEF Fresh, Auditing, IsRunning
  <2>4. \A h \in Groups : IsRunning(h)' <=> IsRunning(h)
    BY <1>a DEF IsRunning
  <2>5. quiet # {} => \A h, k \in Groups : IsRunning(h) /\ IsRunning(k) => h = k
    BY DEF PolicyInvariant, AuditsFollow
  <2>6. ASSUME NEW i \in quiet, pending[i] = NoEvent
        PROVE  /\ \A h \in Groups : Fresh(h, i)'
               /\ i \in raced \/ AuditMatches(i)' \/ \E h \in Groups : Auditing(h, i)'
    BY <2>2, <2>3, <2>6 DEF PolicyInvariant, AuditsFollow
  <2> QED
    BY <2>4, <2>5, <2>6, <1>a DEF AuditsFollow
<1> QED
  BY <1>a, <1>1, <1>2, <1>3, <1>4, PeopleStep

\* Every step keeps the invariant.
LEMMA NextKeeps ==
    ASSUME PolicyInvariant, [Next]_vars
    PROVE  PolicyInvariant'
<1>1. ASSUME NEW g \in Groups,
             \/ Start(g) \/ CallFails(g) \/ ReadItem(g) \/ AddItem(g) \/ ReadPull(g) \/ ReadContext(g)
             \/ WriteStatus(g) \/ WriteDate(g)
             \/ ReadIssue(g) \/ ReadBoard(g) \/ ListComments(g) \/ WriteComment(g)
      PROVE  PolicyInvariant'
  BY <1>1, StartKeeps, CallFailsKeeps, ReadItemKeeps, AddItemKeeps, ReadPullKeeps, ReadContextKeeps,
     WriteStatusKeeps, WriteDateKeeps, ReadIssueKeeps, ReadBoardKeeps, ListCommentsKeeps, WriteCommentKeeps
<1>2. ASSUME NEW i \in Issues,
             \/ \E reason \in CloseReasons : Close(i, reason)
             \/ Reopen(i) \/ Comment(i)
             \/ \E form \in Forms : EditIssue(i, form) \/ RetypeIssue(i, form)
             \/ \E status \in Moves : MoveCard(i, status)
             \/ \E priority \in Priorities : SetPriority(i, priority)
      PROVE  PolicyInvariant'
  BY <1>2, IssueActsKeep, CommentKeeps, SilentActsKeep
<1>3. ASSUME NEW p \in PullRequests,
             \/ \E links \in [Issues -> {"none", "related", "resolving"}] : OpenPull(p, links) \/ EditPull(p, links)
             \/ \E e \in PullEvents : PullActivity(p, e)
      PROVE  PolicyInvariant'
  BY <1>3, PullActsKeep
<1>4. CASE UNCHANGED vars
  BY <1>4, StutterKeeps
<1> QED
  BY <1>1, <1>2, <1>3, <1>4 DEF Next

\* What the lifecycle maintains across every interleaving of jobs, people and
\* failing calls: each job is where its task can be and writes what it has
\* planned, each settled Issue has its event or its column, each undisturbed
\* one its audit or a job about to write it (run_lifecycle).
THEOREM PolicyInvariantHolds == Spec => []PolicyInvariant
<1>1. Init => PolicyInvariant
  BY InitEstablishes
<1>2. PolicyInvariant /\ [Next]_vars => PolicyInvariant'
  BY NextKeeps
<1> QED
  BY <1>1, <1>2, PTL DEF Spec

\* Issues, cards, comments and jobs keep their shapes.
THEOREM TypeCorrect == Spec => []TypeOK
<1>1. PolicyInvariant => TypeOK
  BY DEF PolicyInvariant
<1> QED
  BY <1>1, PolicyInvariantHolds, PTL

\* At rest, the card of a settled Issue is in the column of its state, whatever
\* pull requests, edits and failures there were (run_lifecycle,
\* next_resolving_issue_status).
THEOREM BoardMatchesIssueHolds == Spec => []BoardMatchesIssue
<1>1. PolicyInvariant => BoardMatchesIssue
  <2> SUFFICES ASSUME PolicyInvariant, AtRest, NEW i \in settled
               PROVE  Fits(i, board[i].status)
    BY DEF BoardMatchesIssue, Fits
  <2>1. i \in Groups
    BY DEF PolicyInvariant, TypeOK, Groups
  <2>2. pending[i] = NoEvent /\ run[i] = NoRun
    BY <2>1 DEF AtRest, IsRunning, PolicyInvariant, JobsFit, JobFits
  <2>3. ~IsStateEvent(pending[i]) /\ run[i].task # "status"
    BY <2>2 DEF IsStateEvent, NoEvent, Event, NoRun
  <2> QED
    BY <2>3 DEF PolicyInvariant, BoardFollows
<1> QED
  BY <1>1, PolicyInvariantHolds, PTL

\* An Issue whose audits never raced has at most one, and at rest, undisturbed,
\* it lists exactly what is wrong with the Issue now (audit_issue,
\* upsert_audit).
THEOREM AuditIsCurrentHolds == Spec => []AuditIsCurrent
<1>1. PolicyInvariant => AuditIsCurrent
  <2> SUFFICES ASSUME PolicyInvariant, NEW i \in Issues \ raced
               PROVE  /\ Cardinality(Audits(i)) <= 1
                      /\ AtRest /\ i \in quiet => AuditMatches(i)
    BY DEF AuditIsCurrent, AuditMatches, ErrorsOf
  <2>1. \A c, d \in Audits(i) : c = d
    BY DEF PolicyInvariant, AuditsAreSole
  <2>2. Cardinality(Audits(i)) <= 1
    <3>1. CASE Audits(i) = {}
      BY <3>1, FS_EmptySet
    <3>2. CASE Audits(i) # {}
      <4>1. PICK c : Audits(i) = {c}
        BY <2>1, <3>2
      <4> QED
        BY <4>1, FS_Singleton
    <3> QED
      BY <3>1, <3>2
  <2>3. AtRest /\ i \in quiet => AuditMatches(i)
    <3>1. i \in Groups
      BY DEF Groups
    <3> QED
      BY <3>1 DEF AtRest, PolicyInvariant, AuditsFollow, Auditing
  <2> QED
    BY <2>2, <2>3
<1> QED
  BY <1>1, PolicyInvariantHolds, PTL

\* Only its two writes take a job out of writing, unless it fails.
LEMMA OnlyWritesEndWriting ==
    ASSUME PolicyInvariant, Next, NEW g \in Groups, run[g].pc = "write", run'[g] # run[g],
           failures' = failures
    PROVE  WriteStatus(g) \/ WriteDate(g)
<1>1. run \in [Groups -> Jobs] /\ failures \in Nat
  <2>1. run \in [Groups -> Jobs] /\ failures \in 0..MaxFailures
    BY DEF PolicyInvariant, TypeOK
  <2> QED
    BY <2>1
<1>2. ASSUME NEW h \in Groups, NEW n, Go(h, n), h # g PROVE FALSE
  BY <1>1, <1>2 DEF Go
<1>3. ASSUME NEW h \in Groups,
             \/ Start(h) \/ CallFails(h) \/ ReadItem(h) \/ AddItem(h) \/ ReadPull(h) \/ ReadContext(h)
             \/ WriteStatus(h) \/ WriteDate(h)
             \/ ReadIssue(h) \/ ReadBoard(h) \/ ListComments(h) \/ WriteComment(h)
      PROVE  WriteStatus(g) \/ WriteDate(g)
  <2>1. h = g
    BY <1>2, <1>3, Zenon DEF Start, CallFails, Aborted, ReadItem, AddItem, ReadPull, ReadContext, WriteStatus,
         WriteDate, ReadIssue, ReadBoard, ListComments, WriteComment
  <2>2. ~CallFails(g)
    BY <1>1 DEF CallFails
  <2>3. ~(Start(g) \/ ReadItem(g) \/ AddItem(g) \/ ReadPull(g) \/ ReadContext(g)
          \/ ReadIssue(g) \/ ReadBoard(g) \/ ListComments(g) \/ WriteComment(g))
    BY DEF Start, IsRunning, ReadItem, AddItem, ReadPull, ReadContext, ReadIssue, ReadBoard, ListComments,
         WriteComment
  <2> QED
    BY <1>3, <2>1, <2>2, <2>3
<1>4. ASSUME NEW i \in Issues,
             \/ \E reason \in CloseReasons : Close(i, reason)
             \/ Reopen(i) \/ Comment(i)
             \/ \E form \in Forms : EditIssue(i, form) \/ RetypeIssue(i, form)
             \/ \E status \in Moves : MoveCard(i, status)
             \/ \E priority \in Priorities : SetPriority(i, priority)
      PROVE  FALSE
  BY <1>4 DEF Close, Reopen, Comment, EditIssue, RetypeIssue, MoveCard, SetPriority, Send
<1>5. ASSUME NEW p \in PullRequests,
             \/ \E links \in [Issues -> {"none", "related", "resolving"}] : OpenPull(p, links) \/ EditPull(p, links)
             \/ \E e \in PullEvents : PullActivity(p, e)
      PROVE  FALSE
  BY <1>5 DEF OpenPull, EditPull, PullActivity, Send
<1> QED
  BY <1>3, <1>4, <1>5 DEF Next

\* A pull request's job that writes over the card it read moves it forward, or
\* takes back a review of the lifecycle's own, and gives a date only where there
\* was none (next_resolving_issue_status, initialize_issue_start_date).
THEOREM PlansStandHolds == Spec => PlansStand
<1> DEFINE Step == \A g \in PullRequests : run[g].pc = "write" /\ run'[g] # run[g] /\ failures' = failures =>
         LET i == run[g].at IN
         run[g].seen.status = board[i].status /\ run[g].seen.by = board[i].by
           /\ run[g].seen.start = board[i].start /\ board'[i] # board[i] =>
             IF run[g].task = "date" THEN board[i].start = 0
             ELSE /\ board[i].status \notin Terminal \union {"off", "unset"}
                  /\ \/ Rank(board[i].status) < Rank(board'[i].status)
                     \/ board[i].status = "In review" /\ board[i].by = "lifecycle"
                        /\ run[g].event.action = "changes_requested"
<1>1. PolicyInvariant /\ [Next]_vars => [Step]_vars
  <2> SUFFICES ASSUME PolicyInvariant, Next, NEW g \in PullRequests,
                      run[g].pc = "write", run'[g] # run[g], failures' = failures,
                      run[g].seen.status = board[run[g].at].status, run[g].seen.by = board[run[g].at].by,
                      run[g].seen.start = board[run[g].at].start
               PROVE  IF run[g].task = "date" THEN board[run[g].at].start = 0
                      ELSE /\ board[run[g].at].status \notin Terminal \union {"off", "unset"}
                           /\ \/ Rank(board[run[g].at].status) < Rank(board'[run[g].at].status)
                              \/ board[run[g].at].status = "In review" /\ board[run[g].at].by = "lifecycle"
                                 /\ run[g].event.action = "changes_requested"
    OBVIOUS
  <2>0. g \in Groups
    BY DEF Groups
  <2>1. WriteStatus(g) \/ WriteDate(g)
    BY <2>0, OnlyWritesEndWriting
  <2>2. /\ JobFits(g) /\ run[g].at \in Issues /\ board \in [Issues -> Cards] /\ g \notin Issues
        /\ run[g].task = "transition" => NewStatus(run[g]) \in {"In progress", "In review"}
    BY <2>0, JobOfGroup DEF IsRunning
  <2>3. CASE run[g].task = "date"
    BY <2>2, <2>3 DEF JobFits
  <2>4. CASE run[g].task # "date"
    <3>1. WriteStatus(g) /\ run[g].task = "transition"
      BY <2>1, <2>2, <2>4 DEF WriteDate, WriteStatus, JobFits
    <3> DEFINE card == board[run[g].at]
               new  == NextStatus(card, Command(run[g].event))
    <3>2. new \in {"In progress", "In review"} /\ NewStatus(run[g]) = new
      BY <2>2, <3>1 DEF NewStatus, NextStatus
    <3>3. board'[run[g].at].status = new
      BY <2>2, <3>1, <3>2 DEF WriteStatus, Card
    <3>4. \/ card.status = "In review" /\ card.by = "lifecycle" /\ Command(run[g].event) = "changes-requested"
          \/ IsActive(card.status) /\ Rank(card.status) < Rank(new)
      BY <3>2 DEF NextStatus
    <3>5. Command(run[g].event) = "changes-requested" => run[g].event.action = "changes_requested"
      BY DEF Command
    <3>6. card.status \notin Terminal \union {"off", "unset"}
      BY <3>4, PolicyAssumption DEF IsActive, active_statuses, Terminal
    <3> QED
      BY <2>4, <3>3, <3>4, <3>5, <3>6
  <2> QED
    BY <2>3, <2>4
<1> HIDE DEF Step
<1>2. Spec => [][Step]_vars
  BY <1>1, PolicyInvariantHolds, PTL DEF Spec
<1> QED
  BY <1>2 DEF Step, PlansStand

\* The shapes the lemmas below rest on.
LEMMA CommentShapes ==
    ASSUME PolicyInvariant
    PROVE  /\ run \in [Groups -> Jobs]
           /\ posted \in [Issues -> Nat] /\ comments \in [Issues -> SUBSET [id : Nat, text : CommentText]]
           /\ \A i \in Issues : \A c \in comments[i] : c.id \in 1..posted[i]
           /\ \A i \in Issues : \A c, d \in comments[i] : c.id = d.id => c = d
           /\ \A g \in Groups : run[g].found \in Nat /\ run[g].errors # Talk
           /\ \A g \in Groups : run[g].pc \in {"list", "comment"} => run[g].at \in Issues
<1>1. TypeOK /\ JobsFit /\ CommentsNumbered
  BY DEF PolicyInvariant
<1>2. /\ run \in [Groups -> Jobs]
      /\ posted \in [Issues -> Nat] /\ comments \in [Issues -> SUBSET [id : Nat, text : CommentText]]
      /\ \A i \in Issues : \A c \in comments[i] : c.id \in 1..posted[i]
      /\ \A g \in Groups : run[g].pc \in {"idle", "pull"} <=> run[g].at = 0
  BY <1>1, Zenon DEF TypeOK
<1>3. ASSUME NEW g \in Groups
      PROVE  /\ run[g].found \in Nat /\ run[g].errors # Talk
             /\ run[g].pc \in {"list", "comment"} => run[g].at \in Issues
  <2>1. run[g] \in Jobs
    BY <1>2
  <2>2. run[g].found \in Nat /\ run[g].at \in Issues \union {0}
    BY <2>1, JobFields
  <2>3. run[g].errors # Talk
    BY <1>1, Zenon DEF JobsFit, JobFits
  <2> QED
    BY <1>2, <2>2, <2>3
<1> QED
  BY <1>1, <1>2, <1>3 DEF CommentsNumbered

\* A job that goes on does not write a comment first.
LEMMA ContinueReadsFirst ==
    ASSUME NEW r
    PROVE  Continue(r).pc # "comment"
BY DEF Continue, NoRun

LEMMA WithItemReadsFirst ==
    ASSUME NEW r \in Jobs, NEW card
    PROVE  WithItem(r, card).pc # "comment"
<1>1. DOMAIN r = {"pc", "task", "event", "at", "resolving", "dates", "seen", "snapshot", "errors", "found"}
  BY DEF Jobs
<1>2. CASE r.task = "membership"
  BY <1>1, <1>2 DEF WithItem, Jobs
<1>3. CASE r.task = "status" /\ card.status = StateStatus(r.event)
  BY <1>1, <1>3 DEF WithItem, Jobs
<1>4. CASE r.task = "date" /\ card.start # 0
  BY <1>4, ContinueReadsFirst DEF WithItem
<1>5. CASE /\ r.task # "membership" /\ ~(r.task = "date" /\ card.start # 0)
           /\ ~(r.task = "status" /\ card.status = StateStatus(r.event))
  <2>1. WithItem(r, card) = [r EXCEPT !.pc = "write", !.seen = card]
    BY <1>5 DEF WithItem
  <2> QED
    BY <2>1, <1>1 DEF Jobs
<1> QED
  BY <1>2, <1>3, <1>4, <1>5

\* A call before the comment is written leaves comments alone; only listing
\* them makes a job that writes.
LEMMA EarlierCalls ==
    ASSUME PolicyInvariant, NEW g \in Groups,
           \/ Start(g) \/ CallFails(g) \/ ReadItem(g) \/ AddItem(g) \/ ReadPull(g) \/ ReadContext(g)
           \/ WriteStatus(g) \/ WriteDate(g) \/ ReadIssue(g) \/ ReadBoard(g)
    PROVE  /\ UNCHANGED <<comments, posted>>
           /\ \E n : n.pc # "comment" /\ run' = [run EXCEPT ![g] = n]
<1>1. run[g] \in Jobs
  BY CommentShapes
<1>2. NoRun.pc = "idle"
  BY DEF NoRun
<1>3. CASE Start(g)
  BY <1>2, <1>3 DEF Start, Go, NoRun
<1>4. CASE CallFails(g)
  BY <1>2, <1>4 DEF CallFails, Aborted, Go
<1>5. CASE ReadItem(g)
  <2>1. [run[g] EXCEPT !.pc = "add"].pc # "comment"
    BY <1>1 DEF Jobs
  <2> QED
    BY <1>1, <1>5, <2>1, WithItemReadsFirst DEF ReadItem, Go
<1>6. CASE AddItem(g)
  BY <1>1, <1>6, WithItemReadsFirst DEF AddItem, Go
<1>7. CASE ReadPull(g)
  BY <1>7, ContinueReadsFirst DEF ReadPull, Go
<1>8. CASE ReadContext(g)
  <2>1. [run[g] EXCEPT !.pc = "write", !.seen = board[run[g].at]].pc # "comment"
    BY <1>1 DEF Jobs
  <2> QED
    BY <1>8, <2>1, ContinueReadsFirst DEF ReadContext, Go
<1>9. CASE WriteStatus(g)
  <2>1. /\ [run[g] EXCEPT !.pc = "item", !.task = "membership", !.seen = OffBoard].pc # "comment"
        /\ [run[g] EXCEPT !.pc = "issue", !.seen = OffBoard].pc # "comment"
    BY <1>1 DEF Jobs
  <2> QED
    BY <1>9, <2>1 DEF WriteStatus, Go
<1>10. CASE WriteDate(g)
  BY <1>10, ContinueReadsFirst DEF WriteDate, Go
<1>11. CASE ReadIssue(g)
  <2>1. [run[g] EXCEPT !.pc = "board", !.snapshot = issue[run[g].at]].pc # "comment"
    BY <1>1 DEF Jobs
  <2> QED
    BY <1>11, <2>1 DEF ReadIssue, Go
<1>12. CASE ReadBoard(g)
  <2>1. \A e : [run[g] EXCEPT !.pc = "list", !.snapshot = Unread, !.errors = e].pc # "comment"
    BY <1>1 DEF Jobs
  <2> QED
    BY <1>12, <2>1 DEF ReadBoard, Go
<1> QED
  BY <1>3, <1>4, <1>5, <1>6, <1>7, <1>8, <1>9, <1>10, <1>11, <1>12

\* What upsert_audit finds is the number of a comment on the Issue that is an
\* audit, or nothing.
LEMMA ExistingIsNoTalk ==
    ASSUME PolicyInvariant, NEW i \in Issues
    PROVE  /\ Existing(i) <= posted[i]
           /\ \A c \in comments[i] : c.id = Existing(i) => c.text # Talk
<1> DEFINE hits == {c.id : c \in {c \in Page(i) : c.text # Talk}}
<1>1. /\ posted[i] \in Nat /\ \A c \in comments[i] : c.id \in 1..posted[i]
      /\ \A c, d \in comments[i] : c.id = d.id => c = d
  BY CommentShapes
<1>2. hits \in SUBSET Nat /\ \A n \in hits : n <= posted[i]
  <2> SUFFICES ASSUME NEW c \in Page(i) PROVE c.id \in Nat /\ c.id <= posted[i]
    OBVIOUS
  <2>1. c \in comments[i]
    BY DEF Page
  <2> QED
    BY <1>1, <2>1
<1>3. Existing(i) = IF hits = {} THEN 0 ELSE Least(hits)
  BY DEF Existing
<1>4. CASE hits = {}
  BY <1>1, <1>3, <1>4
<1>5. CASE hits # {}
  <2>1. Existing(i) \in hits
    <3> HIDE DEF hits
    <3> QED
      BY <1>2, <1>3, <1>5, LeastElement
  <2>2. \E d \in comments[i] : d.id = Existing(i) /\ d.text # Talk
    BY <2>1 DEF Page
  <2> QED
    BY <1>1, <1>2, <2>1, <2>2
<1> QED
  BY <1>4, <1>5

\* A comment that is posted has a new number, so no job that is about to write
\* has found it.
LEMMA NewCommentsAreNotFound ==
    ASSUME PolicyInvariant, ReplacesAnAudit, NEW i \in Issues,
           NEW text, posted' = [posted EXCEPT ![i] = @ + 1],
           comments' = [comments EXCEPT ![i] = @ \union {[id |-> posted[i] + 1, text |-> text]}],
           NEW h \in Groups, run'[h] = run[h], run[h].pc = "comment"
    PROVE  /\ run'[h].found <= posted'[run'[h].at]
           /\ \A c \in comments'[run'[h].at] : c.id = run'[h].found => c.text # Talk
<1>1. run[h].at \in Issues /\ run[h].found \in Nat
  BY CommentShapes
<1>2. /\ posted \in [Issues -> Nat] /\ comments \in [Issues -> SUBSET [id : Nat, text : CommentText]]
  BY CommentShapes
<1>3. /\ run[h].found <= posted[run[h].at]
      /\ \A c \in comments[run[h].at] : c.id = run[h].found => c.text # Talk
  BY DEF ReplacesAnAudit
<1>4. CASE run[h].at = i
  BY <1>1, <1>2, <1>3, <1>4
<1>5. CASE run[h].at # i
  BY <1>1, <1>2, <1>3, <1>5
<1> QED
  BY <1>4, <1>5

\* Writing the audit keeps every comment of a person.
LEMMA AuditWriteIsKind ==
    ASSUME PolicyInvariant, ReplacesAnAudit, NEW g \in Groups, WriteComment(g)
    PROVE  /\ ReplacesAnAudit'
           /\ \A i \in Issues : \A c \in comments[i] : c.text = Talk => c \in comments'[i]
<1>1. /\ run \in [Groups -> Jobs] /\ run[g] \in Jobs /\ run[g].pc = "comment" /\ run[g].at \in Issues
      /\ run[g].found \in Nat /\ run[g].errors # Talk
  BY CommentShapes DEF WriteComment
<1>2. /\ posted \in [Issues -> Nat] /\ comments \in [Issues -> SUBSET [id : Nat, text : CommentText]]
  BY CommentShapes
<1>3. PICK n : n.pc # "comment" /\ run' = [run EXCEPT ![g] = n]
  BY ContinueReadsFirst DEF WriteComment, Aborted, Go, NoRun
<1>4. \A h \in Groups : run'[h].pc = "comment" => run'[h] = run[h]
  BY <1>1, <1>3
<1> DEFINE a == run[g].at
<1>5. CASE UNCHANGED <<comments, posted>>
  BY <1>4, <1>5 DEF ReplacesAnAudit
<1>6. CASE Post(a, run[g].errors)
  <2>1. ReplacesAnAudit'
    BY <1>1, <1>4, <1>6, NewCommentsAreNotFound DEF ReplacesAnAudit, Post
  <2>2. \A i \in Issues : comments[i] \subseteq comments'[i]
    BY <1>1, <1>2, <1>6 DEF Post
  <2> QED
    BY <2>1, <2>2
<1>7. CASE /\ comments' = [comments EXCEPT ![a] = Replaced(a, run[g].found, run[g].errors)]
           /\ UNCHANGED posted
  <2>1. /\ \A i \in Issues : i # a => comments'[i] = comments[i]
        /\ comments'[a] = Replaced(a, run[g].found, run[g].errors)
    BY <1>1, <1>2, <1>7
  <2>2. \A c \in comments[a] : c.id = run[g].found => c.text # Talk
    BY <1>1 DEF ReplacesAnAudit
  <2>3. \A c \in comments'[a] : c \in comments[a] \/ c.text # Talk
    BY <1>1, <2>1 DEF Replaced
  <2>4. \A c \in comments[a] : c.text = Talk => c \in comments'[a]
    BY <2>1, <2>2 DEF Replaced
  <2>5. ASSUME NEW h \in Groups, run'[h].pc = "comment"
        PROVE  /\ run'[h].found <= posted'[run'[h].at]
               /\ \A c \in comments'[run'[h].at] : c.id = run'[h].found => c.text # Talk
    <3>1. run'[h] = run[h] /\ run[h].pc = "comment"
      BY <1>4, <2>5
    <3>2. /\ run[h].found <= posted[run[h].at]
          /\ \A c \in comments[run[h].at] : c.id = run[h].found => c.text # Talk
      BY <3>1 DEF ReplacesAnAudit
    <3>3. run[h].at \in Issues
      BY <3>1, CommentShapes
    <3> QED
      BY <1>7, <2>1, <2>3, <3>1, <3>2, <3>3
  <2> QED
    BY <2>1, <2>4, <2>5 DEF ReplacesAnAudit
<1> QED
  BY <1>5, <1>6, <1>7 DEF WriteComment, Aborted, Post

\* Every step keeps ReplacesAnAudit and the comments of people.
LEMMA NextIsKind ==
    ASSUME PolicyInvariant, ReplacesAnAudit, [Next]_vars
    PROVE  /\ ReplacesAnAudit'
           /\ \A i \in Issues : \A c \in comments[i] : c.text = Talk => c \in comments'[i]
<1>0. /\ run \in [Groups -> Jobs] /\ comments \in [Issues -> SUBSET [id : Nat, text : CommentText]]
  BY CommentShapes
<1>1. ASSUME NEW g \in Groups, NEW n, run' = [run EXCEPT ![g] = n],
             n.pc = "comment" => n.found <= posted[n.at] /\ \A c \in comments[n.at] : c.id = n.found => c.text # Talk,
             UNCHANGED <<comments, posted>>
      PROVE  ReplacesAnAudit'
  <2>1. \A h \in Groups : run'[h] = run[h] \/ run'[h] = n
    BY <1>0, <1>1
  <2> QED
    BY <1>1, <2>1 DEF ReplacesAnAudit
<1>2. CASE UNCHANGED <<run, comments, posted>>
  BY <1>2 DEF ReplacesAnAudit
<1>3. ASSUME NEW g \in Groups,
             \/ Start(g) \/ CallFails(g) \/ ReadItem(g) \/ AddItem(g) \/ ReadPull(g) \/ ReadContext(g)
             \/ WriteStatus(g) \/ WriteDate(g) \/ ReadIssue(g) \/ ReadBoard(g)
      PROVE  /\ ReplacesAnAudit'
             /\ UNCHANGED comments
  BY <1>1, <1>3, EarlierCalls
<1>4. ASSUME NEW g \in Groups, ListComments(g)
      PROVE  /\ ReplacesAnAudit'
             /\ UNCHANGED comments
  <2>1. run[g] \in Jobs /\ run[g].pc = "list" /\ run[g].at \in Issues
    BY <1>4, CommentShapes DEF ListComments
  <2> DEFINE n == [run[g] EXCEPT !.pc = "comment", !.found = Existing(run[g].at)]
  <2>2. n.at = run[g].at /\ n.found = Existing(run[g].at)
    BY <2>1 DEF Jobs
  <2>3. UNCHANGED <<comments, posted>> /\ (run' = [run EXCEPT ![g] = n] \/ run' = [run EXCEPT ![g] = Continue(run[g])])
    BY <1>4 DEF ListComments, Go
  <2>4. n.found <= posted[n.at] /\ \A c \in comments[n.at] : c.id = n.found => c.text # Talk
    BY <2>1, <2>2, ExistingIsNoTalk
  <2> HIDE DEF n
  <2> QED
    BY <1>1, <2>3, <2>4, ContinueReadsFirst
<1>5. ASSUME NEW i \in Issues, Comment(i)
      PROVE  /\ ReplacesAnAudit'
             /\ \A j \in Issues : comments[j] \subseteq comments'[j]
  <2>1. ReplacesAnAudit'
    BY <1>5, NewCommentsAreNotFound DEF ReplacesAnAudit, Comment, Post
  <2> QED
    BY <1>0, <1>5, <2>1 DEF Comment, Post
<1>6. ASSUME NEW i \in Issues,
             \/ \E reason \in CloseReasons : Close(i, reason)
             \/ Reopen(i)
             \/ \E form \in Forms : EditIssue(i, form) \/ RetypeIssue(i, form)
             \/ \E status \in Moves : MoveCard(i, status)
             \/ \E priority \in Priorities : SetPriority(i, priority)
      PROVE  UNCHANGED <<run, comments, posted>>
  BY <1>6 DEF Close, Reopen, EditIssue, RetypeIssue, MoveCard, SetPriority, Send
<1>7. ASSUME NEW p \in PullRequests,
             \/ \E links \in [Issues -> {"none", "related", "resolving"}] : OpenPull(p, links) \/ EditPull(p, links)
             \/ \E e \in PullEvents : PullActivity(p, e)
      PROVE  UNCHANGED <<run, comments, posted>>
  BY <1>7 DEF OpenPull, EditPull, PullActivity, Send
<1>8. CASE UNCHANGED vars
  BY <1>2, <1>8 DEF vars
<1> QED
  BY <1>2, <1>3, <1>4, <1>5, <1>6, <1>7, <1>8, AuditWriteIsKind DEF Next

\* The lifecycle deletes and rewrites its own comment only: no step removes or
\* changes what a person wrote under an Issue, although a job looks for the
\* audit in one call and replaces it by number in a later one, with people and
\* other jobs commenting in between (upsert_audit).
THEOREM TalkStaysHolds == Spec => TalkStays
<1> DEFINE Step == \A i \in Issues : \A c \in comments[i] : c.text = Talk => c \in comments'[i]
<1>1. Init => ReplacesAnAudit
  BY DEF Init, ReplacesAnAudit, NoRun
<1>2. PolicyInvariant /\ ReplacesAnAudit /\ [Next]_vars => ReplacesAnAudit' /\ [Step]_vars
  BY NextIsKind
<1> HIDE DEF Step
<1>3. Spec => [][Step]_vars
  BY <1>1, <1>2, PolicyInvariantHolds, PTL DEF Spec
<1> QED
  BY <1>3 DEF Step, TalkStays

--------------------------------------------------------------------------------
(* The scan of the details regions. *)

\* What holds of 0 and carries over to the next number holds up to L.
LEMMA UpTo ==
    ASSUME NEW L \in Nat, NEW S, 0 \in S, \A n \in 0..(L - 1) : n \in S => n + 1 \in S
    PROVE  0..L \subseteq S
<1> DEFINE Missing == {n \in 0..L : n \notin S}
<1> SUFFICES ASSUME Missing # {} PROVE FALSE
  OBVIOUS
<1>1. Missing \in SUBSET Nat
  OBVIOUS
<1> DEFINE m == Least(Missing)
<1>2. m \in Missing /\ \A n \in Missing : m <= n
  BY <1>1, LeastElement
<1>3. m # 0 /\ m - 1 \in 0..(L - 1) /\ m - 1 \notin Missing
  BY <1>2
<1>4. m - 1 \in S
  BY <1>3
<1> QED
  BY <1>2, <1>3, <1>4

\* What a scan can have found out.
Shapes == [depth : Nat, visible : Nat, balanced : BOOLEAN, count : Nat, collapsed : BOOLEAN]

\* One match keeps it that.
LEMMA ScanShapes ==
    ASSUME NEW shape \in Shapes, NEW tag
    PROVE  Scan(shape, tag) \in Shapes
<1>1. CASE tag = "text"
  BY <1>1 DEF Shapes, Scan
<1>2. CASE tag = "details_end"
  <2>1. CASE shape.depth = 0
    <3>1. Scan(shape, tag) = [shape EXCEPT !.balanced = FALSE]
      BY <1>2, <2>1 DEF Scan
    <3> QED
      BY <3>1 DEF Shapes
  <2>2. CASE shape.depth # 0
    <3>1. Scan(shape, tag) = [shape EXCEPT !.depth = @ - 1]
      BY <1>2, <2>2 DEF Scan
    <3> QED
      BY <3>1, <2>2 DEF Shapes
  <2> QED
    BY <2>1, <2>2
<1>3. CASE tag \notin {"text", "details_end"}
  <2>1. Scan(shape, tag) = [shape EXCEPT !.depth = @ + 1, !.count = @ + 1,
                                         !.collapsed = @ /\ tag # "details_open"]
    BY <1>3 DEF Scan
  <2>2. PICK c \in BOOLEAN : c = (shape.collapsed /\ tag # "details_open")
    OBVIOUS
  <2>3. Scan(shape, tag) = [shape EXCEPT !.depth = @ + 1, !.count = @ + 1, !.collapsed = c]
    BY <2>1, <2>2
  <2>4. Scan(shape, tag) = [depth |-> shape.depth + 1, visible |-> shape.visible,
                            balanced |-> shape.balanced, count |-> shape.count + 1, collapsed |-> c]
    BY <2>3 DEF Shapes
  <2> QED
    BY <2>4 DEF Shapes
<1> QED
  BY <1>1, <1>2, <1>3

\* The scan of a body is defined: it starts before the first tag and takes one
\* tag after the other.
LEMMA ScanOfBody ==
    ASSUME NEW body, Len(body) \in Nat
    PROVE  /\ ScanOf(body) \in [0..Len(body) -> Shapes]
           /\ ScanOf(body)[0] = BeforeScan
           /\ \A n \in 1..Len(body) : ScanOf(body)[n] = Scan(ScanOf(body)[n - 1], body[n])
<1> DEFINE L == Len(body)
           Scans(m) == {g \in [0..m -> Shapes] :
                          g[0] = BeforeScan /\ \A n \in 1..m : g[n] = Scan(g[n - 1], body[n])}
           S == {m \in 0..L : Scans(m) # {}}
<1>1. 0 \in S
  <2>1. [n \in 0..0 |-> BeforeScan] \in Scans(0)
    <3>1. BeforeScan \in Shapes
      BY DEF BeforeScan, Shapes
    <3> QED
      BY <3>1
  <2> QED
    BY <2>1
<1>2. ASSUME NEW m \in 0..(L - 1), m \in S PROVE m + 1 \in S
  <2>1. PICK g \in Scans(m) : TRUE
    BY <1>2
  <2> DEFINE h == [n \in 0..(m + 1) |-> IF n = m + 1 THEN Scan(g[m], body[m + 1]) ELSE g[n]]
  <2>2. g \in [0..m -> Shapes] /\ m \in Nat
    BY <2>1
  <2>3. Scan(g[m], body[m + 1]) \in Shapes
    BY <2>2, ScanShapes
  <2>4. h \in [0..(m + 1) -> Shapes]
    BY <2>2, <2>3
  <2>5. h[0] = BeforeScan
    BY <2>1, <2>2
  <2>6. ASSUME NEW n \in 1..(m + 1) PROVE h[n] = Scan(h[n - 1], body[n])
    BY <2>1, <2>2
  <2>7. h \in Scans(m + 1)
    BY <2>4, <2>5, <2>6
  <2> QED
    BY <2>7
<1>3. L \in S
  BY <1>1, <1>2, UpTo
<1>4. PICK g \in Scans(L) : TRUE
  BY <1>3
<1> DEFINE Def(f) == [n \in 0..L |-> IF n = 0 THEN BeforeScan ELSE Scan(f[n - 1], body[n])]
<1>5. g = Def(g)
  BY <1>4
<1>6. ScanOf(body) = Def(ScanOf(body))
  BY <1>5 DEF ScanOf
<1> DEFINE f == ScanOf(body)
           Same == {n \in 0..L : f[n] = g[n]}
<1> HIDE DEF f
<1>7. f = Def(f) /\ g \in Scans(L)
  BY <1>4, <1>6 DEF f
<1>8. f[0] = BeforeScan /\ \A n \in 1..L : f[n] = Scan(f[n - 1], body[n])
  BY <1>7
<1>9. 0..L \subseteq Same
  <2>1. 0 \in Same
    BY <1>7, <1>8
  <2>2. ASSUME NEW n \in 0..(L - 1), n \in Same PROVE n + 1 \in Same
    <3>1. n + 1 \in 1..L /\ (n + 1) - 1 = n
      OBVIOUS
    <3> QED
      BY <1>7, <1>8, <2>2, <3>1
  <2> HIDE DEF Same, Def, Scans
  <2> QED
    BY <2>1, <2>2, UpTo
<1>10. f \in [0..L -> Shapes]
  <2>1. \A n \in 0..L : f[n] \in Shapes
    BY <1>7, <1>9
  <2> QED
    BY <1>7, <2>1
<1> QED
  BY <1>8, <1>10 DEF f

\* Counting over one more index.
LEMMA CountOneMore ==
    ASSUME NEW a \in Nat, NEW n \in Nat, a <= n + 1, NEW P
    PROVE  /\ Cardinality({k \in a..n : k \in P}) \in Nat
           /\ Cardinality({k \in a..(n + 1) : k \in P})
                = Cardinality({k \in a..n : k \in P}) + IF n + 1 \in P THEN 1 ELSE 0
<1> DEFINE C == {k \in a..n : k \in P}
<1>1. IsFiniteSet(C) /\ Cardinality(C) \in Nat
  <2>1. IsFiniteSet(a..n) /\ C \in SUBSET (a..n)
    BY FS_Interval
  <2> QED
    BY <2>1, FS_Subset, FS_CardinalityType
<1>2. n + 1 \notin C
  OBVIOUS
<1>3. {k \in a..(n + 1) : k \in P} = IF n + 1 \in P THEN C \union {n + 1} ELSE C
  OBVIOUS
<1> HIDE DEF C
<1>4. Cardinality(C \union {n + 1}) = Cardinality(C) + 1
  BY <1>1, <1>2, FS_AddElement
<1>5. CASE n + 1 \in P
  BY <1>1, <1>3, <1>4, <1>5 DEF C
<1>6. CASE n + 1 \notin P
  BY <1>1, <1>3, <1>6 DEF C
<1> QED
  BY <1>5, <1>6

\* What one match adds to the depth, where it can.
Weight(tag) == IF tag \in {"details", "details_open"} THEN 1 ELSE IF tag = "details_end" THEN -1 ELSE 0

\* What one more match adds to the counts.
LEMMA OpenedClosed ==
    ASSUME NEW body, NEW a \in Nat, NEW n \in Nat, a <= n + 1
    PROVE  /\ Opened(body, a, n) \in Nat /\ Closed(body, a, n) \in Nat
           /\ body[n + 1] \in {"details", "details_open"}
                => Opened(body, a, n + 1) = Opened(body, a, n) + 1
           /\ body[n + 1] \notin {"details", "details_open"}
                => Opened(body, a, n + 1) = Opened(body, a, n)
           /\ body[n + 1] = "details_end" => Closed(body, a, n + 1) = Closed(body, a, n) + 1
           /\ body[n + 1] # "details_end" => Closed(body, a, n + 1) = Closed(body, a, n)
<1> DEFINE O == {k \in Nat : body[k] \in {"details", "details_open"}}
           C == {k \in Nat : body[k] = "details_end"}
<1>1. \A b \in Nat : /\ Opened(body, a, b) = Cardinality({k \in a..b : k \in O})
                     /\ Closed(body, a, b) = Cardinality({k \in a..b : k \in C})
  <2> TAKE b \in Nat
  <2>a. \A k \in a..b : k \in Nat
    OBVIOUS
  <2>1. {k \in a..b : k \in O} = {k \in a..b : body[k] \in {"details", "details_open"}}
    BY <2>a, Zenon
  <2>2. {k \in a..b : k \in C} = {k \in a..b : body[k] = "details_end"}
    BY <2>a, Zenon
  <2> QED
    BY <2>1, <2>2 DEF Opened, Closed
<1>2. /\ n + 1 \in O <=> body[n + 1] \in {"details", "details_open"}
      /\ n + 1 \in C <=> body[n + 1] = "details_end"
      /\ n + 1 \in Nat
  <2>1. n + 1 \in Nat
    OBVIOUS
  <2> QED
    BY <2>1, Zenon
<1> HIDE DEF O, C
<1>3. /\ Cardinality({k \in a..n : k \in O}) \in Nat
      /\ Cardinality({k \in a..(n + 1) : k \in O})
           = Cardinality({k \in a..n : k \in O}) + IF n + 1 \in O THEN 1 ELSE 0
  BY CountOneMore
<1>4. /\ Cardinality({k \in a..n : k \in C}) \in Nat
      /\ Cardinality({k \in a..(n + 1) : k \in C})
           = Cardinality({k \in a..n : k \in C}) + IF n + 1 \in C THEN 1 ELSE 0
  BY CountOneMore
<1> QED
  BY <1>1, <1>2, <1>3, <1>4

\* Over no index nothing is counted.
LEMMA NothingOpened ==
    ASSUME NEW body, NEW n \in Nat
    PROVE  Opened(body, n + 1, n) = 0 /\ Closed(body, n + 1, n) = 0
<1>1. \A T : {k \in (n + 1)..n : body[k] \in T} = {}
  OBVIOUS
<1>2. {k \in (n + 1)..n : body[k] = "details_end"} = {}
  OBVIOUS
<1> QED
  BY <1>1, <1>2, FS_EmptySet DEF Opened, Closed

\* One more tag changes every surplus by its weight, and adds the surplus over
\* no tag at all.
LEMMA SurplusStep ==
    ASSUME NEW body, NEW n \in Nat
    PROVE  /\ Surplus(body, n) \subseteq Int
           /\ Surplus(body, n + 1) = {e + Weight(body[n + 1]) : e \in Surplus(body, n)} \union {0}
<1> DEFINE D(a, b) == Opened(body, a, b) - Closed(body, a, b)
           w == Weight(body[n + 1])
<1>1. ASSUME NEW a \in 1..(n + 1) PROVE D(a, n) \in Int /\ D(a, n + 1) = D(a, n) + w
  <2>1. a \in Nat /\ a <= n + 1
    BY <1>1
  <2>2. Opened(body, a, n) \in Nat /\ Closed(body, a, n) \in Nat
    BY <2>1, OpenedClosed
  <2>3. CASE body[n + 1] \in {"details", "details_open"}
    <3>1. body[n + 1] # "details_end" /\ w = 1
      BY <2>3 DEF Weight
    <3>2. Opened(body, a, n + 1) = Opened(body, a, n) + 1 /\ Closed(body, a, n + 1) = Closed(body, a, n)
      BY <2>1, <2>3, <3>1, OpenedClosed
    <3> HIDE DEF w
    <3> QED
      BY <2>2, <3>1, <3>2
  <2>4. CASE body[n + 1] = "details_end"
    <3>1. body[n + 1] \notin {"details", "details_open"} /\ w = -1
      BY <2>4 DEF Weight
    <3>2. Opened(body, a, n + 1) = Opened(body, a, n) /\ Closed(body, a, n + 1) = Closed(body, a, n) + 1
      BY <2>1, <2>4, <3>1, OpenedClosed
    <3> HIDE DEF w
    <3> QED
      BY <2>2, <3>1, <3>2
  <2>5. CASE body[n + 1] \notin {"details", "details_open", "details_end"}
    <3>1. body[n + 1] \notin {"details", "details_open"} /\ body[n + 1] # "details_end" /\ w = 0
      BY <2>5 DEF Weight
    <3>2. Opened(body, a, n + 1) = Opened(body, a, n) /\ Closed(body, a, n + 1) = Closed(body, a, n)
      BY <2>1, <3>1, OpenedClosed
    <3> HIDE DEF w
    <3> QED
      BY <2>2, <3>1, <3>2
  <2> QED
    BY <2>3, <2>4, <2>5
<1>2. D(n + 2, n + 1) = 0
  BY NothingOpened, n + 1 \in Nat
<1>3. /\ Surplus(body, n) = {D(a, n) : a \in 1..(n + 1)}
      /\ Surplus(body, n + 1) = {D(a, n + 1) : a \in 1..(n + 2)}
  BY DEF Surplus
<1>4. 1..(n + 2) = 1..(n + 1) \union {n + 2}
  OBVIOUS
<1> HIDE DEF D, w
<1> QED
  BY <1>1, <1>2, <1>3, <1>4 DEF w

\* The first depth is zero.
LEMMA SurplusOfNothing ==
    ASSUME NEW body
    PROVE  Surplus(body, 0) = {0}
<1>1. 1..(0 + 1) = {1}
  OBVIOUS
<1> QED
  BY <1>1, NothingOpened DEF Surplus

\* d is the largest surplus.
IsDepth(d, S) == d \in S /\ \A e \in S : e <= d

\* There is only one, so it is the depth that is read.
LEMMA DepthIsRead ==
    ASSUME NEW body, NEW n \in Nat, NEW d, IsDepth(d, Surplus(body, n))
    PROVE  DepthAfter(body, n) = d
<1>1. \A x, y \in Surplus(body, n) : x <= y /\ y <= x => x = y
  BY SurplusStep
<1> QED
  BY <1>1 DEF DepthAfter, IsDepth

\* One match of the scan keeps its depth the largest surplus.
LEMMA DepthStep ==
    ASSUME NEW body, NEW n \in Nat, NEW shape \in Shapes, IsDepth(shape.depth, Surplus(body, n)),
           body[n + 1] \in Tags
    PROVE  IsDepth(Scan(shape, body[n + 1]).depth, Surplus(body, n + 1))
<1> DEFINE t == body[n + 1]
<1>1. shape.depth \in Nat
  BY DEF Shapes
<1>2. /\ t \in {"details", "details_open"} => Scan(shape, t).depth = shape.depth + 1
      /\ t = "text" => Scan(shape, t).depth = shape.depth
      /\ t = "details_end" => Scan(shape, t).depth = IF shape.depth = 0 THEN 0 ELSE shape.depth - 1
  BY DEF Scan, Shapes
<1>3. /\ t \in {"details", "details_open"} => Weight(t) = 1
      /\ t = "text" => Weight(t) = 0
      /\ t = "details_end" => Weight(t) = -1
  BY DEF Weight
<1>4. \A e \in Surplus(body, n) : e \in Int /\ e <= shape.depth
  BY SurplusStep DEF IsDepth
<1>5. t \in {"details", "details_open", "text", "details_end"}
  BY DEF Tags
<1> HIDE DEF t
<1>6. Surplus(body, n + 1) = {e + Weight(t) : e \in Surplus(body, n)} \union {0}
  BY SurplusStep DEF t
<1>7. shape.depth \in Surplus(body, n)
  BY DEF IsDepth
<1>8. IsDepth(Scan(shape, t).depth, Surplus(body, n + 1))
  <2> DEFINE d == Scan(shape, t).depth
             S == Surplus(body, n)
  <2>1. CASE t \in {"details", "details_open"}
    <3>1. d = shape.depth + 1 /\ Surplus(body, n + 1) = {e + 1 : e \in S} \union {0}
      BY <1>2, <1>3, <1>6, <2>1
    <3> QED
      BY <1>1, <1>4, <1>7, <3>1 DEF IsDepth
  <2>2. CASE t = "text"
    <3>1. d = shape.depth /\ Surplus(body, n + 1) = {e + 0 : e \in S} \union {0}
      BY <1>2, <1>3, <1>6, <2>2
    <3> QED
      BY <1>1, <1>4, <1>7, <3>1 DEF IsDepth
  <2>3. CASE t = "details_end"
    <3>1. Surplus(body, n + 1) = {e + (-1) : e \in S} \union {0}
      BY <1>3, <1>6, <2>3
    <3>2. d = IF shape.depth = 0 THEN 0 ELSE shape.depth - 1
      BY <1>2, <2>3
    <3> QED
      BY <1>1, <1>4, <1>7, <3>1, <3>2 DEF IsDepth
  <2> QED
    BY <1>5, <2>1, <2>2, <2>3
<1> QED
  BY <1>8 DEF t

\* What the scan has found out after n tags, read as nesting.
LEMMA ScanCounts ==
    ASSUME NEW body \in Seq(Tags), NEW n \in 0..Len(body)
    PROVE  LET shape == ScanOf(body)[n] IN
           /\ IsDepth(shape.depth, Surplus(body, n))
           /\ shape.balanced <=> \A m \in 1..n : Opened(body, 1, m) >= Closed(body, 1, m)
           /\ shape.balanced => shape.depth = Opened(body, 1, n) - Closed(body, 1, n)
           /\ shape.count = Opened(body, 1, n)
           /\ shape.collapsed <=> \A m \in 1..n : body[m] # "details_open"
           /\ shape.visible =
                Cardinality({k \in 1..n : body[k] = "text" /\ DepthAfter(body, k) = 0})
<1> DEFINE L == Len(body)
           f == ScanOf(body)
           Even(m) == Opened(body, 1, m) >= Closed(body, 1, m)
           V == {k \in 1..L : body[k] = "text" /\ DepthAfter(body, k) = 0}
           Nested(m) ==
             /\ IsDepth(f[m].depth, Surplus(body, m))
             /\ f[m].balanced <=> \A k \in 1..m : Even(k)
             /\ f[m].balanced => f[m].depth = Opened(body, 1, m) - Closed(body, 1, m)
             /\ f[m].count = Opened(body, 1, m)
             /\ f[m].collapsed <=> \A k \in 1..m : body[k] # "details_open"
             /\ f[m].visible = Cardinality({k \in 1..m : k \in V})
           Good == {m \in 0..L : Nested(m)}
<1>1. L \in Nat /\ \A m \in 1..L : body[m] \in Tags
  OBVIOUS
<1>2. /\ f \in [0..L -> Shapes]
      /\ f[0] = BeforeScan
      /\ \A m \in 1..L : f[m] = Scan(f[m - 1], body[m])
  BY <1>1, ScanOfBody
<1> HIDE DEF f
<1>3. 0 \in Good
  <2>1. Opened(body, 1, 0) = 0 /\ Closed(body, 1, 0) = 0
    BY NothingOpened, 0 + 1 = 1
  <2>2. IsDepth(0, Surplus(body, 0))
    BY SurplusOfNothing DEF IsDepth
  <2>3. {k \in 1..0 : k \in V} = {}
    OBVIOUS
  <2>4. Cardinality({k \in 1..0 : k \in V}) = 0
    BY <2>3, FS_EmptySet
  <2>5. Nested(0)
    <3> HIDE DEF V
    <3> QED
      BY <1>2, <2>1, <2>2, <2>4 DEF BeforeScan
  <2> QED
    BY <1>1, <2>5
<1>4. ASSUME NEW m \in 0..(L - 1), m \in Good PROVE m + 1 \in Good
  <2> DEFINE t == body[m + 1]
             a == f[m]
             b == f[m + 1]
  <2>1. /\ m \in Nat /\ m + 1 \in 1..L /\ (m + 1) - 1 = m /\ a \in Shapes /\ b \in Shapes
        /\ t \in Tags /\ 1..(m + 1) = 1..m \union {m + 1}
    BY <1>1, <1>2
  <2>2. b = Scan(a, t)
    BY <1>2, <2>1
  <2>3. Nested(m)
    BY <1>4
  <2>4. IsDepth(b.depth, Surplus(body, m + 1))
    BY <2>1, <2>2, <2>3, DepthStep
  <2>5. /\ Opened(body, 1, m) \in Nat /\ Closed(body, 1, m) \in Nat
        /\ t \in {"details", "details_open"} => Opened(body, 1, m + 1) = Opened(body, 1, m) + 1
        /\ t \notin {"details", "details_open"} => Opened(body, 1, m + 1) = Opened(body, 1, m)
        /\ t = "details_end" => Closed(body, 1, m + 1) = Closed(body, 1, m) + 1
        /\ t # "details_end" => Closed(body, 1, m + 1) = Closed(body, 1, m)
    <3>1. 1 \in Nat /\ m \in Nat /\ 1 <= m + 1
      BY <2>1
    <3> QED
      BY ONLY <3>1, OpenedClosed
  <2>6. DepthAfter(body, m + 1) = b.depth
    BY <2>1, <2>4, DepthIsRead
  <2>7. m + 1 \in V <=> t = "text" /\ b.depth = 0
    BY <2>1, <2>6
  <2>8. /\ Cardinality({k \in 1..m : k \in V}) \in Nat
        /\ Cardinality({k \in 1..(m + 1) : k \in V})
             = Cardinality({k \in 1..m : k \in V}) + IF m + 1 \in V THEN 1 ELSE 0
    <3> HIDE DEF V
    <3> QED
      BY <2>1, CountOneMore
  <2>9. /\ (\A k \in 1..(m + 1) : Even(k)) <=> (\A k \in 1..m : Even(k)) /\ Even(m + 1)
        /\ (\A k \in 1..(m + 1) : body[k] # "details_open")
             <=> (\A k \in 1..m : body[k] # "details_open") /\ t # "details_open"
    BY <2>1
  <2> DEFINE Before == \A k \in 1..m : Even(k)
             Closes == \A k \in 1..m : body[k] # "details_open"
             Count  == Cardinality({k \in 1..m : k \in V})
  <2>10. /\ a.balanced <=> Before
         /\ a.balanced => a.depth = Opened(body, 1, m) - Closed(body, 1, m)
         /\ a.count = Opened(body, 1, m)
         /\ a.collapsed <=> Closes
         /\ a.visible = Count
         /\ a.depth \in Nat /\ a.balanced \in BOOLEAN /\ a.collapsed \in BOOLEAN
    BY <2>1, <2>3 DEF Shapes
  <2> DEFINE Reads ==
             /\ b.balanced <=> Before /\ Even(m + 1)
             /\ b.balanced => b.depth = Opened(body, 1, m + 1) - Closed(body, 1, m + 1)
             /\ b.count = Opened(body, 1, m + 1)
             /\ b.collapsed <=> Closes /\ t # "details_open"
             /\ b.visible = Count + IF t = "text" /\ b.depth = 0 THEN 1 ELSE 0
  <2>11. Reads
    <3> HIDE DEF Before, Closes, Count, t, a, b
    <3>1. CASE t = "text"
      <4>1. b = [a EXCEPT !.visible = @ + IF a.depth = 0 THEN 1 ELSE 0]
        BY <2>2, <3>1 DEF Scan
      <4> QED
        BY <2>1, <2>5, <2>10, <3>1, <4>1 DEF Shapes
    <3>2. CASE t = "details_end" /\ a.depth = 0
      <4>1. b = [a EXCEPT !.balanced = FALSE]
        BY <2>2, <3>2 DEF Scan
      <4> QED
        BY <2>1, <2>5, <2>10, <3>2, <4>1 DEF Shapes
    <3>3. CASE t = "details_end" /\ a.depth # 0
      <4>1. b = [a EXCEPT !.depth = @ - 1]
        BY <2>2, <3>3 DEF Scan
      <4> QED
        BY <2>1, <2>5, <2>10, <3>3, <4>1 DEF Shapes
    <3>4. CASE t \in {"details", "details_open"}
      <4>1. b = [a EXCEPT !.depth = @ + 1, !.count = @ + 1, !.collapsed = @ /\ t # "details_open"]
        BY <2>2, <3>4 DEF Scan
      <4>2. /\ b.balanced = a.balanced /\ b.depth = a.depth + 1 /\ b.count = a.count + 1
            /\ b.collapsed = (a.collapsed /\ t # "details_open") /\ b.visible = a.visible
        BY <2>1, <4>1 DEF Shapes
      <4>3. /\ Opened(body, 1, m + 1) = Opened(body, 1, m) + 1
            /\ Closed(body, 1, m + 1) = Closed(body, 1, m) /\ t # "text"
        BY <2>5, <3>4 DEF t
      <4>4. b.balanced <=> Before /\ Even(m + 1)
        <5>1. Before => Even(m + 1)
          BY <2>5, <2>10, <4>3
        <5> HIDE DEF Even
        <5> QED
          BY <2>10, <4>2, <5>1
      <4>5. b.balanced => b.depth = Opened(body, 1, m + 1) - Closed(body, 1, m + 1)
        BY <2>5, <2>10, <4>2, <4>3
      <4>6. b.collapsed <=> Closes /\ t # "details_open"
        BY <2>10, <4>2, Zenon
      <4>7. /\ b.count = Opened(body, 1, m + 1)
            /\ b.visible = Count + IF t = "text" /\ b.depth = 0 THEN 1 ELSE 0
        BY <2>5, <2>8, <2>10, <4>2, <4>3 DEF Count
      <4> QED
        BY <4>4, <4>5, <4>6, <4>7
    <3> QED
      BY <2>1, <3>1, <3>2, <3>3, <3>4 DEF Tags
  <2>12. Nested(m + 1)
    <3> HIDE DEF V, Even, t, a, b
    <3> QED
      BY <2>4, <2>7, <2>8, <2>9, <2>11 DEF a, b, t
  <2>13. m + 1 \in 0..L
    BY <1>1, <2>1
  <2> HIDE DEF Nested
  <2> QED
    BY <2>12, <2>13
<1>5. Nested(n)
  <2> HIDE DEF Good
  <2>1. n \in Good
    BY <1>1, <1>3, <1>4, UpTo
  <2> QED
    BY <2>1 DEF Good
<1>6. {k \in 1..n : k \in V} = {k \in 1..n : body[k] = "text" /\ DepthAfter(body, k) = 0}
  BY <1>1
<1> QED
  BY <1>5, <1>6 DEF f

\* The scan of a body's details agrees with the reading as nesting, for every
\* body (extract_outside_details).
THEOREM DetailsReadAsNesting ==
    ASSUME NEW body \in Seq(Tags)
    PROVE  ReadsAsNesting(body)
<1> DEFINE L == Len(body)
           end == ScanOf(body)[L]
<1>1. L \in Nat /\ L \in 0..L
  OBVIOUS
<1>2. end \in Shapes
  BY <1>1, ScanOfBody
<1>3. /\ end.balanced <=> \A m \in 1..L : Opened(body, 1, m) >= Closed(body, 1, m)
      /\ end.balanced => end.depth = Opened(body, 1, L) - Closed(body, 1, L)
      /\ end.count = Opened(body, 1, L)
      /\ end.collapsed <=> \A m \in 1..L : body[m] # "details_open"
      /\ end.visible = Cardinality({k \in 1..L : body[k] = "text" /\ DepthAfter(body, k) = 0})
  BY <1>1, ScanCounts
<1>4. Opened(body, 1, L) \in Nat /\ Closed(body, 1, L) \in Nat
  <2>1. 1 <= L + 1
    BY <1>1
  <2> QED
    BY <1>1, <2>1, OpenedClosed
<1> DEFINE shape == DetailsShape(body)
<1>5. shape = [end EXCEPT !.balanced = @ /\ end.depth = 0]
  BY DEF DetailsShape
<1>6. /\ shape.balanced = (end.balanced /\ end.depth = 0) /\ shape.count = end.count
      /\ shape.collapsed = end.collapsed /\ shape.visible = end.visible
  BY <1>2, <1>5 DEF Shapes
<1>7. end.balanced \in BOOLEAN /\ end.collapsed \in BOOLEAN
  BY <1>2 DEF Shapes
<1> HIDE DEF end, shape
<1>8. shape.balanced <=>
        /\ \A n \in 1..L : Opened(body, 1, n) >= Closed(body, 1, n)
        /\ Opened(body, 1, L) = Closed(body, 1, L)
  <2>1. end.balanced => (end.depth = 0 <=> Opened(body, 1, L) = Closed(body, 1, L))
    BY <1>3, <1>4
  <2> QED
    BY <1>3, <1>6, <2>1, Zenon
<1> QED
  BY <1>3, <1>6, <1>7, <1>8 DEF ReadsAsNesting, shape

\* In every state, for every body that is compared.
THEOREM VisibleTextHolds == Spec => []VisibleTextIsOutsideDetails
<1>1. VisibleTextIsOutsideDetails
  BY BodiesAssumption, DetailsReadAsNesting DEF VisibleTextIsOutsideDetails
<1> QED
  BY <1>1, PTL

================================================================================

---------------------------- MODULE PolicyLifecycle ----------------------------
(***************************************************************************)
(* `hdsh policy lifecycle` (src/hdsh/policy): repository events move the   *)
(* Issues of a repository over a GitHub Project board, initialise their    *)
(* start dates and keep one audit comment on each.  A run is one job of    *)
(* .github/workflows/issue-lifecycle.yml; every API call is a step, may    *)
(* fail (the job then ends) and interleaves with people and with the jobs  *)
(* of other Issues and pull requests.  Jobs of one Issue, or of one pull   *)
(* request, are serialised by the workflow's concurrency group, which      *)
(* keeps one waiting event and drops an older one.                         *)
(*                                                                         *)
(* An Issue's text is what validation tells apart; an audit comment is the *)
(* set of errors it lists.                                                 *)
(***************************************************************************)
EXTENDS Integers, FiniteSets, Sequences, SequencesExt

CONSTANTS
    Issues, PullRequests,  \* numbers: one namespace, as on GitHub
    Organization,          \* config.accountType is "organization"
    AllowUnassignedOwner,  \* config.allowUnassignedOwner
    Statuses,              \* config.statuses, in board order
    Forms,                 \* the texts and labels an Issue may be given
    Moves,                 \* bound: the statuses people drag a card to
    Priorities,            \* bound: the options of the board's priority field they choose
    Bodies,                \* bound: bodies compared with the reference
    PageSize,              \* comments per page (100 in the code)
    MaxActs,               \* bound: things people do
    MaxFailures            \* bound: failing API calls

ASSUME PolicyAssumption ==
    /\ Issues \union PullRequests \subseteq Nat \ {0} /\ Issues \intersect PullRequests = {}
    /\ IsInjective(Statuses) /\ {"In progress", "In review"} \subseteq ToSet(Statuses)
    /\ {"off", "unset"} \intersect ToSet(Statuses) = {} /\ Len(Statuses) \in Nat
    /\ Forms # {} /\ Moves \subseteq ToSet(Statuses)
    /\ PageSize \in Nat \ {0} /\ MaxActs \in Nat /\ MaxFailures \in Nat

Groups   == Issues \union PullRequests
Terminal == {"Done", "No action"}

\* The statuses the projection moves between, in board order.
active_statuses  == ToSet(Statuses) \ Terminal
IsActive(status) == status \in active_statuses
Rank(status)     == CHOOSE k \in DOMAIN Statuses : Statuses[k] = status

VARIABLES
    issue,     \* Issue -> [state, reason, form], as REST returns it
    board,     \* Issue -> [status, by, start, priority]: the Project item and who set its status
    pulls,     \* pull request -> [opened, links]: links says how it names each Issue
    comments,  \* Issue -> its comments, [id, text]; ids grow
    posted,    \* Issue -> how many comments it ever had
    pending,   \* group -> the event that waits for the group
    run,       \* group -> the job that runs
    acts, failures,
    quiet,     \* history: Issues whose last job had nothing disturbing it or since
    settled,   \* history: Issues whose last state event was handled undisturbed
    raced      \* history: Issues audited by two jobs at once, or beyond one page

history == <<quiet, settled, raced>>
vars == <<issue, board, pulls, comments, posted, pending, run, acts, failures, history>>

--------------------------------------------------------------------------------
(* rules.py: validation. *)

\* A body is a sequence of <details>, <details open>, </details> tags and
\* pieces of text.
Tags == {"details", "details_open", "details_end", "text"}

ASSUME BodiesAssumption == Bodies \subseteq Seq(Tags)

\* Mistake (mutation runs only): a closing tag may take the depth below zero.
ScanUnderflow(shape, tag) ==
    CASE tag = "text" -> [shape EXCEPT !.visible = @ + IF shape.depth = 0 THEN 1 ELSE 0]
      [] tag = "details_end" -> [shape EXCEPT !.depth = @ - 1]
      [] OTHER -> [shape EXCEPT !.depth = @ + 1, !.count = @ + 1,
                                !.collapsed = @ /\ tag # "details_open"]

\* One match of the tag scan.
Scan(shape, tag) ==
    CASE tag = "text" -> [shape EXCEPT !.visible = @ + IF shape.depth = 0 THEN 1 ELSE 0]
      [] tag = "details_end" /\ shape.depth = 0 -> [shape EXCEPT !.balanced = FALSE]
      [] tag = "details_end" /\ shape.depth # 0 -> [shape EXCEPT !.depth = @ - 1]
      [] OTHER -> [shape EXCEPT !.depth = @ + 1, !.count = @ + 1,
                                !.collapsed = @ /\ tag # "details_open"]

\* extract_outside_details: the text outside the regions, and their shape, as
\* the scan stands after each prefix of the body.
BeforeScan == [depth |-> 0, visible |-> 0, balanced |-> TRUE, count |-> 0, collapsed |-> TRUE]

ScanOf(body) ==
    LET after[n \in 0..Len(body)] == IF n = 0 THEN BeforeScan ELSE Scan(after[n - 1], body[n])
    IN  after

DetailsShape(body) ==
    LET end == ScanOf(body)[Len(body)]
    IN  [end EXCEPT !.balanced = @ /\ end.depth = 0]

Types == {"Idea", "Feature", "Bug", "Research", "Task"}
TypeLabels == {"type/idea", "type/feature", "type/bug", "type/research", "type/task"}

Error(condition, text) == IF condition THEN {text} ELSE {}

\* The body, and the owner line against the assignees.
BodyErrors(form) ==
    LET shape == DetailsShape(form.body)
        many  == Cardinality(form.assignees) >= 2
        owned == form.owner # "none"
    IN  Error(~shape.balanced, "unbalanced details") \union
        Error(shape.count = 0, "no details") \union
        Error(~shape.collapsed, "open details") \union
        Error(shape.visible > form.limit, "too long") \union
        Error(many /\ ~owned, "owner line missing") \union
        Error(many /\ owned /\ form.owner \notin form.assignees, "owner not assigned") \union
        Error(~many /\ owned /\ ~(form.assignees = {} /\ AllowUnassignedOwner), "owner line")

\* The classification: the native type, or exactly one type/* label.
IsClassified(form) ==
    IF Organization THEN form.type \in Types
    ELSE Cardinality(form.labels \intersect TypeLabels) = 1

FormErrors(form) ==
    BodyErrors(form) \union
    Error("kind" \in form.labels, "kind label") \union
    Error(Organization /\ form.labels \intersect TypeLabels # {}, "type label") \union
    Error(form.prefixed, "title prefix") \union
    Error(~IsClassified(form), "type")

\* The state of the Issue against the status of its card.
StatusErrors(i, status) ==
    Error(status \notin ToSet(Statuses), "no legal status") \union
    Error(status = "Done" /\ ~(i.state = "closed" /\ i.reason = "completed"), "Done") \union
    Error(status = "No action" /\ ~(i.state = "closed" /\ i.reason = "not_planned"), "No action")
    \union Error(status \notin Terminal /\ i.state # "open", "closed but not terminal")

\* The priority is a field of the Project item.
PriorityErrors(priority) == Error(priority \notin {"none", "p0", "p1", "p2", "p3"}, "priority")

validate_issue(i, card) ==
    FormErrors(i.form) \union StatusErrors(i, card.status) \union PriorityErrors(card.priority)

--------------------------------------------------------------------------------
(* rules.py: events and transitions. *)

Event(name, action, reason) == [name |-> name, action |-> action, reason |-> reason]
NoEvent == Event("none", "none", "none")

\* The events that set a status outright, and the one they set: every reason
\* but not_planned, duplicate and none among them, sets Done.
IsStateEvent(e) == e.name = "issues" /\ e.action \in {"opened", "closed", "reopened"}
StateStatus(e)  == IF e.action # "closed" THEN "Inbox"
                   ELSE IF e.reason = "not_planned" THEN "No action" ELSE "Done"

\* resolving_issue_status_command; approvals and comments have none.
Command(e) ==
    CASE e.name = "pull_request" /\ e.action = "review_requested" -> "review-requested"
      [] e.name = "pull_request" /\
           e.action \in {"opened", "edited", "synchronize", "reopened", "labeled", "unlabeled"} -> "implementation"
      [] e.name = "pull_request_review" /\ e.action = "changes_requested" -> "changes-requested"
      [] OTHER -> "none"

\* Mistake (mutation runs only): the actor of the status is not asked.
NextStatusOfAnyone(card, command) ==
    LET target == IF command = "review-requested" THEN "In review" ELSE "In progress"
    IN  IF command = "changes-requested" /\ card.status = "In review" THEN target
        ELSE IF IsActive(card.status) /\ Rank(card.status) < Rank(target) THEN target ELSE "none"

\* Mistake (mutation runs only): a terminal status is not protected.
NextStatusOfTerminal(card, command) ==
    LET target == IF command = "review-requested" THEN "In review" ELSE "In progress"
    IN  IF ~IsActive(card.status) \/ Rank(card.status) < Rank(target) THEN target ELSE "none"

\* next_resolving_issue_status: forward, except that requested changes take
\* back a review the lifecycle itself had set.
NextStatus(card, command) ==
    LET target == IF command = "review-requested" THEN "In review" ELSE "In progress"
    IN  IF command = "changes-requested" /\ card.status = "In review" /\ card.by = "lifecycle"
        THEN target
        ELSE IF IsActive(card.status) /\ Rank(card.status) < Rank(target) THEN target ELSE "none"

--------------------------------------------------------------------------------
(* Jobs. *)

Card(status, by, start, priority) ==
    [status |-> status, by |-> by, start |-> start, priority |-> priority]
OffBoard == Card("off", "nobody", 0, "none")     \* no Project item
NewItem  == Card("unset", "nobody", 0, "none")   \* an item with no field set
Unread   == [state |-> "unread", reason |-> "none", form |-> CHOOSE form \in Forms : TRUE]

NoRun == [pc |-> "idle", task |-> "none", event |-> NoEvent, at |-> 0, resolving |-> {},
          dates |-> {}, seen |-> OffBoard, snapshot |-> Unread, errors |-> {}, found |-> 0]

Init ==
    /\ issue \in [Issues -> [state : {"open"}, reason : {"none"}, form : Forms]]
    /\ board = [i \in Issues |-> OffBoard]
    /\ pulls = [p \in PullRequests |-> [opened |-> FALSE, links |-> [i \in Issues |-> "none"]]]
    /\ comments = [i \in Issues |-> {}] /\ posted = [i \in Issues |-> 0]
    /\ pending = [g \in Groups |-> IF g \in Issues THEN Event("issues", "opened", "none") ELSE NoEvent]
    /\ run = [g \in Groups |-> NoRun]
    /\ acts = 0 /\ failures = 0 /\ quiet = {} /\ settled = Issues /\ raced = {}

IsRunning(g) == run[g].pc # "idle"
Alone(g)     == \A h \in Groups \ {g} : ~IsRunning(h)
Least(S)     == CHOOSE n \in S : \A m \in S : n <= m

\* The next Issue of a pull-request job: transitions first, then start dates.
Continue(r) ==
    IF r.resolving # {}
    THEN [NoRun EXCEPT !.pc = "context", !.task = "transition", !.event = r.event,
                       !.at = Least(r.resolving), !.dates = r.dates,
                       !.resolving = r.resolving \ {Least(r.resolving)}]
    ELSE IF r.dates # {}
    THEN [NoRun EXCEPT !.pc = "item", !.task = "date", !.event = r.event,
                       !.at = Least(r.dates), !.dates = r.dates \ {Least(r.dates)}]
    ELSE NoRun

Go(g, r) == run' = [run EXCEPT ![g] = r]

\* GitHub starts the waiting event of a group whose last job has ended.
Start(g) ==
    LET e == pending[g]
        r == [NoRun EXCEPT !.event = e, !.at = IF g \in Issues THEN g ELSE 0]
    IN  /\ ~IsRunning(g) /\ e # NoEvent
        /\ pending' = [pending EXCEPT ![g] = NoEvent]
        /\ Go(g, IF g \in Issues
                 THEN IF IsStateEvent(e) THEN [r EXCEPT !.pc = "item", !.task = "status"]
                                         ELSE [r EXCEPT !.pc = "item", !.task = "membership"]
                 ELSE IF Command(e) = "none" THEN NoRun ELSE [r EXCEPT !.pc = "pull"])
        /\ quiet' = IF Alone(g) THEN quiet \union ({g} \intersect Issues) ELSE {}
        /\ UNCHANGED <<issue, board, pulls, comments, posted, acts, failures, settled, raced>>

\* An API call fails: RuntimeError, the job ends, what it has written stays.
Aborted(g) ==
    /\ Go(g, NoRun)
    /\ quiet' = {} /\ settled' = settled \ {g}
    /\ UNCHANGED <<issue, board, pulls, comments, posted, pending, acts, raced>>

CallFails(g) ==
    /\ IsRunning(g) /\ failures < MaxFailures /\ failures' = failures + 1 /\ Aborted(g)

\* What follows once the Project item is there: a status that is set already
\* is not written, and neither is a date.
WithItem(r, card) ==
    CASE r.task = "membership" -> [r EXCEPT !.pc = "issue"]
      [] r.task = "status" /\ card.status = StateStatus(r.event) ->
           [r EXCEPT !.pc = "item", !.task = "membership"]
      [] r.task = "date" /\ card.start # 0 -> Continue(r)
      [] OTHER -> [r EXCEPT !.pc = "write", !.seen = card]

\* ensure_project_item: read the item, and add it when it is missing.
ReadItem(g) ==
    LET r == run[g] IN
    /\ r.pc = "item"
    /\ Go(g, IF board[r.at] = OffBoard THEN [r EXCEPT !.pc = "add"] ELSE WithItem(r, board[r.at]))
    /\ UNCHANGED <<issue, board, pulls, comments, posted, pending, acts, failures, history>>

AddItem(g) ==
    LET r == run[g] IN
    /\ r.pc = "add"
    /\ board' = [board EXCEPT ![r.at] = IF @ = OffBoard THEN NewItem ELSE @]
    /\ Go(g, WithItem(r, NewItem))
    /\ UNCHANGED <<issue, pulls, comments, posted, pending, acts, failures, history>>

\* The Issues a body names, and those a closing keyword names; links to other
\* repositories and to pull requests are none.
References(links) ==
    [all |-> {i \in Issues : links[i] # "none"}, resolving |-> {i \in Issues : links[i] = "resolving"}]

\* The pull request's live body, and its references.
ReadPull(g) ==
    LET r    == run[g]
        refs == References(pulls[g].links)
    IN  /\ r.pc = "pull"
        /\ Go(g, Continue([r EXCEPT !.resolving = refs.resolving,
                                    !.dates = IF r.event.action = "opened" THEN refs.all ELSE {}]))
        /\ UNCHANGED <<issue, board, pulls, comments, posted, pending, acts, failures, history>>

\* Mistake (mutation runs only): a job without a permitted transition writes too.
ReadContextAlways(g) ==
    LET r == run[g] IN
    /\ r.pc = "context"
    /\ Go(g, [r EXCEPT !.pc = "write", !.seen = board[r.at]])
    /\ UNCHANGED <<issue, board, pulls, comments, posted, pending, acts, failures, history>>

\* The current card, and the transition planned from it.
ReadContext(g) ==
    LET r == run[g] IN
    /\ r.pc = "context"
    /\ Go(g, IF NextStatus(board[r.at], Command(r.event)) = "none" THEN Continue(r)
             ELSE [r EXCEPT !.pc = "write", !.seen = board[r.at]])
    /\ UNCHANGED <<issue, board, pulls, comments, posted, pending, acts, failures, history>>

NewStatus(r) ==
    IF r.task = "status" THEN StateStatus(r.event) ELSE NextStatus(r.seen, Command(r.event))

\* _update_status: no compare-and-swap, whatever the card is by now.  The other
\* fields of the item stay.
WriteStatus(g) ==
    LET r == run[g] IN
    /\ r.pc = "write" /\ r.task \in {"status", "transition"}
    /\ board' = [board EXCEPT ![r.at] = Card(NewStatus(r), "lifecycle", @.start, @.priority)]
    /\ settled' = IF r.task = "transition" /\ r.seen.status # board[r.at].status
                  THEN settled \ {r.at} ELSE settled
    /\ Go(g, IF r.task = "status" THEN [r EXCEPT !.pc = "item", !.task = "membership", !.seen = OffBoard]
             ELSE [r EXCEPT !.pc = "issue", !.seen = OffBoard])
    /\ UNCHANGED <<issue, pulls, comments, posted, pending, acts, failures, quiet, raced>>

\* initialize_issue_start_date, when the value was empty; the date is the
\* pull request's.
WriteDate(g) ==
    LET r == run[g] IN
    /\ r.pc = "write" /\ r.task = "date"
    /\ board' = [board EXCEPT ![r.at].start = g]
    /\ Go(g, Continue(r))
    /\ UNCHANGED <<issue, pulls, comments, posted, pending, acts, failures, history>>

\* audit_issue: the Issue, then its card, then its comments are read.
ReadIssue(g) ==
    LET r == run[g] IN
    /\ r.pc = "issue"
    /\ Go(g, [r EXCEPT !.pc = "board", !.snapshot = issue[r.at]])
    /\ UNCHANGED <<issue, board, pulls, comments, posted, pending, acts, failures, history>>

ReadBoard(g) ==
    LET r == run[g] IN
    /\ r.pc = "board"
    /\ Go(g, [r EXCEPT !.pc = "list", !.snapshot = Unread,
                       !.errors = validate_issue(r.snapshot, board[r.at])])
    /\ UNCHANGED <<issue, board, pulls, comments, posted, pending, acts, failures, history>>

Talk == {"talk"}

\* The page that upsert_audit asks for: the oldest comments.
Page(i) ==
    {c \in comments[i] : Cardinality({e \in comments[i] : e.id < c.id}) < PageSize}

\* The first comment of the bot with the marker, on that page.
Existing(i) == LET hits == {c.id : c \in {c \in Page(i) : c.text # Talk}}
               IN  IF hits = {} THEN 0 ELSE Least(hits)

ListComments(g) ==
    LET r     == run[g]
        found == Existing(r.at)
        same  == [id |-> found, text |-> r.errors] \in comments[r.at]
    IN  /\ r.pc = "list"
        /\ Go(g, IF same \/ (found = 0 /\ r.errors = {}) THEN Continue(r)
                 ELSE [r EXCEPT !.pc = "comment", !.found = found])
        /\ raced' = IF \/ Cardinality(comments[r.at]) > PageSize
                       \/ \E h \in Groups \ {g} : run[h].at = r.at /\ run[h].pc = "comment"
                    THEN raced \union {r.at} ELSE raced
        /\ UNCHANGED <<issue, board, pulls, comments, posted, pending, acts, failures, quiet, settled>>

Post(i, text) ==
    /\ posted' = [posted EXCEPT ![i] = @ + 1]
    /\ comments' = [comments EXCEPT ![i] = @ \union {[id |-> posted[i] + 1, text |-> text]}]

\* Mistake (mutation runs only): an audit that passes leaves its comment.
KeptWhenPassing(i, found, errors) ==
    IF errors = {} THEN comments[i]
    ELSE {c \in comments[i] : c.id # found} \union {[id |-> found, text |-> errors]}

\* DELETE when nothing is wrong any more, else PATCH.
Replaced(i, found, errors) ==
    {c \in comments[i] : c.id # found} \union
    (IF errors = {} THEN {} ELSE {[id |-> found, text |-> errors]})

\* POST, PATCH or DELETE; the comment may be gone by now, which is a 404.
WriteComment(g) ==
    LET r    == run[g]
        gone == r.found # 0 /\ \A c \in comments[r.at] : c.id # r.found
    IN  /\ r.pc = "comment"
        /\ \/ gone /\ Aborted(g) /\ UNCHANGED failures
           \/ /\ ~gone
              /\ IF r.found = 0 THEN Post(r.at, r.errors)
                 ELSE /\ comments' = [comments EXCEPT ![r.at] = Replaced(r.at, r.found, r.errors)]
                      /\ UNCHANGED posted
              /\ Go(g, Continue(r))
              /\ UNCHANGED <<issue, board, pulls, pending, acts, failures, history>>

--------------------------------------------------------------------------------
(* People, and the events GitHub sends for what they do. *)

Act == acts < MaxActs /\ acts' = acts + 1

\* A group keeps one waiting event; `cancel-in-progress: false` protects the
\* running job only.
Send(g, e) ==
    /\ pending' = [pending EXCEPT ![g] = e]
    /\ settled' = IF IsStateEvent(e) THEN settled \union {g}
                  ELSE IF IsStateEvent(pending[g]) THEN settled \ {g} ELSE settled
    /\ UNCHANGED <<board, run, failures, quiet, raced>>

\* "duplicate" is any reason but the two that have a column, and no reason.
CloseReasons == {"completed", "not_planned", "duplicate"}

Close(i, reason) ==
    /\ Act /\ issue[i].state = "open"
    /\ issue' = [issue EXCEPT ![i].state = "closed", ![i].reason = reason]
    /\ Send(i, Event("issues", "closed", reason)) /\ UNCHANGED <<pulls, comments, posted>>

Reopen(i) ==
    /\ Act /\ issue[i].state = "closed"
    /\ issue' = [issue EXCEPT ![i].state = "open", ![i].reason = "none"]
    /\ Send(i, Event("issues", "reopened", "none")) /\ UNCHANGED <<pulls, comments, posted>>

\* Only the native type differs.
Retyped(old, new) == new # old /\ new = [old EXCEPT !.type = new.type]

\* edited, labeled, assigned, ...
EditIssue(i, form) ==
    /\ Act /\ issue[i].form # form /\ ~Retyped(issue[i].form, form)
    /\ issue' = [issue EXCEPT ![i].form = form]
    /\ Send(i, Event("issues", "edited", "none")) /\ UNCHANGED <<pulls, comments, posted>>

\* No event is subscribed for a native type, a comment or a field of the
\* Project item: what people do to these waits for the next event.
RetypeIssue(i, form) ==
    /\ Act /\ Retyped(issue[i].form, form)
    /\ issue' = [issue EXCEPT ![i].form = form]
    /\ quiet' = quiet \ {i}
    /\ UNCHANGED <<board, pulls, comments, posted, pending, run, failures, settled, raced>>

Comment(i) ==
    /\ Act /\ Post(i, Talk)
    /\ UNCHANGED <<issue, board, pulls, pending, run, failures, history>>

MoveCard(i, status) ==
    /\ Act /\ board[i] # OffBoard /\ board[i].status # status
    /\ board' = [board EXCEPT ![i].status = status, ![i].by = "human"]
    /\ quiet' = quiet \ {i} /\ settled' = settled \ {i}
    /\ UNCHANGED <<issue, pulls, comments, posted, pending, run, failures, raced>>

SetPriority(i, priority) ==
    /\ Act /\ board[i] # OffBoard /\ board[i].priority # priority
    /\ board' = [board EXCEPT ![i].priority = priority]
    /\ quiet' = quiet \ {i}
    /\ UNCHANGED <<issue, pulls, comments, posted, pending, run, failures, settled, raced>>

OpenPull(p, links) ==
    /\ Act /\ ~pulls[p].opened
    /\ pulls' = [pulls EXCEPT ![p] = [opened |-> TRUE, links |-> links]]
    /\ Send(p, Event("pull_request", "opened", "none")) /\ UNCHANGED <<issue, comments, posted>>

EditPull(p, links) ==
    /\ Act /\ pulls[p].opened /\ pulls[p].links # links
    /\ pulls' = [pulls EXCEPT ![p].links = links]
    /\ Send(p, Event("pull_request", "edited", "none")) /\ UNCHANGED <<issue, comments, posted>>

PullEvents ==
    {Event("pull_request", "synchronize", "none"), Event("pull_request", "review_requested", "none"),
     Event("pull_request_review", "changes_requested", "none"),
     Event("pull_request_review", "approved", "none")}

PullActivity(p, e) ==
    /\ Act /\ pulls[p].opened
    /\ Send(p, e) /\ UNCHANGED <<issue, pulls, comments, posted>>

Next ==
    \/ \E g \in Groups :
         \/ Start(g) \/ CallFails(g) \/ ReadItem(g) \/ AddItem(g) \/ ReadPull(g) \/ ReadContext(g)
         \/ WriteStatus(g) \/ WriteDate(g)
         \/ ReadIssue(g) \/ ReadBoard(g) \/ ListComments(g) \/ WriteComment(g)
    \/ \E i \in Issues :
         \/ \E reason \in CloseReasons : Close(i, reason)
         \/ Reopen(i) \/ Comment(i)
         \/ \E form \in Forms : EditIssue(i, form) \/ RetypeIssue(i, form)
         \/ \E status \in Moves : MoveCard(i, status)
         \/ \E priority \in Priorities : SetPriority(i, priority)
    \/ \E p \in PullRequests :
         \/ \E links \in [Issues -> {"none", "related", "resolving"}] : OpenPull(p, links) \/ EditPull(p, links)
         \/ \E e \in PullEvents : PullActivity(p, e)

Spec == Init /\ [][Next]_vars

--------------------------------------------------------------------------------
(* Correctness. *)

IssueStates == [state : {"open", "closed"}, reason : CloseReasons \union {"none"}, form : Forms]
Cards       == [status : ToSet(Statuses) \union {"off", "unset", "Inbox"} \union Terminal,
                by : {"nobody", "lifecycle", "human"}, start : PullRequests \union {0},
                priority : Priorities \union {"none"}]
BodyTexts   == {"unbalanced details", "no details", "open details", "too long",
                "owner line missing", "owner not assigned", "owner line"}
FormTexts   == {"kind label", "type label", "title prefix", "type"}
CardTexts   == {"priority", "no legal status", "Done", "No action", "closed but not terminal"}
CommentText == SUBSET (BodyTexts \union FormTexts \union CardTexts \union Talk)
Events      == [name : {"none", "issues", "pull_request", "pull_request_review"},
                action : {"none", "opened", "closed", "reopened", "edited", "synchronize",
                          "review_requested", "changes_requested", "approved"},
                reason : CloseReasons \union {"none"}]
Jobs        == [pc : {"idle", "item", "add", "pull", "context", "write", "issue", "board", "list",
                      "comment"},
                task : {"none", "status", "membership", "transition", "date"}, event : Events,
                at : Issues \union {0}, resolving : SUBSET Issues, dates : SUBSET Issues,
                seen : Cards, snapshot : IssueStates \union {Unread}, errors : CommentText,
                found : Nat]

\* Issues, cards, comments and jobs have their shapes; a job that is about to
\* write a transition has one to write.
TypeOK ==
    /\ issue \in [Issues -> IssueStates] /\ board \in [Issues -> Cards]
    /\ pulls \in [PullRequests -> [opened : BOOLEAN, links : [Issues -> {"none", "related", "resolving"}]]]
    /\ posted \in [Issues -> Nat] /\ comments \in [Issues -> SUBSET [id : Nat, text : CommentText]]
    /\ \A i \in Issues : \A c \in comments[i] : c.id \in 1..posted[i] /\ c.text # {}
    /\ pending \in [Groups -> Events] /\ run \in [Groups -> Jobs]
    /\ \A i \in Issues : board[i].status = "off" => board[i] = OffBoard
    /\ \A g \in Groups :
         /\ run[g].pc \in {"idle", "pull"} <=> run[g].at = 0
         /\ run[g].pc = "write" /\ run[g].task = "transition" =>
              NewStatus(run[g]) \in {"In progress", "In review"}
    /\ quiet \subseteq Issues /\ settled \subseteq Issues /\ raced \subseteq Issues
    /\ acts \in 0..MaxActs /\ failures \in 0..MaxFailures

AtRest == \A g \in Groups : ~IsRunning(g) /\ pending[g] = NoEvent

Audits(i) == {c \in comments[i] : c.text # Talk}

\* When everything is at rest, the audit comment of an Issue says what is
\* wrong with it now, and there is none when nothing is: whatever sequence of
\* edits, closings, dropped events and pull-request jobs led there, unless a
\* call failed, two jobs overlapped, somebody dragged the card, or the comment
\* left the first page.  A priority or a native type changed by hand sends no
\* event, so it counts from the next event of the Issue on.  An Issue never has two of them unless two jobs audited
\* it at once or it was not on that page (audit_issue, upsert_audit,
\* run_lifecycle).
AuditIsCurrent ==
    \A i \in Issues \ raced :
        /\ Cardinality(Audits(i)) <= 1
        /\ AtRest /\ i \in quiet =>
              {c.text : c \in Audits(i)} =
                  {validate_issue(issue[i], board[i])} \ {{}}

\* At rest, an Issue closed as not planned is in No action, one closed for any
\* other reason or for none is in Done, and an open one is in neither, through
\* any pull-request traffic before and after it was closed; unless the closing event was dropped for a later edit, its
\* job failed, a stale transition overwrote it, or somebody dragged the card
\* (run_lifecycle, next_resolving_issue_status).
BoardMatchesIssue ==
    AtRest => \A i \in settled :
        IF issue[i].state = "open" THEN board[i].status \notin Terminal
        ELSE board[i].status = IF issue[i].reason = "not_planned" THEN "No action" ELSE "Done"

\* A pull-request job that writes over the card it read moves it forward; only
\* requested changes take a card back, and only from a review the lifecycle
\* had set.  A terminal card, one without a status, and a human's review stay,
\* and a start date is never replaced by one that read it
\* (next_resolving_issue_status, initialize_issue_start_date).
PlansStand ==
    [][\A g \in PullRequests : run[g].pc = "write" /\ run'[g] # run[g] /\ failures' = failures =>
         LET i == run[g].at IN
         run[g].seen.status = board[i].status /\ run[g].seen.by = board[i].by
           /\ run[g].seen.start = board[i].start /\ board'[i] # board[i] =>
             IF run[g].task = "date" THEN board[i].start = 0
             ELSE /\ board[i].status \notin Terminal \union {"off", "unset"}
                  /\ \/ Rank(board[i].status) < Rank(board'[i].status)
                     \/ board[i].status = "In review" /\ board[i].by = "lifecycle"
                        /\ run[g].event.action = "changes_requested"]_vars

\* A declarative reading of nesting: the depth after a prefix is the largest
\* surplus of opening tags over a suffix of it, and a body is balanced when no
\* closing tag is surplus and none is missing.
Opened(body, a, b) == Cardinality({k \in a..b : body[k] \in {"details", "details_open"}})
Closed(body, a, b) == Cardinality({k \in a..b : body[k] = "details_end"})
Surplus(body, n)   == {Opened(body, a, n) - Closed(body, a, n) : a \in 1..(n + 1)}
DepthAfter(body, n) == CHOOSE d \in Surplus(body, n) : \A e \in Surplus(body, n) : e <= d

ReadsAsNesting(body) ==
    LET shape == DetailsShape(body)
    IN  /\ shape.visible =
             Cardinality({k \in 1..Len(body) : body[k] = "text" /\ DepthAfter(body, k) = 0})
        /\ shape.balanced <=>
             /\ \A n \in 1..Len(body) : Opened(body, 1, n) >= Closed(body, 1, n)
             /\ Opened(body, 1, Len(body)) = Closed(body, 1, Len(body))
        /\ shape.count = Opened(body, 1, Len(body))
        /\ shape.collapsed <=> \A n \in 1..Len(body) : body[n] # "details_open"

\* The details scan agrees with that reading (extract_outside_details).  It does
\* not depend on the state, so the states at rest before anybody acted are
\* enough to evaluate it in.
VisibleTextIsOutsideDetails == AtRest /\ acts = 0 => \A body \in Bodies : ReadsAsNesting(body)

--------------------------------------------------------------------------------
(* What the proofs add. *)

\* A job is where its task can be: an Issue's group sets a status, then audits;
\* a pull request's makes transitions, each with an audit, then sets dates.  A
\* job that writes has an item to write to, and a date only where it saw none;
\* a comment is posted for errors only.
JobFits(g) ==
    LET r == run[g] IN
    /\ r.pc = "idle" => r = NoRun
    /\ g \in Issues /\ r.pc # "idle" =>
         /\ r.at = g /\ r.task \in {"status", "membership"}
         /\ r.resolving = {} /\ r.dates = {}
    /\ g \in PullRequests => r.task \in {"none", "transition", "date"}
    /\ r.task = "none" => r.pc \in {"idle", "pull"}
    /\ r.task = "status" => IsStateEvent(r.event) /\ r.pc \in {"item", "add", "write"}
    /\ r.task = "membership" => r.pc \in {"item", "add", "issue", "board", "list", "comment"}
    /\ r.task = "transition" => r.pc \in {"context", "write", "issue", "board", "list", "comment"}
    /\ r.task = "date" => r.pc \in {"item", "add", "write"}
    /\ r.pc = "write" => board[r.at].status # "off"
    /\ r.pc = "write" /\ r.task = "date" => r.seen.start = 0
    /\ r.errors # Talk
    /\ r.pc = "comment" => r.found # 0 \/ r.errors # {}

JobsFit == \A g \in Groups : JobFits(g)

\* The status an Issue in this state belongs in.
Fits(i, status) ==
    IF issue[i].state = "open" THEN status \notin Terminal
    ELSE status = IF issue[i].reason = "not_planned" THEN "No action" ELSE "Done"

\* A settled Issue's state event waits, or is being handled, or the card is right.
BoardFollows ==
    \A i \in settled :
        IF IsStateEvent(pending[i]) THEN Fits(i, StateStatus(pending[i]))
        ELSE IF run[i].task = "status" THEN Fits(i, StateStatus(run[i].event))
        ELSE Fits(i, board[i].status)

\* Comments are numbered; an Issue that is not raced has one audit at most, and
\* one job at most is about to write it, knowing which it is.
CommentsNumbered ==
    \A i \in Issues : /\ IsFiniteSet(comments[i])
                      /\ \A c, d \in comments[i] : c.id = d.id => c = d

Writing(g, i) == run[g].at = i /\ run[g].pc = "comment"

AuditsAreSole ==
    \A i \in Issues \ raced :
        /\ \A c, d \in Audits(i) : c = d
        /\ \A g, h \in Groups : Writing(g, i) /\ Writing(h, i) => g = h
        /\ \A g \in Groups : Writing(g, i) =>
             IF run[g].found = 0 THEN Audits(i) = {} ELSE \E c \in Audits(i) : c.id = run[g].found

\* The errors an Issue has now, and the audit that lists them.
ErrorsOf(i)     == validate_issue(issue[i], board[i])
AuditMatches(i) == {c.text : c \in Audits(i)} = {ErrorsOf(i)} \ {{}}

\* A job that will come to an audit of the Issue, or is in it.
Auditing(g, i) ==
    IsRunning(g) /\ \/ g = i
                    \/ run[g].at = i /\ run[g].pc \in {"issue", "board", "list", "comment"}

\* What it has read of the Issue is still so.
Fresh(g, i) ==
    run[g].at = i => /\ run[g].pc = "board" => run[g].snapshot = issue[i]
                     /\ run[g].pc \in {"list", "comment"} => run[g].errors = ErrorsOf(i)

\* While nothing disturbs an Issue, jobs run one at a time, and one is auditing
\* it on fresh reads whenever its audit is not right.
AuditsFollow ==
    /\ quiet # {} => \A g, h \in Groups : IsRunning(g) /\ IsRunning(h) => g = h
    /\ \A i \in quiet : pending[i] = NoEvent =>
         /\ \A g \in Groups : Fresh(g, i)
         /\ i \in raced \/ AuditMatches(i) \/ \E g \in Groups : Auditing(g, i)

PolicyInvariant ==
    TypeOK /\ JobsFit /\ BoardFollows /\ CommentsNumbered /\ AuditsAreSole /\ AuditsFollow

\* What a job is about to replace is an audit, whatever was posted since it looked.
ReplacesAnAudit ==
    \A g \in Groups : run[g].pc = "comment" =>
        /\ run[g].found <= posted[run[g].at]
        /\ \A c \in comments[run[g].at] : c.id = run[g].found => c.text # Talk

\* No step removes or changes a comment of a person (upsert_audit).
TalkStays ==
    [][\A i \in Issues : \A c \in comments[i] : c.text = Talk => c \in comments'[i]]_vars

================================================================================

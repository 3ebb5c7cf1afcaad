------------------------------ MODULE InstallLock ------------------------------
(***************************************************************************)
(* The lock file `hdsh-hooks-install.lock` of src/hdsh/worktree/           *)
(* ownership.py, which serialises `hdsh worktree install` over every       *)
(* worktree of one repository.  Several installer processes, the file      *)
(* system and the operator take interleaved steps; every system call that  *)
(* reads or writes the lock path is a step of its own.                     *)
(*                                                                         *)
(* A run is one execution of the installer.  Its lock record `PID uuid\n`  *)
(* names the run and no other, so a run stands for its record; that the    *)
(* operating system may hand a dead run's PID to another process is in     *)
(* Judge.  Inode numbers are reused as soon as no link and no open         *)
(* descriptor holds them.  Time is abstract: the two timeouts may elapse   *)
(* at any moment.                                                          *)
(***************************************************************************)
CONSTANTS
    Run,        \* executions of the installer
    NoRun,      \* no run
    Inode,      \* inode numbers of the file system
    NoFile      \* the lock path does not exist

ASSUME NoRunAssumption == NoRun \notin Run
ASSUME NoFileAssumption == NoFile \notin Inode

VARIABLES
    lock,       \* the inode linked at the lock path, or NoFile
    content,    \* what each inode holds
    pc,         \* the system call each run performs next, or its outcome
    seen,       \* existing_stat while waiting, owned_stat once created
    text,       \* existing_record: what the run last read while waiting
    timer,      \* initializing: the inode watched while it is incomplete
    late,       \* the acquisition deadline of the run has passed
    alive,      \* runs whose process exists
    confirmed   \* the operator has confirmed that no installer is running

vars == <<lock, content, pc, seen, text, timer, late, alive, confirmed>>

--------------------------------------------------------------------------------
(* States of a run. *)

Acquiring == {"create", "lstat", "read", "verify", "judge"}
Creating  == {"write", "publish"}
Holding   == {"install", "checkInode", "checkRecord", "unlink"}
Owning    == Creating \union Holding

\* `invalid` and `stale` carry the manual-recovery message, `timeout` is the
\* deadline, `changed` the "ownership changed" error, `oserror` an OSError.
Outcome   == {"done", "invalid", "stale", "timeout", "changed", "oserror"}
Step      == {"idle", "crashed"} \union Acquiring \union Owning \union Outcome

(* What a lock file holds.  The creator of an incomplete file is known to  *)
(* the model and never read by a run.                                      *)

Content == [form : {"empty", "partial", "record", "foreign", "special"},
            run  : Run \union {NoRun}]

Nothing    == [form |-> "empty", run |-> NoRun]
Created(r) == [form |-> "empty", run |-> r]
Partial(r) == [form |-> "partial", run |-> r]
Record(r)  == [form |-> "record", run |-> r]

\* stat.S_ISREG of the file at the lock path.
Regular(c) == c.form # "special"

\* _lock_record_owner: the owner of a complete record, else NoRun.
RecordOwner(c) == IF c.form = "record" THEN c.run ELSE NoRun

\* _lock_record_may_be_incomplete
MayBeIncomplete(c) == c.form \in {"empty", "partial"}

NoTimer == [inode |-> NoFile, expired |-> FALSE]

--------------------------------------------------------------------------------

\* No run has started.  The path is free, or something else is in the way.
Init ==
    /\ \/ /\ lock = NoFile
          /\ content = [i \in Inode |-> Nothing]
       \/ \E form \in {"foreign", "special"} :
             /\ lock \in Inode
             /\ content = [i \in Inode |->
                   IF i = lock THEN [form |-> form, run |-> NoRun] ELSE Nothing]
    /\ pc = [r \in Run |-> "idle"]
    /\ seen = [r \in Run |-> NoFile]
    /\ text = [r \in Run |-> Nothing]
    /\ timer = [r \in Run |-> NoTimer]
    /\ late = [r \in Run |-> FALSE]
    /\ alive = {}
    /\ confirmed = FALSE

Go(r, step) == pc' = [pc EXCEPT ![r] = step]

\* `continue`: the loop forgets what this iteration saw.
Again(r) ==
    /\ Go(r, "create")
    /\ seen' = [seen EXCEPT ![r] = NoFile]
    /\ text' = [text EXCEPT ![r] = Nothing]

\* A run's process starts and computes its deadline and its record.
Start(r) ==
    /\ pc[r] = "idle"
    /\ Go(r, "create")
    /\ alive' = alive \union {r}
    /\ UNCHANGED <<lock, content, seen, text, timer, late, confirmed>>

\* Mistake (mutation runs only): O_TRUNC where the code has O_EXCL.
CreateWithoutExcl(r) ==
    /\ pc[r] = "create"
    /\ \E i \in Inode :
          /\ lock # NoFile => i = lock
          /\ lock' = i
          /\ content' = [content EXCEPT ![i] = Created(r)]
          /\ seen' = [seen EXCEPT ![r] = i]
    /\ Go(r, "write")
    /\ UNCHANGED <<text, timer, late, alive, confirmed>>

\* os.open(O_CREAT | O_EXCL) on a free path: an empty file of this run, on an
\* inode that no link and no descriptor of a live creator holds.
CreateLock(r) ==
    /\ pc[r] = "create"
    /\ lock = NoFile
    /\ \E i \in Inode :
          /\ \A q \in alive : pc[q] = "write" => seen[q] # i
          /\ lock' = i
          /\ content' = [content EXCEPT ![i] = Created(r)]
          /\ seen' = [seen EXCEPT ![r] = i]
    /\ Go(r, "write")
    /\ UNCHANGED <<text, timer, late, alive, confirmed>>

\* os.open(O_CREAT | O_EXCL) on a taken path: FileExistsError.
LockExists(r) ==
    /\ pc[r] = "create"
    /\ lock # NoFile
    /\ Go(r, "lstat")
    /\ UNCHANGED <<lock, content, seen, text, timer, late, alive, confirmed>>

\* existing_stat
Lstat(r) ==
    /\ pc[r] = "lstat"
    /\ \/ /\ lock = NoFile
          /\ Again(r)
       \/ /\ lock # NoFile
          /\ ~Regular(content[lock])
          /\ Go(r, "invalid")
          /\ UNCHANGED <<seen, text>>
       \/ /\ lock # NoFile
          /\ Regular(content[lock])
          /\ Go(r, "read")
          /\ seen' = [seen EXCEPT ![r] = lock]
          /\ UNCHANGED text
    /\ UNCHANGED <<lock, content, timer, late, alive, confirmed>>

\* existing_record
Read(r) ==
    /\ pc[r] = "read"
    /\ \/ /\ lock = NoFile
          /\ Again(r)
       \/ /\ lock # NoFile
          /\ Go(r, "verify")
          /\ text' = [text EXCEPT ![r] = content[lock]]
          /\ UNCHANGED seen
    /\ UNCHANGED <<lock, content, timer, late, alive, confirmed>>

\* verified_stat: the record counts only if the path still names that inode.
Verify(r) ==
    /\ pc[r] = "verify"
    /\ \/ /\ lock = NoFile
          /\ Again(r)
       \/ /\ lock # NoFile
          /\ ~Regular(content[lock])
          /\ Go(r, "invalid")
          /\ UNCHANGED <<seen, text>>
       \/ /\ lock # NoFile
          /\ Regular(content[lock])
          /\ lock # seen[r]
          /\ Again(r)
       \/ /\ lock # NoFile
          /\ Regular(content[lock])
          /\ lock = seen[r]
          /\ Go(r, "judge")
          /\ UNCHANGED <<seen, text>>
    /\ UNCHANGED <<lock, content, timer, late, alive, confirmed>>

\* Mistake (mutation runs only): the watch is keyed by the record, not the inode.
JudgeIncompleteByRecord(r) ==
    /\ MayBeIncomplete(text[r])
    /\ \/ /\ timer[r].inode # text[r]
          /\ timer' = [timer EXCEPT ![r] = [inode |-> text[r], expired |-> FALSE]]
          /\ Again(r)
       \/ /\ timer[r].inode = text[r]
          /\ timer[r].expired
          /\ Go(r, "invalid")
          /\ UNCHANGED <<seen, text, timer>>

\* A record that is not complete: watched for the initialisation timeout while
\* it may still be written, refused at once when it never was a record.
JudgeIncomplete(r) ==
    /\ RecordOwner(text[r]) = NoRun
    /\ \/ /\ ~MayBeIncomplete(text[r])
          /\ Go(r, "invalid")
          /\ UNCHANGED <<seen, text, timer>>
       \/ /\ MayBeIncomplete(text[r])
          /\ timer[r].inode # seen[r]
          /\ timer' = [timer EXCEPT ![r] = [inode |-> seen[r], expired |-> FALSE]]
          /\ Again(r)
       \/ /\ MayBeIncomplete(text[r])
          /\ timer[r].inode = seen[r]
          /\ timer[r].expired
          /\ Go(r, "invalid")
          /\ UNCHANGED <<seen, text, timer>>
       \/ /\ MayBeIncomplete(text[r])
          /\ timer[r].inode = seen[r]
          /\ ~timer[r].expired
          /\ Again(r)
          /\ UNCHANGED timer

\* Mistakes (mutation runs only): the deadline alone makes a lock stale; or no
\* deadline at all.
JudgeOwnerByTime(r) ==
    /\ RecordOwner(text[r]) # NoRun
    /\ timer' = [timer EXCEPT ![r] = NoTimer]
    /\ \/ late[r] /\ Go(r, "stale") /\ UNCHANGED <<seen, text>>
       \/ ~late[r] /\ Again(r)

JudgeOwnerForever(r) ==
    /\ RecordOwner(text[r]) # NoRun
    /\ timer' = [timer EXCEPT ![r] = NoTimer]
    /\ \/ RecordOwner(text[r]) \notin alive /\ Go(r, "stale") /\ UNCHANGED <<seen, text>>
       \/ Again(r)

\* A complete record: os.kill(owner, 0).  The process of a dead owner may look
\* alive because its PID was reused; a live owner never looks dead.
JudgeOwner(r) ==
    /\ RecordOwner(text[r]) # NoRun
    /\ timer' = [timer EXCEPT ![r] = NoTimer]
    /\ \/ /\ RecordOwner(text[r]) \notin alive
          /\ Go(r, "stale")
          /\ UNCHANGED <<seen, text>>
       \/ /\ late[r]
          /\ Go(r, "timeout")
          /\ UNCHANGED <<seen, text>>
       \/ /\ ~late[r]
          /\ Again(r)

\* Mistake (mutation runs only): a stale lock is removed and the run tries again.
JudgeReaps(r) ==
    /\ pc[r] = "judge"
    /\ RecordOwner(text[r]) \notin alive \union {NoRun}
    /\ lock' = NoFile
    /\ Again(r)
    /\ UNCHANGED <<content, timer, late, alive, confirmed>>

Judge(r) ==
    /\ pc[r] = "judge"
    /\ JudgeIncomplete(r) \/ JudgeOwner(r)
    /\ UNCHANGED <<lock, content, late, alive, confirmed>>

\* The record reaches the file when the handle is flushed, possibly in pieces.
Write(r) ==
    /\ pc[r] = "write"
    /\ \/ /\ content[seen[r]].form = "empty"
          /\ content' = [content EXCEPT ![seen[r]] = Partial(r)]
          /\ UNCHANGED pc
       \/ /\ content' = [content EXCEPT ![seen[r]] = Record(r)]
          /\ Go(r, "publish")
    /\ UNCHANGED <<lock, seen, text, timer, late, alive, confirmed>>

\* The write fails (disk full): the OSError escapes and the file stays.
WriteFails(r) ==
    /\ pc[r] = "write"
    /\ Go(r, "oserror")
    /\ UNCHANGED <<lock, content, seen, text, timer, late, alive, confirmed>>

\* The path names a regular file on the inode this run created or verified.
NamesSeenInode(r) ==
    /\ lock # NoFile
    /\ Regular(content[lock])
    /\ lock = seen[r]

\* published_stat against owned_stat; only now does the run hold the lock.
Publish(r) ==
    /\ pc[r] = "publish"
    /\ \/ NamesSeenInode(r) /\ Go(r, "install")
       \/ ~NamesSeenInode(r) /\ Go(r, "changed")
    /\ UNCHANGED <<lock, content, seen, text, timer, late, alive, confirmed>>

\* install() reaches its `finally`, whether the installation worked or not.
FinishInstall(r) ==
    /\ pc[r] = "install"
    /\ Go(r, "checkInode")
    /\ UNCHANGED <<lock, content, seen, text, timer, late, alive, confirmed>>

\* release_install_lock: current_stat against owned_stat.
CheckInode(r) ==
    /\ pc[r] = "checkInode"
    /\ \/ NamesSeenInode(r) /\ Go(r, "checkRecord")
       \/ ~NamesSeenInode(r) /\ Go(r, "changed")
    /\ UNCHANGED <<lock, content, seen, text, timer, late, alive, confirmed>>

\* release_install_lock: the content against owned_record.
CheckRecord(r) ==
    /\ pc[r] = "checkRecord"
    /\ \/ /\ lock # NoFile
          /\ content[lock] = Record(r)
          /\ Go(r, "unlink")
       \/ /\ lock = NoFile \/ content[lock] # Record(r)
          /\ Go(r, "changed")
    /\ UNCHANGED <<lock, content, seen, text, timer, late, alive, confirmed>>

\* lock_path.unlink(): removes whatever the path names by now.
Unlink(r) ==
    /\ pc[r] = "unlink"
    /\ \/ /\ lock # NoFile
          /\ lock' = NoFile
          /\ Go(r, "done")
       \/ /\ lock = NoFile
          /\ Go(r, "changed")
          /\ UNCHANGED lock
    /\ UNCHANGED <<content, seen, text, timer, late, alive, confirmed>>

\* The process ends after its outcome.
Exit(r) ==
    /\ r \in alive
    /\ pc[r] \in Outcome
    /\ alive' = alive \ {r}
    /\ UNCHANGED <<lock, content, pc, seen, text, timer, late, confirmed>>

\* The process is killed anywhere before its outcome.
Crash(r) ==
    /\ r \in alive
    /\ pc[r] \notin Outcome
    /\ Go(r, "crashed")
    /\ alive' = alive \ {r}
    /\ UNCHANGED <<lock, content, seen, text, timer, late, confirmed>>

\* Thirty seconds have passed since the run started.
DeadlinePasses(r) ==
    /\ pc[r] \in Acquiring
    /\ ~late[r]
    /\ late' = [late EXCEPT ![r] = TRUE]
    /\ UNCHANGED <<lock, content, pc, seen, text, timer, alive, confirmed>>

\* Five seconds have passed since the run began to watch an incomplete file.
InitializationTimesOut(r) ==
    /\ pc[r] \in Acquiring
    /\ timer[r].inode # NoFile
    /\ ~timer[r].expired
    /\ timer' = [timer EXCEPT ![r].expired = TRUE]
    /\ UNCHANGED <<lock, content, pc, seen, text, late, alive, confirmed>>

(* The operator follows the recovery message: "Confirm no installer is     *)
(* running, remove it manually, and retry."  Installers may start between  *)
(* the two steps.                                                          *)

OperatorConfirms ==
    /\ \E r \in Run : pc[r] \in {"invalid", "stale"}
    /\ alive = {}
    /\ lock # NoFile
    /\ ~confirmed
    /\ confirmed' = TRUE
    /\ UNCHANGED <<lock, content, pc, seen, text, timer, late, alive>>

OperatorRemoves ==
    /\ confirmed
    /\ lock' = NoFile
    /\ confirmed' = FALSE
    /\ UNCHANGED <<content, pc, seen, text, timer, late, alive>>

\* The steps of acquire_install_lock up to its return or its error.
Acquire(r) ==
    \/ CreateLock(r) \/ LockExists(r) \/ Lstat(r) \/ Read(r) \/ Verify(r)
    \/ Judge(r) \/ Write(r) \/ WriteFails(r) \/ Publish(r)

\* The steps of release_install_lock.
Release(r) == CheckInode(r) \/ CheckRecord(r) \/ Unlink(r)

Clock(r) == DeadlinePasses(r) \/ InitializationTimesOut(r)

Next ==
    \/ \E r \in Run :
          \/ Start(r) \/ Acquire(r) \/ FinishInstall(r) \/ Release(r)
          \/ Exit(r) \/ Crash(r) \/ Clock(r)
    \/ OperatorConfirms
    \/ OperatorRemoves

Spec == Init /\ [][Next]_vars

\* A process that waits is scheduled and time passes.  Nothing is assumed of
\* the installation in progress, of crashes, or of the operator.
Fairness ==
    \A r \in Run :
        /\ WF_vars(Acquire(r))
        /\ WF_vars(DeadlinePasses(r))
        /\ WF_vars(InitializationTimesOut(r))

FairSpec == Spec /\ Fairness

--------------------------------------------------------------------------------
(* Properties *)

TypeOK ==
    /\ lock \in Inode \union {NoFile}
    /\ content \in [Inode -> Content]
    /\ pc \in [Run -> Step]
    /\ seen \in [Run -> Inode \union {NoFile}]
    /\ text \in [Run -> Content]
    /\ timer \in [Run -> [inode : Inode \union {NoFile}, expired : BOOLEAN]]
    /\ late \in [Run -> BOOLEAN]
    /\ alive \subseteq Run
    /\ confirmed \in BOOLEAN

\* Two runs are never inside install() at once, from the return of
\* acquire_install_lock to the unlink, whatever crashes, reuses an inode or
\* is removed by an operator who keeps to the recovery message.
MutualExclusion ==
    \A p, q \in Run : pc[p] \in Holding /\ pc[q] \in Holding => p = q

\* From its exclusive creation to its unlink the file at the lock path is the
\* one this run created, and once written it holds this run's record: the
\* "ownership changed" checks of acquire and release guard a case that only
\* an operator outside the recovery message can produce.
OwnerKeepsLock ==
    \A r \in Run :
        /\ pc[r] \in Owning =>
              /\ r \in alive
              /\ lock # NoFile
              /\ lock = seen[r]
              /\ content[lock].run = r
        /\ pc[r] \in Owning \ {"write"} => content[lock] = Record(r)
        /\ pc[r] # "changed"

\* A `stale` error never names the record of an installer that still runs: an
\* operator who trusts it does not pull the lock from under a live run.
StaleOwnerIsDead ==
    \A r \in Run :
        pc[r] = "stale" =>
            /\ text[r].form = "record"
            /\ text[r].run \notin alive
            /\ pc[text[r].run] # "idle"

\* The lock path becomes free only when the run whose record it holds unlinks
\* it, or when the operator removes a file that no live run created.  A dead
\* run's lock is never taken away by another installer.
OnlyOwnerOrOperatorRemoves ==
    [][ lock # NoFile /\ lock' # lock =>
            LET creator == content[lock].run
            IN  \/ creator \in alive /\ pc[creator] = "unlink" /\ pc'[creator] = "done"
                \/ creator \notin alive /\ confirmed /\ \A r \in Run : pc[r] \notin Owning
      ]_vars

\* acquire_install_lock returns or fails: a run waits neither for a holder that
\* never finishes nor for a creator that never writes, nor on a dead one.
AcquisitionEnds ==
    \A r \in Run : pc[r] \in Acquiring \union Creating ~>
                   pc[r] \in Holding \union Outcome \union {"crashed"}

\* What the properties above rest on.  A file or a record names a run only
\* after that run started; only a started run lives, and a waiting one does;
\* and what the operator has confirmed stays true until the file is removed,
\* because no installer that starts meanwhile can create the lock.
WellNamed(c) ==
    /\ c.form = "record" => c.run # NoRun
    /\ c.run # NoRun => pc[c.run] # "idle"

NamesStartedRuns ==
    /\ \A i \in Inode : WellNamed(content[i])
    /\ \A r \in Run : WellNamed(text[r])

LiveRunsStarted ==
    \A r \in Run :
        /\ r \in alive => pc[r] \notin {"idle", "crashed"}
        /\ pc[r] \in Acquiring => r \in alive

ConfirmationHolds ==
    confirmed => lock # NoFile /\ content[lock].run \notin alive

\* The inductive invariant.
LockInvariant ==
    /\ TypeOK
    /\ OwnerKeepsLock
    /\ StaleOwnerIsDead
    /\ NamesStartedRuns
    /\ LiveRunsStarted
    /\ ConfirmationHolds

\* The file-based lock implements the abstract one.
Mutex == INSTANCE InstallMutex WITH
    free   <- lock = NoFile,
    owner  <- IF lock = NoFile THEN NoRun ELSE content[lock].run,
    inside <- {r \in Run : pc[r] \in Holding},
    dead   <- {r \in Run : pc[r] # "idle" /\ r \notin alive}

ImplementsMutex == Mutex!Spec

================================================================================

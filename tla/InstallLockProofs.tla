--------------------------- MODULE InstallLockProofs ---------------------------
(***************************************************************************)
(* Proofs about InstallLock for any number of runs and inodes.             *)
(***************************************************************************)
EXTENDS InstallLock, TLAPS

USE DEF Step, Acquiring, Creating, Holding, Owning, Outcome

--------------------------------------------------------------------------------
(* Types *)

\* What the helpers build is well typed.
LEMMA HelperTypes ==
    /\ Nothing \in Content
    /\ NoTimer \in [inode : Inode \union {NoFile}, expired : BOOLEAN]
    /\ \A r \in Run : /\ Created(r) \in Content
                      /\ Partial(r) \in Content
                      /\ Record(r) \in Content
  BY DEF Nothing, NoTimer, Created, Partial, Record, Content

LEMMA TypeInit == Init => TypeOK
  <1> SUFFICES ASSUME Init PROVE TypeOK
    OBVIOUS
  <1>1. content \in [Inode -> Content] /\ lock \in Inode \union {NoFile}
    BY HelperTypes DEF Init, Content
  <1> QED
    BY <1>1, HelperTypes DEF Init, TypeOK

\* Going to a step, or back to the first one, keeps the types of what a run holds.
LEMMA GoTypes ==
    ASSUME TypeOK, NEW r \in Run, NEW step \in Step, Go(r, step)
    PROVE  pc' \in [Run -> Step]
  BY DEF TypeOK, Go

LEMMA AgainTypes ==
    ASSUME TypeOK, NEW r \in Run, Again(r)
    PROVE  /\ pc' \in [Run -> Step]
           /\ seen' \in [Run -> Inode \union {NoFile}]
           /\ text' \in [Run -> Content]
  <1>1. Nothing \in Content
    BY HelperTypes
  <1> QED
    BY <1>1, GoTypes DEF TypeOK, Again

LEMMA TypeAcquire ==
    ASSUME TypeOK, NEW r \in Run, Acquire(r)
    PROVE  TypeOK'
  <1> USE DEF TypeOK, Go, Again
  <1>1. CASE CreateLock(r)
    BY <1>1, HelperTypes DEF CreateLock
  <1>2. CASE LockExists(r)
    BY <1>2 DEF LockExists
  <1>3. CASE Lstat(r)
    BY <1>3, HelperTypes DEF Lstat
  <1>4. CASE Read(r)
    BY <1>4, HelperTypes DEF Read
  <1>5. CASE Verify(r)
    <2>1. \/ Again(r)
          \/ /\ Go(r, "invalid") \/ Go(r, "judge")
             /\ UNCHANGED <<seen, text>>
      <3> HIDE DEF Go, Again
      <3> QED BY <1>5 DEF Verify
    <2>2. /\ pc' \in [Run -> Step]
          /\ seen' \in [Run -> Inode \union {NoFile}]
          /\ text' \in [Run -> Content]
      <3> HIDE DEF Go, Again
      <3>1. CASE Again(r)
        BY <3>1, AgainTypes
      <3>2. CASE (Go(r, "invalid") \/ Go(r, "judge")) /\ UNCHANGED <<seen, text>>
        BY <3>2, GoTypes
      <3> QED BY <2>1, <3>1, <3>2
    <2>3. UNCHANGED <<lock, content, timer, late, alive, confirmed>>
      BY <1>5 DEF Verify
    <2> HIDE DEF Go, Again
    <2> QED BY <2>2, <2>3
  <1>6. CASE Judge(r)
    <2>1. CASE JudgeIncomplete(r)
      <3> DEFINE watch == [inode |-> seen[r], expired |-> FALSE]
      <3>1. watch \in [inode : Inode \union {NoFile}, expired : BOOLEAN]
        OBVIOUS
      <3>2. timer' = timer \/ timer' = [timer EXCEPT ![r] = watch]
        BY <2>1 DEF JudgeIncomplete
      <3>3. timer' \in [Run -> [inode : Inode \union {NoFile}, expired : BOOLEAN]]
        <4> HIDE DEF watch
        <4> QED BY <3>1, <3>2
      <3>4. /\ pc' \in [Run -> Step]
            /\ seen' \in [Run -> Inode \union {NoFile}]
            /\ text' \in [Run -> Content]
        BY <2>1, HelperTypes DEF JudgeIncomplete
      <3> QED
        BY <1>6, <3>3, <3>4 DEF Judge
    <2>2. CASE JudgeOwner(r)
      BY <1>6, <2>2, HelperTypes DEF Judge, JudgeOwner
    <2> QED
      BY <1>6, <2>1, <2>2 DEF Judge
  <1>7. CASE Write(r)
    <2>1. Partial(r) \in Content /\ Record(r) \in Content
      BY HelperTypes
    <2>2. content' \in [Inode -> Content]
      BY <1>7, <2>1 DEF Write
    <2>3. pc' \in [Run -> Step]
      BY <1>7 DEF Write
    <2> QED
      BY <1>7, <2>2, <2>3 DEF Write
  <1>8. CASE WriteFails(r)
    BY <1>8 DEF WriteFails
  <1>9. CASE Publish(r)
    BY <1>9 DEF Publish
  <1> QED
    BY <1>1, <1>2, <1>3, <1>4, <1>5, <1>6, <1>7, <1>8, <1>9, Acquire(r) DEF Acquire

LEMMA TypeStep == TypeOK /\ [Next]_vars => TypeOK'
  <1> SUFFICES ASSUME TypeOK, [Next]_vars PROVE TypeOK'
    OBVIOUS
  <1> USE DEF TypeOK, Go
  <1>1. CASE UNCHANGED vars
    BY <1>1 DEF vars
  <1>2. ASSUME NEW r \in Run, Acquire(r) PROVE TypeOK'
    BY <1>2, TypeAcquire
  <1>3. ASSUME NEW r \in Run, Start(r) PROVE TypeOK'
    BY <1>3 DEF Start
  <1>4. ASSUME NEW r \in Run, FinishInstall(r) PROVE TypeOK'
    BY <1>4 DEF FinishInstall
  <1>5. ASSUME NEW r \in Run, Release(r) PROVE TypeOK'
    BY <1>5 DEF Release, CheckInode, CheckRecord, Unlink
  <1>6. ASSUME NEW r \in Run, Exit(r) \/ Crash(r) PROVE TypeOK'
    BY <1>6 DEF Exit, Crash
  <1>7. ASSUME NEW r \in Run, Clock(r) PROVE TypeOK'
    BY <1>7 DEF Clock, DeadlinePasses, InitializationTimesOut
  <1>8. CASE OperatorConfirms \/ OperatorRemoves
    BY <1>8 DEF OperatorConfirms, OperatorRemoves
  <1> QED
    BY <1>1, <1>2, <1>3, <1>4, <1>5, <1>6, <1>7, <1>8 DEF Next

\* Every variable of the lock keeps its type.
THEOREM TypeCorrect == Spec => []TypeOK
  BY TypeInit, TypeStep, PTL DEF Spec

--------------------------------------------------------------------------------
(* The inductive invariant *)

LEMMA InvariantInit == Init => LockInvariant
  <1> SUFFICES ASSUME Init PROVE LockInvariant
    OBVIOUS
  <1>1. TypeOK
    BY TypeInit
  <1>2. NamesStartedRuns
    BY DEF Init, NamesStartedRuns, WellNamed, Nothing
  <1>3. OwnerKeepsLock /\ StaleOwnerIsDead /\ LiveRunsStarted /\ ConfirmationHolds
    BY DEF Init, OwnerKeepsLock, StaleOwnerIsDead, LiveRunsStarted, ConfirmationHolds
  <1> QED
    BY <1>1, <1>2, <1>3 DEF LockInvariant

\* While a run owns the lock nobody else does: the file names its creator.
LEMMA OneOwner ==
    ASSUME LockInvariant, NEW p \in Run, NEW q \in Run,
           pc[p] \in Owning, pc[q] \in Owning
    PROVE  p = q
  BY DEF LockInvariant, OwnerKeepsLock

\* A run that waits changes nothing that the invariant says of other runs.
LEMMA WaitingKeepsInvariant ==
    ASSUME LockInvariant, NEW r \in Run,
           LockExists(r) \/ Lstat(r) \/ Read(r) \/ Verify(r) \/ Judge(r)
    PROVE  LockInvariant'
  <1> USE DEF LockInvariant
  <1>1. TypeOK'
    BY TypeAcquire DEF Acquire
  <1>2. /\ UNCHANGED <<lock, content, alive, confirmed>>
        /\ r \in alive
        /\ pc[r] \in Acquiring
        /\ \A q \in Run : q # r => /\ pc'[q] = pc[q]
                                   /\ seen'[q] = seen[q]
                                   /\ text'[q] = text[q]
    BY DEF TypeOK, LiveRunsStarted, LockExists, Lstat, Read, Verify, Judge,
           JudgeIncomplete, JudgeOwner, Go, Again
  <1>3. pc'[r] \in Acquiring \union {"invalid", "stale", "timeout"}
    BY DEF TypeOK, LockExists, Lstat, Read, Verify, Judge, JudgeIncomplete,
           JudgeOwner, Go, Again
  <1>4. OwnerKeepsLock'
    BY <1>2, <1>3 DEF OwnerKeepsLock, Record
  <1>5. pc'[r] = "stale" => /\ text'[r].form = "record"
                            /\ text'[r].run \notin alive
                            /\ text'[r].run \in Run
                            /\ text'[r] = text[r]
    BY NoRunAssumption DEF TypeOK, Content, LockExists, Lstat, Read, Verify, Judge,
          JudgeIncomplete, JudgeOwner, RecordOwner, Go, Again
  <1>6. NamesStartedRuns'
    <2>1. text'[r] = text[r] \/ text'[r] = Nothing \/ (lock \in Inode /\ text'[r] = content[lock])
      BY DEF TypeOK, LockExists, Lstat, Read, Verify, Judge, JudgeIncomplete,
             JudgeOwner, Go, Again
    <2>2. ASSUME NEW c \in Content, WellNamed(c)
          PROVE  WellNamed(c)'
      BY <1>2, <1>3, <2>2, NoRunAssumption DEF WellNamed, Content
    <2>3. WellNamed(text'[r])
      BY <2>1 DEF NamesStartedRuns, WellNamed, Nothing, TypeOK
    <2>4. \A q \in Run : WellNamed(text'[q])
      BY <1>2, <2>3 DEF NamesStartedRuns
    <2> QED
      BY <1>1, <1>2, <2>2, <2>4 DEF NamesStartedRuns, TypeOK
  <1>7. StaleOwnerIsDead'
    BY <1>1, <1>2, <1>3, <1>5, <1>6 DEF StaleOwnerIsDead, NamesStartedRuns, WellNamed,
       TypeOK, Content
  <1>8. LiveRunsStarted' /\ ConfirmationHolds'
    BY <1>2, <1>3 DEF LiveRunsStarted, ConfirmationHolds
  <1> QED
    BY <1>1, <1>4, <1>6, <1>7, <1>8

\* Exclusive creation: the lock was free, so no run owned it.
LEMMA CreateKeepsInvariant ==
    ASSUME LockInvariant, NEW r \in Run, CreateLock(r)
    PROVE  LockInvariant'
  <1> USE DEF LockInvariant
  <1>1. TypeOK'
    BY TypeAcquire DEF Acquire
  <1>2. PICK i \in Inode :
          /\ lock' = i
          /\ content' = [content EXCEPT ![i] = Created(r)]
          /\ seen' = [seen EXCEPT ![r] = i]
    BY DEF CreateLock
  <1>3. \A q \in Run : pc[q] \notin Owning
    BY DEF CreateLock, OwnerKeepsLock
  <1>4. OwnerKeepsLock'
    BY <1>2, <1>3, NoFileAssumption
       DEF CreateLock, Go, OwnerKeepsLock, Created, TypeOK, LiveRunsStarted
  <1>5. NamesStartedRuns'
    BY <1>2 DEF CreateLock, Go, NamesStartedRuns, WellNamed, Created, TypeOK
  <1>6. StaleOwnerIsDead'
    BY DEF CreateLock, Go, StaleOwnerIsDead, TypeOK
  <1>7. LiveRunsStarted' /\ ConfirmationHolds'
    BY DEF CreateLock, Go, LiveRunsStarted, ConfirmationHolds, TypeOK
  <1> QED
    BY <1>1, <1>4, <1>5, <1>6, <1>7

\* The owner writes its record, publishes, works, checks and unlinks.
LEMMA OwnerKeepsInvariant ==
    ASSUME LockInvariant, NEW r \in Run,
           Write(r) \/ WriteFails(r) \/ Publish(r) \/ FinishInstall(r) \/ Release(r)
    PROVE  LockInvariant'
  <1> USE DEF LockInvariant
  <1>1. TypeOK'
    BY TypeStep DEF Next, Acquire
  <1>2. /\ pc[r] \in Owning
        /\ r \in alive
        /\ lock \in Inode
        /\ lock = seen[r]
        /\ content[lock].run = r
        /\ pc[r] # "write" => content[lock] = Record(r)
        /\ UNCHANGED <<seen, text, alive, confirmed>>
        /\ \A q \in Run : q # r => pc'[q] = pc[q] /\ pc[q] \notin Owning
    BY OneOwner DEF Write, WriteFails, Publish, FinishInstall, Release, CheckInode,
          CheckRecord, Unlink, Go, OwnerKeepsLock, TypeOK
  <1>3. NamesSeenInode(r) \/ pc[r] = "write"
    BY <1>2, NoFileAssumption DEF NamesSeenInode, Regular, Record
  <1>4. /\ pc'[r] # "changed"
        /\ pc'[r] \in Owning =>
              /\ lock' = lock
              /\ content'[lock].run = r
              /\ pc'[r] # "write" => content'[lock] = Record(r)
        /\ pc'[r] \in Owning \union {"done", "oserror"}
    <2>1. CASE Write(r)
      BY <1>2, <2>1 DEF Write, Go, TypeOK, Partial, Record
    <2>2. CASE WriteFails(r) \/ FinishInstall(r)
      BY <1>2, <2>2 DEF WriteFails, FinishInstall, Go, TypeOK
    <2>3. CASE Publish(r)
      BY <1>2, <1>3, <2>3 DEF Publish, Go, TypeOK
    <2>4. CASE Release(r)
      BY <1>2, <1>3, <2>4, NoFileAssumption
         DEF Release, CheckInode, CheckRecord, Unlink, Go, TypeOK
    <2> QED
      BY <2>1, <2>2, <2>3, <2>4
  <1>5. OwnerKeepsLock'
    BY <1>2, <1>4 DEF OwnerKeepsLock, TypeOK
  <1>6. NamesStartedRuns'
    <2>1. \/ content' = content
          \/ content' = [content EXCEPT ![lock] = Partial(r)]
          \/ content' = [content EXCEPT ![lock] = Record(r)]
      BY <1>2 DEF Write, WriteFails, Publish, FinishInstall, Release, CheckInode,
            CheckRecord, Unlink
    <2>2. ASSUME NEW c \in Content, WellNamed(c)
          PROVE  WellNamed(c)'
      BY <1>2, <1>4, <2>2, NoRunAssumption DEF WellNamed, Content
    <2>3. WellNamed(Partial(r)) /\ WellNamed(Record(r))
      BY <1>2, NoRunAssumption DEF WellNamed, Partial, Record
    <2>4. \A i \in Inode : WellNamed(content'[i])
      BY <1>2, <2>1, <2>3 DEF NamesStartedRuns, TypeOK
    <2> QED
      BY <1>1, <1>2, <2>2, <2>4 DEF NamesStartedRuns, TypeOK
  <1>7. StaleOwnerIsDead'
    BY <1>2, <1>4 DEF StaleOwnerIsDead, NamesStartedRuns, WellNamed, TypeOK, Content
  <1>8. LiveRunsStarted' /\ ConfirmationHolds'
    BY <1>2, <1>4 DEF LiveRunsStarted, ConfirmationHolds, TypeOK
  <1> QED
    BY <1>1, <1>5, <1>6, <1>7, <1>8

\* Processes start and end; a started run never starts again.
LEMMA LifeKeepsInvariant ==
    ASSUME LockInvariant, NEW r \in Run, Start(r) \/ Exit(r) \/ Crash(r)
    PROVE  LockInvariant'
  <1> USE DEF LockInvariant
  <1>1. TypeOK'
    BY TypeStep DEF Next
  <1>2. /\ UNCHANGED <<lock, content, seen, text, confirmed>>
        /\ \A q \in Run : q # r => pc'[q] = pc[q] /\ (q \in alive' <=> q \in alive)
        /\ pc'[r] # "idle"
    BY DEF Start, Exit, Crash, Go, TypeOK
  <1>3. /\ pc[r] \in Outcome => pc'[r] = pc[r] /\ r \notin alive'
        /\ pc[r] \notin Outcome => pc'[r] \in {"create", "crashed"}
        /\ pc'[r] = "create" => pc[r] = "idle" /\ r \in alive'
        /\ r \in alive' => pc[r] = "idle" /\ pc'[r] = "create"
        /\ pc'[r] \notin Owning \union {"changed"}
    BY DEF Start, Exit, Crash, Go, TypeOK, OwnerKeepsLock
  <1>4. OwnerKeepsLock'
    BY <1>2, <1>3 DEF OwnerKeepsLock, Record, TypeOK
  <1>5. NamesStartedRuns'
    <2>1. ASSUME NEW c \in Content, WellNamed(c)
          PROVE  WellNamed(c)'
      BY <1>2, <2>1, NoRunAssumption DEF WellNamed, Content
    <2> QED
      BY <1>2, <2>1 DEF NamesStartedRuns, TypeOK
  <1>6. StaleOwnerIsDead'
    BY <1>2, <1>3, <1>5 DEF StaleOwnerIsDead, NamesStartedRuns, WellNamed, TypeOK, Content
  <1>7. LiveRunsStarted'
    BY <1>2, <1>3 DEF LiveRunsStarted, TypeOK
  <1>8. ConfirmationHolds'
    BY <1>1, <1>2, <1>3, NoRunAssumption DEF ConfirmationHolds, NamesStartedRuns, WellNamed, TypeOK
  <1> QED
    BY <1>1, <1>4, <1>5, <1>6, <1>7, <1>8

\* Clocks and the operator.
LEMMA OutsideKeepsInvariant ==
    ASSUME LockInvariant,
           \/ \E r \in Run : Clock(r)
           \/ OperatorConfirms
           \/ OperatorRemoves
    PROVE  LockInvariant'
  <1> USE DEF LockInvariant
  <1>1. TypeOK'
    BY TypeStep DEF Next
  <1>2. UNCHANGED <<content, pc, seen, text, alive>>
    BY DEF Clock, DeadlinePasses, InitializationTimesOut, OperatorConfirms, OperatorRemoves
  <1>3. NamesStartedRuns' /\ StaleOwnerIsDead' /\ LiveRunsStarted'
    BY <1>2 DEF NamesStartedRuns, WellNamed, StaleOwnerIsDead, LiveRunsStarted
  <1>4. OwnerKeepsLock'
    <2>1. lock' = lock \/ \A r \in Run : pc[r] \notin Owning
      BY DEF Clock, DeadlinePasses, InitializationTimesOut, OperatorConfirms,
             OperatorRemoves, ConfirmationHolds, OwnerKeepsLock
    <2> QED
      BY <1>2, <2>1 DEF OwnerKeepsLock, Record
  <1>5. ConfirmationHolds'
    BY <1>2 DEF Clock, DeadlinePasses, InitializationTimesOut, OperatorConfirms,
           OperatorRemoves, ConfirmationHolds
  <1> QED
    BY <1>1, <1>3, <1>4, <1>5

LEMMA InvariantStep == LockInvariant /\ [Next]_vars => LockInvariant'
  <1> SUFFICES ASSUME LockInvariant, [Next]_vars PROVE LockInvariant'
    OBVIOUS
  <1>1. CASE UNCHANGED vars
    BY <1>1 DEF vars, LockInvariant, TypeOK, OwnerKeepsLock, StaleOwnerIsDead,
         NamesStartedRuns, WellNamed, LiveRunsStarted, ConfirmationHolds
  <1>2. CASE Next
    BY <1>2, CreateKeepsInvariant, WaitingKeepsInvariant, OwnerKeepsInvariant,
       LifeKeepsInvariant, OutsideKeepsInvariant DEF Next, Acquire
  <1> QED
    BY <1>1, <1>2

\* The invariant holds throughout every execution.
THEOREM InvariantCorrect == Spec => []LockInvariant
  BY InvariantInit, InvariantStep, PTL DEF Spec

--------------------------------------------------------------------------------
(* Safety *)

\* Two installers never hold the lock at once.
THEOREM MutualExclusionHolds == Spec => []MutualExclusion
  <1>1. LockInvariant => MutualExclusion
    BY OneOwner DEF MutualExclusion
  <1> QED
    BY <1>1, InvariantCorrect, PTL

\* The lock stays its owner's until the owner unlinks it, so the "ownership
\* changed" errors are unreachable.
THEOREM OwnerKeepsLockHolds == Spec => []OwnerKeepsLock
  <1>1. LockInvariant => OwnerKeepsLock
    BY DEF LockInvariant
  <1> QED
    BY <1>1, InvariantCorrect, PTL

\* A `stale` error names a dead installer.
THEOREM StaleOwnerIsDeadHolds == Spec => []StaleOwnerIsDead
  <1>1. LockInvariant => StaleOwnerIsDead
    BY DEF LockInvariant
  <1> QED
    BY <1>1, InvariantCorrect, PTL

\* Which steps change the path, and from which state.
LEMMA PathChanges ==
    ASSUME LockInvariant, Next, lock' # lock
    PROVE  \/ \E r \in Run : CreateLock(r)
           \/ \E r \in Run : Unlink(r) /\ lock' = NoFile /\ pc' = [pc EXCEPT ![r] = "done"]
           \/ OperatorRemoves
  <1>1. CASE \E r \in Run : Acquire(r)
    BY <1>1 DEF Acquire, LockExists, Lstat, Read, Verify, Judge, Write, WriteFails, Publish
  <1>2. CASE \E r \in Run : Release(r)
    BY <1>2 DEF Release, CheckInode, CheckRecord, Unlink, Go
  <1>3. CASE \E r \in Run : \/ Start(r) \/ FinishInstall(r) \/ Exit(r)
                           \/ Crash(r) \/ Clock(r)
    BY <1>3 DEF Start, FinishInstall, Exit, Crash, Clock, DeadlinePasses,
         InitializationTimesOut
  <1>4. CASE OperatorConfirms \/ OperatorRemoves
    BY <1>4 DEF OperatorConfirms
  <1> QED
    BY <1>1, <1>2, <1>3, <1>4 DEF Next

\* Only its owner, or the operator when no run owns it, removes the lock.
THEOREM OnlyOwnerOrOperatorRemovesHolds == Spec => OnlyOwnerOrOperatorRemoves
  <1> DEFINE Allowed ==
        LET creator == content[lock].run
        IN  \/ creator \in alive /\ pc[creator] = "unlink" /\ pc'[creator] = "done"
            \/ creator \notin alive /\ confirmed /\ \A r \in Run : pc[r] \notin Owning
  <1>1. ASSUME LockInvariant, [Next]_vars, lock # NoFile, lock' # lock
        PROVE  Allowed
    <2>1. Next
      BY <1>1 DEF vars
    <2>2. CASE \E r \in Run : CreateLock(r)
      BY <1>1, <2>2 DEF CreateLock
    <2>3. ASSUME NEW r \in Run, Unlink(r), pc' = [pc EXCEPT ![r] = "done"]
          PROVE  Allowed
      BY <1>1, <2>3 DEF Unlink, LockInvariant, OwnerKeepsLock, TypeOK
    <2>4. CASE OperatorRemoves
      BY <1>1, <2>4 DEF OperatorRemoves, LockInvariant, ConfirmationHolds, OwnerKeepsLock
    <2> QED
      BY <1>1, <2>1, <2>2, <2>3, <2>4, PathChanges
  <1>2. LockInvariant /\ [Next]_vars => [lock # NoFile /\ lock' # lock => Allowed]_vars
    BY <1>1
  <1> QED
    BY <1>2, InvariantCorrect, PTL DEF Spec, OnlyOwnerOrOperatorRemoves

--------------------------------------------------------------------------------
(* Refinement *)

\* The mapping of InstallMutex's variables, named for the proof.
MutexOwner  == IF lock = NoFile THEN NoRun ELSE content[lock].run
MutexInside == {r \in Run : pc[r] \in Holding}
MutexDead   == {r \in Run : pc[r] # "idle" /\ r \notin alive}

LEMMA MutexInit == Init => Mutex!Init
  BY DEF Init, Mutex!Init, Nothing

LEMMA MutexStep == LockInvariant /\ [Next]_vars => [Mutex!Next]_(Mutex!vars)
  <1> SUFFICES ASSUME LockInvariant, LockInvariant', [Next]_vars
               PROVE  Mutex!Next \/ UNCHANGED Mutex!vars
    BY InvariantStep
  <1> USE DEF LockInvariant, TypeOK
  \* A run outside the installation whose step is not a death is invisible.
  <1>1. ASSUME UNCHANGED <<lock, MutexOwner, MutexInside, MutexDead>>
        PROVE  UNCHANGED Mutex!vars
    BY <1>1 DEF Mutex!vars, MutexOwner, MutexInside, MutexDead
  <1>2. CASE UNCHANGED vars
    BY <1>1, <1>2 DEF vars, MutexOwner, MutexInside, MutexDead
  <1>3. ASSUME NEW r \in Run,
               LockExists(r) \/ Lstat(r) \/ Read(r) \/ Verify(r) \/ Judge(r)
        PROVE  UNCHANGED Mutex!vars
    <2>1. /\ UNCHANGED <<lock, content, alive>>
          /\ \A q \in Run : q # r => pc'[q] = pc[q]
          /\ pc[r] \in Acquiring
          /\ pc'[r] \in Acquiring \union Outcome
      BY <1>3 DEF LockExists, Lstat, Read, Verify, Judge, JudgeIncomplete, JudgeOwner,
           Go, Again
    <2>2. UNCHANGED MutexInside
      BY <2>1 DEF MutexInside
    <2>3. UNCHANGED MutexDead
      BY <2>1 DEF MutexDead
    <2> QED
      BY <1>1, <2>1, <2>2, <2>3 DEF MutexOwner
  <1>4. ASSUME NEW r \in Run, CreateLock(r)
        PROVE  Mutex!Claim(r)
    <2>1. MutexOwner' = r /\ lock' # NoFile
      BY <1>4, NoFileAssumption DEF CreateLock, MutexOwner, Created
    <2>2. UNCHANGED MutexInside
      BY <1>4 DEF CreateLock, Go, MutexInside
    <2>3. UNCHANGED MutexDead /\ r \notin MutexDead
      BY <1>4 DEF CreateLock, Go, MutexDead, LiveRunsStarted
    <2> QED
      BY <1>4, <2>1, <2>2, <2>3
         DEF CreateLock, Mutex!Claim, MutexOwner, MutexInside, MutexDead
  <1>5. ASSUME NEW r \in Run, Write(r) \/ WriteFails(r)
        PROVE  UNCHANGED Mutex!vars
    <2>1. /\ lock' = lock /\ lock \in Inode /\ lock = seen[r] /\ content[lock].run = r
          /\ r \in alive
      BY <1>5 DEF Write, WriteFails, OwnerKeepsLock
    <2>2. UNCHANGED MutexOwner
      BY <1>5, <2>1 DEF Write, WriteFails, MutexOwner, Partial, Record
    <2>3. UNCHANGED MutexInside
      BY <1>5 DEF Write, WriteFails, Go, MutexInside
    <2>4. UNCHANGED MutexDead
      BY <1>5 DEF Write, WriteFails, Go, MutexDead
    <2> QED
      BY <1>1, <2>1, <2>2, <2>3, <2>4
  <1>6. ASSUME NEW r \in Run, Publish(r)
        PROVE  Mutex!Enter(r)
    <2>1. pc' = [pc EXCEPT ![r] = "install"]
      BY <1>6 DEF Publish, Go, OwnerKeepsLock
    <2>2. MutexOwner = r /\ UNCHANGED MutexOwner
      BY <1>6 DEF Publish, OwnerKeepsLock, MutexOwner
    <2>3. MutexInside' = MutexInside \union {r}
      BY <2>1 DEF MutexInside
    <2>4. UNCHANGED MutexDead /\ r \notin MutexDead
      BY <1>6, <2>1 DEF Publish, MutexDead, OwnerKeepsLock
    <2> QED
      BY <1>6, <2>2, <2>3, <2>4
         DEF Publish, Mutex!Enter, MutexOwner, MutexInside, MutexDead
  <1>7. ASSUME NEW r \in Run, FinishInstall(r) \/ CheckInode(r) \/ CheckRecord(r)
        PROVE  UNCHANGED Mutex!vars
    <2>1. /\ UNCHANGED <<lock, content, alive>>
          /\ \A q \in Run : q # r => pc'[q] = pc[q]
          /\ pc[r] \in Holding
          /\ pc'[r] \in Holding
      BY <1>7 DEF FinishInstall, CheckInode, CheckRecord, Go, OwnerKeepsLock
    <2>2. UNCHANGED MutexInside
      BY <2>1 DEF MutexInside
    <2>3. UNCHANGED MutexDead
      BY <2>1 DEF MutexDead
    <2> QED
      BY <1>1, <2>1, <2>2, <2>3 DEF MutexOwner
  <1>8. ASSUME NEW r \in Run, Unlink(r)
        PROVE  Mutex!Release(r)
    <2>1. lock' = NoFile /\ pc' = [pc EXCEPT ![r] = "done"] /\ pc[r] = "unlink"
      BY <1>8 DEF Unlink, Go, OwnerKeepsLock
    <2>2. MutexOwner = r /\ MutexOwner' = NoRun /\ r \in MutexInside
      BY <1>8, <2>1 DEF OwnerKeepsLock, MutexOwner, MutexInside
    <2>3. MutexInside' = MutexInside \ {r}
      BY <2>1 DEF MutexInside
    <2>4. UNCHANGED MutexDead
      BY <1>8, <2>1 DEF Unlink, MutexDead
    <2> QED
      BY <2>1, <2>2, <2>3, <2>4 DEF Mutex!Release, MutexOwner, MutexInside, MutexDead
  <1>9. ASSUME NEW r \in Run, Exit(r) \/ Crash(r)
        PROVE  Mutex!Die(r)
    <2>1. /\ UNCHANGED <<lock, content>>
          /\ r \in alive
          /\ alive' = alive \ {r}
          /\ pc[r] # "idle"
          /\ \A q \in Run : q # r => pc'[q] = pc[q]
          /\ pc'[r] \in Outcome \union {"crashed"}
      BY <1>9 DEF Exit, Crash, Go, LiveRunsStarted
    <2>2. MutexInside' = MutexInside \ {r}
      BY <2>1 DEF MutexInside
    <2>3. MutexDead' = MutexDead \union {r} /\ r \notin MutexDead
      BY <2>1 DEF MutexDead
    <2> QED
      BY <2>1, <2>2, <2>3 DEF Mutex!Die, MutexOwner, MutexInside, MutexDead
  <1>10. ASSUME NEW r \in Run, Start(r)
         PROVE  UNCHANGED Mutex!vars
    <2>1. UNCHANGED MutexInside
      BY <1>10 DEF Start, Go, MutexInside
    <2>2. UNCHANGED MutexDead
      BY <1>10 DEF Start, Go, MutexDead
    <2> QED
      BY <1>1, <1>10, <2>1, <2>2 DEF Start, MutexOwner
  <1>11. CASE OperatorRemoves
    <2>1. lock # NoFile /\ content[lock].run \notin alive /\ lock' = NoFile
      BY <1>11 DEF OperatorRemoves, ConfirmationHolds
    <2>2. MutexOwner \in MutexDead \union {NoRun} /\ MutexOwner' = NoRun
      BY <2>1 DEF MutexOwner, MutexDead, NamesStartedRuns, WellNamed, Content
    <2>3. MutexInside = {}
      BY <2>1 DEF MutexInside, OwnerKeepsLock
    <2>4. UNCHANGED <<MutexInside, MutexDead>>
      BY <1>11 DEF OperatorRemoves, MutexInside, MutexDead
    <2>5. Mutex!Clear
      BY <2>1, <2>2, <2>3, <2>4 DEF Mutex!Clear, MutexOwner, MutexInside, MutexDead
    <2> QED
      BY <2>5 DEF Mutex!Next
  <1>12. CASE OperatorConfirms \/ \E r \in Run : Clock(r)
    BY <1>1, <1>12 DEF OperatorConfirms, Clock, DeadlinePasses, InitializationTimesOut,
       MutexOwner, MutexInside, MutexDead
  <1> QED
    <2>1. CASE Next
      BY <2>1, <1>3, <1>4, <1>5, <1>6, <1>7, <1>8, <1>9, <1>10, <1>11, <1>12
         DEF Next, Acquire, Release, Mutex!Next
    <2> QED
      BY <1>2, <2>1

\* The lock file implements the abstract lock.
THEOREM LockImplementsMutex == Spec => ImplementsMutex
  BY MutexInit, MutexStep, InvariantCorrect, PTL DEF Spec, ImplementsMutex, Mutex!Spec

================================================================================

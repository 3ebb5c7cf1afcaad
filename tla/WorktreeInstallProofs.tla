------------------------- MODULE WorktreeInstallProofs -------------------------
(***************************************************************************)
(* Proofs about WorktreeInstall, for any number of runs, worktrees and     *)
(* locations and any choice of Events.                                     *)
(***************************************************************************)
EXTENDS WorktreeInstall, TLAPS

Names == {"none", "ours"}
HooksValue == Paths \union {NoValue, Custom}
Steps == EarlySteps \union LateSteps \union
             {"idle", "undoHooks", "undoCommand", "undoName", "release"}
Undo  == [hooks : BOOLEAN, name : BOOLEAN, command : BOOLEAN]

--------------------------------------------------------------------------------
(* Changing one value of one worktree's configuration *)

LEMMA OwnIsPath ==
    ASSUME TypeOK, NEW w \in Worktree
    PROVE  Own(w) \in Paths
  BY DEF TypeOK, Own, HooksPath, Paths

LEMMA Values ==
    /\ NoConf \in Conf /\ NoPlan \in Common /\ Nothing \in Undo
    /\ Main \in Worktree
    /\ Forms \subseteq Commands
  BY MainAssumption DEF NoConf, Conf, NoPlan, Common, Nothing, Undo, Commands, Known, Forms

LEMMA ConfFields ==
    ASSUME NEW c \in Conf, NEW d \in Conf,
           c.hooks = d.hooks, c.name = d.name, c.command = d.command
    PROVE  c = d
  BY DEF Conf

LEMMA CommonBare ==
    ASSUME NEW b \in BOOLEAN
    PROVE  [NoPlan EXCEPT !.bare = b] = [version |-> 1, extension |-> TRUE, bare |-> b]
  <1>1. ASSUME NEW c \in Common, NEW d \in Common,
               c.version = d.version, c.extension = d.extension, c.bare = d.bare
        PROVE  c = d
    BY <1>1 DEF Common
  <1>2. ASSUME NEW c \in Common
        PROVE  /\ [c EXCEPT !.bare = b] \in Common
               /\ [c EXCEPT !.bare = b].version = c.version
               /\ [c EXCEPT !.bare = b].extension = c.extension
               /\ [c EXCEPT !.bare = b].bare = b
    BY DEF Common
  <1>3. [version |-> 1, extension |-> TRUE, bare |-> b] \in Common
    BY DEF Common
  <1>4. NoPlan \in Common /\ NoPlan.version = 1 /\ NoPlan.extension = TRUE
    BY DEF NoPlan, Common
  <1> QED BY <1>1, <1>2, <1>3, <1>4

LEMMA SetHooks ==
    ASSUME NEW C \in [Worktree -> Conf], NEW w \in Worktree, NEW v \in HooksValue,
           NEW D, D = [C EXCEPT ![w].hooks = v]
    PROVE  /\ D \in [Worktree -> Conf]
           /\ D[w].hooks = v /\ D[w].name = C[w].name /\ D[w].command = C[w].command
           /\ \A u \in Worktree : u # w => D[u] = C[u]
  BY DEF Conf, HooksValue

LEMMA SetName ==
    ASSUME NEW C \in [Worktree -> Conf], NEW w \in Worktree, NEW v \in Names,
           NEW D, D = [C EXCEPT ![w].name = v]
    PROVE  /\ D \in [Worktree -> Conf]
           /\ D[w].name = v /\ D[w].hooks = C[w].hooks /\ D[w].command = C[w].command
           /\ \A u \in Worktree : u # w => D[u] = C[u]
  BY DEF Conf, Names

LEMMA SetCommand ==
    ASSUME NEW C \in [Worktree -> Conf], NEW w \in Worktree, NEW v \in Commands,
           NEW D, D = [C EXCEPT ![w].command = v]
    PROVE  /\ D \in [Worktree -> Conf]
           /\ D[w].command = v /\ D[w].hooks = C[w].hooks /\ D[w].name = C[w].name
           /\ \A u \in Worktree : u # w => D[u] = C[u]
  BY DEF Conf

--------------------------------------------------------------------------------
(* Types *)

LEMMA TypeInit == Init => TypeOK
  <1> SUFFICES ASSUME Init PROVE TypeOK
    OBVIOUS
  <1>1. common \in Common
    <2>1. /\ [version |-> 0, extension |-> FALSE, bare |-> TRUE] \in Common
          /\ [version |-> 1, extension |-> TRUE, bare |-> FALSE] \in Common
      BY DEF Common
    <2> QED BY <2>1 DEF Init
  <1>2. conf \in [Worktree -> Conf] /\ was \in [Run -> Conf]
    BY Values DEF Init
  <1>3. plan \in [Run -> Common] /\ undo \in [Run -> Undo] /\ target \in [Run -> Worktree]
    BY Values DEF Init
  <1> QED
    BY <1>1, <1>2, <1>3, MainAssumption DEF Init, TypeOK, Undo

LEMMA ForgetTypes ==
    ASSUME TypeOK, NEW r \in Run, Forget(r)
    PROVE  /\ pc' \in [Run -> Steps] /\ target' \in [Run -> Worktree] /\ was' \in [Run -> Conf]
           /\ plan' \in [Run -> Common] /\ copied' \in [Run -> BOOLEAN]
           /\ driver' \in [Run -> Forms \union {"none"}] /\ undo' \in [Run -> Undo]
           /\ result' \in [Run -> {"none", "ok", "failed", "rollback failed", "interrupted"}]
  BY Values DEF TypeOK, Forget, Go, Steps, Undo

LEMMA RaiseTypes ==
    ASSUME TypeOK, NEW r \in Run, Raise(r)
    PROVE  /\ pc' \in [Run -> Steps]
           /\ result' \in [Run -> {"none", "ok", "failed", "rollback failed", "interrupted"}]
  BY DEF TypeOK, Raise, Go, Steps

\* The steps of install() up to the migration.
LEMMA TypeCheck ==
    ASSUME TypeOK, NEW r \in Run,
           Claim(r) \/ Check(r) \/ EnsureDirectory(r) \/ MarkNewDirectory(r)
    PROVE  TypeOK'
  <1>a. target[r] \in Worktree /\ Own(target[r]) \in Paths
    BY OwnIsPath DEF TypeOK
  <1>1. CASE Claim(r)
    <2>1. PICK w \in exists : target' = [target EXCEPT ![r] = w]
      BY <1>1 DEF Claim
    <2>2. target' \in [Run -> Worktree] /\ lock' \in Run
      BY <1>1, <2>1 DEF TypeOK, Claim
    <2>3. pc' \in [Run -> Steps]
      BY <1>1 DEF TypeOK, Claim, Go, EarlySteps, Steps
    <2> QED BY <1>1, <2>2, <2>3 DEF TypeOK, Claim, Steps, env
  <1>2. CASE Check(r)
    <2>1. was' \in [Run -> Conf] /\ plan' \in [Run -> Common] /\ copied' \in [Run -> BOOLEAN]
      BY <1>2, <1>a DEF TypeOK, Check
    <2>2. CASE Raise(r)
      BY <1>2, <2>1, <2>2, RaiseTypes DEF TypeOK, Check, Steps, env
    <2>3. CASE Go(r, "ensure") /\ UNCHANGED result
      BY <1>2, <2>1, <2>3 DEF TypeOK, Check, Go, EarlySteps, env
    <2> QED BY <1>2, <2>2, <2>3 DEF Check
  <1>3. CASE EnsureDirectory(r)
    <2>1. dir' \in [Worktree -> Paths \union {Absent, Unmarked, Broken}]
      BY <1>3, <1>a DEF TypeOK, EnsureDirectory
    <2>2. CASE Raise(r)
      BY <1>3, <2>1, <2>2, RaiseTypes DEF TypeOK, EnsureDirectory, Steps, env, mine
    <2>3. CASE (Go(r, "mark") \/ Go(r, "version")) /\ UNCHANGED result
      BY <1>3, <2>1, <2>3 DEF TypeOK, EnsureDirectory, Go, EarlySteps, env, mine
    <2> QED BY <1>3, <2>2, <2>3 DEF EnsureDirectory
  <1>4. CASE MarkNewDirectory(r)
    <2>1. dir' \in [Worktree -> Paths \union {Absent, Unmarked, Broken}]
      BY <1>4, <1>a DEF TypeOK, MarkNewDirectory
    <2>2. pc' \in [Run -> Steps]
      BY <1>4 DEF TypeOK, MarkNewDirectory, Go, EarlySteps, Steps
    <2> QED BY <1>4, <2>1, <2>2 DEF TypeOK, MarkNewDirectory, Steps, env, mine
  <1> QED BY <1>1, <1>2, <1>3, <1>4

\* The migration and the probe.
LEMMA TypeMigrate ==
    ASSUME TypeOK, NEW r \in Run, SetVersion(r) \/ SetExtension(r) \/ UnsetBare(r) \/ Probe(r)
    PROVE  TypeOK'
  <1>1. CASE SetVersion(r)
    <2>1. common' \in Common
      BY <1>1 DEF TypeOK, SetVersion, Common
    <2> QED BY <1>1, <2>1 DEF TypeOK, SetVersion, Go, EarlySteps, env, mine
  <1>2. CASE SetExtension(r)
    <2>1. common' \in Common
      BY <1>2 DEF TypeOK, SetExtension, Common
    <2> QED BY <1>2, <2>1 DEF TypeOK, SetExtension, Go, EarlySteps, env, mine
  <1>3. CASE UnsetBare(r)
    <2>1. common' \in Common
      BY <1>3 DEF TypeOK, UnsetBare, Common
    <2>2. CASE Raise(r)
      BY <1>3, <2>1, <2>2, RaiseTypes DEF TypeOK, UnsetBare, Steps, env, mine
    <2>3. CASE Go(r, "probe") /\ UNCHANGED result
      BY <1>3, <2>1, <2>3 DEF TypeOK, UnsetBare, Go, LateSteps, env, mine
    <2> QED BY <1>3, <2>2, <2>3 DEF UnsetBare
  <1>4. CASE Probe(r)
    <2>1. driver' \in [Run -> Forms \union {"none"}]
      BY <1>4 DEF TypeOK, Probe
    <2> QED BY <1>4, <2>1 DEF TypeOK, Probe, Go, LateSteps, env
  <1> QED BY <1>1, <1>2, <1>3, <1>4

\* The takeover of the worktree's configuration.
LEMMA TypeTakeOver ==
    ASSUME TypeOK, NEW r \in Run, RegisterName(r) \/ RegisterCommand(r) \/ TakeHooksPath(r)
    PROVE  TypeOK'
  <1>a. target[r] \in Worktree /\ Own(target[r]) \in HooksValue
    BY OwnIsPath DEF TypeOK, HooksValue
  <1>b. conf \in [Worktree -> Conf]
    BY DEF TypeOK
  <1>1. CASE RegisterName(r)
    <2>1. conf' \in [Worktree -> Conf]
      <3>1. ASSUME NEW v \in Names, conf' = [conf EXCEPT ![target[r]].name = v]
            PROVE  conf' \in [Worktree -> Conf]
        BY <3>1, <1>a, <1>b, SetName
      <3>2. conf' = [conf EXCEPT ![target[r]].name = "ours"]
        BY <1>1 DEF RegisterName
      <3> QED BY <3>1, <3>2 DEF Names
    <2>2. undo' \in [Run -> Undo]
      <3> DEFINE unset == conf[target[r]].name = "none"
      <3>1. unset \in BOOLEAN /\ undo' = [undo EXCEPT ![r].name = unset]
        BY <1>1 DEF RegisterName
      <3> HIDE DEF unset
      <3> QED BY <3>1 DEF TypeOK, Undo
    <2> QED BY <1>1, <2>1, <2>2 DEF TypeOK, RegisterName, Go, LateSteps, Undo, env, mine
  <1>2. CASE RegisterCommand(r)
    <2>1. CASE Raise(r) /\ UNCHANGED <<conf, undo>>
      BY <1>2, <2>1, RaiseTypes DEF TypeOK, RegisterCommand, Steps, env, mine
    <2>2. CASE /\ conf[target[r]].command \in Known \union {"none"}
               /\ conf' = [conf EXCEPT ![target[r]].command = driver[r]]
               /\ undo' = [undo EXCEPT ![r].command = conf[target[r]].command # driver[r]]
               /\ Go(r, "hooksPath") /\ UNCHANGED result
      <3>1. conf' \in [Worktree -> Conf]
        <4>1. driver[r] \in Commands
          BY Values DEF TypeOK, Commands
        <4> QED BY <4>1, <2>2, <1>a, <1>b, SetCommand
      <3>2. undo' \in [Run -> Undo]
        BY <2>2 DEF TypeOK, Undo
      <3> QED BY <1>2, <2>2, <3>1, <3>2 DEF TypeOK, RegisterCommand, Go, LateSteps, Undo, env, mine
    <2> QED BY <1>2, <2>1, <2>2 DEF RegisterCommand
  <1>3. CASE TakeHooksPath(r)
    <2>1. conf' \in [Worktree -> Conf]
      <3>1. conf' = [conf EXCEPT ![target[r]].hooks = Own(target[r])]
        BY <1>3 DEF TakeHooksPath
      <3> QED BY <3>1, <1>a, <1>b, SetHooks
    <2>2. undo' \in [Run -> Undo]
      BY <1>3 DEF TypeOK, TakeHooksPath, Undo
    <2> QED BY <1>3, <2>1, <2>2 DEF TypeOK, TakeHooksPath, Go, LateSteps, Undo, env, mine
  <1> QED BY <1>1, <1>2, <1>3

\* The checks after it, prek and the marker.
LEMMA TypeVerify ==
    ASSUME TypeOK, NEW r \in Run,
           CheckEffective(r) \/ RunPrek(r) \/ CheckShims(r) \/ UpdateMarker(r) \/ Fails(r)
    PROVE  TypeOK'
  <1>a. target[r] \in Worktree /\ Own(target[r]) \in Paths
    BY OwnIsPath DEF TypeOK
  <1>1. CASE CheckEffective(r)
    <2>1. CASE Raise(r)
      BY <1>1, <2>1, RaiseTypes DEF TypeOK, CheckEffective, Steps, env, mine
    <2>2. CASE Go(r, "prek") /\ UNCHANGED result
      BY <1>1, <2>2 DEF TypeOK, CheckEffective, Go, LateSteps, env, mine
    <2> QED BY <1>1, <2>1, <2>2 DEF CheckEffective
  <1>2. CASE RunPrek(r)
    <2>1. shims' \in [Worktree -> BOOLEAN]
      BY <1>2, <1>a DEF TypeOK, RunPrek
    <2> QED BY <1>2, <2>1 DEF TypeOK, RunPrek, Go, LateSteps, env, mine
  <1>3. CASE CheckShims(r)
    <2>1. CASE Raise(r)
      BY <1>3, <2>1, RaiseTypes DEF TypeOK, CheckShims, Steps, env, mine
    <2>2. CASE Go(r, "remark") /\ UNCHANGED result
      BY <1>3, <2>2 DEF TypeOK, CheckShims, Go, LateSteps, env, mine
    <2> QED BY <1>3, <2>1, <2>2 DEF CheckShims
  <1>4. CASE UpdateMarker(r)
    <2>1. dir' \in [Worktree -> Paths \union {Absent, Unmarked, Broken}]
      BY <1>4, <1>a DEF TypeOK, UpdateMarker
    <2>2. pc' \in [Run -> Steps]
      BY <1>4 DEF TypeOK, UpdateMarker, Go, LateSteps, Steps
    <2>3. result' \in [Run -> {"none", "ok", "failed", "rollback failed", "interrupted"}]
      BY <1>4 DEF TypeOK, UpdateMarker
    <2> QED BY <1>4, <2>1, <2>2, <2>3 DEF TypeOK, UpdateMarker, Steps, env, mine
  <1>5. CASE Fails(r)
    BY <1>5, RaiseTypes DEF TypeOK, Fails, Steps, env, mine
  <1> QED BY <1>1, <1>2, <1>3, <1>4, <1>5

\* The rollback: conf changes in one value, or an undo fails.
LEMMA TypeUndo ==
    ASSUME TypeOK, NEW r \in Run, UndoHooksPath(r) \/ UndoCommand(r) \/ UndoName(r)
    PROVE  TypeOK'
  <1> DEFINE w == target[r]
  <1>a. w \in Worktree /\ conf \in [Worktree -> Conf] /\ was[r] \in Conf /\ conf[w] \in Conf
    BY DEF TypeOK
  <1>1. conf' \in [Worktree -> Conf]
    <2>1. CASE UndoHooksPath(r)
      <3> DEFINE v == IF undo[r].hooks THEN was[r].hooks ELSE conf[w].hooks
      <3>1. v \in HooksValue
        BY <1>a DEF Conf, HooksValue
      <3>2. conf' = conf \/ conf' = [conf EXCEPT ![w].hooks = v]
        BY <2>1, <1>a DEF UndoHooksPath
      <3> HIDE DEF v
      <3> QED BY <3>1, <3>2, <1>a, SetHooks
    <2>2. CASE UndoCommand(r)
      <3> DEFINE v == IF undo[r].command THEN was[r].command ELSE conf[w].command
      <3>1. v \in Commands
        BY <1>a DEF Conf
      <3>2. conf' = conf \/ conf' = [conf EXCEPT ![w].command = v]
        BY <2>2, <1>a DEF UndoCommand
      <3> HIDE DEF v
      <3> QED BY <3>1, <3>2, <1>a, SetCommand
    <2>3. CASE UndoName(r)
      <3> DEFINE v == IF undo[r].name THEN "none" ELSE conf[w].name
      <3>1. v \in Names
        BY <1>a DEF Conf, Names
      <3>2. conf' = conf \/ conf' = [conf EXCEPT ![w].name = v]
        BY <2>3, <1>a DEF UndoName
      <3> HIDE DEF v
      <3> QED BY <3>1, <3>2, <1>a, SetName
    <2> QED BY <2>1, <2>2, <2>3
  <1>2. /\ pc' \in [Run -> Steps]
        /\ result' \in [Run -> {"none", "ok", "failed", "rollback failed", "interrupted"}]
    BY DEF TypeOK, UndoHooksPath, UndoCommand, UndoName, RollbackFailed, Go, Steps
  <1>3. UNCHANGED <<common, env, dir, shims, lock, mine, undo>>
    BY DEF UndoHooksPath, UndoCommand, UndoName
  <1> QED BY <1>1, <1>2, <1>3 DEF TypeOK, Steps, env, mine

LEMMA TypeEnd ==
    ASSUME TypeOK, NEW r \in Run, Release(r) \/ Interrupt(r) \/ Crash(r)
    PROVE  TypeOK'
  <1>1. CASE Release(r)
    BY <1>1, ForgetTypes DEF TypeOK, Release, Steps, Undo, env
  <1>2. CASE Interrupt(r)
    BY <1>2 DEF TypeOK, Interrupt, Go, env, mine
  <1>3. CASE Crash(r)
    BY <1>3, ForgetTypes DEF TypeOK, Crash, Steps, Undo, env
  <1> QED BY <1>1, <1>2, <1>3

LEMMA TypeUser ==
    ASSUME TypeOK, User
    PROVE  TypeOK'
  <1>1. ASSUME NEW w \in Worktree, AddWorktree(w) PROVE TypeOK'
    <2>1. PICK v \in exists : conf' = [conf EXCEPT ![w] = Effective(v)]
      BY <1>1 DEF AddWorktree
    <2>2. Effective(v) \in Conf
      BY Values DEF TypeOK, Effective
    <2>3. conf' \in [Worktree -> Conf]
      BY <2>1, <2>2 DEF TypeOK
    <2> QED BY <1>1, <2>3 DEF TypeOK, AddWorktree, mine
  <1>2. ASSUME NEW w \in Worktree, RemoveWorktree(w) PROVE TypeOK'
    <2>1. conf' \in [Worktree -> Conf]
      BY <1>2, Values DEF TypeOK, RemoveWorktree
    <2> QED BY <1>2, <2>1 DEF TypeOK, RemoveWorktree, mine
  <1>3. ASSUME NEW w \in Worktree, SetOwnValue(w) PROVE TypeOK'
    <2>1. conf' \in [Worktree -> Conf]
      <3>1. Custom \in HooksValue /\ "custom" \in Commands /\ "legacy" \in Commands
        BY DEF HooksValue, Commands, Known
      <3>2. conf \in [Worktree -> Conf]
        BY DEF TypeOK
      <3>3. CASE conf' = [conf EXCEPT ![w].hooks = Custom]
        BY <3>1, <3>2, <3>3, SetHooks
      <3>4. ASSUME NEW c \in {"custom", "legacy"}, conf' = [conf EXCEPT ![w].command = c]
            PROVE  conf' \in [Worktree -> Conf]
        <4>1. c \in Commands
          BY <3>1
        <4> QED BY <4>1, <3>2, <3>4, SetCommand
      <3> QED BY <1>3, <3>3, <3>4 DEF SetOwnValue
    <2> QED BY <1>3, <2>1 DEF TypeOK, SetOwnValue, env, mine
  <1>4. CASE MoveRepository
    BY <1>4 DEF TypeOK, MoveRepository, mine
  <1>5. CASE DisableExtension
    <2>1. common' \in Common
      BY <1>5 DEF TypeOK, DisableExtension, Common
    <2> QED BY <1>5, <2>1 DEF TypeOK, DisableExtension, env, mine
  <1> QED BY <1>1, <1>2, <1>3, <1>4, <1>5 DEF User

LEMMA TypeStep == TypeOK /\ [Next]_vars => TypeOK'
  <1> SUFFICES ASSUME TypeOK, [Next]_vars PROVE TypeOK'
    OBVIOUS
  <1>1. CASE UNCHANGED vars
    BY <1>1 DEF TypeOK, vars, env, mine
  <1>2. ASSUME NEW r \in Run, Install(r) \/ Fails(r) \/ Interrupt(r) \/ Crash(r) PROVE TypeOK'
    BY <1>2, TypeCheck, TypeMigrate, TypeTakeOver, TypeVerify, TypeUndo, TypeEnd DEF Install
  <1>3. CASE ClearLock
    BY <1>3 DEF TypeOK, ClearLock, env, mine
  <1>4. CASE User
    BY <1>4, TypeUser
  <1> QED BY <1>1, <1>2, <1>3, <1>4 DEF Next

\* Every variable of the installer keeps its type.
THEOREM TypeCorrect == Spec => []TypeOK
  BY TypeInit, TypeStep, PTL DEF Spec

--------------------------------------------------------------------------------
(* The inductive invariant *)

USE DEF EarlySteps, LateSteps, Named, Taken, Verified

LEMMA InvInit == Init => InstallInvariant
  <1> SUFFICES ASSUME Init PROVE InstallInvariant
    OBVIOUS
  <1>1. TypeOK
    BY TypeInit
  <1>2. GoneIsEmpty
    BY DEF Init, GoneIsEmpty
  <1>3. ASSUME NEW r \in Run PROVE RunInvariant(r)
    BY <1>3 DEF Init, RunInvariant, Alone, MigrationRuns, Registered, Undoable, WaysOut
  <1> QED BY <1>1, <1>2, <1>3 DEF InstallInvariant

\* A run's step leaves the variables of the other runs alone ...
Untouched(r) ==
    \A s \in Run \ {r} :
        /\ pc'[s] = pc[s] /\ target'[s] = target[s] /\ was'[s] = was[s]
        /\ undo'[s] = undo[s] /\ result'[s] = result[s]

\* ... and as they are idle, their part of the invariant stays.
LEMMA OthersStay ==
    ASSUME InstallInvariant, NEW r \in Run, pc[r] # "idle" \/ lock = Free,
           Untouched(r), Main \in exists'
    PROVE  \A s \in Run \ {r} : RunInvariant(s)'
  <1> SUFFICES ASSUME NEW s \in Run \ {r} PROVE RunInvariant(s)'
    OBVIOUS
  <1>1. pc[s] = "idle"
    <2>1. pc[s] # "idle" => lock = s
      BY DEF InstallInvariant, RunInvariant, Alone
    <2>2. pc[r] # "idle" => lock = r
      BY DEF InstallInvariant, RunInvariant, Alone
    <2> QED BY <2>1, <2>2, MarksAssumption
  <1>2. target[s] = Main /\ was[s] = NoConf /\ undo[s] = Nothing /\ result[s] = "none"
    BY <1>1 DEF InstallInvariant, RunInvariant, Alone
  <1>3. /\ pc'[s] = "idle" /\ target'[s] = Main /\ was'[s] = NoConf
        /\ undo'[s] = Nothing /\ result'[s] = "none"
    BY <1>1, <1>2 DEF Untouched
  <1> QED
    BY <1>3 DEF RunInvariant, Alone, MigrationRuns, Registered, Undoable, WaysOut

LEMMA StepsAreOwn ==
    ASSUME TypeOK, NEW r \in Run, Install(r) \/ Fails(r) \/ Interrupt(r) \/ Crash(r)
    PROVE  /\ Untouched(r) /\ UNCHANGED <<inherited, exists, location>>
           /\ pc[r] # "idle" \/ lock = Free
  <1> USE DEF TypeOK, Untouched, Go, env, mine
  <1>1. CASE Claim(r)
    <2>1. PICK w \in exists : target' = [target EXCEPT ![r] = w]
      BY <1>1 DEF Claim
    <2> QED BY <1>1, <2>1 DEF Claim
  <1>2. CASE Check(r) \/ EnsureDirectory(r) \/ MarkNewDirectory(r)
    BY <1>2 DEF Check, EnsureDirectory, MarkNewDirectory, Raise
  <1>3. CASE SetVersion(r) \/ SetExtension(r) \/ UnsetBare(r) \/ Probe(r)
    BY <1>3 DEF SetVersion, SetExtension, UnsetBare, Probe, Raise
  <1>4. CASE RegisterName(r) \/ RegisterCommand(r) \/ TakeHooksPath(r)
    BY <1>4 DEF RegisterName, RegisterCommand, TakeHooksPath, Raise
  <1>5. CASE CheckEffective(r) \/ RunPrek(r) \/ CheckShims(r)
    BY <1>5 DEF CheckEffective, RunPrek, CheckShims, Raise
  <1>6. CASE UpdateMarker(r) \/ Fails(r)
    BY <1>6 DEF UpdateMarker, Fails, Raise
  <1>7. CASE UndoHooksPath(r) \/ UndoCommand(r) \/ UndoName(r)
    BY <1>7 DEF UndoHooksPath, UndoCommand, UndoName, RollbackFailed
  <1>8. CASE Release(r)
    BY <1>8 DEF Release, Forget
  <1>9. CASE Interrupt(r)
    BY <1>9 DEF Interrupt
  <1>10. CASE Crash(r)
    BY <1>10 DEF Crash, Forget
  <1> QED
    BY <1>1, <1>2, <1>3, <1>4, <1>5, <1>6, <1>7, <1>8, <1>9, <1>10 DEF Install

\* A failure before the configuration is touched, and one after it.
LEMMA EarlyRaise ==
    ASSUME InstallInvariant, NEW r \in Run, pc[r] \in EarlySteps \ {"check"}, Raise(r),
           UNCHANGED <<conf, exists, lock, mine, undo>>
    PROVE  RunInvariant(r)'
  <1>1. pc'[r] = "release" /\ result'[r] = "failed"
    BY DEF InstallInvariant, TypeOK, Raise, Go
  <1>2. /\ lock' = r /\ target'[r] \in exists'
        /\ conf'[target'[r]] = was'[r]
    BY DEF InstallInvariant, RunInvariant, Alone, Undoable, mine
  <1> QED
    BY <1>1, <1>2 DEF RunInvariant, Alone, MigrationRuns, Registered, Undoable, WaysOut

LEMMA LateRaise ==
    ASSUME InstallInvariant, NEW r \in Run, pc[r] \in LateSteps, Raise(r),
           UNCHANGED <<conf, env, lock, mine, undo>>
    PROVE  RunInvariant(r)'
  <1>1. pc'[r] = "undoHooks" /\ result'[r] = "failed"
    BY DEF InstallInvariant, TypeOK, Raise, Go
  <1>2. Alone(r)'
    BY <1>1 DEF InstallInvariant, RunInvariant, Alone, mine, env
  <1>3. Undoable(r)'
    BY <1>1 DEF InstallInvariant, RunInvariant, Undoable, Own, mine, env
  <1> QED
    BY <1>1, <1>2, <1>3 DEF RunInvariant, MigrationRuns, Registered, WaysOut

\* The steps before the migration change nothing the invariant is about.
LEMMA EarlyStays ==
    ASSUME InstallInvariant, NEW r \in Run, pc[r] \in {"ensure", "mark"},
           pc'[r] \in {"mark", "version"}, UNCHANGED <<common, conf, exists, lock, mine, undo, result>>
    PROVE  RunInvariant(r)'
  <1>1. Alone(r)' /\ MigrationRuns(r)'
    BY DEF InstallInvariant, RunInvariant, Alone, MigrationRuns, mine
  <1>2. Undoable(r)' /\ WaysOut(r)'
    BY DEF InstallInvariant, RunInvariant, Undoable, WaysOut, mine
  <1> QED
    BY <1>1, <1>2 DEF RunInvariant, Registered

LEMMA InvCheck ==
    ASSUME InstallInvariant, NEW r \in Run,
           Claim(r) \/ Check(r) \/ EnsureDirectory(r) \/ MarkNewDirectory(r)
    PROVE  RunInvariant(r)' /\ GoneIsEmpty'
  <1>a. TypeOK /\ GoneIsEmpty /\ RunInvariant(r)
    BY DEF InstallInvariant
  <1>b. target[r] \in exists
    BY <1>a DEF RunInvariant, Alone
  <1>1. CASE Claim(r)
    <2>1. PICK w \in exists : target' = [target EXCEPT ![r] = w]
      BY <1>1 DEF Claim
    <2>2. /\ pc'[r] = "check" /\ lock' = r /\ target'[r] \in exists'
          /\ undo'[r] = Nothing /\ result'[r] = "none"
      BY <1>1, <1>a, <2>1 DEF TypeOK, RunInvariant, Alone, Claim, Go, env
    <2>3. RunInvariant(r)'
      BY <2>2 DEF RunInvariant, Alone, MigrationRuns, Registered, Undoable, WaysOut
    <2>4. GoneIsEmpty'
      BY <1>1, <1>a DEF Claim, GoneIsEmpty, env
    <2> QED BY <2>3, <2>4
  <1>2. CASE Check(r)
    <2>1. /\ lock' = r /\ target'[r] = target[r] /\ target'[r] \in exists'
          /\ undo'[r] = Nothing /\ was'[r] = conf'[target'[r]] /\ plan'[r] = common'
      BY <1>2, <1>a, <1>b DEF TypeOK, RunInvariant, Alone, Undoable, Check, env
    <2>2. CASE Raise(r)
      <3>1. pc'[r] = "release" /\ result'[r] = "failed"
        BY <1>2, <1>a, <2>2 DEF TypeOK, Check, Raise, Go
      <3> QED
        BY <1>2, <1>a, <2>1, <3>1 DEF RunInvariant, Alone, MigrationRuns, Registered, Undoable,
                                      WaysOut, GoneIsEmpty, Check, env
    <2>3. CASE ~DormantEntries /\ OwnsHooksPath(target[r]) /\ Go(r, "ensure") /\ UNCHANGED result
      <3>1. pc'[r] = "ensure" /\ result'[r] = "none"
        BY <1>2, <1>a, <2>3 DEF TypeOK, RunInvariant, WaysOut, Check, Go
      <3>2. was'[r].hooks # Custom
        <4>1. Own(target[r]) \in Paths
          BY <1>a, OwnIsPath DEF TypeOK
        <4>2. conf[target[r]].hooks \in Paths \union {NoValue}
          BY <2>3, <4>1 DEF OwnsHooksPath
        <4> QED BY <1>2, <2>1, <4>2, MarksAssumption DEF Check
      <3>3. ~common'.extension => \A w \in Worktree : conf'[w] = NoConf
        BY <1>2, <1>a, <2>3 DEF TypeOK, GoneIsEmpty, DormantEntries, Check
      <3>4. GoneIsEmpty'
        BY <1>2, <1>a DEF GoneIsEmpty, Check, env
      <3> QED
        BY <2>1, <3>1, <3>2, <3>3, <3>4 DEF RunInvariant, Alone, MigrationRuns, Registered,
                                            Undoable, WaysOut
    <2> QED BY <1>2, <2>2, <2>3 DEF Check
  <1>3. CASE EnsureDirectory(r)
    <2>1. GoneIsEmpty'
      BY <1>3, <1>a, <1>b DEF TypeOK, GoneIsEmpty, EnsureDirectory, env
    <2>2. CASE Raise(r)
      BY <1>3, <2>1, <2>2, EarlyRaise DEF EnsureDirectory, env
    <2>3. CASE (Go(r, "mark") \/ Go(r, "version")) /\ UNCHANGED result
      <3>1. pc[r] = "ensure" /\ pc'[r] \in {"mark", "version"}
        BY <1>3, <1>a, <2>3 DEF TypeOK, EnsureDirectory, Go
      <3> QED BY <1>3, <2>1, <2>3, <3>1, EarlyStays DEF EnsureDirectory, env
    <2> QED BY <1>3, <2>2, <2>3 DEF EnsureDirectory
  <1>4. CASE MarkNewDirectory(r)
    <2>1. GoneIsEmpty'
      BY <1>4, <1>a, <1>b DEF TypeOK, GoneIsEmpty, MarkNewDirectory, env
    <2>2. pc[r] = "mark" /\ pc'[r] \in {"mark", "version"}
      BY <1>4, <1>a DEF TypeOK, MarkNewDirectory, Go
    <2> QED BY <1>4, <2>1, <2>2, EarlyStays DEF MarkNewDirectory, env
  <1> QED BY <1>1, <1>2, <1>3, <1>4

\* In the migration only the common config changes, as the plan says.
LEMMA InvMigrate ==
    ASSUME InstallInvariant, NEW r \in Run,
           SetVersion(r) \/ SetExtension(r) \/ UnsetBare(r) \/ Probe(r)
    PROVE  RunInvariant(r)' /\ GoneIsEmpty'
  <1>a. TypeOK /\ GoneIsEmpty /\ RunInvariant(r)
    BY DEF InstallInvariant
  <1>b. UNCHANGED <<conf, dir, exists, location, lock, target, was, plan, undo>>
    BY DEF SetVersion, SetExtension, UnsetBare, Probe, mine, env
  <1>c. GoneIsEmpty'
    BY <1>a, <1>b DEF GoneIsEmpty
  <1>d. Alone(r)' \/ pc'[r] = "idle"
    BY <1>a, <1>b DEF RunInvariant, Alone, SetVersion, SetExtension, UnsetBare, Probe
  <1>e. plan[r] \in Common /\ common \in Common
    BY <1>a DEF TypeOK
  <1>1. CASE SetVersion(r)
    <2>1. pc[r] = "version" /\ pc'[r] = "extension" /\ result'[r] = result[r]
      BY <1>1, <1>a DEF TypeOK, SetVersion, Go
    <2>2. common = plan[r] /\ (~common.extension => \A w \in Worktree : conf[w] = NoConf)
      BY <2>1, <1>a DEF RunInvariant, MigrationRuns
    <2>3. common' = [plan[r] EXCEPT !.version = 1] /\ common'.extension = common.extension
      BY <1>1, <1>e, <2>2 DEF SetVersion, Common
    <2>4. MigrationRuns(r)'
      BY <1>b, <2>1, <2>2, <2>3 DEF MigrationRuns
    <2>5. Undoable(r)' /\ WaysOut(r)'
      BY <1>a, <1>b, <2>1 DEF RunInvariant, Undoable, WaysOut
    <2> QED BY <1>c, <1>d, <2>1, <2>4, <2>5 DEF RunInvariant, Registered
  <1>2. CASE SetExtension(r)
    <2>1. pc[r] = "extension" /\ pc'[r] = "bare" /\ result'[r] = result[r]
      BY <1>2, <1>a DEF TypeOK, SetExtension, Go
    <2>2. common = [plan[r] EXCEPT !.version = 1]
      BY <2>1, <1>a DEF RunInvariant, MigrationRuns
    <2>3. common' = [NoPlan EXCEPT !.bare = plan[r].bare]
      <3>1. (plan[r].extension => TRUE) = TRUE
        OBVIOUS
      <3>2. common' = [common EXCEPT !.extension = TRUE]
        BY <1>2, <3>1 DEF SetExtension
      <3>3. common' = [version |-> common.version, extension |-> TRUE, bare |-> common.bare]
        BY <3>2, <1>e DEF Common
      <3>4. common.version = 1 /\ common.bare = plan[r].bare
        BY <1>e, <2>2 DEF Common
      <3>5. [NoPlan EXCEPT !.bare = plan[r].bare] =
              [version |-> 1, extension |-> TRUE, bare |-> plan[r].bare]
        <4>1. plan[r].bare \in BOOLEAN
          BY <1>e DEF Common
        <4> QED BY <4>1, CommonBare
      <3> QED BY <3>3, <3>4, <3>5
    <2>4. MigrationRuns(r)'
      BY <1>b, <2>1, <2>3 DEF MigrationRuns
    <2>5. Undoable(r)' /\ WaysOut(r)'
      BY <1>a, <1>b, <2>1 DEF RunInvariant, Undoable, WaysOut
    <2> QED BY <1>c, <1>d, <2>1, <2>4, <2>5 DEF RunInvariant, Registered
  <1>3. CASE UnsetBare(r)
    <2>1. CASE Raise(r)
      BY <1>3, <1>b, <1>c, <2>1, EarlyRaise DEF UnsetBare, mine
    <2>2. CASE /\ plan[r].bare => common.bare
               /\ common' = [common EXCEPT !.bare = IF plan[r].bare THEN FALSE ELSE @]
               /\ Go(r, "probe") /\ UNCHANGED result
      <3>1. pc[r] = "bare" /\ pc'[r] = "probe" /\ result'[r] = result[r]
        BY <1>3, <1>a, <2>2 DEF TypeOK, UnsetBare, Go
      <3>2. common = [NoPlan EXCEPT !.bare = plan[r].bare]
        BY <3>1, <1>a DEF RunInvariant, MigrationRuns
      <3>3. common' = NoPlan
        BY <2>2, <1>e, <3>2 DEF Common, NoPlan
      <3>4. MigrationRuns(r)'
        BY <3>1, <3>3 DEF MigrationRuns
      <3>5. Undoable(r)'
        BY <1>a, <1>b, <3>1 DEF RunInvariant, Undoable, Nothing
      <3>6. WaysOut(r)'
        BY <1>a, <3>1 DEF RunInvariant, WaysOut
      <3> QED BY <1>c, <1>d, <3>1, <3>4, <3>5, <3>6 DEF RunInvariant, Registered
    <2> QED BY <1>3, <2>1, <2>2 DEF UnsetBare
  <1>4. CASE Probe(r)
    <2>1. /\ pc[r] = "probe" /\ pc'[r] = "name" /\ result'[r] = result[r]
          /\ common' = common
      BY <1>4, <1>a DEF TypeOK, Probe, Go
    <2>2. driver'[r] \in Forms
      BY <1>4, <1>a DEF TypeOK, Probe
    <2>3. MigrationRuns(r)' /\ Registered(r)'
      BY <1>a, <1>b, <2>1, <2>2 DEF RunInvariant, MigrationRuns, Registered
    <2>4. Undoable(r)'
      BY <1>a, <1>b, <2>1 DEF RunInvariant, Undoable, Own
    <2>5. WaysOut(r)'
      BY <1>a, <2>1 DEF RunInvariant, WaysOut
    <2> QED BY <1>c, <1>d, <2>1, <2>3, <2>4, <2>5 DEF RunInvariant
  <1> QED BY <1>1, <1>2, <1>3, <1>4

\* The takeover writes into the target's configuration and lists in undo what
\* it changes.
LEMMA InvTakeOver ==
    ASSUME InstallInvariant, NEW r \in Run,
           RegisterName(r) \/ RegisterCommand(r) \/ TakeHooksPath(r)
    PROVE  RunInvariant(r)' /\ GoneIsEmpty'
  <1> DEFINE w == target[r]
  <1>a. TypeOK /\ GoneIsEmpty /\ RunInvariant(r)
    BY DEF InstallInvariant
  <1>b. UNCHANGED <<common, dir, shims, exists, location, lock, target, was, plan, driver>>
    BY DEF RegisterName, RegisterCommand, TakeHooksPath, mine, env
  <1>c. /\ w \in exists /\ w \in Worktree /\ conf \in [Worktree -> Conf]
        /\ undo[r] \in Undo /\ undo \in [Run -> Undo]
        /\ conf[w] \in Conf /\ was[r] \in Conf /\ Own(w) \in HooksValue
    BY <1>a, OwnIsPath DEF TypeOK, RunInvariant, Alone, Undo, HooksValue
  <1>d. pc[r] \in LateSteps => common = NoPlan
    BY <1>a DEF RunInvariant, MigrationRuns
  <1> HIDE DEF w
  <1>1. CASE RegisterName(r)
    <2> DEFINE unset == conf[w].name = "none"
    <2>0. /\ pc[r] = "name" /\ pc'[r] = "command" /\ result'[r] = result[r]
          /\ undo' = [undo EXCEPT ![r].name = unset]
      BY <1>1, <1>a DEF TypeOK, RegisterName, Go, w
    <2>1. /\ pc[r] = "name" /\ pc'[r] = "command" /\ result'[r] = result[r]
          /\ undo[r] = Nothing /\ driver[r] \in Forms
          /\ conf[w].hooks = was[r].hooks /\ conf[w].name = was[r].name
          /\ conf[w].command = was[r].command
      BY <2>0, <1>a DEF RunInvariant, Undoable, Registered, Nothing, w
    <2>2. /\ conf'[w].name = "ours" /\ conf'[w].hooks = conf[w].hooks
          /\ conf'[w].command = conf[w].command
          /\ \A u \in Worktree : u # w => conf'[u] = conf[u]
      <3>1. ASSUME NEW v \in Names, conf' = [conf EXCEPT ![w].name = v]
            PROVE  /\ conf'[w].name = v /\ conf'[w].hooks = conf[w].hooks
                   /\ conf'[w].command = conf[w].command
                   /\ \A u \in Worktree : u # w => conf'[u] = conf[u]
        BY <3>1, <1>c, SetName
      <3>2. conf' = [conf EXCEPT ![w].name = "ours"]
        BY <1>1 DEF RegisterName, w
      <3> QED BY <3>1, <3>2 DEF Names
    <2>3. /\ ~undo'[r].hooks /\ ~undo'[r].command
          /\ undo'[r].name <=> was[r].name = "none"
      <3>1. unset \in BOOLEAN /\ (unset <=> was[r].name = "none")
        BY <2>1
      <3> HIDE DEF unset
      <3> QED BY <2>0, <2>1, <1>c, <3>1 DEF Undo, Nothing
    <2>4. GoneIsEmpty'
      BY <1>a, <1>b, <1>c, <2>2 DEF GoneIsEmpty
    <2>5. Alone(r)' /\ MigrationRuns(r)' /\ Registered(r)'
      BY <1>a, <1>b, <1>d, <2>1, <2>2 DEF RunInvariant, Alone, MigrationRuns, Registered, w
    <2>6. Undoable(r)'
      <3>1. was[r].hooks # Custom
        BY <1>a, <2>1 DEF RunInvariant, Undoable
      <3>2. was[r].name = "none" \/ was[r].name = "ours"
        BY <1>c DEF Conf
      <3> QED BY <1>b, <2>1, <2>2, <2>3, <3>1, <3>2 DEF Undoable, w
    <2>7. WaysOut(r)'
      BY <1>a, <2>1 DEF RunInvariant, WaysOut
    <2> QED BY <2>4, <2>5, <2>6, <2>7 DEF RunInvariant
  <1>2. CASE RegisterCommand(r)
    <2>1. CASE Raise(r) /\ UNCHANGED <<conf, undo>>
      <3>1. RunInvariant(r)'
        BY <1>2, <2>1, LateRaise DEF RegisterCommand
      <3> QED BY <1>a, <1>b, <2>1, <3>1 DEF GoneIsEmpty
    <2>2. CASE /\ conf[w].command \in Known \union {"none"}
               /\ conf' = [conf EXCEPT ![w].command = driver[r]]
               /\ undo' = [undo EXCEPT ![r].command = conf[w].command # driver[r]]
               /\ Go(r, "hooksPath") /\ UNCHANGED result
      <3>1. /\ pc[r] = "command" /\ pc'[r] = "hooksPath" /\ result'[r] = result[r]
            /\ undo'[r] = [undo[r] EXCEPT !.command = conf[w].command # driver[r]]
            /\ ~undo[r].hooks /\ ~undo[r].command /\ driver[r] \in Forms
            /\ conf[w].hooks = was[r].hooks /\ conf[w].name = "ours"
            /\ conf[w].command = was[r].command
            /\ was[r].hooks # Custom
            /\ IF undo[r].name THEN was[r].name = "none" ELSE conf[w].name = was[r].name
        BY <1>2, <1>a, <2>2 DEF TypeOK, RegisterCommand, Go, RunInvariant, Undoable, Registered, w
      <3>2. /\ conf'[w].name = conf[w].name /\ conf'[w].hooks = conf[w].hooks
            /\ conf'[w].command = driver[r]
            /\ \A u \in Worktree : u # w => conf'[u] = conf[u]
        <4>1. driver[r] \in Commands
          BY <3>1, Values
        <4> QED BY <2>2, <4>1, <1>c, SetCommand
      <3>3. /\ ~undo'[r].hooks /\ undo'[r].name = undo[r].name
            /\ undo'[r].command <=> was[r].command # driver[r]
        BY <3>1, <1>c DEF Undo
      <3>4. GoneIsEmpty'
        BY <1>a, <1>b, <1>c, <3>2 DEF GoneIsEmpty
      <3>5. Alone(r)' /\ MigrationRuns(r)' /\ Registered(r)'
        BY <1>a, <1>b, <1>d, <3>1, <3>2 DEF RunInvariant, Alone, MigrationRuns, Registered, w
      <3>6. Undoable(r)'
        BY <1>b, <3>1, <3>2, <3>3 DEF Undoable, w
      <3>7. WaysOut(r)'
        BY <1>a, <3>1 DEF RunInvariant, WaysOut
      <3> QED BY <3>4, <3>5, <3>6, <3>7 DEF RunInvariant
    <2> QED BY <1>2, <2>1, <2>2 DEF RegisterCommand, w
  <1>3. CASE TakeHooksPath(r)
    <2>1. /\ pc[r] = "hooksPath" /\ pc'[r] = "effective" /\ result'[r] = result[r]
          /\ undo'[r] = [undo[r] EXCEPT !.hooks = was[r].hooks # Own(w)]
          /\ ~undo[r].hooks /\ driver[r] \in Forms
          /\ conf[w].command = driver[r] /\ conf[w].name = "ours"
          /\ was[r].hooks # Custom
          /\ IF undo[r].command THEN conf[w].command \in Forms ELSE conf[w].command = was[r].command
          /\ IF undo[r].name THEN was[r].name = "none" ELSE conf[w].name = was[r].name
      BY <1>3, <1>a DEF TypeOK, TakeHooksPath, Go, RunInvariant, Undoable, Registered, w
    <2>2. /\ conf'[w].name = conf[w].name /\ conf'[w].hooks = Own(w)
          /\ conf'[w].command = conf[w].command
          /\ \A u \in Worktree : u # w => conf'[u] = conf[u]
      <3>1. conf' = [conf EXCEPT ![w].hooks = Own(w)]
        BY <1>3 DEF TakeHooksPath, w
      <3> QED BY <3>1, <1>c, SetHooks
    <2>3. /\ undo'[r].command = undo[r].command /\ undo'[r].name = undo[r].name
          /\ undo'[r].hooks <=> was[r].hooks # Own(w)
      BY <2>1, <1>c DEF Undo
    <2>4. GoneIsEmpty'
      BY <1>a, <1>b, <1>c, <2>2 DEF GoneIsEmpty
    <2>5. Alone(r)' /\ MigrationRuns(r)' /\ Registered(r)'
      BY <1>a, <1>b, <1>d, <2>1, <2>2 DEF RunInvariant, Alone, MigrationRuns, Registered, Own, w
    <2>6. Undoable(r)'
      BY <1>b, <2>1, <2>2, <2>3 DEF Undoable, Own, w
    <2>7. WaysOut(r)'
      BY <1>a, <2>1 DEF RunInvariant, WaysOut
    <2> QED BY <2>4, <2>5, <2>6, <2>7 DEF RunInvariant
  <1> QED BY <1>1, <1>2, <1>3

LEMMA InvVerify ==
    ASSUME InstallInvariant, NEW r \in Run,
           CheckEffective(r) \/ RunPrek(r) \/ CheckShims(r) \/ UpdateMarker(r) \/ Fails(r)
    PROVE  RunInvariant(r)' /\ GoneIsEmpty'
  <1> DEFINE w == target[r]
  <1>a. TypeOK /\ GoneIsEmpty /\ RunInvariant(r)
    BY DEF InstallInvariant
  <1>b. /\ UNCHANGED <<common, conf, exists, location, lock, target, was, plan, driver, undo>>
        /\ UNCHANGED <<env, mine>>
    BY DEF CheckEffective, RunPrek, CheckShims, UpdateMarker, Fails, mine, env
  <1>c. w \in exists /\ w \in Worktree
    BY <1>a DEF TypeOK, RunInvariant, Alone
  <1>d. GoneIsEmpty'
    BY <1>a, <1>b, <1>c
    DEF TypeOK, GoneIsEmpty, CheckEffective, RunPrek, CheckShims, UpdateMarker, Fails
  <1>e. pc[r] # "idle" /\ pc'[r] # "idle" => Alone(r)'
    BY <1>a, <1>b DEF RunInvariant, Alone
  <1> HIDE DEF w
  \* From one of these steps to the next.
  <1>1. ASSUME pc[r] \in {"effective", "prek", "shims", "remark"},
               pc'[r] \in {"prek", "shims", "remark", "rewrite"}, result'[r] = result[r],
               pc'[r] \in Verified => (PrekToml => shims'[w])
        PROVE  RunInvariant(r)'
    <2>1. MigrationRuns(r)' /\ Registered(r)'
      BY <1>1, <1>a, <1>b DEF RunInvariant, MigrationRuns, Registered, Own, w
    <2>2. Undoable(r)'
      BY <1>1, <1>a, <1>b DEF RunInvariant, Undoable, Own
    <2>3. WaysOut(r)'
      BY <1>1, <1>a DEF RunInvariant, WaysOut
    <2> QED BY <1>1, <1>e, <2>1, <2>2, <2>3 DEF RunInvariant
  <1>2. CASE CheckEffective(r)
    <2>1. CASE Raise(r)
      BY <1>2, <1>b, <1>d, <2>1, LateRaise DEF CheckEffective
    <2>2. CASE Go(r, "prek") /\ UNCHANGED result
      BY <1>2, <1>a, <1>1, <1>d, <2>2 DEF TypeOK, CheckEffective, Go
    <2> QED BY <1>2, <2>1, <2>2 DEF CheckEffective
  <1>3. CASE RunPrek(r)
    BY <1>3, <1>a, <1>1, <1>d DEF TypeOK, RunPrek, Go
  <1>4. CASE CheckShims(r)
    <2>1. CASE Raise(r)
      BY <1>4, <1>b, <1>d, <2>1, LateRaise DEF CheckShims
    <2>2. CASE (PrekToml => shims[w]) /\ Go(r, "remark") /\ UNCHANGED result
      BY <1>4, <1>a, <1>1, <1>d, <2>2 DEF TypeOK, CheckShims, Go, w
    <2> QED BY <1>4, <2>1, <2>2 DEF CheckShims, w
  <1>5. CASE UpdateMarker(r)
    <2>1. CASE pc[r] = "remark" /\ Go(r, "rewrite") /\ UNCHANGED <<shims, result>>
      <3>1. pc'[r] = "rewrite" /\ result'[r] = result[r]
        BY <1>a, <2>1 DEF TypeOK, Go
      <3>2. PrekToml => shims'[w]
        BY <1>a, <2>1 DEF RunInvariant, Registered, w
      <3> QED BY <1>1, <1>d, <2>1, <3>1, <3>2
    <2>2. CASE /\ pc[r] = "rewrite" /\ Go(r, "release")
               /\ dir' = [dir EXCEPT ![w] = Own(w)]
               /\ result' = [result EXCEPT ![r] = "ok"] /\ UNCHANGED shims
      <3>1. pc'[r] = "release" /\ result'[r] = "ok" /\ dir'[w] = Own(w)
        BY <1>a, <1>c, <2>2 DEF TypeOK, Go
      <3>2. /\ common = NoPlan /\ conf[w].name = "ours" /\ conf[w].command = driver[r]
            /\ conf[w].hooks = Own(w) /\ (PrekToml => shims[w])
        BY <1>a, <2>2 DEF RunInvariant, MigrationRuns, Registered, w
      <3>3. conf[w] = [hooks |-> Own(w), name |-> "ours", command |-> driver[r]]
        <4>1. conf[w] \in Conf
          BY <1>a, <1>c DEF TypeOK
        <4> QED BY <3>2, <4>1 DEF Conf
      <3>4. Complete(r)'
        <4>1. common'.extension
          BY <1>b, <3>2 DEF NoPlan
        <4> QED BY <1>b, <2>2, <3>1, <3>2, <3>3, <4>1 DEF Complete, Effective, Own, NoPlan, w
      <3>5. MigrationRuns(r)' /\ Registered(r)' /\ Undoable(r)' /\ WaysOut(r)'
        BY <3>1, <3>4 DEF MigrationRuns, Registered, Undoable, WaysOut
      <3> QED BY <1>d, <1>e, <2>2, <3>1, <3>5 DEF RunInvariant
    <2> QED BY <1>5, <2>1, <2>2 DEF UpdateMarker, w
  <1>6. CASE Fails(r)
    <2>1. Raise(r) /\ pc[r] \in (EarlySteps \ {"check"}) \union LateSteps
      BY <1>6 DEF Fails
    <2>2. CASE pc[r] \in EarlySteps \ {"check"}
      BY <1>b, <1>d, <2>1, <2>2, EarlyRaise
    <2>3. CASE pc[r] \in LateSteps
      BY <1>b, <1>d, <2>1, <2>3, LateRaise
    <2> QED BY <2>1, <2>2, <2>3
  <1> QED BY <1>2, <1>3, <1>4, <1>5, <1>6

\* The rollback restores one value a step; what it could not restore, the
\* result says.
LEMMA InvUndo ==
    ASSUME InstallInvariant, NEW r \in Run,
           UndoHooksPath(r) \/ UndoCommand(r) \/ UndoName(r)
    PROVE  RunInvariant(r)' /\ GoneIsEmpty'
  <1> DEFINE w == target[r]
  <1>a. TypeOK /\ GoneIsEmpty /\ RunInvariant(r)
    BY DEF InstallInvariant
  <1>b. UNCHANGED <<common, dir, exists, location, lock, target, was, plan, undo>>
    BY DEF UndoHooksPath, UndoCommand, UndoName, mine, env
  <1>c. /\ w \in exists /\ w \in Worktree /\ conf \in [Worktree -> Conf]
        /\ conf[w] \in Conf /\ was[r] \in Conf
    BY <1>a DEF TypeOK, RunInvariant, Alone
  <1>d. pc[r] # "idle" /\ pc'[r] # "idle" => Alone(r)'
    BY <1>a, <1>b DEF RunInvariant, Alone
  <1>e. result'[r] = result[r] \/ result'[r] = "rollback failed"
    BY <1>a DEF TypeOK, UndoHooksPath, UndoCommand, UndoName, RollbackFailed
  <1> HIDE DEF w
  <1>1. CASE UndoHooksPath(r)
    <2> DEFINE v == IF undo[r].hooks THEN was[r].hooks ELSE conf[w].hooks
    <2>1. /\ pc[r] = "undoHooks" /\ pc'[r] = "undoCommand"
          /\ result[r] \in {"failed", "rollback failed"}
          /\ undo[r].hooks \/ conf[w].hooks = was[r].hooks
          /\ IF undo[r].command THEN conf[w].command \in Forms ELSE conf[w].command = was[r].command
          /\ IF undo[r].name THEN was[r].name = "none" ELSE conf[w].name = was[r].name
          /\ was[r].hooks # Custom
      BY <1>1, <1>a DEF TypeOK, UndoHooksPath, Go, RunInvariant, Undoable, WaysOut, w
    <2>2. v = was[r].hooks
      BY <2>1
    <2>3. \/ conf' = [conf EXCEPT ![w].hooks = v]
          \/ conf' = conf /\ result'[r] = "rollback failed"
      BY <1>1, <1>a, <1>c DEF TypeOK, UndoHooksPath, RollbackFailed, w
    <2>4. /\ conf'[w].name = conf[w].name /\ conf'[w].command = conf[w].command
          /\ conf'[w].hooks = was[r].hooks \/ result'[r] = "rollback failed"
          /\ \A u \in Worktree : u # w => conf'[u] = conf[u]
      <3>1. v \in HooksValue
        BY <1>c, <2>2 DEF Conf, HooksValue
      <3> HIDE DEF v
      <3>2. CASE conf' = [conf EXCEPT ![w].hooks = v]
        BY <1>c, <2>2, <3>1, <3>2, SetHooks
      <3>3. CASE conf' = conf /\ result'[r] = "rollback failed"
        BY <3>3
      <3> QED BY <2>3, <3>2, <3>3
    <2>5. GoneIsEmpty'
      BY <1>a, <1>b, <1>c, <2>4 DEF GoneIsEmpty
    <2>6. MigrationRuns(r)' /\ Registered(r)'
      BY <2>1 DEF MigrationRuns, Registered
    <2>7. Undoable(r)' /\ WaysOut(r)'
      BY <1>b, <1>e, <2>1, <2>4 DEF Undoable, WaysOut, w
    <2> QED BY <1>d, <2>1, <2>5, <2>6, <2>7 DEF RunInvariant
  <1>2. CASE UndoCommand(r)
    <2> DEFINE v == IF undo[r].command THEN was[r].command ELSE conf[w].command
    <2>1. /\ pc[r] = "undoCommand" /\ pc'[r] = "undoName"
          /\ result[r] \in {"failed", "rollback failed"}
          /\ result[r] = "failed" => conf[w].hooks = was[r].hooks
          /\ undo[r].command \/ conf[w].command = was[r].command
          /\ IF undo[r].name THEN was[r].name = "none" ELSE conf[w].name = was[r].name
          /\ was[r].hooks # Custom
      BY <1>2, <1>a DEF TypeOK, UndoCommand, Go, RunInvariant, Undoable, WaysOut, w
    <2>2. v = was[r].command
      BY <2>1
    <2>3. \/ conf' = [conf EXCEPT ![w].command = v]
          \/ conf' = conf /\ result'[r] = "rollback failed"
      BY <1>2, <1>a, <1>c DEF TypeOK, UndoCommand, RollbackFailed, w
    <2>4. /\ conf'[w].name = conf[w].name /\ conf'[w].hooks = conf[w].hooks
          /\ conf'[w].command = was[r].command \/ result'[r] = "rollback failed"
          /\ \A u \in Worktree : u # w => conf'[u] = conf[u]
      <3>1. v \in Commands
        BY <1>c, <2>2 DEF Conf
      <3> HIDE DEF v
      <3>2. CASE conf' = [conf EXCEPT ![w].command = v]
        BY <1>c, <2>2, <3>1, <3>2, SetCommand
      <3>3. CASE conf' = conf /\ result'[r] = "rollback failed"
        BY <3>3
      <3> QED BY <2>3, <3>2, <3>3
    <2>5. GoneIsEmpty'
      BY <1>a, <1>b, <1>c, <2>4 DEF GoneIsEmpty
    <2>6. MigrationRuns(r)' /\ Registered(r)'
      BY <2>1 DEF MigrationRuns, Registered
    <2>7. Undoable(r)' /\ WaysOut(r)'
      BY <1>b, <1>e, <2>1, <2>4 DEF Undoable, WaysOut, w
    <2> QED BY <1>d, <2>1, <2>5, <2>6, <2>7 DEF RunInvariant
  <1>3. CASE UndoName(r)
    <2> DEFINE v == IF undo[r].name THEN "none" ELSE conf[w].name
    <2>1. /\ pc[r] = "undoName" /\ pc'[r] = "release"
          /\ result[r] \in {"failed", "rollback failed"}
          /\ result[r] = "failed" => conf[w].hooks = was[r].hooks /\ conf[w].command = was[r].command
          /\ IF undo[r].name THEN was[r].name = "none" ELSE conf[w].name = was[r].name
      BY <1>3, <1>a DEF TypeOK, UndoName, Go, RunInvariant, Undoable, WaysOut, w
    <2>2. v = was[r].name
      BY <2>1
    <2>3. \/ conf' = [conf EXCEPT ![w].name = v]
          \/ conf' = conf /\ result'[r] = "rollback failed"
      BY <1>3, <1>a, <1>c DEF TypeOK, UndoName, RollbackFailed, w
    <2>4. /\ conf'[w].hooks = conf[w].hooks /\ conf'[w].command = conf[w].command
          /\ conf'[w].name = was[r].name \/ result'[r] = "rollback failed"
          /\ \A u \in Worktree : u # w => conf'[u] = conf[u]
      <3>1. v \in Names
        BY <1>c, <2>2 DEF Conf, Names
      <3> HIDE DEF v
      <3>2. CASE conf' = [conf EXCEPT ![w].name = v]
        BY <1>c, <2>2, <3>1, <3>2, SetName
      <3>3. CASE conf' = conf /\ result'[r] = "rollback failed"
        BY <3>3
      <3> QED BY <2>3, <3>2, <3>3
    <2>5. GoneIsEmpty'
      BY <1>a, <1>b, <1>c, <2>4 DEF GoneIsEmpty
    <2>6. result'[r] = "failed" => conf'[w] = was[r]
      <3>1. TypeOK'
        BY <1>3, <1>a, TypeUndo
      <3>2. conf'[w] \in Conf
        BY <1>c, <3>1 DEF TypeOK
      <3> QED BY <1>c, <1>e, <2>1, <2>4, <3>2, ConfFields
    <2>7. MigrationRuns(r)' /\ Registered(r)' /\ Undoable(r)'
      BY <2>1 DEF MigrationRuns, Registered, Undoable
    <2>8. WaysOut(r)'
      BY <1>b, <1>e, <2>1, <2>6 DEF WaysOut, w
    <2> QED BY <1>d, <2>1, <2>5, <2>7, <2>8 DEF RunInvariant
  <1> QED BY <1>1, <1>2, <1>3

LEMMA InvEnd ==
    ASSUME InstallInvariant, NEW r \in Run, Release(r) \/ Interrupt(r) \/ Crash(r)
    PROVE  RunInvariant(r)' /\ GoneIsEmpty'
  <1>a. TypeOK /\ GoneIsEmpty /\ RunInvariant(r)
    BY DEF InstallInvariant
  <1>b. UNCHANGED <<conf, dir, exists>>
    BY DEF Release, Interrupt, Crash, env
  <1>1. GoneIsEmpty'
    BY <1>a, <1>b DEF GoneIsEmpty
  <1>2. CASE Release(r) \/ Crash(r)
    <2>1. /\ pc'[r] = "idle" /\ target'[r] = Main /\ was'[r] = NoConf
          /\ undo'[r] = Nothing /\ result'[r] = "none"
      BY <1>2, <1>a DEF TypeOK, Release, Crash, Forget, Go
    <2>2. Main \in exists'
      BY <1>a, <1>b DEF TypeOK
    <2> QED
      BY <1>1, <2>1, <2>2 DEF RunInvariant, Alone, MigrationRuns, Registered, Undoable, WaysOut
  <1>3. CASE Interrupt(r)
    <2>1. /\ pc[r] # "idle" /\ pc'[r] = "release" /\ result'[r] = "interrupted"
          /\ lock' = lock /\ target' = target
      BY <1>3, <1>a DEF TypeOK, Interrupt, Go, mine
    <2>2. Alone(r)'
      BY <1>a, <1>b, <2>1 DEF RunInvariant, Alone
    <2> QED
      BY <1>1, <2>1, <2>2 DEF RunInvariant, MigrationRuns, Registered, Undoable, WaysOut
  <1> QED BY <1>2, <1>3

\* `git worktree add` may run beside an installer: the new worktree is none a
\* run works on, and while the extension is off it inherits nothing.
LEMMA InvAdd ==
    ASSUME InstallInvariant, NEW w \in Worktree, AddWorktree(w)
    PROVE  GoneIsEmpty' /\ \A r \in Run : RunInvariant(r)'
  <1>a. TypeOK /\ GoneIsEmpty
    BY DEF InstallInvariant
  <1>b. PICK v \in exists : conf' = [conf EXCEPT ![w] = Effective(v)]
    BY DEF AddWorktree
  <1>c. \A u \in Worktree : u # w => conf'[u] = conf[u]
    BY <1>a, <1>b DEF TypeOK
  <1>d. /\ UNCHANGED <<common, location, dir, shims, lock, pc, mine, undo, result>>
        /\ UNCHANGED <<target, was, plan, driver>>
        /\ exists' = exists \union {w} /\ w \notin exists
    BY DEF AddWorktree, mine
  <1>1. GoneIsEmpty'
    BY <1>a, <1>c, <1>d DEF GoneIsEmpty
  <1>2. ASSUME NEW r \in Run PROVE RunInvariant(r)'
    <2>a. RunInvariant(r) /\ target[r] \in Worktree /\ target[r] # w
      BY <1>a, <1>d DEF InstallInvariant, RunInvariant, Alone, TypeOK
    <2>b. conf'[target[r]] = conf[target[r]]
      BY <1>c, <2>a
    <2>1. Alone(r)'
      BY <1>d, <2>a DEF RunInvariant, Alone
    <2>2. MigrationRuns(r)'
      <3>1. ~common.extension /\ (\A u \in Worktree : conf[u] = NoConf) =>
               \A u \in Worktree : conf'[u] = NoConf
        BY <1>a, <1>b, <1>c DEF TypeOK, Effective
      <3> QED BY <1>d, <2>a, <3>1 DEF RunInvariant, MigrationRuns
    <2>3. Registered(r)'
      BY <1>d, <2>a, <2>b DEF RunInvariant, Registered, Own
    <2>4. Undoable(r)'
      BY <1>d, <2>a, <2>b DEF RunInvariant, Undoable, Own
    <2>5. WaysOut(r)'
      BY <1>d, <2>a, <2>b DEF RunInvariant, WaysOut, Complete, Effective, Own
    <2> QED BY <2>1, <2>2, <2>3, <2>4, <2>5 DEF RunInvariant
  <1> QED BY <1>1, <1>2

\* Everything else the user does happens while no run is active.
LEMMA InvQuiet ==
    ASSUME InstallInvariant, Quiet, UNCHANGED <<pc, mine, undo, result>>, Main \in exists'
    PROVE  \A r \in Run : RunInvariant(r)'
  <1> SUFFICES ASSUME NEW r \in Run PROVE RunInvariant(r)'
    OBVIOUS
  <1>1. /\ pc'[r] = "idle" /\ target'[r] = Main /\ was'[r] = NoConf
        /\ undo'[r] = Nothing /\ result'[r] = "none"
    BY DEF InstallInvariant, RunInvariant, Alone, Quiet, mine
  <1> QED
    BY <1>1 DEF RunInvariant, Alone, MigrationRuns, Registered, Undoable, WaysOut

LEMMA InvUser ==
    ASSUME InstallInvariant, User
    PROVE  GoneIsEmpty' /\ \A r \in Run : RunInvariant(r)'
  <1>a. TypeOK /\ GoneIsEmpty
    BY DEF InstallInvariant
  <1>1. ASSUME NEW w \in Worktree, AddWorktree(w)
        PROVE  GoneIsEmpty' /\ \A r \in Run : RunInvariant(r)'
    BY <1>1, InvAdd
  <1>2. ASSUME NEW w \in Worktree, RemoveWorktree(w) \/ SetOwnValue(w)
        PROVE  GoneIsEmpty' /\ \A r \in Run : RunInvariant(r)'
    <2>1. Main \in exists' /\ Quiet /\ UNCHANGED <<pc, mine, undo, result>>
      BY <1>2, <1>a DEF TypeOK, RemoveWorktree, SetOwnValue, env
    <2>2. GoneIsEmpty'
      <3>1. CASE RemoveWorktree(w)
        BY <1>a, <3>1 DEF TypeOK, GoneIsEmpty, RemoveWorktree
      <3>2. CASE SetOwnValue(w)
        <4>1. \A u \in Worktree \ exists : conf'[u] = conf[u]
          BY <1>a, <3>2 DEF TypeOK, SetOwnValue
        <4> QED BY <1>a, <3>2, <4>1 DEF GoneIsEmpty, SetOwnValue, env
      <3> QED BY <1>2, <3>1, <3>2
    <2> QED BY <2>1, <2>2, InvQuiet
  <1>3. CASE MoveRepository \/ DisableExtension
    <2>1. Main \in exists' /\ UNCHANGED <<pc, mine, undo, result>> /\ Quiet
      BY <1>3, <1>a DEF TypeOK, MoveRepository, DisableExtension, env
    <2>2. GoneIsEmpty'
      BY <1>3, <1>a DEF GoneIsEmpty, MoveRepository, DisableExtension, env
    <2> QED BY <2>1, <2>2, InvQuiet
  <1> QED BY <1>1, <1>2, <1>3 DEF User

LEMMA InvStep == InstallInvariant /\ [Next]_vars => InstallInvariant'
  <1> SUFFICES ASSUME InstallInvariant, [Next]_vars PROVE InstallInvariant'
    OBVIOUS
  <1>a. TypeOK /\ TypeOK' /\ GoneIsEmpty /\ Main \in exists'
    BY TypeStep DEF InstallInvariant, TypeOK
  <1>1. CASE UNCHANGED vars
    <2>1. GoneIsEmpty'
      BY <1>1, <1>a DEF GoneIsEmpty, vars, env
    <2>2. ASSUME NEW r \in Run PROVE RunInvariant(r)'
      <3>a. RunInvariant(r)
        BY DEF InstallInvariant
      <3>1. Alone(r)' /\ MigrationRuns(r)'
        BY <1>1, <3>a DEF RunInvariant, Alone, MigrationRuns, vars, env, mine
      <3>2. Registered(r)' /\ Undoable(r)'
        BY <1>1, <3>a DEF RunInvariant, Registered, Undoable, Own, vars, env, mine
      <3>3. WaysOut(r)'
        BY <1>1, <3>a DEF RunInvariant, WaysOut, Complete, Effective, Own, vars, env, mine
      <3> QED BY <3>1, <3>2, <3>3 DEF RunInvariant
    <2> QED BY <1>a, <2>1, <2>2 DEF InstallInvariant
  <1>2. ASSUME NEW r \in Run, Install(r) \/ Fails(r) \/ Interrupt(r) \/ Crash(r)
        PROVE  InstallInvariant'
    <2>1. RunInvariant(r)' /\ GoneIsEmpty'
      BY <1>2, InvCheck, InvMigrate, InvTakeOver, InvVerify, InvUndo, InvEnd DEF Install
    <2>2. \A s \in Run \ {r} : RunInvariant(s)'
      BY <1>2, <1>a, StepsAreOwn, OthersStay
    <2> QED BY <1>a, <2>1, <2>2 DEF InstallInvariant
  <1>3. CASE ClearLock
    <2>1. Quiet
      BY <1>3, MarksAssumption DEF InstallInvariant, RunInvariant, Alone, ClearLock, Quiet
    <2>2. GoneIsEmpty' /\ \A r \in Run : RunInvariant(r)'
      BY <1>3, <1>a, <2>1, InvQuiet DEF GoneIsEmpty, ClearLock, env
    <2> QED BY <1>a, <2>2 DEF InstallInvariant
  <1>4. CASE User
    BY <1>4, <1>a, InvUser DEF InstallInvariant
  <1> QED BY <1>1, <1>2, <1>3, <1>4 DEF Next

\* What every reachable state satisfies: the lock, the migration, the registered
\* values and the list of undos agree with the step every run has reached.
THEOREM InstallInvariantHolds == Spec => []InstallInvariant
  BY InvInit, InvStep, PTL DEF Spec

--------------------------------------------------------------------------------
(* What follows from it *)

\* install() leaves a complete installation whenever it succeeds, whatever other
\* runs, crashes and worktree commands come between.
THEOREM SuccessIsCompleteHolds == Spec => []SuccessIsComplete
  <1>1. InstallInvariant => SuccessIsComplete
    BY DEF InstallInvariant, RunInvariant, WaysOut, SuccessIsComplete
  <1> QED BY <1>1, InstallInvariantHolds, PTL

\* A failed install() whose rollback git accepts leaves config.worktree of its
\* target as it found it.
THEOREM RollbackRestoresHolds == Spec => []RollbackRestores
  <1>1. InstallInvariant => RollbackRestores
    BY DEF InstallInvariant, RunInvariant, WaysOut, RollbackRestores
  <1> QED BY <1>1, InstallInvariantHolds, PTL

\* What a step of a run may do to the configuration: to no worktree but the
\* target, and there to no driver command the user chose.
LEMMA ConfStep ==
    ASSUME InstallInvariant, NEW r \in Run, Install(r) \/ Fails(r) \/ Interrupt(r) \/ Crash(r)
    PROVE  /\ \A u \in Worktree : u # target[r] => conf'[u] = conf[u]
           /\ \A u \in Worktree : conf[u].command = "custom" => conf'[u].command = "custom"
  <1> DEFINE w == target[r]
             Step == /\ \A u \in Worktree : u # w => conf'[u] = conf[u]
                     /\ conf[w].command = "custom" => conf'[w].command = "custom"
  <1>a. TypeOK /\ RunInvariant(r)
    BY DEF InstallInvariant
  <1>b. /\ w \in Worktree /\ conf \in [Worktree -> Conf] /\ conf[w] \in Conf /\ was[r] \in Conf
        /\ Own(w) \in Paths /\ Custom \notin Paths
    BY <1>a, OwnIsPath, MarksAssumption DEF TypeOK
  <1> SUFFICES Step
    BY <1>b
  <1> HIDE DEF w
  <1>1. CASE UNCHANGED conf
    BY <1>1
  <1>2. CASE RegisterName(r) \/ UndoName(r)
    <2>1. ASSUME NEW v \in Names, conf' = [conf EXCEPT ![w].name = v] PROVE Step
      BY <1>b, <2>1, SetName
    <2>2. CASE RegisterName(r)
      <3>1. conf' = [conf EXCEPT ![w].name = "ours"] /\ "ours" \in Names
        BY <2>2 DEF RegisterName, Names, w
      <3> HIDE DEF Step
      <3> QED BY <2>1, <3>1
    <2>3. CASE UndoName(r)
      <3> DEFINE v == IF undo[r].name THEN "none" ELSE conf[w].name
      <3>1. v \in Names
        BY <1>b DEF Conf, Names
      <3>2. conf' = conf \/ conf' = [conf EXCEPT ![w].name = v]
        BY <1>b, <2>3 DEF UndoName, w
      <3> HIDE DEF Step, v
      <3> QED BY <1>1, <2>1, <3>1, <3>2
    <2> QED BY <1>2, <2>2, <2>3
  <1>3. CASE RegisterCommand(r) \/ UndoCommand(r)
    <2>1. ASSUME NEW v \in Commands, conf' = [conf EXCEPT ![w].command = v],
                 v = conf[w].command \/ conf[w].command # "custom"
          PROVE  Step
      BY <1>b, <2>1, SetCommand
    <2>2. CASE RegisterCommand(r)
      <3>1. driver[r] \in Commands
        BY <1>a, Values DEF TypeOK, Commands
      <3>2. \/ conf' = conf
            \/ /\ conf' = [conf EXCEPT ![w].command = driver[r]]
               /\ conf[w].command \in Known \union {"none"}
        BY <2>2 DEF RegisterCommand, w
      <3>3. "custom" \notin Known \union {"none"}
        BY DEF Known, Forms
      <3> HIDE DEF Step
      <3> QED BY <1>1, <2>1, <3>1, <3>2, <3>3
    <2>3. CASE UndoCommand(r)
      <3> DEFINE v == IF undo[r].command THEN was[r].command ELSE conf[w].command
      <3>1. v \in Commands
        BY <1>b DEF Conf
      <3>2. conf' = conf \/ conf' = [conf EXCEPT ![w].command = v]
        BY <1>b, <2>3 DEF UndoCommand, w
      <3>3. undo[r].command => conf[w].command \in Forms
        BY <1>a, <2>3 DEF RunInvariant, Undoable, UndoCommand, w
      <3>4. v = conf[w].command \/ conf[w].command # "custom"
        BY <3>3 DEF Forms
      <3> HIDE DEF Step, v
      <3> QED BY <1>1, <2>1, <3>1, <3>2, <3>4
    <2> QED BY <1>3, <2>2, <2>3
  <1>4. CASE TakeHooksPath(r) \/ UndoHooksPath(r)
    <2>1. ASSUME NEW v \in HooksValue, conf' = [conf EXCEPT ![w].hooks = v] PROVE Step
      BY <1>b, <2>1, SetHooks
    <2>2. CASE TakeHooksPath(r)
      <3>1. conf' = [conf EXCEPT ![w].hooks = Own(w)] /\ Own(w) \in HooksValue
        BY <1>b, <2>2 DEF TakeHooksPath, HooksValue, w
      <3> HIDE DEF Step
      <3> QED BY <2>1, <3>1
    <2>3. CASE UndoHooksPath(r)
      <3> DEFINE v == IF undo[r].hooks THEN was[r].hooks ELSE conf[w].hooks
      <3>1. v \in HooksValue
        BY <1>b DEF Conf, HooksValue
      <3>2. conf' = conf \/ conf' = [conf EXCEPT ![w].hooks = v]
        BY <1>b, <2>3 DEF UndoHooksPath, w
      <3> HIDE DEF Step, v
      <3> QED BY <1>1, <2>1, <3>1, <3>2
    <2> QED BY <1>4, <2>2, <2>3
  <1>5. \/ UNCHANGED conf
        \/ RegisterName(r) \/ UndoName(r) \/ RegisterCommand(r) \/ UndoCommand(r)
        \/ TakeHooksPath(r) \/ UndoHooksPath(r)
    BY DEF Install, Claim, Check, EnsureDirectory, MarkNewDirectory, SetVersion, SetExtension,
           UnsetBare, Probe, CheckEffective, RunPrek, CheckShims, UpdateMarker, Release, Fails,
           Interrupt, Crash
  <1> HIDE DEF Step
  <1> QED BY <1>1, <1>2, <1>3, <1>4, <1>5

\* Only two steps of a run change a hooks path.
LEMMA HooksStep ==
    ASSUME InstallInvariant, NEW r \in Run,
           Install(r) \/ Fails(r) \/ Interrupt(r) \/ Crash(r)
    PROVE  \/ \A w \in Worktree : conf'[w].hooks = conf[w].hooks
           \/ /\ TakeHooksPath(r) /\ conf'[target[r]].hooks = Own(target[r])
              /\ \A w \in Worktree : w # target[r] => conf'[w].hooks = conf[w].hooks
           \/ /\ UndoHooksPath(r) /\ conf'[target[r]].hooks = was[r].hooks
              /\ \A w \in Worktree : w # target[r] => conf'[w].hooks = conf[w].hooks
  <1> DEFINE w == target[r]
             Same == \A u \in Worktree : conf'[u].hooks = conf[u].hooks
  <1>a. TypeOK /\ RunInvariant(r)
    BY DEF InstallInvariant
  <1>b. /\ w \in Worktree /\ conf \in [Worktree -> Conf] /\ conf[w] \in Conf /\ was[r] \in Conf
        /\ Own(w) \in HooksValue
    BY <1>a, OwnIsPath DEF TypeOK, HooksValue
  <1> HIDE DEF w
  <1>1. CASE UNCHANGED conf
    BY <1>1
  <1>2. ASSUME NEW v \in Names, conf' = [conf EXCEPT ![w].name = v] PROVE Same
    BY <1>b, <1>2, SetName
  <1>3. ASSUME NEW v \in Commands, conf' = [conf EXCEPT ![w].command = v] PROVE Same
    BY <1>b, <1>3, SetCommand
  <1>4. ASSUME NEW v \in HooksValue, conf' = [conf EXCEPT ![w].hooks = v]
        PROVE  conf'[w].hooks = v /\ \A u \in Worktree : u # w => conf'[u].hooks = conf[u].hooks
    BY <1>b, <1>4, SetHooks
  <1>5. CASE RegisterName(r)
    <2>1. conf' = [conf EXCEPT ![w].name = "ours"] /\ "ours" \in Names
      BY <1>5 DEF RegisterName, Names, w
    <2>2. Same
      <3> HIDE DEF Same
      <3> QED BY <1>2, <2>1
    <2> QED BY <2>2
  <1>6. CASE UndoName(r)
    <2> DEFINE v == IF undo[r].name THEN "none" ELSE conf[w].name
    <2>1. v \in Names
      BY <1>b DEF Conf, Names
    <2>2. conf' = conf \/ conf' = [conf EXCEPT ![w].name = v]
      BY <1>b, <1>6 DEF UndoName, w
    <2>3. conf' = conf \/ Same
      <3> HIDE DEF Same, v
      <3> QED BY <1>2, <2>1, <2>2
    <2> QED BY <1>1, <2>3
  <1>7. CASE RegisterCommand(r)
    <2>1. driver[r] \in Commands
      BY <1>a, Values DEF TypeOK, Commands
    <2>2. conf' = conf \/ conf' = [conf EXCEPT ![w].command = driver[r]]
      BY <1>7 DEF RegisterCommand, w
    <2>3. conf' = conf \/ Same
      <3> HIDE DEF Same
      <3> QED BY <1>3, <2>1, <2>2
    <2> QED BY <1>1, <2>3
  <1>8. CASE UndoCommand(r)
    <2> DEFINE v == IF undo[r].command THEN was[r].command ELSE conf[w].command
    <2>1. v \in Commands
      BY <1>b DEF Conf
    <2>2. conf' = conf \/ conf' = [conf EXCEPT ![w].command = v]
      BY <1>b, <1>8 DEF UndoCommand, w
    <2>3. conf' = conf \/ Same
      <3> HIDE DEF Same, v
      <3> QED BY <1>3, <2>1, <2>2
    <2> QED BY <1>1, <2>3
  <1>9. CASE TakeHooksPath(r)
    <2>1. conf' = [conf EXCEPT ![w].hooks = Own(w)]
      BY <1>9 DEF TakeHooksPath, w
    <2> QED BY <1>b, <1>4, <1>9, <2>1 DEF w
  <1>10. CASE UndoHooksPath(r)
    <2> DEFINE v == IF undo[r].hooks THEN was[r].hooks ELSE conf[w].hooks
    <2>1. v \in HooksValue /\ v = was[r].hooks
      <3>1. undo[r].hooks \/ conf[w].hooks = was[r].hooks
        BY <1>a, <1>10 DEF RunInvariant, Undoable, UndoHooksPath, w
      <3> QED BY <1>b, <3>1 DEF Conf, HooksValue
    <2>2. conf' = conf \/ conf' = [conf EXCEPT ![w].hooks = v]
      BY <1>b, <1>10 DEF UndoHooksPath, w
    <2>3. \/ conf' = conf
          \/ /\ conf'[w].hooks = was[r].hooks
             /\ \A u \in Worktree : u # w => conf'[u].hooks = conf[u].hooks
      <3> HIDE DEF v
      <3> QED BY <1>4, <2>1, <2>2
    <2> QED BY <1>1, <1>10, <2>3 DEF w
  <1>11. \/ UNCHANGED conf
         \/ RegisterName(r) \/ UndoName(r) \/ RegisterCommand(r) \/ UndoCommand(r)
         \/ TakeHooksPath(r) \/ UndoHooksPath(r)
    BY DEF Install, Claim, Check, EnsureDirectory, MarkNewDirectory, SetVersion, SetExtension,
           UnsetBare, Probe, CheckEffective, RunPrek, CheckShims, UpdateMarker, Release, Fails,
           Interrupt, Crash
  <1> QED BY <1>1, <1>5, <1>6, <1>7, <1>8, <1>9, <1>10, <1>11

\* A recognised hooks path stays one while the markers that are there stay.
LEMMA RecognisedFrame ==
    ASSUME NEW w \in Worktree, Recognised(w), location' = location, exists \subseteq exists',
           exists \subseteq Worktree, conf'[w].hooks = conf[w].hooks,
           TypeOK, \A v \in Worktree : dir[v] \in Paths => dir'[v] = dir[v]
    PROVE  Recognised(w)'
  <1>0. \A v \in Worktree : Own(v)' = Own(v) /\ Own(v) \in Paths
    BY OwnIsPath DEF Own, HooksPath
  <1>1. CASE conf[w].hooks \in {NoValue, Own(w)}
    BY <1>0, <1>1 DEF Recognised
  <1>2. CASE conf[w].hooks \in Paths /\ Relocated(w)
    BY <1>2 DEF Recognised, Relocated
  <1>3. ASSUME conf[w].hooks \in Paths, NEW v \in exists, conf[w].hooks = Own(v), dir[v] = Own(v)
        PROVE  Recognised(w)'
    BY <1>0, <1>3 DEF Recognised
  <1> QED BY <1>1, <1>2, <1>3 DEF Recognised

\* A marker that can be read is rewritten only at the end of an installation.
LEMMA PathsStay ==
    ASSUME TypeOK, NEW r \in Run, Install(r) \/ Fails(r) \/ Interrupt(r) \/ Crash(r),
           ~UpdateMarker(r)
    PROVE  \A v \in Worktree : dir[v] \in Paths => dir'[v] = dir[v]
  <1>1. CASE UNCHANGED dir
    BY <1>1
  <1>2. CASE EnsureDirectory(r) \/ MarkNewDirectory(r)
    BY <1>2, MarksAssumption DEF TypeOK, EnsureDirectory, MarkNewDirectory
  <1> QED
    BY <1>1, <1>2 DEF Install, Claim, Check, SetVersion, SetExtension, UnsetBare, Probe,
       RegisterName, RegisterCommand, TakeHooksPath, CheckEffective, RunPrek, CheckShims,
       UndoHooksPath, UndoCommand, UndoName, Release, Fails, Interrupt, Crash

\* A run that is still to take over the hooks path has just checked it, or was
\* so before; one that has passed the marker has read or written it.
LEMMA UntakenStep ==
    ASSUME TypeOK, NEW r \in Run, Install(r) \/ Fails(r) \/ Interrupt(r) \/ Crash(r),
           pc'[r] \in Untaken
    PROVE  \/ Check(r) /\ OwnsHooksPath(target[r]) /\ pc'[r] = "ensure"
           \/ /\ pc[r] \in Untaken /\ target' = target
              /\ ~UpdateMarker(r) /\ ~TakeHooksPath(r) /\ ~UndoHooksPath(r)
              /\ \/ pc'[r] \in {"ensure", "mark"}
                 \/ pc[r] \notin {"ensure", "mark"}
                 \/ dir'[target[r]] \in Paths
  <1> USE DEF TypeOK, Go, Untaken
  <1>1. CASE Claim(r) \/ Release(r) \/ Crash(r) \/ Interrupt(r)
    BY <1>1 DEF Claim, Release, Crash, Interrupt, Forget
  <1>2. CASE Check(r)
    BY <1>2 DEF Check, Raise, LateSteps
  <1>3. CASE EnsureDirectory(r)
    BY <1>3 DEF EnsureDirectory, Raise, LateSteps, UpdateMarker, TakeHooksPath, UndoHooksPath, mine
  <1>4. CASE MarkNewDirectory(r)
    <2>1. Own(target[r]) \in Paths
      BY OwnIsPath
    <2> QED BY <1>4, <2>1 DEF MarkNewDirectory, UpdateMarker, TakeHooksPath, UndoHooksPath, mine
  <1>5. CASE SetVersion(r) \/ SetExtension(r) \/ UnsetBare(r) \/ Probe(r)
    BY <1>5 DEF SetVersion, SetExtension, UnsetBare, Probe, Raise, LateSteps, UpdateMarker,
                TakeHooksPath, UndoHooksPath, mine
  <1>6. CASE RegisterName(r) \/ RegisterCommand(r)
    BY <1>6 DEF RegisterName, RegisterCommand, Raise, LateSteps, UpdateMarker, TakeHooksPath,
                UndoHooksPath, mine
  <1>7. CASE TakeHooksPath(r) \/ CheckEffective(r) \/ RunPrek(r) \/ CheckShims(r) \/ UpdateMarker(r)
    BY <1>7 DEF TakeHooksPath, CheckEffective, RunPrek, CheckShims, UpdateMarker, Raise, LateSteps
  <1>8. CASE UndoHooksPath(r) \/ UndoCommand(r) \/ UndoName(r) \/ Fails(r)
    BY <1>8 DEF UndoHooksPath, UndoCommand, UndoName, Fails, Raise
  <1> QED BY <1>1, <1>2, <1>3, <1>4, <1>5, <1>6, <1>7, <1>8 DEF Install

LEMMA RecognisingStep == InstallInvariant /\ Recognising /\ [Next]_vars => Recognising'
  <1> SUFFICES ASSUME InstallInvariant, Recognising, [Next]_vars PROVE Recognising'
    OBVIOUS
  <1>a. TypeOK /\ exists \subseteq Worktree /\ \A r \in Run : target[r] \in Worktree
    BY DEF InstallInvariant, TypeOK
  <1>1. ASSUME UNCHANGED <<location, dir, pc, target>>, exists \subseteq exists',
               \A r \in Run : conf'[target[r]].hooks = conf[target[r]].hooks
        PROVE  Recognising'
    BY <1>1, <1>a, RecognisedFrame DEF Recognising
  <1>2. ASSUME NEW r \in Run, Install(r) \/ Fails(r) \/ Interrupt(r) \/ Crash(r)
        PROVE  Recognising'
    <2>1. Untouched(r) /\ UNCHANGED <<exists, location>> /\ (pc[r] # "idle" \/ lock = Free)
      BY <1>2, <1>a, StepsAreOwn
    <2>2. \A s \in Run \ {r} : pc'[s] = "idle"
      BY <2>1, MarksAssumption DEF InstallInvariant, RunInvariant, Alone, Untouched
    <2>3. ASSUME pc'[r] \in Untaken
          PROVE  /\ Recognised(target[r])'
                 /\ pc'[r] \notin {"ensure", "mark"} => dir'[target'[r]] \in Paths
      <3>1. CASE Check(r) /\ OwnsHooksPath(target[r]) /\ pc'[r] = "ensure"
        <4>1. target' = target /\ UNCHANGED <<conf, dir>>
          BY <3>1 DEF Check
        <4>2. Recognised(target[r])
          BY <3>1 DEF OwnsHooksPath, Recognised, CopiedFromSibling
        <4> QED BY <1>a, <2>1, <3>1, <4>1, <4>2, RecognisedFrame
      <3>2. CASE /\ pc[r] \in Untaken /\ target' = target
                 /\ ~UpdateMarker(r) /\ ~TakeHooksPath(r) /\ ~UndoHooksPath(r)
                 /\ \/ pc'[r] \in {"ensure", "mark"}
                    \/ pc[r] \notin {"ensure", "mark"}
                    \/ dir'[target[r]] \in Paths
        <4>1. \A v \in Worktree : dir[v] \in Paths => dir'[v] = dir[v]
          BY <1>2, <1>a, <3>2, PathsStay
        <4>2. conf'[target[r]].hooks = conf[target[r]].hooks
          BY <1>2, <1>a, <3>2, HooksStep
        <4>3. Recognised(target[r]) /\ (pc[r] \notin {"ensure", "mark"} => dir[target[r]] \in Paths)
          BY <3>2 DEF Recognising
        <4>4. PICK w \in Worktree : w = target[r]
          BY <1>a
        <4>5. Recognised(w)'
          BY <1>a, <2>1, <4>1, <4>2, <4>3, <4>4, RecognisedFrame
        <4> QED BY <1>a, <3>2, <4>1, <4>3, <4>4, <4>5
      <3> QED BY <1>2, <1>a, <2>3, <3>1, <3>2, UntakenStep
    <2> QED BY <2>2, <2>3 DEF Recognising, Untaken
  <1>3. ASSUME NEW w \in Worktree, AddWorktree(w) PROVE Recognising'
    <2>1. \A r \in Run : target[r] # w
      BY <1>3 DEF InstallInvariant, RunInvariant, Alone, AddWorktree
    <2>2. \A u \in Worktree : u # w => conf'[u] = conf[u]
      BY <1>3, <1>a DEF TypeOK, AddWorktree
    <2> QED BY <1>1, <1>3, <1>a, <2>1, <2>2 DEF AddWorktree, mine
  <1>4. CASE \/ \E w \in Worktree : RemoveWorktree(w) \/ SetOwnValue(w)
             \/ MoveRepository \/ DisableExtension
    <2>1. \A r \in Run : pc'[r] = "idle"
      BY <1>4 DEF RemoveWorktree, SetOwnValue, MoveRepository, DisableExtension, Quiet
    <2> QED BY <2>1 DEF Recognising, Untaken
  <1>5. CASE UNCHANGED vars \/ ClearLock
    BY <1>1, <1>5 DEF vars, ClearLock, env, mine
  <1> QED BY <1>2, <1>3, <1>4, <1>5 DEF Next, User

\* The hooks path a run has checked stays recognisable until the run takes it
\* over, whatever other runs, crashes and worktree commands come between.
THEOREM RecognisingHolds == Spec => []Recognising
  <1>1. Init => Recognising
    BY DEF Init, Recognising, Untaken
  <1> QED BY <1>1, RecognisingStep, InstallInvariantHolds, PTL DEF Spec

\* No step of an installer replaces or removes a driver command the user chose
\* or a hooks path that is not recognisable as the installer's when it happens,
\* neither forward nor in the rollback.
THEOREM UserValuesSurviveHolds == Spec => UserValuesSurvive
  <1> DEFINE Survive ==
        pc' # pc =>
          \A w \in Worktree :
              /\ OwnsHooksPath(w) \/ conf'[w].hooks = conf[w].hooks
              /\ conf[w].command = "custom" => conf'[w].command = "custom"
  <1>1. InstallInvariant /\ Recognising /\ [Next]_vars => [Survive]_vars
    <2> SUFFICES ASSUME InstallInvariant, Recognising, Next, pc' # pc PROVE Survive
      BY DEF vars
    <2>1. PICK r \in Run : Install(r) \/ Fails(r) \/ Interrupt(r) \/ Crash(r)
      BY DEF Next, User, ClearLock, AddWorktree, RemoveWorktree, SetOwnValue, MoveRepository,
             DisableExtension
    <2>a. TypeOK /\ target[r] \in Worktree
      BY DEF InstallInvariant, TypeOK
    <2>2. ASSUME NEW w \in Worktree, conf'[w].hooks # conf[w].hooks PROVE OwnsHooksPath(w)
      <3>1. CASE TakeHooksPath(r) /\ w = target[r]
        <4>1. Recognised(w) /\ dir[w] \in Paths
          BY <3>1 DEF Recognising, Untaken, TakeHooksPath
        <4>2. Inspectable(w)
          BY <4>1, MarksAssumption DEF Inspectable
        <4> QED BY <4>1, <4>2 DEF Recognised, OwnsHooksPath, CopiedFromSibling
      <3>2. CASE UndoHooksPath(r) /\ w = target[r]
        <4>1. conf[w].hooks \in {Own(w), was[r].hooks}
          BY <3>2 DEF InstallInvariant, RunInvariant, Undoable, UndoHooksPath
        <4>2. conf'[w].hooks \in {conf[w].hooks, was[r].hooks}
          BY <2>1, <2>2, <3>2, HooksStep DEF TakeHooksPath, UndoHooksPath
        <4> QED BY <2>2, <4>1, <4>2 DEF OwnsHooksPath
      <3> QED BY <2>1, <2>2, <3>1, <3>2, HooksStep
    <2> QED BY <2>1, <2>2, ConfStep
  <1> QED BY <1>1, RecognisingHolds, InstallInvariantHolds, PTL DEF Spec, UserValuesSurvive

\* The format is upgraded before the extension is enabled, so at whatever step
\* the migration stops, the common config is one the next run's plan accepts.
THEOREM MigrationInOrder == Spec => []~DormantExtension
  <1>1. Init => ~DormantExtension
    BY DEF Init, DormantExtension
  <1>2. InstallInvariant /\ ~DormantExtension /\ [Next]_vars => ~DormantExtension'
    <2> SUFFICES ASSUME InstallInvariant, ~DormantExtension, [Next]_vars PROVE ~DormantExtension'
      OBVIOUS
    <2>a. common \in Common
      BY DEF InstallInvariant, TypeOK
    <2>1. CASE UNCHANGED common
      BY <2>1 DEF DormantExtension
    <2>2. ASSUME NEW r \in Run, SetVersion(r) PROVE ~DormantExtension'
      BY <2>a, <2>2 DEF SetVersion, Common, DormantExtension
    <2>3. ASSUME NEW r \in Run, SetExtension(r) PROVE ~DormantExtension'
      <3>1. common.version = 1
        BY <2>3 DEF InstallInvariant, TypeOK, RunInvariant, MigrationRuns, SetExtension, Common
      <3> QED BY <2>a, <2>3, <3>1 DEF SetExtension, Common, DormantExtension
    <2>4. ASSUME NEW r \in Run, UnsetBare(r) PROVE ~DormantExtension'
      BY <2>a, <2>4 DEF UnsetBare, Common, DormantExtension
    <2>5. CASE DisableExtension
      BY <2>a, <2>5 DEF DisableExtension, Common, DormantExtension
    <2>6. \/ UNCHANGED common \/ DisableExtension
          \/ \E r \in Run : SetVersion(r) \/ SetExtension(r) \/ UnsetBare(r)
      <3>1. ASSUME NEW r \in Run, Install(r) \/ Fails(r) \/ Interrupt(r) \/ Crash(r)
            PROVE  UNCHANGED common \/ SetVersion(r) \/ SetExtension(r) \/ UnsetBare(r)
        BY <3>1 DEF Install, Claim, Check, EnsureDirectory, MarkNewDirectory, Probe, RegisterName,
               RegisterCommand, TakeHooksPath, CheckEffective, RunPrek, CheckShims, UpdateMarker,
               UndoHooksPath, UndoCommand, UndoName, Release, Fails, Interrupt, Crash
      <3> QED
        BY <3>1 DEF Next, ClearLock, User, AddWorktree, RemoveWorktree, MoveRepository, SetOwnValue, vars
    <2> QED BY <2>1, <2>2, <2>3, <2>4, <2>5, <2>6
  <1> QED BY <1>1, <1>2, InstallInvariantHolds, PTL DEF Spec

\* The migration changes which entries are in force only where there are none.
LEMMA ExtensionStep ==
    ASSUME InstallInvariant, NEW r \in Run, Install(r) \/ Fails(r) \/ Interrupt(r) \/ Crash(r)
    PROVE  \/ common'.extension = common.extension
           \/ UNCHANGED conf /\ \A w \in Worktree : conf[w] = NoConf
  <1>a. TypeOK /\ RunInvariant(r) /\ common \in Common
    BY DEF InstallInvariant, TypeOK
  <1>1. CASE SetExtension(r)
    <2>1. pc[r] = "extension" /\ UNCHANGED conf
      BY <1>1 DEF SetExtension
    <2>2. common'.extension = TRUE
      <3>1. (plan[r].extension => TRUE) = TRUE
        OBVIOUS
      <3>2. common' = [common EXCEPT !.extension = TRUE]
        BY <1>1, <3>1 DEF SetExtension
      <3> QED BY <1>a, <3>2 DEF Common
    <2>3. ~common.extension => \A w \in Worktree : conf[w] = NoConf
      BY <1>a, <2>1 DEF RunInvariant, MigrationRuns
    <2>4. common.extension \in BOOLEAN
      BY <1>a DEF Common
    <2> QED BY <2>1, <2>2, <2>3, <2>4
  <1>2. CASE SetVersion(r) \/ UnsetBare(r)
    BY <1>2, <1>a DEF Common, SetVersion, UnsetBare
  <1>3. CASE UNCHANGED common
    BY <1>3
  <1>4. UNCHANGED common \/ SetVersion(r) \/ SetExtension(r) \/ UnsetBare(r)
    BY DEF Install, Claim, Check, EnsureDirectory, MarkNewDirectory, Probe, RegisterName,
           RegisterCommand, TakeHooksPath, CheckEffective, RunPrek, CheckShims, UpdateMarker,
           UndoHooksPath, UndoCommand, UndoName, Release, Fails, Interrupt, Crash
  <1> QED BY <1>1, <1>2, <1>3, <1>4

LEMMA DirectoryStep ==
    ASSUME InstallInvariant, NEW r \in Run, Install(r) \/ Fails(r) \/ Interrupt(r) \/ Crash(r)
    PROVE  \A w \in Worktree \ {target[r]} : dir'[w] = dir[w] /\ shims'[w] = shims[w]
  <1>a. TypeOK
    BY DEF InstallInvariant
  <1>1. CASE UNCHANGED <<dir, shims>>
    BY <1>1
  <1>2. CASE EnsureDirectory(r) \/ MarkNewDirectory(r) \/ RunPrek(r) \/ UpdateMarker(r)
    BY <1>2, <1>a DEF TypeOK, EnsureDirectory, MarkNewDirectory, RunPrek, UpdateMarker
  <1>3. \/ UNCHANGED <<dir, shims>>
        \/ EnsureDirectory(r) \/ MarkNewDirectory(r) \/ RunPrek(r) \/ UpdateMarker(r)
    BY DEF Install, Claim, Check, SetVersion, SetExtension, UnsetBare, Probe, RegisterName,
           RegisterCommand, TakeHooksPath, CheckEffective, CheckShims,
           UndoHooksPath, UndoCommand, UndoName, Release, Fails, Interrupt, Crash
  <1> QED BY <1>1, <1>2, <1>3

\* An installer's step changes neither the files of a worktree it does not
\* install into nor which of its values are in force, though the migration
\* writes the common config.
THEOREM SiblingsUntouchedHolds == Spec => SiblingsUntouched
  <1> DEFINE Spare ==
        \A r \in Run : pc'[r] # pc[r] =>
          \A w \in Worktree \ {target[r], target'[r]} :
              /\ Effective(w)' = Effective(w)
              /\ dir'[w] = dir[w]
              /\ shims'[w] = shims[w]
  <1>1. InstallInvariant /\ [Next]_vars => [Spare]_vars
    <2> SUFFICES ASSUME InstallInvariant, Next,
                        NEW r \in Run, pc'[r] # pc[r],
                        NEW w \in Worktree \ {target[r], target'[r]}
                 PROVE  /\ Effective(w)' = Effective(w)
                        /\ dir'[w] = dir[w]
                        /\ shims'[w] = shims[w]
      BY DEF vars
    <2>1. PICK s \in Run : Install(s) \/ Fails(s) \/ Interrupt(s) \/ Crash(s)
      BY DEF Next, User, ClearLock, AddWorktree, RemoveWorktree, SetOwnValue, MoveRepository,
             DisableExtension
    <2>2. s = r
      BY <2>1, StepsAreOwn DEF InstallInvariant, Untouched
    <2>3. conf'[w] = conf[w]
      BY <2>1, <2>2, ConfStep
    <2>4. Effective(w)' = Effective(w)
      BY <2>1, <2>2, <2>3, ExtensionStep DEF Effective
    <2> QED BY <2>1, <2>2, <2>4, DirectoryStep
  <1> QED BY <1>1, InstallInvariantHolds, PTL DEF Spec, SiblingsUntouched

--------------------------------------------------------------------------------
(* The installation under the abstract lock *)

\* The mapping of InstallMutex's inside, named for the proof.
MutexInside == {r \in Run : pc[r] \notin {"idle", "check"}}

LEMMA MutexInit == Init => Mutex!Init
  BY MarksAssumption DEF Init, Mutex!Init

\* A step that neither moves the lock nor takes a run in or out is none of
\* InstallMutex's.
LEMMA MutexStutters ==
    ASSUME UNCHANGED <<lock, MutexInside>>
    PROVE  UNCHANGED Mutex!vars
  BY DEF Mutex!vars, MutexInside

\* Past its check a run only goes on inside, or leaves.
LEMMA InsideStep ==
    ASSUME TypeOK, NEW r \in Run, Install(r) \/ Fails(r),
           ~Claim(r), ~Check(r), ~Release(r)
    PROVE  pc[r] \notin {"idle", "check"} /\ pc'[r] \notin {"idle", "check"} /\ lock' = lock
  <1> USE DEF TypeOK, Go, Raise
  <1>1. CASE EnsureDirectory(r) \/ MarkNewDirectory(r)
    BY <1>1 DEF EnsureDirectory, MarkNewDirectory
  <1>2. CASE SetVersion(r) \/ SetExtension(r) \/ UnsetBare(r) \/ Probe(r)
    BY <1>2 DEF SetVersion, SetExtension, UnsetBare, Probe
  <1>3. CASE RegisterName(r) \/ RegisterCommand(r) \/ TakeHooksPath(r)
    BY <1>3 DEF RegisterName, RegisterCommand, TakeHooksPath
  <1>4. CASE CheckEffective(r) \/ RunPrek(r) \/ CheckShims(r) \/ UpdateMarker(r)
    BY <1>4 DEF CheckEffective, RunPrek, CheckShims, UpdateMarker
  <1>5. CASE UndoHooksPath(r) \/ UndoCommand(r) \/ UndoName(r)
    BY <1>5 DEF UndoHooksPath, UndoCommand, UndoName
  <1>6. CASE Fails(r)
    BY <1>6 DEF Fails, EarlySteps, LateSteps
  <1> QED BY <1>1, <1>2, <1>3, <1>4, <1>5, <1>6 DEF Install

LEMMA MutexStep == InstallInvariant /\ [Next]_vars => [Mutex!Next]_(Mutex!vars)
  <1> SUFFICES ASSUME InstallInvariant, [Next]_vars PROVE Mutex!Next \/ UNCHANGED Mutex!vars
    OBVIOUS
  <1>a. TypeOK
    BY DEF InstallInvariant
  <1>b. \A r \in Run : pc[r] # "idle" => lock = r
    BY DEF InstallInvariant, RunInvariant, Alone
  <1>1. CASE UNCHANGED <<lock, pc>>
    BY <1>1, MutexStutters DEF MutexInside
  <1>2. ASSUME NEW r \in Run, Install(r) \/ Fails(r) \/ Interrupt(r) \/ Crash(r)
        PROVE  Mutex!Next \/ UNCHANGED Mutex!vars
    <2>a. \A s \in Run \ {r} : pc'[s] = pc[s]
      BY <1>2, <1>a, StepsAreOwn DEF Untouched
    <2>1. CASE Claim(r)
      <3>1. lock = Free /\ lock' = r /\ pc[r] = "idle" /\ pc'[r] = "check"
        BY <1>a, <2>1 DEF TypeOK, Claim, Go
      <3>2. MutexInside' = MutexInside
        BY <2>a, <3>1 DEF MutexInside
      <3>3. Mutex!Claim(r)
        BY <3>1, <3>2, MarksAssumption DEF Mutex!Claim, MutexInside
      <3> QED BY <3>3 DEF Mutex!Next
    <2>2. CASE Check(r) \/ (Interrupt(r) /\ pc[r] = "check")
      <3>1. pc[r] = "check" /\ pc'[r] \in {"ensure", "release"} /\ lock' = lock
        BY <1>a, <2>2 DEF TypeOK, Check, Interrupt, Raise, Go, LateSteps
      <3>2. MutexInside' = MutexInside \union {r} /\ lock = r
        BY <1>b, <2>a, <3>1 DEF MutexInside
      <3>3. Mutex!Enter(r)
        BY <3>1, <3>2 DEF Mutex!Enter, MutexInside
      <3> QED BY <3>3 DEF Mutex!Next
    <2>3. CASE Release(r)
      <3>1. pc[r] = "release" /\ pc'[r] = "idle" /\ lock = r /\ lock' = Free
        BY <1>a, <1>b, <2>3 DEF TypeOK, Release, Forget, Go
      <3>2. MutexInside' = MutexInside \ {r} /\ r \in MutexInside
        BY <2>a, <3>1 DEF MutexInside
      <3>3. Mutex!Release(r)
        BY <3>1, <3>2, MarksAssumption DEF Mutex!Release, MutexInside
      <3> QED BY <3>3 DEF Mutex!Next
    <2>4. CASE Crash(r)
      <3>1. pc[r] # "idle" /\ pc'[r] = "idle" /\ lock = r /\ lock' = Abandoned
        BY <1>a, <1>b, <2>4 DEF TypeOK, Crash, Forget, Go
      <3>2. MutexInside' = MutexInside \ {r}
        BY <2>a, <3>1 DEF MutexInside
      <3>3. Mutex!Die(r)
        BY <3>1, <3>2, MarksAssumption DEF Mutex!Die, MutexInside
      <3> QED BY <3>3 DEF Mutex!Next
    <2>5. CASE Interrupt(r) /\ pc[r] # "check"
      <3>1. /\ pc[r] \notin {"idle", "check"} /\ pc'[r] = "release" /\ lock' = lock
        BY <1>a, <2>5 DEF TypeOK, Interrupt, Go
      <3>2. MutexInside' = MutexInside
        BY <2>a, <3>1 DEF MutexInside
      <3> QED BY <3>1, <3>2, MutexStutters
    <2>6. CASE ~Claim(r) /\ ~Check(r) /\ ~Release(r) /\ (Install(r) \/ Fails(r))
      <3>1. pc[r] \notin {"idle", "check"} /\ pc'[r] \notin {"idle", "check"} /\ lock' = lock
        BY <1>a, <2>6, InsideStep
      <3>2. MutexInside' = MutexInside
        BY <2>a, <3>1 DEF MutexInside
      <3> QED BY <3>1, <3>2, MutexStutters
    <2> QED BY <1>2, <2>1, <2>2, <2>3, <2>4, <2>5, <2>6
  <1>3. CASE ClearLock
    <2>1. lock = Abandoned /\ lock' = Free /\ UNCHANGED pc
      BY <1>3 DEF ClearLock
    <2>2. MutexInside = {} /\ MutexInside' = MutexInside
      BY <1>b, <2>1, MarksAssumption DEF MutexInside
    <2>3. Mutex!Clear
      BY <2>1, <2>2, MarksAssumption DEF Mutex!Clear, MutexInside
    <2> QED BY <2>3 DEF Mutex!Next
  <1>4. CASE User
    BY <1>1, <1>4 DEF User, AddWorktree, RemoveWorktree, SetOwnValue, MoveRepository, DisableExtension
  <1> QED BY <1>1, <1>2, <1>3, <1>4 DEF Next, vars

\* Every behaviour of the installers is one of the abstract lock, entered when
\* the check has passed or failed and left at the release or by a kill.
THEOREM InstallUsesMutex == Spec => UsesMutex
  BY MutexInit, MutexStep, InstallInvariantHolds, PTL DEF Spec, UsesMutex, Mutex!Spec

--------------------------------------------------------------------------------
(* What an earlier run left, in a repository that does not move *)

LEMMA InPlaceInit == Init => InPlace
  <1> SUFFICES ASSUME Init PROVE InPlace
    OBVIOUS
  <1>1. NoConf.hooks \notin Paths /\ Absent \notin Paths
    BY MarksAssumption DEF NoConf
  <1> QED BY <1>1, MainAssumption DEF Init, InPlace, Fits

\* What a step that does not move the repository does to markers, to hooks paths
\* and to what the runs have checked.
MarkersStay ==
    \A w \in Worktree :
        /\ dir'[w] \in {dir[w], Own(w), Unmarked, Broken}
        /\ dir[w] \in {Own(w), Broken} => dir'[w] \in {Own(w), Broken}

HooksComeFrom(w) ==
    \/ conf'[w].hooks \notin Paths
    \/ conf'[w].hooks = conf[w].hooks
    \/ conf'[w].hooks = Own(w) /\ w \in exists /\ dir'[w] \in {Own(w), Broken}
    \/ \E r \in Run : target[r] = w /\ conf'[w].hooks = was[r].hooks
    \/ w # Main /\ \E v \in Worktree : conf'[w].hooks = conf[v].hooks

CheckedHooksComeFrom(r) ==
    \/ was'[r].hooks \notin Paths
    \/ target'[r] = target[r] /\ was'[r].hooks = was[r].hooks
    \/ target'[r] \in Worktree /\ was'[r].hooks = conf[target'[r]].hooks

InstallsInMarked(r) ==
    pc[r] \in {"version", "extension", "bare"} \union LateSteps =>
        dir[target[r]] \in {Own(target[r]), Broken}

LEMMA InPlaceFrame ==
    ASSUME InPlace, location' = location, exists \subseteq exists', MarkersStay,
           \A w \in Worktree : HooksComeFrom(w),
           \A r \in Run : CheckedHooksComeFrom(r),
           \A r \in Run : InstallsInMarked(r)'
    PROVE  InPlace'
  <1>0. \A v \in Worktree : Own(v)' = Own(v)
    BY DEF Own, HooksPath
  <1>1. \A h, w : Fits(h, w) /\ h \in Paths =>
           \E v \in Worktree : h = Own(v) /\ Marked(v)' /\ (w = Main => v = Main)
    <2>1. \A v \in Worktree : Marked(v) => Marked(v)'
      BY <1>0 DEF Marked, MarkersStay
    <2> QED BY <2>1 DEF Fits
  <1>2. ASSUME NEW w \in Worktree PROVE (dir[w] \in Paths => dir[w] = Own(w))'
    BY <1>0, MarksAssumption DEF InPlace, MarkersStay
  <1>3. ASSUME NEW w \in Worktree PROVE Fits(conf[w].hooks, w)'
    <2>1. CASE conf'[w].hooks \notin Paths
      BY <2>1 DEF Fits
    <2>2. ASSUME conf'[w].hooks \in Paths
          PROVE  \E v \in Worktree : conf'[w].hooks = Own(v) /\ Marked(v)' /\ (w = Main => v = Main)
      <3>1. HooksComeFrom(w)
        OBVIOUS
      <3>2. CASE conf'[w].hooks = conf[w].hooks
        BY <1>1, <2>2, <3>2 DEF InPlace
      <3>3. CASE conf'[w].hooks = Own(w) /\ w \in exists /\ dir'[w] \in {Own(w), Broken}
        BY <1>0, <3>3 DEF Marked
      <3>4. CASE \E r \in Run : target[r] = w /\ conf'[w].hooks = was[r].hooks
        BY <1>1, <2>2, <3>4 DEF InPlace
      <3>5. CASE w # Main /\ \E v \in Worktree : conf'[w].hooks = conf[v].hooks
        BY <1>1, <2>2, <3>5 DEF InPlace
      <3> QED BY <2>2, <3>1, <3>2, <3>3, <3>4, <3>5 DEF HooksComeFrom
    <2> QED BY <1>0, <2>1, <2>2 DEF Fits
  <1>4. ASSUME NEW r \in Run PROVE Fits(was[r].hooks, target[r])'
    <2>1. CASE was'[r].hooks \notin Paths
      BY <2>1 DEF Fits
    <2>2. ASSUME was'[r].hooks \in Paths
          PROVE  \E v \in Worktree :
                    was'[r].hooks = Own(v) /\ Marked(v)' /\ (target'[r] = Main => v = Main)
      <3>1. CheckedHooksComeFrom(r)
        OBVIOUS
      <3>2. CASE target'[r] = target[r] /\ was'[r].hooks = was[r].hooks
        BY <1>1, <2>2, <3>2 DEF InPlace
      <3>3. CASE target'[r] \in Worktree /\ was'[r].hooks = conf[target'[r]].hooks
        BY <1>1, <2>2, <3>3 DEF InPlace
      <3> QED BY <2>2, <3>1, <3>2, <3>3 DEF CheckedHooksComeFrom
    <2> QED BY <1>0, <2>1, <2>2 DEF Fits
  <1>5. \A r \in Run : (pc[r] \in {"version", "extension", "bare"} \union LateSteps =>
                          dir[target[r]] \in {Own(target[r]), Broken})'
    BY DEF InstallsInMarked
  <1> QED BY <1>2, <1>3, <1>4, <1>5 DEF InPlace

\* Only three steps change a marker, and they leave the target's its own.
LEMMA MarkerStep ==
    ASSUME InstallInvariant, InPlace, NEW r \in Run,
           Install(r) \/ Fails(r) \/ Interrupt(r) \/ Crash(r)
    PROVE  MarkersStay
  <1>a. TypeOK
    BY DEF InstallInvariant
  <1>1. CASE UNCHANGED dir
    BY <1>1 DEF MarkersStay
  <1>2. CASE EnsureDirectory(r)
    BY <1>2, <1>a, OwnIsPath, MarksAssumption DEF TypeOK, EnsureDirectory, MarkersStay
  <1>3. CASE MarkNewDirectory(r) \/ UpdateMarker(r)
    BY <1>3, <1>a DEF TypeOK, MarkNewDirectory, UpdateMarker, MarkersStay
  <1>4. UNCHANGED dir \/ EnsureDirectory(r) \/ MarkNewDirectory(r) \/ UpdateMarker(r)
    BY DEF Install, Claim, Check, SetVersion, SetExtension, UnsetBare, Probe, RegisterName,
           RegisterCommand, TakeHooksPath, CheckEffective, RunPrek, CheckShims,
           UndoHooksPath, UndoCommand, UndoName, Release, Fails, Interrupt, Crash
  <1> QED BY <1>1, <1>2, <1>3, <1>4

\* A run checks the path its target has, and forgets it when it ends.
LEMMA CheckedStep ==
    ASSUME InstallInvariant, NEW r \in Run,
           Install(r) \/ Fails(r) \/ Interrupt(r) \/ Crash(r)
    PROVE  \A s \in Run : CheckedHooksComeFrom(s)
  <1>a. TypeOK
    BY DEF InstallInvariant
  <1>b. NoConf.hooks \notin Paths
    BY MarksAssumption DEF NoConf
  <1>1. ASSUME NEW s \in Run \ {r} PROVE CheckedHooksComeFrom(s)
    BY <1>a, StepsAreOwn DEF Untouched, CheckedHooksComeFrom
  <1>2. CheckedHooksComeFrom(r)
    <2>1. CASE UNCHANGED <<target, was>>
      BY <2>1 DEF CheckedHooksComeFrom
    <2>2. CASE Claim(r)
      BY <1>b, <2>2 DEF InstallInvariant, RunInvariant, Alone, Claim, CheckedHooksComeFrom
    <2>3. CASE Check(r)
      BY <1>a, <2>3 DEF TypeOK, Check, CheckedHooksComeFrom
    <2>4. CASE Release(r) \/ Crash(r)
      BY <1>a, <1>b, <2>4 DEF TypeOK, Release, Crash, Forget, CheckedHooksComeFrom
    <2>5. UNCHANGED <<target, was>> \/ Claim(r) \/ Check(r) \/ Release(r) \/ Crash(r)
      BY DEF Install, EnsureDirectory, MarkNewDirectory, SetVersion, SetExtension, UnsetBare,
             Probe, RegisterName, RegisterCommand, TakeHooksPath, CheckEffective, RunPrek,
             CheckShims, UpdateMarker, UndoHooksPath, UndoCommand, UndoName, Fails, Interrupt, mine
    <2> QED BY <2>1, <2>2, <2>3, <2>4, <2>5
  <1> QED BY <1>1, <1>2

\* A run gets to the migration only with a marked directory, and keeps it.
LEMMA InstallsInMarkedStep ==
    ASSUME InstallInvariant, InPlace, NEW r \in Run,
           Install(r) \/ Fails(r) \/ Interrupt(r) \/ Crash(r)
    PROVE  \A s \in Run : InstallsInMarked(s)'
  <1>a. TypeOK /\ location' = location
    BY StepsAreOwn DEF InstallInvariant
  <1>b. \A v \in Worktree : Own(v)' = Own(v)
    BY <1>a DEF Own, HooksPath
  <1>c. MarkersStay
    BY MarkerStep
  <1>d. \A s \in Run : InstallsInMarked(s) /\ target[s] \in Worktree
    BY <1>a DEF InPlace, InstallsInMarked, TypeOK
  <1>1. ASSUME NEW s \in Run, target'[s] = target[s],
               pc'[s] = pc[s] \/ pc[s] \in {"version", "extension", "bare"} \union LateSteps
        PROVE  InstallsInMarked(s)'
    BY <1>1, <1>b, <1>c, <1>d DEF InstallsInMarked, MarkersStay
  <1>2. ASSUME NEW s \in Run \ {r} PROVE InstallsInMarked(s)'
    BY <1>1, <1>2, <1>a, StepsAreOwn DEF Untouched
  <1>3. InstallsInMarked(r)'
    <2>1. CASE Claim(r) \/ Check(r) \/ Release(r) \/ Crash(r) \/ Interrupt(r)
               \/ UndoHooksPath(r) \/ UndoCommand(r) \/ UndoName(r)
      <3>1. pc'[r] \in {"check", "ensure", "release", "idle", "undoCommand", "undoName"}
        BY <1>a, <2>1 DEF TypeOK, Claim, Check, Release, Crash, Interrupt, UndoHooksPath,
                          UndoCommand, UndoName, Forget, Raise, Go
      <3> QED BY <3>1 DEF InstallsInMarked
    <2>2. CASE EnsureDirectory(r) \/ MarkNewDirectory(r)
      <3>1. target' = target /\ target[r] \in Worktree
        BY <1>a, <2>2 DEF TypeOK, EnsureDirectory, MarkNewDirectory, mine
      <3>2. pc'[r] \in {"mark", "version", "release"}
        BY <1>a, <2>2 DEF TypeOK, EnsureDirectory, MarkNewDirectory, Raise, Go
      <3>3. pc'[r] = "version" => dir'[target[r]] = Own(target[r])
        <4>1. CASE EnsureDirectory(r)
          BY <1>a, <3>1, <4>1 DEF TypeOK, EnsureDirectory, InPlace, Raise, Go
        <4>2. CASE MarkNewDirectory(r)
          BY <1>a, <3>1, <4>2 DEF TypeOK, MarkNewDirectory, Go
        <4> QED BY <2>2, <4>1, <4>2
      <3> QED BY <1>b, <3>1, <3>2, <3>3 DEF InstallsInMarked
    <2>3. CASE Fails(r)
      <3>1. target' = target
        BY <2>3 DEF Fails, mine
      <3>2. \/ pc[r] \in {"version", "extension", "bare"} \union LateSteps
            \/ pc'[r] = "release"
        BY <1>a, <2>3 DEF TypeOK, Fails, Raise, Go
      <3>3. CASE pc'[r] = "release"
        BY <3>3 DEF InstallsInMarked
      <3> QED BY <1>1, <3>1, <3>2, <3>3
    <2>4. CASE SetVersion(r) \/ SetExtension(r) \/ UnsetBare(r) \/ Probe(r)
               \/ RegisterName(r) \/ RegisterCommand(r) \/ TakeHooksPath(r)
               \/ CheckEffective(r) \/ RunPrek(r) \/ CheckShims(r) \/ UpdateMarker(r)
      <3>1. target' = target
        BY <2>4 DEF SetVersion, SetExtension, UnsetBare, Probe, RegisterName, RegisterCommand,
                    TakeHooksPath, CheckEffective, RunPrek, CheckShims, UpdateMarker, mine
      <3>2. pc[r] \in {"version", "extension", "bare"} \union LateSteps
        BY <2>4 DEF SetVersion, SetExtension, UnsetBare, Probe, RegisterName, RegisterCommand,
                    TakeHooksPath, CheckEffective, RunPrek, CheckShims, UpdateMarker
      <3> QED BY <1>1, <3>1, <3>2
    <2> QED BY <2>1, <2>2, <2>3, <2>4 DEF Install
  <1> QED BY <1>2, <1>3

LEMMA InPlaceRun ==
    ASSUME InstallInvariant, InPlace, NEW r \in Run,
           Install(r) \/ Fails(r) \/ Interrupt(r) \/ Crash(r)
    PROVE  InPlace'
  <1>1. location' = location /\ exists' = exists
    BY StepsAreOwn DEF InstallInvariant
  <1>2. ASSUME NEW w \in Worktree PROVE HooksComeFrom(w)
    <2>1. CASE conf'[w].hooks = conf[w].hooks
      BY <2>1 DEF HooksComeFrom
    <2>2. CASE TakeHooksPath(r) /\ w = target[r] /\ conf'[w].hooks = Own(w)
      <3>1. w \in exists
        BY <2>2 DEF InstallInvariant, RunInvariant, Alone
      <3>2. dir'[w] \in {Own(w), Broken}
        BY <2>2 DEF InPlace, TakeHooksPath
      <3> QED BY <2>2, <3>1, <3>2 DEF HooksComeFrom
    <2>3. CASE w = target[r] /\ conf'[w].hooks = was[r].hooks
      BY <2>3 DEF HooksComeFrom
    <2> QED BY <2>1, <2>2, <2>3, HooksStep
  <1> QED BY <1>1, <1>2, MarkerStep, CheckedStep, InstallsInMarkedStep, InPlaceFrame

LEMMA InPlaceUnchanged ==
    ASSUME InPlace, UNCHANGED <<location, exists, dir, pc, mine>>,
           \A w \in Worktree : conf'[w].hooks \in {Custom, conf[w].hooks}
    PROVE  InPlace'
  <1>1. MarkersStay /\ \A r \in Run : CheckedHooksComeFrom(r)
    BY DEF MarkersStay, CheckedHooksComeFrom, mine
  <1>2. \A w \in Worktree : HooksComeFrom(w)
    BY MarksAssumption DEF HooksComeFrom
  <1>3. \A r \in Run : InstallsInMarked(r)'
    BY DEF InPlace, InstallsInMarked, Own, HooksPath, mine
  <1> QED BY <1>1, <1>2, <1>3, InPlaceFrame

LEMMA OwnValueHooks ==
    ASSUME TypeOK, NEW w \in Worktree, SetOwnValue(w)
    PROVE  \A u \in Worktree : conf'[u].hooks \in {Custom, conf[u].hooks}
  <1>1. conf \in [Worktree -> Conf] /\ Custom \in HooksValue /\ {"custom", "legacy"} \subseteq Commands
    BY DEF TypeOK, HooksValue, Commands, Known
  <1>2. CASE conf' = [conf EXCEPT ![w].hooks = Custom]
    BY <1>1, <1>2, SetHooks
  <1>3. ASSUME NEW c \in {"custom", "legacy"}, conf' = [conf EXCEPT ![w].command = c]
        PROVE  \A u \in Worktree : conf'[u].hooks \in {Custom, conf[u].hooks}
    <2>1. c \in Commands
      BY <1>1
    <2> QED BY <1>1, <2>1, <1>3, SetCommand
  <1> QED BY <1>2, <1>3 DEF SetOwnValue

\* With one linked worktree: a removed worktree is in no other's hooks path.
OneLinked == \E v \in Worktree : Worktree \subseteq {Main, v}

LEMMA InPlaceUser ==
    ASSUME InstallInvariant, InPlace, ~MoveRepository, "remove" \notin Events \/ OneLinked, User
    PROVE  InPlace'
  <1>a. TypeOK
    BY DEF InstallInvariant
  <1>1. ASSUME NEW w \in Worktree, AddWorktree(w) PROVE InPlace'
    <2>1. PICK v \in exists : conf' = [conf EXCEPT ![w] = Effective(v)]
      BY <1>1 DEF AddWorktree
    <2>2. w # Main /\ v \in Worktree /\ NoConf.hooks \notin Paths
      BY <1>1, <1>a, MarksAssumption DEF TypeOK, AddWorktree, NoConf
    <2>3. \A u \in Worktree : HooksComeFrom(u)
      BY <1>a, <2>1, <2>2 DEF TypeOK, Effective, HooksComeFrom
    <2>4. MarkersStay /\ \A r \in Run : CheckedHooksComeFrom(r)
      BY <1>1 DEF AddWorktree, MarkersStay, CheckedHooksComeFrom, mine
    <2>5. \A r \in Run : InstallsInMarked(r)'
      BY <1>1 DEF InPlace, InstallsInMarked, AddWorktree, Own, HooksPath, mine
    <2>6. location' = location /\ exists \subseteq exists'
      BY <1>1 DEF AddWorktree
    <2> QED BY <2>3, <2>4, <2>5, <2>6, InPlaceFrame
  <1>2. ASSUME NEW w \in Worktree, RemoveWorktree(w) PROVE InPlace'
    <2>1. w # Main /\ \A u \in Worktree : u # w => u = Main
      BY <1>2 DEF RemoveWorktree, OneLinked
    <2>2. /\ conf'[w] = NoConf /\ dir'[w] = Absent /\ UNCHANGED <<location, pc, mine>>
          /\ conf'[Main] = conf[Main] /\ dir'[Main] = dir[Main]
          /\ Main \in exists' /\ Main \in Worktree
      BY <1>2, <1>a, <2>1, MainAssumption DEF TypeOK, RemoveWorktree
    <2>3. NoConf.hooks \notin Paths /\ Absent \notin Paths
      BY MarksAssumption DEF NoConf
    <2>4. \A v \in Worktree : Own(v)' = Own(v)
      BY <2>2 DEF Own, HooksPath
    <2>5. Fits(conf[Main].hooks, Main)'
      <3>1. Fits(conf[Main].hooks, Main)
        BY <2>2 DEF InPlace
      <3>2. Marked(Main) => Marked(Main)'
        BY <2>2, <2>4 DEF Marked
      <3> QED BY <2>2, <2>4, <3>1, <3>2 DEF Fits
    <2>6. \A u \in Worktree : (dir[u] \in Paths => dir[u] = Own(u))' /\ Fits(conf[u].hooks, u)'
      <3>1. (dir[w] \in Paths => dir[w] = Own(w))' /\ Fits(conf[w].hooks, w)'
        BY <2>2, <2>3 DEF Fits
      <3>2. (dir[Main] \in Paths => dir[Main] = Own(Main))'
        BY <2>2, <2>4 DEF InPlace
      <3> QED BY <2>1, <2>5, <3>1, <3>2
    <2>7. ASSUME NEW r \in Run PROVE Fits(was[r].hooks, target[r])' /\ pc'[r] = "idle"
      <3>1. pc[r] = "idle" /\ was[r] = NoConf
        BY <1>2 DEF InstallInvariant, RunInvariant, Alone, RemoveWorktree, Quiet
      <3> QED BY <2>2, <2>3, <3>1 DEF Fits, mine
    <2> QED BY <2>6, <2>7 DEF InPlace
  <1>3. ASSUME NEW w \in Worktree, SetOwnValue(w) PROVE InPlace'
    <2>2. \A u \in Worktree : conf'[u].hooks \in {Custom, conf[u].hooks}
      BY <1>3, <1>a, OwnValueHooks
    <2> QED BY <1>3, <2>2, InPlaceUnchanged DEF SetOwnValue, env
  <1>4. CASE DisableExtension
    BY <1>4, InPlaceUnchanged DEF DisableExtension, env
  <1> QED BY <1>1, <1>2, <1>3, <1>4 DEF User

LEMMA InPlaceStep ==
    ASSUME "move" \notin Events, "remove" \notin Events \/ OneLinked
    PROVE  InstallInvariant /\ InPlace /\ [Next]_vars => InPlace'
  <1> SUFFICES ASSUME InstallInvariant, InPlace, [Next]_vars PROVE InPlace'
    OBVIOUS
  <1>1. CASE UNCHANGED vars
    BY <1>1, InPlaceUnchanged DEF vars, env
  <1>2. CASE ClearLock
    BY <1>2, InPlaceUnchanged DEF ClearLock, env
  <1>3. ~MoveRepository
    BY DEF MoveRepository
  <1> QED BY <1>1, <1>2, <1>3, InPlaceRun, InPlaceUser DEF Next

\* In a repository that does not move, and in which no worktree is removed while
\* a third one may carry a copy of its path, every hooks path an installer left,
\* at whatever step it failed or was killed, is one the next run accepts.
THEOREM LeftoversInPlace ==
    ASSUME "move" \notin Events, "remove" \notin Events \/ OneLinked
    PROVE  Spec => []OwnLeftoversAccepted
  <1>1. InstallInvariant /\ InPlace /\ ~DormantExtension => OwnLeftoversAccepted
    <2> SUFFICES ASSUME TypeOK, InPlace,
                        \A w \in exists : Inspectable(w) /\ conf[w].hooks # Custom,
                        NEW w \in exists
                 PROVE  OwnsHooksPath(w)
      BY DEF InstallInvariant, OwnLeftoversAccepted
    <2>1. CASE conf[w].hooks \in Paths
      <3>1. PICK v \in Worktree : conf[w].hooks = Own(v) /\ Marked(v)
        BY <2>1 DEF TypeOK, InPlace, Fits
      <3>2. v \in exists /\ dir[v] = Own(v)
        BY <3>1 DEF Marked, Inspectable
      <3>3. Relocated(w) \/ CopiedFromSibling(w)
        BY <3>1, <3>2 DEF CopiedFromSibling
      <3> QED BY <2>1, <3>3 DEF OwnsHooksPath
    <2>2. CASE conf[w].hooks = NoValue
      BY <2>2 DEF OwnsHooksPath
    <2>3. conf[w].hooks \in Paths \union {NoValue, Custom}
      BY DEF TypeOK, Conf
    <2> QED BY <2>1, <2>2, <2>3
  <1> QED BY <1>1, InPlaceInit, InPlaceStep, InstallInvariantHolds, MigrationInOrder, PTL DEF Spec

--------------------------------------------------------------------------------
(* What an earlier run left, in a repository that moves *)

LEMMA SettledInit == Init => MovesSettled
  BY MainAssumption DEF Init, MovesSettled, SettledRun, Settled, NoConf

\* What is settled stays so as long as the marker stays, or cannot be read.
LEMMA SettledFrame ==
    ASSUME NEW r \in Run, SettledRun(r), dir'[Main] = dir[Main] \/ dir'[Main] = Broken,
           was'[r] = was[r], result'[r] = result[r],
           pc[r] \notin {"idle", "check", "release"},
           pc'[r] \notin {"idle", "check", "release", "mark"}
    PROVE  SettledRun(r)'
  BY DEF SettledRun, Settled, Inspectable

LEMMA SettledRaise ==
    ASSUME InstallInvariant, exists = {Main}, NEW r \in Run, SettledRun(r), Raise(r),
           pc[r] \in (EarlySteps \ {"check"}) \union LateSteps,
           UNCHANGED <<conf, dir, mine>>
    PROVE  SettledRun(r)' /\ pc'[r] \notin {"idle", "check"}
  <1>a. TypeOK /\ RunInvariant(r) /\ target[r] = Main
    BY DEF InstallInvariant, RunInvariant, Alone
  <1>1. CASE pc[r] \in EarlySteps
    <2>1. conf[Main] = was[r]
      BY <1>a, <1>1 DEF RunInvariant, Undoable
    <2>2. pc'[r] = "release" /\ result'[r] = "failed" /\ Settled(was[r].hooks)
      BY <1>a, <1>1 DEF TypeOK, Raise, Go, SettledRun
    <2> QED BY <2>1, <2>2 DEF SettledRun, Settled, Inspectable
  <1>2. CASE pc[r] \in LateSteps
    <2>1. pc'[r] = "undoHooks" /\ result'[r] = "failed" /\ Settled(was[r].hooks)
      BY <1>a, <1>2 DEF TypeOK, Raise, Go, SettledRun
    <2> QED BY <2>1 DEF SettledRun, Settled, Inspectable, mine
  <1> QED BY <1>1, <1>2

LEMMA SettledStart ==
    ASSUME InstallInvariant, exists = {Main}, NEW r \in Run, SettledRun(r),
           pc[r] \in {"idle", "check"} => Settled(conf[Main].hooks),
           Claim(r) \/ Check(r) \/ EnsureDirectory(r) \/ MarkNewDirectory(r)
    PROVE  SettledRun(r)' /\ (pc'[r] \in {"idle", "check"} => Settled(conf[Main].hooks)')
  <1>a. TypeOK /\ RunInvariant(r) /\ target[r] = Main
    BY DEF InstallInvariant, RunInvariant, Alone
  <1>b. Main \in Worktree /\ dir \in [Worktree -> Paths \union {Absent, Unmarked, Broken}]
    BY <1>a, MainAssumption DEF TypeOK
  <1>1. CASE Claim(r)
    <2>1. /\ pc'[r] = "check" /\ UNCHANGED <<conf, dir, result>>
      BY <1>a, <1>1 DEF TypeOK, Claim, Go
    <2>2. Settled(conf[Main].hooks)' /\ result'[r] = "none"
      BY <1>a, <1>1, <2>1 DEF Claim, RunInvariant, Alone, Settled, Inspectable
    <2> QED BY <2>1, <2>2 DEF SettledRun
  <1>2. CASE Check(r)
    <2>1. /\ UNCHANGED <<conf, dir>> /\ was'[r] = conf[Main] /\ Settled(conf[Main].hooks)
          /\ result[r] = "none"
      BY <1>a, <1>2 DEF TypeOK, Check, RunInvariant, WaysOut
    <2>2. \/ pc'[r] = "release" /\ result'[r] = "failed"
          \/ pc'[r] = "ensure" /\ result'[r] = "none"
      BY <1>a, <1>2, <2>1 DEF TypeOK, Check, Raise, Go
    <2>3. Settled(was[r].hooks)' /\ Settled(conf[Main].hooks)'
      BY <2>1 DEF Settled, Inspectable
    <2> QED BY <2>2, <2>3 DEF SettledRun
  <1>3. CASE EnsureDirectory(r)
    <2>0. pc[r] = "ensure" /\ UNCHANGED <<conf, mine, was>>
      BY <1>3 DEF EnsureDirectory, mine
    <2>1. CASE Raise(r) /\ UNCHANGED dir
      BY <2>0, <2>1, SettledRaise
    <2>2. CASE dir[Main] = Absent /\ Go(r, "mark") /\ UNCHANGED result
      <3>1. pc'[r] = "mark" /\ result'[r] = "none"
        BY <1>a, <2>0, <2>2 DEF TypeOK, Go, RunInvariant, WaysOut
      <3>2. was[r].hooks = NoValue
        <4>1. was[r].hooks \in Paths \union {NoValue, Custom} /\ was[r].hooks # Custom
          BY <1>a, <2>0 DEF TypeOK, Conf, RunInvariant, Undoable
        <4>2. was[r].hooks \in {NoValue, Custom, Absent}
          BY <2>0, <2>2, MarksAssumption DEF SettledRun, Settled, Inspectable
        <4>3. Absent \notin Paths
          BY MarksAssumption
        <4>4. CASE was[r].hooks = Absent
          BY <4>1, <4>3, <4>4
        <4> QED BY <4>1, <4>2, <4>4
      <3> QED BY <2>0, <3>1, <3>2 DEF SettledRun, Settled
    <2>3. CASE Go(r, "version") /\ UNCHANGED <<dir, result>>
      <3>1. pc'[r] = "version"
        BY <1>a, <2>3 DEF TypeOK, Go
      <3> QED BY <2>0, <2>3, <3>1, SettledFrame
    <2> QED BY <1>3, <1>a, <2>1, <2>2, <2>3 DEF EnsureDirectory
  <1>4. CASE MarkNewDirectory(r)
    <2>1. /\ pc[r] = "mark" /\ pc'[r] \in {"mark", "version"}
          /\ was'[r].hooks = NoValue /\ result'[r] = "none"
      BY <1>a, <1>4 DEF TypeOK, MarkNewDirectory, Go, RunInvariant, WaysOut, SettledRun, mine
    <2> QED BY <2>1 DEF SettledRun, Settled
  <1> QED BY <1>1, <1>2, <1>3, <1>4

LEMMA SettledRest ==
    ASSUME InstallInvariant, exists = {Main}, {"kill", "interrupt", "undo fails"} \intersect Events = {},
           NEW r \in Run, SettledRun(r), Install(r) \/ Fails(r) \/ Interrupt(r) \/ Crash(r),
           ~Claim(r), ~Check(r), ~EnsureDirectory(r), ~MarkNewDirectory(r)
    PROVE  SettledRun(r)' /\ (pc'[r] \in {"idle", "check"} => Settled(conf[Main].hooks)')
  <1>a. TypeOK /\ RunInvariant(r) /\ target[r] = Main
    BY DEF InstallInvariant, RunInvariant, Alone
  <1>b. Main \in Worktree /\ dir \in [Worktree -> Paths \union {Absent, Unmarked, Broken}]
    BY <1>a, MainAssumption DEF TypeOK
  <1>1. CASE SetVersion(r) \/ SetExtension(r) \/ Probe(r) \/ RegisterName(r) \/ TakeHooksPath(r)
             \/ RunPrek(r)
    <2>1. /\ pc[r] \in {"version", "extension", "probe", "name", "hooksPath", "prek"}
          /\ pc'[r] \in {"extension", "bare", "name", "command", "effective", "shims"}
      BY <1>a, <1>1 DEF TypeOK, SetVersion, SetExtension, Probe, RegisterName, TakeHooksPath,
                        RunPrek, Go
    <2>2. dir' = dir /\ was' = was /\ result' = result
      BY <1>1 DEF SetVersion, SetExtension, Probe, RegisterName, TakeHooksPath, RunPrek, mine
    <2> QED BY <2>1, <2>2, SettledFrame
  <1>2. CASE UnsetBare(r) \/ RegisterCommand(r) \/ CheckEffective(r) \/ CheckShims(r) \/ Fails(r)
    <2>1. /\ pc[r] \in (EarlySteps \ {"check"}) \union LateSteps
          /\ UNCHANGED <<dir, mine, was>>
      BY <1>2 DEF UnsetBare, RegisterCommand, CheckEffective, CheckShims, Fails, mine
    <2>2. CASE Raise(r) /\ UNCHANGED conf
      BY <2>1, <2>2, SettledRaise
    <2>3. CASE /\ Go(r, "probe") \/ Go(r, "hooksPath") \/ Go(r, "prek") \/ Go(r, "remark")
               /\ UNCHANGED result
      <3>1. pc'[r] \in {"probe", "hooksPath", "prek", "remark"}
        BY <1>a, <2>3 DEF TypeOK, Go
      <3> QED BY <2>1, <2>3, <3>1, SettledFrame
    <2> QED
      BY <1>2, <2>2, <2>3 DEF UnsetBare, RegisterCommand, CheckEffective, CheckShims, Fails
  <1>3. CASE UpdateMarker(r)
    <2>1. CASE pc[r] = "remark" /\ Go(r, "rewrite") /\ dir' = [dir EXCEPT ![Main] = Broken]
               /\ UNCHANGED <<mine, result>>
      <3>1. pc'[r] = "rewrite" /\ dir'[Main] = Broken /\ was'[r] = was[r]
        BY <1>a, <1>b, <2>1 DEF TypeOK, Go, mine
      <3> QED BY <2>1, <3>1, SettledFrame
    <2>2. CASE pc[r] = "rewrite" /\ Go(r, "release") /\ dir' = [dir EXCEPT ![Main] = Own(Main)]
               /\ result' = [result EXCEPT ![r] = "ok"] /\ UNCHANGED conf
      <3>1. /\ pc'[r] = "release" /\ result'[r] = "ok" /\ dir'[Main] = Own(Main)
            /\ conf'[Main].hooks = Own(Main)
        BY <1>a, <1>b, <2>2 DEF TypeOK, Go, RunInvariant, Registered
      <3> QED BY <3>1 DEF SettledRun, Settled
    <2> QED BY <1>3, <1>a, <2>1, <2>2 DEF UpdateMarker
  <1>4. CASE UndoHooksPath(r) \/ UndoCommand(r)
    <2>1. /\ pc[r] \in {"undoHooks", "undoCommand"} /\ pc'[r] \in {"undoCommand", "undoName"}
          /\ result' = result /\ dir' = dir /\ was' = was
      BY <1>a, <1>4 DEF TypeOK, UndoHooksPath, UndoCommand, RollbackFailed, Go, mine
    <2> QED BY <2>1, SettledFrame
  <1>5. CASE UndoName(r)
    <2>1. /\ pc[r] = "undoName" /\ pc'[r] = "release"
          /\ result' = result /\ dir' = dir /\ was' = was /\ target' = target
      BY <1>a, <1>5 DEF TypeOK, UndoName, RollbackFailed, Go, mine
    <2>2. result[r] = "failed" /\ Settled(was[r].hooks)
      BY <1>a, <2>1 DEF RunInvariant, WaysOut, SettledRun
    <2>3. conf'[Main] = was[r]
      <3>1. WaysOut(r)'
        BY <1>5, InvUndo DEF RunInvariant
      <3> QED BY <1>a, <2>1, <2>2, <3>1 DEF WaysOut
    <2> QED BY <2>1, <2>2, <2>3 DEF SettledRun, Settled, Inspectable
  <1>6. CASE Release(r)
    <2>1. /\ pc[r] = "release" /\ pc'[r] = "idle" /\ result'[r] = "none"
          /\ UNCHANGED <<conf, dir>>
      BY <1>a, <1>6 DEF TypeOK, Release, Forget, Go
    <2>2. Settled(conf[Main].hooks)'
      BY <2>1 DEF SettledRun, Settled, Inspectable
    <2> QED BY <2>1, <2>2 DEF SettledRun
  <1>7. ~Interrupt(r) /\ ~Crash(r)
    BY DEF Interrupt, Crash
  <1> QED BY <1>1, <1>2, <1>3, <1>4, <1>5, <1>6, <1>7 DEF Install

LEMMA SettledStep ==
    ASSUME {"add", "kill", "interrupt", "undo fails"} \intersect Events = {}
    PROVE  InstallInvariant /\ MovesSettled /\ [Next]_vars => MovesSettled'
  <1> SUFFICES ASSUME InstallInvariant, MovesSettled, [Next]_vars PROVE MovesSettled'
    OBVIOUS
  <1>a. TypeOK /\ exists = {Main} /\ (\A r \in Run : SettledRun(r))
    BY DEF InstallInvariant, MovesSettled
  <1>b. Main \in Worktree
    BY MainAssumption
  <1>1. CASE UNCHANGED <<exists, pc, mine, result, dir>> /\ conf'[Main].hooks \in {Custom, conf[Main].hooks}
    BY <1>1 DEF MovesSettled, SettledRun, Settled, Inspectable, mine
  <1>2. ASSUME NEW r \in Run, Install(r) \/ Fails(r) \/ Interrupt(r) \/ Crash(r)
        PROVE  MovesSettled'
    <2>1. /\ Untouched(r) /\ exists' = exists
          /\ pc[r] # "idle" \/ lock = Free
      BY <1>2, <1>a, StepsAreOwn
    <2>2. \A s \in Run \ {r} : pc[s] = "idle" /\ pc'[s] = "idle" /\ result'[s] = "none"
      <3>1. ASSUME NEW s \in Run \ {r} PROVE pc[s] = "idle"
        BY <2>1, MarksAssumption DEF InstallInvariant, RunInvariant, Alone
      <3> QED BY <2>1, <3>1 DEF InstallInvariant, RunInvariant, Alone, Untouched
    <2>3. pc[r] \in {"idle", "check"} => Settled(conf[Main].hooks)
      BY <2>2 DEF MovesSettled
    <2>4. SettledRun(r)' /\ (pc'[r] \in {"idle", "check"} => Settled(conf[Main].hooks)')
      BY <1>2, <1>a, <2>3, SettledStart, SettledRest
    <2>5. \A s \in Run \ {r} : SettledRun(s)'
      BY <2>2 DEF SettledRun
    <2> QED BY <1>a, <2>1, <2>4, <2>5 DEF MovesSettled
  <1>3. ASSUME NEW w \in Worktree, AddWorktree(w) \/ RemoveWorktree(w) PROVE FALSE
    BY <1>3, <1>a DEF AddWorktree, RemoveWorktree
  <1>4. ASSUME NEW w \in Worktree, SetOwnValue(w)
        PROVE  UNCHANGED <<exists, pc, mine, result, dir>> /\ conf'[Main].hooks \in {Custom, conf[Main].hooks}
    <2>1. w = Main /\ UNCHANGED <<exists, pc, mine, result, dir>>
      BY <1>4, <1>a DEF SetOwnValue, env
    <2> QED BY <1>4, <1>a, <1>b, <2>1, OwnValueHooks
  <1>5. CASE MoveRepository \/ DisableExtension \/ ClearLock \/ UNCHANGED vars
    <2>1. UNCHANGED <<exists, pc, mine, result, dir, conf>>
      BY <1>5 DEF MoveRepository, DisableExtension, ClearLock, vars, env
    <2> QED BY <1>1, <2>1
  <1> QED BY <1>1, <1>2, <1>3, <1>4, <1>5 DEF Next, User

\* In a repository with one worktree that moves between runs, the hooks path a
\* failed run left is one the next run accepts, as long as no run was killed or
\* interrupted and git accepted every undo.
THEOREM LeftoversAfterMoves ==
    ASSUME {"add", "kill", "interrupt", "undo fails"} \intersect Events = {}
    PROVE  Spec => []OwnLeftoversAccepted
  <1>1. InstallInvariant /\ MovesSettled /\ ~DormantExtension => OwnLeftoversAccepted
    <2> SUFFICES ASSUME TypeOK, MovesSettled, Quiet,
                        \A w \in exists : Inspectable(w) /\ conf[w].hooks # Custom
                 PROVE  OwnsHooksPath(Main)
      BY DEF InstallInvariant, OwnLeftoversAccepted, MovesSettled
    <2>1. Settled(conf[Main].hooks)
      BY DEF MovesSettled, Quiet
    <2>2. Main \in exists /\ conf[Main].hooks \in Paths \union {NoValue, Custom}
      BY MainAssumption DEF TypeOK, Conf
    <2>3. conf[Main].hooks \in {NoValue, dir[Main]}
      BY <2>1, <2>2 DEF Settled
    <2> QED BY <2>2, <2>3 DEF OwnsHooksPath, Relocated
  <1> QED BY <1>1, SettledInit, SettledStep, InstallInvariantHolds, MigrationInOrder, PTL DEF Spec

--------------------------------------------------------------------------------
(* ... and in one that moves once, however its runs end *)

LEMMA KeptInit == Init => MovedOnce
  BY InPlaceInit, MainAssumption DEF Init, MovedOnce, KeptRun, Kept, NoConf

\* What is kept stays so while the marker stays, or cannot be read.
LEMMA KeptFrame ==
    ASSUME NEW hooks, Kept(hooks), location' = location,
           dir'[Main] \in {dir[Main], Unmarked, Broken}
    PROVE  Kept(hooks)'
  BY DEF Kept, Inspectable, Own, HooksPath

\* How a step of a run changes the one marker.
LEMMA KeptMarker ==
    ASSUME InstallInvariant, exists = {Main}, NEW r \in Run,
           Install(r) \/ Fails(r) \/ Interrupt(r) \/ Crash(r)
    PROVE  \/ dir'[Main] \in {dir[Main], Unmarked, Broken}
           \/ /\ pc[r] = "mark" /\ pc'[r] = "version" /\ dir'[Main] = Own(Main)
              /\ UNCHANGED <<conf, was>>
           \/ /\ pc[r] = "rewrite" /\ pc'[r] = "release" /\ dir'[Main] = Own(Main)
              /\ UNCHANGED <<conf, was>>
  <1>a. TypeOK /\ target[r] = Main /\ Main \in Worktree
    BY MainAssumption DEF InstallInvariant, RunInvariant, Alone
  <1>1. CASE UNCHANGED dir
    BY <1>1
  <1>2. CASE EnsureDirectory(r)
    BY <1>2, <1>a DEF TypeOK, EnsureDirectory
  <1>3. CASE MarkNewDirectory(r)
    BY <1>3, <1>a DEF TypeOK, MarkNewDirectory, Go, mine
  <1>4. CASE UpdateMarker(r)
    BY <1>4, <1>a DEF TypeOK, UpdateMarker, Go, mine
  <1>5. UNCHANGED dir \/ EnsureDirectory(r) \/ MarkNewDirectory(r) \/ UpdateMarker(r)
    BY DEF Install, Claim, Check, SetVersion, SetExtension, UnsetBare, Probe, RegisterName,
           RegisterCommand, TakeHooksPath, CheckEffective, RunPrek, CheckShims,
           UndoHooksPath, UndoCommand, UndoName, Release, Fails, Interrupt, Crash
  <1> QED BY <1>1, <1>2, <1>3, <1>4, <1>5

\* What a run remembers of the hooks path it found.
LEMMA KeptWas ==
    ASSUME InstallInvariant, exists = {Main}, NEW r \in Run,
           Install(r) \/ Fails(r) \/ Interrupt(r) \/ Crash(r)
    PROVE  \/ was'[r] = was[r] /\ (pc'[r] \in {"idle", "check", "release"} \/ pc[r] \notin {"idle", "check", "release"})
           \/ pc'[r] \in {"idle", "check", "release"}
           \/ was'[r] = conf[Main] /\ UNCHANGED dir /\ pc'[r] = "ensure"
  <1>a. TypeOK /\ target[r] = Main
    BY DEF InstallInvariant, RunInvariant, Alone
  <1>1. CASE Claim(r) \/ Release(r) \/ Crash(r) \/ Interrupt(r)
    BY <1>1, <1>a DEF TypeOK, Claim, Release, Crash, Interrupt, Forget, Go
  <1>2. CASE Check(r)
    BY <1>2, <1>a DEF TypeOK, Check, Raise, Go
  <1>3. \/ Claim(r) \/ Release(r) \/ Crash(r) \/ Interrupt(r) \/ Check(r)
        \/ was' = was /\ pc[r] \notin {"idle", "check", "release"}
    BY DEF Install, EnsureDirectory, MarkNewDirectory, SetVersion, SetExtension, UnsetBare,
           Probe, RegisterName, RegisterCommand, TakeHooksPath, CheckEffective, RunPrek,
           CheckShims, UpdateMarker, UndoHooksPath, UndoCommand, UndoName, Fails, EarlySteps,
           LateSteps, mine
  <1> QED BY <1>1, <1>2, <1>3

LEMMA KeptRunStep ==
    ASSUME InstallInvariant, exists = {Main}, Kept(conf[Main].hooks), NEW r \in Run, KeptRun(r),
           Install(r) \/ Fails(r) \/ Interrupt(r) \/ Crash(r)
    PROVE  Kept(conf[Main].hooks)' /\ KeptRun(r)'
  <1>a. /\ TypeOK /\ RunInvariant(r) /\ target[r] = Main /\ Main \in Worktree
        /\ location' = location /\ Own(Main)' = Own(Main)
    BY MainAssumption, StepsAreOwn
    DEF InstallInvariant, RunInvariant, Alone, Own, HooksPath
  <1>b. Kept(Own(Main))'
    BY <1>a DEF Kept
  <1>1. Kept(conf[Main].hooks)'
    <2>1. CASE dir'[Main] \in {dir[Main], Unmarked, Broken}
      <3>1. CASE conf'[Main].hooks = conf[Main].hooks
        BY <1>a, <2>1, <3>1, KeptFrame DEF Kept
      <3>2. CASE conf'[Main].hooks = Own(Main)
        BY <1>a, <3>2 DEF Kept
      <3>3. CASE UndoHooksPath(r) /\ conf'[Main].hooks = was[r].hooks
        <4>1. Kept(was[r].hooks)
          BY <3>3 DEF KeptRun, UndoHooksPath
        <4>2. dir' = dir
          BY <3>3 DEF UndoHooksPath
        <4> QED BY <1>a, <3>3, <4>1, <4>2 DEF Kept, Inspectable
      <3> QED BY <1>a, <3>1, <3>2, <3>3, HooksStep
    <2>2. CASE pc[r] = "mark" /\ UNCHANGED <<conf, was>>
      <3>1. conf[Main] = was[r] /\ was[r].hooks \in {NoValue, Own(Main)}
        BY <1>a, <2>2 DEF RunInvariant, Undoable, EarlySteps, KeptRun
      <3> QED BY <1>a, <2>2, <3>1 DEF Kept
    <2>3. CASE pc[r] = "rewrite" /\ UNCHANGED <<conf, was>>
      <3>1. conf[Main].hooks = Own(Main)
        BY <1>a, <2>3 DEF RunInvariant, Registered, Taken
      <3> QED BY <1>a, <2>3, <3>1 DEF Kept
    <2> QED BY <2>1, <2>2, <2>3, KeptMarker
  <1>2. pc'[r] \notin {"idle", "check", "release"} => Kept(was[r].hooks)'
    <2> SUFFICES ASSUME pc'[r] \notin {"idle", "check", "release"} PROVE Kept(was[r].hooks)'
      OBVIOUS
    <2>1. CASE was'[r] = was[r] /\ pc[r] \notin {"idle", "check", "release"}
      <3>1. Kept(was[r].hooks)
        BY <2>1 DEF KeptRun
      <3>2. CASE dir'[Main] \in {dir[Main], Unmarked, Broken}
        BY <1>a, <2>1, <3>1, <3>2, KeptFrame DEF Kept
      <3>3. CASE pc[r] = "mark"
        BY <1>a, <2>1, <3>3 DEF KeptRun, Kept
      <3> QED BY <3>2, <3>3, KeptMarker
    <2>2. CASE was'[r] = conf[Main] /\ UNCHANGED dir
      BY <1>a, <2>2 DEF Kept, Inspectable
    <2> QED BY <2>1, <2>2, KeptWas
  <1>3. pc'[r] = "mark" => was'[r].hooks \in {NoValue, Own(Main)}
    <2> SUFFICES ASSUME pc'[r] = "mark" PROVE was'[r].hooks \in {NoValue, Own(Main)}
      OBVIOUS
    <2>1. EnsureDirectory(r) \/ MarkNewDirectory(r)
      BY <1>a DEF TypeOK, Install, Claim, Check, SetVersion, SetExtension, UnsetBare, Probe,
         RegisterName, RegisterCommand, TakeHooksPath, CheckEffective, RunPrek, CheckShims,
         UpdateMarker, UndoHooksPath, UndoCommand, UndoName, Release, Fails, Interrupt, Crash,
         Raise, Forget, Go
    <2>2. CASE MarkNewDirectory(r)
      BY <2>2 DEF MarkNewDirectory, KeptRun, mine
    <2>3. CASE EnsureDirectory(r)
      <3>1. pc[r] = "ensure" /\ dir[Main] = Absent /\ was' = was
        BY <1>a, <2>3 DEF TypeOK, EnsureDirectory, Raise, Go, mine
      <3>2. was[r].hooks \in Paths \union {NoValue, Custom} /\ was[r].hooks # Custom
        BY <1>a, <3>1 DEF TypeOK, Conf, RunInvariant, Undoable
      <3>3. was[r].hooks \in {NoValue, Custom, Own(Main), Absent}
        BY <3>1, MarksAssumption DEF KeptRun, Kept, Inspectable
      <3>4. was[r].hooks # Absent \/ Absent \in {NoValue, Custom}
        BY <3>2, MarksAssumption
      <3> QED BY <3>1, <3>2, <3>3, <3>4
    <2> QED BY <2>1, <2>2, <2>3
  <1> QED BY <1>1, <1>2, <1>3, <1>a DEF KeptRun

LEMMA KeptStep ==
    ASSUME "add" \notin Events, \A m, n \in Moves : m[2] # n[1]
    PROVE  InstallInvariant /\ MovedOnce /\ [Next]_vars => MovedOnce'
  <1> SUFFICES ASSUME InstallInvariant, MovedOnce, [Next]_vars PROVE MovedOnce'
    OBVIOUS
  <1>a. TypeOK /\ exists = {Main} /\ (\A r \in Run : KeptRun(r)) /\ Kept(conf[Main].hooks)
    BY DEF InstallInvariant, MovedOnce
  <1>b. Main \in Worktree
    BY MainAssumption
  <1>c. ASSUME NEW w \in Worktree, AddWorktree(w) \/ RemoveWorktree(w) PROVE FALSE
    BY <1>c, <1>a DEF AddWorktree, RemoveWorktree
  <1>1. ASSUME NEW r \in Run, Install(r) \/ Fails(r) \/ Interrupt(r) \/ Crash(r)
        PROVE  MovedOnce'
    <2>1. /\ Untouched(r) /\ exists' = exists /\ location' = location
          /\ pc[r] # "idle" \/ lock = Free
      BY <1>1, <1>a, StepsAreOwn
    <2>2. MayMove' => InPlace'
      BY <1>1, <2>1, InPlaceRun DEF MayMove, MovedOnce
    <2>3. Kept(conf[Main].hooks)' /\ KeptRun(r)'
      BY <1>1, <1>a, KeptRunStep
    <2>4. ASSUME NEW s \in Run \ {r} PROVE KeptRun(s)'
      <3>1. pc[s] = "idle"
        BY <2>1, MarksAssumption DEF InstallInvariant, RunInvariant, Alone
      <3>2. pc'[s] = "idle"
        BY <2>1, <3>1 DEF Untouched
      <3> QED BY <3>2 DEF KeptRun
    <2> QED BY <1>a, <2>1, <2>2, <2>3, <2>4 DEF MovedOnce
  <1>2. CASE UNCHANGED <<exists, location, pc, mine, dir>> /\ conf'[Main].hooks \in {Custom, conf[Main].hooks}
             /\ (\A w \in Worktree : conf'[w].hooks \in {Custom, conf[w].hooks})
    <2>1. MayMove' => InPlace'
      BY <1>2, InPlaceUnchanged DEF MayMove, MovedOnce
    <2>2. Kept(conf[Main].hooks)'
      BY <1>2, <1>a DEF Kept, Inspectable, Own, HooksPath
    <2>3. \A r \in Run : KeptRun(r)'
      BY <1>2, <1>a DEF KeptRun, Kept, Inspectable, Own, HooksPath, mine
    <2> QED BY <1>2, <1>a, <2>1, <2>2, <2>3 DEF MovedOnce
  <1>3. CASE \E w \in Worktree : SetOwnValue(w)
    BY <1>2, <1>3, <1>a, <1>b, OwnValueHooks DEF SetOwnValue, env
  <1>4. CASE DisableExtension \/ ClearLock \/ UNCHANGED vars
    BY <1>2, <1>4, <1>b DEF DisableExtension, ClearLock, vars, env
  <1>5. CASE MoveRepository
    <2>1. PICK l \in Location : <<location, l>> \in Moves /\ location' = l
      BY <1>5 DEF MoveRepository
    <2>2. InPlace /\ ~MayMove'
      <3>1. InPlace
        BY <2>1 DEF MayMove, MovedOnce
      <3>2. ASSUME NEW k \in Location, <<l, k>> \in Moves PROVE FALSE
        <4>1. <<location, l>>[2] # <<l, k>>[1]
          BY <2>1, <3>2
        <4> QED BY <4>1
      <3>3. ~MayMove'
        BY <2>1, <3>2 DEF MayMove
      <3> QED BY <3>1, <3>3
    <2>3. UNCHANGED <<exists, conf, dir, pc, mine>> /\ \A r \in Run : pc[r] = "idle"
      BY <1>5 DEF MoveRepository, Quiet
    <2>4. Kept(conf[Main].hooks)'
      <3>1. conf[Main].hooks \in Paths \union {NoValue, Custom}
        BY <1>a, <1>b DEF TypeOK, Conf
      <3>2. CASE conf[Main].hooks \in Paths
        <4>1. conf[Main].hooks = Own(Main) /\ dir[Main] \in {Own(Main), Broken}
          BY <1>b, <2>2, <3>2 DEF InPlace, Fits, Marked
        <4> QED BY <2>3, <4>1 DEF Kept, Inspectable
      <3> QED BY <2>3, <3>1, <3>2 DEF Kept
    <2>5. \A r \in Run : KeptRun(r)'
      BY <2>3 DEF KeptRun
    <2> QED BY <1>a, <2>2, <2>3, <2>4, <2>5 DEF MovedOnce
  <1> QED BY <1>1, <1>3, <1>4, <1>5, <1>c DEF Next, User

\* In a repository with one worktree that moves once, the hooks path is one the
\* next run accepts, wherever the runs before and after the move failed, were
\* killed or were interrupted, and whatever git refused to undo.
THEOREM LeftoversAfterOneMove ==
    ASSUME "add" \notin Events, \A m, n \in Moves : m[2] # n[1]
    PROVE  Spec => []OwnLeftoversAccepted
  <1>1. InstallInvariant /\ MovedOnce /\ ~DormantExtension => OwnLeftoversAccepted
    <2> SUFFICES ASSUME TypeOK, MovedOnce, Quiet,
                        \A w \in exists : Inspectable(w) /\ conf[w].hooks # Custom
                 PROVE  OwnsHooksPath(Main)
      BY DEF InstallInvariant, OwnLeftoversAccepted, MovedOnce
    <2>1. Main \in exists /\ conf[Main].hooks \in Paths \union {NoValue, Custom}
      BY MainAssumption DEF TypeOK, Conf
    <2>2. conf[Main].hooks \in {NoValue, Own(Main), dir[Main]}
      BY <2>1 DEF MovedOnce, Kept
    <2> QED BY <2>1, <2>2 DEF OwnsHooksPath, Relocated
  <1> QED BY <1>1, KeptInit, KeptStep, InstallInvariantHolds, MigrationInOrder, PTL DEF Spec

================================================================================

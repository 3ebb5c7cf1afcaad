---------------------------- MODULE WorktreeInstall ----------------------------
(***************************************************************************)
(* install() of src/hdsh/worktree/install.py with the configuration        *)
(* operations of config.py and the hooks directory of ownership.py: the    *)
(* migration of the common config, the takeover of core.hooksPath and of   *)
(* the pairing merge driver in one worktree's config.worktree, the prek    *)
(* run, and the rollback when a step fails.                                *)
(*                                                                         *)
(* Several runs work on several worktrees.  The install lock is the one    *)
(* InstallMutex specifies and InstallLock implements: here claiming it is  *)
(* one step, and a run that cannot claim it changes nothing.  Every git    *)
(* command and file operation that writes is a step, may fail, and may be  *)
(* the last one of a process that is killed or interrupted.  What install()*)
(* only reads under the lock is one step (Check), because the user edits   *)
(* the configuration of existing worktrees only while no run is active;    *)
(* `git worktree add` may run at any time.                                 *)
(***************************************************************************)
CONSTANTS
    Run,            \* installer processes; a run may be repeated
    Worktree,       \* the worktrees of the repository ...
    Main,           \* ... of which this one always exists
    Location,       \* where the repository may live; paths are absolute
    Moves,          \* the moves <<from, to>> the user may make, a bound
    PrekToml,       \* a prek.toml declares the hook types
    Events,         \* what the user, git and the machine may do, a bound
    NoValue,        \* a configuration key that is not set
    Custom,         \* a value the user chose
    Absent,         \* a hooks directory that does not exist
    Unmarked,       \* a hooks directory without an ownership marker
    Broken,         \* ... with a marker that does not parse
    Free,           \* the install lock is free
    Abandoned       \* the install lock of a killed run

ASSUME MainAssumption == Main \in Worktree

ASSUME MovesAssumption == Moves \subseteq Location \X Location

VARIABLES
    common,         \* the common config: format version, extension, core.bare
    inherited,      \* the user set core.hooksPath in the common or global config
    exists,         \* registered worktrees
    location,       \* where the repository lives now
    conf,           \* config.worktree of each worktree
    dir,            \* its hdsh-hooks directory: the path the marker records
    shims,          \* every declared hook type has its shim in that directory
    lock,           \* the run that holds the install lock, Free or Abandoned
    pc,             \* the next step of each run
    target,         \* the worktree a run installs into
    was,            \* config.worktree of the target when the run checked it
    plan,           \* the migration plan: the common config as it was checked
    copied,         \* the checked hooks path is a registered sibling's
    driver,         \* the driver command the probe resolved
    undo,           \* what a failure has to undo
    result          \* how the run ended

env  == <<inherited, exists, location>>
mine == <<target, was, plan, copied, driver>>
vars == <<common, env, conf, dir, shims, lock, pc, mine, undo, result>>

--------------------------------------------------------------------------------
(* Configuration values *)

\* The absolute path of a worktree's owned hooks directory.
HooksPath(w, l) == [worktree |-> w, location |-> l]
Paths == [worktree : Worktree, location : Location]

ASSUME MarksAssumption ==
    /\ {NoValue, Custom, Absent, Unmarked, Broken} \intersect Paths = {}
    /\ NoValue # Custom /\ Absent \notin {Unmarked, Broken} /\ Unmarked # Broken
    /\ {Free, Abandoned} \intersect Run = {} /\ Free # Abandoned

Own(w) == HooksPath(w, location)

\* KNOWN_PAIRING_MERGE_DRIVER_COMMANDS and the forms the probe may resolve.
Forms    == {"bare", "uv"}
Known    == Forms \union {"legacy"}
Commands == {"none", "custom"} \union Known

Conf    == [hooks : Paths \union {NoValue, Custom}, name : {"none", "ours"},
            command : Commands]
NoConf  == [hooks |-> NoValue, name |-> "none", command |-> "none"]
Common  == [version : {0, 1}, extension : BOOLEAN, bare : BOOLEAN]
NoPlan  == [version |-> 1, extension |-> TRUE, bare |-> FALSE]
Nothing == [hooks |-> FALSE, name |-> FALSE, command |-> FALSE]

\* git honours config.worktree only with extensions.worktreeConfig.
Effective(w) == IF common.extension THEN conf[w] ELSE NoConf

\* inspect_owned_hooks_directory does not raise.
Inspectable(w) == dir[w] \notin {Unmarked, Broken}

\* The hooks path in config.worktree is this installer's: this worktree's own
\* path, the one its marker recorded before the repository moved, or the path
\* of a registered sibling whose marker agrees (`git worktree add` copied it).
Relocated(w) == dir[w] = conf[w].hooks
CopiedFromSibling(w) ==
    /\ ~Relocated(w)
    /\ \E v \in exists : conf[w].hooks = Own(v) /\ dir[v] = Own(v)

\* Mistake (mutation runs only): a path git copied from a sibling is foreign.
OwnsHooksPathAlone(w) ==
    \/ conf[w].hooks \in {NoValue, Own(w)}
    \/ conf[w].hooks \in Paths /\ Inspectable(w) /\ Relocated(w)

OwnsHooksPath(w) ==
    \/ conf[w].hooks \in {NoValue, Own(w)}
    \/ /\ conf[w].hooks \in Paths
       /\ Inspectable(w)
       /\ Relocated(w) \/ CopiedFromSibling(w)

--------------------------------------------------------------------------------

Init ==
    /\ common \in {[version |-> 0, extension |-> FALSE, bare |-> TRUE],
                   [version |-> 1, extension |-> TRUE, bare |-> FALSE]}
    /\ inherited \in BOOLEAN
    /\ exists = {Main}
    /\ location \in Location
    /\ conf = [w \in Worktree |-> NoConf]
    /\ dir = [w \in Worktree |-> Absent]
    /\ shims = [w \in Worktree |-> FALSE]
    /\ lock = Free
    /\ pc = [r \in Run |-> "idle"]
    /\ target = [r \in Run |-> Main]
    /\ was = [r \in Run |-> NoConf]
    /\ plan = [r \in Run |-> NoPlan]
    /\ copied = [r \in Run |-> FALSE]
    /\ driver = [r \in Run |-> "none"]
    /\ undo = [r \in Run |-> Nothing]
    /\ result = [r \in Run |-> "none"]

Go(r, step) == pc' = [pc EXCEPT ![r] = step]

\* The process is gone and its variables with it.
Forget(r) ==
    /\ Go(r, "idle")
    /\ target' = [target EXCEPT ![r] = Main]
    /\ was' = [was EXCEPT ![r] = NoConf]
    /\ plan' = [plan EXCEPT ![r] = NoPlan]
    /\ copied' = [copied EXCEPT ![r] = FALSE]
    /\ driver' = [driver EXCEPT ![r] = "none"]
    /\ undo' = [undo EXCEPT ![r] = Nothing]
    /\ result' = [result EXCEPT ![r] = "none"]

\* A step raises: before the inner try nothing is undone, inside it the rollback
\* runs first.
EarlySteps == {"check", "ensure", "mark", "version", "extension", "bare"}
LateSteps  == {"probe", "name", "command", "hooksPath", "effective", "prek", "shims",
               "remark", "rewrite"}

Raise(r) ==
    /\ Go(r, IF pc[r] \in LateSteps THEN "undoHooks" ELSE "release")
    /\ result' = [result EXCEPT ![r] = "failed"]

\* Mistake (mutation runs only): no lock.
ClaimAnyway(r) ==
    /\ pc[r] = "idle"
    /\ lock' = r
    /\ \E w \in exists : target' = [target EXCEPT ![r] = w]
    /\ Go(r, "check")
    /\ UNCHANGED <<common, env, conf, dir, shims, was, plan, copied, driver, undo, result>>

\* install(): the lock is claimed by a run on an existing worktree.
Claim(r) ==
    /\ pc[r] = "idle"
    /\ lock = Free
    /\ lock' = r
    /\ \E w \in exists : target' = [target EXCEPT ![r] = w]
    /\ Go(r, "check")
    /\ UNCHANGED <<common, env, conf, dir, shims, was, plan, copied, driver, undo, result>>

\* Mistake (mutation runs only): only the main worktree's config is examined.
DormantMainEntries == ~common.extension /\ conf[Main] # NoConf

\* assert_worktree_config_files: enabling the extension would activate entries.
DormantEntries == ~common.extension /\ \E w \in exists : conf[w] # NoConf

\* plan_worktree_config_migration: git ignores extensions of a format 0
\* repository, so upgrading the format would activate one.
DormantExtension == common.version = 0 /\ common.extension

\* install() up to the migration plan.  The refusals whose condition is not
\* modelled (a config file that is no regular file, an included, repeated or
\* command-scoped value, plain hooks that would be orphaned, a dormant extension
\* of another name, core.worktree, core.bare=true) may happen to any
\* configuration.
\* HDSH_PREK_ALLOW_HOOKS_PATH_OVERRIDE is the user's choice.
Check(r) ==
    LET w == target[r]
    IN  /\ pc[r] = "check"
        /\ \/ /\ ~DormantEntries
              /\ ~DormantExtension
              /\ OwnsHooksPath(w)
              /\ \E override \in BOOLEAN : Effective(w).hooks = NoValue /\ inherited => override
              /\ Go(r, "ensure")
              /\ UNCHANGED result
           \/ Raise(r)
        /\ was' = [was EXCEPT ![r] = conf[w]]
        /\ plan' = [plan EXCEPT ![r] = common]
        /\ copied' = [copied EXCEPT ![r] =
              conf[w].hooks \in Paths \ {Own(w)} /\ CopiedFromSibling(w)]
        /\ UNCHANGED <<common, env, conf, dir, shims, lock, target, driver, undo>>

\* Mistake (mutation runs only): an existing directory's marker is refreshed at
\* once, before the installation has succeeded.
EnsureDirectoryRefreshed(r) ==
    LET w == target[r]
    IN  /\ pc[r] = "ensure"
        /\ Inspectable(w)
        /\ dir' = [dir EXCEPT ![w] = Own(w)]
        /\ Go(r, "version")
        /\ UNCHANGED <<common, env, conf, shims, lock, mine, undo, result>>

\* ensure_owned_hooks_directory and the second look at the marker.
EnsureDirectory(r) ==
    LET w == target[r]
    IN  /\ pc[r] = "ensure"
        /\ \/ /\ dir[w] = Absent
              /\ dir' = [dir EXCEPT ![w] = Unmarked]
              /\ Go(r, "mark")
              /\ UNCHANGED result
           \/ /\ ~Inspectable(w)
              /\ Raise(r)
              /\ UNCHANGED dir
           \/ /\ dir[w] \in Paths
              /\ was[r].hooks \in {NoValue, Own(w), dir[w]} \/ copied[r]
              /\ Go(r, "version")
              /\ UNCHANGED <<dir, result>>
           \/ /\ dir[w] \in Paths
              /\ was[r].hooks \notin {NoValue, Own(w), dir[w]} /\ ~copied[r]
              /\ Raise(r)
              /\ UNCHANGED dir
        /\ UNCHANGED <<common, env, conf, shims, lock, mine, undo>>

\* update_ownership_marker on the new directory: O_TRUNC, then the content.
MarkNewDirectory(r) ==
    LET w == target[r]
    IN  /\ pc[r] = "mark"
        /\ \/ /\ dir[w] = Unmarked
              /\ dir' = [dir EXCEPT ![w] = Broken]
              /\ UNCHANGED pc
           \/ /\ dir[w] = Broken
              /\ dir' = [dir EXCEPT ![w] = Own(w)]
              /\ Go(r, "version")
        /\ UNCHANGED <<common, env, conf, shims, lock, mine, undo, result>>

(* apply_worktree_config_migration, one git command a step. *)

SetVersion(r) ==
    /\ pc[r] = "version"
    /\ common' = [common EXCEPT !.version = IF plan[r].version = 0 THEN 1 ELSE @]
    /\ Go(r, "extension")
    /\ UNCHANGED <<env, conf, dir, shims, lock, mine, undo, result>>

SetExtension(r) ==
    /\ pc[r] = "extension"
    /\ common' = [common EXCEPT !.extension = plan[r].extension => TRUE]
    /\ Go(r, "bare")
    /\ UNCHANGED <<env, conf, dir, shims, lock, mine, undo, result>>

\* --unset-all of a key that is no longer set is an error.
UnsetBare(r) ==
    /\ pc[r] = "bare"
    /\ \/ /\ plan[r].bare => common.bare
          /\ common' = [common EXCEPT !.bare = IF plan[r].bare THEN FALSE ELSE @]
          /\ Go(r, "probe")
          /\ UNCHANGED result
       \/ /\ plan[r].bare /\ ~common.bare
          /\ Raise(r)
          /\ UNCHANGED common
    /\ UNCHANGED <<env, conf, dir, shims, lock, mine, undo>>

\* probe_pairing_merge_driver: the form that runs on this machine today.
Probe(r) ==
    /\ pc[r] = "probe"
    /\ \E form \in Forms : driver' = [driver EXCEPT ![r] = form]
    /\ Go(r, "name")
    /\ UNCHANGED <<common, env, conf, dir, shims, lock, target, was, plan, copied, undo, result>>

(* install_pairing_merge_driver, one key a step. *)

RegisterName(r) ==
    /\ pc[r] = "name"
    /\ conf' = [conf EXCEPT ![target[r]].name = "ours"]
    /\ undo' = [undo EXCEPT ![r].name = conf[target[r]].name = "none"]
    /\ Go(r, "command")
    /\ UNCHANGED <<common, env, dir, shims, lock, mine, result>>

\* Mistake (mutation runs only): any registered command is migrated.
RegisterCommandAlways(r) ==
    /\ pc[r] = "command"
    /\ conf' = [conf EXCEPT ![target[r]].command = driver[r]]
    /\ undo' = [undo EXCEPT ![r].command = conf[target[r]].command # driver[r]]
    /\ Go(r, "hooksPath")
    /\ UNCHANGED <<common, env, dir, shims, lock, mine, result>>

RegisterCommand(r) ==
    LET existing == conf[target[r]].command
    IN  /\ pc[r] = "command"
        /\ \/ /\ existing \in Known \union {"none"}
              /\ conf' = [conf EXCEPT ![target[r]].command = driver[r]]
              /\ undo' = [undo EXCEPT ![r].command = existing # driver[r]]
              /\ Go(r, "hooksPath")
              /\ UNCHANGED result
           \/ /\ existing \notin Known \union {"none"}
              /\ Raise(r)
              /\ UNCHANGED <<conf, undo>>
        /\ UNCHANGED <<common, env, dir, shims, lock, mine>>

\* git config --worktree core.hooksPath
TakeHooksPath(r) ==
    LET w == target[r]
    IN  /\ pc[r] = "hooksPath"
        /\ conf' = [conf EXCEPT ![w].hooks = Own(w)]
        /\ undo' = [undo EXCEPT ![r].hooks = was[r].hooks # Own(w)]
        /\ Go(r, "effective")
        /\ UNCHANGED <<common, env, dir, shims, lock, mine, result>>

\* The takeover is the effective direct worktree value.
CheckEffective(r) ==
    LET w == target[r]
    IN  /\ pc[r] = "effective"
        /\ \/ Effective(w).hooks = Own(w) /\ Go(r, "prek") /\ UNCHANGED result
           \/ Effective(w).hooks # Own(w) /\ Raise(r)
        /\ UNCHANGED <<common, env, conf, dir, shims, lock, mine, undo>>

\* prek writes shims into the effective hooks directory, all or some of them,
\* and succeeds.
RunPrek(r) ==
    LET w == target[r]
    IN  /\ pc[r] = "prek"
        /\ \E all \in BOOLEAN : shims' = [shims EXCEPT ![w] = @ \/ (all /\ Effective(w).hooks = Own(w))]
        /\ Go(r, "shims")
        /\ UNCHANGED <<common, env, conf, dir, lock, mine, undo, result>>

\* assert_expected_hooks_installed
CheckShims(r) ==
    /\ pc[r] = "shims"
    /\ \/ (PrekToml => shims[target[r]]) /\ Go(r, "remark") /\ UNCHANGED result
       \/ PrekToml /\ ~shims[target[r]] /\ Raise(r)
    /\ UNCHANGED <<common, env, conf, dir, shims, lock, mine, undo>>

\* Mistake (mutation runs only): the marker records the path the worktree had
\* before.
UpdateMarkerToPrevious(r) ==
    /\ pc[r] = "remark"
    /\ dir' = [dir EXCEPT ![target[r]] = was[r].hooks]
    /\ Go(r, "release")
    /\ result' = [result EXCEPT ![r] = "ok"]
    /\ UNCHANGED <<common, env, conf, shims, lock, mine, undo>>

\* update_ownership_marker at the end of a successful installation.
UpdateMarker(r) ==
    LET w == target[r]
    IN  \/ /\ pc[r] = "remark"
           /\ dir' = [dir EXCEPT ![w] = Broken]
           /\ Go(r, "rewrite")
           /\ UNCHANGED <<common, env, conf, shims, lock, mine, undo, result>>
        \/ /\ pc[r] = "rewrite"
           /\ dir' = [dir EXCEPT ![w] = Own(w)]
           /\ Go(r, "release")
           /\ result' = [result EXCEPT ![r] = "ok"]
           /\ UNCHANGED <<common, env, conf, shims, lock, mine, undo>>

\* A git command, the probe, prek, a check or a write fails where it stands.
Fails(r) ==
    /\ pc[r] \in (EarlySteps \ {"check"}) \union LateSteps
    /\ Raise(r)
    /\ UNCHANGED <<common, env, conf, dir, shims, lock, mine, undo>>

(* The rollback: the hooks path, then the driver keys in reverse.  A failed  *)
(* undo is reported with the others and the next one still runs.             *)

RollbackFailed(r) ==
    /\ "undo fails" \in Events
    /\ result' = [result EXCEPT ![r] = "rollback failed"]

\* Mistake (mutation runs only): the hooks path is unset, not restored.
UndoHooksPathUnsets(r) ==
    /\ pc[r] = "undoHooks"
    /\ conf' = [conf EXCEPT ![target[r]].hooks = IF undo[r].hooks THEN NoValue ELSE @]
    /\ Go(r, "undoCommand")
    /\ UNCHANGED <<common, env, dir, shims, lock, mine, undo, result>>

UndoHooksPath(r) ==
    /\ pc[r] = "undoHooks"
    /\ \/ /\ conf' = [conf EXCEPT ![target[r]].hooks = IF undo[r].hooks THEN was[r].hooks ELSE @]
          /\ UNCHANGED result
       \/ undo[r].hooks /\ RollbackFailed(r) /\ UNCHANGED conf
    /\ Go(r, "undoCommand")
    /\ UNCHANGED <<common, env, dir, shims, lock, mine, undo>>

UndoCommand(r) ==
    /\ pc[r] = "undoCommand"
    /\ \/ /\ conf' = [conf EXCEPT ![target[r]].command =
                         IF undo[r].command THEN was[r].command ELSE @]
          /\ UNCHANGED result
       \/ undo[r].command /\ RollbackFailed(r) /\ UNCHANGED conf
    /\ Go(r, "undoName")
    /\ UNCHANGED <<common, env, dir, shims, lock, mine, undo>>


UndoName(r) ==
    /\ pc[r] = "undoName"
    /\ \/ /\ conf' = [conf EXCEPT ![target[r]].name = IF undo[r].name THEN "none" ELSE @]
          /\ UNCHANGED result
       \/ undo[r].name /\ RollbackFailed(r) /\ UNCHANGED conf
    /\ Go(r, "release")
    /\ UNCHANGED <<common, env, dir, shims, lock, mine, undo>>

\* `finally`: the lock is released on every way out.
Release(r) ==
    /\ pc[r] = "release"
    /\ lock' = Free
    /\ Forget(r)
    /\ UNCHANGED <<common, env, conf, dir, shims>>

\* Ctrl-C: a KeyboardInterrupt is no Exception, so neither handler runs, but
\* `finally` does.
Interrupt(r) ==
    /\ "interrupt" \in Events
    /\ pc[r] \notin {"idle", "release"}
    /\ Go(r, "release")
    /\ result' = [result EXCEPT ![r] = "interrupted"]
    /\ UNCHANGED <<common, env, conf, dir, shims, lock, mine, undo>>

\* The process is killed; its lock stays.
Crash(r) ==
    /\ "kill" \in Events
    /\ pc[r] # "idle"
    /\ lock' = Abandoned
    /\ Forget(r)
    /\ UNCHANGED <<common, env, conf, dir, shims>>

\* The operator recovers the lock by hand.
ClearLock ==
    /\ lock = Abandoned
    /\ lock' = Free
    /\ UNCHANGED <<common, env, conf, dir, shims, pc, mine, undo, result>>

--------------------------------------------------------------------------------
(* The user and git.  Only `git worktree add` runs beside an installer.      *)

Quiet == \A r \in Run : pc[r] = "idle"

\* git worktree add: the new worktree inherits a copy of config.worktree.
AddWorktree(w) ==
    /\ "add" \in Events
    /\ w \notin exists
    /\ exists' = exists \union {w}
    /\ \E v \in exists : conf' = [conf EXCEPT ![w] = Effective(v)]
    /\ UNCHANGED <<common, inherited, location, dir, shims, lock, pc, mine, undo, result>>

\* git worktree remove deletes the worktree's git directory.
RemoveWorktree(w) ==
    /\ "remove" \in Events
    /\ Quiet
    /\ w \in exists \ {Main}
    /\ exists' = exists \ {w}
    /\ conf' = [conf EXCEPT ![w] = NoConf]
    /\ dir' = [dir EXCEPT ![w] = Absent]
    /\ shims' = [shims EXCEPT ![w] = FALSE]
    /\ UNCHANGED <<common, inherited, location, lock, pc, mine, undo, result>>

\* The repository moves: every absolute path it recorded is stale.
MoveRepository ==
    /\ "move" \in Events
    /\ Quiet
    /\ \E l \in Location : <<location, l>> \in Moves /\ location' = l
    /\ UNCHANGED <<common, inherited, exists, conf, dir, shims, lock, pc, mine, undo, result>>

\* The user, or an older installer, configures a worktree.
SetOwnValue(w) ==
    /\ "custom" \in Events
    /\ Quiet
    /\ w \in exists
    /\ common.extension
    /\ \/ conf' = [conf EXCEPT ![w].hooks = Custom]
       \/ \E c \in {"custom", "legacy"} : conf' = [conf EXCEPT ![w].command = c]
    /\ UNCHANGED <<common, env, dir, shims, lock, pc, mine, undo, result>>

\* The user turns the extension off: config.worktree files become dormant.
DisableExtension ==
    /\ "disable" \in Events
    /\ Quiet
    /\ common.extension
    /\ common' = [common EXCEPT !.extension = FALSE]
    /\ UNCHANGED <<env, conf, dir, shims, lock, pc, mine, undo, result>>

Install(r) ==
    \/ Claim(r) \/ Check(r) \/ EnsureDirectory(r) \/ MarkNewDirectory(r)
    \/ SetVersion(r) \/ SetExtension(r) \/ UnsetBare(r)
    \/ Probe(r) \/ RegisterName(r) \/ RegisterCommand(r) \/ TakeHooksPath(r)
    \/ CheckEffective(r) \/ RunPrek(r) \/ CheckShims(r) \/ UpdateMarker(r)
    \/ UndoHooksPath(r) \/ UndoCommand(r) \/ UndoName(r) \/ Release(r)

User ==
    \/ \E w \in Worktree : AddWorktree(w) \/ RemoveWorktree(w) \/ SetOwnValue(w)
    \/ MoveRepository
    \/ DisableExtension

Next ==
    \/ \E r \in Run : Install(r) \/ Fails(r) \/ Interrupt(r) \/ Crash(r)
    \/ ClearLock
    \/ User

Spec == Init /\ [][Next]_vars

\* A run that holds the lock is scheduled.
FairSpec == Spec /\ \A r \in Run : WF_vars(pc[r] # "idle" /\ (Install(r) \/ Fails(r)))

--------------------------------------------------------------------------------
(* Properties *)

TypeOK ==
    /\ common \in Common
    /\ inherited \in BOOLEAN
    /\ Main \in exists /\ exists \subseteq Worktree
    /\ location \in Location
    /\ conf \in [Worktree -> Conf]
    /\ dir \in [Worktree -> Paths \union {Absent, Unmarked, Broken}]
    /\ shims \in [Worktree -> BOOLEAN]
    /\ lock \in Run \union {Free, Abandoned}
    /\ pc \in [Run -> EarlySteps \union LateSteps \union
                     {"idle", "undoHooks", "undoCommand", "undoName", "release"}]
    /\ target \in [Run -> Worktree]
    /\ was \in [Run -> Conf]
    /\ plan \in [Run -> Common]
    /\ copied \in [Run -> BOOLEAN]
    /\ driver \in [Run -> Forms \union {"none"}]
    /\ undo \in [Run -> [hooks : BOOLEAN, name : BOOLEAN, command : BOOLEAN]]
    /\ result \in [Run -> {"none", "ok", "failed", "rollback failed", "interrupted"}]

\* What a successful install() leaves when it returns: the worktree runs the
\* owned hooks, every declared type has its shim, the driver that was probed is
\* the one registered, the marker names the directory where it is now and the
\* common config lets git read all of it.  No other run has disturbed it.
Complete(r) ==
    LET w == target[r]
    IN  /\ Effective(w) = [hooks |-> Own(w), name |-> "ours", command |-> driver[r]]
        /\ dir[w] = Own(w)
        /\ PrekToml => shims[w]
        /\ common = [version |-> 1, extension |-> TRUE, bare |-> FALSE]

SuccessIsComplete == \A r \in Run : pc[r] = "release" /\ result[r] = "ok" => Complete(r)

\* "Every owned config write is rolled back if a later step fails": an install
\* that fails, and whose rollback git accepts, leaves the worktree's config as
\* it found it, whichever step failed and whatever path it had taken over.
RollbackRestores ==
    \A r \in Run :
        pc[r] = "release" /\ result[r] = "failed" =>
            conf[target[r]] = was[r]

\* No step of an installer replaces or removes a driver command the user chose
\* or, on the way forward, in the rollback, or on what a killed run left, a hooks
\* path that is not at that moment recognisable as the installer's: one the user
\* set, one whose sibling has been removed or has moved, one of a directory whose
\* marker cannot be read.
UserValuesSurvive ==
    [][ pc' # pc =>
          \A w \in Worktree :
              /\ OwnsHooksPath(w) \/ conf'[w].hooks = conf[w].hooks
              /\ conf[w].command = "custom" => conf'[w].command = "custom"
      ]_vars

\* An installer step changes nothing git or another installer reads of a sibling
\* worktree: not its files, and not which of its values are in force.
SiblingsUntouched ==
    [][ \A r \in Run : pc'[r] # pc[r] =>
          \A w \in Worktree \ {target[r], target'[r]} :
              /\ Effective(w)' = Effective(w)
              /\ dir'[w] = dir[w]
              /\ shims'[w] = shims[w]
      ]_vars

\* Whatever step an earlier run failed, was interrupted or was killed at, the
\* next one can take over: a half-done migration is no dormant extension, and the
\* hooks paths are recognised as the installer's, as long as the markers are
\* readable, the user configured no path of his own and the repository, once it
\* has moved away from a path it recorded, does not move again before a run has
\* succeeded: a run cut off between the takeover and its marker leaves a marker
\* of the first place and a configured path of the second.
OwnLeftoversAccepted ==
    Quiet =>
        /\ ~DormantExtension
        /\ (\A w \in exists : Inspectable(w) /\ conf[w].hooks # Custom) =>
              \A w \in exists : OwnsHooksPath(w)


\* The installation runs under the lock InstallMutex specifies and InstallLock
\* implements: inside from the end of the check to the release.  A killed run's
\* name is used again, so nobody is its lock's owner.
Mutex == INSTANCE InstallMutex WITH
            NoRun  <- Free,
            free   <- lock = Free,
            owner  <- IF lock \in Run THEN lock ELSE Free,
            inside <- {r \in Run : pc[r] \notin {"idle", "check"}},
            dead   <- {}

UsesMutex == Mutex!Spec

--------------------------------------------------------------------------------
(* What the proofs add to these properties. *)

\* Nothing is left of a worktree that is not registered.
GoneIsEmpty == \A w \in Worktree \ exists : conf[w] = NoConf /\ dir[w] = Absent

\* Whoever is past its claim holds the lock, on a worktree that is registered.
Alone(r) ==
    /\ pc[r] # "idle" => lock = r
    /\ pc[r] = "idle" =>
          target[r] = Main /\ was[r] = NoConf /\ undo[r] = Nothing /\ result[r] = "none"
    /\ target[r] \in exists

\* The common config is the one that was checked until the migration changes
\* it; while the extension is off, no worktree has entries it would activate.
MigrationRuns(r) ==
    /\ pc[r] \in {"ensure", "mark", "version"} => common = plan[r]
    /\ pc[r] = "extension" => common = [plan[r] EXCEPT !.version = 1]
    /\ pc[r] = "bare" => common = [NoPlan EXCEPT !.bare = plan[r].bare]
    /\ pc[r] \in LateSteps => common = NoPlan
    /\ pc[r] \in {"ensure", "mark", "version", "extension"} /\ ~common.extension =>
          \A w \in Worktree : conf[w] = NoConf

\* The steps after which a value is registered, a hooks path taken over and
\* the shims are there.
Named    == LateSteps \ {"probe", "name"}
Taken    == {"effective", "prek", "shims", "remark", "rewrite"}
Verified == {"remark", "rewrite"}

Registered(r) ==
    LET w == target[r]
    IN  /\ pc[r] \in LateSteps \ {"probe"} => driver[r] \in Forms
        /\ pc[r] \in Named => conf[w].name = "ours"
        /\ pc[r] \in Named \ {"command"} => conf[w].command = driver[r]
        /\ pc[r] \in Taken => conf[w].hooks = Own(w)
        /\ pc[r] \in Verified => (PrekToml => shims[w])

\* What undo does not list is as it was checked, and what it lists is the
\* installer's own.
Undoable(r) ==
    LET c == conf[target[r]]
    IN  /\ pc[r] \in EarlySteps \union {"probe", "name"} => undo[r] = Nothing
        /\ pc[r] \in {"command", "hooksPath"} => ~undo[r].hooks
        /\ pc[r] = "command" => ~undo[r].command
        /\ pc[r] \in EarlySteps \ {"check"} => c = was[r]
        /\ pc[r] \notin {"idle", "check", "release"} => was[r].hooks # Custom
        /\ pc[r] \in LateSteps \union {"undoHooks"} =>
              IF undo[r].hooks THEN c.hooks = Own(target[r]) ELSE c.hooks = was[r].hooks
        /\ pc[r] \in LateSteps \union {"undoHooks", "undoCommand"} =>
              IF undo[r].command THEN c.command \in Forms ELSE c.command = was[r].command
        /\ pc[r] \in LateSteps \union {"undoHooks", "undoCommand", "undoName"} =>
              IF undo[r].name THEN was[r].name = "none" ELSE c.name = was[r].name

\* Every way out: a run that has undone all it listed has the config it found,
\* and one that has succeeded left a complete installation.
WaysOut(r) ==
    LET c == conf[target[r]]
    IN  /\ pc[r] \in EarlySteps \union LateSteps => result[r] = "none"
        /\ pc[r] \in {"undoHooks", "undoCommand", "undoName"} =>
              result[r] \in {"failed", "rollback failed"}
        /\ pc[r] \in {"undoCommand", "undoName"} /\ result[r] = "failed" => c.hooks = was[r].hooks
        /\ pc[r] = "undoName" /\ result[r] = "failed" => c.command = was[r].command
        /\ pc[r] = "release" /\ result[r] = "failed" => c = was[r]
        /\ pc[r] = "release" /\ result[r] = "ok" => Complete(r)

RunInvariant(r) ==
    Alone(r) /\ MigrationRuns(r) /\ Registered(r) /\ Undoable(r) /\ WaysOut(r)

\* Until a run takes the hooks path over, the one it found is still recognisable
\* as the installer's, and its own directory carries a marker it has read.
Untaken == {"ensure", "mark", "version", "extension", "bare", "probe", "name", "command",
            "hooksPath"}

Recognised(w) ==
    \/ conf[w].hooks \in {NoValue, Own(w)}
    \/ /\ conf[w].hooks \in Paths
       /\ Relocated(w) \/ \E v \in exists : conf[w].hooks = Own(v) /\ dir[v] = Own(v)

Recognising ==
    \A r \in Run :
        /\ pc[r] \in Untaken => Recognised(target[r])
        /\ pc[r] \in Untaken \ {"ensure", "mark"} => dir[target[r]] \in Paths

InstallInvariant == TypeOK /\ GoneIsEmpty /\ \A r \in Run : RunInvariant(r)

\* In a repository that does not move: markers name the directory they are in,
\* and a hooks path that is a worktree's own belongs to a registered one whose
\* directory has been marked; the main worktree copies none.
Marked(v) == v \in exists /\ dir[v] \in {Own(v), Broken}

Fits(hooks, w) ==
    hooks \in Paths =>
        \E v \in Worktree : hooks = Own(v) /\ Marked(v) /\ (w = Main => v = Main)

InPlace ==
    /\ \A w \in Worktree : (dir[w] \in Paths => dir[w] = Own(w)) /\ Fits(conf[w].hooks, w)
    /\ \A r \in Run :
         /\ Fits(was[r].hooks, target[r])
         /\ pc[r] \in {"version", "extension", "bare"} \union LateSteps =>
              dir[target[r]] \in {Own(target[r]), Broken}

\* In a repository with one worktree: between runs its hooks path is unset, the
\* user's or the one its marker records, unless the marker cannot be read.
Settled(hooks) == hooks \in {NoValue, Custom, dir[Main]} \/ ~Inspectable(Main)

SettledRun(r) ==
    /\ pc[r] \notin {"idle", "check", "release"} => Settled(was[r].hooks)
    /\ pc[r] = "mark" => was[r].hooks = NoValue
    /\ pc[r] = "release" => result[r] \in {"ok", "failed"} /\ Settled(conf[Main].hooks)
    /\ result[r] # "rollback failed"

MovesSettled ==
    /\ exists = {Main}
    /\ (\A r \in Run : pc[r] \in {"idle", "check"}) => Settled(conf[Main].hooks)
    /\ \A r \in Run : SettledRun(r)

\* In a repository with one worktree that moves once, wherever its runs are cut
\* off: before the move everything is in place; after it the hooks path is unset,
\* the user's, the new place's or the one the marker records, unless the marker
\* cannot be read.
MayMove == \E l \in Location : <<location, l>> \in Moves

Kept(hooks) == hooks \in {NoValue, Custom, Own(Main), dir[Main]} \/ ~Inspectable(Main)

KeptRun(r) ==
    /\ pc[r] \notin {"idle", "check", "release"} => Kept(was[r].hooks)
    /\ pc[r] = "mark" => was[r].hooks \in {NoValue, Own(Main)}

MovedOnce ==
    /\ exists = {Main}
    /\ MayMove => InPlace
    /\ Kept(conf[Main].hooks)
    /\ \A r \in Run : KeptRun(r)

================================================================================

----------------------------- MODULE InstallMutex -----------------------------
(***************************************************************************)
(* What `hdsh worktree install` promises of its lock, without the file it  *)
(* is made of.  A run owns the lock from the moment it claims it; it is    *)
(* inside the installation only while it owns the lock.  The lock leaves   *)
(* its owner in two ways: the owner releases it, or the operator clears a  *)
(* lock whose owner is dead.  No other run ever takes it away.             *)
(***************************************************************************)
CONSTANTS
    Run,        \* executions of `hdsh worktree install` in one repository
    NoRun       \* "nobody"

VARIABLES
    free,       \* TRUE iff the lock can be claimed
    owner,      \* the run that claimed it; NoRun when free, or foreign
    inside,     \* the runs executing the protected installation
    dead        \* the runs whose process is gone

vars == <<free, owner, inside, dead>>

\* A lock that no run of Run claimed may be there from the beginning.
Init ==
    /\ free \in BOOLEAN
    /\ owner = NoRun
    /\ inside = {}
    /\ dead = {}

Claim(r) ==
    /\ free
    /\ r \notin dead
    /\ free' = FALSE
    /\ owner' = r
    /\ UNCHANGED <<inside, dead>>

Enter(r) ==
    /\ owner = r
    /\ r \notin dead
    /\ inside' = inside \union {r}
    /\ UNCHANGED <<free, owner, dead>>

Release(r) ==
    /\ owner = r
    /\ r \in inside
    /\ free' = TRUE
    /\ owner' = NoRun
    /\ inside' = inside \ {r}
    /\ UNCHANGED dead

\* A process ends; whatever it owned stays claimed.  Where its name is given to
\* a later process, that one is not the owner.
Die(r) ==
    /\ r \notin dead
    /\ \/ dead' = dead \union {r} /\ UNCHANGED owner
       \/ owner = r /\ owner' = NoRun /\ UNCHANGED dead
    /\ inside' = inside \ {r}
    /\ UNCHANGED free

\* Manual recovery: only a lock that no live run owns is ever cleared.
Clear ==
    /\ ~free
    /\ owner \in dead \union {NoRun}
    /\ inside = {}
    /\ free' = TRUE
    /\ owner' = NoRun
    /\ UNCHANGED <<inside, dead>>

Next ==
    \/ \E r \in Run : Claim(r) \/ Enter(r) \/ Release(r) \/ Die(r)
    \/ Clear

Spec == Init /\ [][Next]_vars

--------------------------------------------------------------------------------
(* What the lock is for. *)

\* Flag, owner and the sets of runs keep their types.
TypeOK ==
    /\ free \in BOOLEAN
    /\ owner \in Run \union {NoRun}
    /\ inside \subseteq Run
    /\ dead \subseteq Run

\* At most one run executes the protected installation.
OneInside == \A r, s \in inside : r = s

\* Whoever is inside owns the lock and lives, and a lock that can be claimed is
\* nobody's.
MutexInvariant ==
    /\ TypeOK
    /\ inside \subseteq {owner} \ dead
    /\ free => owner = NoRun

\* A run that is inside keeps the lock as long as it is inside.
InsideKeepsLock == [][ \A r \in inside : r \in inside' => owner' = r /\ ~free' ]_vars

===============================================================================

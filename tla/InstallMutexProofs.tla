-------------------------- MODULE InstallMutexProofs --------------------------
(***************************************************************************)
(* Proofs about InstallMutex, for any runs: what InstallLock and           *)
(* WorktreeInstall inherit by implementing it.                             *)
(***************************************************************************)
EXTENDS InstallMutex, TLAPS

LEMMA MutexStart ==
    ASSUME Init, NoRun \notin Run
    PROVE  MutexInvariant
  BY DEF Init, MutexInvariant, TypeOK

LEMMA MutexStep ==
    ASSUME NoRun \notin Run, MutexInvariant, [Next]_vars
    PROVE  MutexInvariant' /\ \A r \in inside : r \in inside' => owner' = r /\ ~free'
  <1> USE DEF MutexInvariant, TypeOK
  <1>1. CASE UNCHANGED vars
    BY <1>1 DEF vars
  <1>2. ASSUME NEW r \in Run, Claim(r)
        PROVE  MutexInvariant' /\ \A s \in inside : s \in inside' => owner' = s /\ ~free'
    <2>1. inside = {}
      BY <1>2 DEF Claim
    <2> QED BY <1>2, <2>1 DEF Claim
  <1>3. ASSUME NEW r \in Run, Enter(r)
        PROVE  MutexInvariant' /\ \A s \in inside : s \in inside' => owner' = s /\ ~free'
    BY <1>3 DEF Enter
  <1>4. ASSUME NEW r \in Run, Release(r)
        PROVE  MutexInvariant' /\ \A s \in inside : s \in inside' => owner' = s /\ ~free'
    BY <1>4 DEF Release
  <1>5. ASSUME NEW r \in Run, Die(r)
        PROVE  MutexInvariant' /\ \A s \in inside : s \in inside' => owner' = s /\ ~free'
    BY <1>5 DEF Die
  <1>6. CASE Clear
    BY <1>6 DEF Clear
  <1> QED BY <1>1, <1>2, <1>3, <1>4, <1>5, <1>6 DEF Next

\* Whoever is inside owns the lock and lives, whatever runs die and whatever the
\* operator clears.
THEOREM MutexInvariantHolds ==
    ASSUME NoRun \notin Run
    PROVE  Spec => []MutexInvariant
  <1>1. Init => MutexInvariant
    BY MutexStart
  <1>2. MutexInvariant /\ [Next]_vars => MutexInvariant'
    BY MutexStep
  <1> QED BY <1>1, <1>2, PTL DEF Spec

\* The abstract lock is one: no two runs execute the protected installation.
THEOREM OneInsideHolds ==
    ASSUME NoRun \notin Run
    PROVE  Spec => []OneInside
  <1>1. MutexInvariant => OneInside
    BY DEF MutexInvariant, OneInside
  <1> QED BY <1>1, MutexInvariantHolds, PTL

\* The lock is never taken away from, or freed under, a run that stays inside.
THEOREM InsideKeepsLockHolds ==
    ASSUME NoRun \notin Run
    PROVE  Spec => InsideKeepsLock
  <1>1. MutexInvariant /\ [Next]_vars => [\A r \in inside : r \in inside' => owner' = r /\ ~free']_vars
    BY MutexStep
  <1> QED BY <1>1, MutexInvariantHolds, PTL DEF Spec, InsideKeepsLock

===============================================================================

-------------------------- MODULE ProjectLockProofs --------------------------
(***************************************************************************)
(* Mutual exclusion of the project lock, for every number of processes,    *)
(* where an open file cannot be removed.                                   *)
(***************************************************************************)
EXTENDS ProjectLock, TLAPS

Inv == TypeOK /\ OneLockFile

\* Every step keeps the types, on POSIX systems as well.
LEMMA NextType == TypeOK /\ [Next]_vars => TypeOK'
<1> SUFFICES ASSUME TypeOK, [Next]_vars PROVE TypeOK'
  OBVIOUS
<1> USE DEF TypeOK
<1>1. ASSUME NEW p \in Process, OpenLockFile(p) PROVE TypeOK'
  BY <1>1 DEF OpenLockFile
<1>2. ASSUME NEW p \in Process, TakeLock(p) PROVE TypeOK'
  BY <1>2 DEF TakeLock
<1>3. ASSUME NEW p \in Process, LockBusy(p) PROVE TypeOK'
  BY <1>3 DEF LockBusy
<1>4. ASSUME NEW p \in Process, Release(p) PROVE TypeOK'
  BY <1>4 DEF Release, Close
<1>5. ASSUME NEW p \in Process, Crash(p) PROVE TypeOK'
  BY <1>5 DEF Crash, Close
<1>6. CASE ForceUnlock
  BY <1>6 DEF ForceUnlock
<1>7. CASE UNCHANGED vars
  BY <1>7 DEF vars
<1> QED BY <1>1, <1>2, <1>3, <1>4, <1>5, <1>6, <1>7 DEF Next

\* At the start no file is open and none is locked (before the first
\* ProjectLockManager).
LEMMA InitInv == Init => Inv
  BY DEF Init, Inv, TypeOK, OneLockFile

\* Every step keeps the locked files to the one the name .lock leads to.
LEMMA NextInv == ASSUME PosixUnlink = FALSE, Inv, [Next]_vars PROVE Inv'
<1> USE NoneAssumption DEF Inv, TypeOK, OneLockFile
<1>1. ASSUME NEW p \in Process, OpenLockFile(p) PROVE Inv'
  BY <1>1 DEF OpenLockFile, IsOpen
<1>2. ASSUME NEW p \in Process, TakeLock(p) PROVE Inv'
  BY <1>2 DEF TakeLock
<1>3. ASSUME NEW p \in Process, LockBusy(p) PROVE Inv'
  BY <1>3 DEF LockBusy
<1>4. ASSUME NEW p \in Process, Release(p) PROVE Inv'
  BY <1>4 DEF Release, Close, Holds
<1>5. ASSUME NEW p \in Process, Crash(p) PROVE Inv'
  BY <1>5 DEF Crash, Close
<1>6. CASE ForceUnlock
  BY <1>6 DEF ForceUnlock, IsOpen
<1>7. CASE UNCHANGED vars
  BY <1>7 DEF vars
<1> QED BY <1>1, <1>2, <1>3, <1>4, <1>5, <1>6, <1>7 DEF Next

\* Where an open file cannot be removed, ProjectLockManager excludes: of all
\* processes at most one holds the lock, and force_unlock_project and crashes
\* do not change that.
THEOREM LockExcludes ==
  ASSUME PosixUnlink = FALSE
  PROVE  Spec => []MutualExclusion
<1>1. Inv /\ [Next]_vars => Inv'
  BY NextInv
<1>2. Inv => MutualExclusion
  BY NoneAssumption DEF Inv, TypeOK, OneLockFile, MutualExclusion, Holds
<1> QED BY InitInv, <1>1, <1>2, PTL DEF Spec
=============================================================================

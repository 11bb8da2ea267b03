----------------------------- MODULE ProjectLock -----------------------------
(***************************************************************************)
(* ProjectLockManager (tools/metadata_store.py): the exclusive lock of one *)
(* project, a FileLock with timeout 0 on tools/.cache/projects/<KEY>/.lock,*)
(* and force_unlock_project, which removes that file.                      *)
(*                                                                         *)
(* The operating system locks the file a process has opened, not its name. *)
(* On POSIX systems a file can be removed while it is open, and the next   *)
(* process to open the name creates another file.  Windows refuses to      *)
(* remove an open file; there FileLock itself removes the file on release. *)
(***************************************************************************)
CONSTANTS
  Process,      \* processes that execute issues of the project
  Inode,        \* files that may carry the name .lock, one after the other
  PosixUnlink,  \* an open file can be removed
  None          \* neither a process nor a file

ASSUME NoneAssumption == None \notin Process \cup Inode
ASSUME PosixUnlinkAssumption == PosixUnlink \in BOOLEAN

VARIABLES
  path,   \* the file the name .lock leads to, or None
  open,   \* open[p]: the file p has opened, or None
  owner   \* owner[f]: the process that has locked file f, or None

vars == <<path, open, owner>>

TypeOK ==
  /\ path \in Inode \cup {None}
  /\ open \in [Process -> Inode \cup {None}]
  /\ owner \in [Inode -> Process \cup {None}]

Holds(p)  == open[p] # None /\ owner[open[p]] = p
IsOpen(f) == \E p \in Process : open[p] = f

Init ==
  /\ path = None
  /\ open = [p \in Process |-> None]
  /\ owner = [f \in Inode |-> None]

-------------------------------------------------------------------------------
\* FileLock.acquire: open the file, creating it if the name leads nowhere ...
OpenLockFile(p) ==
  /\ open[p] = None
  /\ path' \in IF path # None THEN {path}
               ELSE {f \in Inode : ~IsOpen(f)}
  /\ open' = [open EXCEPT ![p] = path']
  /\ UNCHANGED owner

\* ... and lock it, without waiting.
TakeLock(p) ==
  /\ open[p] # None
  /\ owner[open[p]] = None
  /\ owner' = [owner EXCEPT ![open[p]] = p]
  /\ UNCHANGED <<path, open>>

\* Somebody has locked the file: TimeoutError.
LockBusy(p) ==
  /\ open[p] # None
  /\ owner[open[p]] \notin {None, p}
  /\ open' = [open EXCEPT ![p] = None]
  /\ UNCHANGED <<path, owner>>

\* What is left of the locks once p's handle is closed.
Close(p) ==
  /\ open' = [open EXCEPT ![p] = None]
  /\ owner' = [f \in Inode |-> IF owner[f] = p THEN None ELSE owner[f]]

\* _release_lock
Release(p) ==
  /\ Holds(p)
  /\ Close(p)
  /\ path' = IF PosixUnlink \/ \E q \in Process \ {p} : open[q] = path
             THEN path ELSE None

\* The process dies: the operating system closes its files and leaves the name.
Crash(p) ==
  /\ Close(p)
  /\ UNCHANGED path

\* Faulty variant: on Windows, too, a locked file is removed.
ForceUnlockAlways ==
  /\ path' = None
  /\ UNCHANGED <<open, owner>>

\* force_unlock_project: the file is removed, or removing it fails and is only
\* logged.
ForceUnlock ==
  /\ path' = IF path # None /\ (PosixUnlink \/ ~IsOpen(path)) THEN None ELSE path
  /\ UNCHANGED <<open, owner>>

Next ==
  \/ \E p \in Process : \/ OpenLockFile(p) \/ TakeLock(p) \/ LockBusy(p)
                        \/ Release(p) \/ Crash(p)
  \/ ForceUnlock

Spec == Init /\ [][Next]_vars

-------------------------------------------------------------------------------
\* Two processes never hold the lock of the project at the same time, whatever
\* crashes and forced unlocks happen in between (the promise of
\* ProjectLockManager).
MutualExclusion ==
  \A p, q \in Process : Holds(p) /\ Holds(q) => p = q

\* The inductive strengthening where open files cannot be removed: every open
\* file is the one the name leads to, and only an open file is locked.
OneLockFile ==
  /\ \A p \in Process : open[p] # None => open[p] = path
  /\ \A f \in Inode : owner[f] # None => open[owner[f]] = f
=============================================================================

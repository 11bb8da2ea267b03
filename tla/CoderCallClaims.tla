--------------------------- MODULE CoderCallClaims ---------------------------
(***************************************************************************)
(* What comments of edit_guard.py and orchestrator_graph.py say of the     *)
(* clean-up after the coding agent, for agents that use git themselves.    *)
(***************************************************************************)
EXTENDS CoderCall

Undisturbed(f) == f \notin targets \cup {Gitignore} /\ (f \in escaped => f \in Quoted)

\* "Tracked files are restored to the state of HEAD with git restore, also
\* when the globs match them" (rollback_unauthorized_changes): when the
\* clean-up is over, a tracked file that is in the way of nothing permitted is
\* what HEAD has.
TrackedFilesRestored ==
  pc = "snapshot" =>
    \A f \in InHead \ (targets \cup {Gitignore}) :
      child = "none" /\ index[f] = f => tree[f] = f

\* "Undoes the changes outside target_files" (rollback_unauthorized_changes):
\* what is neither a target nor matched by the globs is as HEAD has it.
OutsideChangesUndone ==
  pc = "snapshot" => \A f \in File \ Glob : Undisturbed(f) => Clean(f)

\* "If the coder changed .gitignore it is put back" (code_node): after a call
\* that succeeded, .gitignore has the content it had before the call.
GitignorePutBack ==
  pc = "idle" /\ outcome = "ok" => tree[Gitignore] = before

\* "An untracked file that the globs do not match is deleted"
\* (rollback_unauthorized_changes): target_files grows only by permitted files.
OnlyPermittedAuthorised ==
  [][targets' \ targets \subseteq Permitted]_vars
=============================================================================

-------------------------- MODULE ReviewRunnerClaims --------------------------
(***************************************************************************)
(* What the repository says of the periodic review and the code does not   *)
(* do.                                                                     *)
(***************************************************************************)
EXTENDS ReviewRunner

VARIABLE looked  \* what agy has looked at, and nothing else

\* The answers of this step; the configuration has no more files than a prompt.
LookedNow(s) ==
  UNION {Views(head[s], runner[r].files, {ThemeOf(r)}) :
           r \in {q \in Runner : runner[q].sat = s /\ At(q, "agent") /\ Answer(q)}}

ClaimSpec ==
  /\ Init /\ looked = [s \in Satellite |-> {}]
  /\ [][Next /\ looked' = [s \in Satellite |-> looked[s] \cup LookedNow(s)]]_<<vars, looked>>

\* The recorded commit is that of a completed review
\* (tools/periodic_review_runner.py:6 前回のレビュー完了コミットからの差分):
\* agy has looked at whatever the difference from it to HEAD does not name.
RecordedMeansReviewed ==
  \A s \in Satellite : cache[s] # NoCommit =>
    Views(head[s], File \ Changed(cache[s], head[s]), Theme) \subseteq looked[s]
=============================================================================

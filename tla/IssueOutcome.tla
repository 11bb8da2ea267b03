---------------------------- MODULE IssueOutcome ----------------------------
(***************************************************************************)
(* What one execution of an issue promises to whoever started it, whatever *)
(* the language models answer: code is handed over only after the latest   *)
(* edit has passed the linter, then the tests, then the review, in that    *)
(* order; every run stops; and it stops with exactly one outcome.          *)
(***************************************************************************)
VARIABLES
  phase,      \* "working", "delivering" or "stopped"
  verified,   \* the gates the current version of the code has passed
  outcome     \* "none" until the run stops

vars == <<phase, verified, outcome>>

Gates     == {"lint", "test", "review"}
Delivered == {"COMPLETED", "PR_FAILED"}
GivenUp   == {"FAILED_B7", "FAILED_SYSTEM", "ESCALATED_NEEDS_REVISION"}

Init ==
  /\ phase = "working"
  /\ verified = {}
  /\ outcome = "none"

\* The code was edited, or may have been: nothing is verified any more.
Edit ==
  /\ phase = "working"
  /\ verified' = {}
  /\ UNCHANGED <<phase, outcome>>

PassLint ==
  /\ phase = "working"
  /\ verified' = {"lint"}
  /\ UNCHANGED <<phase, outcome>>

PassTest ==
  /\ phase = "working" /\ "lint" \in verified
  /\ verified' = verified \cup {"test"}
  /\ UNCHANGED <<phase, outcome>>

PassReview ==
  /\ phase = "working" /\ {"lint", "test"} \subseteq verified
  /\ verified' = verified \cup {"review"}
  /\ phase' = "delivering"
  /\ UNCHANGED outcome

Stop ==
  /\ \/ phase = "working"    /\ outcome' \in GivenUp
     \/ phase = "delivering" /\ outcome' \in Delivered
  /\ phase' = "stopped"
  /\ UNCHANGED verified

Next == Edit \/ PassLint \/ PassTest \/ PassReview \/ Stop

Spec == Init /\ [][Next]_vars /\ WF_vars(Stop)
=============================================================================

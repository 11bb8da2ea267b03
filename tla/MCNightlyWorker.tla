-------------------------- MODULE MCNightlyWorker --------------------------
(***************************************************************************)
(* NightlyWorker for TLC: three tasks of one project, two of them with the *)
(* same score, a day of three ticks with two times of daily_times in it.   *)
(***************************************************************************)
EXTENDS NightlyWorker

MCTask  == 1 .. 3
MCScore == [t \in MCTask |-> IF t = 2 THEN 75 ELSE 50]
MCProjectOf == [t \in MCTask |-> "p"]
MCSlots == {0, 2}

Ready   == [status |-> " ", stage |-> "ready", blocked |-> FALSE]
Started == [Ready EXCEPT !.status = "/"]
Waiting == [Ready EXCEPT !.blocked = TRUE]
MCLine  == {Ready, Started}
=============================================================================

------------------------------ MODULE MCDaemon ------------------------------
(* Instances of Daemon for TLC: a drive of the user's and a joiner's that   *)
(* differ in case only, another joiner's, and three budgets: two commands   *)
(* beside an edit of the file, one command and an edit around a crash, and  *)
(* two commands and two joiners around one.                                 *)
EXTENDS Daemon
LowerCase == [n \in AllNames |-> IF n = "D" THEN "d" ELSE n]
Budget(c, e, k, r) == [cmds |-> c, edits |-> e, crashes |-> k, reports |-> r]
SmallBudgets == {Budget(2, 1, 0, 1), Budget(1, 1, 1, 1), Budget(2, 0, 1, 2)}
=============================================================================

------------------------------ MODULE MCConsole ------------------------------
(* Instances of Console for TLC.                                             *)
EXTENDS Console

Team == <<"team">>
Memo == <<"team", "general">>   \* also the name of the chat of a channel

\* A group with a drive, a space with an app, and the group's migration.
Page ==
    {[api |-> "drive_add", name |-> Team, file |-> Memo, model |-> "note"],
     [api |-> "plugin_action", name |-> <<"plan">>, called |-> Memo, model |-> "note", kind |-> "init",
      plugin |-> "cal", space |-> Team],
     [api |-> "action_doc", name |-> Memo, model |-> "open", kind |-> "delete", field |-> "none",
      item |-> <<>>],
     [api |-> "enable_app", name |-> Team, item |-> "cal"],
     [api |-> "migrate", name |-> Team, run |-> 1]}
\* The same migration asked for twice.
Twice == {[api |-> "migrate", name |-> Team, run |-> i] : i \in 1..2}
Before == << Team >>
Borrow == {<<Team, "group">>}
Calendar == [cal |-> {<<"note", "init">>}]
Tasks == {"note"}
=============================================================================

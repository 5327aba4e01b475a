------------------------------- MODULE MCTeam -------------------------------
(* Instances of Team for TLC.                                                *)
EXTENDS Team

Everyone == [n \in Origin |-> Origin]
Names(q) == Arr([i \in DOMAIN q |-> Str(q[i])])
Ask(d, k, p) == [doc |-> d, kind |-> k, payload |-> p]

\* A group of two with a third node that may be let in; or a protected space of
\* the same three with a chat in it.
Docs     == {"g", "s", "c"}
TwoScenes == {{"g"}, {"s", "c"}}
\* creations included
Lengths  == [x \in TwoScenes |-> IF "g" \in x THEN 3 ELSE 4]
Fields   == {"members", "managers", "msg_from", "msg_text", "msg_ts", "msg_channel",
             "channels", "drive", "visibility", "apps", "channel"}
Models   == [g |-> "group", s |-> "space", c |-> "chat"]
Spaces   == [g |-> NoSpace, s |-> "s", c |-> "s"]
Founders == [d \in Docs |-> 1]
Two      == [members |-> Names(<<1, 2>>), managers |-> Names(<<1>>)]
Beginnings ==
    [g |-> [name |-> Str("team")] @@ Two,
     s |-> [name |-> Str("site"), visibility |-> Str("protected")] @@ Two,
     c |-> [name |-> Str("talk"), channel |-> Str("general")]]
Wishes ==
    {Ask("g", "add-member", [member |-> Str(3)]), Ask("g", "add-manager", [member |-> Str(3)]),
     Ask("g", "remove-member", [member |-> Str(2)]),
     Ask("g", "post", [text |-> Str("x"), channel |-> Str("general")]),
     Ask("s", "add-member", [member |-> Str(3)]), Ask("c", "post", [text |-> Str("x")])}
=============================================================================

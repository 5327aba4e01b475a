-------------------------------- MODULE L1 ---------------------------------
(***************************************************************************)
(* The Level-1 interpreter (src/src/model/l1.rs) and the built-in models   *)
(* it runs: group@1, space@1, chat@1, drive@1 and package@1.               *)
(*                                                                         *)
(* A JSON value is a pair of its type and its content, so that values of   *)
(* different types can be compared.  A model definition is a record with   *)
(* the keys of the JSON one; a write is <<"set" | "append" | "remove",     *)
(* template>> and a precondition a record whose `is` names its form.       *)
(***************************************************************************)
EXTENDS Doc, SequencesExt, TLC

Null    == <<"null", 0>>
Str(s)  == <<"string", s>>
Num(n)  == <<"number", n>>
Arr(q)  == <<"array", q>>
Obj(r)  == <<"object", r>>

ElementsAre(v, t) == v[1] = "array" /\ \A i \in DOMAIN v[2] : v[2][i][1] = t

\* An unknown type string is permissive.
type_matches(v, want) ==
    CASE want \in {"string", "number", "boolean", "object", "array"} -> v[1] = want
      [] want = "string[]"  -> ElementsAre(v, "string")
      [] want = "number[]"  -> ElementsAre(v, "number")
      [] want = "boolean[]" -> ElementsAre(v, "boolean")
      [] OTHER -> TRUE

(***************************************************************************)
(* Reading the state.                                                      *)
(***************************************************************************)
is_present(d, f) == d.fields[f].st = "live"
current_value(d, f) == IF is_present(d, f) THEN d.fields[f].v ELSE Null
current_array(d, f) ==
    IF current_value(d, f)[1] = "array" THEN current_value(d, f)[2] ELSE <<>>
in_list(d, f, who) ==
    \E i \in DOMAIN current_array(d, f) : current_array(d, f)[i] = Str(who)

(***************************************************************************)
(* Templates and writes.                                                   *)
(***************************************************************************)
Actor      == <<"$actor", 0>>
Ts         == <<"$ts", 0>>
Payload(f) == <<"$payload", f>>
Literal(v) == <<"literal", v>>

\* Faulty variant: the actor is not written as a string.
eval_template_ActorRaw(a, t) ==
    CASE t[1] = "$actor"   -> Num(a.origin)
      [] t[1] = "$ts"      -> Num(a.ts)
      [] t[1] = "$payload" -> IF t[2] \in DOMAIN a.payload THEN a.payload[t[2]] ELSE Null
      [] t[1] = "literal"  -> t[2]

eval_template(a, t) ==
    CASE t[1] = "$actor"   -> Str(a.origin)
      [] t[1] = "$ts"      -> Num(a.ts)
      [] t[1] = "$payload" -> IF t[2] \in DOMAIN a.payload THEN a.payload[t[2]] ELSE Null
      [] t[1] = "literal"  -> t[2]

\* Faulty variant: an item is appended only once.
write_value_AsSet(d, a, f, w) ==
    LET item == eval_template(a, w[2])
        now  == current_array(d, f)
    IN  CASE w[1] = "set"    -> item
          [] w[1] = "append" -> IF \E i \in DOMAIN now : now[i] = item
                                THEN Arr(now) ELSE Arr(Append(now, item))
          [] w[1] = "remove" -> Arr(SelectSeq(now, LAMBDA v : v # item))

\* Lists are arrays: an append keeps a duplicate, a remove drops every copy.
write_value(d, a, f, w) ==
    LET item == eval_template(a, w[2])
    IN  CASE w[1] = "set"    -> item
          [] w[1] = "append" -> Arr(Append(current_array(d, f), item))
          [] w[1] = "remove" -> Arr(SelectSeq(current_array(d, f), LAMBDA v : v # item))

(***************************************************************************)
(* Preconditions.                                                          *)
(***************************************************************************)
Reducer(payload, writes, pre) == [payload |-> payload, writes |-> writes, pre |-> pre]
pre_list(def, kind) == def.reducers[kind].pre

\* Named checks are followed eight deep; one that is still a name then, or that
\* names nothing, is refused.
CheckDepth == 8
Resolved(def, p) ==
    IF p.is # "check" THEN p
    ELSE FoldLeft(LAMBDA q, i : IF q.is = "check" /\ q.arg \in DOMAIN def.checks
                                THEN def.checks[q.arg] ELSE q,
                  p, [i \in 1..CheckDepth |-> i])

eval_precond(def, d, a, pre) ==
    LET p == Resolved(def, pre)
    IN  CASE p.is = "field-is"      -> current_value(d, p.arg) = p.value
          [] p.is = "field-not"     -> current_value(d, p.arg) # p.value
          [] p.is = "field-present" -> is_present(d, p.arg)
          [] p.is = "field-absent"  -> ~ is_present(d, p.arg)
          [] p.is = "actor-in"      -> in_list(d, p.arg, a.origin)
          [] p.is = "actor-not-in"  -> ~ in_list(d, p.arg, a.origin)
          [] p.is = "actor-is"      -> a.origin = p.arg
          [] OTHER                  -> FALSE

\* Quorum and space membership need another document: the store checks them.
check_precondition(def, d, a) ==
    \A p \in pre_list(def, a.kind) :
        p.is \notin {"quorum", "space-member"} => eval_precond(def, d, a, p)

quorum(def, kind) == {p \in pre_list(def, kind) : p.is = "quorum"}
requires_space_member(def, kind) == {p \in pre_list(def, kind) : p.is = "space-member"}

validate_payload(def, kind, payload) ==
    /\ kind \in DOMAIN def.reducers
    /\ LET schema == def.reducers[kind].payload
       IN  \A f \in DOMAIN schema : f \in DOMAIN payload /\ type_matches(payload[f], schema[f])

check_state(def, d) ==
    \A f \in DOMAIN def.fields : is_present(d, f) => type_matches(d.fields[f].v, def.fields[f])

\* An entry of an array that the payload names and that is private admits only
\* the origins of its own list.
authorize(def, d, a) ==
    a.kind \in DOMAIN def.auth =>
        LET rule == def.auth[a.kind]
            want == eval_template(a, rule.match)
        IN  \A i \in DOMAIN current_array(d, rule.field) :
                LET entry == current_array(d, rule.field)[i][2]
                IN  entry.name = want /\ entry.visibility = Str("private")
                        => \E j \in DOMAIN entry.members[2] : entry.members[2][j] = Str(a.origin)

(***************************************************************************)
(* Reducing an action: every write becomes an op on its field, settled by  *)
(* the per-field merge; a write of `__name__` becomes the document's name. *)
(***************************************************************************)
NoValues == [k \in Key |-> Absent @@ [v |-> Null]]
NewState == [NewDoc EXCEPT !.fields = NoValues]

OpOn(a, f) == [kind |-> "set", key |-> f, ts |-> a.ts, origin |-> a.origin, clock |-> a.clock]

reduce(def, d, a) ==
    LET writes == def.reducers[a.kind].writes
    IN  [f \in DOMAIN writes |-> write_value(d, a, f, writes[f])]

\* Every op of the action stands for itself: a field that refuses one does not
\* stop the others.
apply_ops_to_entry(def, d, a) ==
    LET ops     == reduce(def, d, a)
        changed == {f \in DOMAIN ops \ {"__name__"} : FieldChanges(d.fields[f], OpOn(a, f))}
    IN  [name    |-> IF "__name__" \in DOMAIN ops THEN ops["__name__"][2] ELSE d.name,
         fields  |-> [f \in changed |-> FieldFromOp(OpOn(a, f)) @@ [v |-> ops[f]]] @@ d.fields,
         deleted |-> d.deleted,
         clock   |-> MergeClock(d.clock, a.clock)]

(***************************************************************************)
(* The built-in definitions.                                               *)
(***************************************************************************)
Member       == [member |-> "string"]
Item         == [item |-> "object"]
Empty        == <<"set", Literal(Arr(<<>>))>>
SetTo(f)     == <<"set", Payload(f)>>
Appends(t)   == <<"append", t>>
ByManagers   == {[is |-> "actor-in", arg |-> "managers"]}
ByMembers    == {[is |-> "actor-in", arg |-> "members"]}
TwoMembers   == {[is |-> "quorum", group |-> "$self", min |-> 2, field |-> "members"]}
InSpace(l)   == {[is |-> "space-member", list |-> l]}
General      == Obj([name |-> Str("general"), visibility |-> Str("public"),
                     members |-> Arr(<<>>)])

Membership ==
    "add-member" :> Reducer(Member, [members |-> Appends(Payload("member"))], ByManagers) @@
    "remove-member" :> Reducer(Member, [members |-> <<"remove", Payload("member")>>], ByManagers) @@
    "add-manager" :> Reducer(Member, [members  |-> Appends(Payload("member")),
                                      managers |-> Appends(Payload("member"))], TwoMembers)

group_def ==
    [name   |-> "group",
     fields |-> [members |-> "string[]", managers |-> "string[]", msg_from |-> "string[]",
                 msg_text |-> "string[]", msg_ts |-> "number[]", msg_channel |-> "string[]",
                 channels |-> "array", drive |-> "array"],
     checks |-> <<>>,
     auth   |-> [post |-> [field |-> "channels", match |-> Payload("channel")]],
     reducers |->
        Membership @@
        "init" :> Reducer([name |-> "string", members |-> "string[]", managers |-> "string[]"],
            "__name__" :> SetTo("name") @@
            [members |-> SetTo("members"), managers |-> SetTo("managers"),
             msg_from |-> Empty, msg_text |-> Empty, msg_ts |-> Empty, msg_channel |-> Empty,
             channels |-> <<"set", Literal(Arr(<<General>>))>>, drive |-> Empty], {}) @@
        "post" :> Reducer([text |-> "string", channel |-> "string"],
            [msg_from |-> Appends(Actor), msg_text |-> Appends(Payload("text")),
             msg_ts |-> Appends(Ts), msg_channel |-> Appends(Payload("channel"))], ByMembers) @@
        "add-channel" :> Reducer(Item, [channels |-> Appends(Payload("item"))], ByMembers) @@
        "remove-channel" :> Reducer([channels |-> "array"], [channels |-> SetTo("channels")],
                                    ByManagers) @@
        "add-folder" :> Reducer(Item, [drive |-> Appends(Payload("item"))], ByMembers) @@
        "add-doc" :> Reducer(Item, [drive |-> Appends(Payload("item"))], ByMembers) @@
        "remove-item" :> Reducer([drive |-> "array"], [drive |-> SetTo("drive")], ByManagers)]

space_def ==
    [name   |-> "space",
     fields |-> [visibility |-> "string", members |-> "string[]", managers |-> "string[]",
                 apps |-> "array"],
     checks |-> <<>>, auth |-> <<>>,
     reducers |->
        Membership @@
        "init" :> Reducer([name |-> "string", visibility |-> "string", members |-> "string[]",
                           managers |-> "string[]"],
            "__name__" :> SetTo("name") @@
            [visibility |-> SetTo("visibility"), members |-> SetTo("members"),
             managers |-> SetTo("managers"), apps |-> Empty], {}) @@
        "enable-app" :> Reducer(Item, [apps |-> Appends(Payload("item"))], ByManagers) @@
        "disable-app" :> Reducer([apps |-> "array"], [apps |-> SetTo("apps")], ByManagers)]

chat_def ==
    [name   |-> "chat",
     fields |-> [channel |-> "string", msg_from |-> "string[]", msg_text |-> "string[]",
                 msg_ts |-> "number[]"],
     checks |-> <<>>, auth |-> <<>>,
     reducers |->
        "init" :> Reducer([name |-> "string", channel |-> "string"],
            "__name__" :> SetTo("name") @@
            [channel |-> SetTo("channel"), msg_from |-> Empty, msg_text |-> Empty,
             msg_ts |-> Empty], InSpace("members")) @@
        "post" :> Reducer([text |-> "string"],
            [msg_from |-> Appends(Actor), msg_text |-> Appends(Payload("text")),
             msg_ts |-> Appends(Ts)], InSpace("members"))]

drive_def ==
    [name   |-> "drive",
     fields |-> [items |-> "array"],
     checks |-> <<>>, auth |-> <<>>,
     reducers |->
        "init" :> Reducer([name |-> "string"],
            "__name__" :> SetTo("name") @@ [items |-> Empty], InSpace("members")) @@
        "add-item" :> Reducer(Item, [items |-> Appends(Payload("item"))], InSpace("members")) @@
        "remove-item" :> Reducer([items |-> "array"], [items |-> SetTo("items")],
                                 InSpace("managers"))]

package_def ==
    [name   |-> "package",
     fields |-> [publishers |-> "string[]", manifest |-> "string", status |-> "string"],
     checks |-> <<>>, auth |-> <<>>,
     reducers |->
        "init" :> Reducer([name |-> "string", manifest |-> "string"],
            "__name__" :> SetTo("name") @@
            [publishers |-> Appends(Actor), manifest |-> SetTo("manifest"),
             status |-> <<"set", Literal(Str("published"))>>], {}) @@
        "withdraw" :> Reducer([reason |-> "string"],
            [status |-> <<"set", Literal(Str("withdrawn"))>>],
            {[is |-> "actor-in", arg |-> "publishers"],
             [is |-> "field-is", arg |-> "status", value |-> Str("published")]})]

\* The registry of built-in models, by name.
Builtins == [group |-> group_def, space |-> space_def, chat |-> chat_def,
             drive |-> drive_def, package |-> package_def]
=============================================================================

------------------------------- MODULE Console -------------------------------
(***************************************************************************)
(* The settings server and the single writer behind it (settings/mod.rs,   *)
(* settings/spaces.rs, settings/migrate.rs, settings/inbox.rs, the document *)
(* commands of daemon.rs, the creation paths of store.rs), on one node.     *)
(*                                                                         *)
(* A request handler may answer at once, or send a command down the queue  *)
(* and wait for the reply, which the daemon's loop produces one command at *)
(* a time; a handler that has waited too long answers without it, and the  *)
(* command stays in the queue.  Some handlers send a second command after  *)
(* the first one's reply.  The migration of a group does not use the queue:*)
(* it calls the store itself, step by step, beside the daemon's loop.      *)
(*                                                                         *)
(* A document keeps its place (name, space), the local node's roles in it, *)
(* and its lists; its log is the Store module's.  Peers create, name,      *)
(* change and delete documents between any two steps.  The name index has  *)
(* one entry for each name, which the document of that name to which an    *)
(* action was applied last has.                                            *)
(***************************************************************************)
EXTENDS Integers, Sequences, FiniteSets, SequencesExt

CONSTANTS
    Requests,    \* what is asked for over HTTP or by the command line, each once
    Groups,      \* names of groups that are there from before, in order
    Plugins,     \* installed packages: name -> the set of <<model, kind>> it may write
    Borrowed,    \* <<name, model>> of the documents that peers create
    Needy,       \* the models whose documents an attention rule puts in the inbox
    MaxOpen,     \* bound: handlers at work at the same time
    MaxDocs,     \* bound: documents with fresh ids
    MaxRemote    \* bound: changes by peers

NoDoc    == 0
NoSpace  == <<>>
NoName   == <<"unnamed">>
Id       == 1..(2 * MaxDocs)
Field    == {"channels", "drive", "apps", "body"}
Models   == {"open", "group", "space", "chat", "drive", "folder", "note"}
Both     == {"member", "manager"}

\* Every name that a request can bring into the store.
NamesOf(r) ==
    {r.name} \union (IF r.api \in {"drive_doc", "drive_add"} THEN {r.file} ELSE {})
             \union (IF "called" \in DOMAIN r THEN {r.called} ELSE {})
             \union (IF r.api = "migrate" THEN {r.name \o <<c>> : c \in {"general", "drive", "ops", "dev"}}
                     ELSE {})
Name == UNION {NamesOf(r) : r \in Requests} \union Range(Groups) \union {b[1] : b \in Borrowed}

VARIABLES
    doc,     \* id -> entry
    names,   \* the name index
    made,    \* how many fresh ids have been given out
    queue,   \* commands sent and not yet executed
    req,     \* request -> its handler
    up,      \* the daemon's loop is running
    remote,  \* how often peers have changed something
    unasked, \* history: names given to a document without asking the index for them
    lost     \* history: names whose document was deleted, other than by its migration

store == <<doc, names, made, unasked, lost>>
vars  == <<store, queue, req, up, remote>>

NoEntry == [known |-> FALSE, name |-> NoName, model |-> "none", space |-> NoDoc, deleted |-> FALSE,
            roles |-> {}, list |-> [f \in Field |-> <<>>]]

Live(i)    == doc[i].known /\ ~ doc[i].deleted
Derived(i) == MaxDocs + i

\* Store::get: the index, unless the document is deleted.
get(n) == IF names[n] # NoDoc /\ Live(names[n]) THEN names[n] ELSE NoDoc

\* query_docs by model and name.
query_docs(model, n) == {i \in Id : Live(i) /\ doc[i].model = model /\ doc[i].name = n}

(***************************************************************************)
(* The store: each of these runs under its lock.  A result is the new store *)
(* and whether the caller is told OK.                                      *)
(***************************************************************************)
Refused == [doc |-> doc, names |-> names, made |-> made, unasked |-> unasked, lost |-> lost,
            ok |-> FALSE]
Stored(out) ==
    /\ doc' = out.doc /\ names' = out.names /\ made' = out.made
    /\ unasked' = out.unasked /\ lost' = out.lost

\* What an action makes of the fields; a deleted document stays as it is, and
\* deleting one clears them.
Reduced(e, kind, field, value) ==
    IF e.deleted THEN e
    ELSE CASE kind = "append" -> [e EXCEPT !.list[field] = Append(@, value)]
           [] kind = "set"    -> [e EXCEPT !.list[field] = value]
           [] kind = "name"   -> [e EXCEPT !.name = value]
           [] kind = "delete" -> [NoEntry EXCEPT !.known = TRUE, !.name = e.name, !.space = e.space,
                                                 !.model = e.model, !.deleted = TRUE]

\* The end of apply_action: e is document i from now on.  A live one takes its
\* name from whoever has it, a deleted one gives it up.
Applied(i, e) ==
    [doc     |-> [doc EXCEPT ![i] = e],
     names   |-> IF e.name = NoName THEN names
                 ELSE IF ~ e.deleted THEN [names EXCEPT ![e.name] = i]
                 ELSE [names EXCEPT ![e.name] = IF @ = i THEN NoDoc ELSE @],
     made    |-> IF i <= MaxDocs /\ i > made THEN i ELSE made,
     unasked |-> IF doc[i].known /\ e.name # doc[i].name THEN unasked \union {e.name} ELSE unasked,
     lost    |-> IF e.deleted THEN lost \union {n \in Name : names[n] = i} ELSE lost,
     ok      |-> TRUE]

\* open@1 has no init; chat@1 and drive@1 are started by members of their space.
InitAllowed(model, space) ==
    /\ model \in Models \ {"open"}
    /\ model \in {"chat", "drive"} => space # NoDoc /\ "member" \in doc[space].roles

\* A new document of that model, as its first action leaves it.
Born(model, space, called) ==
    [NoEntry EXCEPT !.known = TRUE, !.space = space, !.model = model, !.name = called,
                    !.roles = IF model \in {"group", "space"} THEN Both ELSE {},
                    !.list["channels"] = IF model = "group" THEN <<"general">> ELSE <<>>]

\* The entry is there before its first action is checked, and stays when that
\* one is refused.
Creates(model, space, n, called) ==
    LET i == made + 1
    IN  IF ~ InitAllowed(model, space)
        THEN [Refused EXCEPT !.doc[i] = [NoEntry EXCEPT !.known = TRUE, !.space = space], !.made = i]
        ELSE [Applied(i, Born(model, space, called)) EXCEPT !.unasked = @ \union ({called} \ {n})]

\* The index is asked for the request's name; the document's own name is the
\* one in the payload, for which nothing is asked.
create_doc_in_space(n, called, model, space) ==
    IF names[n] # NoDoc THEN Refused ELSE Creates(model, space, n, called)

\* open@1: created under the name that was asked for, then one action for each
\* field, __name__ if it is one of them; the name asked for is indexed as well.
create_doc(n, called) ==
    IF names[n] # NoDoc THEN Refused
    ELSE [Applied(made + 1, Born("open", NoDoc, called))
             EXCEPT !.names[n] = made + 1, !.unasked = @ \union ({called} \ {n})]

\* A space document lives in itself; the migration chooses its id.
create_space_at(i, n, roles) ==
    IF names[n] # NoDoc \/ doc[i].known THEN Refused
    ELSE Applied(i, [Born("space", i, n) EXCEPT !.roles = roles])

\* The role a reducer asks of its actor; open@1 and the models without lists of
\* people ask none.
RolesFor(model, field, kind) ==
    IF model \notin {"group", "space"} THEN {}
    ELSE IF kind = "set" \/ field = "apps" THEN {"manager"} ELSE {"member"}

\* Any kind of action on the document that has the name, under the model the
\* caller names and not the one the document was created with.
apply_local_action(cmd) ==
    LET i == names[cmd.name]
    IN  IF i = NoDoc THEN Refused
        ELSE IF ~ (RolesFor(cmd.model, cmd.field, cmd.kind) \subseteq doc[i].roles) THEN Refused
        ELSE Applied(i, Reduced([doc[i] EXCEPT !.model = cmd.model], cmd.kind, cmd.field, cmd.value))

(***************************************************************************)
(* The daemon's loop.                                                      *)
(***************************************************************************)
execute_command(cmd) ==
    CASE cmd.do = "CreateDocModel" ->
            IF cmd.space # NoSpace /\ get(cmd.space) = NoDoc THEN Refused
            ELSE create_doc_in_space(cmd.name, cmd.called, cmd.model,
                                     IF cmd.space = NoSpace THEN NoDoc ELSE get(cmd.space))
      [] cmd.do = "CreateDoc"    -> create_doc(cmd.name, cmd.called)
      [] cmd.do = "CreateSpace"  -> create_space_at(made + 1, cmd.name, Both)
      [] cmd.do = "CreateAction" -> apply_local_action(cmd)

\* The reply is dropped when its handler no longer waits for this command.
Execute ==
    /\ up /\ queue # <<>>
    /\ made < MaxDocs
    /\ \E out \in {execute_command(Head(queue).cmd)}, r \in {Head(queue).req} :
        /\ Stored(out)
        /\ req' = [req EXCEPT ![r].reply =
                      IF req[r].st = "wait" /\ req[r].sent = Head(queue).nr
                      THEN (IF out.ok THEN "ok" ELSE "err") ELSE req[r].reply]
    /\ queue' = Tail(queue)
    /\ UNCHANGED <<up, remote>>

\* The loop ends; what is queued is dropped with its reply channels.
Stop ==
    /\ up /\ up' = FALSE
    /\ queue' = <<>>
    /\ UNCHANGED <<store, req, remote>>

(***************************************************************************)
(* Handlers: the first step.                                               *)
(***************************************************************************)
CreateDocModel(n, called, model, space) ==
    [do |-> "CreateDocModel", name |-> n, called |-> called, model |-> model, space |-> space]
CreateDoc(n, called) == [do |-> "CreateDoc", name |-> n, called |-> called]
CreateAction(n, model, field, kind, value) ==
    [do |-> "CreateAction", name |-> n, model |-> model, field |-> field, kind |-> kind,
     value |-> value]
Without(q, x) == SelectSeq(q, LAMBDA y : y # x)

\* Is the app in the list of the space of that name?
app_enabled_in(space, app) ==
    \E i \in query_docs("space", space) : app \in Range(doc[i].list["apps"])

\* A plugin writes what its manifest declares, in a space where it is enabled.
PluginMay(r) ==
    /\ r.plugin \in DOMAIN Plugins
    /\ <<r.model, r.kind>> \in Plugins[r.plugin]
    /\ r.space # NoSpace => app_enabled_in(r.space, r.plugin)

\* The command that each kind of request sends first, if it is not turned away.
\* r.called is the name in the payload of a request, where it brings its own.
\* The command line goes through the server too, and looks for the daemon first.
add_doc(r)       == {IF r.model = "none" THEN CreateDoc(r.name, r.called)
                     ELSE CreateDocModel(r.name, r.called, r.model, NoSpace)}
doc_command(r)   == {c \in add_doc(r) : up}
create_group(r)  == {CreateDocModel(r.name, r.name, "group", NoSpace)}
create_folder(r) == {CreateDocModel(r.name, r.name, "folder", NoSpace)}
space_doc(r)     == {CreateDocModel(r.name, r.called, r.model, r.space)}
create_space(r)  == {[do |-> "CreateSpace", name |-> r.name]}
action_doc(r)    == {CreateAction(r.name, r.model, r.field, r.kind, r.item)}
folder_action(r) == {CreateAction(r.name, "folder", r.field, r.kind, r.item)}
space_action(r)  == {CreateAction(r.name, "space", r.field, r.kind, r.item)}
channel_add(r)   == {CreateAction(r.name, "group", "channels", "append", r.item)}
drive_folder(r)  == {CreateAction(r.name, "group", "drive", "append", <<r.item>>)}
drive_doc(r)     == {CreateDocModel(r.file, r.file, r.model, NoSpace)}
drive_add(r)     == {CreateDocModel(r.file, r.file, "note", NoSpace)}
enable_app(r)    == {CreateAction(r.name, "space", "apps", "append", a) :
                        a \in {r.item} \intersect DOMAIN Plugins}
plugin_action(r) == {c \in {IF r.kind = "init" THEN CreateDocModel(r.name, r.called, r.model, r.space)
                            ELSE CreateAction(r.name, r.model, r.field, r.kind, r.item)} : PluginMay(r)}

\* Removing an item reads the list now and sends what is left of it.
set_group_field(r, field, value) == CreateAction(r.name, "group", field, "set", value)
channel_remove(r) ==
    {set_group_field(r, "channels", Without(doc[i].list["channels"], r.item)) :
        i \in {get(r.name)} \ {NoDoc}}
drive_remove(r) ==
    {set_group_field(r, "drive", Without(doc[i].list["drive"], <<r.item>>)) :
        i \in {get(r.name)} \ {NoDoc}}
disable_app(r) ==
    {CreateAction(r.name, "space", "apps", "set", Without(doc[i].list["apps"], r.item)) :
        i \in query_docs("space", r.name)}

Commands(r) ==
    CASE r.api = "add_doc"        -> add_doc(r)
      [] r.api = "doc_command"    -> doc_command(r)
      [] r.api = "create_group"   -> create_group(r)
      [] r.api = "create_folder"  -> create_folder(r)
      [] r.api = "space_doc"      -> space_doc(r)
      [] r.api = "create_space"   -> create_space(r)
      [] r.api = "action_doc"     -> action_doc(r)
      [] r.api = "folder_action"  -> folder_action(r)
      [] r.api = "space_action"   -> space_action(r)
      [] r.api = "channel_add"    -> channel_add(r)
      [] r.api = "channel_remove" -> channel_remove(r)
      [] r.api = "drive_folder"   -> drive_folder(r)
      [] r.api = "drive_doc"      -> drive_doc(r)
      [] r.api = "drive_add"      -> drive_add(r)
      [] r.api = "drive_remove"   -> drive_remove(r)
      [] r.api = "enable_app"     -> enable_app(r)
      [] r.api = "disable_app"    -> disable_app(r)
      [] r.api = "plugin_action"  -> plugin_action(r)

Answered == {"ok", "err", "none"}
MayOpen == Cardinality({r \in Requests : req[r].st \notin Answered \union {"idle"}}) < MaxOpen

\* The answer to the request; one that comes too late counts as an error.
Ends(r, how) == req' = [req EXCEPT ![r].st = how, ![r].reply = "none"]

\* run_create_action, run_create_doc_in_space and the others: send and wait.
Sends(r, cmd) ==
    IF up
    THEN /\ queue' = Append(queue, [req |-> r, nr |-> req[r].sent + 1, cmd |-> cmd])
         /\ req' = [req EXCEPT ![r].st = "wait", ![r].sent = req[r].sent + 1, ![r].reply = "none"]
    ELSE Ends(r, "err") /\ UNCHANGED queue

Start(r) ==
    /\ req[r].st = "idle" /\ r.api # "migrate" /\ MayOpen
    /\ \/ \E cmd \in Commands(r) : Sends(r, cmd)
       \/ Commands(r) = {} /\ Ends(r, "err") /\ UNCHANGED queue
    /\ UNCHANGED <<store, up, remote>>

(***************************************************************************)
(* Handlers: the reply, or none.                                           *)
(***************************************************************************)
Files(r) == r.api \in {"drive_doc", "drive_add"} /\ req[r].sent = 1

\* drive_doc and drive_add: the document is listed once it has been created.
ListsNext(r) == Files(r) /\ req[r].reply = "ok"
Lists(r) == CreateAction(r.name, "group", "drive", "append", r.file)

Replied(r) ==
    /\ req[r].st = "wait" /\ req[r].reply # "none"
    /\ IF ListsNext(r)
       THEN Sends(r, Lists(r))
       ELSE Ends(r, req[r].reply) /\ UNCHANGED queue
    /\ UNCHANGED <<store, up, remote>>

\* Faulty variant: only the first wait is bounded.
Timeout_FirstOnly(r) ==
    /\ req[r].st = "wait" /\ req[r].reply = "none" /\ req[r].sent = 1
    /\ Ends(r, "err")
    /\ UNCHANGED <<store, queue, up, remote>>
\* Faulty variant: no answer is taken for a yes.
Timeout_Hopes(r) ==
    /\ req[r].st = "wait" /\ req[r].reply = "none"
    /\ IF Files(r) THEN Sends(r, Lists(r)) ELSE Ends(r, "err") /\ UNCHANGED queue
    /\ UNCHANGED <<store, up, remote>>
\* Ten seconds without a reply, or the reply channel dropped.
Timeout(r) ==
    /\ req[r].st = "wait" /\ req[r].reply = "none"
    /\ Ends(r, "err")
    /\ UNCHANGED <<store, queue, up, remote>>

(***************************************************************************)
(* The migration of a group, on the store itself.                          *)
(***************************************************************************)
At(r, step) == r.api = "migrate" /\ req[r].st = step
Goes(r, step) == req' = [req EXCEPT ![r].st = step]

\* plan_for: a snapshot of the group, and one chat for each of its channels.
plan_for(i, n) ==
    LET channels == IF doc[i].list["channels"] = <<>> THEN << "general" >>
                    ELSE doc[i].list["channels"]
    IN  [id |-> get(n), roles |-> doc[i].roles, channels |-> channels, chats |-> channels]

\* The groups of that name, one plan for each; nothing to migrate is a success
\* too.  Bound: a space that was made a group again is not migrated.
MigratePlan(r) ==
    /\ At(r, "idle") /\ MayOpen
    /\ \E old \in {query_docs("group", r.name)} :
        \/ /\ old # {} /\ get(r.name) \in 1..MaxDocs
           /\ req' = [req EXCEPT ![r].st = "check",
                                 ![r].plans = [k \in 1..Cardinality(old) |->
                                                 plan_for(SetToSeq(old)[k], r.name)]]
        \/ (old = {} \/ get(r.name) = NoDoc) /\ Goes(r, "none")
    /\ UNCHANGED <<store, queue, up, remote>>

Plan(r) == Head(req[r].plans)

\* One plan is done, well or not; the next one is begun.
Done(r, how) ==
    req' = [req EXCEPT ![r].st    = IF Len(req[r].plans) = 1 THEN how ELSE "check",
                       ![r].plans = IF Len(req[r].plans) = 1 THEN @ ELSE Tail(@)]

\* A space already there ends it.
MigrateCheck(r) ==
    /\ At(r, "check")
    /\ IF get(r.name) = Derived(Plan(r).id) THEN Done(r, "ok") ELSE Goes(r, "build")
    /\ UNCHANGED <<store, queue, up, remote>>

\* delete_doc builds the action under the lock and applies it under the lock,
\* and lets go of it in between.
MigrateBuild(r) ==
    /\ At(r, "build")
    /\ IF names[r.name] = NoDoc THEN Done(r, "err")
       ELSE req' = [req EXCEPT ![r].st = "retire", ![r].target = names[r.name]]
    /\ UNCHANGED <<store, queue, up, remote>>

\* What is lost with it is another document than the group that was planned for.
MigrateRetire(r) ==
    /\ At(r, "retire")
    /\ \E i \in {req[r].target} :
       \E out \in {Applied(i, Reduced([doc[i] EXCEPT !.model = "open"], "delete", "none", <<>>))} :
            Stored([out EXCEPT !.lost = IF i = Plan(r).id THEN lost \union (@ \ {r.name}) ELSE @])
    /\ req' = [req EXCEPT ![r].st = "space", ![r].target = NoDoc]
    /\ UNCHANGED <<queue, up, remote>>

MigrateSpace(r) ==
    /\ At(r, "space")
    /\ \E out \in {create_space_at(Derived(Plan(r).id), r.name, Plan(r).roles)} :
            Stored(out) /\ IF out.ok THEN Goes(r, "chats") ELSE Done(r, "err")
    /\ UNCHANGED <<queue, up, remote>>

\* Faulty variant: a chat that could not be created is passed over.
AfterChat_Skips(r, ok) == [Plan(r) EXCEPT !.chats = Tail(Plan(r).chats)]
\* What is left of the plan after a chat; all of it when the chat was refused.
AfterChat(r, ok) == IF ok THEN [Plan(r) EXCEPT !.chats = Tail(Plan(r).chats)] ELSE Plan(r)

MigrateChat(r) ==
    /\ At(r, "chats") /\ Plan(r).chats # <<>>
    /\ made < MaxDocs
    /\ \E n \in {r.name \o << Head(Plan(r).chats) >>} :
       \E out \in {create_doc_in_space(n, n, "chat", Derived(Plan(r).id))} :
        /\ Stored(out)
        /\ IF AfterChat(r, out.ok) = Plan(r) THEN Done(r, "err")
           ELSE req' = [req EXCEPT ![r].plans[1] = AfterChat(r, out.ok)]
    /\ UNCHANGED <<queue, up, remote>>

MigrateDrive(r) ==
    /\ At(r, "chats") /\ Plan(r).chats = <<>>
    /\ made < MaxDocs
    /\ \E n \in {r.name \o <<"drive">>} :
       \E out \in {create_doc_in_space(n, n, "drive", Derived(Plan(r).id))} :
            Stored(out) /\ Done(r, IF out.ok THEN "ok" ELSE "err")
    /\ UNCHANGED <<queue, up, remote>>

(***************************************************************************)
(* Peers.                                                                  *)
(***************************************************************************)
\* The store applies a peer's action like its own, under no check of names.
FromPeer(out) ==
    /\ remote < MaxRemote /\ remote' = remote + 1
    /\ Stored(out)
    /\ UNCHANGED <<queue, req, up>>

\* A node elsewhere creates a document, under whatever name.
PeerCreates(n, model, space) ==
    /\ made < MaxDocs
    /\ space # NoDoc => doc[space].model = "space"
    /\ FromPeer([Applied(made + 1, [Born(model, space, n) EXCEPT !.roles = {}])
                    EXCEPT !.unasked = @ \union {n}])

\* A member elsewhere adds a channel.
PeerAdds(i, c) ==
    /\ Live(i) /\ doc[i].model = "group"
    /\ c \notin Range(doc[i].list["channels"])
    /\ FromPeer(Applied(i, Reduced(doc[i], "append", "channels", c)))

\* A manager elsewhere takes this node off the members' list.
PeerRemovesUs(i) ==
    /\ "member" \in doc[i].roles
    /\ FromPeer(Applied(i, [doc[i] EXCEPT !.roles = @ \ {"member"}]))

\* Anyone elsewhere gives a document another name, or deletes it, with open@1.
PeerNames(i, n)  == Live(i) /\ FromPeer(Applied(i, Reduced(doc[i], "name", "none", n)))
PeerDeletes(i)   == Live(i) /\ FromPeer(Applied(i, Reduced(doc[i], "delete", "none", <<>>)))
-----------------------------------------------------------------------------
Init ==
    /\ doc = [i \in Id |->
                IF i \notin DOMAIN Groups THEN NoEntry
                ELSE [NoEntry EXCEPT !.known = TRUE, !.name = Groups[i], !.model = "group",
                                     !.roles = Both, !.list["channels"] = <<"general">>]]
    /\ names = [n \in Name |-> IF \E i \in DOMAIN Groups : Groups[i] = n
                               THEN CHOOSE i \in DOMAIN Groups : Groups[i] = n ELSE NoDoc]
    /\ made = Len(Groups)
    /\ queue = <<>> /\ up = TRUE /\ remote = 0
    /\ unasked = {} /\ lost = {}
    /\ req = [r \in Requests |-> [st |-> "idle", sent |-> 0, reply |-> "none",
                                  plans |-> <<>>, target |-> NoDoc]]

Migrates(r) ==
    \/ MigrateCheck(r) \/ MigrateBuild(r) \/ MigrateRetire(r)
    \/ MigrateSpace(r) \/ MigrateChat(r) \/ MigrateDrive(r)

Next ==
    \/ Execute \/ Stop
    \/ \E r \in Requests : Start(r) \/ Replied(r) \/ Timeout(r) \/ MigratePlan(r) \/ Migrates(r)
    \/ \E i \in Id : PeerAdds(i, "ops") \/ PeerRemovesUs(i) \/ PeerDeletes(i)
    \/ \E b \in Borrowed : \/ \E i \in Id : PeerNames(i, b[1])
                           \/ \E i \in Id \union {NoDoc} : PeerCreates(b[1], b[2], i)

\* The server runs every handler it has started, and timers fire; nothing is
\* assumed of the daemon's loop, of users or of peers.
Fairness == \A r \in Requests : WF_vars(Replied(r) \/ Timeout(r) \/ Migrates(r))
Spec == Init /\ [][Next]_vars /\ Fairness
-----------------------------------------------------------------------------
(***************************************************************************)
(* Properties.                                                             *)
(***************************************************************************)
\* A file that drive_doc or drive_add puts in a group's drive is a document of
\* the store by then, and it stays one until someone deletes a document of that
\* name: it is listed in a second command, after a reply that may be late.
FilesExist ==
    \A r \in Requests :
        r.api \in {"drive_doc", "drive_add"} /\ req[r].sent = 2 /\ r.file \notin lost
        => get(r.file) # NoDoc

\* The rows of the inbox: documents that match a rule, each with the space that
\* is found again by the document's name.
rows_for ==
    {[doc |-> i, space |-> doc[get(doc[i].name)].space] :
        i \in {j \in Id : /\ Live(j) /\ doc[j].model \in Needy
                         /\ doc[j].name # NoName /\ get(doc[j].name) # NoDoc
                         /\ doc[get(doc[j].name)].space # NoDoc}}


\* A migration that reports success has replaced the group by a space of its
\* name with a chat for every channel of the plan and a drive, all in that
\* space, whatever ran between its steps: of the names it uses, those that no
\* one gave away without asking and whose document no one deleted.
MigratedWhole ==
    \A r \in Requests :
        At(r, "ok") =>
            LET s == Derived(Plan(r).id)
                kept == Name \ (unasked \union lost)
                parts == {r.name \o <<c>> : c \in Range(Plan(r).channels) \union {"drive"}}
            IN  r.name \in kept =>
                /\ get(r.name) = s /\ ~ Live(Plan(r).id)
                /\ \A n \in parts \intersect kept : get(n) # NoDoc /\ doc[get(n)].space = s

\* Every request that is started is answered, also when the daemon's loop has
\* stopped between two of its commands (each request is made once).
RequestsAnswered ==
    <>[](\A r \in Requests : req[r].st \in {"idle"} \union Answered)

\* "a second run finds the space already there and stops, rather than deleting
\* a group whose replacement exists" (apply_one).
ReplacementKept ==
    [][\A r \in Requests, i \in Id :
          MigrateRetire(r) /\ i = req[r].target => doc[i].model # "space"]_vars
=============================================================================

-------------------------------- MODULE Feed --------------------------------
(***************************************************************************)
(* The doc-change feed of the store and what listens to it: the operator's *)
(* processors (processor.rs) and the projections of installed packages     *)
(* (projection.rs), which the daemon runs, and the read models and the job *)
(* queue of the views crate (views/src), which a program may run on top of *)
(* the same store.                                                         *)
(*                                                                         *)
(* A change of a document that an action makes by its own writes is sent to *)
(* the queue of each listener that has subscribed, and each listener works *)
(* through its queue in a task of its own, while documents go on changing. *)
(* A change that comes of a re-fold alone is sent to nobody.  Reactions and *)
(* projections create documents, which are changes again.  The queues are  *)
(* in memory.                                                              *)
(*                                                                         *)
(* An optional part of a record is a sequence of length at most one.  The  *)
(* by_model lists of the document view are left out: no query reads them.  *)
(* The entry that a refused creation leaves is left out as well.           *)
(***************************************************************************)
EXTENDS Integers, Sequences, FiniteSets, SequencesExt

CONSTANTS
    Deployments,     \* the sets of listeners that a program may run
    Standing,        \* the documents that are there from before
    Writes,          \* what users and peers do: [name, model, kind, set, unset, space]
    NAME_KEY,        \* the field that holds a document's name
    Null,            \* the value of a field that was deleted
    Commands,        \* what the operator asks of the processors
    Rules,           \* projections of the packages that may be installed
    Relations,       \* fields that hold another document's name: <<model, field>>
    Reference,       \* the processor that is there from the first start
    Filters,         \* the processors of the job queue, each by its filter
    HISTORY_CAP,     \* fires kept per processor
    JobCap,          \* the job queue's capacity
    MaxAttempts,     \* retries of a failed job
    MaxDocs, MaxWrites, MaxCommands, MaxInstalls, MaxFaults   \* bounds

\* The documents from before have names of their own; packages are finitely many.
ASSUME StandingAssumption ==
    /\ Standing \in Seq(Range(Standing))
    /\ \A i, j \in DOMAIN Standing : Standing[i].name = Standing[j].name => i = j

ASSUME RulesAssumption == IsFiniteSet(Rules)

VARIABLES
    deployed,    \* the listeners of this program
    doc,         \* the documents, in the order of their creation
    names,       \* the name index: name -> document
    given,       \* history: names that the index may hold for one of several documents
    moved,       \* history: names that a document was renamed from or to
    feed,        \* history: all changes so far
    inbox,       \* listener -> changes sent to it and not yet taken
    specs, specfile,   \* the processors in force, and their file
    cmds,        \* commands sent to the processors
    fires,       \* processor -> its latest fires
    job,         \* the change the processors are working on
    rules,       \* the projections of the packages installed now
    pub,         \* the change the projections are working on
    published,   \* history: documents made by projections
    phase,       \* how far the read models and the job queue have started
    view,        \* the read models
    missed,      \* history: documents whose latest change the read models were not sent
    jobs,        \* the job queue
    sending,     \* jobs the dispatcher has still to send
    retry,       \* the failed job the worker has to send again
    writes, asked, installs, faults

runnerVars == <<specs, specfile, cmds, fires, job>>
projVars   == <<rules, pub>>
viewVars   == <<view>>
jobVars    == <<jobs, sending, retry>>
counters   == <<writes, asked, installs, faults>>
storeVars  == <<doc, names, given, moved, feed, published, missed>>
vars == <<deployed, storeVars, inbox, runnerVars, projVars, phase, viewVars, jobVars, counters>>

Listeners == {"runner", "projector", "coordinator", "manager"}

-----------------------------------------------------------------------------
(* The store and its feed. *)

NoDoc == 0

\* Store::get goes by the name index, and hides a deleted document.
get(name) == {d \in DOMAIN doc : name \in DOMAIN names /\ names[name] = d /\ ~ doc[d].deleted}

\* The map f with the entries of g put over its own.
Over(f, g) == [x \in DOMAIN f \union DOMAIN g |-> IF x \in DOMAIN g THEN g[x] ELSE f[x]]

\* A write of one field says which; one of several fields, or an adopted
\* state, does not.
ChangeOf(d, e, kind, set) ==
    LET lone == kind # <<>> /\ Cardinality(DOMAIN set) = 1
        f    == CHOOSE g \in DOMAIN set : TRUE
    IN  [id |-> d, name |-> e.name, model |-> e.model, deleted |-> e.deleted, fields |-> e.fields,
         dead |-> e.dead, action_kind |-> kind,
         action_field |-> IF lone THEN <<f>> ELSE <<>>,
         action_value |-> IF lone THEN <<set[f]>> ELSE <<>>]

Subscribed(l) ==
    l \in deployed /\ (l \in {"coordinator", "manager"} => phase[l] = "on")

\* Document d is e from now on.  A live one takes its name from whoever has it,
\* a deleted one gives up the name it has.
Put(d, e) ==
    /\ doc' = IF d \in DOMAIN doc THEN [doc EXCEPT ![d] = e] ELSE Append(doc, e)
    /\ names' = IF e.deleted THEN [n \in {m \in DOMAIN names : ~ (m = e.name /\ names[m] = d)} |-> names[n]]
                ELSE Over(names, [n \in {e.name} |-> d])
    /\ given' = IF d \notin DOMAIN doc /\ e.name \in DOMAIN names THEN given \union {e.name} ELSE given
    /\ moved' = IF d \in DOMAIN doc /\ e.name # doc[d].name THEN moved \union {e.name, doc[d].name}
                ELSE moved

\* The change goes to every subscriber, with the document as it is now.
emit_change(d, e, kind, set) ==
    \E c \in {ChangeOf(d, e, kind, set)} :
       /\ Put(d, e)
       /\ feed' = Append(feed, c)
       /\ inbox' = [l \in Listeners |-> IF Subscribed(l) THEN Append(inbox[l], c) ELSE inbox[l]]
       /\ missed' = IF phase["coordinator"] = "primed" THEN missed \union {d} ELSE missed \ {d}

Entry(w) == [name |-> w.name, model |-> w.model, fields |-> w.set, dead |-> {}, deleted |-> FALSE,
             space |-> w.space]

\* create_doc_in_space: a name in the index is refused.
CanCreate(name) == name \notin DOMAIN names /\ Len(doc) < MaxDocs

\* A deleted document stays as it is, and deleting one clears its fields; a
\* deleted field keeps its place with no value; the name is lifted out.
After(e, w) ==
    IF e.deleted THEN e
    ELSE IF w.kind = <<"delete">> THEN [e EXCEPT !.deleted = TRUE, !.fields = <<>>, !.dead = {}]
    ELSE [e EXCEPT !.name   = IF NAME_KEY \in DOMAIN w.set THEN w.set[NAME_KEY] ELSE @,
                   !.fields = Over(@, [f \in (DOMAIN w.set \union w.unset) \ {NAME_KEY} |->
                                          IF f \in w.unset THEN Null ELSE w.set[f]]),
                   !.dead   = (@ \ DOMAIN w.set) \union w.unset]

Writable(d, w) == doc[d].name = w.name /\ doc[d].model = w.model

\* A user's or a peer's action.  The index is asked for a name by the node's own
\* creations only: a peer's document may have one that is in use.
Change(w) ==
    /\ writes < MaxWrites /\ writes' = writes + 1
    /\ \/ /\ w.kind = <<"init">> /\ Len(doc) < MaxDocs
          /\ emit_change(Len(doc) + 1, Entry(w), w.kind, w.set)
       \/ /\ w.kind # <<"init">>
          /\ \E d \in DOMAIN doc :
                /\ Writable(d, w) /\ w.unset \subseteq DOMAIN doc[d].fields
                /\ emit_change(d, After(doc[d], w), w.kind, w.set)
    /\ UNCHANGED <<deployed, published, runnerVars, projVars, phase, viewVars, jobVars, asked,
                   installs, faults>>

\* A peer's action that comes out of order and whose own writes lose: the log is
\* folded again, the document is another one, and no change is emitted.
Refold(w) ==
    /\ writes < MaxWrites /\ writes' = writes + 1
    /\ w.kind \notin {<<"init">>, <<"delete">>} /\ NAME_KEY \notin DOMAIN w.set /\ w.unset = {}
    /\ \E d \in DOMAIN doc :
          /\ Writable(d, w) /\ ~ doc[d].deleted
          /\ Put(d, After(doc[d], w))
          /\ missed' = missed \union {d}
    /\ UNCHANGED <<deployed, feed, published, inbox, runnerVars, projVars, phase, viewVars, jobVars,
                   asked, installs, faults>>

-----------------------------------------------------------------------------
(* The operator's processors. *)

\* ActionFilter::matches
matches(f, c) ==
    /\ f.models = {} \/ c.model \in f.models
    /\ f.action_kind = <<>> \/ f.action_kind = c.action_kind
    /\ f.field = <<>> \/ f.field = c.action_field
    /\ f.value = <<>> \/ f.value = c.action_value

substitute(template, name, model) ==
    FlattenSeq([i \in DOMAIN template |->
        CASE template[i] = "$doc"   -> name
          [] template[i] = "$model" -> <<model>>
          [] OTHER                  -> <<template[i]>>])

\* The API stamps a processor and leaves the rest to the runner.
Ask(cmd) ==
    /\ "runner" \in deployed
    /\ asked < MaxCommands /\ asked' = asked + 1
    /\ cmds' = Append(cmds, IF cmd.op = "set" THEN [cmd EXCEPT !.spec.created = asked + 1] ELSE cmd)
    /\ UNCHANGED <<deployed, storeVars, inbox, specs, specfile, fires, job, projVars, phase,
                   viewVars, jobVars, writes, installs, faults>>

set_spec(spec) ==
    LET at    == {i \in DOMAIN specs : specs[i].name = spec.name}
        all   == IF at = {} THEN Append(specs, spec)
                 ELSE [i \in DOMAIN specs |->
                          IF i \in at THEN [spec EXCEPT !.created = specs[i].created] ELSE specs[i]]
    IN  SortSeq(all, LAMBDA a, b : a.created < b.created)

remove_spec(name) == SelectSeq(specs, LAMBDA s : s.name # name)

\* One command, between two changes.
Command ==
    /\ job = <<>> /\ cmds # <<>>
    /\ specs' = IF Head(cmds).op = "set" THEN set_spec(Head(cmds).spec) ELSE remove_spec(Head(cmds).spec.name)
    /\ specfile' = specs'
    /\ cmds' = Tail(cmds)
    /\ UNCHANGED <<deployed, storeVars, inbox, fires, job, projVars, phase, viewVars, jobVars, counters>>

Take(l) == [inbox EXCEPT ![l] = Tail(@)]

Dispatch ==
    /\ job = <<>> /\ inbox["runner"] # <<>>
    /\ \E c \in {Head(inbox["runner"])} :
          \E todo \in {SelectSeq(specs, LAMBDA s : matches(s, c))} :
             job' = IF todo = <<>> THEN <<>> ELSE <<[change |-> c, todo |-> todo, running |-> FALSE]>>
    /\ inbox' = Take("runner")
    /\ UNCHANGED <<deployed, storeVars, specs, specfile, cmds, fires, projVars, phase, viewVars,
                   jobVars, counters>>

\* The reaction is over: its fire is recorded, and the next matching
\* processor is due.
Fired ==
    LET c == job[1].change
        s == job[1].todo[1]
        h == Append(fires[s.name], [doc |-> c.name, action |-> c.action_kind])
    IN  /\ fires' = [fires EXCEPT ![s.name] = IF Len(h) > HISTORY_CAP THEN Tail(h) ELSE h]
        /\ job' = IF Len(job[1].todo) = 1 THEN <<>>
                  ELSE <<[job[1] EXCEPT !.todo = Tail(@), !.running = FALSE]>>

Due(kind) == job # <<>> /\ ~ job[1].running /\ job[1].todo[1].reaction.kind = kind

LogOrEmit ==
    /\ Due("log") /\ Fired
    /\ UNCHANGED <<deployed, storeVars, inbox, specs, specfile, cmds, projVars, phase, viewVars,
                   jobVars, counters>>

\* The name is made with the reaction's own model, not with the document's; the
\* store may refuse, for the name or for the model or the payload.
CreateDoc ==
    /\ Due("create-doc") /\ Fired
    /\ \E r \in {job[1].todo[1].reaction} :
          \E name \in {substitute(r.name, job[1].change.name, r.model)} :
             \/ /\ CanCreate(name)
                /\ emit_change(Len(doc) + 1,
                               Entry([name |-> name, model |-> r.model, set |-> r.fields, space |-> NoDoc]),
                               <<"init">>, r.fields)
             \/ UNCHANGED <<doc, names, given, moved, feed, inbox, missed>>
    /\ UNCHANGED <<deployed, published, specs, specfile, cmds, projVars, phase, viewVars, jobVars, counters>>

RunCommand ==
    /\ Due("run")
    /\ job' = <<[job[1] EXCEPT !.running = TRUE]>>
    /\ UNCHANGED <<deployed, storeVars, inbox, specs, specfile, cmds, fires, projVars, phase,
                   viewVars, jobVars, counters>>

RunExits ==
    /\ job # <<>> /\ job[1].running /\ Fired
    /\ UNCHANGED <<deployed, storeVars, inbox, specs, specfile, cmds, projVars, phase, viewVars,
                   jobVars, counters>>

RunTimesOut_Never == FALSE
RunTimesOut ==
    /\ job # <<>> /\ job[1].running /\ Fired
    /\ UNCHANGED <<deployed, storeVars, inbox, specs, specfile, cmds, projVars, phase, viewVars,
                   jobVars, counters>>

-----------------------------------------------------------------------------
(* Projections. *)

Triggers(p, c) == c.model = p.from /\ c.action_kind = <<p.on>>

target_name(p, name) == name \o <<p.to>>

payload_Whole(p, c) == c.fields
payload(p, c) == [f \in (p.fields \intersect DOMAIN c.fields) \ c.dead |-> c.fields[f]]

\* Installing or removing a package changes the rules for what is taken next.
Install(p) ==
    /\ "projector" \in deployed
    /\ installs < MaxInstalls /\ installs' = installs + 1
    /\ rules' = IF p \in rules THEN rules \ {p} ELSE rules \union {p}
    /\ UNCHANGED <<deployed, storeVars, inbox, runnerVars, pub, phase, viewVars, jobVars, writes,
                   asked, faults>>

TakeForRules ==
    /\ pub = <<>> /\ inbox["projector"] # <<>>
    /\ \E c \in {Head(inbox["projector"])} :
          \E todo \in {SetToSeq({p \in rules : Triggers(p, c)})} :
             pub' = IF todo = <<>> THEN <<>> ELSE <<[change |-> c, todo |-> todo]>>
    /\ inbox' = Take("projector")
    /\ UNCHANGED <<deployed, storeVars, runnerVars, rules, phase, viewVars, jobVars, counters>>

\* run_one: skipped if the name is in use, the space is not there or the store
\* refuses, and never tried again.
Project ==
    /\ pub # <<>>
    /\ pub' = IF Len(pub[1].todo) = 1 THEN <<>> ELSE <<[pub[1] EXCEPT !.todo = Tail(@)]>>
    /\ \E c \in {pub[1].change}, p \in {pub[1].todo[1]} :
          \E name \in {target_name(p, c.name)}, body \in {payload(p, c)} :
             \/ \E space \in get(p.into) :
                  /\ CanCreate(name)
                  /\ emit_change(Len(doc) + 1,
                                 Entry([name |-> name, model |-> p.to, set |-> body, space |-> space]),
                                 <<"init">>, body)
                  /\ published' = published \union {[id |-> Len(doc) + 1, rule |-> p, source |-> c.id]}
             \/ UNCHANGED storeVars /\ UNCHANGED inbox
    /\ UNCHANGED <<deployed, runnerVars, rules, phase, viewVars, jobVars, counters>>

-----------------------------------------------------------------------------
(* Read models. *)

NoView == [by_id |-> <<>>, by_name |-> <<>>, edges |-> <<>>]

Snapshot(d, e) == [id |-> d, name |-> e.name, model |-> e.model, fields |-> e.fields, deleted |-> e.deleted]
from_change(c) == Snapshot(c.id, c)

\* RelationshipIndex::apply: the edges of a document, kept under its name.
Edges(s) ==
    IF s.deleted THEN {}
    ELSE {<<f, s.fields[f]>> :
             f \in {g \in DOMAIN s.fields : <<s.model, g>> \in Relations /\ s.fields[g] # Null}}

\* Faulty variant: the edges of an earlier state are not taken out first.
Applied_KeepsOld(v, s) ==
    [by_id   |-> Over(v.by_id, [d \in {s.id} |-> s]),
     by_name |-> Over(v.by_name, [n \in {s.name} |-> s.id]),
     edges   |-> Over(v.edges, [n \in {s.name} |->
                    Edges(s) \union (IF n \in DOMAIN v.edges THEN v.edges[n] ELSE {})])]
\* DocumentView::apply: the latest snapshot, and the name points to it.
Applied(v, s) ==
    [by_id   |-> Over(v.by_id, [d \in {s.id} |-> s]),
     by_name |-> Over(v.by_name, [n \in {s.name} |-> s.id]),
     edges   |-> Over(v.edges, [n \in {s.name} |-> Edges(s)])]

\* The documents taken by name, one of each name, in the order of their ids,
\* which says nothing of their age.
Indexes == {last \in [{doc[d].name : d \in DOMAIN doc} -> DOMAIN doc] :
               \A n \in DOMAIN last : doc[last[n]].name = n}

\* All documents applied, the one that `last` gives for a name as the last of
\* that name.
Primed(last) ==
    [by_id   |-> [d \in DOMAIN doc |-> Snapshot(d, doc[d])],
     by_name |-> last,
     edges   |-> [n \in DOMAIN last |-> Edges(Snapshot(last[n], doc[last[n]]))]]

\* The documents are read before the subscription is made.
Prime ==
    /\ "coordinator" \in deployed /\ phase["coordinator"] = "off"
    /\ \E last \in Indexes : view' = Primed(last)
    /\ phase' = [phase EXCEPT !["coordinator"] = "primed"]
    /\ missed' = {}
    /\ UNCHANGED <<deployed, doc, names, given, moved, feed, published, inbox, runnerVars, projVars, jobVars,
                   counters>>

Subscribe(l) ==
    /\ l \in deployed
    /\ \/ l = "coordinator" /\ phase[l] = "primed"
       \/ l = "manager" /\ phase[l] = "off"
    /\ phase' = [phase EXCEPT ![l] = "on"]
    /\ UNCHANGED <<deployed, storeVars, inbox, runnerVars, projVars, viewVars, jobVars, counters>>

Coordinate ==
    /\ inbox["coordinator"] # <<>>
    /\ view' = Applied(view, from_change(Head(inbox["coordinator"])))
    /\ inbox' = Take("coordinator")
    /\ UNCHANGED <<deployed, storeVars, runnerVars, projVars, phase, jobVars, counters>>

\* The queries.
find(model) == {s \in Range(view.by_id) : ~ s.deleted /\ s.model = model}
exists(name) ==
    name \in DOMAIN view.by_name /\ ~ view.by_id[view.by_name[name]].deleted
EdgesOf(name) == IF name \in DOMAIN view.edges THEN view.edges[name] ELSE {}
outgoing(name, field) == {e[2] : e \in {x \in EdgesOf(name) : x[1] = field}}

-----------------------------------------------------------------------------
(* The job queue: one task sends jobs, another works on them and sends the *)
(* failed ones again, down the same bounded queue.                         *)

Enlist ==
    /\ sending = <<>> /\ inbox["manager"] # <<>>
    /\ \E c \in {Head(inbox["manager"])} :
          sending' = SetToSeq({[proc |-> i, snap |-> from_change(c), attempts |-> 0] :
                                  i \in {j \in DOMAIN Filters : matches(Filters[j], c)}})
    /\ inbox' = Take("manager")
    /\ UNCHANGED <<deployed, storeVars, runnerVars, projVars, phase, viewVars, jobs, retry, counters>>

SendJob ==
    /\ sending # <<>> /\ Len(jobs) < JobCap
    /\ jobs' = Append(jobs, Head(sending)) /\ sending' = Tail(sending)
    /\ UNCHANGED <<deployed, storeVars, inbox, runnerVars, projVars, phase, viewVars, retry, counters>>

Work(ok) ==
    /\ retry = <<>> /\ jobs # <<>>
    /\ jobs' = Tail(jobs)
    /\ retry' = IF ok \/ Head(jobs).attempts >= MaxAttempts THEN <<>>
                ELSE <<[Head(jobs) EXCEPT !.attempts = @ + 1]>>
    /\ UNCHANGED <<deployed, storeVars, inbox, runnerVars, projVars, phase, viewVars, sending, counters>>

SendRetry ==
    /\ retry # <<>> /\ Len(jobs) < JobCap
    /\ jobs' = Append(jobs, retry[1]) /\ retry' = <<>>
    /\ UNCHANGED <<deployed, storeVars, inbox, runnerVars, projVars, phase, viewVars, sending, counters>>

-----------------------------------------------------------------------------
\* Everything but the documents, the packages and the processors' file is
\* gone.  A crash while the file is written leaves it unreadable, which counts
\* as no processors.  The index is made again of all documents, the deleted ones
\* too, and of several of one name it holds the one that was read last.
Restart(torn) ==
    /\ faults < MaxFaults /\ faults' = faults + 1
    /\ torn => job = <<>> /\ cmds # <<>>
    /\ specfile' = IF torn THEN <<>> ELSE specfile
    /\ specs' = specfile'
    /\ inbox' = [l \in Listeners |-> <<>>]
    /\ cmds' = <<>> /\ job' = <<>> /\ pub' = <<>>
    /\ fires' = [n \in DOMAIN fires |-> <<>>]
    /\ phase' = [l \in {"coordinator", "manager"} |-> "off"]
    /\ view' = NoView /\ missed' = {}
    /\ jobs' = <<>> /\ sending' = <<>> /\ retry' = <<>>
    /\ names' \in Indexes
    /\ given' = given \union {n \in DOMAIN names' :
                              \E d, e \in DOMAIN doc : d # e /\ doc[d].name = n /\ doc[e].name = n}
    /\ UNCHANGED <<deployed, doc, moved, feed, published, rules, writes, asked, installs>>

Init ==
    /\ deployed \in Deployments
    /\ doc = [i \in DOMAIN Standing |-> Entry(Standing[i])] 
    /\ names = [n \in {Standing[i].name : i \in DOMAIN Standing} |->
                  CHOOSE i \in DOMAIN Standing : Standing[i].name = n]
    /\ given = {} /\ moved = {}
    /\ feed = <<>> /\ published = {} /\ missed = {}
    /\ inbox = [l \in Listeners |-> <<>>]
    /\ specs = <<Reference>> /\ specfile = specs
    /\ cmds = <<>> /\ job = <<>>
    /\ fires = [n \in {Reference.name} \union {c.spec.name : c \in Commands} |-> <<>>]
    /\ rules = {} /\ pub = <<>>
    /\ phase = [l \in {"coordinator", "manager"} |-> "off"]
    /\ view = NoView
    /\ jobs = <<>> /\ sending = <<>> /\ retry = <<>>
    /\ writes = 0 /\ asked = 0 /\ installs = 0 /\ faults = 0

\* What the listeners do by themselves.
Runner    == Command \/ Dispatch \/ LogOrEmit \/ CreateDoc \/ RunCommand \/ RunTimesOut
Projector == TakeForRules \/ Project
Reader    == Prime \/ Subscribe("coordinator") \/ Coordinate
Manager   == Subscribe("manager") \/ Enlist \/ SendJob
Worker    == SendRetry \/ \E ok \in BOOLEAN : Work(ok)

Next ==
    \/ \E w \in Writes : Change(w) \/ Refold(w)
    \/ \E cmd \in Commands : Ask(cmd)
    \/ \E p \in Rules : Install(p)
    \/ Runner \/ RunExits \/ Projector \/ Reader \/ Manager \/ Worker
    \/ \E torn \in BOOLEAN : Restart(torn)

\* Each task goes on; a command that was started may hang for good.
Fairness ==
    WF_vars(Runner) /\ WF_vars(Projector) /\ WF_vars(Reader) /\ WF_vars(Manager) /\ WF_vars(Worker)

Spec == Init /\ [][Next]_vars /\ Fairness

-----------------------------------------------------------------------------
(* Properties. *)

\* A published record carries no more than the fields its rule names, as they
\* were in its source at one triggering change, and lies in the space the rule
\* names; and no rule has two live records of one source, unless their names or
\* the source's were changed, or given to another document by a peer or by the
\* restart of a node that knew several of that name (run_one, payload).
PublishedNarrow ==
    /\ \A r \in published :
          /\ \E i, j \in DOMAIN feed :
                /\ feed[i].id = r.source /\ Triggers(r.rule, feed[i])
                /\ feed[j].id = r.id /\ feed[j].action_kind = <<"init">>
                /\ DOMAIN feed[j].fields \subseteq r.rule.fields
                /\ \A f \in DOMAIN feed[j].fields :
                      f \notin feed[i].dead /\ feed[j].fields[f] = feed[i].fields[f]
          /\ r.rule.into \notin moved => doc[doc[r.id].space].name = r.rule.into
    /\ \A r, q \in published :
          /\ r.rule = q.rule /\ r.source = q.source /\ r # q
          /\ {doc[r.source].name, doc[r.id].name, doc[q.id].name} \intersect moved = {}
          /\ {doc[r.id].name, doc[q.id].name} \intersect given = {}
          => doc[r.id].deleted \/ doc[q.id].deleted

\* The only document that has, or had, this one's name.
Sole(d) ==
    doc[d].name \notin moved /\ \A e \in DOMAIN doc : doc[e].name = doc[d].name => e = d

\* Once the read models have worked through the feed they answer as the store
\* does: every document whose latest change they were sent is found, or not
\* found, with its latest fields, and one that has a name to itself by that name
\* and with its relations.  They are not sent a change that falls between the
\* snapshot and the subscription, nor one that a re-fold makes
\* (ReadModelCoordinator::run, apply_action).
ViewCurrent ==
    phase["coordinator"] = "on" /\ inbox["coordinator"] = <<>> =>
       \A d \in DOMAIN doc \ missed :
          /\ d \in DOMAIN view.by_id /\ view.by_id[d] = Snapshot(d, doc[d])
          /\ (Snapshot(d, doc[d]) \in find(doc[d].model)) <=> ~ doc[d].deleted
          /\ Sole(d) =>
                /\ exists(doc[d].name) <=> ~ doc[d].deleted
                /\ \A rel \in Relations :
                      outgoing(doc[d].name, rel[2]) =
                         IF doc[d].deleted \/ <<doc[d].model, rel[2]>> \notin Relations THEN {}
                         ELSE {doc[d].fields[f] : f \in {g \in {rel[2]} \intersect DOMAIN doc[d].fields :
                                                            doc[d].fields[g] # Null}}

Idle ==
    /\ \A l \in Listeners : inbox[l] = <<>>
    /\ cmds = <<>> /\ job = <<>> /\ pub = <<>>
    /\ jobs = <<>> /\ sending = <<>> /\ retry = <<>>

\* The worker waits for room in the queue that only it empties.
Jammed == retry # <<>> /\ Len(jobs) = JobCap

\* Nothing stalls a listener but a job queue that is full when a failed job is
\* to be sent again: reactions that fail, hang or create documents, rules that
\* cannot publish and jobs that are retried all come to an end ("a bad reaction
\* must not stall the feed", perform).
FeedDrains == <>[](Idle \/ Jammed)
=============================================================================

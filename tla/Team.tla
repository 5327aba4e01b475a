-------------------------------- MODULE Team --------------------------------
(***************************************************************************)
(* Shared documents and who may change them: what the store admits when a  *)
(* member acts, when a proposal has been co-signed, and when an action     *)
(* arrives from a peer (store.rs apply_action steps 1 to 4, refold,        *)
(* may_peer_read; p2p/cosign.rs; model/space.rs).                          *)
(*                                                                         *)
(* Every node holds every document it was served.  An action is admitted   *)
(* where it arrives, against the documents as they are there at that time; *)
(* the document is then the fold of what was admitted, in canonical order. *)
(* Signatures are taken as given: an action names who signed it.           *)
(***************************************************************************)
EXTENDS L1

CONSTANTS
    DocId,        \* documents
    Scenes,       \* the sets of documents that a behaviour may be about
    ModelOf,      \* the built-in model each is written under
    SpaceOf,      \* the space each belongs to, or NoSpace
    Founder,      \* the node that creates it
    Founding,     \* and the payload of its init
    Requests,     \* the actions users ask for: [doc, kind, payload]
    Keys,         \* the nodes whose key each node holds
    FreshOnly,    \* proposals are submitted before their document changes
    MaxTs,        \* bound: timestamps, by scene
    MaxActions,   \* bound: actions built, by scene
    MaxProposals  \* bound: proposals among them

NoSpace == "none"
NoDoc == "nodoc"
NoHash == 0

ASSUME TeamAssumption ==
    /\ Scenes \subseteq SUBSET DocId
    /\ ModelOf \in [DocId -> DOMAIN Builtins]
    /\ SpaceOf \in [DocId -> DocId \union {NoSpace}]
    /\ Founder \in [DocId -> Origin] /\ Keys \in [Origin -> SUBSET Origin]

VARIABLES
    mem,     \* node -> [entry, names, hint]
    tokens,  \* proposals passed from hand to hand
    scene,   \* the documents of this behaviour
    built    \* how many actions have been signed; an action's number is its hash

vars == <<mem, tokens, scene, built>>

Def(d) == Builtins[ModelOf[d]]
Unknown == [known |-> FALSE, doc |-> NewState, log |-> <<>>, space |-> NoSpace]
CoSigners(a) == Range(a.cosig)
Held(n, d) == {mem[n].entry[d].log[i].id : i \in DOMAIN mem[n].entry[d].log}

(***************************************************************************)
(* Admission: apply_action up to the precondition.                         *)
(***************************************************************************)
\* Faulty variant: co-signatures are counted, not co-signers who are members.
Quorate_AnySigner(m, spec, a) == 1 + Len(a.cosig) >= spec.min

\* quorum_problem: `$self` is looked up by the document's own name.
Quorate(m, spec, a) ==
    LET name    == IF spec.group = "$self" THEN m.entry[a.doc].doc.name ELSE spec.group
        members == m.entry[m.names[name]].doc
    IN  /\ name # NoName
        /\ m.names[name] # NoDoc
        /\ Cardinality({p \in {a.origin} \union CoSigners(a) :
                            in_list(members, spec.field, p)}) >= spec.min

\* list_of the space that the action, or else the document, names.
OnSpaceList(m, list, a) ==
    LET space == IF a.space # NoSpace THEN a.space ELSE m.entry[a.doc].space
    IN  /\ space # NoSpace
        /\ m.entry[space].known
        /\ in_list(m.entry[space].doc, list, a.origin)

Admits(n, m, a) ==
    LET e == m.entry[a.doc]
    IN  /\ {a.origin} \union CoSigners(a) \subseteq Keys[n]
        /\ validate_payload(Def(a.doc), a.kind, a.payload)
        /\ \A q \in quorum(Def(a.doc), a.kind) : Quorate(m, q, a)
        /\ authorize(Def(a.doc), e.doc, a)
        /\ \A s \in requires_space_member(Def(a.doc), a.kind) : OnSpaceList(m, s.list, a)
        /\ e.log # <<>> => e.space = a.space

(***************************************************************************)
(* Applying: the fold in canonical order.                                  *)
(***************************************************************************)
CanonBefore(a, b) ==
    \/ a.ts < b.ts
    \/ a.ts = b.ts /\ a.origin < b.origin
    \/ a.ts = b.ts /\ a.origin = b.origin /\ a.id < b.id

\* Precondition and authorization at an action's canonical place.
Counts(d, doc, a) == check_precondition(Def(d), doc, a) /\ authorize(Def(d), doc, a)

\* The steps below are written as the set of their one result.
Folds(d, log) ==
    LET after[i \in 0..Len(log)] ==
            IF i = 0 THEN {NewState}
            ELSE {IF Counts(d, x, log[i]) THEN apply_ops_to_entry(Def(d), x, log[i]) ELSE x :
                    x \in after[i - 1]}
    IN  after[Len(log)]

refold(d, e) ==
    UNION {{[known |-> TRUE, log |-> log, space |-> log[1].space,
             doc |-> [x EXCEPT !.clock = e.doc.clock]] : x \in Folds(d, log)} :
                log \in {SortSeq(e.log, CanonBefore)}}

Logs(e, a) ==
    {[known |-> TRUE, log |-> Append(e.log, a), doc |-> apply_ops_to_entry(Def(a.doc), e.doc, a),
      space |-> IF e.log = <<>> THEN a.space ELSE e.space]}

\* Faulty variant: folded as it arrives.
Extends_ArrivalOrder(e, a) == Logs(e, a)

\* Applied and appended, and folded again when it is not the last in order.
Extends(e, a) ==
    IF e.log # <<>> /\ CanonBefore(a, Last(e.log))
    THEN UNION {refold(a.doc, x) : x \in Logs(e, a)}
    ELSE Logs(e, a)

\* A refusal by the precondition leaves an empty entry behind.
apply_action(n, m, a) ==
    IF ~ Admits(n, m, a) THEN {m}
    ELSE IF ~ check_precondition(Def(a.doc), m.entry[a.doc].doc, a)
    THEN {[m EXCEPT !.entry[a.doc].known = TRUE]}
    ELSE {[entry |-> [m.entry EXCEPT ![a.doc] = x],
           names |-> IF x.doc.name = NoName THEN m.names
                     ELSE [m.names EXCEPT ![x.doc.name] = a.doc],
           hint  |-> IF a.ts > m.hint THEN a.ts ELSE m.hint] : x \in Extends(m.entry[a.doc], a)}

(***************************************************************************)
(* The read gate.                                                          *)
(***************************************************************************)
visibility_of(doc) ==
    IF is_present(doc, "visibility") THEN doc.fields["visibility"].v ELSE Str("private")

may_peer_read(m, peer, d) ==
    LET e    == m.entry[d]
        gate == m.entry[e.space].doc
    IN  /\ e.known
        /\ e.space # NoSpace =>
              /\ m.entry[e.space].known
              /\ visibility_of(gate) # Str("private")
              /\ visibility_of(gate) = Str("public") \/ in_list(gate, "members", peer)

(***************************************************************************)
(* Operations.                                                             *)
(***************************************************************************)
build_action(n, d, kind, payload, space, t) ==
    [id |-> built + 1, doc |-> d, kind |-> kind, payload |-> payload,
     ts |-> t, origin |-> n, clock |-> Tick(mem[n].entry[d].doc.clock, n),
     cosig |-> <<>>, space |-> space,
     prev |-> IF mem[n].entry[d].log = <<>> THEN NoHash ELSE Last(mem[n].entry[d].log).id]

\* next_ts: the wall clock, but above every timestamp seen.
CanBuild(n, t) == t > mem[n].hint /\ built < MaxActions[scene]

\* A proposal of n that n does not hold yet: acting before it does gives the
\* new action the proposal's own clock.
Pending(n, d) == \E a \in tokens : a.origin = n /\ a.doc = d /\ a.id \notin Held(n, d)

Named(n, d) ==
    /\ mem[n].entry[d].log # <<>>
    /\ \E s \in Name : mem[n].entry[d].doc.name = s /\ mem[n].names[s] = d

\* Node n applies a, and does not refuse it.
Takes(n, a) ==
    \E m \in apply_action(n, mem[n], a) :
        /\ Len(m.entry[a.doc].log) > Len(mem[n].entry[a.doc].log)
        /\ mem' = [mem EXCEPT ![n] = m]

\* create_doc_in_space and create_space: under a free name; a space is its own.
Create(n, d, t) ==
    /\ CanBuild(n, t) /\ Founder[d] = n
    /\ Held(n, d) = {}
    /\ mem[n].names[Founding[d].name[2]] = NoDoc
    /\ \E a \in {build_action(n, d, "init", Founding[d], SpaceOf[d], t)} :
            Takes(n, a) /\ built' = built + 1
    /\ UNCHANGED <<tokens, scene>>

\* What n's user asks for, as an action on the document as n has it.
Asked(n, r, t) == build_action(n, r.doc, r.kind, r.payload, mem[n].entry[r.doc].space, t)
CanAsk(n, r, t) ==
    /\ CanBuild(n, t) /\ Named(n, r.doc)
    /\ FreshOnly => ~ Pending(n, r.doc)

\* apply_local_action; one that is refused leaves nothing but a used timestamp.
Act(n, r, t) ==
    /\ CanAsk(n, r, t)
    /\ \E a \in {Asked(n, r, t)} : Takes(n, a) /\ built' = built + 1
    /\ UNCHANGED <<tokens, scene>>

\* Propose: built and signed, and handed over as a token.
Propose(n, r, t) ==
    /\ CanAsk(n, r, t)
    /\ quorum(Def(r.doc), r.kind) # {}
    /\ Cardinality({x.id : x \in tokens}) < MaxProposals
    /\ mem' = [mem EXCEPT ![n].hint = t]
    /\ tokens' = tokens \union {Asked(n, r, t)}
    /\ built' = built + 1
    /\ UNCHANGED scene

\* decode: every signer's key is known.
Decodes(n, a) == {a.origin} \union CoSigners(a) \subseteq Keys[n]

\* add_cosig: neither the proposer nor one who has co-signed.
CoSign(n, a) ==
    /\ a \in tokens /\ Decodes(n, a)
    /\ n \notin {a.origin} \union CoSigners(a)
    /\ tokens' = tokens \union {[a EXCEPT !.cosig = Append(a.cosig, n)]}
    /\ UNCHANGED <<mem, scene, built>>

\* The proposal "must be applied before the document changes".
Fresh(n, a) ==
    a.prev = (IF mem[n].entry[a.doc].log = <<>> THEN NoHash ELSE Last(mem[n].entry[a.doc].log).id)

Submit(n, a) ==
    /\ a \in tokens /\ Decodes(n, a)
    /\ FreshOnly => Fresh(n, a)
    /\ a.id \notin Held(n, a.doc)
    /\ Takes(n, a)
    /\ UNCHANGED <<tokens, scene, built>>

\* catch_up: what n's clock does not cover, in the order of the peer's log.
Missing_Newest(n, m, d) ==
    LET log == mem[m].entry[d].log
    IN  IF Covers(mem[n].entry[d].doc.clock, mem[m].entry[d].doc.clock) THEN <<>>
        ELSE << Last(log) >>
Missing(n, m, d) ==
    SelectSeq(mem[m].entry[d].log,
              LAMBDA a : ~ Covers(mem[n].entry[d].doc.clock, a.clock))

\* apply_remote_action for each action of an answer in turn; a refused one is
\* dropped, and one that the clock covers changes nothing.
TakesRemote(n, answer) ==
    LET after[i \in 0..Len(answer)] ==
            IF i = 0 THEN {mem[n]}
            ELSE UNION {IF Covers(m.entry[answer[i].doc].doc.clock, answer[i].clock) THEN {m}
                        ELSE apply_action(n, m, answer[i]) : m \in after[i - 1]}
    IN  \E m \in after[Len(answer)] : mem' = [mem EXCEPT ![n] = m]

\* A peer that lets n read the document answers n's catch-up.
Pull(n, m, d) ==
    /\ n # m
    /\ may_peer_read(mem[m], n, d)
    /\ \E answer \in {Missing(n, m, d)} : TakesRemote(n, answer)
    /\ UNCHANGED <<tokens, scene, built>>

-----------------------------------------------------------------------------
Init ==
    /\ mem = [n \in Origin |-> [entry |-> [d \in DocId \union {NoSpace} |-> Unknown],
                                names |-> [s \in Name |-> NoDoc], hint |-> 0]]
    /\ tokens = {} /\ scene \in Scenes /\ built = 0

Next ==
    \/ \E n \in Origin, t \in 1..MaxTs[scene] :
        \/ \E d \in scene : Create(n, d, t)
        \/ \E r \in Requests : Act(n, r, t) \/ Propose(n, r, t)
    \/ \E n \in Origin, a \in tokens : CoSign(n, a) \/ Submit(n, a)
    \/ \E n, m \in Origin, d \in scene : Pull(n, m, d)

\* The engine's tick compares summaries with every peer again and again.
Fairness == \A n, m \in Origin, d \in DocId : WF_vars(Pull(n, m, d))
Spec == Init /\ [][Next]_vars /\ Fairness
-----------------------------------------------------------------------------
(***************************************************************************)
(* Properties.                                                             *)
(***************************************************************************)
\* Every document on every node has the types its model declares (check_state,
\* which the store never calls when it applies): the payload check and the
\* templates are enough to keep the schema.
SchemaHolds ==
    \A n \in Origin, d \in DocId : check_state(Def(d), mem[n].entry[d].doc)

\* Two nodes that admitted the same actions hold the same document, in
\* whatever order they arrived: list writes replace the whole array, so this
\* rests on refold and on the checks it repeats.
SameLogSameDoc ==
    \A n, m \in Origin, d \in DocId :
        Held(n, d) = Held(m, d) =>
            mem[n].entry[d].doc.fields = mem[m].entry[d].doc.fields

\* Everyone that the founder, or an action of the log other than a, has made a
\* member.
MadeMembers(n, a) ==
    {p \in Origin :
        \/ \E i \in DOMAIN Founding[a.doc].members[2] : Founding[a.doc].members[2][i] = Str(p)
        \/ \E b \in Range(mem[n].entry[a.doc].log) \ {a} :
                b.kind \in {"add-member", "add-manager"} /\ b.payload.member = Str(p)}

\* The two-person rule of group@1 and space@1: on no node is anyone a manager
\* whom the founder did not name and two different members did not make one,
\* whoever proposed, co-signed or submitted it and wherever it arrived first.
TwoPersonRule ==
    \A n \in Origin, d \in DocId, p \in Origin :
        /\ "managers" \in DOMAIN Founding[d]
        /\ in_list(mem[n].entry[d].doc, "managers", p)
        /\ \A i \in DOMAIN Founding[d].managers[2] : Founding[d].managers[2][i] # Str(p)
        => \E a \in Range(mem[n].entry[d].log) :
                /\ a.kind = "add-manager" /\ a.payload.member = Str(p)
                /\ Cardinality(({a.origin} \union CoSigners(a)) \intersect MadeMembers(n, a)) >= 2

\* "Messages are parallel arrays appended by one action, so they stay the same
\* length and in order" (chat_def), although each array is a field that merges
\* on its own.
MessagesAligned ==
    \A n \in Origin, d \in DocId :
        LET doc == mem[n].entry[d].doc
            L(f) == Len(current_array(doc, f))
        IN  L("msg_from") = L("msg_text") /\ L("msg_from") = L("msg_ts")

\* The documents that carry the list of those who may write them themselves.
Own == {d \in DocId : SpaceOf[d] \in {NoSpace, d}}

\* As long as nobody is removed, every node that may read such a document ends
\* up with the same one: what is refused because a grant has not arrived is
\* asked for again and admitted later (check_precondition and authorize on
\* arrival, catch_up by the clock).
GrantsConverge ==
    <>[]((\A n \in Origin, d \in Own :
             \A i \in DOMAIN mem[n].entry[d].log : mem[n].entry[d].log[i].kind # "remove-member") =>
            \A n, m \in Origin, d \in Own :
                may_peer_read(mem[m], n, d) =>
                    mem[n].entry[d].doc.fields = mem[m].entry[d].doc.fields)
=============================================================================

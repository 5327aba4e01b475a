----------------------------- MODULE ActionLog ------------------------------
(***************************************************************************)
(* One document's action log and the state folded from it                  *)
(* (src/src/store.rs: `Entry`, `canon_key`, `apply_ops_to_entry`,          *)
(* `refold`, `replay_doc`, `verify`).                                      *)
(*                                                                         *)
(* An action is a signed user request that its model reduces to ops.  The  *)
(* models here reduce an action to one op: the open@1 kinds of module Doc  *)
(* and "claim", a Level-1 reducer that sets a field under the precondition *)
(* `field-absent`.  Signatures, models that are not loaded, quorums and    *)
(* spaces do not occur: every action is one the checks before the          *)
(* precondition let through.                                               *)
(*                                                                         *)
(* An action's hash is its serial number `id`: the code compares hashes    *)
(* for equality and uses their order only between actions of one origin    *)
(* with one timestamp.                                                     *)
(***************************************************************************)
EXTENDS Doc, SequencesExt

CONSTANT DocId      \* document ids, as naturals: replay visits them in order

ASSUME DocIdAssumption == DocId \subseteq Nat \ {0} /\ IsFiniteSet(DocId)

NoHash == 0         \* `prev_hash` of a document's first action
NoKey == "no key"   \* the key of an action that writes no field

ActionKind == OpKind \cup {"claim"}

\* What a user asks for: a kind and its payload.
Request(kinds) ==
    [kind : kinds \cap {"set", "unset", "claim"}, key : Key, name : {NoName}]
        \cup [kind : kinds \cap {"drop"}, key : {NoKey}, name : {NoName}]
        \cup [kind : kinds \cap {"name"}, key : {NoKey}, name : Name]

Action == [id : Nat \ {NoHash}, doc : DocId, kind : ActionKind,
           key : Key \cup {NoKey}, name : Name \cup {NoName},
           ts : Nat, origin : Origin, clock : Clock, prev : Nat]

\* `Model::check_precondition` (`field-absent`; open@1 has none).
Precondition(d, a) ==
    a.kind = "claim" => d.fields[a.key].st # "live"

\* `Model::reduce`
OpOf(a) == [a EXCEPT !.kind = IF @ = "claim" THEN "set" ELSE @]

\* Faulty variant: timestamps alone.
CanonLess_ByTime(a, b) == a.ts < b.ts

\* `canon_key`: the order every node folds a log in.
CanonLess(a, b) ==
    \/ a.ts < b.ts
    \/ a.ts = b.ts /\ a.origin < b.origin
    \/ a.ts = b.ts /\ a.origin = b.origin /\ a.id < b.id

\* The place of a log's i-th action in that order: the sort is stable.
Place(log, i) ==
    Cardinality({j \in DOMAIN log :
                    \/ CanonLess(log[j], log[i])
                    \/ ~ CanonLess(log[i], log[j]) /\ j <= i})

\* `sort_by_key(canon_key)`
Canonical(log) ==
    [k \in DOMAIN log |-> log[CHOOSE i \in DOMAIN log : Place(log, i) = k]]

-----------------------------------------------------------------------------
\* `known` is membership in the `entries` map.
Entry == [known : BOOLEAN, doc : DocState, log : Seq(Action)]

NewEntry == [known |-> FALSE, doc |-> NewDoc, log |-> <<>>]

\* A document's snapshot file: a state and the hash its log ended in.  A
\* missing file and one that does not parse read the same.
NoSnap == [written |-> FALSE, doc |-> NewDoc, top |-> NoHash]

Snap == [written : BOOLEAN, doc : DocState, top : Nat]

\* `apply_ops_to_entry`
Reduce(d, a) == ApplyOp(d, OpOf(a))

Applies(d, a) == OpApplies(d, OpOf(a))

\* `refold`: from the snapshot, in canonical order, each precondition checked
\* where its action stands.  The clock is left as it was.
FoldStep(d, a) == IF Precondition(d, a) THEN Reduce(d, a) ELSE d

Fold(base, log) ==
    LET after[i \in 0..Len(log)] ==
            IF i = 0 THEN base ELSE FoldStep(after[i - 1], log[i])
    IN  after[Len(log)]

Refold(base, e) ==
    LET log == Canonical(e.log)
    IN  [known |-> e.known,
         doc   |-> [Fold(base, log) EXCEPT !.clock = e.doc.clock],
         log   |-> log]

\* Faulty variant: folded as it arrives.
Extend_ArrivalOrder(base, e, a) ==
    [known |-> TRUE, doc |-> Reduce(e.doc, a), log |-> Append(e.log, a)]

\* `apply_action`, step 4: apply, append, and fold again when the action's
\* canonical place is not the end of the log.
Extend(base, e, a) ==
    LET next == [known |-> TRUE, doc |-> Reduce(e.doc, a), log |-> Append(e.log, a)]
    IN  IF e.log # <<>> /\ CanonLess(a, Last(e.log))
        THEN Refold(base, next)
        ELSE next

\* `replay_doc`: the entry a restarted node builds from a document's files.
\* Every action of the WAL is reduced, the ones that changed nothing are left
\* out of the log, and a document nothing is known of gets no entry.
ReplayStep(e, a) ==
    [known |-> e.known,
     doc   |-> Reduce(e.doc, a),
     log   |-> IF Applies(e.doc, a) THEN Append(e.log, a) ELSE e.log]

ReplayOver(base, log) ==
    LET after[i \in 0..Len(log)] ==
            IF i = 0 THEN [known |-> TRUE, doc |-> base, log |-> <<>>]
            ELSE ReplayStep(after[i - 1], log[i])
    IN  after[Len(log)]

\* Faulty variant: the snapshot file is not read.
Replay_LogOnly(snap, alog) == ReplayOver(NewDoc, Canonical(alog))

Replay(snap, alog) ==
    LET e == ReplayOver(snap.doc, Canonical(alog))
        empty == /\ e.doc.name = NoName
                 /\ e.doc.fields = NoFields
                 /\ e.log = <<>>
                 /\ ~ e.doc.deleted
    IN  IF empty THEN NewEntry ELSE e

-----------------------------------------------------------------------------
\* What a reader of the document sees.
View(d) == [name |-> d.name, fields |-> d.fields, deleted |-> d.deleted]

\* The hashes of a log's first i actions, after the snapshot's.
SeenBefore(snap, log, i) ==
    {log[j].id : j \in 1..(i - 1)} \cup ({snap.top} \ {NoHash})

\* `verify`, the hash chain: an action names an action before it, and only
\* the first names none.
ChainHolds(snap, log) ==
    \A i \in DOMAIN log :
        LET before == SeenBefore(snap, log, i)
        IN  IF log[i].prev = NoHash THEN before = {} ELSE log[i].prev \in before

\* `verify`, the re-fold: every precondition holds where its action stands
\* and the reduced field map is the stored one.
RefoldHolds(snap, e) ==
    LET states[i \in 0..Len(e.log)] ==
            IF i = 0 THEN snap.doc ELSE Reduce(states[i - 1], e.log[i])
    IN  /\ \A i \in DOMAIN e.log : Precondition(states[i - 1], e.log[i])
        /\ states[Len(e.log)].name = e.doc.name
        /\ states[Len(e.log)].fields = e.doc.fields

Verifies(snap, e) == ChainHolds(snap, e.log) /\ RefoldHolds(snap, e)

=============================================================================

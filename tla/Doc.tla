-------------------------------- MODULE Doc ---------------------------------
(***************************************************************************)
(* The document and its per-field merge (src/src/doc.rs, `Field`, `Op`,    *)
(* `apply_op`).                                                            *)
(*                                                                         *)
(* A field keeps what the merge decides on: the write's timestamp, origin  *)
(* and version, and whether it is a value, a delete tombstone or missing   *)
(* from the map.  The JSON value itself is not kept: the write that set a  *)
(* field is told apart by its (ts, origin, version).                       *)
(*                                                                         *)
(* An op is one of                                                         *)
(*   "set"    key present, value present      (open@1 `set`)               *)
(*   "unset"  key present, no value           (open@1 `delete` of a field) *)
(*   "drop"   no key: delete the document     (open@1 `delete`)            *)
(*   "name"   a value for the reserved key `__name__`, which the store     *)
(*            lifts out of the field map after every application, so the   *)
(*            merge always finds that key missing.                         *)
(***************************************************************************)
EXTENDS VecClock

CONSTANTS Key,      \* field names, `__name__` excluded
          Name      \* document names

\* The name of a document no "name" op has reached (the empty string).
NoName == "unnamed"

ASSUME NameAssumption == NoName \notin Name

OpKind == {"set", "unset", "drop", "name"}

\* A key missing from the field map.
Absent == [st |-> "absent", ts |-> 0, origin |-> 0, version |-> ZeroClock]

Field == [st : {"live", "dead"}, ts : Nat, origin : Origin, version : Clock]
            \cup {Absent}

NoFields == [k \in Key |-> Absent]

\* Faulty variant: the op's kind is stored for the field's state.
FieldFromOp_KindAsState(op) ==
    [st |-> op.kind, ts |-> op.ts, origin |-> op.origin, version |-> op.clock]

\* `field_from_op`: a value, or a tombstone when the op carries none.
FieldFromOp(op) ==
    [st      |-> IF op.kind = "set" THEN "live" ELSE "dead",
     ts      |-> op.ts,
     origin  |-> op.origin,
     version |-> op.clock]

\* Faulty variant: no tie-break.
Wins_ByTime(op, f) == op.ts > f.ts

\* The total order concurrent writes are settled by: (ts, origin).
Wins(op, f) ==
    \/ op.ts > f.ts
    \/ op.ts = f.ts /\ op.origin > f.origin

\* Does a field op change the field?  A missing field takes any value and
\* ignores a delete; a present one skips what its version already covers,
\* takes what causally follows it, and settles the rest last-writer-wins.
FieldChanges(f, op) ==
    IF f.st = "absent"
    THEN op.kind = "set"
    ELSE /\ ~ Covers(f.version, op.clock)
         /\ Covers(op.clock, f.version) \/ Wins(op, f)

MergeField(f, op) == IF FieldChanges(f, op) THEN FieldFromOp(op) ELSE f

-----------------------------------------------------------------------------
\* The reduced state an op is applied to: `Doc`, its clock, `deleted`.
DocState == [name    : Name \cup {NoName},
             fields  : [Key -> Field],
             deleted : BOOLEAN,
             clock   : Clock]

NewDoc == [name |-> NoName, fields |-> NoFields,
           deleted |-> FALSE, clock |-> ZeroClock]

\* `ApplyResult.applied`
OpApplies(d, op) ==
    /\ ~ d.deleted
    /\ op.kind \in {"set", "unset"} => FieldChanges(d.fields[op.key], op)

\* Faulty variant: the clock is merged only by an op that applies.
ApplyOp_LazyClock(d, op) ==
    [name    |-> IF ~ d.deleted /\ op.kind = "name" THEN op.name ELSE d.name,
     fields  |-> IF d.deleted \/ op.kind = "name" THEN d.fields
                 ELSE IF op.kind = "drop" THEN NoFields
                 ELSE [d.fields EXCEPT ![op.key] = MergeField(d.fields[op.key], op)],
     deleted |-> d.deleted \/ op.kind = "drop",
     clock   |-> IF OpApplies(d, op) THEN MergeClock(d.clock, op.clock) ELSE d.clock]

\* Faulty variant: an op on a deleted document brings it back.
ApplyOp_Revives(d, op) ==
    [name    |-> IF op.kind = "name" THEN op.name ELSE d.name,
     fields  |-> IF op.kind \in {"name", "drop"} THEN NoFields
                 ELSE [d.fields EXCEPT ![op.key] = MergeField(d.fields[op.key], op)],
     deleted |-> op.kind = "drop",
     clock   |-> MergeClock(d.clock, op.clock)]

\* `apply_op`, then `lift_name`.  The clock merges the op's whole clock even
\* when the op itself changes nothing.
ApplyOp(d, op) ==
    [name    |-> IF ~ d.deleted /\ op.kind = "name" THEN op.name ELSE d.name,
     fields  |-> IF d.deleted \/ op.kind = "name" THEN d.fields
                 ELSE IF op.kind = "drop" THEN NoFields
                 ELSE [d.fields EXCEPT ![op.key] = MergeField(d.fields[op.key], op)],
     deleted |-> d.deleted \/ op.kind = "drop",
     clock   |-> MergeClock(d.clock, op.clock)]

=============================================================================

----------------------------- MODULE FieldMerge -----------------------------
(***************************************************************************)
(* Replicas that hold one document and fold every op into it as it         *)
(* arrives, with no log to re-order: the merge primitive of                *)
(* src/src/doc.rs on its own, as the store relies on it once a snapshot    *)
(* has truncated the log (src/src/store.rs, `apply_ops_to_entry`).         *)
(*                                                                         *)
(* Every replica is also an origin.  A local write ticks the document's    *)
(* clock and takes a timestamp above the replica's high-water mark         *)
(* (`build_action`, `next_ts`); the network delivers any op to any replica *)
(* in any order and any number of times, or never.                         *)
(***************************************************************************)
EXTENDS Doc, FiniteSets

CONSTANTS Kinds,    \* the op kinds the replicas issue
          MaxTs,    \* bound: the largest timestamp
          MaxOps    \* bound: ops issued in all

ASSUME FieldMergeAssumption ==
    /\ Kinds \subseteq OpKind \ {"name"}
    /\ MaxTs \in Nat
    /\ MaxOps \in Nat

VARIABLES issued,   \* every op some replica has issued
          doc,      \* doc[n]: replica n's reduced state
          hint,     \* hint[n]: replica n's timestamp high-water mark
          seen      \* seen[n]: the ops replica n has applied (history)

vars == <<issued, doc, hint, seen>>

Op == [kind : OpKind, key : Key, ts : Nat, origin : Origin, clock : Clock]

TypeOK ==
    /\ issued \subseteq Op
    /\ doc \in [Origin -> DocState]
    /\ hint \in [Origin -> Nat]
    /\ seen \in [Origin -> SUBSET issued]

Init ==
    /\ issued = {}
    /\ doc = [n \in Origin |-> NewDoc]
    /\ hint = [n \in Origin |-> 0]
    /\ seen = [n \in Origin |-> {}]

\* Faulty variant: what arrives does not raise the high-water mark.
Apply_KeepsHint(n, op, base) ==
    /\ doc' = [doc EXCEPT ![n] = ApplyOp(@, op)]
    /\ hint' = [hint EXCEPT ![n] = base]
    /\ seen' = [seen EXCEPT ![n] = @ \cup {op}]

\* Apply op at n: merge it, and raise the high-water mark if it applied.
\* base is n's high-water mark before the apply.
Apply(n, op, base) ==
    /\ doc' = [doc EXCEPT ![n] = ApplyOp(@, op)]
    /\ hint' = [hint EXCEPT ![n] =
                  IF OpApplies(doc[n], op) /\ op.ts > base
                  THEN op.ts ELSE base]
    /\ seen' = [seen EXCEPT ![n] = @ \cup {op}]

\* A local write: the clock is today's ticked once, the timestamp is the
\* wall clock or the high-water mark, whichever is greater, plus one.
Write(n, kind, k, t) ==
    LET op == [kind |-> kind, key |-> k, ts |-> t, origin |-> n,
               clock |-> Tick(doc[n].clock, n)]
    IN  /\ ~ doc[n].deleted
        /\ t > hint[n]
        /\ issued' = issued \cup {op}
        /\ Apply(n, op, t)

\* An op arrives from the network.
Receive(n, op) ==
    /\ Apply(n, op, hint[n])
    /\ UNCHANGED issued

Next ==
    \E n \in Origin :
        \/ /\ Cardinality(issued) < MaxOps
           /\ \E kind \in Kinds, k \in Key, t \in 1..MaxTs : Write(n, kind, k, t)
        \/ \E op \in issued : Receive(n, op)

Spec == Init /\ [][Next]_vars

-----------------------------------------------------------------------------
(* Properties                                                              *)

\* Two replicas that have applied the same ops hold the same document,
\* whatever order the ops came in: the README's "Convergence is a property of
\* the op set, not the delivery order" and the promise of `apply_op`'s comment.
SameOpsSameDoc ==
    \A m, n \in Origin : seen[m] = seen[n] => doc[m] = doc[n]

\* An op whose clock covers another's was stamped later: causality and the
\* last-writer-wins order never disagree.  `next_ts` keeps this true although
\* an op that changes nothing does not raise the high-water mark.
CausalOpsAreLater ==
    \A p, q \in issued :
        p # q /\ Covers(p.clock, q.clock) => Wins(p, q)

-----------------------------------------------------------------------------
(* The inductive invariant behind the two properties, for replicas that    *)
(* delete whole documents but never single fields.                         *)

\* Does clock c know op o's tick of its own origin?
Knows(c, o) == c[o.origin] >= o.clock[o.origin]

OnlySetsAndDrops == \A o \in issued : o.kind \in {"set", "drop"}

\* Nobody knows more of an origin than the origin itself.
OwnTickIsLargest ==
    \A n \in Origin :
        /\ \A m \in Origin : doc[m].clock[n] <= doc[n].clock[n]
        /\ \A o \in issued : o.clock[n] <= doc[n].clock[n]

\* An op's own tick stands for its whole causal past.
TickNamesThePast ==
    \A o \in issued :
        /\ o.clock[o.origin] > 0
        /\ \A p \in issued :
              /\ Knows(p.clock, o) => Covers(p.clock, o.clock)
              /\ Knows(p.clock, o) /\ Knows(o.clock, p) /\ p.origin = o.origin
                    => p = o
        /\ \A n \in Origin : Knows(doc[n].clock, o) => Covers(doc[n].clock, o.clock)

\* A replica that may still write is past every timestamp it knows of.
HintIsAhead ==
    \A n \in Origin, o \in issued :
        ~ doc[n].deleted /\ Knows(doc[n].clock, o) => hint[n] >= o.ts

\* A document's clock is the join of the clocks of the ops applied to it.
ClockIsJoin ==
    \A n \in Origin :
        /\ \A o \in seen[n] : Covers(doc[n].clock, o.clock)
        /\ \A b \in Origin : doc[n].clock[b] > 0 =>
              \E o \in seen[n] : o.clock[b] = doc[n].clock[b]

\* The ops on key k in a set of ops.
SetsOf(S, k) == {o \in S : o.kind = "set" /\ o.key = k}

\* A live document's field is the last-writer-wins maximum of its ops, and a
\* deleted document has no field.
FieldIsLatest ==
    \A n \in Origin :
        /\ doc[n].name = NoName
        /\ doc[n].deleted <=> \E o \in seen[n] : o.kind = "drop"
        /\ doc[n].deleted => doc[n].fields = NoFields
        /\ ~ doc[n].deleted => \A k \in Key :
              \/ doc[n].fields[k] = Absent /\ SetsOf(seen[n], k) = {}
              \/ \E o \in SetsOf(seen[n], k) :
                    /\ doc[n].fields[k] = FieldFromOp(o)
                    /\ \A p \in SetsOf(seen[n], k) : p = o \/ Wins(o, p)

MergeInv ==
    /\ TypeOK
    /\ OnlySetsAndDrops
    /\ OwnTickIsLargest
    /\ TickNamesThePast
    /\ CausalOpsAreLater
    /\ HintIsAhead
    /\ ClockIsJoin
    /\ FieldIsLatest

=============================================================================

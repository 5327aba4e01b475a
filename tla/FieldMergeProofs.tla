-------------------------- MODULE FieldMergeProofs --------------------------
(***************************************************************************)
(* Proofs about FieldMerge, for any replicas, keys and bounds: replicas    *)
(* that write values and delete whole documents converge on the set of ops *)
(* they have applied.                                                      *)
(***************************************************************************)
EXTENDS FieldMerge, TLAPS

-----------------------------------------------------------------------------
(* Clocks                                                                  *)

\* `merge` returns a clock at or above both arguments, taking each entry
\* from one of them.
LEMMA MergeClockIsJoin ==
    ASSUME NEW c \in Clock, NEW d \in Clock
    PROVE  /\ MergeClock(c, d) \in Clock
           /\ Covers(MergeClock(c, d), c)
           /\ Covers(MergeClock(c, d), d)
           /\ \A o \in Origin : \/ MergeClock(c, d)[o] = c[o]
                                \/ MergeClock(c, d)[o] = d[o]
BY DEF MergeClock, Covers, Clock

\* `tick` raises one entry by one and leaves the others.
LEMMA TickRaisesOne ==
    ASSUME NEW c \in Clock, NEW n \in Origin
    PROVE  /\ Tick(c, n) \in Clock
           /\ Tick(c, n)[n] = c[n] + 1
           /\ \A o \in Origin \ {n} : Tick(c, n)[o] = c[o]
           /\ MergeClock(c, Tick(c, n)) = Tick(c, n)
<1>1. \A o \in Origin : c[o] \in Nat
  BY DEF Clock
<1>2. Tick(c, n)[n] = c[n] + 1 /\ \A o \in Origin \ {n} : Tick(c, n)[o] = c[o]
  BY DEF Tick, Clock
<1>3. Tick(c, n) \in Clock
  BY DEF Tick, Clock
<1>4. \A o \in Origin : MergeClock(c, Tick(c, n))[o] = Tick(c, n)[o]
  <2> TAKE o \in Origin
  <2>1. Tick(c, n)[o] = c[o] + 1 \/ Tick(c, n)[o] = c[o]
    BY <1>2
  <2> QED BY <1>1, <2>1 DEF MergeClock
<1>5. MergeClock(c, Tick(c, n)) \in Clock
  BY <1>3, MergeClockIsJoin
<1>6. MergeClock(c, Tick(c, n)) = Tick(c, n)
  BY <1>3, <1>4, <1>5 DEF Clock
<1> QED BY <1>2, <1>3, <1>6

\* `covers` is transitive.
LEMMA CoversTransitive ==
    ASSUME NEW c \in Clock, NEW d \in Clock, NEW e \in Clock,
           Covers(c, d), Covers(d, e)
    PROVE  Covers(c, e)
<1> SUFFICES ASSUME NEW o \in Origin PROVE c[o] >= e[o]
  BY DEF Covers
<1>1. c[o] \in Nat /\ d[o] \in Nat /\ e[o] \in Nat
  BY DEF Clock
<1>2. c[o] >= d[o] /\ d[o] >= e[o]
  BY DEF Covers
<1> QED BY <1>1, <1>2

\* The last-writer-wins order is transitive and asymmetric.
LEMMA WinsIsAnOrder ==
    ASSUME NEW p \in Op, NEW q \in Op
    PROVE  /\ ~ (Wins(p, q) /\ Wins(q, p))
           /\ \A r \in Op : Wins(p, q) /\ Wins(q, r) => Wins(p, r)
           /\ Wins(p, q) \/ Wins(q, p) \/ (p.ts = q.ts /\ p.origin = q.origin)
<1>1. p.ts \in Nat /\ q.ts \in Nat /\ p.origin \in Nat /\ q.origin \in Nat
  BY OriginAssumption DEF Op
<1>2. \A r \in Op : r.ts \in Nat /\ r.origin \in Nat
  BY OriginAssumption DEF Op
<1> QED BY <1>1, <1>2 DEF Wins

-----------------------------------------------------------------------------
(* What applying a "set" or a "drop" does to each part of the document.    *)
LEMMA ApplyOpParts ==
    ASSUME NEW d \in DocState, NEW op \in Op, op.kind \in {"set", "drop"}
    PROVE  /\ ApplyOp(d, op) \in DocState
           /\ ApplyOp(d, op).clock = MergeClock(d.clock, op.clock)
           /\ ApplyOp(d, op).name = d.name
           /\ ApplyOp(d, op).deleted = (d.deleted \/ op.kind = "drop")
           /\ d.deleted => ApplyOp(d, op).fields = d.fields
           /\ ~ d.deleted /\ op.kind = "drop" => ApplyOp(d, op).fields = NoFields
           /\ ~ d.deleted /\ op.kind = "set" =>
                ApplyOp(d, op).fields =
                  [d.fields EXCEPT ![op.key] = MergeField(d.fields[op.key], op)]
<1>1. MergeClock(d.clock, op.clock) \in Clock
  BY MergeClockIsJoin DEF DocState, Op
<1>2. NoFields \in [Key -> Field]
  BY DEF NoFields, Field
<1>3. FieldFromOp(op) \in Field
  BY DEF FieldFromOp, Field, Op
<1>4. op.kind = "set" =>
        [d.fields EXCEPT ![op.key] = MergeField(d.fields[op.key], op)] \in [Key -> Field]
  BY <1>3 DEF MergeField, DocState, Op
<1> QED
  BY <1>1, <1>2, <1>4 DEF ApplyOp, DocState

-----------------------------------------------------------------------------
(* Type facts, stated once in the form the steps below use them.           *)
LEMMA TypeFacts ==
    ASSUME TypeOK
    PROVE  /\ \A o \in issued : /\ o \in Op /\ o.ts \in Nat /\ o.origin \in Origin
                                /\ o.clock \in Clock /\ o.key \in Key
           /\ \A n \in Origin : /\ doc[n] \in DocState
                                /\ doc[n].clock \in Clock
                                /\ doc[n].deleted \in BOOLEAN
                                /\ doc[n].fields \in [Key -> Field]
                                /\ hint[n] \in Nat
                                /\ seen[n] \subseteq issued
BY DEF TypeOK, Op, DocState

\* Two distinct ops are always ordered by last-writer-wins.
LEMMA WinsIsTotal ==
    ASSUME MergeInv, NEW p \in issued, NEW q \in issued, p # q
    PROVE  Wins(p, q) \/ Wins(q, p)
<1>1. p \in Op /\ q \in Op
  BY TypeFacts DEF MergeInv
<1>2. CASE p.origin # q.origin
  BY <1>1, <1>2, WinsIsAnOrder
<1>3. CASE p.origin = q.origin
  <2>1. p.clock[p.origin] \in Nat /\ q.clock[p.origin] \in Nat
    BY <1>1 DEF Op, Clock
  <2>2. Knows(p.clock, q) \/ Knows(q.clock, p)
    BY <1>3, <2>1 DEF Knows
  <2>3. Covers(p.clock, q.clock) \/ Covers(q.clock, p.clock)
    BY <2>2 DEF MergeInv, TickNamesThePast
  <2> QED BY <2>3 DEF MergeInv, CausalOpsAreLater
<1> QED BY <1>2, <1>3

-----------------------------------------------------------------------------
(* A local write preserves the invariant.                                  *)
LEMMA WritePreserves ==
    ASSUME MergeInv, NEW n \in Origin, NEW kind \in {"set", "drop"},
           NEW k \in Key, NEW t \in Nat, Write(n, kind, k, t)
    PROVE  MergeInv'
<1> DEFINE c == doc[n].clock
           x == [kind |-> kind, key |-> k, ts |-> t, origin |-> n, clock |-> Tick(c, n)]
<1>a. TypeOK
  BY DEF MergeInv
<1>b. /\ ~ doc[n].deleted
      /\ t > hint[n]
      /\ issued' = issued \cup {x}
      /\ doc' = [doc EXCEPT ![n] = ApplyOp(doc[n], x)]
      /\ hint' = [hint EXCEPT ![n] = t]
      /\ seen' = [seen EXCEPT ![n] = seen[n] \cup {x}]
  BY <1>a DEF Write, Apply, TypeOK
<1>c. /\ c \in Clock
      /\ Tick(c, n) \in Clock
      /\ Tick(c, n)[n] = c[n] + 1
      /\ \A b \in Origin \ {n} : Tick(c, n)[b] = c[b]
      /\ MergeClock(c, Tick(c, n)) = Tick(c, n)
  BY <1>a, TypeFacts, TickRaisesOne
<1>d. x \in Op /\ x.kind \in {"set", "drop"}
  BY <1>c DEF Op, OpKind
<1> HIDE DEF c
<1>e. /\ doc'[n] \in DocState
      /\ doc'[n].clock = x.clock
      /\ doc'[n].name = doc[n].name
      /\ doc'[n].deleted = (kind = "drop")
      /\ kind = "drop" => doc'[n].fields = NoFields
      /\ kind = "set" => doc'[n].fields =
            [doc[n].fields EXCEPT ![k] = MergeField(doc[n].fields[k], x)]
  <2>1. doc[n] \in DocState /\ doc'[n] = ApplyOp(doc[n], x)
    BY <1>a, <1>b, TypeFacts DEF TypeOK
  <2> QED BY <1>b, <1>c, <1>d, <2>1, ApplyOpParts DEF c
<1>f. \A m \in Origin \ {n} : doc'[m] = doc[m] /\ hint'[m] = hint[m] /\ seen'[m] = seen[m]
  BY <1>a, <1>b DEF TypeOK
<1>g. hint'[n] = t /\ seen'[n] = seen[n] \cup {x}
  BY <1>a, <1>b DEF TypeOK
<1>h. \A b \in Origin : c[b] \in Nat /\ x.clock[b] \in Nat /\ x.clock[b] >= c[b]
  <2> TAKE b \in Origin
  <2>1. c[b] \in Nat /\ Tick(c, n)[b] \in Nat
    BY <1>c DEF Clock
  <2>2. Tick(c, n)[b] = c[b] + 1 \/ Tick(c, n)[b] = c[b]
    BY <1>c
  <2> QED BY <2>1, <2>2
<1>i. \A o \in issued : o.clock[n] <= c[n] /\ o # x
  <2>1. \A o \in issued : o.clock[n] <= c[n] /\ o.clock[n] \in Nat
    BY <1>a, TypeFacts DEF MergeInv, OwnTickIsLargest, c, Clock
  <2> QED BY <1>c, <1>h, <2>1
<1>1. TypeOK'
  <2>1. issued' \subseteq Op
    BY <1>a, <1>b, <1>d DEF TypeOK
  <2>2. doc' \in [Origin -> DocState]
    BY <1>a, <1>b, <1>e DEF TypeOK
  <2>3. hint' \in [Origin -> Nat]
    BY <1>a, <1>b DEF TypeOK
  <2>4. seen' \in [Origin -> SUBSET issued']
    BY <1>a, <1>b DEF TypeOK
  <2> QED BY <2>1, <2>2, <2>3, <2>4 DEF TypeOK
<1>2. OnlySetsAndDrops'
  BY <1>b DEF MergeInv, OnlySetsAndDrops
\* What a clock that knew an op still knows.
<1>3. \A o \in issued : Knows(x.clock, o) <=> Knows(c, o)
  <2> TAKE o \in issued
  <2>1. o.origin \in Origin /\ o.clock[o.origin] \in Nat
    BY <1>a, TypeFacts DEF Clock
  <2>2. CASE o.origin = n
    <3>1. o.clock[n] <= c[n]
      BY <1>i
    <3> QED BY <1>h, <2>1, <2>2, <3>1 DEF Knows
  <2>3. CASE o.origin # n
    BY <1>c, <2>1, <2>3 DEF Knows
  <2> QED BY <2>2, <2>3
<1>4. OwnTickIsLargest'
  <2> SUFFICES ASSUME NEW b \in Origin
               PROVE  /\ \A m \in Origin : doc'[m].clock[b] <= doc'[b].clock[b]
                      /\ \A o \in issued' : o.clock[b] <= doc'[b].clock[b]
    BY DEF OwnTickIsLargest
  <2>1. /\ \A m \in Origin : doc[m].clock[b] <= doc[b].clock[b] /\ doc[m].clock[b] \in Nat
        /\ \A o \in issued : o.clock[b] <= doc[b].clock[b] /\ o.clock[b] \in Nat
    BY <1>a, TypeFacts DEF MergeInv, OwnTickIsLargest, Clock
  <2>2. doc'[b].clock[b] >= doc[b].clock[b] /\ doc'[b].clock[b] \in Nat
    BY <1>e, <1>f, <1>h, <2>1 DEF c
  <2>3. x.clock[b] <= doc'[b].clock[b]
    <3>1. CASE b = n BY <1>e, <1>h, <3>1
    <3>2. CASE b # n
      BY <1>c, <1>f, <2>1, <3>2 DEF c
    <3> QED BY <3>1, <3>2
  <2>4. \A m \in Origin : doc'[m].clock[b] <= doc'[b].clock[b]
    BY <1>e, <1>f, <2>1, <2>2, <2>3
  <2>5. \A o \in issued' : o.clock[b] <= doc'[b].clock[b]
    BY <1>b, <2>1, <2>2, <2>3
  <2> QED BY <2>4, <2>5
\* Nobody but n knows the new op.
<1>5. /\ \A p \in issued : ~ Knows(p.clock, x)
      /\ \A m \in Origin \ {n} : ~ Knows(doc[m].clock, x)
  <2>1. \A p \in issued : p.clock[n] \in Nat
    BY <1>a, TypeFacts DEF Clock
  <2>2. \A m \in Origin : doc[m].clock[n] \in Nat /\ doc[m].clock[n] <= c[n]
    BY <1>a, TypeFacts DEF MergeInv, OwnTickIsLargest, c, Clock
  <2> QED BY <1>c, <1>h, <1>i, <2>1, <2>2 DEF Knows
<1>6. Covers(x.clock, c)
  BY <1>h DEF Covers
<1>7. TickNamesThePast'
  <2>1. x.clock[x.origin] > 0
    BY <1>c, <1>h
  <2>2. \A o \in issued : Knows(x.clock, o) => Covers(x.clock, o.clock)
    <3> TAKE o \in issued
    <3> HAVE Knows(x.clock, o)
    <3>1. Covers(c, o.clock)
      BY <1>3 DEF MergeInv, TickNamesThePast, c
    <3> QED BY <1>a, <1>c, <1>6, <3>1, TypeFacts, CoversTransitive
  <2>3. Covers(x.clock, x.clock)
    BY <1>h DEF Covers
  <2>4. ASSUME NEW o \in issued', NEW p \in issued'
        PROVE  /\ Knows(p.clock, o) => Covers(p.clock, o.clock)
               /\ Knows(p.clock, o) /\ Knows(o.clock, p) /\ p.origin = o.origin => p = o
    <3>1. CASE o = x /\ p = x BY <2>3, <3>1
    <3>2. CASE o = x /\ p \in issued BY <1>5, <3>2
    <3>3. CASE o \in issued /\ p = x BY <1>5, <2>2, <3>3
    <3>4. CASE o \in issued /\ p \in issued
      BY <3>4 DEF MergeInv, TickNamesThePast
    <3> QED BY <1>b, <3>1, <3>2, <3>3, <3>4
  <2>5. ASSUME NEW o \in issued', NEW m \in Origin, Knows(doc'[m].clock, o)
        PROVE  Covers(doc'[m].clock, o.clock)
    <3>1. CASE m = n
      BY <1>b, <1>e, <2>2, <2>3, <2>5, <3>1
    <3>2. CASE m # n
      <4>1. o \in issued
        BY <1>b, <1>f, <1>5, <2>5, <3>2
      <4> QED BY <1>f, <2>5, <3>2, <4>1 DEF MergeInv, TickNamesThePast
    <3> QED BY <3>1, <3>2
  <2>6. \A o \in issued' : o.clock[o.origin] > 0
    BY <1>b, <2>1 DEF MergeInv, TickNamesThePast
  <2> QED BY <2>4, <2>5, <2>6 DEF TickNamesThePast
\* The new op is later than everything its clock covers.
<1>8. \A q \in issued : Knows(c, q) => Wins(x, q)
  <2> TAKE q \in issued
  <2> HAVE Knows(c, q)
  <2>1. hint[n] >= q.ts /\ hint[n] \in Nat /\ q.ts \in Nat
    BY <1>a, <1>b, TypeFacts DEF MergeInv, HintIsAhead, c
  <2> QED BY <1>b, <2>1 DEF Wins
<1>9. CausalOpsAreLater'
  <2> SUFFICES ASSUME NEW p \in issued', NEW q \in issued', p # q, Covers(p.clock, q.clock)
               PROVE  Wins(p, q)
    BY DEF CausalOpsAreLater
  <2>1. CASE p = x
    <3>1. q \in issued
      BY <1>b, <2>1
    <3>2. Knows(x.clock, q)
      BY <1>a, <2>1, <3>1, TypeFacts DEF Covers, Knows
    <3> QED BY <1>3, <1>8, <2>1, <3>1, <3>2
  <2>2. CASE q = x
    BY <1>b, <1>5, <2>2 DEF Covers, Knows
  <2>3. CASE p \in issued /\ q \in issued
    BY <2>3 DEF MergeInv, CausalOpsAreLater
  <2> QED BY <1>b, <2>1, <2>2, <2>3
<1>10. HintIsAhead'
  <2> SUFFICES ASSUME NEW m \in Origin, NEW o \in issued',
                      ~ doc'[m].deleted, Knows(doc'[m].clock, o)
               PROVE  hint'[m] >= o.ts
    BY DEF HintIsAhead
  <2>1. CASE m = n
    <3>1. CASE o = x BY <1>g, <2>1, <3>1
    <3>2. CASE o \in issued
      <4>1. Knows(c, o)
        BY <1>e, <1>3, <2>1, <3>2
      <4>2. hint[n] >= o.ts /\ hint[n] \in Nat /\ o.ts \in Nat
        BY <1>a, <1>b, <3>2, <4>1, TypeFacts DEF MergeInv, HintIsAhead, c
      <4> QED BY <1>b, <1>g, <2>1, <4>2
    <3> QED BY <1>b, <3>1, <3>2
  <2>2. CASE m # n
    <3>1. o \in issued
      BY <1>b, <1>f, <1>5, <2>2
    <3> QED BY <1>f, <2>2, <3>1 DEF MergeInv, HintIsAhead
  <2> QED BY <2>1, <2>2
<1>11. ClockIsJoin'
  <2> SUFFICES ASSUME NEW m \in Origin
               PROVE  /\ \A o \in seen'[m] : Covers(doc'[m].clock, o.clock)
                      /\ \A b \in Origin : doc'[m].clock[b] > 0 =>
                            \E o \in seen'[m] : o.clock[b] = doc'[m].clock[b]
    BY DEF ClockIsJoin
  <2>1. CASE m # n
    BY <1>f, <2>1 DEF MergeInv, ClockIsJoin
  <2>2. CASE m = n
    <3>1. \A o \in seen[n] : Covers(x.clock, o.clock)
      <4> TAKE o \in seen[n]
      <4>1. Covers(c, o.clock) /\ o.clock \in Clock
        BY <1>a, TypeFacts DEF MergeInv, ClockIsJoin, c
      <4> QED BY <1>c, <1>6, <4>1, CoversTransitive
    <3>2. Covers(x.clock, x.clock)
      BY <1>h DEF Covers
    <3> QED BY <1>e, <1>g, <2>2, <3>1, <3>2
  <2> QED BY <2>1, <2>2
<1>12. FieldIsLatest'
  <2> SUFFICES ASSUME NEW m \in Origin
               PROVE  /\ doc'[m].name = NoName
                      /\ doc'[m].deleted <=> \E o \in seen'[m] : o.kind = "drop"
                      /\ doc'[m].deleted => doc'[m].fields = NoFields
                      /\ ~ doc'[m].deleted => \A j \in Key :
                           \/ doc'[m].fields[j] = Absent /\ SetsOf(seen'[m], j) = {}
                           \/ \E o \in SetsOf(seen'[m], j) :
                                /\ doc'[m].fields[j] = FieldFromOp(o)
                                /\ \A p \in SetsOf(seen'[m], j) : p = o \/ Wins(o, p)
    BY DEF FieldIsLatest
  <2>1. CASE m # n
    BY <1>f, <2>1 DEF MergeInv, FieldIsLatest
  <2>2. CASE m = n /\ kind = "drop"
    <3>1. doc'[n].deleted
      BY <1>e, <2>2
    <3>2. x \in seen'[n] /\ x.kind = "drop"
      BY <1>g, <2>2
    <3>3. doc'[n].name = NoName
      BY <1>e DEF MergeInv, FieldIsLatest
    <3> QED BY <1>e, <2>2, <3>1, <3>2, <3>3
  <2>3. CASE m = n /\ kind = "set"
    <3>1. doc[n].name = NoName /\ \A o \in seen[n] : o.kind # "drop"
      BY <1>b DEF MergeInv, FieldIsLatest
    <3>2. doc'[n].name = NoName /\ ~ doc'[n].deleted /\ \A o \in seen'[n] : o.kind # "drop"
      <4>1. x.kind # "drop" /\ ~ doc'[n].deleted
        BY <1>e, <2>3
      <4> QED BY <1>e, <1>g, <3>1, <4>1
    <3>3. ASSUME NEW j \in Key
          PROVE  \/ doc'[n].fields[j] = Absent /\ SetsOf(seen'[n], j) = {}
                 \/ \E o \in SetsOf(seen'[n], j) :
                      /\ doc'[n].fields[j] = FieldFromOp(o)
                      /\ \A p \in SetsOf(seen'[n], j) : p = o \/ Wins(o, p)
      <4>1. CASE j # k
        <5>1. SetsOf(seen'[n], j) = SetsOf(seen[n], j)
          BY <1>g, <4>1 DEF SetsOf
        <5>2. doc'[n].fields[j] = doc[n].fields[j]
          BY <1>a, <1>e, <2>3, <4>1, TypeFacts
        <5> QED BY <1>b, <5>1, <5>2 DEF MergeInv, FieldIsLatest
      <4>2. CASE j = k
        <5>1. x \in SetsOf(seen'[n], k)
          BY <1>g, <2>3 DEF SetsOf
        <5>2. \A p \in seen[n] : Covers(c, p.clock) /\ p \in issued
          BY <1>a, TypeFacts DEF MergeInv, ClockIsJoin, c
        <5>3. \A p \in SetsOf(seen'[n], k) : p = x \/ Wins(x, p)
          <6> TAKE p \in SetsOf(seen'[n], k)
          <6>1. CASE p = x BY <6>1
          <6>2. CASE p \in seen[n]
            <7>1. Knows(c, p)
              BY <1>a, <5>2, <6>2, TypeFacts DEF Covers, Knows
            <7> QED BY <1>8, <5>2, <6>2, <7>1
          <6> QED BY <1>g, <6>1, <6>2 DEF SetsOf
        <5>4. FieldChanges(doc[n].fields[k], x)
          <6>1. CASE doc[n].fields[k] = Absent
            BY <2>3, <6>1 DEF FieldChanges, Absent
          <6>2. CASE \E o \in SetsOf(seen[n], k) : doc[n].fields[k] = FieldFromOp(o)
            <7> PICK o \in SetsOf(seen[n], k) : doc[n].fields[k] = FieldFromOp(o)
              BY <6>2
            <7>1. o \in seen[n] /\ o \in issued /\ Covers(c, o.clock) /\ o.kind = "set"
              BY <5>2 DEF SetsOf
            <7>2. Covers(x.clock, o.clock)
              BY <1>a, <1>c, <1>6, <7>1, TypeFacts, CoversTransitive
            <7>3. ~ Covers(o.clock, x.clock)
              BY <1>5, <7>1 DEF Covers, Knows
            <7> QED BY <7>1, <7>2, <7>3 DEF FieldChanges, FieldFromOp
          <6> QED BY <1>b, <6>1, <6>2 DEF MergeInv, FieldIsLatest
        <5>5. doc'[n].fields[k] = FieldFromOp(x)
          BY <1>a, <1>e, <2>3, <5>4, TypeFacts DEF MergeField
        <5> QED BY <4>2, <5>1, <5>3, <5>5
      <4> QED BY <4>1, <4>2
    <3> QED BY <2>3, <3>2, <3>3
  <2> QED BY <2>1, <2>2, <2>3
<1> QED
  BY <1>1, <1>2, <1>4, <1>7, <1>9, <1>10, <1>11, <1>12 DEF MergeInv

-----------------------------------------------------------------------------
(* An op from the network preserves the invariant.                         *)
LEMMA ReceivePreserves ==
    ASSUME MergeInv, NEW n \in Origin, NEW x \in issued, Receive(n, x)
    PROVE  MergeInv'
<1> DEFINE c == doc[n].clock
<1>a. TypeOK
  BY DEF MergeInv
<1>b. /\ issued' = issued
      /\ doc' = [doc EXCEPT ![n] = ApplyOp(doc[n], x)]
      /\ hint' = [hint EXCEPT ![n] = IF OpApplies(doc[n], x) /\ x.ts > hint[n]
                                    THEN x.ts ELSE hint[n]]
      /\ seen' = [seen EXCEPT ![n] = seen[n] \cup {x}]
  BY <1>a DEF Receive, Apply, TypeOK
<1>c. x \in Op /\ x.kind \in {"set", "drop"} /\ x.clock \in Clock /\ x.ts \in Nat /\ x.key \in Key
  BY <1>a, TypeFacts DEF MergeInv, OnlySetsAndDrops
<1>d. c \in Clock /\ doc[n] \in DocState /\ hint[n] \in Nat /\ doc[n].deleted \in BOOLEAN
  BY <1>a, TypeFacts
<1>e. /\ doc'[n] \in DocState
      /\ doc'[n].clock = MergeClock(c, x.clock)
      /\ doc'[n].name = doc[n].name
      /\ doc'[n].deleted = (doc[n].deleted \/ x.kind = "drop")
      /\ doc[n].deleted => doc'[n].fields = doc[n].fields
      /\ ~ doc[n].deleted /\ x.kind = "drop" => doc'[n].fields = NoFields
      /\ ~ doc[n].deleted /\ x.kind = "set" => doc'[n].fields =
            [doc[n].fields EXCEPT ![x.key] = MergeField(doc[n].fields[x.key], x)]
  <2>1. doc'[n] = ApplyOp(doc[n], x)
    BY <1>a, <1>b DEF TypeOK
  <2> QED BY <1>c, <1>d, <2>1, ApplyOpParts
<1> HIDE DEF c
<1>f. \A m \in Origin \ {n} : doc'[m] = doc[m] /\ hint'[m] = hint[m] /\ seen'[m] = seen[m]
  BY <1>a, <1>b DEF TypeOK
<1>g. /\ hint'[n] = IF OpApplies(doc[n], x) /\ x.ts > hint[n] THEN x.ts ELSE hint[n]
      /\ seen'[n] = seen[n] \cup {x}
  BY <1>a, <1>b DEF TypeOK
<1>h. hint'[n] \in Nat /\ hint'[n] >= hint[n] /\ (OpApplies(doc[n], x) => hint'[n] >= x.ts)
  BY <1>c, <1>d, <1>g
<1>i. /\ doc'[n].clock \in Clock
      /\ Covers(doc'[n].clock, c)
      /\ Covers(doc'[n].clock, x.clock)
      /\ \A b \in Origin : doc'[n].clock[b] = c[b] \/ doc'[n].clock[b] = x.clock[b]
  BY <1>c, <1>d, <1>e, MergeClockIsJoin DEF c
\* The merged clock knows an op only if one of the two clocks did.
<1>j. \A o \in issued : Knows(doc'[n].clock, o) => Knows(c, o) \/ Knows(x.clock, o)
  BY <1>a, <1>i, TypeFacts DEF Knows
<1>1. TypeOK'
  <2>1. doc' \in [Origin -> DocState]
    BY <1>a, <1>b, <1>e DEF TypeOK
  <2>2. hint' \in [Origin -> Nat]
    BY <1>a, <1>b, <1>c DEF TypeOK
  <2>3. seen' \in [Origin -> SUBSET issued']
    BY <1>a, <1>b DEF TypeOK
  <2> QED BY <1>a, <1>b, <2>1, <2>2, <2>3 DEF TypeOK
<1>2. OnlySetsAndDrops'
  BY <1>b DEF MergeInv, OnlySetsAndDrops
<1>3. OwnTickIsLargest'
  <2> SUFFICES ASSUME NEW b \in Origin
               PROVE  /\ \A m \in Origin : doc'[m].clock[b] <= doc'[b].clock[b]
                      /\ \A o \in issued : o.clock[b] <= doc'[b].clock[b]
    BY <1>b DEF OwnTickIsLargest
  <2>1. /\ \A m \in Origin : doc[m].clock[b] <= doc[b].clock[b] /\ doc[m].clock[b] \in Nat
        /\ \A o \in issued : o.clock[b] <= doc[b].clock[b] /\ o.clock[b] \in Nat
    BY <1>a, TypeFacts DEF MergeInv, OwnTickIsLargest, Clock
  <2>2. doc'[n].clock[b] <= doc[b].clock[b]
    BY <1>i, <2>1 DEF c
  <2>3. doc'[b].clock[b] = doc[b].clock[b]
    <3>1. CASE b # n BY <1>f, <3>1
    <3>2. CASE b = n
      <4>1. doc'[n].clock[n] >= c[n] /\ doc'[n].clock[n] \in Nat
        BY <1>i DEF Covers, Clock
      <4> QED BY <2>1, <2>2, <3>2, <4>1 DEF c
    <3> QED BY <3>1, <3>2
  <2> QED BY <1>f, <2>1, <2>2, <2>3
<1>4. TickNamesThePast'
  <2>1. ASSUME NEW o \in issued, NEW m \in Origin, Knows(doc'[m].clock, o)
        PROVE  Covers(doc'[m].clock, o.clock)
    <3>1. CASE m # n
      BY <1>f, <2>1, <3>1 DEF MergeInv, TickNamesThePast
    <3>2. CASE m = n
      <4>1. Covers(c, o.clock) \/ Covers(x.clock, o.clock)
        BY <1>j, <2>1, <3>2 DEF MergeInv, TickNamesThePast, c
      <4>2. o.clock \in Clock
        BY <1>a, TypeFacts
      <4> QED BY <1>c, <1>d, <1>i, <3>2, <4>1, <4>2, CoversTransitive DEF c
    <3> QED BY <3>1, <3>2
  <2> QED BY <1>b, <2>1 DEF MergeInv, TickNamesThePast
<1>5. CausalOpsAreLater'
  BY <1>b DEF MergeInv, CausalOpsAreLater
\* Whether or not it applied, the high-water mark reaches the op's timestamp
\* while the document is live.
<1>6. ~ doc'[n].deleted => hint'[n] >= x.ts
  <2> HAVE ~ doc'[n].deleted
  <2>1. ~ doc[n].deleted /\ x.kind = "set"
    BY <1>c, <1>d, <1>e
  <2>2. CASE OpApplies(doc[n], x) BY <1>h, <2>2
  <2>3. CASE ~ OpApplies(doc[n], x)
    <3>1. ~ FieldChanges(doc[n].fields[x.key], x)
      BY <2>1, <2>3 DEF OpApplies
    <3>2. doc[n].fields[x.key] # Absent
      BY <2>1, <3>1 DEF FieldChanges, Absent
    <3>3. PICK o \in SetsOf(seen[n], x.key) : doc[n].fields[x.key] = FieldFromOp(o)
      BY <1>c, <2>1, <3>2 DEF MergeInv, FieldIsLatest
    <3>4. o \in seen[n] /\ o \in issued /\ o.ts \in Nat /\ o.origin \in Origin /\ o.kind = "set"
      BY <1>a, TypeFacts DEF SetsOf
    <3>5. Knows(c, o)
      BY <3>4 DEF MergeInv, ClockIsJoin, Covers, Knows, c
    <3>6. hint[n] >= o.ts
      BY <2>1, <3>4, <3>5 DEF MergeInv, HintIsAhead, c
    <3>7. Covers(o.clock, x.clock) \/ ~ Wins(x, o)
      BY <3>1, <3>3, <3>4 DEF FieldChanges, FieldFromOp, Wins
    <3>8. o = x \/ Wins(o, x) \/ ~ Wins(x, o)
      BY <3>4, <3>7 DEF MergeInv, CausalOpsAreLater
    <3>9. o.ts >= x.ts
      BY <1>c, <3>4, <3>8 DEF Wins
    <3> QED BY <1>c, <1>d, <1>h, <3>4, <3>6, <3>9
  <2> QED BY <2>2, <2>3
<1>7. HintIsAhead'
  <2> SUFFICES ASSUME NEW m \in Origin, NEW o \in issued,
                      ~ doc'[m].deleted, Knows(doc'[m].clock, o)
               PROVE  hint'[m] >= o.ts
    BY <1>b DEF HintIsAhead
  <2>1. CASE m # n
    BY <1>f, <2>1 DEF MergeInv, HintIsAhead
  <2>2. CASE m = n
    <3>1. ~ doc[n].deleted /\ o.ts \in Nat /\ o.clock \in Clock
      BY <1>a, <1>d, <1>e, <2>2, TypeFacts
    <3>2. CASE Knows(c, o)
      <4>1. hint[n] >= o.ts
        BY <3>1, <3>2 DEF MergeInv, HintIsAhead, c
      <4> QED BY <1>d, <1>h, <2>2, <3>1, <4>1
    <3>3. CASE Knows(x.clock, o)
      <4>1. o = x \/ Wins(x, o)
        BY <3>3 DEF MergeInv, TickNamesThePast, CausalOpsAreLater
      <4>2. x.ts >= o.ts
        BY <1>c, <3>1, <4>1 DEF Wins
      <4> QED BY <1>c, <1>h, <1>6, <2>2, <3>1, <4>2
    <3> QED BY <1>j, <2>2, <3>2, <3>3
  <2> QED BY <2>1, <2>2
<1>8. ClockIsJoin'
  <2> SUFFICES ASSUME NEW m \in Origin
               PROVE  /\ \A o \in seen'[m] : Covers(doc'[m].clock, o.clock)
                      /\ \A b \in Origin : doc'[m].clock[b] > 0 =>
                            \E o \in seen'[m] : o.clock[b] = doc'[m].clock[b]
    BY DEF ClockIsJoin
  <2>1. CASE m # n
    BY <1>f, <2>1 DEF MergeInv, ClockIsJoin
  <2>2. CASE m = n
    <3>1. \A o \in seen[n] : Covers(doc'[n].clock, o.clock)
      <4> TAKE o \in seen[n]
      <4>1. Covers(c, o.clock) /\ o.clock \in Clock
        BY <1>a, TypeFacts DEF MergeInv, ClockIsJoin, c
      <4> QED BY <1>d, <1>i, <4>1, CoversTransitive
    <3>2. \A b \in Origin : doc'[n].clock[b] > 0 =>
             \E o \in seen'[n] : o.clock[b] = doc'[n].clock[b]
      <4> TAKE b \in Origin
      <4> HAVE doc'[n].clock[b] > 0
      <4>1. CASE doc'[n].clock[b] = x.clock[b] BY <1>g, <4>1
      <4>2. CASE doc'[n].clock[b] = c[b]
        BY <1>g, <4>2 DEF MergeInv, ClockIsJoin, c
      <4> QED BY <1>i, <4>1, <4>2
    <3> QED BY <1>g, <1>i, <2>2, <3>1, <3>2
  <2> QED BY <2>1, <2>2

<1>9. FieldIsLatest'
  <2> SUFFICES ASSUME NEW m \in Origin
               PROVE  /\ doc'[m].name = NoName
                      /\ doc'[m].deleted <=> \E o \in seen'[m] : o.kind = "drop"
                      /\ doc'[m].deleted => doc'[m].fields = NoFields
                      /\ ~ doc'[m].deleted => \A j \in Key :
                           \/ doc'[m].fields[j] = Absent /\ SetsOf(seen'[m], j) = {}
                           \/ \E o \in SetsOf(seen'[m], j) :
                                /\ doc'[m].fields[j] = FieldFromOp(o)
                                /\ \A p \in SetsOf(seen'[m], j) : p = o \/ Wins(o, p)
    BY DEF FieldIsLatest
  <2>1. CASE m # n
    BY <1>f, <2>1 DEF MergeInv, FieldIsLatest
  <2>2. doc'[n].name = NoName
    BY <1>e DEF MergeInv, FieldIsLatest
  <2>3. CASE m = n /\ doc[n].deleted
    <3>1. doc'[n].deleted /\ doc'[n].fields = NoFields
      BY <1>e, <2>3 DEF MergeInv, FieldIsLatest
    <3>2. \E o \in seen'[n] : o.kind = "drop"
      BY <1>g, <2>3 DEF MergeInv, FieldIsLatest
    <3> QED BY <2>2, <2>3, <3>1, <3>2
  <2>4. CASE m = n /\ ~ doc[n].deleted /\ x.kind = "drop"
    <3>1. doc'[n].deleted /\ doc'[n].fields = NoFields
      BY <1>e, <2>4
    <3>2. \E o \in seen'[n] : o.kind = "drop"
      BY <1>g, <2>4
    <3> QED BY <2>2, <2>4, <3>1, <3>2
  <2>5. CASE m = n /\ ~ doc[n].deleted /\ x.kind = "set"
    <3>1. ~ doc'[n].deleted /\ \A o \in seen'[n] : o.kind # "drop"
      <4>1. ~ doc'[n].deleted /\ x.kind # "drop"
        BY <1>e, <2>5
      <4>2. \A o \in seen[n] : o.kind # "drop"
        BY <2>5 DEF MergeInv, FieldIsLatest
      <4> QED BY <1>g, <4>1, <4>2
    <3>2. ASSUME NEW j \in Key
          PROVE  \/ doc'[n].fields[j] = Absent /\ SetsOf(seen'[n], j) = {}
                 \/ \E o \in SetsOf(seen'[n], j) :
                      /\ doc'[n].fields[j] = FieldFromOp(o)
                      /\ \A p \in SetsOf(seen'[n], j) : p = o \/ Wins(o, p)
      <4> DEFINE f == doc[n].fields[j]
      <4>1. \/ f = Absent /\ SetsOf(seen[n], j) = {}
            \/ \E o \in SetsOf(seen[n], j) :
                  /\ f = FieldFromOp(o)
                  /\ \A p \in SetsOf(seen[n], j) : p = o \/ Wins(o, p)
        BY <2>5 DEF MergeInv, FieldIsLatest
      <4>2. CASE j # x.key
        <5>1. SetsOf(seen'[n], j) = SetsOf(seen[n], j)
          BY <1>g, <4>2 DEF SetsOf
        <5>2. doc'[n].fields[j] = f
          BY <1>a, <1>e, <2>5, <4>2, TypeFacts
        <5> QED BY <4>1, <5>1, <5>2
      <4>3. CASE j = x.key
        <5>1. SetsOf(seen'[n], j) = SetsOf(seen[n], j) \cup {x}
          BY <1>g, <2>5, <4>3 DEF SetsOf
        <5>2. doc'[n].fields[j] = MergeField(f, x)
          BY <1>a, <1>e, <2>5, <4>3, TypeFacts
        <5>3. CASE f = Absent /\ SetsOf(seen[n], j) = {}
          <6>1. doc'[n].fields[j] = FieldFromOp(x)
            BY <2>5, <5>2, <5>3 DEF MergeField, FieldChanges, Absent
          <6> QED BY <5>1, <5>3, <6>1
        <5>4. CASE \E o \in SetsOf(seen[n], j) :
                     /\ f = FieldFromOp(o)
                     /\ \A p \in SetsOf(seen[n], j) : p = o \/ Wins(o, p)
          <6>1. PICK o \in SetsOf(seen[n], j) :
                     /\ f = FieldFromOp(o)
                     /\ \A p \in SetsOf(seen[n], j) : p = o \/ Wins(o, p)
            BY <5>4
          <6>2. o \in issued /\ o \in Op /\ o.kind = "set"
            BY <1>a, TypeFacts DEF SetsOf
          <6>3. FieldChanges(f, x) <=> /\ ~ Covers(o.clock, x.clock)
                                       /\ Covers(x.clock, o.clock) \/ Wins(x, o)
            BY <6>1, <6>2 DEF FieldChanges, FieldFromOp, Wins
          <6>4. CASE FieldChanges(f, x)
            <7>1. x # o
              <8>1. Covers(x.clock, x.clock)
                BY <1>c DEF Covers, Clock
              <8> QED BY <6>3, <6>4, <8>1
            <7>2. Wins(x, o)
              BY <6>2, <6>3, <6>4, <7>1 DEF MergeInv, CausalOpsAreLater
            <7>3. \A p \in SetsOf(seen[n], j) : p \in Op
              BY <1>a, TypeFacts DEF SetsOf
            <7>4. \A p \in SetsOf(seen[n], j) : Wins(x, p)
              BY <1>c, <6>1, <6>2, <7>2, <7>3, WinsIsAnOrder
            <7>5. doc'[n].fields[j] = FieldFromOp(x)
              BY <5>2, <6>4 DEF MergeField
            <7> QED BY <5>1, <7>4, <7>5
          <6>5. CASE ~ FieldChanges(f, x)
            <7>1. x = o \/ Wins(o, x)
              <8>1. CASE Covers(o.clock, x.clock)
                BY <6>2, <8>1 DEF MergeInv, CausalOpsAreLater
              <8>2. CASE ~ Wins(x, o)
                BY <6>2, <8>2, WinsIsTotal
              <8> QED BY <6>3, <6>5, <8>1, <8>2
            <7>2. doc'[n].fields[j] = FieldFromOp(o)
              BY <5>2, <6>1, <6>5 DEF MergeField
            <7> QED BY <5>1, <6>1, <7>1, <7>2
          <6> QED BY <6>4, <6>5
        <5> QED BY <4>1, <5>3, <5>4
      <4> QED BY <4>2, <4>3
    <3> QED BY <2>2, <2>5, <3>1, <3>2
  <2> QED BY <1>c, <1>d, <2>1, <2>3, <2>4, <2>5
<1> QED
  BY <1>1, <1>2, <1>3, <1>4, <1>5, <1>7, <1>8, <1>9 DEF MergeInv

-----------------------------------------------------------------------------
(* The invariant implies convergence.                                      *)
LEMMA MergeInvConverges == MergeInv => SameOpsSameDoc
<1> SUFFICES ASSUME MergeInv, NEW m \in Origin, NEW n \in Origin, seen[m] = seen[n]
             PROVE  doc[m] = doc[n]
  BY DEF SameOpsSameDoc
<1>a. TypeOK
  BY DEF MergeInv
<1>1. doc[m].name = doc[n].name /\ doc[m].deleted = doc[n].deleted
  BY <1>a, TypeFacts DEF MergeInv, FieldIsLatest
<1>2. doc[m].clock = doc[n].clock
  <2>1. \A o \in seen[n] : o.clock \in Clock /\ Covers(doc[m].clock, o.clock) /\ Covers(doc[n].clock, o.clock)
    BY <1>a, TypeFacts DEF MergeInv, ClockIsJoin
  <2>2. doc[m].clock \in Clock /\ doc[n].clock \in Clock
    BY <1>a, TypeFacts
  <2>3. ASSUME NEW b \in Origin PROVE doc[m].clock[b] = doc[n].clock[b]
    <3>1. doc[m].clock[b] \in Nat /\ doc[n].clock[b] \in Nat
      BY <2>2 DEF Clock
    <3>2. doc[m].clock[b] > 0 => \E o \in seen[n] : o.clock[b] = doc[m].clock[b]
      BY DEF MergeInv, ClockIsJoin
    <3>3. doc[n].clock[b] > 0 => \E o \in seen[n] : o.clock[b] = doc[n].clock[b]
      BY DEF MergeInv, ClockIsJoin
    <3>4. \A o \in seen[n] : doc[m].clock[b] >= o.clock[b] /\ doc[n].clock[b] >= o.clock[b]
      BY <2>1 DEF Covers
    <3> QED BY <3>1, <3>2, <3>3, <3>4
  <2> QED BY <2>2, <2>3 DEF Clock
<1>3. doc[m].fields = doc[n].fields
  <2>1. CASE doc[n].deleted
    BY <1>1, <2>1 DEF MergeInv, FieldIsLatest
  <2>2. CASE ~ doc[n].deleted
    <3>1. ASSUME NEW k \in Key PROVE doc[m].fields[k] = doc[n].fields[k]
      <4>1. CASE SetsOf(seen[n], k) = {}
        BY <1>1, <2>2, <4>1 DEF MergeInv, FieldIsLatest
      <4>2. CASE SetsOf(seen[n], k) # {}
        <5>1. PICK p \in SetsOf(seen[n], k) :
                /\ doc[m].fields[k] = FieldFromOp(p)
                /\ \A o \in SetsOf(seen[n], k) : o = p \/ Wins(p, o)
          BY <1>1, <2>2, <4>2 DEF MergeInv, FieldIsLatest
        <5>2. PICK q \in SetsOf(seen[n], k) :
                /\ doc[n].fields[k] = FieldFromOp(q)
                /\ \A o \in SetsOf(seen[n], k) : o = q \/ Wins(q, o)
          BY <2>2, <4>2 DEF MergeInv, FieldIsLatest
        <5>3. p \in Op /\ q \in Op
          BY <1>a, TypeFacts DEF SetsOf
        <5>4. p = q
          BY <5>1, <5>2, <5>3, WinsIsAnOrder
        <5> QED BY <5>1, <5>2, <5>4
      <4> QED BY <4>1, <4>2
    <3>2. doc[m].fields \in [Key -> Field] /\ doc[n].fields \in [Key -> Field]
      BY <1>a, TypeFacts
    <3> QED BY <3>1, <3>2
  <2> QED BY <2>1, <2>2
<1>4. doc[m] \in DocState /\ doc[n] \in DocState
  BY <1>a, TypeFacts
<1> QED
  BY <1>1, <1>2, <1>3, <1>4 DEF DocState

\* The invariant holds before any op is issued.
LEMMA InitMergeInv == Init => MergeInv
<1> SUFFICES ASSUME Init PROVE MergeInv
  OBVIOUS
<1>1. NewDoc \in DocState
  BY DEF NewDoc, DocState, NoFields, Field, ZeroClock, Clock
<1>2. \A n \in Origin : /\ doc[n] = NewDoc /\ seen[n] = {} /\ hint[n] = 0
                        /\ doc[n].clock = ZeroClock /\ doc[n].fields = NoFields
                        /\ doc[n].name = NoName /\ doc[n].deleted = FALSE
  BY DEF Init, NewDoc
<1>3. TypeOK
  BY <1>1 DEF Init, TypeOK
<1>z. \A m, n \in Origin : doc[m].clock[n] = 0
  BY <1>2 DEF ZeroClock
<1>4. OwnTickIsLargest
  <2>1. issued = {}
    BY DEF Init
  <2>2. \A m, n \in Origin : doc[m].clock[n] <= doc[n].clock[n]
    BY <1>z, 0 <= 0
  <2> QED BY <2>1, <2>2 DEF OwnTickIsLargest
<1>5. ClockIsJoin
  <2>1. \A m, n \in Origin : ~ (doc[m].clock[n] > 0)
    BY <1>z, ~ (0 > 0)
  <2> QED BY <1>2, <2>1 DEF ClockIsJoin
<1>6. FieldIsLatest
  BY <1>2 DEF FieldIsLatest, NoFields, SetsOf
<1> QED
  BY <1>3, <1>4, <1>5, <1>6
  DEF Init, MergeInv, OnlySetsAndDrops, TickNamesThePast, CausalOpsAreLater, HintIsAhead

\* Every step preserves the invariant when no replica deletes single fields.
LEMMA NextMergeInv ==
    ASSUME "unset" \notin Kinds, MergeInv, [Next]_vars
    PROVE  MergeInv'
<1>1. CASE UNCHANGED vars
  BY <1>1 DEF vars, MergeInv, TypeOK, OnlySetsAndDrops, OwnTickIsLargest, TickNamesThePast,
     CausalOpsAreLater, HintIsAhead, ClockIsJoin, FieldIsLatest
<1>2. ASSUME NEW n \in Origin, NEW kind \in Kinds, NEW k \in Key, NEW t \in 1..MaxTs,
             Write(n, kind, k, t)
      PROVE  MergeInv'
  <2>1. kind \in {"set", "drop"} /\ t \in Nat
    BY <1>2, FieldMergeAssumption DEF OpKind
  <2> QED BY <1>2, <2>1, WritePreserves
<1>3. ASSUME NEW n \in Origin, NEW op \in issued, Receive(n, op)
      PROVE  MergeInv'
  BY <1>3, ReceivePreserves
<1> QED BY <1>1, <1>2, <1>3 DEF Next

-----------------------------------------------------------------------------
(* The theorems.                                                           *)

\* Applying any op the replicas issue keeps a document a document.
LEMMA ApplyOpIsTyped ==
    ASSUME NEW d \in DocState, NEW op \in Op, op.kind # "name"
    PROVE  ApplyOp(d, op) \in DocState
<1>1. MergeClock(d.clock, op.clock) \in Clock
  BY MergeClockIsJoin DEF DocState, Op
<1>2. NoFields \in [Key -> Field]
  BY DEF NoFields, Field
<1>3. FieldFromOp(op) \in Field
  BY DEF FieldFromOp, Field, Op
<1>4. [d.fields EXCEPT ![op.key] = MergeField(d.fields[op.key], op)] \in [Key -> Field]
  BY <1>3 DEF MergeField, DocState, Op
<1>5. (d.deleted \/ op.kind = "drop") \in BOOLEAN
  OBVIOUS
<1> QED
  BY <1>1, <1>2, <1>4, <1>5 DEF ApplyOp, DocState

\* Every state of the replicas is well typed, whatever kinds of op they issue.
THEOREM ReplicasAreTyped == Spec => []TypeOK
<1> DEFINE Inv == TypeOK /\ \A o \in issued : o.kind # "name"
<1>1. Init => Inv
  <2>1. ZeroClock \in Clock
    BY DEF ZeroClock, Clock
  <2>2. NewDoc \in DocState
    BY <2>1 DEF NewDoc, DocState, NoFields, Field
  <2> QED
    BY <2>2 DEF Init, TypeOK
<1>2. ASSUME Inv, NEW n \in Origin, NEW op \in Op, op.kind # "name",
             NEW base \in Nat, Apply(n, op, base), issued' \subseteq Op,
             issued \subseteq issued', op \in issued'
      PROVE  TypeOK'
  <2>1. ApplyOp(doc[n], op) \in DocState
    BY <1>2, ApplyOpIsTyped DEF TypeOK
  <2>2. doc' \in [Origin -> DocState]
    BY <1>2, <2>1 DEF TypeOK, Apply
  <2>3. hint' \in [Origin -> Nat]
    BY <1>2 DEF TypeOK, Apply, Op
  <2>4. seen' \in [Origin -> SUBSET issued']
    BY <1>2 DEF TypeOK, Apply
  <2> QED
    BY <1>2, <2>2, <2>3, <2>4 DEF TypeOK
<1>3. Inv /\ [Next]_vars => Inv'
  <2> SUFFICES ASSUME Inv, [Next]_vars
               PROVE  Inv'
    OBVIOUS
  <2>1. ASSUME NEW n \in Origin, NEW kind \in Kinds, NEW k \in Key,
               NEW t \in 1..MaxTs, Write(n, kind, k, t)
        PROVE  Inv'
    <3> DEFINE op == [kind |-> kind, key |-> k, ts |-> t, origin |-> n,
                      clock |-> Tick(doc[n].clock, n)]
    <3>1. op \in Op /\ op.kind # "name"
      <4>1. Tick(doc[n].clock, n) \in Clock
        BY TickRaisesOne DEF TypeOK, DocState
      <4> QED
        BY <4>1, FieldMergeAssumption DEF Op
    <3>2. issued' = issued \cup {op} /\ Apply(n, op, t) /\ t \in Nat
      BY <2>1, FieldMergeAssumption DEF Write
    <3> HIDE DEF op
    <3>3. TypeOK'
      BY <1>2, <3>1, <3>2 DEF TypeOK
    <3> QED
      BY <3>1, <3>2, <3>3
  <2>2. ASSUME NEW n \in Origin, NEW op \in issued, Receive(n, op)
        PROVE  Inv'
    <3>1. op \in Op /\ op.kind # "name" /\ hint[n] \in Nat
      BY DEF TypeOK
    <3>2. TypeOK'
      BY <1>2, <2>2, <3>1 DEF TypeOK, Receive
    <3> QED
      BY <2>2, <3>2 DEF Receive
  <2>3. CASE UNCHANGED vars
    BY <2>3 DEF vars, TypeOK
  <2> QED
    BY <2>1, <2>2, <2>3 DEF Next
<1> QED
  BY <1>1, <1>3, PTL DEF Spec

\* What holds of such replicas at every moment: an op's own tick stands for its
\* whole causal past, a document's clock is the join of the ops applied to it
\* (`VecClock::merge`), its fields are the last-writer-wins maxima of those ops
\* (`apply_op`), and a replica that may still write is past every timestamp it
\* knows of (`next_ts`), for any number of replicas, fields and ops.
THEOREM MergeInvariant ==
    ASSUME "unset" \notin Kinds
    PROVE  Spec => []MergeInv
<1>1. MergeInv /\ [Next]_vars => MergeInv'
  BY NextMergeInv
<1> QED
  BY <1>1, InitMergeInv, PTL DEF Spec

\* Replicas that write values and delete whole documents hold the same
\* document as soon as they have applied the same ops, in whatever orders:
\* `apply_op` is a convergent merge for these ops, for any number of
\* replicas, fields and ops.
THEOREM SetsConverge ==
    ASSUME "unset" \notin Kinds
    PROVE  Spec => []SameOpsSameDoc
BY MergeInvariant, MergeInvConverges, PTL

\* In such a system causality and the last-writer-wins order agree: the
\* timestamp hint of `next_ts` is enough, although ops that lose the merge do
\* not raise it.
THEOREM CausalityIsTimeOrdered ==
    ASSUME "unset" \notin Kinds
    PROVE  Spec => []CausalOpsAreLater
<1>1. MergeInv => CausalOpsAreLater
  BY DEF MergeInv
<1> QED
  BY <1>1, MergeInvariant, PTL

=============================================================================

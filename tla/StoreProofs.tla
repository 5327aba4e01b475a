---------------------------- MODULE StoreProofs -----------------------------
(***************************************************************************)
(* Proofs about the document store, for any set of nodes, documents, names *)
(* and keys, any snapshot length and any number of steps.                  *)
(*                                                                         *)
(* The log's sort and its folds come first: a sort returns the actions it  *)
(* is given in canonical order, leaves a sorted log alone, and a sorted    *)
(* log folds to a document that depends only on the set of its actions.    *)
(* The steps of the store are then reduced to three things that can happen *)
(* to a document of a node (it stays, grows by one action, or returns from *)
(* its files), from which each invariant is shown to be kept.              *)
(***************************************************************************)
EXTENDS Store, SetFacts

\* An action the store can build: one that writes a field names one of the
\* document's keys, one that names the document gives a name.
WellFormed(a) ==
    /\ a.kind \in {"set", "unset", "claim"} => a.key \in Key
    /\ a.kind = "name" => a.name \in Name

Issued == {a \in Action : WellFormed(a)}

-----------------------------------------------------------------------------
(* Applying one action.                                                    *)

\* The clocks an action meets are clocks, and merging covers both.
LEMMA MergeClockFacts ==
    ASSUME NEW c \in Clock, NEW e \in Clock
    PROVE  /\ MergeClock(c, e) \in Clock
           /\ Covers(MergeClock(c, e), c)
           /\ Covers(MergeClock(c, e), e)
           /\ MergeClock(MergeClock(c, e), e) = MergeClock(c, e)
BY DEF MergeClock, Clock, Covers

\* Covering is transitive.
LEMMA CoversTransitive ==
    ASSUME NEW b \in Clock, NEW c \in Clock, NEW e \in Clock,
           Covers(b, c), Covers(c, e)
    PROVE  Covers(b, e)
<1> SUFFICES ASSUME NEW o \in Origin PROVE b[o] >= e[o]
  BY DEF Covers
<1> QED BY DEF Covers, Clock

\* The parts of an issued action and of the op it is reduced to.
LEMMA OpOfFacts ==
    ASSUME NEW a \in Issued
    PROVE  /\ a \in Action /\ WellFormed(a)
           /\ OpOf(a).kind = IF a.kind = "claim" THEN "set" ELSE a.kind
           /\ OpOf(a).key = a.key /\ OpOf(a).name = a.name
           /\ OpOf(a).ts = a.ts /\ OpOf(a).origin = a.origin
           /\ OpOf(a).clock = a.clock
BY DEF Issued, Action, OpOf

\* What an action makes of a document, part by part.
Reduced(d, a, r) ==
    /\ r.name = IF ~ d.deleted /\ a.kind = "name" THEN a.name ELSE d.name
    /\ r.deleted = (d.deleted \/ a.kind = "drop")
    /\ r.clock = MergeClock(d.clock, a.clock)
    /\ r.fields = IF d.deleted \/ a.kind = "name" THEN d.fields
                  ELSE IF a.kind = "drop" THEN NoFields
                  ELSE [d.fields EXCEPT ![a.key] =
                           MergeField(d.fields[a.key], OpOf(a))]
    /\ r = [name |-> r.name, fields |-> r.fields,
            deleted |-> r.deleted, clock |-> r.clock]

\* Reducing an action is just that.
LEMMA ReduceParts ==
    ASSUME NEW d \in DocState, NEW a \in Issued
    PROVE  Reduced(d, a, Reduce(d, a))
BY OpOfFacts DEF Reduced, Reduce, ApplyOp

\* A field that merges an op is a field.
LEMMA MergeFieldType ==
    ASSUME NEW f \in Field, NEW a \in Issued
    PROVE  MergeField(f, OpOf(a)) \in Field
<1>1. a.ts \in Nat /\ a.origin \in Origin /\ a.clock \in Clock
  BY OpOfFacts DEF Action
<1> QED BY <1>1, OpOfFacts DEF MergeField, FieldFromOp, Field

\* Reducing an action gives a document.
LEMMA ReduceType ==
    ASSUME NEW d \in DocState, NEW a \in Issued
    PROVE  Reduce(d, a) \in DocState
<1> DEFINE r == Reduce(d, a)
<1>0. Reduced(d, a, r)
  BY ReduceParts
<1> HIDE DEF r
<1>1. a.kind \in ActionKind /\ a.clock \in Clock
  BY OpOfFacts DEF Action
<1>2. r.clock \in Clock
  BY <1>1, <1>0, MergeClockFacts DEF DocState, Reduced
<1>3. r.name \in Name \cup {NoName}
  BY <1>0, OpOfFacts DEF DocState, WellFormed, Reduced
<1>4. r.deleted \in BOOLEAN
  BY <1>0 DEF DocState, Reduced
<1>5. NoFields \in [Key -> Field]
  BY DEF NoFields, Field
<1>6. r.fields \in [Key -> Field]
  <2>1. d.fields \in [Key -> Field]
    BY DEF DocState
  <2>2. CASE d.deleted \/ a.kind = "name"
    BY <2>1, <2>2, <1>0 DEF Reduced
  <2>3. CASE ~ (d.deleted \/ a.kind = "name") /\ a.kind = "drop"
    BY <2>3, <1>5, <1>0 DEF Reduced
  <2>4. CASE ~ (d.deleted \/ a.kind = "name") /\ a.kind # "drop"
    <3>1. a.key \in Key
      BY <1>1, <2>4, OpOfFacts DEF WellFormed, ActionKind, OpKind
    <3>2. MergeField(d.fields[a.key], OpOf(a)) \in Field
      BY <2>1, <3>1, MergeFieldType
    <3>3. r.fields =
            [d.fields EXCEPT ![a.key] = MergeField(d.fields[a.key], OpOf(a))]
      BY <2>4, <1>0 DEF Reduced
    <3> QED BY <2>1, <3>1, <3>2, <3>3
  <2> QED BY <2>2, <2>3, <2>4
<1>7. r = [name |-> r.name, fields |-> r.fields,
           deleted |-> r.deleted, clock |-> r.clock]
  BY <1>0 DEF Reduced
<1>8. r \in DocState
  BY <1>2, <1>3, <1>4, <1>6, <1>7 DEF DocState
<1> QED BY <1>8 DEF r

\* A step of the fold gives a document.
LEMMA FoldStepType ==
    ASSUME NEW d \in DocState, NEW a \in Issued
    PROVE  FoldStep(d, a) \in DocState
BY ReduceType DEF FoldStep

\* A recursive function over a log, as the folds define it, and its solution.
LEMMA FoldSolved ==
    ASSUME NEW base \in DocState, NEW log \in Seq(Issued)
    PROVE  \E f \in [0..Len(log) -> DocState] :
              /\ f[0] = base
              /\ \A i \in 1..Len(log) : f[i] = FoldStep(f[i - 1], log[i])
              /\ Fold(base, log) = f[Len(log)]
<1> DEFINE n == Len(log)
           step == [x \in DocState \X (1..n) |-> FoldStep(x[1], log[x[2]])]
           Eqn(f) == f = [i \in 0..n |-> IF i = 0 THEN base
                                        ELSE FoldStep(f[i - 1], log[i])]
<1>1. n \in Nat /\ \A i \in 1..n : log[i] \in Issued
  OBVIOUS
<1>2. step \in [DocState \X (1..n) -> DocState]
  BY <1>1, FoldStepType
<1>3. PICK f \in [0..n -> DocState] :
         f[0] = base /\ \A i \in 1..n : f[i] = step[<<f[i - 1], i>>]
  <2>1. \E f : Iterates(f, DocState, base, n, step)
    <3> HIDE DEF step, n
    <3> QED BY <1>1, <1>2, RecursionExists
  <2> QED BY <2>1 DEF Iterates
<1>4. \A i \in 1..n : f[i] = FoldStep(f[i - 1], log[i])
  <2> SUFFICES ASSUME NEW i \in 1..n PROVE f[i] = FoldStep(f[i - 1], log[i])
    OBVIOUS
  <2>1. <<f[i - 1], i>> \in DocState \X (1..n)
    BY <1>1, <1>3
  <2> QED BY <2>1, <1>3
<1>5. Eqn(f)
  BY <1>1, <1>3, <1>4
<1>6. PICK g : Eqn(g) /\ Fold(base, log) = g[n]
  <2>1. Eqn(CHOOSE g : Eqn(g))
    BY <1>5, Zenon
  <2> QED BY <2>1 DEF Fold
<1>7. \A i \in 0..n : g[i] = IF i = 0 THEN base ELSE FoldStep(g[i - 1], log[i])
  BY <1>6, Zenon
<1> DEFINE S == {i \in Nat : i <= n => g[i] \in DocState}
<1>8. 0 \in S
  BY <1>1, <1>7
<1>9. ASSUME NEW i \in Nat, i \in S PROVE i + 1 \in S
  <2> SUFFICES ASSUME i + 1 <= n PROVE g[i + 1] \in DocState
    OBVIOUS
  <2>1. g[i] \in DocState /\ log[i + 1] \in Issued
    BY <1>1, <1>9
  <2>2. g[i + 1] = FoldStep(g[i], log[i + 1])
    BY <1>1, <1>7
  <2> QED BY <2>1, <2>2, FoldStepType
<1>10. \A i \in Nat : i \in S
  <2> HIDE DEF S
  <2> QED BY <1>8, <1>9, NatSetInduction
<1>11. g \in [0..n -> DocState]
  <2>1. \A i \in 0..n : g[i] \in DocState
    BY <1>1, <1>10
  <2>2. g = [i \in 0..n |-> g[i]]
    BY <1>6
  <2> QED BY <2>1, <2>2
<1>12. g[0] = base /\ \A i \in 1..n : g[i] = FoldStep(g[i - 1], log[i])
  BY <1>1, <1>7
<1> QED BY <1>6, <1>11, <1>12

\* The fold of no action, and of one action more.
LEMMA FoldFacts ==
    ASSUME NEW base \in DocState
    PROVE  /\ Fold(base, <<>>) = base
           /\ \A log \in Seq(Issued) : Fold(base, log) \in DocState
           /\ \A log \in Seq(Issued), a \in Issued :
                 Fold(base, Append(log, a)) = FoldStep(Fold(base, log), a)
<1>1. Fold(base, <<>>) = base
  <2>1. <<>> \in Seq(Issued) /\ Len(<<>>) = 0
    OBVIOUS
  <2>2. PICK f \in [0..Len(<<>>) -> DocState] :
           /\ f[0] = base
           /\ Fold(base, <<>>) = f[Len(<<>>)]
    <3> DEFINE l == <<>>
    <3>1. l \in Seq(Issued)
      BY <2>1
    <3> HIDE DEF l
    <3>2. \E f \in [0..Len(l) -> DocState] :
            f[0] = base /\ Fold(base, l) = f[Len(l)]
      BY <3>1, FoldSolved
    <3> QED BY <3>2 DEF l
  <2> QED BY <2>1, <2>2
<1>2. ASSUME NEW log \in Seq(Issued) PROVE Fold(base, log) \in DocState
  <2>1. Len(log) \in Nat
    OBVIOUS
  <2> QED BY <2>1, FoldSolved
<1>3. ASSUME NEW log \in Seq(Issued), NEW a \in Issued
      PROVE  Fold(base, Append(log, a)) = FoldStep(Fold(base, log), a)
  <2> DEFINE n == Len(log)
             l == Append(log, a)
  <2>1. /\ n \in Nat /\ l \in Seq(Issued) /\ Len(l) = n + 1 /\ l[n + 1] = a
        /\ \A i \in 1..n : l[i] = log[i]
    OBVIOUS
  <2>2. PICK f \in [0..n -> DocState] :
           /\ f[0] = base
           /\ \A i \in 1..n : f[i] = FoldStep(f[i - 1], log[i])
           /\ Fold(base, log) = f[n]
    BY FoldSolved
  <2> HIDE DEF l
  <2>3. PICK g \in [0..Len(l) -> DocState] :
           /\ g[0] = base
           /\ \A i \in 1..Len(l) : g[i] = FoldStep(g[i - 1], l[i])
           /\ Fold(base, l) = g[Len(l)]
    BY <2>1, FoldSolved
  <2> DEFINE S == {i \in Nat : i <= n => g[i] = f[i]}
  <2>4. 0 \in S
    BY <2>2, <2>3
  <2>5. ASSUME NEW i \in Nat, i \in S PROVE i + 1 \in S
    <3> SUFFICES ASSUME i + 1 <= n PROVE g[i + 1] = f[i + 1]
      OBVIOUS
    <3>1. g[i] = f[i] /\ i + 1 \in 1..n /\ i + 1 \in 1..Len(l) /\ (i + 1) - 1 = i
      BY <2>1, <2>5
    <3>2. l[i + 1] = log[i + 1]
      BY <2>1, <3>1
    <3>3. g[i + 1] = FoldStep(g[i], l[i + 1])
      BY <2>3, <3>1
    <3>4. f[i + 1] = FoldStep(f[i], log[i + 1])
      BY <2>2, <3>1
    <3> QED BY <3>1, <3>2, <3>3, <3>4
  <2>6. \A i \in Nat : i \in S
    <3> HIDE DEF S
    <3> QED BY <2>4, <2>5, NatSetInduction
  <2>7. g[n] = f[n]
    BY <2>1, <2>6
  <2>8. g[n + 1] = FoldStep(g[n], l[n + 1])
    BY <2>1, <2>3
  <2>9. Fold(base, l) = FoldStep(Fold(base, log), a)
    BY <2>1, <2>2, <2>3, <2>7, <2>8
  <2> QED BY <2>9 DEF l
<1> QED BY <1>1, <1>2, <1>3

-----------------------------------------------------------------------------
(* The fold a restarted node builds its entries with.                      *)

Entries == [known : BOOLEAN, doc : DocState, log : Seq(Issued)]

Fresh(base) == [known |-> TRUE, doc |-> base, log |-> <<>>]

\* The parts of an entry after a step of the replay.
LEMMA ReplayStepParts ==
    ASSUME NEW e \in Entries, NEW a \in Issued
    PROVE  /\ ReplayStep(e, a).known = e.known
           /\ ReplayStep(e, a).doc = Reduce(e.doc, a)
           /\ ReplayStep(e, a).log =
                 IF Applies(e.doc, a) THEN Append(e.log, a) ELSE e.log
           /\ ReplayStep(e, a) = [known |-> ReplayStep(e, a).known,
                                  doc |-> ReplayStep(e, a).doc,
                                  log |-> ReplayStep(e, a).log]
BY DEF ReplayStep

\* A step of the replay gives an entry.
LEMMA ReplayStepType ==
    ASSUME NEW e \in Entries, NEW a \in Issued
    PROVE  ReplayStep(e, a) \in Entries
<1>1. e.known \in BOOLEAN /\ e.doc \in DocState /\ e.log \in Seq(Issued)
  BY DEF Entries
<1>2. Reduce(e.doc, a) \in DocState /\ Append(e.log, a) \in Seq(Issued)
  BY <1>1, ReduceType
<1>3. /\ ReplayStep(e, a).known \in BOOLEAN
      /\ ReplayStep(e, a).doc \in DocState
      /\ ReplayStep(e, a).log \in Seq(Issued)
  BY <1>1, <1>2, ReplayStepParts
<1> QED BY <1>3, ReplayStepParts DEF Entries

\* A replay starts from an entry.
LEMMA FreshType ==
    ASSUME NEW base \in DocState
    PROVE  Fresh(base) \in Entries
BY DEF Fresh, Entries

\* The same for the fold of a replay.
LEMMA ReplaySolved ==
    ASSUME NEW base \in DocState, NEW log \in Seq(Issued)
    PROVE  \E f \in [0..Len(log) -> Entries] :
              /\ f[0] = Fresh(base)
              /\ \A i \in 1..Len(log) : f[i] = ReplayStep(f[i - 1], log[i])
              /\ ReplayOver(base, log) = f[Len(log)]
<1> DEFINE n == Len(log)
           step == [x \in Entries \X (1..n) |-> ReplayStep(x[1], log[x[2]])]
           Eqn(f) == f = [i \in 0..n |-> IF i = 0 THEN Fresh(base)
                                        ELSE ReplayStep(f[i - 1], log[i])]
<1>1. n \in Nat /\ \A i \in 1..n : log[i] \in Issued
  OBVIOUS
<1>2. step \in [Entries \X (1..n) -> Entries]
  BY <1>1, ReplayStepType
<1>3. PICK f \in [0..n -> Entries] :
         f[0] = Fresh(base) /\ \A i \in 1..n : f[i] = step[<<f[i - 1], i>>]
  <2>1. \E f : Iterates(f, Entries, Fresh(base), n, step)
    <3> HIDE DEF step, n
    <3> QED BY <1>1, <1>2, FreshType, RecursionExists
  <2> QED BY <2>1 DEF Iterates
<1>4. \A i \in 1..n : f[i] = ReplayStep(f[i - 1], log[i])
  <2> SUFFICES ASSUME NEW i \in 1..n PROVE f[i] = ReplayStep(f[i - 1], log[i])
    OBVIOUS
  <2>1. <<f[i - 1], i>> \in Entries \X (1..n)
    BY <1>1, <1>3
  <2> QED BY <2>1, <1>3
<1>5. Eqn(f)
  BY <1>1, <1>3, <1>4
<1>6. PICK g : Eqn(g) /\ ReplayOver(base, log) = g[n]
  <2>1. Eqn(CHOOSE g : Eqn(g))
    BY <1>5, Zenon
  <2> QED BY <2>1 DEF Fold
<1>7. \A i \in 0..n : g[i] = IF i = 0 THEN Fresh(base) ELSE ReplayStep(g[i - 1], log[i])
  BY <1>6, Zenon
<1> DEFINE S == {i \in Nat : i <= n => g[i] \in Entries}
<1>8. 0 \in S
  BY <1>1, <1>7, FreshType
<1>9. ASSUME NEW i \in Nat, i \in S PROVE i + 1 \in S
  <2> SUFFICES ASSUME i + 1 <= n PROVE g[i + 1] \in Entries
    OBVIOUS
  <2>1. g[i] \in Entries /\ log[i + 1] \in Issued
    BY <1>1, <1>9
  <2>2. g[i + 1] = ReplayStep(g[i], log[i + 1])
    BY <1>1, <1>7
  <2> QED BY <2>1, <2>2, ReplayStepType
<1>10. \A i \in Nat : i \in S
  <2> HIDE DEF S
  <2> QED BY <1>8, <1>9, NatSetInduction
<1>11. g \in [0..n -> Entries]
  <2>1. \A i \in 0..n : g[i] \in Entries
    BY <1>1, <1>10
  <2>2. g = [i \in 0..n |-> g[i]]
    BY <1>6
  <2> QED BY <2>1, <2>2
<1>12. g[0] = Fresh(base) /\ \A i \in 1..n : g[i] = ReplayStep(g[i - 1], log[i])
  BY <1>1, <1>7
<1> QED BY <1>6, <1>11, <1>12

\* The replay of no action, and of one action more.
LEMMA ReplayOverFacts ==
    ASSUME NEW base \in DocState
    PROVE  /\ ReplayOver(base, <<>>) = Fresh(base)
           /\ \A log \in Seq(Issued) : ReplayOver(base, log) \in Entries
           /\ \A log \in Seq(Issued), a \in Issued :
                 ReplayOver(base, Append(log, a)) = ReplayStep(ReplayOver(base, log), a)
<1>1. ReplayOver(base, <<>>) = Fresh(base)
  <2>1. <<>> \in Seq(Issued) /\ Len(<<>>) = 0
    OBVIOUS
  <2>2. PICK f \in [0..Len(<<>>) -> Entries] :
           /\ f[0] = Fresh(base)
           /\ ReplayOver(base, <<>>) = f[Len(<<>>)]
    <3> DEFINE l == <<>>
    <3>1. l \in Seq(Issued)
      BY <2>1
    <3> HIDE DEF l
    <3>2. \E f \in [0..Len(l) -> Entries] :
            f[0] = Fresh(base) /\ ReplayOver(base, l) = f[Len(l)]
      BY <3>1, ReplaySolved
    <3> QED BY <3>2 DEF l
  <2> QED BY <2>1, <2>2
<1>2. ASSUME NEW log \in Seq(Issued) PROVE ReplayOver(base, log) \in Entries
  <2>1. Len(log) \in Nat
    OBVIOUS
  <2> QED BY <2>1, ReplaySolved
<1>3. ASSUME NEW log \in Seq(Issued), NEW a \in Issued
      PROVE  ReplayOver(base, Append(log, a)) = ReplayStep(ReplayOver(base, log), a)
  <2> DEFINE n == Len(log)
             l == Append(log, a)
  <2>1. /\ n \in Nat /\ l \in Seq(Issued) /\ Len(l) = n + 1 /\ l[n + 1] = a
        /\ \A i \in 1..n : l[i] = log[i]
    OBVIOUS
  <2>2. PICK f \in [0..n -> Entries] :
           /\ f[0] = Fresh(base)
           /\ \A i \in 1..n : f[i] = ReplayStep(f[i - 1], log[i])
           /\ ReplayOver(base, log) = f[n]
    BY ReplaySolved
  <2> HIDE DEF l
  <2>3. PICK g \in [0..Len(l) -> Entries] :
           /\ g[0] = Fresh(base)
           /\ \A i \in 1..Len(l) : g[i] = ReplayStep(g[i - 1], l[i])
           /\ ReplayOver(base, l) = g[Len(l)]
    BY <2>1, ReplaySolved
  <2> DEFINE S == {i \in Nat : i <= n => g[i] = f[i]}
  <2>4. 0 \in S
    BY <2>2, <2>3
  <2>5. ASSUME NEW i \in Nat, i \in S PROVE i + 1 \in S
    <3> SUFFICES ASSUME i + 1 <= n PROVE g[i + 1] = f[i + 1]
      OBVIOUS
    <3>1. g[i] = f[i] /\ i + 1 \in 1..n /\ i + 1 \in 1..Len(l) /\ (i + 1) - 1 = i
      BY <2>1, <2>5
    <3>2. l[i + 1] = log[i + 1]
      BY <2>1, <3>1
    <3>3. g[i + 1] = ReplayStep(g[i], l[i + 1])
      BY <2>3, <3>1
    <3>4. f[i + 1] = ReplayStep(f[i], log[i + 1])
      BY <2>2, <3>1
    <3> QED BY <3>1, <3>2, <3>3, <3>4
  <2>6. \A i \in Nat : i \in S
    <3> HIDE DEF S
    <3> QED BY <2>4, <2>5, NatSetInduction
  <2>7. g[n] = f[n]
    BY <2>1, <2>6
  <2>8. g[n + 1] = ReplayStep(g[n], l[n + 1])
    BY <2>1, <2>3
  <2>9. ReplayOver(base, l) = ReplayStep(ReplayOver(base, log), a)
    BY <2>1, <2>2, <2>3, <2>7, <2>8
  <2> QED BY <2>9 DEF l
<1> QED BY <1>1, <1>2, <1>3

-----------------------------------------------------------------------------
(* The canonical order and the sort.                                       *)

\* No later action of the log belongs before an earlier one.
Sorted(log) ==
    \A i, j \in 1..Len(log) : i < j => ~ CanonLess(log[j], log[i])

\* The canonical order is a strict weak order.
LEMMA CanonLessOrder ==
    ASSUME NEW a \in Issued, NEW b \in Issued, NEW c \in Issued
    PROVE  /\ ~ CanonLess(a, a)
           /\ CanonLess(a, b) => ~ CanonLess(b, a)
           /\ CanonLess(a, b) /\ CanonLess(b, c) => CanonLess(a, c)
           /\ ~ CanonLess(b, a) /\ ~ CanonLess(c, b) => ~ CanonLess(c, a)
           /\ CanonLess(a, b) /\ ~ CanonLess(c, b) => CanonLess(a, c)
           /\ ~ CanonLess(b, a) /\ CanonLess(b, c) => CanonLess(a, c)
<1>1. \A x \in Issued : x.ts \in Nat /\ x.origin \in Nat /\ x.id \in Nat
  BY OriginAssumption DEF Issued, Action
<1>2. /\ a.ts \in Nat /\ a.origin \in Nat /\ a.id \in Nat
      /\ b.ts \in Nat /\ b.origin \in Nat /\ b.id \in Nat
      /\ c.ts \in Nat /\ c.origin \in Nat /\ c.id \in Nat
  BY <1>1
<1> QED BY <1>2 DEF CanonLess

\* The j-th action of the log is sorted at or before the i-th.
Ahead(log, j, i) ==
    \/ CanonLess(log[j], log[i])
    \/ ~ CanonLess(log[i], log[j]) /\ j <= i

\* The places of a log's actions are the numbers up to its length, each once,
\* in the canonical order.
LEMMA PlaceFacts ==
    ASSUME NEW log \in Seq(Issued)
    PROVE  /\ \A i \in 1..Len(log) : Place(log, i) \in 1..Len(log)
           /\ \A i, j \in 1..Len(log) :
                 i # j /\ Ahead(log, i, j) => Place(log, i) < Place(log, j)
           /\ \A i, j \in 1..Len(log) :
                 Place(log, i) = Place(log, j) => i = j
           /\ \A k \in 1..Len(log) : \E i \in 1..Len(log) : Place(log, i) = k
<1> DEFINE n == Len(log)
           R(i) == {j \in 1..n : Ahead(log, j, i)}
<1>1. n \in Nat /\ DOMAIN log = 1..n /\ \A i \in 1..n : log[i] \in Issued
  OBVIOUS
<1>2. ASSUME NEW i \in 1..n PROVE Place(log, i) = Cardinality(R(i))
  BY <1>1 DEF Place, Ahead
<1>3. IsFiniteSet(1..n) /\ Cardinality(1..n) = n
  <2> HIDE DEF n
  <2> QED BY <1>1, FS_Interval
<1>4. ASSUME NEW i \in 1..n
      PROVE  IsFiniteSet(R(i)) /\ Cardinality(R(i)) \in Nat /\ Cardinality(R(i)) <= n
  <2>1. R(i) \subseteq 1..n
    OBVIOUS
  <2> HIDE DEF R
  <2> QED BY <1>3, <2>1, FS_Subset, FS_CardinalityType
<1>5. ASSUME NEW i \in 1..n PROVE i \in R(i)
  BY <1>1, CanonLessOrder DEF Ahead
<1>6. ASSUME NEW i \in 1..n PROVE Place(log, i) \in 1..n
  <2>1. Cardinality(R(i)) # 0
    <3> HIDE DEF R
    <3> QED BY <1>4, <1>5, FS_EmptySet
  <2> HIDE DEF R
  <2> QED BY <1>1, <1>2, <1>4, <2>1
<1>7. ASSUME NEW i \in 1..n, NEW j \in 1..n, i # j, Ahead(log, i, j)
      PROVE  Place(log, i) < Place(log, j)
  <2>1. R(i) \subseteq R(j)
    <3> SUFFICES ASSUME NEW x \in 1..n, Ahead(log, x, i) PROVE Ahead(log, x, j)
      OBVIOUS
    <3>1. log[x] \in Issued /\ log[i] \in Issued /\ log[j] \in Issued
      BY <1>1
    <3> QED BY <1>7, <3>1, CanonLessOrder DEF Ahead
  <2>2. j \in R(j) /\ j \notin R(i)
    <3>1. log[i] \in Issued /\ log[j] \in Issued
      BY <1>1
    <3>2. ~ Ahead(log, j, i)
      BY <1>7, <3>1, CanonLessOrder DEF Ahead
    <3> QED BY <1>5, <3>2
  <2>3. Cardinality(R(i)) < Cardinality(R(j))
    <3> HIDE DEF R
    <3>1. R(i) # R(j)
      BY <2>2
    <3> QED BY <1>4, <2>1, <3>1, FS_Subset
  <2> QED BY <1>2, <2>3
<1>8. ASSUME NEW i \in 1..n, NEW j \in 1..n, Place(log, i) = Place(log, j)
      PROVE  i = j
  <2> SUFFICES ASSUME i # j PROVE FALSE
    OBVIOUS
  <2>1. log[i] \in Issued /\ log[j] \in Issued
    BY <1>1
  <2>2. Ahead(log, i, j) \/ Ahead(log, j, i)
    BY <2>1, CanonLessOrder DEF Ahead
  <2>3. Place(log, i) \in Nat
    BY <1>6
  <2> QED BY <1>7, <1>8, <2>2, <2>3
<1>9. ASSUME NEW k \in 1..n PROVE \E i \in 1..n : Place(log, i) = k
  <2> DEFINE pf == [i \in 1..n |-> Place(log, i)]
  <2>1. pf \in Injection(1..n, 1..n)
    BY <1>6, <1>8 DEF Injection, IsInjective
  <2>2. pf \in Surjection(1..n, 1..n)
    <3> HIDE DEF pf
    <3> QED BY <1>3, <2>1, FS_Injection
  <2> QED BY <2>2 DEF Surjection
<1> QED BY <1>6, <1>7, <1>8, <1>9

\* The sort returns the log's actions, in canonical order, and leaves a log
\* that is in canonical order as it is.
LEMMA CanonicalFacts ==
    ASSUME NEW log \in Seq(Issued)
    PROVE  /\ Canonical(log) \in Seq(Issued)
           /\ Len(Canonical(log)) = Len(log)
           /\ Range(Canonical(log)) = Range(log)
           /\ Sorted(Canonical(log))
           /\ Sorted(log) => Canonical(log) = log
<1> DEFINE n == Len(log)
           at == [k \in 1..n |-> CHOOSE i \in 1..n : Place(log, i) = k]
           s == Canonical(log)
<1>1. n \in Nat /\ DOMAIN log = 1..n /\ \A i \in 1..n : log[i] \in Issued
  OBVIOUS
<1>2. ASSUME NEW k \in 1..n PROVE at[k] \in 1..n /\ Place(log, at[k]) = k
  BY PlaceFacts
<1>3. s = [k \in 1..n |-> log[at[k]]]
  BY <1>1 DEF Canonical
<1> HIDE DEF at, s
<1>4. s \in Seq(Issued) /\ Len(s) = n /\ DOMAIN s = 1..n
  BY <1>1, <1>2, <1>3
<1>5. Range(s) = Range(log)
  <2>1. ASSUME NEW i \in 1..n PROVE log[i] \in Range(s)
    <3>1. Place(log, i) \in 1..n
      BY PlaceFacts
    <3>2. at[Place(log, i)] = i
      BY <3>1, <1>2, PlaceFacts
    <3> QED BY <1>3, <1>4, <3>1, <3>2 DEF Range
  <2>2. ASSUME NEW k \in 1..n PROVE s[k] \in Range(log)
    BY <1>1, <1>2, <1>3 DEF Range
  <2> QED BY <1>1, <1>4, <2>1, <2>2 DEF Range
<1>6. Sorted(s)
  <2> SUFFICES ASSUME NEW k \in 1..n, NEW l \in 1..n, k < l,
                      CanonLess(s[l], s[k])
               PROVE  FALSE
    BY <1>4 DEF Sorted
  <2>1. at[k] \in 1..n /\ at[l] \in 1..n /\ Place(log, at[k]) = k /\ Place(log, at[l]) = l
    BY <1>2
  <2>2. Ahead(log, at[l], at[k]) /\ at[l] # at[k]
    BY <1>3, <2>1 DEF Ahead
  <2>3. Place(log, at[l]) < Place(log, at[k])
    <3> HIDE DEF n
    <3> QED BY <2>1, <2>2, PlaceFacts DEF n
  <2> QED BY <1>1, <2>1, <2>3
<1>7. ASSUME Sorted(log) PROVE s = log
  <2>1. ASSUME NEW i \in 1..n PROVE Place(log, i) = i
    <3>1. {j \in 1..n : Ahead(log, j, i)} = 1..i
      <4>1. ASSUME NEW j \in 1..n, j <= i PROVE ~ CanonLess(log[i], log[j])
        <5>1. CASE j = i
          BY <1>1, <5>1, CanonLessOrder
        <5>2. CASE j < i
          BY <1>7, <5>2 DEF Sorted
        <5> QED BY <4>1, <5>1, <5>2
      <4>2. ASSUME NEW j \in 1..n, j > i PROVE ~ CanonLess(log[j], log[i])
        BY <1>7, <4>2 DEF Sorted
      <4> QED BY <1>1, <4>1, <4>2 DEF Ahead
    <3>2. Cardinality(1..i) = i
      BY FS_Interval
    <3>3. Place(log, i) = Cardinality({j \in 1..n : Ahead(log, j, i)})
      BY <1>1 DEF Place, Ahead
    <3> QED BY <3>1, <3>2, <3>3
  <2>2. ASSUME NEW k \in 1..n PROVE s[k] = log[k]
    <3>1. at[k] = k
      BY <1>2, <2>1
    <3> QED BY <1>3, <3>1
  <2> QED BY <1>4, <2>2, SeqEqual
<1> QED BY <1>4, <1>5, <1>6, <1>7 DEF s

-----------------------------------------------------------------------------
(* What a fold and a replay return.                                        *)

\* The actions of a log with one more.
LEMMA RangeFacts ==
    /\ Range(<<>>) = {}
    /\ \A A : \A log \in Seq(A), a \in A : Range(Append(log, a)) = Range(log) \cup {a}
<1>1. Range(<<>>) = {}
  BY DEF Range
<1>2. ASSUME NEW A, NEW log \in Seq(A), NEW a \in A
      PROVE  Range(Append(log, a)) = Range(log) \cup {a}
  <2> DEFINE n == Len(log)
             l == Append(log, a)
  <2>1. /\ n \in Nat /\ DOMAIN l = 1..(n + 1) /\ DOMAIN log = 1..n
        /\ l[n + 1] = a /\ \A i \in 1..n : l[i] = log[i]
    OBVIOUS
  <2> HIDE DEF l, n
  <2>2. Range(l) = Range(log) \cup {a}
    BY <2>1 DEF Range
  <2> QED BY <2>2 DEF l
<1> QED BY <1>1, <1>2

\* A log's actions are issued ones.
LEMMA RangeIssued ==
    ASSUME NEW log \in Seq(Issued)
    PROVE  /\ Range(log) \subseteq Issued
           /\ log = <<>> <=> Range(log) = {}
<1>1. Len(log) \in Nat /\ DOMAIN log = 1..Len(log) /\ \A i \in 1..Len(log) : log[i] \in Issued
  OBVIOUS
<1>2. Range(log) \subseteq Issued
  BY <1>1 DEF Range
<1>3. ASSUME log # <<>> PROVE log[1] \in Range(log)
  <2>1. Len(log) # 0
    BY <1>3, EmptySeq
  <2> QED BY <1>1, <2>1 DEF Range
<1> QED BY <1>2, <1>3, RangeFacts

\* Does a log delete the document?
Drops(log) == \E a \in Range(log) : a.kind = "drop"

\* A folded document is deleted if its base was or the log holds a delete: a
\* delete has no precondition and nothing undoes it.
LEMMA FoldDeleted ==
    ASSUME NEW base \in DocState
    PROVE  \A log \in Seq(Issued) :
              Fold(base, log).deleted <=> base.deleted \/ Drops(log)
<1> DEFINE T == {log \in Seq(Issued) :
                    Fold(base, log).deleted <=> base.deleted \/ Drops(log)}
<1>1. <<>> \in T
  BY FoldFacts, RangeFacts DEF Drops
<1>2. ASSUME NEW log \in Seq(Issued), NEW a \in Issued, log \in T
      PROVE  Append(log, a) \in T
  <2> DEFINE d == Fold(base, log)
  <2>1. d \in DocState /\ Fold(base, Append(log, a)) = FoldStep(d, a)
    BY FoldFacts
  <2>2. FoldStep(d, a).deleted <=> d.deleted \/ a.kind = "drop"
    <3>1. Reduced(d, a, Reduce(d, a)) /\ d.deleted \in BOOLEAN
      BY <2>1, ReduceParts DEF DocState
    <3> HIDE DEF d
    <3>2. Reduce(d, a).deleted <=> d.deleted \/ a.kind = "drop"
      BY <3>1 DEF Reduced
    <3> QED BY <3>2 DEF FoldStep, Precondition
  <2>3. Drops(Append(log, a)) <=> Drops(log) \/ a.kind = "drop"
    BY RangeFacts DEF Drops
  <2>4. Append(log, a) \in Seq(Issued)
    OBVIOUS
  <2> QED BY <1>2, <2>1, <2>2, <2>3, <2>4
<1>3. \A log \in Seq(Issued) : log \in T
  <2> HIDE DEF T
  <2> QED BY <1>1, <1>2, SeqSetInduction
<1> QED BY <1>3

\* What the replay of a log over a base document holds: every clock it met,
\* the deletes, and a name when the log gives one.
ReplayHolds(base, log, e) ==
    /\ e.known
    /\ Range(e.log) \subseteq Range(log)
    /\ Covers(e.doc.clock, base.clock)
    /\ \A a \in Range(log) : Covers(e.doc.clock, a.clock)
    /\ e.doc.deleted <=> base.deleted \/ Drops(log)
    /\ e.doc.deleted => base.deleted \/ Drops(e.log)
    /\ (base.name # NoName \/ \E a \in Range(log) : a.kind = "name")
          => e.doc.name # NoName \/ e.doc.deleted

\* The replay of a log holds what it should.
LEMMA ReplayOverHolds ==
    ASSUME NEW base \in DocState
    PROVE  \A log \in Seq(Issued) : ReplayHolds(base, log, ReplayOver(base, log))
<1> DEFINE T == {log \in Seq(Issued) : ReplayHolds(base, log, ReplayOver(base, log))}
<1>0. base.clock \in Clock /\ base.name \in Name \cup {NoName}
  BY DEF DocState
<1>1. <<>> \in T
  <2>1. ReplayOver(base, <<>>) = Fresh(base)
    BY ReplayOverFacts
  <2>2. Covers(base.clock, base.clock)
    BY <1>0 DEF Covers, Clock
  <2>3. Fresh(base).doc = base /\ Fresh(base).log = <<>> /\ Fresh(base).known
    BY DEF Fresh
  <2>4. ReplayHolds(base, <<>>, Fresh(base))
    BY <2>2, <2>3, RangeFacts DEF ReplayHolds, Drops
  <2> QED BY <2>1, <2>4
<1>2. ASSUME NEW log \in Seq(Issued), NEW a \in Issued, log \in T
      PROVE  Append(log, a) \in T
  <2>1. PICK e \in Entries : e = ReplayOver(base, log)
    BY ReplayOverFacts
  <2>2. PICK l : l \in Seq(Issued) /\ l = Append(log, a)
    <3>1. Append(log, a) \in Seq(Issued)
      OBVIOUS
    <3> QED BY <3>1
  <2>3. PICK f \in Entries : f = ReplayStep(e, a)
    BY ReplayStepType
  <2>4. ReplayOver(base, l) = f
    BY <2>1, <2>2, <2>3, ReplayOverFacts
  <2>5. ReplayHolds(base, log, e)
    BY <1>2, <2>1
  <2>6. Range(l) = Range(log) \cup {a}
    BY <2>2, RangeFacts
  <2>7. /\ f.known = e.known /\ f.doc = Reduce(e.doc, a)
        /\ f.log = IF Applies(e.doc, a) THEN Append(e.log, a) ELSE e.log
    BY <2>3, ReplayStepParts
  <2>8. /\ e.doc \in DocState /\ e.log \in Seq(Issued)
        /\ f.doc \in DocState /\ f.log \in Seq(Issued)
    BY DEF Entries
  <2>9. Range(Append(e.log, a)) = Range(e.log) \cup {a}
    BY <2>8, RangeFacts
  <2>10. /\ e.doc.clock \in Clock /\ f.doc.clock \in Clock /\ a.clock \in Clock
         /\ e.doc.deleted \in BOOLEAN
    BY <2>8 DEF DocState, Issued, Action
  <2>11. Reduced(e.doc, a, f.doc)
    BY <2>7, <2>8, ReduceParts
  <2>12. Covers(f.doc.clock, e.doc.clock) /\ Covers(f.doc.clock, a.clock)
    BY <2>11, <2>10, MergeClockFacts DEF Reduced
  <2>13. Range(f.log) \subseteq Range(l)
    BY <2>5, <2>6, <2>7, <2>9 DEF ReplayHolds
  <2>14. Covers(f.doc.clock, base.clock)
    BY <1>0, <2>5, <2>10, <2>12, CoversTransitive DEF ReplayHolds
  <2>15. ASSUME NEW b \in Range(l) PROVE Covers(f.doc.clock, b.clock)
    <3>1. CASE b = a
      BY <3>1, <2>12
    <3>2. CASE b \in Range(log)
      <4>1. b.clock \in Clock
        BY <3>2, RangeIssued DEF Issued, Action
      <4> QED BY <3>2, <4>1, <2>5, <2>10, <2>12, CoversTransitive DEF ReplayHolds
    <3> QED BY <2>6, <3>1, <3>2
  <2>16. f.doc.deleted <=> e.doc.deleted \/ a.kind = "drop"
    BY <2>11, <2>10 DEF Reduced
  <2>17. Drops(l) <=> Drops(log) \/ a.kind = "drop"
    BY <2>6 DEF Drops
  <2>18. f.doc.deleted <=> base.deleted \/ Drops(l)
    BY <2>5, <2>16, <2>17 DEF ReplayHolds
  <2>19. ASSUME f.doc.deleted PROVE base.deleted \/ Drops(f.log)
    <3>1. CASE e.doc.deleted
      BY <3>1, <2>5, <2>7, <2>9 DEF ReplayHolds, Drops
    <3>2. CASE ~ e.doc.deleted
      <4>1. a.kind = "drop"
        BY <2>16, <2>19, <3>2
      <4>2. Applies(e.doc, a)
        BY <4>1, <3>2, OpOfFacts DEF Applies, OpApplies
      <4> QED BY <4>1, <4>2, <2>7, <2>9 DEF Drops
    <3> QED BY <2>10, <3>1, <3>2
  <2>20. ASSUME base.name # NoName \/ \E b \in Range(l) : b.kind = "name"
         PROVE  f.doc.name # NoName \/ f.doc.deleted
    <3>1. f.doc.name = IF ~ e.doc.deleted /\ a.kind = "name" THEN a.name ELSE e.doc.name
      BY <2>11 DEF Reduced
    <3>2. a.kind = "name" => a.name # NoName
      BY NameAssumption, OpOfFacts DEF WellFormed
    <3>3. CASE a.kind = "name"
      BY <2>16, <3>1, <3>2, <3>3
    <3>4. CASE a.kind # "name"
      <4>1. e.doc.name # NoName \/ e.doc.deleted
        BY <2>5, <2>6, <2>20, <3>4 DEF ReplayHolds
      <4> QED BY <2>16, <3>1, <3>4, <4>1
    <3> QED BY <3>3, <3>4
  <2>21. ReplayHolds(base, l, f)
    BY <2>5, <2>7, <2>13, <2>14, <2>15, <2>18, <2>19, <2>20 DEF ReplayHolds
  <2> QED BY <2>2, <2>4, <2>21
<1>3. \A log \in Seq(Issued) : log \in T
  <2> HIDE DEF T
  <2> QED BY <1>1, <1>2, SeqSetInduction
<1> QED BY <1>3

-----------------------------------------------------------------------------
(* What a reader sees of a fold.                                           *)

\* A log with one more action is in canonical order if the log is and the
\* action belongs before none of it.
LEMMA SortedAppend ==
    ASSUME NEW log \in Seq(Issued), NEW a \in Issued
    PROVE  Sorted(Append(log, a)) <=>
              Sorted(log) /\ \A b \in Range(log) : ~ CanonLess(a, b)
<1> DEFINE n == Len(log)
           l == Append(log, a)
<1>1. /\ n \in Nat /\ Len(l) = n + 1 /\ DOMAIN log = 1..n
      /\ l[n + 1] = a /\ \A i \in 1..n : l[i] = log[i]
  OBVIOUS
<1> HIDE DEF l, n
<1>2. ASSUME Sorted(l), NEW i \in 1..n, NEW j \in 1..n, i < j
      PROVE  ~ CanonLess(log[j], log[i])
  BY <1>1, <1>2 DEF Sorted
<1>3. ASSUME Sorted(l), NEW i \in 1..n PROVE ~ CanonLess(a, log[i])
  BY <1>1, <1>3 DEF Sorted
<1>4. ASSUME Sorted(log), \A b \in Range(log) : ~ CanonLess(a, b),
             NEW i \in 1..(n + 1), NEW j \in 1..(n + 1), i < j
      PROVE  ~ CanonLess(l[j], l[i])
  <2>1. CASE j = n + 1
    BY <2>1, <1>1, <1>4 DEF Range
  <2>2. CASE j # n + 1
    BY <2>2, <1>1, <1>4 DEF Sorted, n
  <2> QED BY <2>1, <2>2
<1>5. Sorted(l) => Sorted(log)
  BY <1>2 DEF Sorted, n
<1>6. Sorted(l) => \A b \in Range(log) : ~ CanonLess(a, b)
  BY <1>1, <1>3 DEF Range
<1>7. Sorted(log) /\ (\A b \in Range(log) : ~ CanonLess(a, b)) => Sorted(l)
  BY <1>1, <1>4 DEF Sorted
<1> QED BY <1>5, <1>6, <1>7 DEF l

\* Two documents that look the same.
Alike(d, e) == d.name = e.name /\ d.fields = e.fields /\ d.deleted = e.deleted

\* Documents look the same when a reader's view of them is the same.
LEMMA AlikeView ==
    ASSUME NEW d, NEW e
    PROVE  View(d) = View(e) <=> Alike(d, e)
BY DEF View, Alike

\* An action finds the same in documents that look the same, and makes them
\* look the same again.
LEMMA AlikeStep ==
    ASSUME NEW d \in DocState, NEW e \in DocState, NEW a \in Issued, Alike(d, e)
    PROVE  /\ Precondition(d, a) <=> Precondition(e, a)
           /\ Applies(d, a) <=> Applies(e, a)
           /\ Alike(Reduce(d, a), Reduce(e, a))
           /\ Alike(FoldStep(d, a), FoldStep(e, a))
<1>1. Reduced(d, a, Reduce(d, a)) /\ Reduced(e, a, Reduce(e, a))
  BY ReduceParts
<1>2. Precondition(d, a) <=> Precondition(e, a)
  BY DEF Alike, Precondition
<1>3. Applies(d, a) <=> Applies(e, a)
  BY DEF Alike, Applies, OpApplies
<1>4. Alike(Reduce(d, a), Reduce(e, a))
  BY <1>1 DEF Alike, Reduced
<1> QED BY <1>2, <1>3, <1>4 DEF FoldStep

\* An action that does not apply changes nothing a reader sees.
LEMMA InertReduce ==
    ASSUME NEW d \in DocState, NEW a \in Issued, ~ Applies(d, a)
    PROVE  Alike(Reduce(d, a), d)
<1>1. Reduced(d, a, Reduce(d, a))
  BY ReduceParts
<1>2. /\ d.deleted \in BOOLEAN /\ d.fields \in [Key -> Field]
      /\ a.kind \in ActionKind /\ WellFormed(a)
  BY OpOfFacts DEF DocState, Action
<1>3. CASE d.deleted
  BY <1>1, <1>2, <1>3 DEF Reduced, Alike
<1>4. CASE ~ d.deleted
  <2>1. /\ OpOf(a).kind \in {"set", "unset"}
        /\ ~ FieldChanges(d.fields[a.key], OpOf(a))
    BY <1>4, OpOfFacts DEF Applies, OpApplies
  <2>2. a.kind \in {"set", "unset", "claim"} /\ a.key \in Key
    BY <1>2, <2>1, OpOfFacts DEF WellFormed
  <2>3. MergeField(d.fields[a.key], OpOf(a)) = d.fields[a.key]
    BY <2>1 DEF MergeField
  <2>4. [d.fields EXCEPT ![a.key] = d.fields[a.key]] = d.fields
    BY <1>2
  <2>5. Reduce(d, a).fields =
          [d.fields EXCEPT ![a.key] = MergeField(d.fields[a.key], OpOf(a))]
    BY <1>1, <1>4, <2>2 DEF Reduced
  <2>6. Reduce(d, a).fields = d.fields
    BY <2>3, <2>4, <2>5, Zenon
  <2>7. Reduce(d, a).name = d.name /\ Reduce(d, a).deleted = d.deleted
    BY <1>1, <1>2, <1>4, <2>2 DEF Reduced
  <2> QED BY <2>6, <2>7 DEF Alike
<1> QED BY <1>2, <1>3, <1>4

\* No action of the log has a precondition.
Unclaimed(log) == \A a \in Range(log) : a.kind # "claim"

\* What a replay is when no action has a precondition: the fold of the log, and
\* of the log it keeps.
ReplayIsFold(base, log, e) ==
    Unclaimed(log) =>
        /\ e.doc = Fold(base, log)
        /\ Alike(e.doc, Fold(base, e.log))
        /\ Sorted(log) => Sorted(e.log)

\* Replaying a log is folding it, and what it keeps folds to the same document.
LEMMA ReplayFolds ==
    ASSUME NEW base \in DocState
    PROVE  \A log \in Seq(Issued) : ReplayIsFold(base, log, ReplayOver(base, log))
<1> DEFINE T == {log \in Seq(Issued) : ReplayIsFold(base, log, ReplayOver(base, log))}
<1>1. <<>> \in T
  <2>1. ReplayOver(base, <<>>) = Fresh(base)
    BY ReplayOverFacts
  <2>2. Fresh(base).doc = base /\ Fresh(base).log = <<>>
    BY DEF Fresh
  <2>3. ReplayIsFold(base, <<>>, Fresh(base))
    BY <2>2, FoldFacts DEF ReplayIsFold, Alike
  <2> QED BY <2>1, <2>3
<1>2. ASSUME NEW log \in Seq(Issued), NEW a \in Issued, log \in T
      PROVE  Append(log, a) \in T
  <2>1. PICK e \in Entries : e = ReplayOver(base, log)
    BY ReplayOverFacts
  <2>2. PICK l : l \in Seq(Issued) /\ l = Append(log, a)
    <3>1. Append(log, a) \in Seq(Issued)
      OBVIOUS
    <3> QED BY <3>1
  <2>3. PICK f \in Entries : f = ReplayStep(e, a)
    BY ReplayStepType
  <2>4. ReplayOver(base, l) = f
    BY <2>1, <2>2, <2>3, ReplayOverFacts
  <2>5. ReplayIsFold(base, log, e)
    BY <1>2, <2>1
  <2>6. Range(l) = Range(log) \cup {a}
    BY <2>2, RangeFacts
  <2>7. f.doc = Reduce(e.doc, a)
    BY <2>3, ReplayStepParts
  <2>8. f.log = IF Applies(e.doc, a) THEN Append(e.log, a) ELSE e.log
    BY <2>3, ReplayStepParts
  <2>9. /\ e.doc \in DocState /\ e.log \in Seq(Issued)
        /\ f.doc \in DocState /\ f.log \in Seq(Issued)
    BY DEF Entries
  <2> SUFFICES ASSUME Unclaimed(l)
               PROVE  /\ f.doc = Fold(base, l)
                      /\ Alike(f.doc, Fold(base, f.log))
                      /\ Sorted(l) => Sorted(f.log)
    BY <2>2, <2>4 DEF ReplayIsFold
  <2>10. Unclaimed(log) /\ a.kind # "claim"
    BY <2>6 DEF Unclaimed
  <2>11. \A d : FoldStep(d, a) = Reduce(d, a)
    BY <2>10 DEF FoldStep, Precondition
  <2>12. e.doc = Fold(base, log) /\ Alike(e.doc, Fold(base, e.log))
    BY <2>5, <2>10 DEF ReplayIsFold
  <2>13. f.doc = Fold(base, l)
    BY <2>2, <2>7, <2>11, <2>12, FoldFacts
  <2>14. Alike(f.doc, Fold(base, f.log))
    <3> DEFINE d == Fold(base, e.log)
    <3>1. d \in DocState
      BY <2>9, FoldFacts
    <3>2. CASE Applies(e.doc, a)
      <4>1. Fold(base, f.log) = Reduce(d, a)
        BY <2>8, <2>9, <2>11, <3>2, FoldFacts
      <4> HIDE DEF d
      <4> QED BY <4>1, <2>7, <2>9, <2>12, <3>1, AlikeStep DEF d
    <3>3. CASE ~ Applies(e.doc, a)
      <4>1. Alike(f.doc, e.doc)
        BY <2>7, <2>9, <3>3, InertReduce
      <4> QED BY <4>1, <2>8, <2>12, <3>3 DEF Alike
    <3> QED BY <3>2, <3>3
  <2>15. ASSUME Sorted(l) PROVE Sorted(f.log)
    <3>1. Sorted(log) /\ \A b \in Range(log) : ~ CanonLess(a, b)
      BY <2>2, <2>15, SortedAppend
    <3>2. Sorted(e.log)
      BY <2>5, <2>10, <3>1 DEF ReplayIsFold
    <3>3. Range(e.log) \subseteq Range(log)
      BY <2>1, ReplayOverHolds DEF ReplayHolds
    <3>4. Sorted(Append(e.log, a))
      BY <2>9, <3>1, <3>2, <3>3, SortedAppend
    <3> QED BY <2>8, <3>2, <3>4
  <2> QED BY <2>13, <2>14, <2>15
<1>3. \A log \in Seq(Issued) : log \in T
  <2> HIDE DEF T
  <2> QED BY <1>1, <1>2, SeqSetInduction
<1> QED BY <1>3

-----------------------------------------------------------------------------
(* A sorted log folds to what the set of its actions decides.              *)

\* A field that has merged an op is not changed by it again.
LEMMA MergeFieldTwice ==
    ASSUME NEW f \in Field, NEW a \in Issued
    PROVE  MergeField(MergeField(f, OpOf(a)), OpOf(a)) = MergeField(f, OpOf(a))
<1>1. a.clock \in Clock
  BY OpOfFacts DEF Action
<1>2. Covers(OpOf(a).clock, OpOf(a).clock)
  BY <1>1, OpOfFacts DEF Covers, Clock
<1>3. FieldFromOp(OpOf(a)).st # "absent" /\ FieldFromOp(OpOf(a)).version = OpOf(a).clock
  BY DEF FieldFromOp
<1>4. ~ FieldChanges(FieldFromOp(OpOf(a)), OpOf(a))
  BY <1>2, <1>3 DEF FieldChanges
<1> QED BY <1>4 DEF MergeField

\* An action applied twice in a row changes nothing the second time.
LEMMA ReduceTwice ==
    ASSUME NEW d \in DocState, NEW a \in Issued
    PROVE  Reduce(Reduce(d, a), a) = Reduce(d, a)
<1>1. PICK r \in DocState : r = Reduce(d, a)
  BY ReduceType
<1>2. PICK q \in DocState : q = Reduce(r, a)
  BY ReduceType
<1>3. Reduced(d, a, r) /\ Reduced(r, a, q)
  BY <1>1, <1>2, ReduceParts
<1>4. /\ d.deleted \in BOOLEAN /\ d.fields \in [Key -> Field] /\ d.clock \in Clock
      /\ r.deleted \in BOOLEAN /\ r.fields \in [Key -> Field]
      /\ a.kind \in ActionKind /\ WellFormed(a) /\ a.clock \in Clock
  BY OpOfFacts DEF DocState, Action
<1>5. q.name = r.name /\ q.deleted = r.deleted
  BY <1>3, <1>4 DEF Reduced
<1>6. q.clock = r.clock
  BY <1>3, <1>4, MergeClockFacts DEF Reduced
<1>7. q.fields = r.fields
  <2>1. CASE r.deleted \/ a.kind = "name"
    BY <1>3, <1>4, <2>1 DEF Reduced
  <2>2. CASE ~ (r.deleted \/ a.kind = "name")
    <3>1. ~ d.deleted /\ a.kind # "drop" /\ a.kind # "name"
      BY <1>3, <1>4, <2>2 DEF Reduced
    <3>2. a.key \in Key
      BY <1>4, <3>1 DEF WellFormed, ActionKind, OpKind
    <3> DEFINE m == MergeField(d.fields[a.key], OpOf(a))
    <3>3. r.fields = [d.fields EXCEPT ![a.key] = m]
      BY <1>3, <3>1 DEF Reduced
    <3>4. q.fields = [r.fields EXCEPT ![a.key] = MergeField(r.fields[a.key], OpOf(a))]
      BY <1>3, <2>2, <3>1 DEF Reduced
    <3> HIDE DEF m
    <3>5. r.fields[a.key] = m
      BY <1>4, <3>2, <3>3
    <3>6. MergeField(m, OpOf(a)) = m
      <4>1. d.fields[a.key] \in Field
        BY <1>4, <3>2
      <4> QED BY <4>1, MergeFieldTwice DEF m
    <3>7. q.fields = [r.fields EXCEPT ![a.key] = r.fields[a.key]]
      BY <3>4, <3>5, <3>6, Zenon
    <3> QED BY <1>4, <3>7
  <2> QED BY <2>1, <2>2
<1>8. q = r
  BY <1>3, <1>5, <1>6, <1>7 DEF Reduced
<1> QED BY <1>1, <1>2, <1>8

\* The same for a step of the fold.
LEMMA FoldStepTwice ==
    ASSUME NEW d \in DocState, NEW a \in Issued
    PROVE  FoldStep(FoldStep(d, a), a) = FoldStep(d, a)
BY ReduceTwice DEF FoldStep

\* No two actions of a set have one hash.
HashesUnique(U) == \A a, b \in U : a.id = b.id => a = b

\* Of two actions with different hashes one comes first.
LEMMA CanonTotal ==
    ASSUME NEW U \in SUBSET Issued, HashesUnique(U), NEW a \in U, NEW b \in U,
           ~ CanonLess(a, b), ~ CanonLess(b, a)
    PROVE  a = b
<1>1. /\ a.ts \in Nat /\ a.origin \in Nat /\ a.id \in Nat
      /\ b.ts \in Nat /\ b.origin \in Nat /\ b.id \in Nat
  BY OriginAssumption DEF Issued, Action
<1>2. a.id = b.id
  BY <1>1 DEF CanonLess
<1> QED BY <1>2 DEF HashesUnique

\* A sorted log s that ends in the action a, f before it.
EndsIn(base, s, f, a) ==
    /\ s = Append(f, a) /\ Len(s) = Len(f) + 1 /\ Sorted(f)
    /\ Range(s) = Range(f) \cup {a}
    /\ \A b \in Range(s) : ~ CanonLess(a, b)
    /\ Fold(base, s) = FoldStep(Fold(base, f), a)
    /\ a \in Range(f) => Fold(base, s) = Fold(base, f)

\* In a sorted log that is not empty, the last action belongs after all of it;
\* the log folds to the same without it when it stands there twice.
LEMMA SortedLast ==
    ASSUME NEW base \in DocState, NEW U \in SUBSET Issued, HashesUnique(U),
           NEW s \in Seq(U), s # <<>>, Sorted(s)
    PROVE  \E f \in Seq(U), a \in U : EndsIn(base, s, f, a)
<1>1. PICK f \in Seq(U), a \in U : s = Append(f, a) /\ Len(s) = Len(f) + 1
  BY SeqFrontLast
<1>2. f \in Seq(Issued) /\ a \in Issued
  BY SeqMonotonic
<1>3. Sorted(f) /\ \A b \in Range(f) : ~ CanonLess(a, b)
  BY <1>1, <1>2, SortedAppend
<1>4. Range(s) = Range(f) \cup {a}
  BY <1>1, RangeFacts
<1>5. \A b \in Range(s) : ~ CanonLess(a, b)
  BY <1>2, <1>3, <1>4, CanonLessOrder
<1>6. Fold(base, s) = FoldStep(Fold(base, f), a)
  BY <1>1, <1>2, FoldFacts
<1>7. ASSUME a \in Range(f) PROVE Fold(base, s) = Fold(base, f)
  <2>1. f # <<>>
    BY <1>7, RangeFacts
  <2>2. PICK g \in Seq(U), c \in U : f = Append(g, c)
    BY <2>1, SeqFrontLast
  <2>3. g \in Seq(Issued) /\ c \in Issued
    BY SeqMonotonic
  <2>4. \A b \in Range(g) : ~ CanonLess(c, b)
    BY <1>3, <2>2, <2>3, SortedAppend
  <2>5. Range(f) = Range(g) \cup {c}
    BY <2>2, RangeFacts
  <2>6. ~ CanonLess(c, a) /\ ~ CanonLess(a, c)
    BY <1>2, <1>3, <1>7, <2>3, <2>4, <2>5, CanonLessOrder
  <2>7. c = a
    BY <2>6, CanonTotal
  <2>8. Fold(base, f) = FoldStep(Fold(base, g), a) /\ Fold(base, g) \in DocState
    BY <2>2, <2>3, <2>7, FoldFacts
  <2> QED BY <1>2, <1>6, <2>8, FoldStepTwice
<1> QED BY <1>1, <1>3, <1>4, <1>5, <1>6, <1>7 DEF EndsIn

\* Two sorted logs with the same actions, each any number of times.
SameActions(U, s, t) ==
    /\ s \in Seq(U) /\ t \in Seq(U) /\ Sorted(s) /\ Sorted(t)
    /\ Range(s) = Range(t)

\* They fold to the same document.
LEMMA FoldByRange ==
    ASSUME NEW base \in DocState, NEW U \in SUBSET Issued, HashesUnique(U)
    PROVE  \A s, t : SameActions(U, s, t) => Fold(base, s) = Fold(base, t)
<1> DEFINE S == {n \in Nat : \A s, t :
                    SameActions(U, s, t) /\ Len(s) + Len(t) <= n
                       => Fold(base, s) = Fold(base, t)}
<1>1. 0 \in S
  <2> SUFFICES ASSUME NEW s, NEW t, SameActions(U, s, t), Len(s) + Len(t) <= 0
               PROVE  Fold(base, s) = Fold(base, t)
    OBVIOUS
  <2>1. s \in Seq(U) /\ t \in Seq(U)
    BY DEF SameActions
  <2>2. Len(s) \in Nat /\ Len(t) \in Nat
    BY <2>1
  <2>3. Len(s) = 0 /\ Len(t) = 0
    BY <2>2
  <2>4. s = <<>> /\ t = <<>>
    BY <2>1, <2>3, EmptySeq
  <2> QED BY <2>4
<1>2. ASSUME NEW n \in Nat, n \in S PROVE n + 1 \in S
  <2> SUFFICES ASSUME NEW s, NEW t, SameActions(U, s, t), Len(s) + Len(t) <= n + 1
               PROVE  Fold(base, s) = Fold(base, t)
    OBVIOUS
  <2>0. \A x, y : SameActions(U, x, y) /\ Len(x) + Len(y) <= n
                     => Fold(base, x) = Fold(base, y)
    BY <1>2
  <2> HIDE DEF S
  <2>1. s \in Seq(U) /\ t \in Seq(U) /\ Sorted(s) /\ Sorted(t) /\ Range(s) = Range(t)
    BY DEF SameActions
  <2>2. s \in Seq(Issued) /\ t \in Seq(Issued)
    BY <2>1, SeqMonotonic
  <2>3. CASE s = <<>> \/ t = <<>>
    <3>1. s = <<>> /\ t = <<>>
      BY <2>1, <2>2, <2>3, RangeIssued
    <3> QED BY <3>1
  <2>4. CASE s # <<>> /\ t # <<>>
    <3>1. PICK f \in Seq(U), a \in U : EndsIn(base, s, f, a)
      BY <2>1, <2>4, SortedLast
    <3>2. PICK g \in Seq(U), c \in U : EndsIn(base, t, g, c)
      BY <2>1, <2>4, SortedLast
    <3>3. a = c
      <4>1. ~ CanonLess(a, c) /\ ~ CanonLess(c, a)
        BY <2>1, <3>1, <3>2 DEF EndsIn
      <4> QED BY <4>1, CanonTotal
    <3>4. Len(f) \in Nat /\ Len(g) \in Nat
      OBVIOUS
    <3>5. CASE a \in Range(f)
      <4>1. SameActions(U, f, t)
        BY <2>1, <3>1, <3>5 DEF SameActions, EndsIn
      <4>2. Len(f) + Len(t) <= n
        BY <3>1, <3>2, <3>4 DEF EndsIn
      <4> QED BY <2>0, <3>1, <3>5, <4>1, <4>2 DEF EndsIn
    <3>6. CASE c \in Range(g)
      <4>1. SameActions(U, s, g)
        BY <2>1, <3>2, <3>6 DEF SameActions, EndsIn
      <4>2. Len(s) + Len(g) <= n
        BY <3>1, <3>2, <3>4 DEF EndsIn
      <4> QED BY <2>0, <3>2, <3>6, <4>1, <4>2 DEF EndsIn
    <3>7. CASE a \notin Range(f) /\ c \notin Range(g)
      <4>0. Range(f) = Range(s) \ {a} /\ Range(g) = Range(t) \ {a}
        BY <3>1, <3>2, <3>3, <3>7 DEF EndsIn
      <4>1. SameActions(U, f, g)
        BY <2>1, <3>1, <3>2, <4>0 DEF SameActions, EndsIn
      <4>2. Len(f) + Len(g) <= n
        BY <3>1, <3>2, <3>4 DEF EndsIn
      <4>3. Fold(base, f) = Fold(base, g)
        BY <2>0, <4>1, <4>2
      <4> QED BY <3>1, <3>2, <3>3, <4>3 DEF EndsIn
    <3> QED BY <3>5, <3>6, <3>7
  <2> QED BY <2>3, <2>4
<1>3. \A n \in Nat : n \in S
  <2> HIDE DEF S
  <2> QED BY <1>1, <1>2, NatSetInduction
<1> QED
  <2> SUFFICES ASSUME NEW s, NEW t, SameActions(U, s, t)
               PROVE  Fold(base, s) = Fold(base, t)
    OBVIOUS
  <2>1. Len(s) \in Nat /\ Len(t) \in Nat
    BY DEF SameActions
  <2>2. Len(s) + Len(t) \in S
    <3> HIDE DEF S
    <3> QED BY <1>3, <2>1
  <2> QED BY <2>1, <2>2

-----------------------------------------------------------------------------
(* Extending an entry by an action.                                        *)

\* The entry extended without and with folding again.
PutLast(e, a, x) ==
    /\ x.known /\ x.doc = Reduce(e.doc, a) /\ x.log = Append(e.log, a)
    /\ Sorted(e.log) => Sorted(x.log)

PutWithin(base, e, a, x) ==
    /\ x.known /\ x.log = Canonical(Append(e.log, a))
    /\ x.doc.name = Fold(base, x.log).name
    /\ x.doc.fields = Fold(base, x.log).fields
    /\ x.doc.deleted = Fold(base, x.log).deleted
    /\ x.doc.clock = MergeClock(e.doc.clock, a.clock)
    /\ Sorted(x.log)

\* Both add the action to the log and its clock to the document's.
Put(base, e, a, x) ==
    /\ x \in Entries /\ x.log # <<>>
    /\ Range(x.log) = Range(e.log) \cup {a}
    /\ x.doc.clock = MergeClock(e.doc.clock, a.clock)
    /\ PutLast(e, a, x) \/ PutWithin(base, e, a, x)

\* Step 4 of `apply_action` puts the action into the entry.
LEMMA ExtendFacts ==
    ASSUME NEW base \in DocState, NEW e \in Entries, NEW a \in Issued
    PROVE  Put(base, e, a, Extend(base, e, a))
<1>1. e.known \in BOOLEAN /\ e.doc \in DocState /\ e.log \in Seq(Issued)
  BY DEF Entries
<1>2. PICK l : l = Append(e.log, a)
  OBVIOUS
<1>3. l \in Seq(Issued) /\ Range(l) = Range(e.log) \cup {a}
  BY <1>1, <1>2, RangeFacts
<1>4. PICK r \in DocState : r = Reduce(e.doc, a)
  BY <1>1, ReduceType
<1>5. r.clock = MergeClock(e.doc.clock, a.clock) /\ r.clock \in Clock
  <2>1. Reduced(e.doc, a, r)
    BY <1>1, <1>4, ReduceParts
  <2> QED BY <2>1 DEF Reduced, DocState
<1> DEFINE next == [known |-> TRUE, doc |-> r, log |-> l]
           x == Extend(base, e, a)
<1>6. CASE ~ (e.log # <<>> /\ CanonLess(a, Last(e.log)))
  <2>1. x = next
    BY <1>2, <1>4, <1>6 DEF Extend
  <2> HIDE DEF x
  <2>2. x.known /\ x.doc = r /\ x.log = l /\ x \in Entries
    BY <1>3, <2>1 DEF Entries
  <2>3. ASSUME Sorted(e.log) PROVE Sorted(l)
    <3>1. CASE e.log = <<>>
      BY <3>1, <1>1, <1>2, <2>3, RangeFacts, SortedAppend
    <3>2. CASE e.log # <<>>
      <4>1. PICK f \in Seq(Issued), b \in Issued : e.log = Append(f, b)
        BY <1>1, <3>2, SeqFrontLast
      <4>2. Last(e.log) = b
        BY <4>1 DEF Last
      <4>3. ~ CanonLess(a, b)
        BY <1>6, <3>2, <4>2
      <4>4. \A c \in Range(f) : ~ CanonLess(b, c)
        BY <2>3, <4>1, SortedAppend
      <4>5. Range(e.log) = Range(f) \cup {b} /\ Range(f) \subseteq Issued
        BY <4>1, RangeFacts, RangeIssued
      <4>6. \A c \in Range(e.log) : ~ CanonLess(a, c)
        BY <4>3, <4>4, <4>5, CanonLessOrder
      <4> QED BY <1>1, <1>2, <2>3, <4>6, SortedAppend
    <3> QED BY <3>1, <3>2
  <2>4. PutLast(e, a, x)
    BY <1>2, <1>4, <2>2, <2>3 DEF PutLast
  <2>5. l # <<>>
    BY <1>3, RangeIssued
  <2>6. Put(base, e, a, x)
    BY <1>3, <1>5, <2>2, <2>4, <2>5 DEF Put
  <2> QED BY <2>6 DEF x
<1>7. CASE e.log # <<>> /\ CanonLess(a, Last(e.log))
  <2>1. x = Refold(base, next)
    BY <1>2, <1>4, <1>7 DEF Extend
  <2>2. PICK c : c = Canonical(l)
    OBVIOUS
  <2>3. c \in Seq(Issued) /\ Range(c) = Range(l) /\ Sorted(c)
    BY <1>3, <2>2, CanonicalFacts
  <2>4. PICK d \in DocState : d = Fold(base, c)
    BY <2>3, FoldFacts
  <2>5. PICK q : q = [d EXCEPT !.clock = r.clock]
    OBVIOUS
  <2>6. /\ q.name = d.name /\ q.fields = d.fields /\ q.deleted = d.deleted
        /\ q.clock = r.clock /\ q \in DocState
    BY <1>5, <2>5 DEF DocState
  <2>7. x = [known |-> TRUE, doc |-> q, log |-> c]
    BY <2>1, <2>2, <2>4, <2>5 DEF Refold
  <2> HIDE DEF x
  <2>8. x.known /\ x.doc = q /\ x.log = c /\ x \in Entries
    BY <2>3, <2>6, <2>7 DEF Entries
  <2>9. PutWithin(base, e, a, x)
    BY <1>2, <1>5, <2>2, <2>3, <2>4, <2>6, <2>8 DEF PutWithin
  <2>10. c # <<>>
    BY <1>3, <2>3, RangeIssued
  <2>11. Put(base, e, a, x)
    BY <1>3, <1>5, <2>3, <2>6, <2>8, <2>9, <2>10 DEF Put
  <2> QED BY <2>11 DEF x
<1> QED BY <1>6, <1>7

\* The entry a restart builds from a document's files.
Restored(base, log, e) ==
    /\ e \in Entries
    /\ \/ e = ReplayOver(base, Canonical(log))
       \/ /\ e = NewEntry
          /\ ReplayOver(base, Canonical(log)).doc.name = NoName
          /\ ReplayOver(base, Canonical(log)).doc.fields = NoFields
          /\ ~ ReplayOver(base, Canonical(log)).doc.deleted
          /\ ReplayOver(base, Canonical(log)).log = <<>>

\* A new document and a new entry have their types.
LEMMA NewDocType == NewDoc \in DocState /\ NewEntry \in Entries
<1>1. ZeroClock \in Clock
  BY DEF ZeroClock, Clock
<1>2. NoFields \in [Key -> Field]
  BY DEF NoFields, Field
<1>3. NewDoc \in DocState
  BY <1>1, <1>2 DEF NewDoc, DocState
<1> QED BY <1>3 DEF NewEntry, Entries

\* `replay_doc` restores the entry from the snapshot and the WAL.
LEMMA ReplayRestores ==
    ASSUME NEW snap \in Snap, NEW log \in Seq(Issued)
    PROVE  Restored(snap.doc, log, Replay(snap, log))
<1>1. snap.doc \in DocState
  BY DEF Snap
<1>2. Canonical(log) \in Seq(Issued)
  BY CanonicalFacts
<1>3. PICK e \in Entries : e = ReplayOver(snap.doc, Canonical(log))
  BY <1>1, <1>2, ReplayOverFacts
<1>4. Replay(snap, log) =
        IF e.doc.name = NoName /\ e.doc.fields = NoFields /\ e.log = <<>> /\ ~ e.doc.deleted
        THEN NewEntry ELSE e
  BY <1>3 DEF Replay
<1> QED BY <1>3, <1>4, NewDocType DEF Restored

-----------------------------------------------------------------------------
(* Taking in an action: what `apply_action` leaves in memory and on disk.  *)

Mems == [entry    : [DocId -> Entries],
         names    : [Name -> DocId \cup {NoDoc}],
         hint     : Nat,
         outbound : SUBSET Issued]

Disks == [alog  : [DocId -> Seq(Issued)],
          snap  : [DocId -> Snap],
          index : Nat]

\* A document's entry and files after an action that extended it to x: kept,
\* or made a snapshot.
Stored(x, a, w, s, f, v, t) ==
    /\ f.doc = x.doc
    /\ \/ f.log = x.log /\ v = Append(w, a) /\ t = s
       \/ f.log = <<>> /\ v = <<>> /\ t = SnapOf(x)

\* The other documents of a node.
Others(m, k, r, d) ==
    \A c \in DocId : c # d => /\ r.mem.entry[c] = m.entry[c]
                              /\ r.disk.alog[c] = k.alog[c]
                              /\ r.disk.snap[c] = k.snap[c]

\* An action refused for its precondition.
IsRefused(m, k, a, r) ==
    /\ ~ Precondition(m.entry[a.doc].doc, a)
    /\ r.disk = k
    /\ r.mem.entry[a.doc].doc = m.entry[a.doc].doc
    /\ r.mem.entry[a.doc].log = m.entry[a.doc].log
    /\ r.mem.names = m.names /\ r.mem.hint = m.hint /\ r.mem.outbound = m.outbound

\* An action that extends its document's entry to x.
IsAccepted(m, k, a, r, x) ==
    LET d == a.doc
    IN  /\ Precondition(m.entry[d].doc, a)
        /\ Put(k.snap[d].doc, m.entry[d], a, x)
        /\ Stored(x, a, k.alog[d], k.snap[d],
                  r.mem.entry[d], r.disk.alog[d], r.disk.snap[d])
        /\ r.mem.names = SyncNames(m.names, d, x.doc)
        /\ r.mem.hint >= m.hint
        /\ Applies(m.entry[d].doc, a) => r.mem.hint >= a.ts
        /\ r.mem.outbound \in {m.outbound, m.outbound \cup {a}}

TookIn(m, k, a, r) ==
    /\ r.mem \in Mems /\ r.disk \in Disks /\ r.disk.index = k.index
    /\ Others(m, k, r, a.doc)
    /\ IsRefused(m, k, a, r) \/ \E x \in Entries : IsAccepted(m, k, a, r, x)

\* The snapshot of an entry that has a log.
LEMMA SnapOfType ==
    ASSUME NEW x \in Entries, x.log # <<>>
    PROVE  SnapOf(x) \in Snap /\ SnapOf(x).doc = x.doc
<1>1. x.doc \in DocState /\ x.log \in Seq(Issued)
  BY DEF Entries
<1>2. PICK f \in Seq(Issued), b \in Issued : x.log = Append(f, b)
  BY <1>1, SeqFrontLast
<1>3. Last(x.log) = b
  BY <1>2 DEF Last
<1>4. b.id \in Nat
  BY DEF Issued, Action
<1> QED BY <1>1, <1>3, <1>4 DEF SnapOf, Snap

\* The name index stays one.
LEMMA SyncNamesType ==
    ASSUME NEW names \in [Name -> DocId \cup {NoDoc}], NEW d \in DocId,
           NEW doc \in DocState
    PROVE  SyncNames(names, d, doc) \in [Name -> DocId \cup {NoDoc}]
<1>1. doc.name \in Name \cup {NoName} /\ doc.deleted \in BOOLEAN
  BY DEF DocState
<1> QED BY <1>1 DEF SyncNames

\* Taking in an action does one or the other, to its document only.
LEMMA ApplyActionTakesIn ==
    ASSUME NEW n, NEW m \in Mems, NEW k \in Disks, NEW a \in Issued
    PROVE  TookIn(m, k, a, ApplyAction(n, m, k, a))
<1>1. PICK d \in DocId : d = a.doc
  BY DEF Issued, Action
<1>2. PICK E \in [DocId -> Entries], N \in [Name -> DocId \cup {NoDoc}],
           h \in Nat, O \in SUBSET Issued :
         m = [entry |-> E, names |-> N, hint |-> h, outbound |-> O]
  BY DEF Mems
<1>3. PICK W \in [DocId -> Seq(Issued)], S \in [DocId -> Snap], i \in Nat :
         k = [alog |-> W, snap |-> S, index |-> i]
  BY DEF Disks
<1>4. /\ m.entry = E /\ m.names = N /\ m.hint = h /\ m.outbound = O
      /\ k.alog = W /\ k.snap = S /\ k.index = i
  BY <1>2, <1>3
<1>5. /\ E[d] \in Entries /\ W[d] \in Seq(Issued) /\ S[d] \in Snap
      /\ S[d].doc \in DocState /\ a.ts \in Nat
  BY DEF Snap, Issued, Action
<1>6. CASE ~ Precondition(E[d].doc, a)
  <2>1. ApplyAction(n, m, k, a) =
          [mem |-> [m EXCEPT !.entry[d].known = TRUE], disk |-> k]
    BY <1>1, <1>4, <1>6 DEF ApplyAction, Refused
  <2>2. PICK e : e = [E[d] EXCEPT !.known = TRUE]
    OBVIOUS
  <2>3. e \in Entries /\ e.doc = E[d].doc /\ e.log = E[d].log
    BY <1>5, <2>2 DEF Entries
  <2>4. PICK F : F = [E EXCEPT ![d] = e]
    OBVIOUS
  <2>5. F \in [DocId -> Entries] /\ F[d] = e /\ \A c \in DocId : c # d => F[c] = E[c]
    BY <2>3, <2>4
  <2>6. [m EXCEPT !.entry[d].known = TRUE] =
          [entry |-> F, names |-> N, hint |-> h, outbound |-> O]
    <3>1. [m EXCEPT !.entry[d].known = TRUE] =
            [m EXCEPT !.entry = [m.entry EXCEPT ![d] = [m.entry[d] EXCEPT !.known = TRUE]]]
      BY Zenon
    <3>2. [m EXCEPT !.entry[d].known = TRUE] = [m EXCEPT !.entry = F]
      BY <1>4, <2>2, <2>4, <3>1, Zenon
    <3>3. [[entry |-> E, names |-> N, hint |-> h, outbound |-> O] EXCEPT !.entry = F] =
            [entry |-> F, names |-> N, hint |-> h, outbound |-> O]
      OBVIOUS
    <3> QED BY <1>2, <3>2, <3>3, Zenon
  <2>7. PICK r : r = ApplyAction(n, m, k, a)
    OBVIOUS
  <2>8. /\ r.mem = [entry |-> F, names |-> N, hint |-> h, outbound |-> O]
        /\ r.disk = k
    BY <2>1, <2>6, <2>7
  <2>9. /\ r.mem.entry = F /\ r.mem.names = N /\ r.mem.hint = h
        /\ r.mem.outbound = O /\ r.mem \in Mems
    BY <2>5, <2>8 DEF Mems
  <2>10. Others(m, k, r, d)
    BY <1>4, <2>5, <2>8, <2>9 DEF Others
  <2>11. IsRefused(m, k, a, r)
    BY <1>1, <1>4, <1>6, <2>3, <2>5, <2>8, <2>9 DEF IsRefused
  <2> QED BY <1>1, <2>7, <2>8, <2>9, <2>10, <2>11 DEF TookIn
<1>7. CASE Precondition(E[d].doc, a)
  <2>1. PICK x : x = Extend(S[d].doc, E[d], a)
    OBVIOUS
  <2>2. Put(S[d].doc, E[d], a, x)
    BY <1>5, <2>1, ExtendFacts
  <2>3. x \in Entries /\ x.log # <<>>
    BY <2>2 DEF Put
  <2>4. PICK y : y = IF IsFull(x) THEN [x EXCEPT !.log = <<>>] ELSE x
    OBVIOUS
  <2>5. /\ y \in Entries /\ y.doc = x.doc
        /\ y.log = IF IsFull(x) THEN <<>> ELSE x.log
    <3>1. PICK z : z = [x EXCEPT !.log = <<>>]
      OBVIOUS
    <3>2. z \in Entries /\ z.doc = x.doc /\ z.log = <<>>
      <4>1. PICK b \in BOOLEAN, d1 \in DocState, l1 \in Seq(Issued) :
               x = [known |-> b, doc |-> d1, log |-> l1]
        BY <2>3 DEF Entries
      <4>2. z = [known |-> b, doc |-> d1, log |-> <<>>]
        BY <3>1, <4>1
      <4>3. <<>> \in Seq(Issued)
        OBVIOUS
      <4> QED BY <4>1, <4>2, <4>3 DEF Entries
    <3>3. y = IF IsFull(x) THEN z ELSE x
      BY <2>4, <3>1, Zenon
    <3> HIDE DEF IsFull
    <3> QED BY <2>3, <3>2, <3>3
  <2>6. PICK F : F = [E EXCEPT ![d] = y]
    OBVIOUS
  <2>7. F \in [DocId -> Entries] /\ F[d] = y /\ \A c \in DocId : c # d => F[c] = E[c]
    BY <2>5, <2>6
  <2>8. PICK M : M = SyncNames(N, d, x.doc)
    OBVIOUS
  <2>9. M \in [Name -> DocId \cup {NoDoc}]
    BY <2>3, <2>8, SyncNamesType DEF Entries
  <2>10. PICK g : g = IF Applies(E[d].doc, a) THEN LaterOf(h, a.ts) ELSE h
    OBVIOUS
  <2>11. g \in Nat /\ g >= h /\ (Applies(E[d].doc, a) => g >= a.ts)
    BY <1>5, <2>10 DEF LaterOf
  <2>12. PICK P : P = IF Applies(E[d].doc, a) /\ a.origin = n THEN O \cup {a} ELSE O
    OBVIOUS
  <2>13. P \in {O, O \cup {a}} /\ P \in SUBSET Issued
    BY <2>12
  <2>14. PICK q : q = IF IsFull(x) THEN Truncate(k, x, d) ELSE AppendLine(k, a)
    OBVIOUS
  <2>15. PICK r : r = ApplyAction(n, m, k, a)
    OBVIOUS
  <2>16. r = [mem |-> [entry |-> F, names |-> M, hint |-> g, outbound |-> P],
              disk |-> q]
    BY <1>1, <1>4, <1>7, <2>1, <2>4, <2>6, <2>8, <2>10, <2>12, <2>14, <2>15
       DEF ApplyAction, Accepted
  <2>17. /\ r.mem.entry = F /\ r.mem.names = M /\ r.mem.hint = g
         /\ r.mem.outbound = P /\ r.mem \in Mems /\ r.disk = q
    BY <2>7, <2>9, <2>11, <2>13, <2>16 DEF Mems
  <2>18. CASE IsFull(x)
    <3>1. q = [alog |-> [W EXCEPT ![d] = <<>>], snap |-> [S EXCEPT ![d] = SnapOf(x)],
               index |-> i]
      BY <1>3, <2>14, <2>18 DEF Truncate
    <3>2. SnapOf(x) \in Snap /\ <<>> \in Seq(Issued)
      BY <2>3, SnapOfType
    <3>3. /\ q \in Disks /\ q.index = i /\ q.alog[d] = <<>> /\ q.snap[d] = SnapOf(x)
          /\ \A c \in DocId : c # d => q.alog[c] = W[c] /\ q.snap[c] = S[c]
      BY <3>1, <3>2 DEF Disks
    <3>4. Others(m, k, r, d)
      BY <1>4, <2>7, <2>17, <3>3 DEF Others
    <3>5. Stored(x, a, W[d], S[d], y, q.alog[d], q.snap[d])
      BY <2>5, <2>18, <3>3 DEF Stored
    <3>6. IsAccepted(m, k, a, r, x)
      BY <1>1, <1>4, <1>7, <2>2, <2>7, <2>8, <2>11, <2>13, <2>17, <3>5 DEF IsAccepted
    <3> QED BY <1>1, <1>4, <2>3, <2>15, <2>17, <3>3, <3>4, <3>6 DEF TookIn
  <2>19. CASE ~ IsFull(x)
    <3>1. q = [alog |-> [W EXCEPT ![d] = Append(W[d], a)], snap |-> S, index |-> i]
      BY <1>1, <1>3, <2>14, <2>19 DEF AppendLine
    <3>2. Append(W[d], a) \in Seq(Issued)
      BY <1>5
    <3>3. /\ q \in Disks /\ q.index = i /\ q.alog[d] = Append(W[d], a) /\ q.snap[d] = S[d]
          /\ \A c \in DocId : c # d => q.alog[c] = W[c] /\ q.snap[c] = S[c]
      BY <3>1, <3>2 DEF Disks
    <3>4. Others(m, k, r, d)
      BY <1>4, <2>7, <2>17, <3>3 DEF Others
    <3>5. Stored(x, a, W[d], S[d], y, q.alog[d], q.snap[d])
      BY <2>5, <2>19, <3>3 DEF Stored
    <3>6. IsAccepted(m, k, a, r, x)
      BY <1>1, <1>4, <1>7, <2>2, <2>7, <2>8, <2>11, <2>13, <2>17, <3>5 DEF IsAccepted
    <3> QED BY <1>1, <1>4, <2>3, <2>15, <2>17, <3>3, <3>4, <3>6 DEF TookIn
  <2> QED BY <2>18, <2>19
<1> QED BY <1>6, <1>7

-----------------------------------------------------------------------------
(* The types of the state, and where every action comes from.              *)

StoreTypes ==
    /\ mem \in [Origin -> Mems] /\ disk \in [Origin -> Disks]
    /\ up \in [Origin -> BOOLEAN]
    /\ built \in SUBSET Issued /\ IsFiniteSet(built)
    /\ taken \in [Origin -> 0..MaxTaken] /\ crashed \in 0..Crashes

EntryOf(n, d) == mem[n].entry[d]
SnapOn(n, d) == disk[n].snap[d]
LogOn(n, d) == disk[n].alog[d]

\* Every action anywhere was built, under a hash of its own, and a document's
\* logs hold its actions.
Sources ==
    /\ HashesUnique(built) /\ \A a \in built : a.id <= Cardinality(built)
    /\ wire \subseteq built /\ proposed \subseteq built
    /\ \A n \in Origin : mem[n].outbound \subseteq built
    /\ \A n \in Origin, d \in DocId :
          \A a \in Range(EntryOf(n, d).log) \cup Range(LogOn(n, d)) :
              a \in built /\ a.doc = d

\* The greatest of finitely many naturals.
LEMMA MaxFacts ==
    ASSUME NEW S \in SUBSET Nat, IsFiniteSet(S), S # {}
    PROVE  Max(S) \in S /\ \A y \in S : Max(S) >= y
<1>1. \E x \in S : \A y \in S : x >= y
  BY GreatestExists
<1> QED BY <1>1 DEF Max

\* A set of the timestamps of built actions is finite.
LEMMA StampsFinite ==
    ASSUME NEW B \in SUBSET Issued, IsFiniteSet(B), NEW T,
           \A t \in T : \E a \in B : a.ts = t
    PROVE  IsFiniteSet(T) /\ T \in SUBSET Nat
<1> DEFINE U == {a \in B : a.ts \in T}
           f == [a \in U |-> a.ts]
<1>1. IsFiniteSet(U)
  BY FS_Subset
<1>2. f \in Surjection(U, T)
  BY DEF Surjection
<1>3. IsFiniteSet(T)
  <2> HIDE DEF U, f
  <2> QED BY <1>1, <1>2, FS_Surjection
<1>4. \A a \in B : a.ts \in Nat
  BY DEF Issued, Action
<1> QED BY <1>3, <1>4

\* A memory that differs from m in what an operation does before it applies
\* its action: the entry is made known and the high-water mark raised.
Readied(m, q) ==
    /\ q \in Mems /\ q.names = m.names /\ q.outbound = m.outbound
    /\ q.hint >= m.hint
    /\ \A d \in DocId : /\ q.entry[d].doc = m.entry[d].doc
                        /\ q.entry[d].log = m.entry[d].log

\* The two ways an operation readies its memory.
LEMMA ReadiedFacts ==
    ASSUME NEW m \in Mems, NEW t \in Nat, t >= m.hint
    PROVE  /\ Readied(m, m)
           /\ Readied(m, [m EXCEPT !.hint = t]) /\ [m EXCEPT !.hint = t].hint = t
           /\ \A d \in DocId :
                 /\ Readied(m, [m EXCEPT !.entry[d].known = TRUE, !.hint = t])
                 /\ [m EXCEPT !.entry[d].known = TRUE, !.hint = t].hint = t
<1>1. PICK E \in [DocId -> Entries], N \in [Name -> DocId \cup {NoDoc}],
           h \in Nat, O \in SUBSET Issued :
         m = [entry |-> E, names |-> N, hint |-> h, outbound |-> O]
  BY DEF Mems
<1>2. m.entry = E /\ m.names = N /\ m.hint = h /\ m.outbound = O
  BY <1>1
<1>3. Readied(m, m)
  BY <1>2 DEF Readied
<1>4. PICK q : q = [m EXCEPT !.hint = t]
  OBVIOUS
<1>5. q = [entry |-> E, names |-> N, hint |-> t, outbound |-> O]
  BY <1>1, <1>4
<1>6. q \in Mems /\ q.entry = E /\ q.names = N /\ q.hint = t /\ q.outbound = O
  BY <1>5 DEF Mems
<1>7. Readied(m, q)
  BY <1>2, <1>6 DEF Readied
<1>8. ASSUME NEW d \in DocId
      PROVE  /\ Readied(m, [m EXCEPT !.entry[d].known = TRUE, !.hint = t])
             /\ [m EXCEPT !.entry[d].known = TRUE, !.hint = t].hint = t
  <2>1. PICK e : e = [E[d] EXCEPT !.known = TRUE]
    OBVIOUS
  <2>2. e \in Entries /\ e.doc = E[d].doc /\ e.log = E[d].log
    BY <2>1 DEF Entries
  <2>3. PICK F : F = [E EXCEPT ![d] = e]
    OBVIOUS
  <2>4. F \in [DocId -> Entries] /\ F[d] = e /\ \A c \in DocId : c # d => F[c] = E[c]
    BY <2>2, <2>3
  <2>5. PICK r : r = [m EXCEPT !.entry[d].known = TRUE, !.hint = t]
    OBVIOUS
  <2>6. r = [[m EXCEPT !.entry = [m.entry EXCEPT ![d] = [m.entry[d] EXCEPT !.known = TRUE]]]
               EXCEPT !.hint = t]
    BY <2>5, Zenon
  <2>7. r = [[m EXCEPT !.entry = F] EXCEPT !.hint = t]
    BY <1>2, <2>1, <2>3, <2>6, Zenon
  <2>8. [m EXCEPT !.entry = F] = [entry |-> F, names |-> N, hint |-> h, outbound |-> O]
    BY <1>1
  <2>9. r = [entry |-> F, names |-> N, hint |-> t, outbound |-> O]
    <3>1. PICK m1 : m1 = [m EXCEPT !.entry = F]
      OBVIOUS
    <3>2. r = [m1 EXCEPT !.hint = t]
      BY <2>7, <3>1, Zenon
    <3>3. m1 = [entry |-> F, names |-> N, hint |-> h, outbound |-> O]
      BY <2>8, <3>1, Zenon
    <3> QED BY <3>2, <3>3
  <2>10. r \in Mems /\ r.entry = F /\ r.names = N /\ r.hint = t /\ r.outbound = O
    BY <2>4, <2>9 DEF Mems
  <2>11. Readied(m, r)
    BY <1>2, <2>2, <2>4, <2>10 DEF Readied
  <2> QED BY <2>5, <2>10, <2>11
<1> QED BY <1>3, <1>4, <1>6, <1>7, <1>8

\* The parts of a built action.
IsBuilt(a, n, m, d, q, t, id) ==
    /\ a.id = id /\ a.doc = d /\ a.kind = q.kind /\ a.key = q.key /\ a.name = q.name
    /\ a.ts = t /\ a.origin = n /\ a.clock = Tick(m.entry[d].doc.clock, n)
    /\ a.prev = IF m.entry[d].log = <<>> THEN NoHash ELSE Last(m.entry[d].log).id

\* What the store builds is an action it can issue.
LEMMA BuildActionFacts ==
    ASSUME NEW n \in Origin, NEW m \in Mems, NEW d \in DocId,
           NEW q \in Request(Kinds) \cup Request({"name"}),
           NEW t \in Nat, NEW id \in Nat \ {0}
    PROVE  /\ BuildAction(n, m, d, q, t, id) \in Issued
           /\ IsBuilt(BuildAction(n, m, d, q, t, id), n, m, d, q, t, id)
<1> DEFINE a == BuildAction(n, m, d, q, t, id)
<1>1. IsBuilt(a, n, m, d, q, t, id)
  BY DEF IsBuilt, BuildAction
<1>2. m.entry[d] \in Entries
  BY DEF Mems
<1>3. m.entry[d].doc.clock \in Clock /\ m.entry[d].log \in Seq(Issued)
  BY <1>2 DEF Entries, DocState
<1>4. a.clock \in Clock
  <2>1. PICK c \in Clock : c = m.entry[d].doc.clock
    BY <1>3
  <2>2. a.clock = Tick(c, n)
    BY <1>1, <2>1 DEF IsBuilt
  <2>3. Tick(c, n) \in Clock
    BY DEF Tick, Clock
  <2> QED BY <2>2, <2>3
<1>5. a.prev \in Nat
  <2>1. CASE m.entry[d].log = <<>>
    BY <1>1, <2>1 DEF IsBuilt, NoHash
  <2>2. CASE m.entry[d].log # <<>>
    <3>1. PICK f \in Seq(Issued), b \in Issued : m.entry[d].log = Append(f, b)
      BY <1>3, <2>2, SeqFrontLast
    <3>2. Last(m.entry[d].log) = b
      BY <3>1 DEF Last
    <3>3. b.id \in Nat
      BY DEF Issued, Action
    <3> QED BY <1>1, <2>2, <3>2, <3>3 DEF IsBuilt
  <2> QED BY <2>1, <2>2
<1>6. /\ q.kind \in ActionKind /\ q.key \in Key \cup {NoKey}
      /\ q.name \in Name \cup {NoName}
      /\ q.kind \in {"set", "unset", "claim"} => q.key \in Key
      /\ q.kind = "name" => q.name \in Name
  BY DEF Request, ActionKind, OpKind
<1>7. a = [id |-> a.id, doc |-> a.doc, kind |-> a.kind, key |-> a.key,
           name |-> a.name, ts |-> a.ts, origin |-> a.origin,
           clock |-> a.clock, prev |-> a.prev]
  BY DEF BuildAction
<1> HIDE DEF a
<1>8. a \in Action
  BY <1>1, <1>4, <1>5, <1>6, <1>7 DEF IsBuilt, Action, NoHash
<1>9. WellFormed(a)
  BY <1>1, <1>6 DEF IsBuilt, WellFormed
<1>10. a \in Issued
  BY <1>8, <1>9 DEF Issued
<1> QED BY <1>1, <1>10 DEF a

-----------------------------------------------------------------------------
(* The steps of the store, in the terms of the proofs.                     *)

\* A running node n takes action a into a readied memory m.
Takes(n, m, a) ==
    /\ up[n] /\ Readied(mem[n], m)
    /\ \E r : /\ TookIn(m, disk[n], a, r)
              /\ mem' = [mem EXCEPT ![n] = r.mem]
              /\ disk' = [disk EXCEPT ![n] = r.disk]
    /\ taken' \in [Origin -> 0..MaxTaken]
    /\ UNCHANGED <<up, wire, proposed, crashed>>

\* Node n has just built the action.
IsNew(n, a) ==
    /\ a.id = Cardinality(built) + 1 /\ built' = built \cup {a}
    /\ a.origin = n /\ a.ts > mem[n].hint
    /\ a.clock = Tick(EntryOf(n, a.doc).doc.clock, n)
    /\ \/ /\ a.kind = "name" /\ \A b \in built : b.doc # a.doc
       \/ a.kind \in Kinds /\ a.doc \in Named(n)

\* The action came over the network or as a proposal.
IsOld(a) == a \in wire \cup proposed /\ built' = built

TakeStep(n, m, a) ==
    /\ n \in Origin /\ m \in Mems /\ a \in Issued
    /\ Takes(n, m, a)
    /\ \/ IsNew(n, a) /\ m.hint = a.ts
       \/ IsOld(a) /\ m = mem[n]

ProposeStep(n, a) ==
    /\ n \in Origin /\ a \in Issued /\ IsNew(n, a)
    /\ Cardinality(proposed) < Proposals
    /\ \E m \in Mems : /\ Readied(mem[n], m) /\ m.hint = a.ts
                       /\ m.entry = mem[n].entry
                       /\ mem' = [mem EXCEPT ![n] = m]
    /\ proposed' = proposed \cup {a}
    /\ UNCHANGED <<disk, up, wire, taken, crashed>>

PublishStep(n) ==
    /\ n \in Origin
    /\ \E m \in Mems : /\ m.entry = mem[n].entry /\ m.names = mem[n].names
                       /\ m.hint = mem[n].hint /\ m.outbound = {}
                       /\ mem' = [mem EXCEPT ![n] = m]
    /\ wire' = wire \cup mem[n].outbound
    /\ UNCHANGED <<disk, up, proposed, built, taken, crashed>>

CatchUpStep(n, d) ==
    /\ n \in Origin /\ d \in DocId
    /\ \E A \in SUBSET Range(EntryOf(n, d).log) : wire' = wire \cup A
    /\ UNCHANGED <<mem, disk, up, proposed, built, taken, crashed>>

GoesDown(n) ==
    /\ n \in Origin /\ up[n] /\ crashed < Crashes
    /\ up' = [up EXCEPT ![n] = FALSE] /\ crashed' = crashed + 1
    /\ UNCHANGED <<wire, proposed, built>>

CrashStep(n) == GoesDown(n) /\ UNCHANGED <<mem, disk, taken>>

\* Node n crashes in the snapshot that follows action a.
CutStep(n, a, x) ==
    /\ GoesDown(n) /\ a \in wire /\ x \in Entries
    /\ Precondition(EntryOf(n, a.doc).doc, a)
    /\ Put(SnapOn(n, a.doc).doc, EntryOf(n, a.doc), a, x)
    /\ \E m \in Mems : /\ m.entry = [mem[n].entry EXCEPT ![a.doc] = x]
                       /\ m.names = mem[n].names /\ m.hint = mem[n].hint
                       /\ m.outbound = mem[n].outbound
                       /\ mem' = [mem EXCEPT ![n] = m]
    /\ \E k \in Disks :
          /\ k.alog = [disk[n].alog EXCEPT ![a.doc] = Append(LogOn(n, a.doc), a)]
          /\ k.snap = [disk[n].snap EXCEPT ![a.doc] = SnapOf(x)]
          /\ k.index = disk[n].index
          /\ disk' = [disk EXCEPT ![n] = k]
    /\ taken' \in [Origin -> 0..MaxTaken]

RestartStep(n) ==
    /\ n \in Origin /\ ~ up[n] /\ up' = [up EXCEPT ![n] = TRUE]
    /\ \E m \in Mems : /\ \A d \in DocId :
                             Restored(SnapOn(n, d).doc, LogOn(n, d), m.entry[d])
                       /\ \A s \in Name :
                             m.names[s] # NoDoc => m.entry[m.names[s]].doc.name = s
                       /\ m.outbound = {}
                       /\ mem' = [mem EXCEPT ![n] = m]
    /\ \E k \in Disks : /\ k.alog = disk[n].alog /\ k.snap = disk[n].snap
                        /\ disk' = [disk EXCEPT ![n] = k]
    /\ UNCHANGED <<wire, proposed, built, taken, crashed>>

StoreStep ==
    \/ \E n, m, a : TakeStep(n, m, a)
    \/ \E n, a : ProposeStep(n, a)
    \/ \E n : PublishStep(n) \/ CrashStep(n) \/ RestartStep(n)
    \/ \E n, d : CatchUpStep(n, d)
    \/ \E n, a, x : CutStep(n, a, x)

\* A node that takes an action in does what `apply_action` does.
LEMMA TakeTakes ==
    ASSUME StoreTypes, NEW n \in Origin, up[n], NEW m \in Mems,
           Readied(mem[n], m), NEW a \in Issued,
           Take(n, m, a), UNCHANGED <<up, wire, proposed, crashed>>
    PROVE  Takes(n, m, a)
<1>1. disk[n] \in Disks
  BY DEF StoreTypes
<1>2. PICK r : r = ApplyAction(n, m, disk[n], a)
  OBVIOUS
<1>3. TookIn(m, disk[n], a, r)
  BY <1>1, <1>2, ApplyActionTakesIn
<1>4. /\ mem' = [mem EXCEPT ![n] = r.mem] /\ disk' = [disk EXCEPT ![n] = r.disk]
      /\ TakeOne(n)
  BY <1>2 DEF Take
<1>5. taken' \in [Origin -> 0..MaxTaken]
  BY <1>4, StoreAssumption DEF TakeOne, StoreTypes
<1> QED BY <1>3, <1>4, <1>5 DEF Takes

\* The operations of the users.
LEMMA CreateDocTakes ==
    ASSUME StoreTypes, NEW n \in Origin, NEW d \in DocId, NEW s \in Name,
           NEW t \in 1..MaxTs, CreateDoc(n, d, s, t)
    PROVE  \E m, a : TakeStep(n, m, a)
<1> DEFINE q == [kind |-> "name", key |-> NoKey, name |-> s]
<1>1. PICK m : m = [mem[n] EXCEPT !.entry[d].known = TRUE, !.hint = t]
  OBVIOUS
<1>2. PICK a : a = BuildAction(n, m, d, q, t, NextId)
  OBVIOUS
<1>3. /\ CanBuild(n, t) /\ (\A b \in built : b.doc # d)
      /\ Take(n, m, a) /\ built' = built \cup {a}
      /\ UNCHANGED <<up, wire, proposed, crashed>>
  BY <1>1, <1>2 DEF CreateDoc
<1>4. mem[n] \in Mems /\ t \in Nat /\ mem[n].hint \in Nat
  BY StoreAssumption DEF StoreTypes, Mems
<1>5. up[n] /\ t > mem[n].hint
  BY <1>3 DEF CanBuild
<1>6. Readied(mem[n], m) /\ m.hint = t
  <2>1. t >= mem[n].hint
    BY <1>4, <1>5
  <2> QED BY <1>1, <1>4, <2>1, ReadiedFacts, ZenonT(60)
<1>7. m \in Mems /\ m.entry[d].doc = mem[n].entry[d].doc
  BY <1>6 DEF Readied
<1>8. NextId \in Nat \ {0} /\ NextId = Cardinality(built) + 1
  BY FS_CardinalityType DEF StoreTypes, NextId
<1>9. q \in Request({"name"})
  BY DEF Request
<1> HIDE DEF q
<1>10. a \in Issued /\ IsBuilt(a, n, m, d, q, t, NextId)
  BY <1>2, <1>4, <1>7, <1>8, <1>9, BuildActionFacts
<1>11. Takes(n, m, a)
  BY <1>3, <1>5, <1>6, <1>7, <1>10, TakeTakes
<1>12. IsNew(n, a) /\ m.hint = a.ts
  BY <1>3, <1>5, <1>6, <1>7, <1>8, <1>10 DEF IsNew, IsBuilt, EntryOf, q
<1> QED BY <1>7, <1>10, <1>11, <1>12 DEF TakeStep

\* `apply_local_action` makes the node take in an action it has just built.
LEMMA ApplyLocalTakes ==
    ASSUME StoreTypes, NEW n \in Origin, NEW d \in DocId, NEW q \in Request(Kinds),
           NEW t \in 1..MaxTs, ApplyLocal(n, d, q, t)
    PROVE  \E m, a : TakeStep(n, m, a)
<1>1. PICK m : m = [mem[n] EXCEPT !.hint = t]
  OBVIOUS
<1>2. PICK a : a = BuildAction(n, mem[n], d, q, t, NextId)
  OBVIOUS
<1>3. /\ CanBuild(n, t) /\ d \in Named(n)
      /\ Take(n, m, a) /\ built' = built \cup {a}
      /\ UNCHANGED <<up, wire, proposed, crashed>>
  BY <1>1, <1>2 DEF ApplyLocal
<1>4. mem[n] \in Mems /\ t \in Nat /\ mem[n].hint \in Nat
  BY StoreAssumption DEF StoreTypes, Mems
<1>5. up[n] /\ t > mem[n].hint
  BY <1>3 DEF CanBuild
<1>6. Readied(mem[n], m) /\ m.hint = t
  <2>1. t >= mem[n].hint
    BY <1>4, <1>5
  <2> QED BY <1>1, <1>4, <2>1, ReadiedFacts, ZenonT(60)
<1>7. m \in Mems
  BY <1>6 DEF Readied
<1>8. NextId \in Nat \ {0} /\ NextId = Cardinality(built) + 1
  BY FS_CardinalityType DEF StoreTypes, NextId
<1>9. a \in Issued /\ IsBuilt(a, n, mem[n], d, q, t, NextId)
  BY <1>2, <1>4, <1>8, BuildActionFacts
<1>10. Takes(n, m, a)
  BY <1>3, <1>5, <1>6, <1>7, <1>9, TakeTakes
<1>11. q.kind \in Kinds
  BY DEF Request
<1>12. IsNew(n, a) /\ m.hint = a.ts
  BY <1>3, <1>5, <1>6, <1>8, <1>9, <1>11 DEF IsNew, IsBuilt, EntryOf
<1> QED BY <1>7, <1>9, <1>10, <1>12 DEF TakeStep

\* `build_local_action` makes a new action and applies nothing.
LEMMA ProposeProposes ==
    ASSUME StoreTypes, NEW n \in Origin, NEW d \in DocId, NEW q \in Request(Kinds),
           NEW t \in 1..MaxTs, Propose(n, d, q, t)
    PROVE  \E a : ProposeStep(n, a)
<1>1. PICK m : m = [mem[n] EXCEPT !.hint = t]
  OBVIOUS
<1>2. PICK a : a = BuildAction(n, mem[n], d, q, t, NextId)
  OBVIOUS
<1>3. /\ CanBuild(n, t) /\ d \in Named(n) /\ Cardinality(proposed) < Proposals
      /\ mem' = [mem EXCEPT ![n].hint = t]
      /\ proposed' = proposed \cup {a} /\ built' = built \cup {a}
      /\ UNCHANGED <<disk, up, wire, taken, crashed>>
  BY <1>2 DEF Propose
<1>4. mem[n] \in Mems /\ t \in Nat /\ mem[n].hint \in Nat
  BY StoreAssumption DEF StoreTypes, Mems
<1>5. up[n] /\ t > mem[n].hint
  BY <1>3 DEF CanBuild
<1>6. Readied(mem[n], m) /\ m.hint = t
  <2>1. t >= mem[n].hint
    BY <1>4, <1>5
  <2> QED BY <1>1, <1>4, <2>1, ReadiedFacts, ZenonT(60)
<1>7. m \in Mems /\ m.entry = mem[n].entry
  BY <1>1, <1>4, <1>6 DEF Readied, Mems
<1>8. NextId \in Nat \ {0} /\ NextId = Cardinality(built) + 1
  BY FS_CardinalityType DEF StoreTypes, NextId
<1>9. a \in Issued /\ IsBuilt(a, n, mem[n], d, q, t, NextId)
  BY <1>2, <1>4, <1>8, BuildActionFacts
<1>10. q.kind \in Kinds
  BY DEF Request
<1>11. IsNew(n, a) /\ m.hint = a.ts
  BY <1>3, <1>5, <1>6, <1>8, <1>9, <1>10 DEF IsNew, IsBuilt, EntryOf
<1>12. mem' = [mem EXCEPT ![n] = m]
  BY <1>1, <1>3
<1> QED BY <1>3, <1>6, <1>7, <1>9, <1>11, <1>12 DEF ProposeStep

\* A signed or a remote action.
LEMMA ArrivalTakes ==
    ASSUME StoreTypes, Sources, NEW n \in Origin, NEW a \in wire \cup proposed,
           Submit(n, a) \/ Deliver(n, a)
    PROVE  TakeStep(n, mem[n], a)
<1>1. a \in Issued /\ mem[n] \in Mems /\ mem[n].hint \in Nat
  BY DEF StoreTypes, Sources, Mems
<1>2. /\ up[n] /\ Take(n, mem[n], a)
      /\ UNCHANGED <<up, wire, proposed, built, crashed>>
  BY DEF Submit, Deliver
<1>3. Readied(mem[n], mem[n])
  BY <1>1 DEF Readied
<1>4. Takes(n, mem[n], a)
  BY <1>1, <1>2, <1>3, TakeTakes
<1> QED BY <1>1, <1>2, <1>4 DEF TakeStep, IsOld

\* Publishing.
LEMMA PublishPublishes ==
    ASSUME StoreTypes, NEW n \in Origin, Publish(n)
    PROVE  PublishStep(n)
<1>1. mem[n] \in Mems
  BY DEF StoreTypes
<1>2. PICK m : m = [mem[n] EXCEPT !.outbound = {}]
  OBVIOUS
<1>3. /\ m \in Mems /\ m.entry = mem[n].entry /\ m.names = mem[n].names
      /\ m.hint = mem[n].hint /\ m.outbound = {}
  BY <1>1, <1>2 DEF Mems
<1>4. mem' = [mem EXCEPT ![n] = m]
  BY <1>2 DEF Publish
<1> QED BY <1>3, <1>4 DEF PublishStep, Publish

\* A crash in a snapshot.
LEMMA CrashCuts ==
    ASSUME StoreTypes, Sources, NEW n \in Origin, NEW a \in wire,
           CrashBeforeTruncate(n, a)
    PROVE  \E x : CutStep(n, a, x)
<1>1. a \in Issued /\ mem[n] \in Mems /\ disk[n] \in Disks
  BY DEF StoreTypes, Sources
<1>2. PICK d \in DocId : d = a.doc
  BY <1>1 DEF Issued, Action
<1>3. PICK E \in [DocId -> Entries], N \in [Name -> DocId \cup {NoDoc}],
           h \in Nat, O \in SUBSET Issued :
         mem[n] = [entry |-> E, names |-> N, hint |-> h, outbound |-> O]
  BY <1>1 DEF Mems
<1>4. PICK W \in [DocId -> Seq(Issued)], S \in [DocId -> Snap], i \in Nat :
         disk[n] = [alog |-> W, snap |-> S, index |-> i]
  BY <1>1 DEF Disks
<1>5. /\ mem[n].entry = E /\ mem[n].names = N /\ mem[n].hint = h /\ mem[n].outbound = O
      /\ disk[n].alog = W /\ disk[n].snap = S /\ disk[n].index = i
  BY <1>3, <1>4
<1>6. E[d] \in Entries /\ W[d] \in Seq(Issued) /\ S[d].doc \in DocState
  BY DEF Snap
<1>7. PICK x : x = Extend(S[d].doc, E[d], a)
  OBVIOUS
<1>8. Put(S[d].doc, E[d], a, x)
  BY <1>1, <1>6, <1>7, ExtendFacts
<1>9. x \in Entries /\ x.log # <<>>
  BY <1>8 DEF Put
<1>10. SnapOf(x) \in Snap
  BY <1>9, SnapOfType
<1>11. Extended(n, a) = x
  BY <1>2, <1>5, <1>7 DEF Extended
<1>12. /\ CrashApplying(n, a)
       /\ mem' = [mem EXCEPT ![n].entry[a.doc] = x]
       /\ disk' = [disk EXCEPT ![n] = [AppendLine(@, a) EXCEPT !.snap[a.doc] = SnapOf(x)]]
  BY <1>11 DEF CrashBeforeTruncate, CrashInSnapshot
<1>13. /\ TakeOne(n) /\ Precondition(E[d].doc, a) /\ GoesDown(n)
  BY <1>2, <1>5, <1>12 DEF CrashApplying, GoDown, GoesDown
<1>14. taken' \in [Origin -> 0..MaxTaken]
  BY <1>13, StoreAssumption DEF TakeOne, StoreTypes
<1>15. PICK m : m = [entry |-> [E EXCEPT ![d] = x], names |-> N, hint |-> h,
                     outbound |-> O]
  OBVIOUS
<1>16. /\ m \in Mems /\ m.entry = [E EXCEPT ![d] = x] /\ m.names = N /\ m.hint = h
       /\ m.outbound = O
  BY <1>9, <1>15 DEF Mems
<1>17. mem' = [mem EXCEPT ![n] = m]
  <2>1. mem' = [mem EXCEPT ![n] = [mem[n] EXCEPT !.entry = [mem[n].entry EXCEPT ![d] = x]]]
    BY <1>2, <1>12, Zenon
  <2>2. \A F : [mem[n] EXCEPT !.entry = F] =
                 [entry |-> F, names |-> N, hint |-> h, outbound |-> O]
    BY <1>3
  <2>3. [mem[n] EXCEPT !.entry = [E EXCEPT ![d] = x]] = m
    BY <1>15, <2>2, Zenon
  <2> QED BY <1>5, <2>1, <2>3, Zenon
<1>18. PICK k : k = [alog |-> [W EXCEPT ![d] = Append(W[d], a)],
                     snap |-> [S EXCEPT ![d] = SnapOf(x)], index |-> i]
  OBVIOUS
<1>19. /\ k \in Disks /\ k.alog = [W EXCEPT ![d] = Append(W[d], a)]
       /\ k.snap = [S EXCEPT ![d] = SnapOf(x)] /\ k.index = i
  <2>1. Append(W[d], a) \in Seq(Issued)
    BY <1>1, <1>6
  <2> QED BY <1>10, <1>18, <2>1 DEF Disks
<1>20. disk' = [disk EXCEPT ![n] = k]
  <2>1. PICK k1 : k1 = AppendLine(disk[n], a)
    OBVIOUS
  <2>2. k1 = [alog |-> [W EXCEPT ![d] = Append(W[d], a)], snap |-> S, index |-> i]
    <3>1. PICK k0 : k0 = disk[n]
      OBVIOUS
    <3>2. k0 = [alog |-> W, snap |-> S, index |-> i]
      BY <1>4, <3>1, Zenon
    <3>3. \A V : [k0 EXCEPT !.alog = V] = [alog |-> V, snap |-> S, index |-> i]
      BY <3>2
    <3>4. \A V : [disk[n] EXCEPT !.alog = V] = [alog |-> V, snap |-> S, index |-> i]
      BY <3>1, <3>3, Zenon
    <3>5. k1 = [disk[n] EXCEPT !.alog = [disk[n].alog EXCEPT ![d] =
                                            Append(disk[n].alog[d], a)]]
      BY <1>2, <2>1, Zenon DEF AppendLine
    <3> QED BY <1>5, <3>4, <3>5, Zenon
  <2>3. disk' = [disk EXCEPT ![n] = [k1 EXCEPT !.snap[d] = SnapOf(x)]]
    BY <1>2, <1>12, <2>1, Zenon
  <2>4. [k1 EXCEPT !.snap[d] = SnapOf(x)] = k
    <3>1. PICK V : V = [W EXCEPT ![d] = Append(W[d], a)]
      OBVIOUS
    <3>2. k1 = [alog |-> V, snap |-> S, index |-> i]
      BY <2>2, <3>1, Zenon
    <3>3. k1.snap = S
      BY <3>2
    <3>4. \A T : [k1 EXCEPT !.snap = T] = [alog |-> V, snap |-> T, index |-> i]
      BY <3>2
    <3>5. [k1 EXCEPT !.snap[d] = SnapOf(x)] =
            [k1 EXCEPT !.snap = [k1.snap EXCEPT ![d] = SnapOf(x)]]
      BY Zenon
    <3> QED BY <1>18, <3>1, <3>3, <3>4, <3>5, Zenon
  <2> QED BY <2>3, <2>4, Zenon
<1>21. Put(SnapOn(n, a.doc).doc, EntryOf(n, a.doc), a, x)
  BY <1>2, <1>5, <1>8 DEF SnapOn, EntryOf
<1>22. Precondition(EntryOf(n, a.doc).doc, a)
  BY <1>2, <1>5, <1>13 DEF EntryOf
<1>23. /\ m.entry = [mem[n].entry EXCEPT ![a.doc] = x]
       /\ k.alog = [disk[n].alog EXCEPT ![a.doc] = Append(LogOn(n, a.doc), a)]
       /\ k.snap = [disk[n].snap EXCEPT ![a.doc] = SnapOf(x)]
  BY <1>2, <1>5, <1>16, <1>19 DEF LogOn
<1> QED BY <1>5, <1>9, <1>13, <1>14, <1>16, <1>17, <1>19, <1>20, <1>21, <1>22, <1>23
        DEF CutStep

\* What a restored entry holds comes from the files.
LEMMA RestoredLog ==
    ASSUME NEW base \in DocState, NEW log \in Seq(Issued), NEW e,
           Restored(base, log, e)
    PROVE  Range(e.log) \subseteq Range(log)
<1>1. Canonical(log) \in Seq(Issued) /\ Range(Canonical(log)) = Range(log)
  BY CanonicalFacts
<1>2. ReplayHolds(base, Canonical(log), ReplayOver(base, Canonical(log)))
  BY <1>1, ReplayOverHolds
<1>3. NewEntry.log = <<>>
  BY DEF NewEntry
<1> QED BY <1>1, <1>2, <1>3, RangeFacts DEF Restored, ReplayHolds

\* A restart builds a memory from the files.
LEMMA RestartRestarts ==
    ASSUME StoreTypes, Sources, NEW n \in Origin, Restart(n)
    PROVE  RestartStep(n)
<1>1. disk[n] \in Disks
  BY DEF StoreTypes
<1>2. PICK W \in [DocId -> Seq(Issued)], S \in [DocId -> Snap], i \in Nat :
         disk[n] = [alog |-> W, snap |-> S, index |-> i]
  BY <1>1 DEF Disks
<1>3. disk[n].alog = W /\ disk[n].snap = S /\ disk[n].index = i
  BY <1>2
<1>4. PICK E : E = [d \in DocId |-> Replay(S[d], W[d])]
  OBVIOUS
<1>5. ASSUME NEW d \in DocId
      PROVE  /\ Restored(S[d].doc, W[d], E[d]) /\ E[d] \in Entries
             /\ Range(E[d].log) \subseteq built
  <2>1. S[d] \in Snap /\ W[d] \in Seq(Issued) /\ S[d].doc \in DocState
    BY DEF Snap
  <2>2. Restored(S[d].doc, W[d], E[d])
    BY <1>4, <2>1, ReplayRestores
  <2>3. Range(E[d].log) \subseteq Range(W[d])
    BY <2>1, <2>2, RestoredLog
  <2>4. Range(W[d]) \subseteq built
    BY <1>3 DEF Sources, LogOn
  <2> QED BY <2>2, <2>3, <2>4 DEF Restored
<1>6. E \in [DocId -> Entries]
  BY <1>4, <1>5
<1> DEFINE owners(s) == {d \in DocId : E[d].known /\ E[d].doc.name = s}
           stamps == UNION {{a.ts : a \in Range(E[d].log)} : d \in DocId}
<1>7. PICK h : h = Max(stamps \cup {i})
  OBVIOUS
<1>8. h \in Nat
  <2>1. \A t \in stamps : \E a \in built : a.ts = t
    BY <1>5
  <2> HIDE DEF stamps
  <2>2. IsFiniteSet(stamps) /\ stamps \in SUBSET Nat
    BY <2>1, StampsFinite DEF StoreTypes
  <2>3. IsFiniteSet(stamps \cup {i})
    BY <2>2, FS_AddElement
  <2> QED BY <1>7, <2>2, <2>3, MaxFacts
<1>9. PICK N : N = [s \in Name |-> Max(owners(s) \cup {NoDoc})]
  OBVIOUS
<1>10. /\ N \in [Name -> DocId \cup {NoDoc}]
       /\ \A s \in Name : N[s] # NoDoc => E[N[s]].doc.name = s
  <2> SUFFICES ASSUME NEW s \in Name
               PROVE  LET g == Max(owners(s) \cup {NoDoc})
                      IN  /\ g \in DocId \cup {NoDoc}
                          /\ g # NoDoc => E[g].doc.name = s
    BY <1>9
  <2>1. owners(s) \subseteq DocId /\ \A d \in owners(s) : E[d].doc.name = s
    OBVIOUS
  <2> HIDE DEF owners
  <2>2. IsFiniteSet(owners(s)) /\ owners(s) \in SUBSET Nat
    BY <2>1, DocIdAssumption, FS_Subset
  <2>3. IsFiniteSet(owners(s) \cup {NoDoc}) /\ owners(s) \cup {NoDoc} \in SUBSET Nat
    BY <2>2, FS_AddElement DEF NoDoc
  <2>4. Max(owners(s) \cup {NoDoc}) \in owners(s) \cup {NoDoc}
    BY <2>3, MaxFacts
  <2> QED BY <2>1, <2>4
<1>11. PICK m : m = [entry |-> E, names |-> N, hint |-> h, outbound |-> {}]
  OBVIOUS
<1>12. m \in Mems /\ m.entry = E /\ m.names = N /\ m.outbound = {}
  BY <1>6, <1>8, <1>10, <1>11 DEF Mems
<1>13. PICK k : k = [disk[n] EXCEPT !.index = h]
  OBVIOUS
<1>14. k \in Disks /\ k.alog = disk[n].alog /\ k.snap = disk[n].snap
  BY <1>1, <1>8, <1>13 DEF Disks
<1>15. /\ mem' = [mem EXCEPT ![n] = m] /\ disk' = [disk EXCEPT ![n] = k]
       /\ ~ up[n] /\ up' = [up EXCEPT ![n] = TRUE]
       /\ UNCHANGED <<wire, proposed, built, taken, crashed>>
  BY <1>3, <1>4, <1>7, <1>9, <1>11, <1>13 DEF Restart
<1>16. \A d \in DocId : Restored(SnapOn(n, d).doc, LogOn(n, d), m.entry[d])
  BY <1>3, <1>5, <1>12 DEF SnapOn, LogOn
<1>17. \A s \in Name : m.names[s] # NoDoc => m.entry[m.names[s]].doc.name = s
  BY <1>10, <1>12
<1> QED BY <1>12, <1>14, <1>15, <1>16, <1>17 DEF RestartStep

\* Every step of the store is one of these.
LEMMA NextSteps ==
    ASSUME StoreTypes, Sources, Next
    PROVE  StoreStep
<1>1. PICK n \in Origin :
        \/ UserSteps(n)
        \/ \E a \in proposed : Submit(n, a)
        \/ Publish(n)
        \/ \E r \in Origin, d \in DocId : CatchUp(n, r, d)
        \/ \E a \in wire : Deliver(n, a) \/ CrashBeforeTruncate(n, a)
        \/ Crash(n)
        \/ Restart(n)
  BY DEF Next
<1>2. CASE UserSteps(n)
  <2>1. PICK t \in 1..MaxTs, d \in DocId :
          \/ \E s \in Name : CreateDoc(n, d, s, t)
          \/ \E q \in Request(Kinds) : ApplyLocal(n, d, q, t) \/ Propose(n, d, q, t)
    BY <1>2 DEF UserSteps
  <2>2. CASE \E s \in Name : CreateDoc(n, d, s, t)
    BY <2>2, CreateDocTakes DEF StoreStep
  <2>3. CASE \E q \in Request(Kinds) : ApplyLocal(n, d, q, t)
    BY <2>3, ApplyLocalTakes DEF StoreStep
  <2>4. CASE \E q \in Request(Kinds) : Propose(n, d, q, t)
    BY <2>4, ProposeProposes DEF StoreStep
  <2> QED BY <2>1, <2>2, <2>3, <2>4
<1>3. CASE \E a \in proposed : Submit(n, a)
  BY <1>3, ArrivalTakes DEF StoreStep
<1>4. CASE Publish(n)
  BY <1>4, PublishPublishes DEF StoreStep
<1>5. CASE \E r \in Origin, d \in DocId : CatchUp(n, r, d)
  <2>1. PICK r \in Origin, d \in DocId : CatchUp(n, r, d)
    BY <1>5
  <2>2. CatchUpStep(n, d)
    BY <2>1 DEF CatchUp, CatchUpStep, EntryOf
  <2> QED BY <2>2 DEF StoreStep
<1>6. CASE \E a \in wire : Deliver(n, a)
  BY <1>6, ArrivalTakes DEF StoreStep
<1>7. CASE \E a \in wire : CrashBeforeTruncate(n, a)
  BY <1>7, CrashCuts DEF StoreStep
<1>8. CASE Crash(n)
  BY <1>8 DEF Crash, GoDown, CrashStep, GoesDown, StoreStep
<1>9. CASE Restart(n)
  BY <1>9, RestartRestarts DEF StoreStep
<1> QED BY <1>1, <1>2, <1>3, <1>4, <1>5, <1>6, <1>7, <1>8, <1>9

-----------------------------------------------------------------------------
(* What a step does to one document of one node.                           *)
(*                                                                         *)
(* b, e, s, w: is the node up, the document's entry, snapshot and WAL      *)
(* before the step; c, f, t, v: the same after it.                         *)

\* Nothing, but that the node may stop.
Stays(b, e, s, w, c, f, t, v) ==
    f.doc = e.doc /\ f.log = e.log /\ t = s /\ v = w /\ (c => b)

\* Action a is taken in, and stored or cut off by a crash in the snapshot.
Grows(a, x, b, e, s, w, c, f, t, v) ==
    /\ b /\ Precondition(e.doc, a) /\ Put(s.doc, e, a, x)
    /\ \/ c /\ Stored(x, a, w, s, f, v, t)
       \/ ~ c /\ f = x /\ t = SnapOf(x) /\ v = Append(w, a)

\* It is read from the files.
Returns(b, s, w, c, f, t, v) ==
    ~ b /\ c /\ Restored(s.doc, w, f) /\ t = s /\ v = w

Moved(U, d, b, e, s, w, c, f, t, v) ==
    \/ Stays(b, e, s, w, c, f, t, v)
    \/ \E a \in U, x \in Entries : a.doc = d /\ Grows(a, x, b, e, s, w, c, f, t, v)
    \/ Returns(b, s, w, c, f, t, v)

DocMoved(U, n, d) ==
    Moved(U, d, up[n], EntryOf(n, d), SnapOn(n, d), LogOn(n, d),
          up'[n], EntryOf(n, d)', SnapOn(n, d)', LogOn(n, d)')

\* The types of what a document consists of.
LEMMA DocTypes ==
    ASSUME StoreTypes, NEW n \in Origin, NEW d \in DocId
    PROVE  /\ EntryOf(n, d) \in Entries /\ SnapOn(n, d) \in Snap
           /\ LogOn(n, d) \in Seq(Issued) /\ SnapOn(n, d).doc \in DocState
           /\ EntryOf(n, d).doc \in DocState /\ EntryOf(n, d).log \in Seq(Issued)
<1>1. mem[n] \in Mems /\ disk[n] \in Disks
  BY DEF StoreTypes
<1>2. /\ EntryOf(n, d) \in Entries /\ SnapOn(n, d) \in Snap
      /\ LogOn(n, d) \in Seq(Issued)
  BY <1>1 DEF Mems, Disks, EntryOf, SnapOn, LogOn
<1> QED BY <1>2 DEF Snap, Entries

\* The documents a node takes no action for stay.
LEMMA StaysFacts ==
    ASSUME NEW U, NEW n \in Origin, NEW d \in DocId, up'[n] => up[n],
           EntryOf(n, d)'.doc = EntryOf(n, d).doc,
           EntryOf(n, d)'.log = EntryOf(n, d).log,
           SnapOn(n, d)' = SnapOn(n, d), LogOn(n, d)' = LogOn(n, d)
    PROVE  DocMoved(U, n, d)
BY DEF DocMoved, Moved, Stays

\* A node that refuses an action changes no document.
Refuses(n, a) ==
    /\ \A p \in Origin, d \in DocId : DocMoved({}, p, d)
    /\ \A p \in Origin : p # n => mem'[p] = mem[p]
    /\ mem'[n].outbound = mem[n].outbound /\ mem'[n].names = mem[n].names
    /\ mem'[n].hint >= mem[n].hint

\* A node that takes one in extends that document's entry to x.
Accepts(n, a, x) ==
    /\ \A p \in Origin, d \in DocId : DocMoved({a}, p, d)
    /\ \A p \in Origin : p # n => mem'[p] = mem[p]
    /\ Grows(a, x, up[n], EntryOf(n, a.doc), SnapOn(n, a.doc), LogOn(n, a.doc),
             up'[n], EntryOf(n, a.doc)', SnapOn(n, a.doc)', LogOn(n, a.doc)')
    /\ mem'[n].outbound \subseteq mem[n].outbound \cup {a}
    /\ mem'[n].names = SyncNames(mem[n].names, a.doc, x.doc)
    /\ mem'[n].hint >= mem[n].hint
    /\ Applies(EntryOf(n, a.doc).doc, a) => mem'[n].hint >= a.ts

\* An action that arrives, or that the node has built, is taken in or refused.
LEMMA TakeMoves ==
    ASSUME StoreTypes, NEW n, NEW m, NEW a, TakeStep(n, m, a)
    PROVE  Refuses(n, a) \/ \E x \in Entries : Accepts(n, a, x)
<1>1. /\ n \in Origin /\ m \in Mems /\ a \in Issued /\ Takes(n, m, a)
      /\ a.doc \in DocId
  BY DEF TakeStep, Issued, Action
<1>2. PICK r : /\ TookIn(m, disk[n], a, r)
               /\ mem' = [mem EXCEPT ![n] = r.mem]
               /\ disk' = [disk EXCEPT ![n] = r.disk]
  BY <1>1 DEF Takes
<1>3. up' = up /\ up[n] /\ Readied(mem[n], m)
  BY <1>1 DEF Takes
<1>4. mem \in [Origin -> Mems] /\ disk \in [Origin -> Disks]
  BY DEF StoreTypes
<1>5. mem'[n] = r.mem /\ disk'[n] = r.disk
  BY <1>1, <1>2, <1>4
<1>6. \A p \in Origin : p # n => mem'[p] = mem[p] /\ disk'[p] = disk[p]
  BY <1>2, <1>4
<1>7. ASSUME NEW p \in Origin, NEW d \in DocId, p # n \/ d # a.doc, NEW U
      PROVE  DocMoved(U, p, d)
  <2>1. CASE p # n
    BY <1>3, <1>6, <2>1, StaysFacts DEF EntryOf, SnapOn, LogOn
  <2>2. CASE p = n /\ d # a.doc
    <3>1. /\ r.mem.entry[d] = m.entry[d]
          /\ r.disk.alog[d] = disk[n].alog[d]
          /\ r.disk.snap[d] = disk[n].snap[d]
      BY <1>2, <2>2 DEF TookIn, Others
    <3>2. m.entry[d].doc = mem[n].entry[d].doc /\ m.entry[d].log = mem[n].entry[d].log
      BY <1>3 DEF Readied
    <3> QED BY <1>3, <1>5, <2>2, <3>1, <3>2, StaysFacts DEF EntryOf, SnapOn, LogOn
  <2> QED BY <1>7, <2>1, <2>2
<1>8. /\ m.entry[a.doc].doc = mem[n].entry[a.doc].doc
      /\ m.entry[a.doc].log = mem[n].entry[a.doc].log
      /\ m.outbound = mem[n].outbound /\ m.names = mem[n].names /\ m.hint >= mem[n].hint
      /\ m.hint \in Nat /\ mem[n].hint \in Nat /\ r.mem.hint \in Nat
  BY <1>1, <1>2, <1>3, <1>4 DEF Readied, Mems, TookIn
<1>9. CASE IsRefused(m, disk[n], a, r)
  <2>1. /\ r.mem.entry[a.doc].doc = mem[n].entry[a.doc].doc
        /\ r.mem.entry[a.doc].log = mem[n].entry[a.doc].log
        /\ r.disk = disk[n] /\ r.mem.outbound = m.outbound
        /\ r.mem.names = m.names /\ r.mem.hint = m.hint
    BY <1>8, <1>9 DEF IsRefused
  <2>2. DocMoved({}, n, a.doc)
    BY <1>1, <1>3, <1>5, <2>1, StaysFacts DEF EntryOf, SnapOn, LogOn
  <2>3. \A p \in Origin, d \in DocId : DocMoved({}, p, d)
    BY <1>7, <2>2
  <2> QED BY <1>5, <1>6, <1>8, <2>1, <2>3 DEF Refuses
<1>10. ASSUME NEW x \in Entries, IsAccepted(m, disk[n], a, r, x)
       PROVE  Accepts(n, a, x)
  <2>1. PICK d \in DocId : d = a.doc
    BY <1>1
  <2>2. /\ Precondition(m.entry[d].doc, a)
        /\ Put(disk[n].snap[d].doc, m.entry[d], a, x)
        /\ Stored(x, a, disk[n].alog[d], disk[n].snap[d],
                  r.mem.entry[d], r.disk.alog[d], r.disk.snap[d])
    BY <1>10, <2>1 DEF IsAccepted
  <2>3. Put(disk[n].snap[d].doc, mem[n].entry[d], a, x)
    BY <1>8, <2>1, <2>2 DEF Put, PutLast, PutWithin
  <2>4. Grows(a, x, up[n], mem[n].entry[d], disk[n].snap[d], disk[n].alog[d],
              up'[n], mem'[n].entry[d], disk'[n].snap[d], disk'[n].alog[d])
    BY <1>3, <1>5, <1>8, <2>1, <2>2, <2>3 DEF Grows
  <2>5. Grows(a, x, up[n], EntryOf(n, a.doc), SnapOn(n, a.doc), LogOn(n, a.doc),
              up'[n], EntryOf(n, a.doc)', SnapOn(n, a.doc)', LogOn(n, a.doc)')
    BY <2>1, <2>4 DEF EntryOf, SnapOn, LogOn
  <2>6. \A p \in Origin, c \in DocId : DocMoved({a}, p, c)
    <3>1. DocMoved({a}, n, a.doc)
      BY <1>10, <2>5 DEF DocMoved, Moved
    <3> QED BY <1>7, <3>1
  <2>7. /\ r.mem.outbound \subseteq m.outbound \cup {a}
        /\ r.mem.names = SyncNames(m.names, a.doc, x.doc)
        /\ r.mem.hint >= m.hint
        /\ Applies(EntryOf(n, a.doc).doc, a) => r.mem.hint >= a.ts
    BY <1>8, <1>10 DEF IsAccepted, EntryOf
  <2>8. /\ mem'[n].outbound \subseteq mem[n].outbound \cup {a}
        /\ mem'[n].names = SyncNames(mem[n].names, a.doc, x.doc)
        /\ mem'[n].hint >= mem[n].hint
        /\ Applies(EntryOf(n, a.doc).doc, a) => mem'[n].hint >= a.ts
    BY <1>5, <1>8, <2>7
  <2> QED BY <1>6, <2>5, <2>6, <2>8 DEF Accepts
<1> QED BY <1>2, <1>9, <1>10 DEF TookIn

\* A crash in the snapshot.
LEMMA CutMoves ==
    ASSUME StoreTypes, Sources, NEW n, NEW a, NEW x, CutStep(n, a, x),
           NEW p \in Origin, NEW d \in DocId
    PROVE  DocMoved({a}, p, d)
<1>1. /\ n \in Origin /\ x \in Entries
      /\ up[n] /\ up' = [up EXCEPT ![n] = FALSE]
      /\ Precondition(EntryOf(n, a.doc).doc, a)
      /\ Put(SnapOn(n, a.doc).doc, EntryOf(n, a.doc), a, x)
  BY DEF CutStep, GoesDown
<1>2. PICK m \in Mems : /\ m.entry = [mem[n].entry EXCEPT ![a.doc] = x]
                        /\ mem' = [mem EXCEPT ![n] = m]
  BY DEF CutStep
<1>3. PICK k \in Disks :
          /\ k.alog = [disk[n].alog EXCEPT ![a.doc] = Append(LogOn(n, a.doc), a)]
          /\ k.snap = [disk[n].snap EXCEPT ![a.doc] = SnapOf(x)]
          /\ disk' = [disk EXCEPT ![n] = k]
  BY DEF CutStep
<1>4. /\ mem \in [Origin -> Mems] /\ disk \in [Origin -> Disks]
      /\ up \in [Origin -> BOOLEAN]
  BY DEF StoreTypes
<1>5. /\ mem[n].entry \in [DocId -> Entries] /\ disk[n].alog \in [DocId -> Seq(Issued)]
      /\ disk[n].snap \in [DocId -> Snap]
  BY <1>1, <1>4 DEF Mems, Disks
<1>6. mem'[n] = m /\ disk'[n] = k /\ ~ up'[n]
  BY <1>1, <1>2, <1>3, <1>4
<1>7. CASE p # n
  <2>1. mem'[p] = mem[p] /\ disk'[p] = disk[p] /\ up'[p] = up[p]
    BY <1>1, <1>2, <1>3, <1>4, <1>7
  <2> QED BY <2>1, StaysFacts DEF EntryOf, SnapOn, LogOn
<1>8. CASE p = n /\ d # a.doc
  <2>1. m.entry[d] = mem[n].entry[d] /\ k.alog[d] = disk[n].alog[d]
        /\ k.snap[d] = disk[n].snap[d]
    BY <1>2, <1>3, <1>5, <1>8
  <2> QED BY <1>1, <1>6, <1>8, <2>1, StaysFacts DEF EntryOf, SnapOn, LogOn
<1>9. CASE p = n /\ d = a.doc
  <2>1. m.entry[d] = x /\ k.alog[d] = Append(LogOn(n, d), a) /\ k.snap[d] = SnapOf(x)
    BY <1>2, <1>3, <1>5, <1>9
  <2>2. Grows(a, x, up[n], EntryOf(n, d), SnapOn(n, d), LogOn(n, d),
              up'[n], EntryOf(n, d)', SnapOn(n, d)', LogOn(n, d)')
    BY <1>1, <1>6, <1>9, <2>1 DEF Grows, EntryOf, SnapOn, LogOn
  <2> QED BY <1>1, <1>9, <2>2 DEF DocMoved, Moved
<1> QED BY <1>7, <1>8, <1>9

\* A restart.
LEMMA RestartMoves ==
    ASSUME StoreTypes, Sources, NEW n, RestartStep(n),
           NEW p \in Origin, NEW d \in DocId
    PROVE  DocMoved({}, p, d)
<1>1. n \in Origin /\ ~ up[n] /\ up' = [up EXCEPT ![n] = TRUE]
  BY DEF RestartStep
<1>2. PICK m \in Mems : /\ \A c \in DocId :
                             Restored(SnapOn(n, c).doc, LogOn(n, c), m.entry[c])
                        /\ mem' = [mem EXCEPT ![n] = m]
  BY DEF RestartStep
<1>3. PICK k \in Disks : /\ k.alog = disk[n].alog /\ k.snap = disk[n].snap
                         /\ disk' = [disk EXCEPT ![n] = k]
  BY DEF RestartStep
<1>4. /\ mem \in [Origin -> Mems] /\ disk \in [Origin -> Disks]
      /\ up \in [Origin -> BOOLEAN]
  BY DEF StoreTypes
<1>5. mem'[n] = m /\ disk'[n] = k /\ up'[n]
  BY <1>1, <1>2, <1>3, <1>4
<1>6. CASE p # n
  <2>1. mem'[p] = mem[p] /\ disk'[p] = disk[p] /\ up'[p] = up[p]
    BY <1>1, <1>2, <1>3, <1>4, <1>6
  <2> QED BY <2>1, StaysFacts DEF EntryOf, SnapOn, LogOn
<1>7. CASE p = n
  <2>1. Returns(up[n], SnapOn(n, d), LogOn(n, d), up'[n],
                EntryOf(n, d)', SnapOn(n, d)', LogOn(n, d)')
    BY <1>1, <1>2, <1>3, <1>5 DEF Returns, EntryOf, SnapOn, LogOn
  <2> QED BY <1>7, <2>1 DEF DocMoved, Moved
<1> QED BY <1>6, <1>7

\* The steps that touch no document.
LEMMA OtherMoves ==
    ASSUME StoreTypes, NEW n,
           \/ \E a : ProposeStep(n, a)
           \/ PublishStep(n) \/ CrashStep(n)
           \/ \E c : CatchUpStep(n, c)
           \/ UNCHANGED vars,
           NEW p \in Origin, NEW d \in DocId
    PROVE  DocMoved({}, p, d)
<1>1. mem \in [Origin -> Mems] /\ up \in [Origin -> BOOLEAN]
  BY DEF StoreTypes
<1>2. CASE UNCHANGED vars \/ \E c : CatchUpStep(n, c)
  BY <1>2, StaysFacts DEF vars, CatchUpStep, EntryOf, SnapOn, LogOn
<1>3. CASE CrashStep(n)
  <2>1. mem' = mem /\ disk' = disk /\ (up'[p] => up[p])
    BY <1>1, <1>3 DEF CrashStep, GoesDown
  <2> QED BY <2>1, StaysFacts DEF EntryOf, SnapOn, LogOn
<1>4. CASE PublishStep(n) \/ \E a : ProposeStep(n, a)
  <2>1. PICK m : m.entry = mem[n].entry /\ mem' = [mem EXCEPT ![n] = m]
    BY <1>4 DEF PublishStep, ProposeStep
  <2>2. n \in Origin /\ disk' = disk /\ up' = up
    BY <1>4 DEF PublishStep, ProposeStep
  <2>3. mem'[p].entry = mem[p].entry
    BY <1>1, <2>1, <2>2
  <2> QED BY <2>2, <2>3, StaysFacts DEF EntryOf, SnapOn, LogOn
<1> QED BY <1>2, <1>3, <1>4

\* Every step of the store moves every document of every node in one of the
\* three ways.
LEMMA StepMoves ==
    ASSUME StoreTypes, Sources, StoreStep \/ UNCHANGED vars,
           NEW p \in Origin, NEW d \in DocId
    PROVE  DocMoved(built', p, d)
<1>1. ASSUME NEW U \in SUBSET built', DocMoved(U, p, d)
      PROVE  DocMoved(built', p, d)
  BY <1>1 DEF DocMoved, Moved
<1>2. ASSUME NEW a, a \in built', DocMoved({a}, p, d)
      PROVE  DocMoved(built', p, d)
  BY <1>1, <1>2
<1>3. CASE UNCHANGED vars
  BY <1>1, <1>3, OtherMoves
<1>4. ASSUME NEW n, NEW m, NEW a, TakeStep(n, m, a) PROVE DocMoved(built', p, d)
  <2>1. a \in built'
    BY <1>4 DEF TakeStep, IsNew, IsOld, Sources
  <2>2. DocMoved({}, p, d) \/ DocMoved({a}, p, d)
    BY <1>4, TakeMoves DEF Refuses, Accepts
  <2> QED BY <1>1, <1>2, <2>1, <2>2
<1>5. CASE \E n, a : ProposeStep(n, a)
  BY <1>1, <1>5, OtherMoves
<1>6. CASE \E n : PublishStep(n) \/ CrashStep(n)
  BY <1>1, <1>6, OtherMoves
<1>7. CASE \E n : RestartStep(n)
  BY <1>1, <1>7, RestartMoves
<1>8. CASE \E n, c : CatchUpStep(n, c)
  BY <1>1, <1>8, OtherMoves
<1>9. ASSUME NEW n, NEW a, NEW x, CutStep(n, a, x) PROVE DocMoved(built', p, d)
  <2>1. a \in built'
    BY <1>9 DEF CutStep, GoesDown, Sources
  <2> QED BY <1>2, <1>9, <2>1, CutMoves
<1> QED BY <1>3, <1>4, <1>5, <1>6, <1>7, <1>8, <1>9 DEF StoreStep

-----------------------------------------------------------------------------
(* The types and the sources of the actions are invariant.                 *)

\* One more action is built, under the next hash.
LEMMA OneMoreBuilt ==
    ASSUME NEW B \in SUBSET Issued, IsFiniteSet(B), HashesUnique(B),
           \A b \in B : b.id <= Cardinality(B),
           NEW a \in Issued, a.id = Cardinality(B) + 1
    PROVE  /\ B \cup {a} \in SUBSET Issued /\ IsFiniteSet(B \cup {a})
           /\ HashesUnique(B \cup {a})
           /\ \A b \in B \cup {a} : b.id <= Cardinality(B \cup {a})
           /\ a \notin B
<1>1. Cardinality(B) \in Nat
  BY FS_CardinalityType
<1>2. \A b \in B : b.id \in Nat
  BY DEF Issued, Action
<1>3. \A b \in B : b.id < a.id
  BY <1>1, <1>2
<1>4. a \notin B
  BY <1>1, <1>3
<1>5. IsFiniteSet(B \cup {a}) /\ Cardinality(B \cup {a}) = Cardinality(B) + 1
  BY <1>4, FS_AddElement
<1>6. HashesUnique(B \cup {a})
  BY <1>1, <1>2, <1>3 DEF HashesUnique
<1> QED BY <1>1, <1>2, <1>3, <1>4, <1>5, <1>6

\* What a step does to the set of built actions.
Builds ==
    \/ built' = built
    \/ \E n \in Origin, a \in Issued : IsNew(n, a)

\* Whatever the step, the types are kept.
LEMMA StepTypes ==
    ASSUME StoreTypes, Sources, StoreStep \/ UNCHANGED vars
    PROVE  StoreTypes' /\ Builds
<1>1. /\ mem \in [Origin -> Mems] /\ disk \in [Origin -> Disks]
      /\ up \in [Origin -> BOOLEAN]
      /\ built \in SUBSET Issued /\ IsFiniteSet(built)
      /\ taken \in [Origin -> 0..MaxTaken] /\ crashed \in 0..Crashes
  BY DEF StoreTypes
<1>2. ASSUME Builds PROVE built' \in SUBSET Issued /\ IsFiniteSet(built')
  BY <1>1, <1>2, OneMoreBuilt DEF Builds, IsNew, Sources
<1>3. CASE UNCHANGED vars
  BY <1>1, <1>3 DEF vars, StoreTypes, Builds
<1>4. ASSUME NEW n, NEW m, NEW a, TakeStep(n, m, a) PROVE StoreTypes' /\ Builds
  <2>1. /\ n \in Origin /\ a \in Issued /\ Takes(n, m, a)
        /\ IsNew(n, a) \/ IsOld(a)
    BY <1>4 DEF TakeStep
  <2>2. PICK r : /\ TookIn(m, disk[n], a, r)
                 /\ mem' = [mem EXCEPT ![n] = r.mem]
                 /\ disk' = [disk EXCEPT ![n] = r.disk]
    BY <2>1 DEF Takes
  <2>3. r.mem \in Mems /\ r.disk \in Disks
    BY <2>2 DEF TookIn
  <2>4. mem' \in [Origin -> Mems] /\ disk' \in [Origin -> Disks]
    BY <1>1, <2>2, <2>3
  <2>5. Builds
    BY <2>1 DEF IsOld, Builds
  <2>6. up' = up /\ crashed' = crashed /\ taken' \in [Origin -> 0..MaxTaken]
    BY <2>1 DEF Takes
  <2> QED BY <1>1, <1>2, <2>4, <2>5, <2>6 DEF StoreTypes
<1>5. ASSUME NEW n, NEW a, ProposeStep(n, a) PROVE StoreTypes' /\ Builds
  <2>1. PICK m \in Mems : mem' = [mem EXCEPT ![n] = m]
    BY <1>5 DEF ProposeStep
  <2>2. Builds
    BY <1>5 DEF ProposeStep, Builds
  <2>3. mem' \in [Origin -> Mems]
    BY <1>1, <2>1
  <2> QED BY <1>1, <1>2, <1>5, <2>2, <2>3 DEF ProposeStep, StoreTypes
<1>6. ASSUME NEW n, PublishStep(n) PROVE StoreTypes' /\ Builds
  <2>1. PICK m \in Mems : mem' = [mem EXCEPT ![n] = m]
    BY <1>6 DEF PublishStep
  <2>2. mem' \in [Origin -> Mems]
    BY <1>1, <2>1
  <2> QED BY <1>1, <1>6, <2>2 DEF PublishStep, StoreTypes, Builds
<1>7. ASSUME NEW n, GoesDown(n)
      PROVE  Builds /\ up' \in [Origin -> BOOLEAN] /\ crashed' \in 0..Crashes
  <2>1. up' \in [Origin -> BOOLEAN] /\ built' = built
    BY <1>1, <1>7 DEF GoesDown
  <2>2. crashed' \in 0..Crashes
    BY <1>1, <1>7, StoreAssumption DEF GoesDown
  <2> QED BY <2>1, <2>2 DEF Builds
<1>8. ASSUME NEW n, CrashStep(n) PROVE StoreTypes' /\ Builds
  BY <1>1, <1>2, <1>7, <1>8 DEF CrashStep, StoreTypes
<1>9. ASSUME NEW n, RestartStep(n) PROVE StoreTypes' /\ Builds
  <2>1. PICK m \in Mems : mem' = [mem EXCEPT ![n] = m]
    BY <1>9 DEF RestartStep
  <2>2. PICK k \in Disks : disk' = [disk EXCEPT ![n] = k]
    BY <1>9 DEF RestartStep
  <2>3. mem' \in [Origin -> Mems] /\ disk' \in [Origin -> Disks]
    BY <1>1, <2>1, <2>2
  <2>4. up' \in [Origin -> BOOLEAN] /\ UNCHANGED <<built, taken, crashed>>
    BY <1>1, <1>9 DEF RestartStep
  <2> QED BY <1>1, <2>3, <2>4 DEF StoreTypes, Builds
<1>10. ASSUME NEW n, NEW c, CatchUpStep(n, c) PROVE StoreTypes' /\ Builds
  BY <1>1, <1>10 DEF CatchUpStep, StoreTypes, Builds
<1>11. ASSUME NEW n, NEW a, NEW x, CutStep(n, a, x) PROVE StoreTypes' /\ Builds
  <2>1. PICK m \in Mems : mem' = [mem EXCEPT ![n] = m]
    BY <1>11 DEF CutStep
  <2>2. PICK k \in Disks : disk' = [disk EXCEPT ![n] = k]
    BY <1>11 DEF CutStep
  <2>3. mem' \in [Origin -> Mems] /\ disk' \in [Origin -> Disks]
    BY <1>1, <2>1, <2>2
  <2>4. GoesDown(n) /\ taken' \in [Origin -> 0..MaxTaken]
    BY <1>11 DEF CutStep
  <2> QED BY <1>2, <1>7, <2>3, <2>4 DEF StoreTypes
<1> QED BY <1>3, <1>4, <1>5, <1>6, <1>8, <1>9, <1>10, <1>11 DEF StoreStep

\* The actions a document's log and WAL hold after a step were there before,
\* or are the one the step takes in.
LEMMA MovedLogs ==
    ASSUME StoreTypes, NEW U, NEW n \in Origin, NEW d \in DocId, DocMoved(U, n, d)
    PROVE  \A a \in Range(EntryOf(n, d)'.log) \cup Range(LogOn(n, d)') :
              \/ a \in Range(EntryOf(n, d).log) \cup Range(LogOn(n, d))
              \/ a \in U /\ a.doc = d
<1>1. PICK e \in Entries, s \in Snap, w \in Seq(Issued) :
         e = EntryOf(n, d) /\ s = SnapOn(n, d) /\ w = LogOn(n, d)
  BY DocTypes
<1>2. PICK f, t, v : f = EntryOf(n, d)' /\ t = SnapOn(n, d)' /\ v = LogOn(n, d)'
  OBVIOUS
<1>3. /\ e = EntryOf(n, d) /\ s = SnapOn(n, d) /\ w = LogOn(n, d)
      /\ f = EntryOf(n, d)' /\ t = SnapOn(n, d)' /\ v = LogOn(n, d)'
      /\ Moved(U, d, up[n], e, s, w, up'[n], f, t, v)
  BY <1>1, <1>2 DEF DocMoved
<1>4. s.doc \in DocState
  BY DEF Snap
<1>5. CASE Stays(up[n], e, s, w, up'[n], f, t, v)
  BY <1>3, <1>5 DEF Stays
<1>6. ASSUME NEW a \in U, NEW x \in Entries, a.doc = d,
             Grows(a, x, up[n], e, s, w, up'[n], f, t, v)
      PROVE  \A b \in Range(f.log) \cup Range(v) :
                b \in Range(e.log) \cup Range(w) \/ b = a
  <2>1. Range(x.log) = Range(e.log) \cup {a}
    BY <1>6 DEF Grows, Put
  <2>2. Range(<<>>) = {}
    BY RangeFacts
  <2>3. f.log = x.log \/ f.log = <<>>
    BY <1>6 DEF Grows, Stored
  <2>4. v = Append(w, a) \/ v = <<>>
    BY <1>6 DEF Grows, Stored
  <2>5. Range(Append(w, a)) \subseteq Range(w) \cup {a}
    <3>1. PICK A : A = Issued \cup {a}
      OBVIOUS
    <3>2. w \in Seq(A) /\ a \in A
      BY <1>3, <3>1
    <3> QED BY <3>2, RangeFacts
  <2>6. Range(f.log) \subseteq Range(e.log) \cup {a}
    BY <2>1, <2>2, <2>3
  <2>7. Range(v) \subseteq Range(w) \cup {a}
    BY <2>2, <2>4, <2>5
  <2> QED BY <2>6, <2>7
<1>7. CASE Returns(up[n], s, w, up'[n], f, t, v)
  <2>1. Range(f.log) \subseteq Range(w) /\ v = w
    BY <1>3, <1>4, <1>7, RestoredLog DEF Returns
  <2> QED BY <1>3, <2>1
<1> QED BY <1>3, <1>5, <1>6, <1>7 DEF Moved

\* Whatever the step, every action anywhere is a built one.
LEMMA StepSources ==
    ASSUME StoreTypes, Sources, StoreStep \/ UNCHANGED vars
    PROVE  Sources'
<1>1. /\ mem \in [Origin -> Mems] /\ built \in SUBSET Issued /\ IsFiniteSet(built)
  BY DEF StoreTypes
<1>2. StoreTypes' /\ Builds
  BY StepTypes
<1>3. /\ built \subseteq built' /\ HashesUnique(built')
      /\ \A a \in built' : a.id <= Cardinality(built')
  <2>1. CASE built' = built
    BY <2>1 DEF Sources
  <2>2. ASSUME NEW a \in Issued, a.id = Cardinality(built) + 1, built' = built \cup {a}
        PROVE  /\ built \subseteq built' /\ HashesUnique(built')
               /\ \A b \in built' : b.id <= Cardinality(built')
    BY <1>1, <2>2, OneMoreBuilt DEF Sources
  <2> QED BY <1>2, <2>1, <2>2 DEF Builds, IsNew
<1>4. ASSUME NEW n \in Origin, NEW d \in DocId,
             NEW a \in Range(EntryOf(n, d)'.log) \cup Range(LogOn(n, d)')
      PROVE  a \in built' /\ a.doc = d
  <2>1. DocMoved(built', n, d)
    BY StepMoves
  <2>2. CASE a \in Range(EntryOf(n, d).log) \cup Range(LogOn(n, d))
    BY <1>3, <2>2 DEF Sources
  <2> QED BY <1>4, <2>1, <2>2, MovedLogs
<1>5. /\ wire \subseteq built' /\ proposed \subseteq built'
      /\ \A n \in Origin : mem[n].outbound \subseteq built'
  BY <1>3 DEF Sources
<1>6. /\ wire' \subseteq built' /\ proposed' \subseteq built'
      /\ \A n \in Origin : mem'[n].outbound \subseteq built'
  <2>1. CASE UNCHANGED vars
    BY <1>5, <2>1 DEF vars
  <2>2. ASSUME NEW n, NEW m, NEW a, TakeStep(n, m, a)
        PROVE  /\ wire' \subseteq built' /\ proposed' \subseteq built'
               /\ \A p \in Origin : mem'[p].outbound \subseteq built'
    <3>1. n \in Origin /\ Takes(n, m, a) /\ a \in built'
      BY <1>5, <2>2 DEF TakeStep, IsNew, IsOld
    <3>2. PICK r : TookIn(m, disk[n], a, r) /\ mem' = [mem EXCEPT ![n] = r.mem]
      BY <3>1 DEF Takes
    <3>3. r.mem.outbound \in {m.outbound, m.outbound \cup {a}}
      BY <3>2 DEF TookIn, IsRefused, IsAccepted
    <3>4. m.outbound = mem[n].outbound /\ wire' = wire /\ proposed' = proposed
      BY <3>1 DEF Takes, Readied
    <3>5. r.mem.outbound \subseteq built'
      BY <1>5, <3>1, <3>3, <3>4
    <3> QED BY <1>1, <1>5, <3>1, <3>2, <3>4, <3>5
  <2>3. ASSUME NEW n, NEW a, ProposeStep(n, a)
        PROVE  /\ wire' \subseteq built' /\ proposed' \subseteq built'
               /\ \A p \in Origin : mem'[p].outbound \subseteq built'
    <3>1. PICK m \in Mems : mem' = [mem EXCEPT ![n] = m] /\ m.outbound = mem[n].outbound
      BY <2>3 DEF ProposeStep, Readied
    <3>2. n \in Origin /\ a \in built' /\ proposed' = proposed \cup {a} /\ wire' = wire
      BY <2>3 DEF ProposeStep, IsNew
    <3> QED BY <1>1, <1>5, <3>1, <3>2
  <2>4. ASSUME NEW n, PublishStep(n)
        PROVE  /\ wire' \subseteq built' /\ proposed' \subseteq built'
               /\ \A p \in Origin : mem'[p].outbound \subseteq built'
    <3>1. PICK m \in Mems : mem' = [mem EXCEPT ![n] = m] /\ m.outbound = {}
      BY <2>4 DEF PublishStep
    <3>2. n \in Origin /\ proposed' = proposed /\ wire' = wire \cup mem[n].outbound
      BY <2>4 DEF PublishStep
    <3> QED BY <1>1, <1>5, <3>1, <3>2
  <2>5. ASSUME NEW n, CrashStep(n)
        PROVE  /\ wire' \subseteq built' /\ proposed' \subseteq built'
               /\ \A p \in Origin : mem'[p].outbound \subseteq built'
    BY <1>5, <2>5 DEF CrashStep, GoesDown
  <2>6. ASSUME NEW n, RestartStep(n)
        PROVE  /\ wire' \subseteq built' /\ proposed' \subseteq built'
               /\ \A p \in Origin : mem'[p].outbound \subseteq built'
    <3>1. PICK m \in Mems : mem' = [mem EXCEPT ![n] = m] /\ m.outbound = {}
      BY <2>6 DEF RestartStep
    <3>2. n \in Origin /\ proposed' = proposed /\ wire' = wire
      BY <2>6 DEF RestartStep
    <3> QED BY <1>1, <1>5, <3>1, <3>2
  <2>7. ASSUME NEW n, NEW c, CatchUpStep(n, c)
        PROVE  /\ wire' \subseteq built' /\ proposed' \subseteq built'
               /\ \A p \in Origin : mem'[p].outbound \subseteq built'
    <3>1. n \in Origin /\ c \in DocId /\ mem' = mem /\ proposed' = proposed
      BY <2>7 DEF CatchUpStep
    <3>2. PICK A \in SUBSET Range(EntryOf(n, c).log) : wire' = wire \cup A
      BY <2>7 DEF CatchUpStep
    <3>3. A \subseteq built'
      BY <1>3, <3>1 DEF Sources
    <3> QED BY <1>5, <3>1, <3>2, <3>3
  <2>8. ASSUME NEW n, NEW a, NEW x, CutStep(n, a, x)
        PROVE  /\ wire' \subseteq built' /\ proposed' \subseteq built'
               /\ \A p \in Origin : mem'[p].outbound \subseteq built'
    <3>1. PICK m \in Mems : mem' = [mem EXCEPT ![n] = m] /\ m.outbound = mem[n].outbound
      BY <2>8 DEF CutStep
    <3>2. n \in Origin /\ proposed' = proposed /\ wire' = wire
      BY <2>8 DEF CutStep, GoesDown
    <3> QED BY <1>1, <1>5, <3>1, <3>2
  <2> QED BY <2>1, <2>2, <2>3, <2>4, <2>5, <2>6, <2>7, <2>8 DEF StoreStep
<1> QED BY <1>3, <1>4, <1>6 DEF Sources

StoreInv == StoreTypes /\ Sources

\* The two hold from the start and through every step.
LEMMA StoreInvInit ==
    ASSUME Init
    PROVE  StoreInv
<1>1. NewEntry \in Entries /\ NewDoc \in DocState
  BY NewDocType
<1>2. NoSnap \in Snap
  BY <1>1 DEF NoSnap, Snap, NoHash
<1>3. <<>> \in Seq(Issued) /\ Range(<<>>) = {}
  BY RangeFacts
<1>4. [d \in DocId |-> NewEntry] \in [DocId -> Entries]
  BY <1>1
<1>5. mem \in [Origin -> Mems]
  BY <1>4 DEF Init, Mems, NoDoc
<1>6. disk \in [Origin -> Disks]
  BY <1>2, <1>3 DEF Init, Disks
<1>7. IsFiniteSet(built) /\ built \in SUBSET Issued
  BY FS_EmptySet DEF Init
<1>8. taken \in [Origin -> 0..MaxTaken] /\ crashed \in 0..Crashes
  BY StoreAssumption DEF Init
<1>9. StoreTypes
  BY <1>5, <1>6, <1>7, <1>8 DEF Init, StoreTypes
<1>10. /\ wire = {} /\ proposed = {} /\ built = {}
       /\ \A n \in Origin : mem[n].outbound = {}
  BY DEF Init
<1>11. \A n \in Origin, d \in DocId : EntryOf(n, d).log = <<>> /\ LogOn(n, d) = <<>>
  BY DEF Init, EntryOf, LogOn, NewEntry
<1>12. Sources
  BY <1>3, <1>10, <1>11 DEF Sources, HashesUnique
<1> QED BY <1>9, <1>12 DEF StoreInv

\* Every step keeps the types and sources, builds at most one action, and moves
\* each document by an action that was built.
LEMMA StoreInvNext ==
    ASSUME StoreInv, [Next]_vars
    PROVE  /\ StoreInv' /\ (StoreStep \/ UNCHANGED vars) /\ Builds
           /\ \A n \in Origin, d \in DocId : DocMoved(built', n, d)
<1>1. StoreStep \/ UNCHANGED vars
  BY NextSteps DEF StoreInv
<1>2. StoreTypes' /\ Sources' /\ Builds
  BY <1>1, StepTypes, StepSources DEF StoreInv
<1>3. \A n \in Origin, d \in DocId : DocMoved(built', n, d)
  BY <1>1, StepMoves DEF StoreInv
<1> QED BY <1>1, <1>2, <1>3 DEF StoreInv

\* The types and the sources of the actions hold in every reachable state.
LEMMA StoreInvariant == Spec => []StoreInv
<1>1. Init => StoreInv
  BY StoreInvInit
<1>2. StoreInv /\ [Next]_vars => StoreInv'
  BY StoreInvNext
<1> QED BY <1>1, <1>2, PTL DEF Spec

\* TypeOK holds in every reachable state: the memory, the files, the network
\* and the proposals of every node are what the store's operations assume.
THEOREM StoreIsTyped == Spec => []TypeOK
<1>1. StoreInv => TypeOK
  <2> SUFFICES ASSUME StoreInv PROVE TypeOK
    OBVIOUS
  <2>1. StoreTypes /\ Sources
    BY DEF StoreInv
  <2>2. ASSUME NEW n \in Origin
        PROVE  /\ DOMAIN mem[n] = {"entry", "names", "hint", "outbound"}
               /\ mem[n].names \in [Name -> DocId \cup {NoDoc}]
               /\ mem[n].hint \in Nat /\ disk[n].index \in Nat
               /\ mem[n].outbound \subseteq built
    <3>1. mem[n] \in Mems /\ disk[n] \in Disks
      BY <2>1 DEF StoreTypes
    <3> QED BY <2>1, <3>1 DEF Mems, Disks, Sources
  <2>3. ASSUME NEW n \in Origin, NEW d \in DocId
        PROVE  LET e == mem[n].entry[d] IN
               /\ e.known \in BOOLEAN /\ e.doc \in DocState
               /\ Range(e.log) \subseteq built
               /\ Range(disk[n].alog[d]) \subseteq built
               /\ disk[n].snap[d] \in Snap
    <3>1. EntryOf(n, d) \in Entries /\ SnapOn(n, d) \in Snap
      BY <2>1, DocTypes
    <3>2. EntryOf(n, d).known \in BOOLEAN /\ EntryOf(n, d).doc \in DocState
      BY <3>1 DEF Entries
    <3>3. Range(EntryOf(n, d).log) \subseteq built /\ Range(LogOn(n, d)) \subseteq built
      BY <2>1 DEF Sources
    <3> QED BY <3>1, <3>2, <3>3 DEF EntryOf, LogOn, SnapOn
  <2>4. built \subseteq Action
    BY <2>1 DEF StoreTypes, Issued
  <2> QED BY <2>1, <2>2, <2>3, <2>4 DEF TypeOK, StoreTypes, Sources
<1> QED BY <1>1, StoreInvariant, PTL

-----------------------------------------------------------------------------
(* The clock covers the log.                                               *)

\* A document whose clock covers its log keeps covering it.
LEMMA MovedCovers ==
    ASSUME NEW U \in SUBSET Issued, NEW d, NEW b, NEW c,
           NEW e \in Entries, NEW s \in Snap, NEW w \in Seq(Issued),
           NEW f, NEW t, NEW v, Moved(U, d, b, e, s, w, c, f, t, v),
           \A a \in Range(e.log) : Covers(e.doc.clock, a.clock)
    PROVE  \A a \in Range(f.log) : Covers(f.doc.clock, a.clock)
<1>1. /\ e.doc \in DocState /\ e.log \in Seq(Issued) /\ s.doc \in DocState
      /\ e.doc.clock \in Clock /\ Range(e.log) \subseteq Issued
  BY RangeIssued DEF Entries, Snap, DocState
<1>2. CASE Stays(b, e, s, w, c, f, t, v)
  BY <1>2 DEF Stays
<1>3. ASSUME NEW a \in U, NEW x \in Entries, Grows(a, x, b, e, s, w, c, f, t, v),
             NEW p \in Range(f.log)
      PROVE  Covers(f.doc.clock, p.clock)
  <2>1. /\ Range(x.log) = Range(e.log) \cup {a}
        /\ x.doc.clock = MergeClock(e.doc.clock, a.clock)
    BY <1>3 DEF Grows, Put
  <2>2. f.doc = x.doc /\ (f.log = x.log \/ f.log = <<>>)
    BY <1>3 DEF Grows, Stored
  <2>3. p \in Range(e.log) \cup {a}
    BY <1>3, <2>1, <2>2, RangeFacts
  <2>4. a.clock \in Clock /\ p.clock \in Clock
    BY <1>1, <2>3 DEF Issued, Action
  <2>5. CASE p = a
    BY <1>1, <2>1, <2>2, <2>4, <2>5, MergeClockFacts
  <2>6. CASE p \in Range(e.log)
    BY <1>1, <2>1, <2>2, <2>4, <2>6, MergeClockFacts, CoversTransitive
  <2> QED BY <2>3, <2>5, <2>6
<1>4. CASE Returns(b, s, w, c, f, t, v)
  <2>1. PICK l \in Seq(Issued) : l = Canonical(w) /\ Range(l) = Range(w)
    BY CanonicalFacts
  <2>2. ReplayHolds(s.doc, l, ReplayOver(s.doc, l))
    BY <1>1, ReplayOverHolds
  <2>3. f = ReplayOver(s.doc, l) \/ f = NewEntry
    BY <1>4, <2>1 DEF Returns, Restored
  <2> QED BY <2>2, <2>3, RangeFacts DEF ReplayHolds, NewEntry
<1> QED BY <1>2, <1>3, <1>4 DEF Moved

\* ClockCoversLog: for every number of nodes, documents, crashes and proposals,
\* the clock a node's document advertises covers every action of its log,
\* through `apply_action`, `refold`, `snapshot` and `replay_doc`.
THEOREM ClocksCoverLogs == Spec => []ClockCoversLog
<1>1. Init => ClockCoversLog
  BY RangeFacts DEF Init, ClockCoversLog, NewEntry
<1>2. StoreInv /\ ClockCoversLog /\ [Next]_vars => ClockCoversLog'
  <2> SUFFICES ASSUME StoreInv, ClockCoversLog, [Next]_vars,
                      NEW n \in Origin, NEW d \in DocId
               PROVE  \A a \in Range(EntryOf(n, d)'.log) :
                         Covers(EntryOf(n, d)'.doc.clock, a.clock)
    BY DEF ClockCoversLog, EntryOf
  <2>1. StoreInv' /\ DocMoved(built', n, d)
    BY StoreInvNext
  <2>2. /\ EntryOf(n, d) \in Entries /\ SnapOn(n, d) \in Snap
        /\ LogOn(n, d) \in Seq(Issued) /\ built' \in SUBSET Issued
    BY <2>1, DocTypes DEF StoreInv, StoreTypes
  <2>3. \A a \in Range(EntryOf(n, d).log) : Covers(EntryOf(n, d).doc.clock, a.clock)
    BY DEF ClockCoversLog, EntryOf
  <2> QED BY <2>1, <2>2, <2>3, MovedCovers DEF DocMoved
<1> QED BY <1>1, <1>2, StoreInvariant, PTL DEF Spec

-----------------------------------------------------------------------------
(* A deleted document stays deleted.                                       *)

\* The WAL holds the log, and a document that is deleted was deleted before
\* its snapshot or by an action of its log, which a fold meets again.
DropKept(e, s, w) ==
    /\ Range(e.log) \subseteq Range(w)
    /\ e.doc.deleted => s.doc.deleted \/ Drops(e.log)

DropsKept ==
    \A n \in Origin, d \in DocId : DropKept(EntryOf(n, d), SnapOn(n, d), LogOn(n, d))

\* A document keeps its deletion, and the reason for it.
LEMMA MovedDrops ==
    ASSUME NEW U \in SUBSET Issued, NEW d, NEW b, NEW c,
           NEW e \in Entries, NEW s \in Snap, NEW w \in Seq(Issued),
           NEW f \in Entries, NEW t, NEW v,
           Moved(U, d, b, e, s, w, c, f, t, v), DropKept(e, s, w)
    PROVE  DropKept(f, t, v) /\ (e.doc.deleted => f.doc.deleted)
<1>1. /\ e.doc \in DocState /\ e.log \in Seq(Issued) /\ s.doc \in DocState
      /\ e.doc.deleted \in BOOLEAN
  BY DEF Entries, Snap, DocState
<1>2. CASE Stays(b, e, s, w, c, f, t, v)
  BY <1>2 DEF Stays, DropKept
<1>3. ASSUME NEW a \in U, NEW x \in Entries, Grows(a, x, b, e, s, w, c, f, t, v)
      PROVE  DropKept(f, t, v) /\ (e.doc.deleted => f.doc.deleted)
  <2>1. Range(x.log) = Range(e.log) \cup {a} /\ x.log \in Seq(Issued) /\ x.log # <<>>
    BY <1>3 DEF Grows, Put, Entries
  <2>2. Range(Append(w, a)) = Range(w) \cup {a}
    BY RangeFacts
  <2>3. /\ e.doc.deleted => x.doc.deleted
        /\ x.doc.deleted => s.doc.deleted \/ Drops(x.log)
    <3>1. CASE PutLast(e, a, x)
      <4>1. Reduced(e.doc, a, x.doc)
        BY <1>1, <3>1, ReduceParts DEF PutLast
      <4>2. x.doc.deleted <=> e.doc.deleted \/ a.kind = "drop"
        BY <4>1 DEF Reduced
      <4> QED BY <2>1, <4>2 DEF DropKept, Drops
    <3>2. CASE PutWithin(s.doc, e, a, x)
      <4>1. x.doc.deleted <=> s.doc.deleted \/ Drops(x.log)
        BY <1>1, <2>1, <3>2, FoldDeleted DEF PutWithin
      <4> QED BY <2>1, <4>1 DEF DropKept, Drops
    <3> QED BY <1>3, <3>1, <3>2 DEF Grows, Put
  <2>4. SnapOf(x).doc = x.doc
    BY <2>1, SnapOfType
  <2>5. CASE f.doc = x.doc /\ f.log = x.log /\ v = Append(w, a) /\ (t = s \/ t = SnapOf(x))
    BY <2>1, <2>2, <2>3, <2>4, <2>5 DEF DropKept
  <2>6. CASE f.doc = x.doc /\ f.log = <<>> /\ v = <<>> /\ t = SnapOf(x)
    BY <2>3, <2>4, <2>6, RangeFacts DEF DropKept
  <2> QED BY <1>3, <2>5, <2>6 DEF Grows, Stored
<1>4. CASE Returns(b, s, w, c, f, t, v)
  <2>1. PICK l \in Seq(Issued) : l = Canonical(w) /\ Range(l) = Range(w)
    BY CanonicalFacts
  <2>2. PICK r : r = ReplayOver(s.doc, l) /\ ReplayHolds(s.doc, l, r)
    BY <1>1, ReplayOverHolds
  <2>3. f = r \/ (f = NewEntry /\ ~ r.doc.deleted)
    BY <1>4, <2>1, <2>2 DEF Returns, Restored
  <2>4. t = s /\ v = w
    BY <1>4 DEF Returns
  <2>5. e.doc.deleted => r.doc.deleted
    BY <2>1, <2>2 DEF ReplayHolds, DropKept, Drops
  <2>6. CASE f = r
    BY <2>1, <2>2, <2>4, <2>5, <2>6 DEF ReplayHolds, DropKept
  <2>7. CASE f = NewEntry /\ ~ r.doc.deleted
    BY <2>4, <2>5, <2>7, RangeFacts DEF NewEntry, NewDoc, DropKept
  <2> QED BY <2>3, <2>6, <2>7
<1> QED BY <1>2, <1>3, <1>4 DEF Moved

\* One step of it, for every document.
LEMMA DropsKeptNext ==
    ASSUME StoreInv, DropsKept, [Next]_vars
    PROVE  /\ DropsKept'
           /\ \A n \in Origin, d \in DocId :
                 EntryOf(n, d).doc.deleted => EntryOf(n, d)'.doc.deleted
<1> SUFFICES ASSUME NEW n \in Origin, NEW d \in DocId
             PROVE  /\ DropKept(EntryOf(n, d)', SnapOn(n, d)', LogOn(n, d)')
                    /\ EntryOf(n, d).doc.deleted => EntryOf(n, d)'.doc.deleted
  BY DEF DropsKept
<1>1. StoreInv' /\ DocMoved(built', n, d)
  BY StoreInvNext
<1>2. /\ EntryOf(n, d) \in Entries /\ SnapOn(n, d) \in Snap
      /\ LogOn(n, d) \in Seq(Issued) /\ built' \in SUBSET Issued
  BY <1>1, DocTypes DEF StoreInv, StoreTypes
<1>3. EntryOf(n, d)' \in Entries
  <2>1. mem'[n] \in Mems
    BY <1>1 DEF StoreInv, StoreTypes
  <2> QED BY <2>1 DEF Mems, EntryOf
<1>4. DropKept(EntryOf(n, d), SnapOn(n, d), LogOn(n, d))
  BY DEF DropsKept
<1> QED BY <1>1, <1>2, <1>3, <1>4, MovedDrops DEF DocMoved

\* DropsKept holds in every reachable state.
LEMMA DropsStayKept == Spec => []DropsKept
<1>1. Init => DropsKept
  BY RangeFacts DEF Init, DropsKept, DropKept, EntryOf, SnapOn, LogOn, NewEntry, NewDoc
<1>2. StoreInv /\ DropsKept /\ [Next]_vars => DropsKept'
  BY DropsKeptNext
<1> QED BY <1>1, <1>2, StoreInvariant, PTL DEF Spec

\* DeleteIsTerminal: no step brings a deleted document back, although
\* `refold` and `replay_doc` compute `deleted` anew from the log and the WAL.
THEOREM DeletesAreTerminal == Spec => DeleteIsTerminal
<1>1. StoreInv /\ DropsKept /\ [Next]_vars =>
        [\A n \in Origin, d \in DocId :
            mem[n].entry[d].doc.deleted => mem'[n].entry[d].doc.deleted]_vars
  BY DropsKeptNext DEF EntryOf
<1> QED BY <1>1, StoreInvariant, DropsStayKept, PTL DEF Spec, DeleteIsTerminal

-----------------------------------------------------------------------------
(* A running node's document is the canonical fold of its log.             *)

\* No action whose model has a precondition was built.
NoClaims == \A a \in built : a.kind # "claim"

Folded(e, s) == Sorted(e.log) /\ Alike(e.doc, Fold(s.doc, e.log))

\* A document that is folded stays folded while its node runs, and one that is
\* read from its files is folded when no action of the WAL has a precondition.
LEMMA MovedFolds ==
    ASSUME NEW U \in SUBSET Issued, NEW d, NEW b \in BOOLEAN, NEW c,
           NEW e \in Entries, NEW s \in Snap, NEW w \in Seq(Issued),
           NEW f, NEW t, NEW v, c,
           Moved(U, d, b, e, s, w, c, f, t, v),
           b => Folded(e, s), b \/ Unclaimed(w)
    PROVE  Folded(f, t)
<1>1. /\ e.doc \in DocState /\ e.log \in Seq(Issued) /\ s.doc \in DocState
  BY DEF Entries, Snap, DocState
<1>2. CASE Stays(b, e, s, w, c, f, t, v)
  BY <1>2 DEF Stays, Folded
<1>3. ASSUME NEW a \in U, NEW x \in Entries, Grows(a, x, b, e, s, w, c, f, t, v)
      PROVE  Folded(f, t)
  <2>1. /\ Precondition(e.doc, a) /\ Put(s.doc, e, a, x) /\ Stored(x, a, w, s, f, v, t)
        /\ Folded(e, s)
    BY <1>3 DEF Grows
  <2>2. x.doc \in DocState /\ x.log \in Seq(Issued) /\ x.log # <<>> /\ a \in Issued
    BY <2>1 DEF Put, Entries
  <2>3. Folded(x, s)
    <3>1. CASE PutLast(e, a, x)
      <4>1. x.doc = FoldStep(e.doc, a) /\ x.log = Append(e.log, a) /\ Sorted(x.log)
        BY <2>1, <3>1 DEF PutLast, FoldStep, Folded
      <4>2. Fold(s.doc, x.log) = FoldStep(Fold(s.doc, e.log), a)
        BY <1>1, <2>2, <4>1, FoldFacts
      <4>3. Alike(e.doc, Fold(s.doc, e.log)) /\ Fold(s.doc, e.log) \in DocState
        BY <1>1, <2>1, FoldFacts DEF Folded
      <4>4. Alike(FoldStep(e.doc, a), FoldStep(Fold(s.doc, e.log), a))
        BY <1>1, <2>2, <4>3, AlikeStep
      <4> QED BY <4>1, <4>2, <4>4 DEF Folded
    <3>2. CASE PutWithin(s.doc, e, a, x)
      BY <3>2 DEF PutWithin, Folded, Alike
    <3> QED BY <2>1, <3>1, <3>2 DEF Put
  <2>4. CASE f.log = x.log /\ t = s
    BY <2>1, <2>3, <2>4 DEF Stored, Folded
  <2>5. CASE f.log = <<>> /\ t = SnapOf(x)
    <3>1. t.doc = x.doc /\ f.doc = x.doc
      BY <2>1, <2>2, <2>5, SnapOfType DEF Stored
    <3>2. Fold(t.doc, f.log) = f.doc
      BY <2>2, <2>5, <3>1, FoldFacts
    <3>3. Sorted(<<>>)
      BY DEF Sorted
    <3> QED BY <2>5, <3>2, <3>3 DEF Folded, Alike
  <2> QED BY <2>1, <2>4, <2>5 DEF Stored
<1>4. CASE Returns(b, s, w, c, f, t, v)
  <2>1. PICK l \in Seq(Issued) : l = Canonical(w) /\ Range(l) = Range(w) /\ Sorted(l)
    BY CanonicalFacts
  <2>2. Unclaimed(l)
    BY <1>4, <2>1 DEF Returns, Unclaimed
  <2>3. PICK r \in Entries : r = ReplayOver(s.doc, l) /\ ReplayIsFold(s.doc, l, r)
    BY <1>1, ReplayFolds, ReplayOverFacts
  <2>4. Folded(r, s)
    BY <2>1, <2>2, <2>3 DEF ReplayIsFold, Folded
  <2>5. CASE f = r
    BY <1>4, <2>4, <2>5 DEF Returns
  <2>6. CASE f = NewEntry /\ r.doc.name = NoName /\ r.doc.fields = NoFields
             /\ ~ r.doc.deleted /\ r.log = <<>>
    <3>1. Fold(s.doc, <<>>) = s.doc
      BY <1>1, FoldFacts
    <3>2. s.doc.name = NoName /\ s.doc.fields = NoFields /\ ~ s.doc.deleted
      BY <2>4, <2>6, <3>1 DEF Folded, Alike
    <3>3. s.doc.deleted = FALSE
      BY <1>1, <3>2 DEF DocState
    <3>4. f.log = <<>> /\ f.doc = NewDoc /\ t = s
      BY <1>4, <2>6 DEF NewEntry, Returns
    <3>5. Sorted(<<>>)
      BY DEF Sorted
    <3>6. NewDoc.name = NoName /\ NewDoc.fields = NoFields /\ NewDoc.deleted = FALSE
      BY DEF NewDoc
    <3>7. Alike(f.doc, s.doc)
      BY <3>2, <3>3, <3>4, <3>6 DEF Alike
    <3> QED BY <3>1, <3>4, <3>5, <3>7 DEF Folded
  <2>7. Restored(s.doc, w, f)
    BY <1>4 DEF Returns
  <2>8. ReplayOver(s.doc, Canonical(w)) = r
    BY <2>1, <2>3
  <2> QED BY <2>5, <2>6, <2>7, <2>8 DEF Restored
<1> QED BY <1>2, <1>3, <1>4 DEF Moved

\* Until the first crash every node runs, and its log is its WAL but for the
\* order.
Uncrashed ==
    crashed = 0 =>
        \A n \in Origin :
            /\ up[n]
            /\ \A d \in DocId : Range(EntryOf(n, d).log) = Range(LogOn(n, d))

\* The documents of the running nodes are folded, until a crash unless no
\* action has a precondition: `replay_doc` does not check preconditions again.
DocsFolded ==
    crashed = 0 \/ NoClaims =>
        \A n \in Origin, d \in DocId : up[n] => Folded(EntryOf(n, d), SnapOn(n, d))

FoldInv == Uncrashed /\ DocsFolded

\* The crashes and the built actions only grow, and only a crash stops a node.
LEMMA StepGrows ==
    ASSUME StoreInv, [Next]_vars
    PROVE  /\ crashed' = 0 => crashed = 0 /\ \A n \in Origin : up[n] => up'[n]
           /\ built \subseteq built'
<1>1. (StoreStep \/ UNCHANGED vars) /\ Builds
  BY StoreInvNext
<1>2. built \subseteq built'
  BY <1>1 DEF Builds, IsNew
<1>3. crashed \in Nat /\ up \in [Origin -> BOOLEAN]
  BY StoreAssumption DEF StoreInv, StoreTypes
<1>4. \/ crashed' = crashed /\ up' = up
      \/ crashed' = crashed + 1
      \/ \E n \in Origin : crashed' = crashed /\ up' = [up EXCEPT ![n] = TRUE]
  <2>1. ASSUME NEW n, NEW m, NEW a, TakeStep(n, m, a)
        PROVE  crashed' = crashed /\ up' = up
    BY <2>1 DEF TakeStep, Takes
  <2>2. ASSUME NEW n, NEW a, ProposeStep(n, a) PROVE crashed' = crashed /\ up' = up
    BY <2>2 DEF ProposeStep
  <2>3. ASSUME NEW n, PublishStep(n) PROVE crashed' = crashed /\ up' = up
    BY <2>3 DEF PublishStep
  <2>4. ASSUME NEW n, CrashStep(n) PROVE crashed' = crashed + 1
    BY <2>4 DEF CrashStep, GoesDown
  <2>5. ASSUME NEW n, RestartStep(n)
        PROVE  n \in Origin /\ crashed' = crashed /\ up' = [up EXCEPT ![n] = TRUE]
    BY <2>5 DEF RestartStep
  <2>6. ASSUME NEW n, NEW c, CatchUpStep(n, c) PROVE crashed' = crashed /\ up' = up
    BY <2>6 DEF CatchUpStep
  <2>7. ASSUME NEW n, NEW a, NEW x, CutStep(n, a, x) PROVE crashed' = crashed + 1
    BY <2>7 DEF CutStep, GoesDown
  <2>8. UNCHANGED vars => crashed' = crashed /\ up' = up
    BY DEF vars
  <2> QED BY <1>1, <2>1, <2>2, <2>3, <2>4, <2>5, <2>6, <2>7, <2>8 DEF StoreStep
<1> QED BY <1>2, <1>3, <1>4

\* A running node that keeps running stores in its WAL what it logs.
LEMMA MovedWhole ==
    ASSUME NEW U \in SUBSET Issued, NEW d, NEW b, NEW c,
           NEW e \in Entries, NEW s \in Snap, NEW w \in Seq(Issued),
           NEW f, NEW t, NEW v, b, c,
           Moved(U, d, b, e, s, w, c, f, t, v), Range(e.log) = Range(w)
    PROVE  Range(f.log) = Range(v)
<1>1. CASE Stays(b, e, s, w, c, f, t, v)
  BY <1>1 DEF Stays
<1>2. ASSUME NEW a \in U, NEW x \in Entries, Grows(a, x, b, e, s, w, c, f, t, v)
      PROVE  Range(f.log) = Range(v)
  <2>1. Range(x.log) = Range(e.log) \cup {a} /\ Stored(x, a, w, s, f, v, t)
    BY <1>2 DEF Grows, Put
  <2>2. Range(Append(w, a)) = Range(w) \cup {a}
    BY RangeFacts
  <2> QED BY <2>1, <2>2 DEF Stored
<1> QED BY <1>1, <1>2 DEF Moved, Returns

\* A step keeps both parts.
LEMMA FoldInvNext ==
    ASSUME StoreInv, FoldInv, [Next]_vars
    PROVE  FoldInv'
<1>1. /\ crashed' = 0 => crashed = 0 /\ \A n \in Origin : up[n] => up'[n]
      /\ built \subseteq built'
  BY StepGrows
<1>2. ASSUME NEW n \in Origin, NEW d \in DocId
      PROVE  /\ DocMoved(built', n, d)
             /\ EntryOf(n, d) \in Entries /\ SnapOn(n, d) \in Snap
             /\ LogOn(n, d) \in Seq(Issued)
             /\ built' \in SUBSET Issued /\ up[n] \in BOOLEAN
  <2>1. StoreInv' /\ DocMoved(built', n, d)
    BY StoreInvNext
  <2> QED BY <2>1, DocTypes DEF StoreInv, StoreTypes
<1>3. Uncrashed'
  <2> SUFFICES ASSUME crashed' = 0, NEW n \in Origin
               PROVE  /\ up'[n]
                      /\ \A d \in DocId : Range(EntryOf(n, d)'.log) = Range(LogOn(n, d)')
    BY DEF Uncrashed
  <2>1. up[n] /\ up'[n] /\ \A d \in DocId : Range(EntryOf(n, d).log) = Range(LogOn(n, d))
    BY <1>1 DEF FoldInv, Uncrashed
  <2>2. ASSUME NEW d \in DocId PROVE Range(EntryOf(n, d)'.log) = Range(LogOn(n, d)')
    BY <1>2, <2>1, MovedWhole DEF DocMoved
  <2> QED BY <2>1, <2>2
<1>4. DocsFolded'
  <2> SUFFICES ASSUME crashed' = 0 \/ NoClaims', NEW n \in Origin, NEW d \in DocId, up'[n]
               PROVE  Folded(EntryOf(n, d)', SnapOn(n, d)')
    BY DEF DocsFolded
  <2>1. crashed = 0 \/ NoClaims
    BY <1>1 DEF NoClaims
  <2>2. up[n] => Folded(EntryOf(n, d), SnapOn(n, d))
    BY <2>1 DEF FoldInv, DocsFolded
  <2>3. up[n] \/ Unclaimed(LogOn(n, d))
    <3>1. CASE crashed = 0
      BY <3>1 DEF FoldInv, Uncrashed
    <3>2. CASE NoClaims
      BY <3>2 DEF NoClaims, Unclaimed, StoreInv, Sources
    <3> QED BY <2>1, <3>1, <3>2
  <2> QED BY <1>2, <2>2, <2>3, MovedFolds DEF DocMoved
<1> QED BY <1>3, <1>4 DEF FoldInv

\* FoldInv holds in every reachable state.
LEMMA FoldInvariant == Spec => []FoldInv
<1>1. Init => FoldInv
  <2> SUFFICES ASSUME Init PROVE FoldInv
    OBVIOUS
  <2>1. ASSUME NEW n \in Origin, NEW d \in DocId
        PROVE  /\ up[n] /\ EntryOf(n, d) = NewEntry /\ LogOn(n, d) = <<>>
               /\ SnapOn(n, d) = NoSnap
    BY DEF Init, EntryOf, LogOn, SnapOn
  <2>2. Folded(NewEntry, NoSnap)
    <3>1. Fold(NewDoc, <<>>) = NewDoc
      BY NewDocType, FoldFacts
    <3>2. NewEntry.log = <<>> /\ NewEntry.doc = NewDoc /\ NoSnap.doc = NewDoc
      BY DEF NewEntry, NoSnap
    <3>3. Sorted(<<>>)
      BY DEF Sorted
    <3> QED BY <3>1, <3>2, <3>3 DEF Folded, Alike
  <2>3. NewEntry.log = <<>>
    BY DEF NewEntry
  <2>4. \A n \in Origin : up[n]
    BY DEF Init
  <2> QED BY <2>1, <2>2, <2>3, <2>4 DEF FoldInv, Uncrashed, DocsFolded
<1>2. StoreInv /\ FoldInv /\ [Next]_vars => FoldInv'
  BY FoldInvNext
<1> QED BY <1>1, <1>2, StoreInvariant, PTL DEF Spec

\* CanonicalFold: whatever the order of arrival, a running node's log is in
\* canonical order and its document is the fold of it over the snapshot.  With
\* preconditions this holds until the first crash; a store none of whose models
\* has one keeps it through crashes and restarts.
THEOREM DocsAreFolds == Spec => [](crashed = 0 \/ NoClaims => CanonicalFold)
<1>1. StoreInv /\ FoldInv => (crashed = 0 \/ NoClaims => CanonicalFold)
  <2> SUFFICES ASSUME StoreInv, FoldInv, crashed = 0 \/ NoClaims,
                      NEW n \in Origin, NEW d \in DocId, up[n]
               PROVE  /\ Canonical(EntryOf(n, d).log) = EntryOf(n, d).log
                      /\ View(EntryOf(n, d).doc) =
                            View(Fold(SnapOn(n, d).doc, EntryOf(n, d).log))
    BY DEF CanonicalFold, EntryOf, SnapOn
  <2>1. Folded(EntryOf(n, d), SnapOn(n, d))
    BY DEF FoldInv, DocsFolded
  <2>2. EntryOf(n, d).log \in Seq(Issued)
    BY DocTypes DEF StoreInv
  <2> QED BY <2>1, <2>2, CanonicalFacts, AlikeView DEF Folded
<1> QED BY <1>1, StoreInvariant, FoldInvariant, PTL

\* SameActionsSameDoc: until a crash, nodes whose WALs hold the same actions and
\* that have no snapshot show the same document, in whatever order and however
\* often the actions arrived.
THEOREM SameActionsConverge == Spec => [](crashed = 0 => SameActionsSameDoc)
<1>1. StoreInv /\ FoldInv => (crashed = 0 => SameActionsSameDoc)
  <2> SUFFICES ASSUME StoreInv, FoldInv, crashed = 0,
                      NEW m \in Origin, NEW n \in Origin, NEW d \in DocId,
                      SnapOn(m, d) = NoSnap, SnapOn(n, d) = NoSnap,
                      Range(LogOn(m, d)) = Range(LogOn(n, d))
               PROVE  View(EntryOf(m, d).doc) = View(EntryOf(n, d).doc)
    BY DEF SameActionsSameDoc, EntryOf, SnapOn, LogOn
  <2>1. ASSUME NEW p \in {m, n}
        PROVE  /\ Sorted(EntryOf(p, d).log)
               /\ Alike(EntryOf(p, d).doc, Fold(NewDoc, EntryOf(p, d).log))
               /\ Range(EntryOf(p, d).log) = Range(LogOn(p, d))
               /\ EntryOf(p, d).log \in Seq(built)
    <3>1. up[p] /\ Range(EntryOf(p, d).log) = Range(LogOn(p, d))
      BY DEF FoldInv, Uncrashed
    <3>2. Folded(EntryOf(p, d), SnapOn(p, d)) /\ SnapOn(p, d).doc = NewDoc
      BY <3>1 DEF FoldInv, DocsFolded, NoSnap
    <3>3. EntryOf(p, d).log \in Seq(Issued) /\ Range(EntryOf(p, d).log) \subseteq built
      BY DocTypes DEF StoreInv, Sources
    <3>4. EntryOf(p, d).log \in Seq(built)
      BY <3>3 DEF Range
    <3> QED BY <3>1, <3>2, <3>4 DEF Folded
  <2>2. SameActions(built, EntryOf(m, d).log, EntryOf(n, d).log)
    BY <2>1 DEF SameActions
  <2>3. Fold(NewDoc, EntryOf(m, d).log) = Fold(NewDoc, EntryOf(n, d).log)
    BY <2>2, NewDocType, FoldByRange DEF StoreInv, StoreTypes, Sources
  <2>4. Alike(EntryOf(m, d).doc, EntryOf(n, d).doc)
    BY <2>1, <2>3 DEF Alike
  <2> QED BY <2>4, AlikeView
<1> QED BY <1>1, StoreInvariant, FoldInvariant, PTL

\* RestartKeepsDocs: until a crash, and when no action has a precondition, the
\* files of every node replay to the documents it shows, so that stopping it
\* between two operations loses nothing.
THEOREM FilesReplay == Spec => [](crashed = 0 /\ NoClaims => RestartKeepsDocs)
<1>1. StoreInv /\ FoldInv => (crashed = 0 /\ NoClaims => RestartKeepsDocs)
  <2> SUFFICES ASSUME StoreInv, FoldInv, crashed = 0, NoClaims,
                      NEW n \in Origin, NEW d \in DocId
               PROVE  View(Replay(SnapOn(n, d), LogOn(n, d)).doc) =
                         View(EntryOf(n, d).doc)
    BY DEF RestartKeepsDocs, EntryOf, SnapOn, LogOn
  <2>1. PICK e \in Entries, s \in Snap, w \in Seq(Issued) :
          e = EntryOf(n, d) /\ s = SnapOn(n, d) /\ w = LogOn(n, d)
    BY DocTypes DEF StoreInv
  <2>2. Folded(e, s) /\ Range(e.log) = Range(w)
    BY <2>1 DEF FoldInv, Uncrashed, DocsFolded
  <2>3. Range(w) \subseteq built /\ Unclaimed(w)
    BY <2>1 DEF StoreInv, Sources, NoClaims, Unclaimed
  <2>4. PICK l \in Seq(Issued) : l = Canonical(w) /\ Range(l) = Range(w) /\ Sorted(l)
    BY CanonicalFacts
  <2>5. s.doc \in DocState /\ e.log \in Seq(Issued)
    BY DEF Snap, Entries
  <2>6. PICK r \in Entries : r = ReplayOver(s.doc, l) /\ ReplayIsFold(s.doc, l, r)
    BY <2>5, ReplayFolds, ReplayOverFacts
  <2>7. Unclaimed(l)
    BY <2>3, <2>4 DEF Unclaimed
  <2>8. r.doc = Fold(s.doc, l)
    BY <2>6, <2>7 DEF ReplayIsFold
  <2>9. SameActions(built, e.log, l)
    <3>1. Range(e.log) \subseteq built /\ Range(l) \subseteq built
      BY <2>2, <2>3, <2>4
    <3>2. e.log \in Seq(built)
      BY <2>5, <3>1 DEF Range
    <3>3. l \in Seq(built)
      BY <3>1 DEF Range
    <3> QED BY <2>2, <2>4, <3>2, <3>3 DEF SameActions, Folded
  <2>10. Fold(s.doc, e.log) = Fold(s.doc, l)
    <3>1. built \in SUBSET Issued /\ HashesUnique(built)
      BY DEF StoreInv, StoreTypes, Sources
    <3> QED BY <2>5, <2>9, <3>1, FoldByRange
  <2>11. Alike(r.doc, e.doc)
    BY <2>2, <2>8, <2>10 DEF Folded, Alike
  <2>12. Restored(s.doc, w, Replay(s, w))
    BY ReplayRestores
  <2>13. CASE Replay(s, w) = r
    BY <2>1, <2>11, <2>13, AlikeView
  <2>14. CASE /\ Replay(s, w) = NewEntry /\ r.doc.name = NoName
              /\ r.doc.fields = NoFields /\ ~ r.doc.deleted
    <3>1. r.doc.deleted = FALSE
      BY <2>14 DEF Entries, DocState
    <3>2. NewEntry.doc.name = NoName /\ NewEntry.doc.fields = NoFields
          /\ NewEntry.doc.deleted = FALSE
      BY DEF NewEntry, NewDoc
    <3>3. Alike(Replay(s, w).doc, e.doc)
      BY <2>11, <2>14, <3>1, <3>2 DEF Alike
    <3> QED BY <2>1, <3>3, AlikeView
  <2>15. ReplayOver(s.doc, Canonical(w)) = r
    BY <2>4, <2>6
  <2> QED BY <2>12, <2>13, <2>14, <2>15 DEF Restored
<1> QED BY <1>1, StoreInvariant, FoldInvariant, PTL

-----------------------------------------------------------------------------
(* A document that a node has created or named is found again after a      *)
(* restart: `replay_doc` gives no entry to a document without a name.      *)

Titled(doc) == doc.name # NoName \/ doc.deleted

Titles(log) == \E a \in Range(log) : a.kind \in {"name", "drop"}

\* An action titles a document if it names or deletes it.
LEMMA TitledStep ==
    ASSUME NEW d \in DocState, NEW a \in Issued
    PROVE  /\ Titled(Reduce(d, a)) <=> Titled(d) \/ a.kind \in {"name", "drop"}
           /\ Titled(FoldStep(d, a)) <=> Titled(d) \/ a.kind \in {"name", "drop"}
<1>1. Reduced(d, a, Reduce(d, a))
  BY ReduceParts
<1>2. a.kind = "name" => a.name # NoName
  BY NameAssumption DEF Issued, WellFormed
<1>3. d.deleted \in BOOLEAN
  BY DEF DocState
<1>4. Titled(Reduce(d, a)) <=> Titled(d) \/ a.kind \in {"name", "drop"}
  BY <1>1, <1>2, <1>3 DEF Reduced, Titled
<1>5. a.kind \in {"name", "drop"} => FoldStep(d, a) = Reduce(d, a)
  BY DEF FoldStep, Precondition
<1>6. FoldStep(d, a) = Reduce(d, a) \/ FoldStep(d, a) = d
  BY DEF FoldStep
<1> QED BY <1>4, <1>5, <1>6

\* Appending an action adds a title when it names or deletes.
LEMMA TitlesAppend ==
    ASSUME NEW log \in Seq(Issued), NEW a \in Issued
    PROVE  Titles(Append(log, a)) <=> Titles(log) \/ a.kind \in {"name", "drop"}
<1>1. Range(Append(log, a)) = Range(log) \cup {a}
  BY RangeFacts
<1> QED BY <1>1 DEF Titles

\* The fold of a log is titled by the base or by the log.
LEMMA FoldTitled ==
    ASSUME NEW base \in DocState
    PROVE  \A log \in Seq(Issued) :
              Titled(Fold(base, log)) <=> Titled(base) \/ Titles(log)
<1> DEFINE T == {log \in Seq(Issued) :
                    Titled(Fold(base, log)) <=> Titled(base) \/ Titles(log)}
<1>1. <<>> \in T
  BY FoldFacts, RangeFacts DEF Titles
<1>2. ASSUME NEW log \in Seq(Issued), NEW a \in Issued, log \in T
      PROVE  Append(log, a) \in T
  <2>1. /\ Fold(base, log) \in DocState
        /\ Fold(base, Append(log, a)) = FoldStep(Fold(base, log), a)
    BY FoldFacts
  <2>2. Titled(Fold(base, log)) <=> Titled(base) \/ Titles(log)
    BY <1>2
  <2>3. Append(log, a) \in Seq(Issued)
    OBVIOUS
  <2> QED BY <2>1, <2>2, <2>3, TitledStep, TitlesAppend
<1>3. \A log \in Seq(Issued) : log \in T
  <2> HIDE DEF T
  <2> QED BY <1>1, <1>2, SeqSetInduction
<1> QED BY <1>3

\* So is the replay of a WAL, and what titled it is in the log it keeps.
ReplayTitles(base, log, e) ==
    /\ Titled(e.doc) <=> Titled(base) \/ Titles(log)
    /\ Titled(e.doc) <=> Titled(base) \/ Titles(e.log)

\* A replayed log leaves a titled document when the base or the log titles it.
LEMMA ReplayTitled ==
    ASSUME NEW base \in DocState
    PROVE  \A log \in Seq(Issued) : ReplayTitles(base, log, ReplayOver(base, log))
<1> DEFINE T == {log \in Seq(Issued) : ReplayTitles(base, log, ReplayOver(base, log))}
<1>1. <<>> \in T
  <2>1. ReplayOver(base, <<>>).doc = base /\ ReplayOver(base, <<>>).log = <<>>
    BY ReplayOverFacts DEF Fresh
  <2> QED BY <2>1, RangeFacts DEF ReplayTitles, Titles
<1>2. ASSUME NEW log \in Seq(Issued), NEW a \in Issued, log \in T
      PROVE  Append(log, a) \in T
  <2>1. PICK e \in Entries : e = ReplayOver(base, log)
    BY ReplayOverFacts
  <2>2. PICK f : f = ReplayOver(base, Append(log, a)) /\ f = ReplayStep(e, a)
    BY <2>1, ReplayOverFacts
  <2>3. /\ f.doc = Reduce(e.doc, a)
        /\ f.log = IF Applies(e.doc, a) THEN Append(e.log, a) ELSE e.log
    BY <2>2, ReplayStepParts
  <2>4. e.doc \in DocState /\ e.log \in Seq(Issued) /\ ReplayTitles(base, log, e)
    BY <1>2, <2>1 DEF Entries
  <2>5. Titled(f.doc) <=> Titled(e.doc) \/ a.kind \in {"name", "drop"}
    BY <2>3, <2>4, TitledStep
  <2>6. a.kind \in {"name", "drop"} => Applies(e.doc, a) \/ Titled(e.doc)
    BY OpOfFacts DEF Applies, OpApplies, Titled
  <2>7. Titled(f.doc) <=> Titled(base) \/ Titles(f.log)
    <3>1. CASE Applies(e.doc, a)
      <4>1. Titles(f.log) <=> Titles(e.log) \/ a.kind \in {"name", "drop"}
        BY <2>3, <2>4, <3>1, TitlesAppend
      <4> QED BY <2>4, <2>5, <4>1 DEF ReplayTitles
    <3>2. CASE ~ Applies(e.doc, a)
      BY <2>3, <2>4, <2>5, <2>6, <3>2 DEF ReplayTitles
    <3> QED BY <3>1, <3>2
  <2>8. Titles(Append(log, a)) <=> Titles(log) \/ a.kind \in {"name", "drop"}
    BY TitlesAppend
  <2>9. ReplayTitles(base, Append(log, a), f)
    BY <2>4, <2>5, <2>7, <2>8 DEF ReplayTitles
  <2>10. Append(log, a) \in Seq(Issued)
    OBVIOUS
  <2> QED BY <2>2, <2>9, <2>10
<1>3. \A log \in Seq(Issued) : log \in T
  <2> HIDE DEF T
  <2> QED BY <1>1, <1>2, SeqSetInduction
<1> QED BY <1>3

\* A document is titled in memory, by its snapshot and log, and by its files
\* alike.
TitleKept(e, s, w) ==
    /\ Titled(e.doc) <=> Titled(s.doc) \/ Titles(e.log)
    /\ Titled(e.doc) <=> Titled(s.doc) \/ Titles(w)

\* An entry extended by an action is titled if it was or if the action does it.
LEMMA PutTitles ==
    ASSUME NEW e \in Entries, NEW s \in Snap, NEW w, NEW a \in Issued, NEW x,
           Put(s.doc, e, a, x), TitleKept(e, s, w)
    PROVE  /\ Titles(x.log) <=> Titles(e.log) \/ a.kind \in {"name", "drop"}
           /\ Titled(x.doc) <=> Titled(e.doc) \/ a.kind \in {"name", "drop"}
<1>1. /\ e.doc \in DocState /\ e.log \in Seq(Issued) /\ s.doc \in DocState
  BY DEF Entries, Snap
<1>2. Range(x.log) = Range(e.log) \cup {a} /\ x.log \in Seq(Issued)
  BY DEF Put, Entries
<1>3. Titles(x.log) <=> Titles(e.log) \/ a.kind \in {"name", "drop"}
  BY <1>2 DEF Titles
<1>4. CASE PutLast(e, a, x)
  BY <1>1, <1>3, <1>4, TitledStep DEF PutLast
<1>5. CASE PutWithin(s.doc, e, a, x)
  <2>1. Titled(x.doc) <=> Titled(Fold(s.doc, x.log))
    BY <1>5 DEF PutWithin, Titled
  <2> QED BY <1>1, <1>2, <1>3, <2>1, FoldTitled DEF TitleKept
<1> QED BY <1>4, <1>5 DEF Put

\* The titles stay the same whatever happens to the document, and stay.
LEMMA MovedTitles ==
    ASSUME NEW U \in SUBSET Issued, NEW d, NEW b, NEW c,
           NEW e \in Entries, NEW s \in Snap, NEW w \in Seq(Issued),
           NEW f, NEW t, NEW v, Moved(U, d, b, e, s, w, c, f, t, v),
           TitleKept(e, s, w)
    PROVE  TitleKept(f, t, v) /\ (Titled(e.doc) => Titled(f.doc))
<1>1. /\ e.doc \in DocState /\ e.log \in Seq(Issued) /\ s.doc \in DocState
  BY DEF Entries, Snap
<1>2. CASE Stays(b, e, s, w, c, f, t, v)
  BY <1>2 DEF Stays, TitleKept
<1>3. ASSUME NEW a \in U, NEW x \in Entries, Grows(a, x, b, e, s, w, c, f, t, v)
      PROVE  TitleKept(f, t, v) /\ (Titled(e.doc) => Titled(f.doc))
  <2>1. x.log # <<>> /\ a \in Issued
    BY <1>3 DEF Grows, Put
  <2>2. Titles(x.log) <=> Titles(e.log) \/ a.kind \in {"name", "drop"}
    BY <1>3, PutTitles DEF Grows
  <2>3. Titled(x.doc) <=> Titled(e.doc) \/ a.kind \in {"name", "drop"}
    BY <1>3, PutTitles DEF Grows
  <2>4. SnapOf(x).doc = x.doc
    BY <2>1, SnapOfType
  <2>5. Titles(Append(w, a)) <=> Titles(w) \/ a.kind \in {"name", "drop"}
    BY <2>1, TitlesAppend
  <2>6. CASE f.doc = x.doc /\ f.log = x.log /\ v = Append(w, a) /\ (t = s \/ t = SnapOf(x))
    BY <2>2, <2>3, <2>4, <2>5, <2>6 DEF TitleKept
  <2>7. CASE f.doc = x.doc /\ f.log = <<>> /\ v = <<>> /\ t = SnapOf(x)
    BY <2>3, <2>4, <2>7, RangeFacts DEF TitleKept, Titles
  <2> QED BY <1>3, <2>6, <2>7 DEF Grows, Stored
<1>4. CASE Returns(b, s, w, c, f, t, v)
  <2>1. PICK l \in Seq(Issued) : l = Canonical(w) /\ Range(l) = Range(w)
    BY CanonicalFacts
  <2>2. PICK r : r = ReplayOver(s.doc, l) /\ ReplayTitles(s.doc, l, r)
    BY <1>1, ReplayTitled
  <2>3. f = r \/ (f = NewEntry /\ ~ Titled(r.doc))
    BY <1>4, <2>1, <2>2 DEF Returns, Restored, Titled
  <2>4. t = s /\ v = w
    BY <1>4 DEF Returns
  <2>5. Titles(l) <=> Titles(w)
    BY <2>1 DEF Titles
  <2>6. CASE f = r
    BY <2>2, <2>4, <2>5, <2>6 DEF ReplayTitles, TitleKept
  <2>7. CASE f = NewEntry /\ ~ Titled(r.doc)
    <3>1. ~ Titled(f.doc) /\ f.log = <<>>
      BY <2>7 DEF NewEntry, NewDoc, Titled
    <3> QED BY <2>2, <2>4, <2>5, <2>7, <3>1, RangeFacts
            DEF ReplayTitles, TitleKept, Titles
  <2> QED BY <2>3, <2>6, <2>7
<1> QED BY <1>2, <1>3, <1>4 DEF Moved

\* A name a node's index holds after a step was there before, or is the name
\* the document has now.
LEMMA StepNames ==
    ASSUME StoreInv, StoreStep \/ UNCHANGED vars, NEW p \in Origin, NEW s \in Name,
           mem'[p].names[s] # NoDoc
    PROVE  \/ mem'[p].names[s] = mem[p].names[s]
           \/ mem'[p].entry[mem'[p].names[s]].doc.name = s
<1>1. mem \in [Origin -> Mems] /\ mem[p].names \in [Name -> DocId \cup {NoDoc}]
  BY DEF StoreInv, StoreTypes, Mems
<1>2. CASE UNCHANGED vars
  BY <1>2 DEF vars
<1>3. ASSUME NEW n, NEW m, NEW a, TakeStep(n, m, a)
      PROVE  \/ mem'[p].names[s] = mem[p].names[s]
             \/ mem'[p].entry[mem'[p].names[s]].doc.name = s
  <2>1. Refuses(n, a) \/ \E x \in Entries : Accepts(n, a, x)
    BY <1>3, TakeMoves DEF StoreInv
  <2>2. CASE Refuses(n, a)
    BY <2>2 DEF Refuses
  <2>3. ASSUME NEW x \in Entries, Accepts(n, a, x), p = n
        PROVE  \/ mem'[p].names[s] = mem[p].names[s]
               \/ mem'[p].entry[mem'[p].names[s]].doc.name = s
    <3>1. mem'[p].names = SyncNames(mem[p].names, a.doc, x.doc)
      BY <2>3 DEF Accepts
    <3>2. EntryOf(p, a.doc)'.doc = x.doc
      BY <2>3 DEF Accepts, Grows, Stored
    <3>3. x.doc.name \in Name \cup {NoName} /\ x.doc.deleted \in BOOLEAN
      BY DEF Entries, DocState
    <3>4. \/ mem'[p].names[s] = mem[p].names[s]
          \/ mem'[p].names[s] = NoDoc
          \/ mem'[p].names[s] = a.doc /\ x.doc.name = s
      BY <1>1, <3>1, <3>3 DEF SyncNames
    <3>5. CASE mem'[p].names[s] = a.doc /\ x.doc.name = s
      BY <3>2, <3>5 DEF EntryOf
    <3> QED BY <3>4, <3>5
  <2>4. ASSUME NEW x \in Entries, Accepts(n, a, x), p # n
        PROVE  mem'[p].names[s] = mem[p].names[s]
    BY <2>4 DEF Accepts
  <2> QED BY <2>1, <2>2, <2>3, <2>4
<1>4. CASE (\E n, a : ProposeStep(n, a)) \/ (\E n : PublishStep(n))
           \/ \E n, a, x : CutStep(n, a, x)
  <2>1. PICK n \in Origin, m \in Mems : /\ m.names = mem[n].names
                                        /\ mem' = [mem EXCEPT ![n] = m]
    <3>1. ASSUME NEW n, NEW a, ProposeStep(n, a)
          PROVE  /\ n \in Origin
                 /\ \E m \in Mems : /\ m.names = mem[n].names
                                    /\ mem' = [mem EXCEPT ![n] = m]
      BY <3>1 DEF ProposeStep, Readied
    <3>2. ASSUME NEW n, PublishStep(n)
          PROVE  /\ n \in Origin
                 /\ \E m \in Mems : /\ m.names = mem[n].names
                                    /\ mem' = [mem EXCEPT ![n] = m]
      BY <3>2 DEF PublishStep
    <3>3. ASSUME NEW n, NEW a, NEW x, CutStep(n, a, x)
          PROVE  /\ n \in Origin
                 /\ \E m \in Mems : /\ m.names = mem[n].names
                                    /\ mem' = [mem EXCEPT ![n] = m]
      BY <3>3 DEF CutStep, GoesDown
    <3> QED BY <1>4, <3>1, <3>2, <3>3
  <2> QED BY <1>1, <2>1
<1>5. CASE (\E n : CrashStep(n)) \/ (\E n, d : CatchUpStep(n, d))
  BY <1>5 DEF CrashStep, CatchUpStep
<1>6. ASSUME NEW n, RestartStep(n)
      PROVE  \/ mem'[p].names[s] = mem[p].names[s]
             \/ mem'[p].entry[mem'[p].names[s]].doc.name = s
  <2>1. PICK m \in Mems :
           /\ \A z \in Name : m.names[z] # NoDoc => m.entry[m.names[z]].doc.name = z
           /\ mem' = [mem EXCEPT ![n] = m]
    BY <1>6 DEF RestartStep
  <2>2. CASE p = n
    <3>1. mem'[p] = m
      BY <1>1, <2>1, <2>2
    <3>2. m.entry[m.names[s]].doc.name = s
      BY <2>1, <3>1
    <3> QED BY <3>1, <3>2 DEF EntryOf
  <2>3. CASE p # n
    BY <1>1, <2>1, <2>3
  <2> QED BY <2>2, <2>3
<1> QED BY <1>2, <1>3, <1>4, <1>5, <1>6 DEF StoreStep

\* Every document is titled alike in memory and on disk, and a document the
\* name index holds is titled.
TitleInv ==
    /\ \A n \in Origin, d \in DocId : TitleKept(EntryOf(n, d), SnapOn(n, d), LogOn(n, d))
    /\ \A n \in Origin, s \in Name :
          mem[n].names[s] # NoDoc => Titled(EntryOf(n, mem[n].names[s]).doc)

\* Every step keeps titles: `replay_doc` never takes such a document for empty.
LEMMA TitleInvNext ==
    ASSUME StoreInv, TitleInv, [Next]_vars
    PROVE  TitleInv'
<1>1. StoreInv' /\ (StoreStep \/ UNCHANGED vars)
  BY StoreInvNext
<1>2. ASSUME NEW n \in Origin, NEW d \in DocId
      PROVE  /\ TitleKept(EntryOf(n, d)', SnapOn(n, d)', LogOn(n, d)')
             /\ Titled(EntryOf(n, d).doc) => Titled(EntryOf(n, d)'.doc)
  <2>1. DocMoved(built', n, d)
    BY StoreInvNext
  <2>2. /\ EntryOf(n, d) \in Entries /\ SnapOn(n, d) \in Snap
        /\ LogOn(n, d) \in Seq(Issued) /\ built' \in SUBSET Issued
    BY <1>1, DocTypes DEF StoreInv, StoreTypes
  <2>3. TitleKept(EntryOf(n, d), SnapOn(n, d), LogOn(n, d))
    BY DEF TitleInv
  <2> QED BY <2>1, <2>2, <2>3, MovedTitles DEF DocMoved
<1>3. ASSUME NEW n \in Origin, NEW s \in Name, mem'[n].names[s] # NoDoc
      PROVE  Titled(mem'[n].entry[mem'[n].names[s]].doc)
  <2>1. PICK d : d = mem'[n].names[s]
    OBVIOUS
  <2>2. d \in DocId
    <3>1. mem'[n].names \in [Name -> DocId \cup {NoDoc}]
      BY <1>1 DEF StoreInv, StoreTypes, Mems
    <3> QED BY <1>3, <2>1, <3>1
  <2>3. d = mem[n].names[s] \/ EntryOf(n, d)'.doc.name = s
    <3>1. \/ mem'[n].names[s] = mem[n].names[s]
          \/ mem'[n].entry[mem'[n].names[s]].doc.name = s
      BY <1>1, <1>3, StepNames
    <3> QED BY <2>1, <3>1 DEF EntryOf
  <2>4. CASE d = mem[n].names[s]
    <3>1. Titled(EntryOf(n, d).doc)
      BY <1>3, <2>1, <2>4 DEF TitleInv
    <3>2. Titled(EntryOf(n, d)'.doc)
      BY <1>2, <2>2, <3>1
    <3> QED BY <2>1, <3>2 DEF EntryOf
  <2>5. CASE EntryOf(n, d)'.doc.name = s
    <3>1. s # NoName
      BY NameAssumption
    <3> QED BY <2>1, <2>5, <3>1 DEF Titled, EntryOf
  <2> QED BY <2>3, <2>4, <2>5
<1>4. \A n \in Origin, s \in Name :
         (mem[n].names[s] # NoDoc => Titled(EntryOf(n, mem[n].names[s]).doc))'
  BY <1>3 DEF EntryOf
<1> QED BY <1>2, <1>4 DEF TitleInv

\* TitleInv holds in every reachable state.
LEMMA TitleInvariant == Spec => []TitleInv
<1>1. Init => TitleInv
  <2> SUFFICES ASSUME Init PROVE TitleInv
    OBVIOUS
  <2>1. ASSUME NEW n \in Origin, NEW d \in DocId
        PROVE  EntryOf(n, d) = NewEntry /\ LogOn(n, d) = <<>> /\ SnapOn(n, d) = NoSnap
    BY DEF Init, EntryOf, LogOn, SnapOn
  <2>2. TitleKept(NewEntry, NoSnap, <<>>)
    BY RangeFacts DEF TitleKept, NewEntry, NoSnap, NewDoc, Titled, Titles
  <2>3. \A n \in Origin, s \in Name : mem[n].names[s] = NoDoc
    BY DEF Init
  <2> QED BY <2>1, <2>2, <2>3 DEF TitleInv
<1>2. StoreInv /\ TitleInv /\ [Next]_vars => TitleInv'
  BY TitleInvNext
<1> QED BY <1>1, <1>2, StoreInvariant, PTL DEF Spec

-----------------------------------------------------------------------------
(* No two actions of an origin carry the same version of a document.       *)

\* The actions that some log, file, queue or the network holds.
Released(a) ==
    \/ a \in wire
    \/ \E n \in Origin : a \in mem[n].outbound
    \/ \E n \in Origin, d \in DocId : a \in Range(EntryOf(n, d).log) \cup Range(LogOn(n, d))

\* Node n builds an action and takes it in.
Issues(n, a, x) ==
    /\ n \in Origin /\ a \in Issued /\ x \in Entries /\ IsNew(n, a)
    /\ Grows(a, x, up[n], EntryOf(n, a.doc), SnapOn(n, a.doc), LogOn(n, a.doc),
             up'[n], EntryOf(n, a.doc)', SnapOn(n, a.doc)', LogOn(n, a.doc)')

\* What the logs hold after a step that takes in nothing, or the action a.
LEMMA LogsReleased ==
    ASSUME StoreTypes, NEW U, \A n \in Origin, d \in DocId : DocMoved(U, n, d), NEW b,
           \E n \in Origin, d \in DocId :
               b \in Range(EntryOf(n, d)'.log) \cup Range(LogOn(n, d)')
    PROVE  Released(b) \/ b \in U
<1>1. PICK n \in Origin, d \in DocId :
         b \in Range(EntryOf(n, d)'.log) \cup Range(LogOn(n, d)')
  OBVIOUS
<1>2. b \in Range(EntryOf(n, d).log) \cup Range(LogOn(n, d)) \/ b \in U
  BY <1>1, MovedLogs
<1> QED BY <1>2 DEF Released

\* Without proposals, an action is released when its origin issues it.
LEMMA StepReleases ==
    ASSUME StoreInv, StoreStep \/ UNCHANGED vars, proposed = {},
           NEW b, Released(b)'
    PROVE  Released(b) \/ \E n, x : Issues(n, b, x)
<1>1. mem \in [Origin -> Mems] /\ StoreTypes
  BY DEF StoreInv, StoreTypes
<1>2. \/ b \in wire'
      \/ \E n \in Origin : b \in mem'[n].outbound
      \/ \E n \in Origin, d \in DocId :
            b \in Range(EntryOf(n, d)'.log) \cup Range(LogOn(n, d)')
  BY DEF Released
<1>3. ASSUME NEW U, \A n \in Origin, d \in DocId : DocMoved(U, n, d),
             b \in wire' => Released(b),
             \A n \in Origin : b \in mem'[n].outbound => Released(b) \/ b \in U
      PROVE  Released(b) \/ b \in U
  <2>1. CASE \E n \in Origin, d \in DocId :
                b \in Range(EntryOf(n, d)'.log) \cup Range(LogOn(n, d)')
    BY <1>1, <1>3, <2>1, LogsReleased
  <2> QED BY <1>2, <1>3, <2>1
<1>4. \A n \in Origin : b \in mem[n].outbound => Released(b)
  BY DEF Released
<1>5. b \in wire => Released(b)
  BY DEF Released
<1>6. CASE UNCHANGED vars
  <2>1. mem' = mem /\ wire' = wire
    BY <1>6 DEF vars
  <2>2. \A n \in Origin, d \in DocId : DocMoved({}, n, d)
    BY <1>1, <1>6, OtherMoves
  <2> QED BY <1>3, <1>4, <1>5, <2>1, <2>2
<1>7. ASSUME NEW n, NEW m, NEW a, TakeStep(n, m, a)
      PROVE  Released(b) \/ \E p, x : Issues(p, b, x)
  <2>1. /\ n \in Origin /\ a \in Issued /\ wire' = wire
        /\ IsNew(n, a) \/ a \in wire
    BY <1>7 DEF TakeStep, Takes, IsOld
  <2>2. Refuses(n, a) \/ \E x \in Entries : Accepts(n, a, x)
    BY <1>1, <1>7, TakeMoves
  <2>3. CASE Refuses(n, a)
    <3>1. \A p \in Origin : mem'[p].outbound = mem[p].outbound
      BY <2>3 DEF Refuses
    <3> QED BY <1>3, <1>4, <1>5, <2>1, <2>3, <3>1 DEF Refuses
  <2>4. ASSUME NEW x \in Entries, Accepts(n, a, x)
        PROVE  Released(b) \/ \E p, y : Issues(p, b, y)
    <3>1. \A p \in Origin : mem'[p].outbound \subseteq mem[p].outbound \cup {a}
      BY <2>4 DEF Accepts
    <3>2. \A p \in Origin, d \in DocId : DocMoved({a}, p, d)
      BY <2>4 DEF Accepts
    <3>3. Released(b) \/ b = a
      <4>1. \A p \in Origin : b \in mem'[p].outbound => Released(b) \/ b \in {a}
        BY <1>4, <3>1
      <4> QED BY <1>3, <1>5, <2>1, <3>2, <4>1
    <3>4. CASE b = a /\ IsNew(n, a)
      <4>1. Issues(n, a, x)
        BY <2>1, <2>4, <3>4 DEF Accepts, Issues
      <4> QED BY <3>4, <4>1
    <3> QED BY <1>5, <2>1, <3>3, <3>4
  <2> QED BY <2>2, <2>3, <2>4
<1>8. ASSUME NEW n, NEW a, ProposeStep(n, a) PROVE Released(b)
  <2>1. PICK m \in Mems : mem' = [mem EXCEPT ![n] = m] /\ m.outbound = mem[n].outbound
    BY <1>8 DEF ProposeStep, Readied
  <2>2. n \in Origin /\ wire' = wire
    BY <1>8 DEF ProposeStep
  <2>3. \A p \in Origin : mem'[p].outbound = mem[p].outbound
    BY <1>1, <2>1, <2>2
  <2>4. \A p \in Origin, d \in DocId : DocMoved({}, p, d)
    BY <1>1, <1>8, OtherMoves
  <2> QED BY <1>3, <1>4, <1>5, <2>2, <2>3, <2>4
<1>9. ASSUME NEW n, PublishStep(n) PROVE Released(b)
  <2>1. PICK m \in Mems : mem' = [mem EXCEPT ![n] = m] /\ m.outbound = {}
    BY <1>9 DEF PublishStep
  <2>2. n \in Origin /\ wire' = wire \cup mem[n].outbound
    BY <1>9 DEF PublishStep
  <2>3. \A p \in Origin : mem'[p].outbound \subseteq mem[p].outbound
    BY <1>1, <2>1, <2>2
  <2>4. \A p \in Origin, d \in DocId : DocMoved({}, p, d)
    BY <1>1, <1>9, OtherMoves
  <2> QED BY <1>3, <1>4, <1>5, <2>2, <2>3, <2>4
<1>10. ASSUME NEW n, CrashStep(n) PROVE Released(b)
  <2>1. mem' = mem /\ wire' = wire
    BY <1>10 DEF CrashStep, GoesDown
  <2>2. \A p \in Origin, d \in DocId : DocMoved({}, p, d)
    BY <1>1, <1>10, OtherMoves
  <2> QED BY <1>3, <1>4, <1>5, <2>1, <2>2
<1>11. ASSUME NEW n, NEW c, CatchUpStep(n, c) PROVE Released(b)
  <2>1. mem' = mem /\ n \in Origin /\ c \in DocId
    BY <1>11 DEF CatchUpStep
  <2>2. PICK A \in SUBSET Range(EntryOf(n, c).log) : wire' = wire \cup A
    BY <1>11 DEF CatchUpStep
  <2>3. b \in A => Released(b)
    BY <2>1 DEF Released
  <2>4. \A p \in Origin, d \in DocId : DocMoved({}, p, d)
    BY <1>1, <1>11, OtherMoves
  <2> QED BY <1>3, <1>4, <1>5, <2>1, <2>2, <2>3, <2>4
<1>12. ASSUME NEW n, RestartStep(n) PROVE Released(b)
  <2>1. PICK m \in Mems : mem' = [mem EXCEPT ![n] = m] /\ m.outbound = {}
    BY <1>12 DEF RestartStep
  <2>2. n \in Origin /\ wire' = wire
    BY <1>12 DEF RestartStep
  <2>3. \A p \in Origin : mem'[p].outbound \subseteq mem[p].outbound
    BY <1>1, <2>1, <2>2
  <2>4. \A p \in Origin, d \in DocId : DocMoved({}, p, d)
    BY <1>12, RestartMoves DEF StoreInv
  <2> QED BY <1>3, <1>4, <1>5, <2>2, <2>3, <2>4
<1>13. ASSUME NEW n, NEW a, NEW x, CutStep(n, a, x) PROVE Released(b)
  <2>1. PICK m \in Mems : mem' = [mem EXCEPT ![n] = m] /\ m.outbound = mem[n].outbound
    BY <1>13 DEF CutStep
  <2>2. n \in Origin /\ wire' = wire /\ a \in wire
    BY <1>13 DEF CutStep, GoesDown
  <2>3. \A p \in Origin : mem'[p].outbound = mem[p].outbound
    BY <1>1, <2>1, <2>2
  <2>4. \A p \in Origin, d \in DocId : DocMoved({a}, p, d)
    BY <1>13, CutMoves DEF StoreInv
  <2>5. Released(b) \/ b = a
    BY <1>3, <1>4, <1>5, <2>2, <2>3, <2>4
  <2> QED BY <1>5, <2>2, <2>5
<1> QED BY <1>6, <1>7, <1>8, <1>9, <1>10, <1>11, <1>12, <1>13 DEF StoreStep

\* Origin o's own document still knows its tick q, in memory and on disk.
Ticked(q, o, e, s, w) ==
    /\ Titled(e.doc) /\ q <= e.doc.clock[o]
    /\ q <= s.doc.clock[o] \/ \E b \in Range(w) : q <= b.clock[o]

\* A tick that a titled document covers stays covered, in memory and in the
\* files, whatever happens to the document.
LEMMA MovedTicks ==
    ASSUME NEW U \in SUBSET Issued, NEW d, NEW b, NEW c,
           NEW e \in Entries, NEW s \in Snap, NEW w \in Seq(Issued),
           NEW f, NEW t, NEW v, Moved(U, d, b, e, s, w, c, f, t, v),
           TitleKept(e, s, w), NEW q \in Nat, NEW o \in Origin, Ticked(q, o, e, s, w)
    PROVE  Ticked(q, o, f, t, v)
<1>1. /\ e.doc \in DocState /\ s.doc \in DocState
      /\ e.doc.clock \in Clock /\ s.doc.clock \in Clock
      /\ \A p \in Range(w) : p.clock \in Clock
  BY RangeIssued DEF Entries, Snap, DocState, Issued, Action
<1>2. Titled(f.doc)
  BY MovedTitles DEF Ticked
<1>3. CASE Stays(b, e, s, w, c, f, t, v)
  BY <1>3 DEF Stays, Ticked
<1>4. ASSUME NEW a \in U, NEW x \in Entries, Grows(a, x, b, e, s, w, c, f, t, v)
      PROVE  Ticked(q, o, f, t, v)
  <2>1. x.doc.clock = MergeClock(e.doc.clock, a.clock) /\ a.clock \in Clock /\ x.log # <<>>
    BY <1>4 DEF Grows, Put, Issued, Action
  <2>2. q <= x.doc.clock[o]
    BY <1>1, <2>1 DEF Ticked, MergeClock, Clock
  <2>3. SnapOf(x).doc = x.doc
    BY <2>1, SnapOfType
  <2>4. Range(Append(w, a)) = Range(w) \cup {a}
    BY RangeFacts
  <2>5. f.doc = x.doc /\ (t = SnapOf(x) \/ (t = s /\ v = Append(w, a)))
    BY <1>4 DEF Grows, Stored
  <2> QED BY <1>2, <2>2, <2>3, <2>4, <2>5 DEF Ticked
<1>5. CASE Returns(b, s, w, c, f, t, v)
  <2>1. PICK l \in Seq(Issued) : l = Canonical(w) /\ Range(l) = Range(w)
    BY CanonicalFacts
  <2>2. PICK r \in Entries : r = ReplayOver(s.doc, l) /\ ReplayHolds(s.doc, l, r)
    BY <1>1, ReplayOverHolds, ReplayOverFacts
  <2>3. f = r
    <3>1. f = r \/ f = NewEntry
      BY <1>5, <2>1, <2>2 DEF Returns, Restored
    <3>2. ~ Titled(NewEntry.doc)
      BY DEF NewEntry, NewDoc, Titled
    <3> QED BY <1>2, <3>1, <3>2
  <2>4. r.doc.clock \in Clock
    BY DEF Entries, DocState
  <2>5. q <= r.doc.clock[o]
    <3>1. CASE q <= s.doc.clock[o]
      BY <1>1, <2>2, <2>4, <3>1 DEF ReplayHolds, Covers, Clock
    <3>2. ASSUME NEW p \in Range(w), q <= p.clock[o]
          PROVE  q <= r.doc.clock[o]
      BY <1>1, <2>1, <2>2, <2>4, <3>2 DEF ReplayHolds, Covers, Clock
    <3> QED BY <3>1, <3>2 DEF Ticked
  <2> QED BY <1>2, <1>5, <2>3, <2>5 DEF Returns, Ticked
<1> QED BY <1>3, <1>4, <1>5 DEF Moved

\* The action a node issues carries a tick its document did not know before the
\* step and knows after it.
LEMMA IssuesTicks ==
    ASSUME StoreInv, TitleInv, NEW n, NEW a, NEW x, Issues(n, a, x)
    PROVE  /\ a.clock[n] \in Nat /\ a.clock[n] > EntryOf(n, a.doc).doc.clock[n]
           /\ Ticked(a.clock[n], n, EntryOf(n, a.doc)', SnapOn(n, a.doc)', LogOn(n, a.doc)')
<1>1. /\ n \in Origin /\ a \in Issued /\ x \in Entries /\ IsNew(n, a)
  BY DEF Issues
<1>2. PICK d \in DocId : d = a.doc
  BY <1>1 DEF Issued, Action
<1>3. PICK e \in Entries, s \in Snap, w \in Seq(Issued) :
         e = EntryOf(n, a.doc) /\ s = SnapOn(n, a.doc) /\ w = LogOn(n, a.doc)
  BY <1>1, <1>2, DocTypes DEF StoreInv
<1>4. PICK f, t, v :
         f = EntryOf(n, a.doc)' /\ t = SnapOn(n, a.doc)' /\ v = LogOn(n, a.doc)'
  OBVIOUS
<1>5. Grows(a, x, up[n], e, s, w, up'[n], f, t, v)
  BY <1>3, <1>4 DEF Issues
<1>6. TitleKept(e, s, w)
  BY <1>1, <1>2, <1>3 DEF TitleInv
<1>7. e.doc \in DocState /\ e.doc.clock \in Clock
  BY DEF Entries, DocState
<1>8. a.clock = Tick(e.doc.clock, n)
  BY <1>1, <1>3 DEF IsNew
<1>9. a.clock \in Clock /\ a.clock[n] \in Nat /\ a.clock[n] > e.doc.clock[n]
  BY <1>1, <1>7, <1>8 DEF Tick, Clock
<1>10. x.doc.clock = MergeClock(e.doc.clock, a.clock) /\ x.log # <<>>
  BY <1>5 DEF Grows, Put
<1>11. a.clock[n] <= x.doc.clock[n]
  BY <1>1, <1>7, <1>9, <1>10 DEF MergeClock, Clock
<1>12. Titled(x.doc)
  <2>1. Titled(x.doc) <=> Titled(e.doc) \/ a.kind \in {"name", "drop"}
    BY <1>1, <1>5, <1>6, PutTitles DEF Grows
  <2>2. CASE a.kind = "name"
    BY <2>1, <2>2
  <2>3. CASE a.doc \in Named(n)
    <3>1. Titled(e.doc)
      BY <1>1, <1>3, <2>3 DEF Named, TitleInv
    <3> QED BY <2>1, <3>1
  <2> QED BY <1>1, <2>2, <2>3 DEF IsNew
<1>13. SnapOf(x).doc = x.doc
  BY <1>1, <1>10, SnapOfType
<1>14. Range(Append(w, a)) = Range(w) \cup {a}
  BY <1>1, RangeFacts
<1>15. f.doc = x.doc /\ (t = SnapOf(x) \/ v = Append(w, a))
  BY <1>5 DEF Grows, Stored
<1>16. a.clock[n] <= a.clock[n]
  BY <1>9
<1>17. Ticked(a.clock[n], n, f, t, v)
  BY <1>11, <1>12, <1>13, <1>14, <1>15, <1>16 DEF Ticked
<1> QED BY <1>3, <1>4, <1>9, <1>17

\* Every released action's tick is still known to its origin, and no two
\* carry the same one.
TickInv ==
    proposed = {} =>
        /\ \A a \in built : Released(a) =>
              Ticked(a.clock[a.origin], a.origin, EntryOf(a.origin, a.doc),
                     SnapOn(a.origin, a.doc), LogOn(a.origin, a.doc))
        /\ \A a, b \in built :
              /\ Released(a) /\ Released(b)
              /\ a.doc = b.doc /\ a.origin = b.origin
              /\ a.clock[a.origin] = b.clock[b.origin]
              => a = b

\* Every step keeps the ticks of the actions sent out apart: a new action's is
\* above all that its node's document covers.
LEMMA TickInvNext ==
    ASSUME StoreInv, TitleInv, TickInv, [Next]_vars
    PROVE  TickInv'
<1> SUFFICES ASSUME proposed' = {} PROVE TickInv'
  BY DEF TickInv
<1>1. /\ StoreInv' /\ (StoreStep \/ UNCHANGED vars) /\ Builds
      /\ \A n \in Origin, d \in DocId : DocMoved(built', n, d)
  BY StoreInvNext
<1>2. proposed = {}
  <2>1. ASSUME NEW n, NEW a, ProposeStep(n, a) PROVE FALSE
    BY <2>1 DEF ProposeStep
  <2>2. proposed' = proposed
    BY <1>1, <2>1 DEF StoreStep, TakeStep, Takes, PublishStep, CrashStep, GoesDown,
                      RestartStep, CatchUpStep, CutStep, vars
  <2> QED BY <2>2
<1>3. /\ built \in SUBSET Issued /\ built' \in SUBSET Issued
      /\ \A a \in built : a.id <= Cardinality(built)
      /\ Cardinality(built) \in Nat /\ HashesUnique(built')
  BY <1>1, FS_CardinalityType DEF StoreInv, StoreTypes, Sources
<1>4. \A a \in Issued : a.origin \in Origin /\ a.doc \in DocId /\ a.clock \in Clock
                        /\ a.clock[a.origin] \in Nat
  BY DEF Issued, Action, Clock
<1>5. ASSUME NEW a, Released(a) PROVE a \in built
  BY <1>5 DEF Released, StoreInv, Sources
<1>6. ASSUME NEW a \in built', Released(a)'
      PROVE  Released(a) \/ \E x : Issues(a.origin, a, x)
  <2>1. Released(a) \/ \E n, x : Issues(n, a, x)
    BY <1>1, <1>2, <1>6, StepReleases
  <2> QED BY <2>1 DEF Issues, IsNew
<1>7. ASSUME NEW a, Released(a)
      PROVE  /\ Ticked(a.clock[a.origin], a.origin, EntryOf(a.origin, a.doc)',
                       SnapOn(a.origin, a.doc)', LogOn(a.origin, a.doc)')
             /\ a.clock[a.origin] <= EntryOf(a.origin, a.doc).doc.clock[a.origin]
  <2>1. PICK o \in Origin, d \in DocId, q \in Nat :
           o = a.origin /\ d = a.doc /\ q = a.clock[o]
    BY <1>3, <1>4, <1>5, <1>7
  <2>2. Ticked(q, o, EntryOf(o, d), SnapOn(o, d), LogOn(o, d))
    BY <1>2, <1>5, <1>7, <2>1 DEF TickInv
  <2>3. /\ EntryOf(o, d) \in Entries /\ SnapOn(o, d) \in Snap
        /\ LogOn(o, d) \in Seq(Issued)
    BY DocTypes DEF StoreInv
  <2>4. TitleKept(EntryOf(o, d), SnapOn(o, d), LogOn(o, d))
    BY DEF TitleInv
  <2>5. DocMoved(built', o, d)
    BY <1>1
  <2>6. Ticked(q, o, EntryOf(o, d)', SnapOn(o, d)', LogOn(o, d)')
    BY <1>3, <2>2, <2>3, <2>4, <2>5, MovedTicks DEF DocMoved
  <2> QED BY <2>1, <2>2, <2>6 DEF Ticked
<1>8. ASSUME NEW a, NEW x, Issues(a.origin, a, x)
      PROVE  /\ Ticked(a.clock[a.origin], a.origin, EntryOf(a.origin, a.doc)',
                       SnapOn(a.origin, a.doc)', LogOn(a.origin, a.doc)')
             /\ a.clock[a.origin] > EntryOf(a.origin, a.doc).doc.clock[a.origin]
             /\ a.id = Cardinality(built) + 1
  BY <1>8, IssuesTicks DEF Issues, IsNew
<1>9. ASSUME NEW a \in built', Released(a)'
      PROVE  Ticked(a.clock[a.origin], a.origin, EntryOf(a.origin, a.doc)',
                    SnapOn(a.origin, a.doc)', LogOn(a.origin, a.doc)')
  BY <1>6, <1>7, <1>8, <1>9
<1>10. ASSUME NEW a \in built', NEW b \in built', Released(a)', Released(b)',
              a.doc = b.doc, a.origin = b.origin,
              a.clock[a.origin] = b.clock[b.origin]
       PROVE  a = b
  <2>1. PICK o \in Origin, d \in DocId, q \in Nat, z \in Nat :
           /\ o = a.origin /\ d = a.doc /\ q = a.clock[o]
           /\ z = EntryOf(o, d).doc.clock[o]
    <3>1. a.origin \in Origin /\ a.doc \in DocId /\ a.clock[a.origin] \in Nat
      BY <1>3, <1>4
    <3>2. EntryOf(a.origin, a.doc).doc \in DocState
      BY <3>1, DocTypes DEF StoreInv
    <3> QED BY <3>1, <3>2 DEF DocState, Clock
  <2>2. CASE Released(a) /\ Released(b)
    BY <1>2, <1>5, <1>10, <2>2 DEF TickInv
  <2>3. Released(a) => q <= z
    BY <1>7, <2>1
  <2>4. Released(b) => q <= z
    BY <1>7, <1>10, <2>1
  <2>5. (\E x : Issues(a.origin, a, x)) => q > z /\ a.id = Cardinality(built) + 1
    BY <1>8, <2>1
  <2>6. (\E x : Issues(b.origin, b, x)) => q > z /\ b.id = Cardinality(built) + 1
    BY <1>8, <1>10, <2>1
  <2>7. CASE (\E x : Issues(a.origin, a, x)) /\ (\E x : Issues(b.origin, b, x))
    BY <1>3, <2>5, <2>6, <2>7 DEF HashesUnique
  <2>8. Released(a) \/ \E x : Issues(a.origin, a, x)
    BY <1>6, <1>10
  <2>9. Released(b) \/ \E x : Issues(b.origin, b, x)
    BY <1>6, <1>10
  <2>10. ~ (q <= z /\ q > z)
    BY <2>1
  <2> QED BY <2>2, <2>3, <2>4, <2>5, <2>6, <2>7, <2>8, <2>9, <2>10
<1> QED BY <1>9, <1>10 DEF TickInv

\* VersionsAreUnique: until an action is built for co-signing, the actions an
\* origin sends out for a document carry different clocks, through refused
\* actions, crashes, restarts and cut snapshots: `build_action` never hands out
\* a tick again that a file or the network still holds.
THEOREM VersionsStayUnique == Spec => [](proposed = {} => VersionsAreUnique)
<1>1. Init => TickInv
  <2> SUFFICES ASSUME Init PROVE TickInv
    OBVIOUS
  <2>1. built = {}
    BY DEF Init
  <2> QED BY <2>1 DEF TickInv
<1>2. StoreInv /\ TitleInv /\ TickInv /\ [Next]_vars => TickInv'
  BY TickInvNext
<1>3. StoreInv /\ TickInv => (proposed = {} => VersionsAreUnique)
  <2> SUFFICES ASSUME StoreInv, TickInv, proposed = {},
                      NEW a \in wire, NEW b \in wire,
                      a.doc = b.doc, a.origin = b.origin, a.clock = b.clock
               PROVE  a = b
    BY DEF VersionsAreUnique
  <2>1. a \in built /\ b \in built /\ Released(a) /\ Released(b)
    BY DEF StoreInv, Sources, Released
  <2> QED BY <2>1 DEF TickInv
<1> QED BY <1>1, <1>2, <1>3, StoreInvariant, TitleInvariant, PTL DEF Spec

-----------------------------------------------------------------------------
(* The name index leads to live documents.                                 *)

\* A folded document has its base's name or one a log's action gave it.
LEMMA FoldNameFrom ==
    ASSUME NEW base \in DocState
    PROVE  \A log \in Seq(Issued) :
              \/ Fold(base, log).name = base.name
              \/ \E a \in Range(log) : a.kind = "name" /\ a.name = Fold(base, log).name
<1> DEFINE T == {log \in Seq(Issued) :
                    \/ Fold(base, log).name = base.name
                    \/ \E a \in Range(log) :
                          a.kind = "name" /\ a.name = Fold(base, log).name}
<1>1. <<>> \in T
  BY FoldFacts
<1>2. ASSUME NEW log \in Seq(Issued), NEW a \in Issued, log \in T
      PROVE  Append(log, a) \in T
  <2>1. PICK d \in DocState : d = Fold(base, log)
    BY FoldFacts
  <2>2. Fold(base, Append(log, a)) = FoldStep(d, a)
    BY <2>1, FoldFacts
  <2>3. \/ FoldStep(d, a).name = d.name
        \/ a.kind = "name" /\ a.name = FoldStep(d, a).name
    BY ReduceParts DEF FoldStep, Reduced
  <2>4. Range(Append(log, a)) = Range(log) \cup {a} /\ Append(log, a) \in Seq(Issued)
    BY RangeFacts
  <2>5. d.name = base.name \/ \E p \in Range(log) : p.kind = "name" /\ p.name = d.name
    BY <1>2, <2>1
  <2> QED BY <2>2, <2>3, <2>4, <2>5
<1>3. \A log \in Seq(Issued) : log \in T
  <2> HIDE DEF T
  <2> QED BY <1>1, <1>2, SeqSetInduction
<1> QED BY <1>3

\* Action c is the only one of the log that names, and belongs before the rest.
Heads(c, log) ==
    /\ c \in Range(log)
    /\ \A b \in Range(log) : /\ b = c \/ CanonLess(c, b)
                             /\ b.kind = "name" => b = c

\* A sorted log that starts with the naming of a live document names it.
LEMMA FoldFirst ==
    ASSUME NEW base \in DocState, ~ base.deleted, NEW c \in Issued, c.kind = "name"
    PROVE  \A log \in Seq(Issued) :
              Sorted(log) /\ Heads(c, log) => Fold(base, log).name = c.name
<1> DEFINE T == {log \in Seq(Issued) :
                    Sorted(log) /\ Heads(c, log) => Fold(base, log).name = c.name}
<1>1. <<>> \in T
  BY RangeFacts DEF Heads
<1>2. ASSUME NEW log \in Seq(Issued), NEW a \in Issued, log \in T
      PROVE  Append(log, a) \in T
  <2> SUFFICES ASSUME Sorted(Append(log, a)), Heads(c, Append(log, a))
               PROVE  Fold(base, Append(log, a)).name = c.name
    OBVIOUS
  <2>1. PICK d \in DocState : d = Fold(base, log)
    BY FoldFacts
  <2>2. Fold(base, Append(log, a)) = FoldStep(d, a)
    BY <2>1, FoldFacts
  <2>3. Range(Append(log, a)) = Range(log) \cup {a}
    BY RangeFacts
  <2>4. Sorted(log) /\ \A b \in Range(log) : ~ CanonLess(a, b)
    BY SortedAppend
  <2>5. CASE c \in Range(log)
    <3>1. Heads(c, log)
      BY <2>3, <2>5 DEF Heads
    <3>2. d.name = c.name
      BY <1>2, <2>1, <2>4, <3>1
    <3>3. a.kind = "name" => a = c
      BY <2>3 DEF Heads
    <3>4. \/ FoldStep(d, a).name = d.name
          \/ a.kind = "name" /\ a.name = FoldStep(d, a).name
      BY ReduceParts DEF FoldStep, Reduced
    <3> QED BY <2>2, <3>2, <3>3, <3>4
  <2>6. CASE c \notin Range(log)
    <3>1. a = c
      BY <2>3, <2>6 DEF Heads
    <3>2. Range(log) = {}
      BY <2>3, <2>4, <2>6, <3>1 DEF Heads
    <3>3. log = <<>>
      BY <3>2, RangeIssued
    <3>4. d = base
      BY <2>1, <3>3, FoldFacts
    <3>5. FoldStep(base, c) = Reduce(base, c)
      BY DEF FoldStep, Precondition
    <3>6. Reduced(base, c, Reduce(base, c))
      BY ReduceParts
    <3> QED BY <2>2, <3>1, <3>4, <3>5, <3>6 DEF Reduced
  <2> QED BY <2>5, <2>6
<1>3. \A log \in Seq(Issued) : log \in T
  <2> HIDE DEF T
  <2> QED BY <1>1, <1>2, SeqSetInduction
<1> QED BY <1>3

\* Among the actions B, document d's naming is one action, before all others.
NamedFirst(B, d) ==
    \A c \in B : c.kind = "name" /\ c.doc = d =>
        \A a \in B : a.doc = d /\ a # c => a.kind # "name" /\ c.ts < a.ts

\* Some action of B gave document d its name.
NameGiven(B, d, doc) ==
    doc.name # NoName =>
        \E c \in B : c.kind = "name" /\ c.doc = d /\ c.name = doc.name

\* The name an entry has after one more action.
LEMMA PutNames ==
    ASSUME NEW B \in SUBSET Issued, NEW d, NamedFirst(B, d),
           NEW e \in Entries, NEW s \in Snap, Folded(e, s),
           \A b \in Range(e.log) : b \in B /\ b.doc = d,
           NEW a \in B, a.doc = d, NEW x, Put(s.doc, e, a, x),
           NameGiven(B, d, e.doc), NameGiven(B, d, s.doc)
    PROVE  /\ NameGiven(B, d, x.doc)
           /\ e.doc.name # NoName /\ ~ e.doc.deleted => x.doc.name = e.doc.name
<1>1. /\ e.doc \in DocState /\ e.log \in Seq(Issued) /\ s.doc \in DocState
      /\ x.log \in Seq(Issued) /\ a \in Issued
  BY DEF Entries, Snap, Put
<1>2. \A b \in Range(x.log) : b \in B /\ b.doc = d
  BY DEF Put
<1>3. CASE PutLast(e, a, x)
  <2>1. x.doc.name = e.doc.name \/ (a.kind = "name" /\ x.doc.name = a.name)
    <3>1. Reduced(e.doc, a, x.doc)
      BY <1>1, <1>3, ReduceParts DEF PutLast
    <3> QED BY <3>1 DEF Reduced
  <2>2. NameGiven(B, d, x.doc)
    BY <2>1 DEF NameGiven
  <2>3. ASSUME e.doc.name # NoName PROVE x.doc.name = e.doc.name
    <3>1. PICK c \in B : c.kind = "name" /\ c.doc = d /\ c.name = e.doc.name
      BY <2>3 DEF NameGiven
    <3>2. a.kind = "name" => a = c
      BY <3>1 DEF NamedFirst
    <3> QED BY <2>1, <3>1, <3>2
  <2> QED BY <2>2, <2>3
<1>4. CASE PutWithin(s.doc, e, a, x)
  <2>1. x.doc.name = Fold(s.doc, x.log).name /\ Sorted(x.log)
    BY <1>4 DEF PutWithin
  <2>2. \/ x.doc.name = s.doc.name
        \/ \E b \in Range(x.log) : b.kind = "name" /\ b.name = x.doc.name
    BY <1>1, <2>1, FoldNameFrom
  <2>3. NameGiven(B, d, x.doc)
    BY <1>2, <2>2 DEF NameGiven
  <2>4. ASSUME e.doc.name # NoName, ~ e.doc.deleted PROVE x.doc.name = e.doc.name
    <3>1. PICK c \in B : c.kind = "name" /\ c.doc = d /\ c.name = e.doc.name
      BY <2>4 DEF NameGiven
    <3>2. \A b \in B : b.doc = d /\ b # c => b.kind # "name" /\ CanonLess(c, b)
      BY <3>1 DEF NamedFirst, CanonLess
    <3>3. CASE s.doc.name = e.doc.name
      BY <1>2, <2>2, <3>1, <3>2, <3>3
    <3>4. CASE s.doc.name # e.doc.name
      <4>1. e.doc.name = Fold(s.doc, e.log).name
        BY DEF Folded, Alike
      <4>2. PICK b \in Range(e.log) : b.kind = "name" /\ b.name = e.doc.name
        BY <1>1, <3>4, <4>1, FoldNameFrom
      <4>3. c \in Range(e.log)
        BY <3>2, <4>2
      <4>4. Heads(c, x.log)
        BY <1>2, <3>2, <4>3 DEF Heads, Put
      <4>5. ~ s.doc.deleted
        BY <1>1, <2>4, FoldDeleted DEF Folded, Alike
      <4>6. Fold(s.doc, x.log).name = c.name
        BY <1>1, <2>1, <3>1, <4>4, <4>5, FoldFirst
      <4> QED BY <2>1, <3>1, <4>6
    <3> QED BY <3>3, <3>4
  <2> QED BY <2>3, <2>4
<1> QED BY <1>3, <1>4 DEF Put

\* A step that leaves node p's documents and names alone.
Quiet(p) ==
    /\ mem'[p].names = mem[p].names /\ mem'[p].hint >= mem[p].hint
    /\ \A d \in DocId : EntryOf(p, d)'.doc = EntryOf(p, d).doc

\* Until a crash, a step leaves a node alone or makes it take an action in.
LEMMA QuietOrAccepts ==
    ASSUME StoreInv, FoldInv, [Next]_vars, crashed' = 0, NEW p \in Origin
    PROVE  Quiet(p) \/ \E a \in built', x \in Entries : Accepts(p, a, x)
<1>1. /\ StoreInv' /\ (StoreStep \/ UNCHANGED vars)
      /\ StoreTypes /\ mem \in [Origin -> Mems] /\ mem[p].hint \in Nat
  BY StoreInvNext DEF StoreInv, StoreTypes, Mems
<1>2. crashed = 0 /\ \A n \in Origin : up[n]
  BY StepGrows DEF FoldInv, Uncrashed
<1>3. mem'[p] = mem[p] => Quiet(p)
  BY <1>1 DEF Quiet, EntryOf
<1>4. CASE UNCHANGED vars
  BY <1>3, <1>4 DEF vars
<1>5. ASSUME NEW n, NEW m, NEW a, TakeStep(n, m, a)
      PROVE  Quiet(p) \/ \E x \in Entries : a \in built' /\ Accepts(p, a, x)
  <2>1. a \in built'
    BY <1>5 DEF TakeStep, IsNew, IsOld, StoreInv, Sources
  <2>2. Refuses(n, a) \/ \E x \in Entries : Accepts(n, a, x)
    BY <1>1, <1>5, TakeMoves
  <2>3. CASE p # n
    BY <1>3, <2>2, <2>3 DEF Refuses, Accepts
  <2>4. CASE p = n /\ Refuses(n, a)
    <3>1. \A d \in DocId : EntryOf(p, d)'.doc = EntryOf(p, d).doc
      BY <1>2, <2>4 DEF Refuses, DocMoved, Moved, Stays, Returns
    <3> QED BY <2>4, <3>1 DEF Refuses, Quiet
  <2> QED BY <2>1, <2>2, <2>3, <2>4
<1>6. ASSUME NEW n, NEW m, n \in Origin, mem' = [mem EXCEPT ![n] = m],
             m.entry = mem[n].entry, m.names = mem[n].names, m.hint >= mem[n].hint
      PROVE  Quiet(p)
  <2>1. CASE p = n
    <3>1. mem'[p] = m
      BY <1>1, <1>6, <2>1
    <3> QED BY <1>6, <2>1, <3>1 DEF Quiet, EntryOf
  <2>2. CASE p # n
    BY <1>1, <1>3, <1>6, <2>2
  <2> QED BY <2>1, <2>2
<1>7. ASSUME NEW n, NEW a, ProposeStep(n, a) PROVE Quiet(p)
  <2>1. PICK m \in Mems : /\ m.entry = mem[n].entry /\ m.names = mem[n].names
                          /\ m.hint >= mem[n].hint /\ mem' = [mem EXCEPT ![n] = m]
    BY <1>7 DEF ProposeStep, Readied
  <2>2. n \in Origin
    BY <1>7 DEF ProposeStep
  <2> QED BY <1>6, <2>1, <2>2
<1>8. ASSUME NEW n, PublishStep(n) PROVE Quiet(p)
  <2>1. PICK m \in Mems : /\ m.entry = mem[n].entry /\ m.names = mem[n].names
                          /\ m.hint = mem[n].hint /\ mem' = [mem EXCEPT ![n] = m]
    BY <1>8 DEF PublishStep
  <2>2. n \in Origin /\ mem[n].hint \in Nat
    BY <1>1, <1>8 DEF PublishStep, Mems
  <2>3. m.hint >= mem[n].hint
    BY <2>1, <2>2
  <2> QED BY <1>6, <2>1, <2>2, <2>3
<1>9. ASSUME NEW n, CrashStep(n) \/ RestartStep(n) PROVE FALSE
  BY <1>2, <1>9 DEF CrashStep, GoesDown, RestartStep
<1>10. ASSUME NEW n, NEW c, CatchUpStep(n, c) PROVE Quiet(p)
  BY <1>3, <1>10 DEF CatchUpStep
<1>11. ASSUME NEW n, NEW a, NEW x, CutStep(n, a, x) PROVE FALSE
  BY <1>2, <1>11 DEF CutStep, GoesDown
<1> QED BY <1>1, <1>4, <1>5, <1>7, <1>8, <1>9, <1>10, <1>11 DEF StoreStep

\* No document was named twice.
NoRenames ==
    \A a, b \in built : a.kind = "name" /\ b.kind = "name" /\ a.doc = b.doc => a = b

\* A document's first action names it, a live named document has raised the
\* high-water mark past that action, and the index is right.
NameInv ==
    crashed = 0 /\ NoRenames =>
        /\ \A d \in DocId : NamedFirst(built, d)
        /\ \A n \in Origin, d \in DocId : /\ NameGiven(built, d, EntryOf(n, d).doc)
                                          /\ NameGiven(built, d, SnapOn(n, d).doc)
        /\ \A n \in Origin, d \in DocId, c \in built :
              /\ c.kind = "name" /\ c.doc = d
              /\ EntryOf(n, d).doc.name # NoName /\ ~ EntryOf(n, d).doc.deleted
              => c.ts <= mem[n].hint
        /\ NamesFindLiveDocs

\* A new action is its document's first and names it, or comes from a node
\* whose high-water mark is past the naming.
LEMMA NamedFirstNext ==
    ASSUME StoreInv, FoldInv, NameInv, crashed = 0, NoRenames, NoRenames', Builds,
           NEW d \in DocId
    PROVE  NamedFirst(built', d)
<1>1. NamedFirst(built, d)
  BY DEF NameInv
<1>2. CASE built' = built
  BY <1>1, <1>2
<1>3. ASSUME NEW n \in Origin, NEW a \in Issued, IsNew(n, a)
      PROVE  NamedFirst(built', d)
  <2>1. built' = built \cup {a} /\ a.id = Cardinality(built) + 1 /\ a.ts > mem[n].hint
    BY <1>3 DEF IsNew
  <2>2. a \notin built
    <3>1. Cardinality(built) \in Nat /\ \A b \in built : b.id <= Cardinality(built)
      BY FS_CardinalityType DEF StoreInv, StoreTypes, Sources
    <3> QED BY <2>1, <3>1
  <2>3. CASE a.doc # d
    BY <1>1, <2>1, <2>3 DEF NamedFirst
  <2>4. CASE a.doc = d /\ \A b \in built : b.doc # a.doc
    BY <2>1, <2>4 DEF NamedFirst
  <2>5. CASE a.doc = d /\ a.doc \in Named(n)
    <3>1. PICK s \in Name : mem[n].names[s] = d /\ d # NoDoc
      BY <2>5 DEF Named
    <3>2. EntryOf(n, d).doc.name = s /\ ~ EntryOf(n, d).doc.deleted
      BY <3>1 DEF NameInv, NamesFindLiveDocs, EntryOf, FoldInv, Uncrashed
    <3>3. s # NoName
      BY NameAssumption
    <3>4. PICK c \in built : c.kind = "name" /\ c.doc = d
      BY <3>2, <3>3 DEF NameInv, NameGiven
    <3>5. a.kind # "name"
      BY <2>1, <2>2, <2>5, <3>4 DEF NoRenames
    <3>6. \A b \in built : b.kind = "name" /\ b.doc = d => b.ts <= mem[n].hint
      BY <3>2, <3>3 DEF NameInv
    <3>7. /\ mem[n].hint \in Nat /\ a.ts \in Nat /\ \A b \in built : b.ts \in Nat
      BY DEF StoreInv, StoreTypes, Mems, Issued, Action
    <3>8. \A b \in built : b.kind = "name" /\ b.doc = d => b.ts < a.ts
      BY <2>1, <3>6, <3>7
    <3> QED BY <1>1, <2>1, <3>5, <3>8 DEF NamedFirst
  <2> QED BY <1>3, <2>3, <2>4, <2>5 DEF IsNew
<1> QED BY <1>2, <1>3 DEF Builds

\* The name a step leaves a document: given by an action, and kept by a live
\* document that had one.
LEMMA MovedNames ==
    ASSUME StoreInv, FoldInv, NameInv, [Next]_vars, crashed' = 0, NoRenames,
           NEW n \in Origin, NEW d \in DocId, NamedFirst(built', d)
    PROVE  /\ NameGiven(built', d, EntryOf(n, d)'.doc)
           /\ NameGiven(built', d, SnapOn(n, d)'.doc)
<1>1. /\ StoreInv' /\ DocMoved(built', n, d)
  BY StoreInvNext
<1>2. crashed = 0 /\ up[n] /\ built \subseteq built' /\ built' \in SUBSET Issued
  BY <1>1, StepGrows DEF FoldInv, Uncrashed, StoreInv, StoreTypes
<1>3. PICK e \in Entries, s \in Snap, w \in Seq(Issued) :
         e = EntryOf(n, d) /\ s = SnapOn(n, d) /\ w = LogOn(n, d)
  BY DocTypes DEF StoreInv
<1>4. NameGiven(built', d, e.doc) /\ NameGiven(built', d, s.doc)
  BY <1>2, <1>3 DEF NameInv, NameGiven
<1>5. CASE Stays(up[n], e, s, w, up'[n], EntryOf(n, d)', SnapOn(n, d)', LogOn(n, d)')
  BY <1>4, <1>5 DEF Stays
<1>6. ASSUME NEW a \in built', NEW x \in Entries, a.doc = d,
             Grows(a, x, up[n], e, s, w, up'[n],
                   EntryOf(n, d)', SnapOn(n, d)', LogOn(n, d)')
      PROVE  /\ NameGiven(built', d, EntryOf(n, d)'.doc)
             /\ NameGiven(built', d, SnapOn(n, d)'.doc)
  <2>1. Put(s.doc, e, a, x)
    BY <1>6 DEF Grows
  <2>2. Folded(e, s) /\ \A b \in Range(e.log) : b \in built' /\ b.doc = d
    BY <1>2, <1>3 DEF FoldInv, DocsFolded, StoreInv, Sources
  <2>3. NameGiven(built', d, x.doc)
    BY <1>2, <1>4, <1>6, <2>1, <2>2, PutNames
  <2>4. x.log # <<>>
    BY <2>1 DEF Put
  <2>5. /\ EntryOf(n, d)'.doc = x.doc
        /\ SnapOn(n, d)' = s \/ SnapOn(n, d)' = SnapOf(x)
    BY <1>6 DEF Grows, Stored
  <2> QED BY <1>4, <2>3, <2>4, <2>5, SnapOfType
<1> QED BY <1>1, <1>2, <1>3, <1>5, <1>6 DEF DocMoved, Moved, Returns

\* Putting a delete action into a log deletes the document.
LEMMA PutDrops ==
    ASSUME NEW base \in DocState, NEW e \in Entries, NEW a \in Issued, a.kind = "drop",
           NEW x, Put(base, e, a, x)
    PROVE  x.doc.deleted
<1>1. e.doc \in DocState /\ x.log \in Seq(Issued) /\ a \in Range(x.log)
  BY DEF Entries, Put
<1>2. CASE PutLast(e, a, x)
  <2>1. Reduced(e.doc, a, x.doc)
    BY <1>1, <1>2, ReduceParts DEF PutLast
  <2> QED BY <2>1 DEF Reduced
<1>3. CASE PutWithin(base, e, a, x)
  <2>1. Drops(x.log)
    BY <1>1 DEF Drops
  <2>2. Fold(base, x.log).deleted
    BY <1>1, <2>1, FoldDeleted
  <2> QED BY <1>3, <2>2 DEF PutWithin
<1> QED BY <1>2, <1>3 DEF Put

\* Node n took action a in: only its document moves, a live one keeps its
\* name, and the high-water mark passes the action that names it.
LEMMA AcceptsNames ==
    ASSUME StoreInv, FoldInv, DropsKept, TitleInv, NameInv, [Next]_vars,
           crashed' = 0, NoRenames, NoRenames', NEW n \in Origin,
           NEW a \in built', NEW x \in Entries, Accepts(n, a, x),
           NEW d \in DocId, d = a.doc, NamedFirst(built', d)
    PROVE  /\ \A p \in DocId : p # d => EntryOf(n, p)'.doc = EntryOf(n, p).doc
           /\ EntryOf(n, d)'.doc = x.doc
           /\ EntryOf(n, d).doc.name # NoName /\ ~ EntryOf(n, d).doc.deleted
              => x.doc.name = EntryOf(n, d).doc.name
           /\ EntryOf(n, d).doc.deleted => x.doc.deleted
           /\ \A c \in built' :
                 c.kind = "name" /\ c.doc = d /\ x.doc.name # NoName /\ ~ x.doc.deleted
                 => c.ts <= mem'[n].hint
<1>1. /\ StoreInv' /\ crashed = 0 /\ up[n] /\ built \subseteq built'
      /\ built' \in SUBSET Issued
  BY StoreInvNext, StepGrows DEF FoldInv, Uncrashed, StoreInv, StoreTypes
<1>2. PICK e \in Entries, s \in Snap, w \in Seq(Issued) :
         e = EntryOf(n, d) /\ s = SnapOn(n, d) /\ w = LogOn(n, d)
  BY DocTypes DEF StoreInv
<1>3. Put(s.doc, e, a, x) /\ EntryOf(n, d)'.doc = x.doc
  BY <1>2 DEF Accepts, Grows, Stored
<1>4. ASSUME NEW p \in DocId, p # d PROVE EntryOf(n, p)'.doc = EntryOf(n, p).doc
  <2>1. DocMoved({a}, n, p)
    BY DEF Accepts
  <2> QED BY <1>1, <1>4, <2>1 DEF DocMoved, Moved, Stays, Returns
<1>5. /\ NameGiven(built', d, e.doc) /\ NameGiven(built', d, s.doc)
      /\ Folded(e, s) /\ \A b \in Range(e.log) : b \in built' /\ b.doc = d
  BY <1>1, <1>2 DEF NameInv, NameGiven, FoldInv, DocsFolded, StoreInv, Sources
<1>6. e.doc.name # NoName /\ ~ e.doc.deleted => x.doc.name = e.doc.name
  <2>1. PICK B \in SUBSET Issued : B = built'
    BY <1>1
  <2>2. /\ NamedFirst(B, d) /\ NameGiven(B, d, e.doc) /\ NameGiven(B, d, s.doc)
        /\ Folded(e, s) /\ \A b \in Range(e.log) : b \in B /\ b.doc = d
        /\ a \in B /\ a.doc = d
    BY <1>5, <2>1
  <2> QED BY <1>3, <2>2, PutNames
<1>7. e.doc.deleted => x.doc.deleted
  BY <1>2, <1>3, DropsKeptNext
<1>8. ASSUME NEW c \in built', c.kind = "name", c.doc = d,
             x.doc.name # NoName, ~ x.doc.deleted
      PROVE  c.ts <= mem'[n].hint
  <2>1. /\ c.ts \in Nat /\ mem[n].hint \in Nat /\ mem'[n].hint \in Nat
        /\ mem'[n].hint >= mem[n].hint
    BY <1>1 DEF StoreInv, StoreTypes, Mems, Issued, Action, Accepts
  <2>2. CASE e.doc.name # NoName
    <3>1. PICK b \in built : b.kind = "name" /\ b.doc = d
      BY <1>1, <1>2, <2>2 DEF NameInv, NameGiven
    <3>2. b = c
      BY <1>1, <1>8, <3>1 DEF NoRenames
    <3>3. c.ts <= mem[n].hint
      BY <1>1, <1>2, <1>7, <1>8, <2>2, <3>1, <3>2 DEF NameInv
    <3> QED BY <2>1, <3>3
  <2>3. CASE e.doc.name = NoName
    <3>1. ~ e.doc.deleted
      BY <1>7, <1>8
    <3>2. TitleKept(e, s, w)
      BY <1>2 DEF TitleInv
    <3>3. a.kind \in {"name", "drop"}
      BY <1>1, <1>3, <1>8, <2>3, <3>1, <3>2, PutTitles DEF Titled
    <3>4. a.kind # "drop"
      BY <1>1, <1>3, <1>8, PutDrops DEF Snap
    <3>5. a = c
      BY <1>8, <3>3, <3>4 DEF NoRenames
    <3>6. Applies(e.doc, a)
      <4>1. OpOf(a).kind = "name"
        BY <1>1, <1>8, <3>5 DEF OpOf, Issued, Action
      <4> QED BY <3>1, <4>1 DEF Applies, OpApplies
    <3>7. mem'[n].hint >= a.ts
      BY <1>2, <3>6 DEF Accepts
    <3> QED BY <2>1, <3>5, <3>7
  <2> QED BY <2>2, <2>3
<1> QED BY <1>2, <1>3, <1>4, <1>6, <1>7, <1>8

\* What `sync_name` leaves: every name leads where it did, to d, or nowhere.
LEMMA SyncNamesParts ==
    ASSUME NEW names \in [Name -> DocId \cup {NoDoc}], NEW d \in DocId,
           NEW doc \in DocState, NEW s \in Name
    PROVE  \/ SyncNames(names, d, doc)[s] = NoDoc
           \/ /\ SyncNames(names, d, doc)[s] = d
              /\ doc.name = s /\ ~ doc.deleted
           \/ /\ SyncNames(names, d, doc)[s] = names[s]
              /\ names[s] = d => doc.name = NoName \/ doc.name # s
<1>1. doc.name \in Name \cup {NoName} /\ doc.deleted \in BOOLEAN
  BY DEF DocState
<1>2. CASE doc.name = NoName
  BY <1>2 DEF SyncNames
<1>3. CASE doc.name # NoName /\ ~ doc.deleted
  <2>1. SyncNames(names, d, doc) = [names EXCEPT ![doc.name] = d]
    BY <1>3 DEF SyncNames
  <2> QED BY <1>1, <1>3, <2>1
<1>4. CASE doc.name # NoName /\ doc.deleted
  <2>1. SyncNames(names, d, doc) =
           [names EXCEPT ![doc.name] = IF names[doc.name] = d THEN NoDoc
                                       ELSE names[doc.name]]
    BY <1>4 DEF SyncNames
  <2> QED BY <1>1, <1>4, <2>1
<1> QED BY <1>1, <1>2, <1>3, <1>4

\* Every step keeps the name index right.
LEMMA NameInvNext ==
    ASSUME StoreInv, FoldInv, DropsKept, TitleInv, NameInv, [Next]_vars
    PROVE  NameInv'
<1> SUFFICES ASSUME crashed' = 0, NoRenames' PROVE NameInv'
  BY DEF NameInv
<1>1. /\ StoreInv' /\ Builds /\ crashed = 0 /\ built \subseteq built'
      /\ \A n \in Origin : up[n] /\ up'[n]
  BY StoreInvNext, StepGrows DEF FoldInv, Uncrashed
<1>2. NoRenames
  BY <1>1 DEF NoRenames
<1>3. \A d \in DocId : NamedFirst(built', d)
  BY <1>1, <1>2, NamedFirstNext
<1>4. \A n \in Origin, d \in DocId : /\ NameGiven(built', d, EntryOf(n, d)'.doc)
                                     /\ NameGiven(built', d, SnapOn(n, d)'.doc)
  BY <1>2, <1>3, MovedNames
<1>5. \A n \in Origin, d \in DocId, c \in built :
         /\ c.kind = "name" /\ c.doc = d
         /\ EntryOf(n, d).doc.name # NoName /\ ~ EntryOf(n, d).doc.deleted
         => c.ts <= mem[n].hint
  BY <1>1, <1>2 DEF NameInv
<1>6. \A n \in Origin, s \in Name : mem[n].names[s] # NoDoc =>
         /\ EntryOf(n, mem[n].names[s]).doc.name = s
         /\ ~ EntryOf(n, mem[n].names[s]).doc.deleted
  BY <1>1, <1>2 DEF NameInv, NamesFindLiveDocs, EntryOf
<1>7. /\ \A n \in Origin : /\ mem[n].names \in [Name -> DocId \cup {NoDoc}]
                           /\ mem[n].hint \in Nat /\ mem'[n].hint \in Nat
      /\ \A c \in built' : c \in Issued /\ c.ts \in Nat /\ c.doc \in DocId
  BY <1>1 DEF StoreInv, StoreTypes, Mems, Issued, Action
<1>8. ASSUME NEW n \in Origin, NEW d \in DocId, NEW c \in built',
             c.kind = "name", c.doc = d, EntryOf(n, d)'.doc = EntryOf(n, d).doc,
             mem'[n].hint >= mem[n].hint,
             EntryOf(n, d)'.doc.name # NoName, ~ EntryOf(n, d)'.doc.deleted
      PROVE  c.ts <= mem'[n].hint
  <2>1. PICK b \in built : b.kind = "name" /\ b.doc = d
    BY <1>1, <1>2, <1>8 DEF NameInv, NameGiven
  <2>2. b = c
    BY <1>1, <1>8, <2>1 DEF NoRenames
  <2>3. c.ts <= mem[n].hint
    BY <1>5, <1>8, <2>1, <2>2
  <2> QED BY <1>7, <1>8, <2>3
<1>9. ASSUME NEW n \in Origin, NEW d \in DocId, NEW c \in built',
             c.kind = "name", c.doc = d,
             EntryOf(n, d)'.doc.name # NoName, ~ EntryOf(n, d)'.doc.deleted
      PROVE  c.ts <= mem'[n].hint
  <2>1. CASE Quiet(n)
    BY <1>8, <1>9, <2>1 DEF Quiet
  <2>2. ASSUME NEW a \in built', NEW x \in Entries, Accepts(n, a, x)
        PROVE  c.ts <= mem'[n].hint
    <3>1. PICK q \in DocId : q = a.doc
      BY <1>7
    <3>2. CASE d = q
      BY <1>2, <1>3, <1>9, <2>2, <3>1, <3>2, AcceptsNames
    <3>3. CASE d # q
      <4>1. EntryOf(n, d)'.doc = EntryOf(n, d).doc
        BY <1>2, <1>3, <2>2, <3>1, <3>3, AcceptsNames
      <4>2. mem'[n].hint >= mem[n].hint
        BY <2>2 DEF Accepts
      <4> QED BY <1>8, <1>9, <4>1, <4>2
    <3> QED BY <3>2, <3>3
  <2> QED BY <2>1, <2>2, QuietOrAccepts
<1>10. ASSUME NEW n \in Origin, NEW s \in Name, mem'[n].names[s] # NoDoc
       PROVE  /\ mem'[n].entry[mem'[n].names[s]].doc.name = s
              /\ ~ mem'[n].entry[mem'[n].names[s]].doc.deleted
  <2>1. CASE Quiet(n)
    <3>1. PICK d \in DocId : d = mem[n].names[s] /\ d = mem'[n].names[s]
      BY <1>7, <1>10, <2>1 DEF Quiet
    <3>2. mem'[n].entry[d].doc = EntryOf(n, d).doc
      BY <2>1 DEF Quiet, EntryOf
    <3>3. EntryOf(n, d).doc.name = s /\ ~ EntryOf(n, d).doc.deleted
      BY <1>6, <1>10, <3>1
    <3> QED BY <3>1, <3>2, <3>3
  <2>2. ASSUME NEW a \in built', NEW x \in Entries, Accepts(n, a, x)
        PROVE  /\ mem'[n].entry[mem'[n].names[s]].doc.name = s
               /\ ~ mem'[n].entry[mem'[n].names[s]].doc.deleted
    <3>1. PICK q \in DocId : q = a.doc
      BY <1>7
    <3>2. /\ \A p \in DocId : p # q => mem'[n].entry[p].doc = EntryOf(n, p).doc
          /\ mem'[n].entry[q].doc = x.doc
          /\ EntryOf(n, q).doc.name # NoName /\ ~ EntryOf(n, q).doc.deleted
             => x.doc.name = EntryOf(n, q).doc.name
      <4>1. /\ \A p \in DocId : p # q => EntryOf(n, p)'.doc = EntryOf(n, p).doc
            /\ EntryOf(n, q)'.doc = x.doc
            /\ EntryOf(n, q).doc.name # NoName /\ ~ EntryOf(n, q).doc.deleted
               => x.doc.name = EntryOf(n, q).doc.name
        BY <1>2, <1>3, <2>2, <3>1, AcceptsNames
      <4> QED BY <4>1 DEF EntryOf
    <3>3. mem'[n].names = SyncNames(mem[n].names, q, x.doc)
      BY <2>2, <3>1 DEF Accepts
    <3>4. PICK o : o = mem'[n].names[s]
      OBVIOUS
    <3>5. \/ o = NoDoc
          \/ o = q /\ x.doc.name = s /\ ~ x.doc.deleted
          \/ /\ o = mem[n].names[s]
             /\ mem[n].names[s] = q => x.doc.name = NoName \/ x.doc.name # s
      BY <1>7, <3>3, <3>4, SyncNamesParts DEF Entries
    <3>6. CASE o = q /\ x.doc.name = s /\ ~ x.doc.deleted
      BY <3>2, <3>4, <3>6
    <3>7. CASE /\ o = mem[n].names[s]
               /\ mem[n].names[s] = q => x.doc.name = NoName \/ x.doc.name # s
      <4>1. o \in DocId /\ EntryOf(n, o).doc.name = s /\ ~ EntryOf(n, o).doc.deleted
        BY <1>6, <1>7, <1>10, <3>4, <3>7
      <4>2. s # NoName
        BY NameAssumption
      <4>3. o # q
        BY <3>2, <3>7, <4>1, <4>2
      <4> QED BY <3>2, <3>4, <4>1, <4>3
    <3> QED BY <1>10, <3>4, <3>5, <3>6, <3>7
  <2> QED BY <2>1, <2>2, QuietOrAccepts
<1>11. NamesFindLiveDocs'
  BY <1>10 DEF NamesFindLiveDocs
<1> QED BY <1>3, <1>4, <1>9, <1>11 DEF NameInv

\* NamesFindLiveDocs: until a crash, and as long as no document is named twice,
\* a name leads to a live document of that name, whatever order the creations,
\* changes and deletes of the nodes arrive in: `apply_action` registers and
\* frees names from the document it has just folded.
THEOREM NamesLeadToLiveDocs ==
    Spec => [](crashed = 0 /\ NoRenames => NamesFindLiveDocs)
<1>1. Init => NameInv
  <2> SUFFICES ASSUME Init PROVE NameInv
    OBVIOUS
  <2>1. built = {}
    BY DEF Init
  <2>2. \A n \in Origin, d \in DocId : /\ EntryOf(n, d).doc.name = NoName
                                       /\ SnapOn(n, d).doc.name = NoName
    BY DEF Init, EntryOf, SnapOn, NewEntry, NewDoc, NoSnap
  <2>3. NamesFindLiveDocs
    BY DEF Init, NamesFindLiveDocs
  <2> QED BY <2>1, <2>2, <2>3 DEF NameInv, NamedFirst, NameGiven
<1>2. StoreInv /\ FoldInv /\ DropsKept /\ TitleInv /\ NameInv /\ [Next]_vars => NameInv'
  BY NameInvNext
<1>3. NameInv => (crashed = 0 /\ NoRenames => NamesFindLiveDocs)
  BY DEF NameInv
<1> QED BY <1>1, <1>2, <1>3, StoreInvariant, FoldInvariant, DropsStayKept,
           TitleInvariant, PTL DEF Spec
=============================================================================

-------------------------- MODULE SyncEngineProofs --------------------------
(***************************************************************************)
(* Proofs about SyncEngine, for any nodes, documents, readers, answer caps *)
(* and bounds: catch-up loses nothing behind a clock unless a store        *)
(* refuses an action or folds away one that a reader has not got, and it   *)
(* serves readers only.                                                    *)
(*                                                                         *)
(* The clock of a node is the maximum of the clocks of the actions it      *)
(* holds, so covering an action's clock says that action is held only if   *)
(* what is held is closed under the causal past.  That in turn depends on  *)
(* what is under way: an answer must close what it is added to, although   *)
(* it was cut to `Cap` actions, asked for with a clock that is old by now, *)
(* and taken from a live log that snapshots have emptied.                  *)
(***************************************************************************)
EXTENDS SyncEngine, SetFacts

-----------------------------------------------------------------------------
(* The inductive invariant                                                 *)

Act == [doc : Doc, origin : Origin, ts : Nat, clock : Clock]

Containers ==
    /\ held \in [Origin -> [Doc -> SUBSET Act]]
    /\ log \in [Origin -> [Doc -> SUBSET Act]]
    /\ clock \in [Origin -> [Doc -> Clock]]

SyncTypes ==
    /\ Containers
    /\ \A n \in Origin, d \in Doc :
          log[n][d] \subseteq held[n][d] /\ \A a \in held[n][d] : a.doc = d
    /\ IsFiniteSet(Written)

\* Nobody has forgotten an action of its own, and nobody else has counted
\* further than its origin has.
TicksAreOwn ==
    \A a \in Written :
        /\ a \in held[a.origin][a.doc]
        /\ a.clock[a.origin] >= 1
        /\ \A o \in Origin : a.clock[o] <= clock[o][a.doc][o]

\* The order of the log is compatible with causality.
TimesGrow ==
    /\ \A a \in Written : a.ts <= Cardinality(Written)
    /\ \A a, b \in Written :
          a # b /\ a.doc = b.doc /\ Covers(a.clock, b.clock) => b.ts < a.ts

\* An action that counts another's origin as far as that action follows it.
TickNamesThePast ==
    \A a, b \in Written :
        a.doc = b.doc /\ a.clock[b.origin] >= b.clock[b.origin] => Covers(a.clock, b.clock)

ClockIsJoin ==
    \A n \in Origin, d \in Doc :
        /\ \A a \in held[n][d] : Covers(clock[n][d], a.clock)
        /\ \A o \in Origin : \/ clock[n][d][o] = 0
                             \/ \E a \in held[n][d] : a.clock[o] = clock[n][d][o]

\* The actions `as` of document d contain their causal past, except for what
\* is in `has`.
ClosedOver(as, has, d) ==
    \A a \in as, b \in Written :
        b.doc = d /\ Covers(a.clock, b.clock) => b \in as \cup has

PastsAreHeld ==
    \A n \in Origin, d \in Doc : d \notin holes => ClosedOver(held[n][d], {}, d)

\* What a snapshot has taken out of a live log, every reader holds.
FoldedIsHeld ==
    \A n \in Origin, d \in Doc : d \notin holes =>
        \A p \in Readers[d] : held[n][d] \ log[n][d] \subseteq held[p][d]

\* A request asks from a clock the requester has reached; an answer closes
\* what the requester holds, and goes to a reader if it says anything.
Fits(m) ==
    /\ m.client \in Origin /\ m.server \in Origin
    /\ m.body.is = "CatchUp" =>
          /\ m.body.doc \in Doc /\ m.body.have \in Clock
          /\ Covers(clock[m.client][m.body.doc], m.body.have)
    /\ m.body.is = "CatchUpAck" =>
          /\ m.body.doc \in Doc
          /\ m.body.actions \subseteq {a \in Written : a.doc = m.body.doc}
          /\ m.body.doc \notin holes =>
                ClosedOver(m.body.actions, held[m.client][m.body.doc], m.body.doc)
          /\ m.body.actions # {} => m.client \in Readers[m.body.doc]

SyncInv ==
    /\ SyncTypes
    /\ TicksAreOwn /\ TimesGrow /\ TickNamesThePast
    /\ ClockIsJoin /\ PastsAreHeld /\ FoldedIsHeld
    /\ \A m \in net : Fits(m)
    /\ OnlyReadersHold

-----------------------------------------------------------------------------
(* Clocks and sets of actions                                              *)

LEMMA WrittenIs ==
    \A a : a \in Written <=> \E n \in Origin, d \in Doc : a \in held[n][d]
BY DEF Written

LEMMA CoversIsTransitive ==
    ASSUME NEW c \in Clock, NEW d \in Clock, NEW e \in Clock, Covers(c, d), Covers(d, e)
    PROVE  Covers(c, e)
<1> SUFFICES ASSUME NEW o \in Origin PROVE c[o] >= e[o]
  BY DEF Covers
<1>1. c[o] \in Nat /\ d[o] \in Nat /\ e[o] \in Nat
  BY DEF Clock
<1> QED BY <1>1 DEF Covers

\* Raising a clock by finitely many actions covers it and them, and takes each
\* entry from one of them.
LEMMA RaisedIsJoin ==
    ASSUME NEW c \in Clock, NEW as \in SUBSET Act, IsFiniteSet(as)
    PROVE  /\ Raised(c, as) \in Clock
           /\ Covers(Raised(c, as), c)
           /\ \A a \in as : Covers(Raised(c, as), a.clock)
           /\ \A o \in Origin : \/ Raised(c, as)[o] = c[o]
                                \/ \E a \in as : a.clock[o] = Raised(c, as)[o]
<1>1. \A o \in Origin : c[o] \in Nat
  BY DEF Clock
<1>2. \A a \in as, o \in Origin : a.clock[o] \in Nat
  BY DEF Act, Clock
<1>3. ASSUME NEW o \in Origin
      PROVE  /\ Raised(c, as)[o] \in {c[o]} \cup {a.clock[o] : a \in as}
             /\ \A x \in {c[o]} \cup {a.clock[o] : a \in as} : Raised(c, as)[o] >= x
  <2> DEFINE T == {a.clock[o] : a \in as}
             f == [a \in as |-> a.clock[o]]
  <2>1. f \in Surjection(as, T)
    BY DEF Surjection
  <2>2. IsFiniteSet(T)
    BY <2>1, FS_Surjection
  <2>3. IsFiniteSet(T \cup {c[o]})
    BY <2>2, FS_AddElement
  <2>4. {c[o]} \cup T = T \cup {c[o]}
    OBVIOUS
  <2>5. {c[o]} \cup T \in SUBSET Nat
    BY <1>1, <1>2
  <2>6. \E x \in {c[o]} \cup T : \A y \in {c[o]} \cup T : x >= y
    <3> HIDE DEF T
    <3> QED BY <2>3, <2>4, <2>5, GreatestExists
  <2>7. Raised(c, as)[o] = Max({c[o]} \cup T)
    BY DEF Raised
  <2>8. /\ Raised(c, as)[o] \in {c[o]} \cup T
        /\ \A x \in {c[o]} \cup T : Raised(c, as)[o] >= x
    <3> HIDE DEF T
    <3> QED BY <2>6, <2>7 DEF Max
  <2> QED BY <2>8
<1>4. \A o \in Origin : Raised(c, as)[o] \in Nat
  BY <1>1, <1>2, <1>3
<1>5. Raised(c, as) \in Clock
  BY <1>4 DEF Raised, Clock
<1>6. Covers(Raised(c, as), c) /\ \A a \in as : Covers(Raised(c, as), a.clock)
  BY <1>3 DEF Covers
<1> QED BY <1>3, <1>5, <1>6

\* The first k of a set in the order of the timestamps contain, with an action,
\* every one of the set that is earlier.
LEMMA FirstOfIsInitial ==
    ASSUME NEW as, IsFiniteSet(as), NEW k \in Nat, \A x \in as : x.ts \in Nat,
           NEW a \in FirstOf(as, k), NEW b \in as, b.ts < a.ts
    PROVE  b \in FirstOf(as, k)
<1> DEFINE A == {x \in as : x.ts < a.ts}
           B == {x \in as : x.ts < b.ts}
<1>1. a \in as /\ Cardinality(A) < k
  BY DEF FirstOf
<1>2. IsFiniteSet(A) /\ B \in SUBSET A
  <2>1. a.ts \in Nat /\ b.ts \in Nat
    BY <1>1
  <2>2. \A i, j, k1 \in Nat : i < j /\ j < k1 => i < k1
    OBVIOUS
  <2>3. \A x \in as : x.ts < b.ts => x.ts < a.ts
    BY <2>1, <2>2
  <2>4. A \in SUBSET as /\ B \in SUBSET A
    BY <2>3
  <2> HIDE DEF A, B
  <2> QED BY <2>4, FS_Subset
<1>3. IsFiniteSet(B) /\ Cardinality(B) <= Cardinality(A)
  <2> HIDE DEF A, B
  <2> QED BY <1>2, FS_Subset
<1>4. Cardinality(A) \in Nat /\ Cardinality(B) \in Nat
  BY <1>2, <1>3, FS_CardinalityType
<1>5. Cardinality(B) < k
  BY <1>1, <1>3, <1>4
<1> QED BY <1>5 DEF FirstOf

-----------------------------------------------------------------------------
(* What the invariant says of one node                                     *)

LEMMA TypeFacts ==
    ASSUME SyncInv
    PROVE  /\ \A n \in Origin, d \in Doc :
                 /\ held[n][d] \subseteq Written /\ held[n][d] \subseteq Act
                 /\ log[n][d] \subseteq held[n][d]
                 /\ clock[n][d] \in Clock
                 /\ \A o \in Origin : clock[n][d][o] \in Nat
           /\ \A a \in Written :
                 /\ a \in Act /\ a.doc \in Doc /\ a.origin \in Origin /\ a.ts \in Nat
                 /\ a.clock \in Clock /\ \A o \in Origin : a.clock[o] \in Nat
BY WrittenIs DEF SyncInv, SyncTypes, Containers, Act, Clock

\* An action whose own tick a node has counted is in the past of one it holds.
LEMMA CountedIsCovered ==
    ASSUME SyncInv, NEW n \in Origin, NEW b \in Written,
           clock[n][b.doc][b.origin] >= b.clock[b.origin]
    PROVE  \E a \in held[n][b.doc] : a \in Written /\ a.doc = b.doc /\ Covers(a.clock, b.clock)
<1>1. /\ b.doc \in Doc /\ b.origin \in Origin /\ b.clock[b.origin] \in Nat
      /\ clock[n][b.doc][b.origin] \in Nat
  BY TypeFacts
<1>2. b.clock[b.origin] >= 1
  BY DEF SyncInv, TicksAreOwn
<1>3. PICK a \in held[n][b.doc] : a.clock[b.origin] = clock[n][b.doc][b.origin]
  BY <1>1, <1>2 DEF SyncInv, ClockIsJoin
<1>4. a \in Written /\ a.doc = b.doc
  BY <1>1, TypeFacts DEF SyncInv, SyncTypes, Containers
<1>5. Covers(a.clock, b.clock)
  BY <1>3, <1>4 DEF SyncInv, TickNamesThePast
<1> QED BY <1>4, <1>5

\* Without holes, a node holds every action whose own tick it has counted.
LEMMA CoveredIsHeld ==
    ASSUME SyncInv, NEW n \in Origin, NEW b \in Written, b.doc \notin holes,
           clock[n][b.doc][b.origin] >= b.clock[b.origin]
    PROVE  b \in held[n][b.doc]
<1>1. PICK a \in held[n][b.doc] : Covers(a.clock, b.clock)
  BY CountedIsCovered
<1>2. b.doc \in Doc
  BY TypeFacts
<1> QED BY <1>1, <1>2 DEF SyncInv, PastsAreHeld, ClosedOver

LEMMA InvMeansHeld == SyncInv => ClockMeansHeld
<1> SUFFICES ASSUME SyncInv, NEW n \in Origin, NEW b \in Written, b.doc \notin holes,
                    Covers(clock[n][b.doc], b.clock)
             PROVE  b \in held[n][b.doc]
  BY DEF ClockMeansHeld
<1>1. b.origin \in Origin
  BY TypeFacts
<1> QED BY <1>1, CoveredIsHeld DEF Covers

-----------------------------------------------------------------------------
(* Steps that hold no new action                                           *)

LEMMA QuietPreserves ==
    ASSUME SyncInv, UNCHANGED store,
           \A m \in net' : m \in net \/ Fits(m)
    PROVE  SyncInv'
<1>0. held' = held /\ log' = log /\ clock' = clock /\ holes' = holes
  BY DEF store
<1>1. Written' = Written
  BY <1>0 DEF Written
<1>2. \A m \in net' : Fits(m)
  BY DEF SyncInv
<1>3. \A m : Fits(m)' <=> Fits(m)
  BY <1>0, <1>1 DEF Fits, ClosedOver
<1>4. /\ SyncTypes' /\ TicksAreOwn' /\ TimesGrow' /\ TickNamesThePast'
      /\ PastsAreHeld' /\ FoldedIsHeld' /\ ClockIsJoin' /\ OnlyReadersHold'
  BY <1>0, <1>1 DEF SyncInv, SyncTypes, Containers, TicksAreOwn, TimesGrow, TickNamesThePast,
              PastsAreHeld, FoldedIsHeld, ClosedOver, ClockIsJoin, OnlyReadersHold
<1> QED BY <1>2, <1>3, <1>4 DEF SyncInv

\* Requests for catch-up start from the node's own clock.
LEMMA RequestsFit ==
    ASSUME SyncInv, NEW n \in Origin, NEW p \in Origin, NEW ds \in SUBSET Doc
    PROVE  \A m \in CatchUps(n, p, ds) : Fits(m)
<1> SUFFICES ASSUME NEW d \in ds
             PROVE  Fits(Request(n, p, [is |-> "CatchUp", doc |-> d, have |-> clock[n][d]]))
  BY DEF CatchUps
<1>1. clock[n][d] \in Clock /\ \A o \in Origin : clock[n][d][o] \in Nat
  BY TypeFacts
<1>2. \A x \in Nat : x >= x
  OBVIOUS
<1>3. Covers(clock[n][d], clock[n][d])
  BY <1>1, <1>2 DEF Covers
<1> QED BY <1>1, <1>3 DEF Fits, Request

\* A message that is no request for catch-up and no answer to one.
LEMMA OthersFit ==
    ASSUME NEW m, m.client \in Origin, m.server \in Origin,
           m.body.is # "CatchUp", m.body.is # "CatchUpAck"
    PROVE  Fits(m)
BY DEF Fits

\* Without holes the answer to a catch-up is closed over what the requester
\* holds: its past is held where it is served, and what is not in the answer is
\* folded, so that every reader holds it, or covered by the clock in the
\* request, so that the requester does.
LEMMA AnswerFits ==
    ASSUME SyncInv, NEW m \in net, m.body.is = "CatchUp", NEW more
    PROVE  Fits([m EXCEPT !.body =
                    [is |-> "CatchUpAck", doc |-> m.body.doc,
                     actions |-> FirstOf(Served(m.server, m.client, m.body.doc, m.body.have), Cap),
                     more |-> more]])
<1> DEFINE d == m.body.doc
           n == m.server
           p == m.client
           missing == Served(n, p, d, m.body.have)
           acts == FirstOf(missing, Cap)
<1>1. /\ n \in Origin /\ p \in Origin /\ d \in Doc /\ m.body.have \in Clock
      /\ Covers(clock[p][d], m.body.have)
  BY DEF SyncInv, Fits
<1>2. missing \subseteq held[n][d] /\ acts \subseteq missing
  <2>1. missing \subseteq log[n][d]
    BY DEF Served, MissingAt
  <2> QED BY <1>1, <2>1, TypeFacts DEF FirstOf
<1>3. held[n][d] \subseteq {a \in Written : a.doc = d}
  BY <1>1, TypeFacts DEF SyncInv, SyncTypes, Containers
<1>4. IsFiniteSet(missing)
  <2>1. IsFiniteSet(Written) /\ missing \in SUBSET Written
    BY <1>2, <1>3 DEF SyncInv, SyncTypes, Containers
  <2> HIDE DEF missing
  <2> QED BY <2>1, FS_Subset
<1>5. acts # {} => p \in Readers[d]
  BY <1>2 DEF Served
<1>6. ASSUME d \notin holes, NEW a \in acts, NEW b \in Written, b.doc = d, Covers(a.clock, b.clock)
      PROVE  b \in acts \cup held[p][d]
  <2>1. a \in Written /\ a.doc = d /\ a \in held[n][d] /\ p \in Readers[d]
    BY <1>2, <1>3, <1>5
  <2>2. b \in held[n][d]
    BY <1>1, <1>6, <2>1 DEF SyncInv, PastsAreHeld, ClosedOver
  <2>3. CASE Covers(m.body.have, b.clock)
    <3>1. Covers(clock[p][d], b.clock)
      BY <1>1, <2>3, CoversIsTransitive, TypeFacts
    <3> QED BY <1>1, <1>6, <3>1, InvMeansHeld DEF ClockMeansHeld
  <2>5. CASE b \notin log[n][d]
    BY <1>1, <1>6, <2>1, <2>2, <2>5 DEF SyncInv, FoldedIsHeld
  <2>4. CASE ~ Covers(m.body.have, b.clock) /\ b \in log[n][d]
    <3>1. b \in missing
      BY <2>1, <2>4 DEF Served, MissingAt
    <3>2. CASE a = b
      BY <3>2
    <3>3. CASE a # b
      <4>1. b.ts < a.ts
        BY <1>6, <2>1, <3>3 DEF SyncInv, TimesGrow
      <4>2. \A x \in missing : x.ts \in Nat
        BY <1>2, <1>3, TypeFacts
      <4>3. Cap \in Nat
        BY SyncAssumption
      <4> HIDE DEF missing
      <4> QED BY <1>4, <3>1, <4>1, <4>2, <4>3, FirstOfIsInitial
    <3> QED BY <3>2, <3>3
  <2> QED BY <2>3, <2>4, <2>5
<1>7. d \notin holes => ClosedOver(acts, held[p][d], d)
  BY <1>6 DEF ClosedOver
<1>8. acts \subseteq {a \in Written : a.doc = d}
  BY <1>2, <1>3
<1> DEFINE r == [m EXCEPT !.body = [is |-> "CatchUpAck", doc |-> d, actions |-> acts, more |-> more]]
<1>9. /\ r.client = p /\ r.server = n
      /\ r.body = [is |-> "CatchUpAck", doc |-> d, actions |-> acts, more |-> more]
  OBVIOUS
<1> HIDE DEF acts, d, n, p, r
<1>10. Fits(r)
  BY <1>1, <1>5, <1>7, <1>8, <1>9 DEF Fits
<1> QED BY <1>10 DEF r, acts, d, n, p, missing

-----------------------------------------------------------------------------
(* Steps that hold actions                                                 *)

Held(n, d, as) ==
    /\ held'[n][d] = held[n][d] \cup as
    /\ clock'[n][d] = Raised(clock[n][d], as)
    /\ log'[n][d] \subseteq log[n][d] \cup as
    /\ \A m \in Origin, e \in Doc : m # n \/ e # d =>
           /\ held'[m][e] = held[m][e] /\ clock'[m][e] = clock[m][e]
           /\ log'[m][e] = log[m][e]

LEMMA HoldEffect ==
    ASSUME SyncInv, NEW n \in Origin, NEW d \in Doc, NEW as \in SUBSET Act, IsFiniteSet(as),
           NEW no \in SUBSET as, Hold(n, d, as, no)
    PROVE  /\ Containers' /\ Held(n, d, as \ no)
           /\ holes \subseteq holes' /\ holes' \subseteq holes \cup {d}
           /\ d \notin holes' =>
                 /\ no = {}
                 /\ \A p \in Readers[d] : held'[n][d] \ log'[n][d] \subseteq held'[p][d]
<1> DEFINE took == as \ no
<1>1. took \in SUBSET Act /\ IsFiniteSet(took)
  <2>1. took \in SUBSET as
    OBVIOUS
  <2> HIDE DEF took
  <2> QED BY <2>1, FS_Subset
<1>2. /\ held \in [Origin -> [Doc -> SUBSET Act]]
      /\ log \in [Origin -> [Doc -> SUBSET Act]]
      /\ clock \in [Origin -> [Doc -> Clock]]
  BY DEF SyncInv, SyncTypes, Containers
<1>3. PICK live \in LogsAfter(log[n][d], took) : log' = [log EXCEPT ![n][d] = live]
  BY DEF Hold
<1>4. live \subseteq log[n][d] \cup took
  BY <1>3 DEF LogsAfter
<1>5. /\ held' = [held EXCEPT ![n][d] = @ \cup took]
      /\ clock' = [clock EXCEPT ![n][d] = Raised(@, took)]
      /\ holes' = IF no # {} \/ \E p \in Readers[d] :
                           ~ ((held[n][d] \cup took) \ log'[n][d] \subseteq held'[p][d])
                  THEN holes \cup {d} ELSE holes
  BY DEF Hold
<1>6. Raised(clock[n][d], took) \in Clock
  <2>1. clock[n][d] \in Clock
    BY <1>2
  <2> HIDE DEF took
  <2> QED BY <1>1, <2>1, RaisedIsJoin
<1> HIDE DEF took
<1>7. /\ held' \in [Origin -> [Doc -> SUBSET Act]]
      /\ log' \in [Origin -> [Doc -> SUBSET Act]]
      /\ clock' \in [Origin -> [Doc -> Clock]]
  BY <1>1, <1>2, <1>3, <1>4, <1>5, <1>6
<1>8. /\ held'[n][d] = held[n][d] \cup took /\ clock'[n][d] = Raised(clock[n][d], took)
      /\ log'[n][d] = live
  BY <1>2, <1>3, <1>5
<1>9. \A m \in Origin, e \in Doc : m # n \/ e # d =>
          held'[m][e] = held[m][e] /\ clock'[m][e] = clock[m][e] /\ log'[m][e] = log[m][e]
  BY <1>2, <1>3, <1>5
<1>10. Containers' /\ Held(n, d, took)
  BY <1>4, <1>7, <1>8, <1>9 DEF Containers, Held
<1>11. holes \subseteq holes' /\ holes' \subseteq holes \cup {d}
  BY <1>5
<1>12. ASSUME d \notin holes'
       PROVE  no = {} /\ \A p \in Readers[d] : held'[n][d] \ log'[n][d] \subseteq held'[p][d]
  BY <1>5, <1>8, <1>12
<1> QED BY <1>10, <1>11, <1>12 DEF took

\* Nothing a node holds, and nothing its clock covers, is given up.
LEMMA HoldGrows ==
    ASSUME SyncInv, NEW n \in Origin, NEW d \in Doc, NEW as \in SUBSET Act, IsFiniteSet(as),
           Containers', Held(n, d, as)
    PROVE  /\ \A m \in Origin, e \in Doc :
                  /\ held[m][e] \subseteq held'[m][e]
                  /\ clock[m][e] \in Clock /\ clock'[m][e] \in Clock
                  /\ Covers(clock'[m][e], clock[m][e])
           /\ \A m \in Origin, e \in Doc : \A a \in held'[m][e] : Covers(clock'[m][e], a.clock)
           /\ \A m \in Origin, e \in Doc, o \in Origin :
                  \/ clock'[m][e][o] = 0
                  \/ \E a \in held'[m][e] : a.clock[o] = clock'[m][e][o]
<1> DEFINE c == clock[n][d]
           r == Raised(c, as)
<1>1. /\ held'[n][d] = held[n][d] \cup as /\ clock'[n][d] = r
      /\ \A m \in Origin, e \in Doc : m # n \/ e # d =>
             held'[m][e] = held[m][e] /\ clock'[m][e] = clock[m][e]
  BY DEF Held
<1>2. \A m \in Origin, e \in Doc : clock[m][e] \in Clock /\ held[m][e] \subseteq Act
  BY TypeFacts
<1>3. \A m \in Origin, e \in Doc : Covers(clock[m][e], clock[m][e])
  <2>1. \A x \in Nat : x >= x
    OBVIOUS
  <2> QED BY <2>1, <1>2 DEF Covers, Clock
<1>4. /\ r \in Clock /\ Covers(r, c)
      /\ \A a \in as : Covers(r, a.clock)
      /\ \A o \in Origin : r[o] = c[o] \/ \E a \in as : a.clock[o] = r[o]
  BY <1>2, RaisedIsJoin
<1>5. \A a \in held[n][d] : Covers(r, a.clock)
  <2> TAKE a \in held[n][d]
  <2>1. a.clock \in Clock
    BY <1>2 DEF Act
  <2>2. Covers(c, a.clock)
    BY DEF SyncInv, ClockIsJoin
  <2> QED BY <1>2, <1>4, <2>1, <2>2, CoversIsTransitive
<1>6. \A o \in Origin : r[o] = 0 \/ \E a \in held[n][d] \cup as : a.clock[o] = r[o]
  <2> TAKE o \in Origin
  <2>1. c[o] = 0 \/ \E a \in held[n][d] : a.clock[o] = c[o]
    BY DEF SyncInv, ClockIsJoin
  <2> HIDE DEF r, c
  <2> QED BY <1>4, <2>1
<1>7. ASSUME NEW m \in Origin, NEW e \in Doc
      PROVE  /\ held[m][e] \subseteq held'[m][e] /\ clock'[m][e] \in Clock
             /\ Covers(clock'[m][e], clock[m][e])
             /\ \A a \in held'[m][e] : Covers(clock'[m][e], a.clock)
             /\ \A o \in Origin : clock'[m][e][o] = 0 \/ \E a \in held'[m][e] : a.clock[o] = clock'[m][e][o]
  <2> HIDE DEF r, c
  <2>1. CASE m = n /\ e = d
    BY <1>1, <1>4, <1>5, <1>6, <2>1 DEF c
  <2>2. CASE m # n \/ e # d
    BY <1>1, <1>2, <1>3, <2>2 DEF SyncInv, ClockIsJoin
  <2> QED BY <2>1, <2>2
<1> QED BY <1>2, <1>7

\* An answer that closes what it is added to keeps the invariant; one of which
\* an action is refused makes a hole.
LEMMA AnswerPreserves ==
    ASSUME SyncInv, NEW m \in net, m.body.is = "CatchUpAck", NEW no \in SUBSET m.body.actions,
           Hold(m.client, m.body.doc, m.body.actions, no), net' \subseteq net
    PROVE  SyncInv'
<1> DEFINE n == m.client
           d == m.body.doc
           as == m.body.actions
           took == as \ no
<1>1. /\ n \in Origin /\ d \in Doc
      /\ as \subseteq {a \in Written : a.doc = d}
      /\ d \notin holes => ClosedOver(as, held[n][d], d)
      /\ as # {} => n \in Readers[d]
  BY DEF SyncInv, Fits
<1>2. /\ as \in SUBSET Act /\ IsFiniteSet(as) /\ \A a \in as : a.doc = d
  <2>1. IsFiniteSet(Written) /\ as \in SUBSET Written
    BY <1>1 DEF SyncInv, SyncTypes, Containers
  <2>2. Written \subseteq Act
    BY TypeFacts
  <2> HIDE DEF as
  <2> QED BY <1>1, <2>1, <2>2, FS_Subset
<1>3. Hold(n, d, as, no) /\ no \in SUBSET as
  OBVIOUS
<1>13. /\ took \in SUBSET Act /\ IsFiniteSet(took)
       /\ took \subseteq {a \in Written : a.doc = d} /\ took \subseteq as
       /\ no = {} => took = as
  <2>1. took \in SUBSET as /\ (no = {} => took = as)
    OBVIOUS
  <2> HIDE DEF took, as
  <2> QED BY <1>1, <1>2, <2>1, FS_Subset
<1> HIDE DEF n, d, as
<1>14. /\ Containers' /\ Held(n, d, took)
       /\ holes \subseteq holes' /\ holes' \subseteq holes \cup {d}
       /\ d \notin holes' =>
             /\ no = {}
             /\ \A p \in Readers[d] : held'[n][d] \ log'[n][d] \subseteq held'[p][d]
  BY <1>1, <1>2, <1>3, HoldEffect
<1> HIDE DEF took
<1>4. /\ held'[n][d] = held[n][d] \cup took
      /\ log'[n][d] \subseteq log[n][d] \cup took
      /\ \A p \in Origin, e \in Doc : p # n \/ e # d =>
             held'[p][e] = held[p][e] /\ clock'[p][e] = clock[p][e] /\ log'[p][e] = log[p][e]
  BY <1>14 DEF Held
<1>5. /\ \A p \in Origin, e \in Doc :
            /\ held[p][e] \subseteq held'[p][e]
            /\ clock[p][e] \in Clock /\ clock'[p][e] \in Clock
            /\ Covers(clock'[p][e], clock[p][e])
      /\ ClockIsJoin'
  <2>1. /\ \A p \in Origin, e \in Doc :
             /\ held[p][e] \subseteq held'[p][e]
             /\ clock[p][e] \in Clock /\ clock'[p][e] \in Clock
             /\ Covers(clock'[p][e], clock[p][e])
        /\ \A p \in Origin, e \in Doc : \A a \in held'[p][e] : Covers(clock'[p][e], a.clock)
        /\ \A p \in Origin, e \in Doc, o \in Origin :
              \/ clock'[p][e][o] = 0
              \/ \E a \in held'[p][e] : a.clock[o] = clock'[p][e][o]
    BY <1>1, <1>13, <1>14, HoldGrows
  <2> QED BY <2>1 DEF ClockIsJoin
<1>6. Written' = Written
  <2>1. \A a : a \in Written' <=> \E p \in Origin, e \in Doc : a \in held'[p][e]
    BY DEF Written
  <2>2. ASSUME NEW a \in Written' PROVE a \in Written
    <3>1. PICK p \in Origin, e \in Doc : a \in held'[p][e]
      BY <2>1
    <3> QED BY <1>4, <1>13, <3>1, WrittenIs
  <2>3. ASSUME NEW a \in Written PROVE a \in Written'
    BY <1>5, <2>1, WrittenIs
  <2> QED BY <2>2, <2>3
<1>7. SyncTypes'
  <2>1. ASSUME NEW p \in Origin, NEW e \in Doc
        PROVE  log'[p][e] \subseteq held'[p][e] /\ \A a \in held'[p][e] : a.doc = e
    <3>1. log[p][e] \subseteq held[p][e] /\ \A a \in held[p][e] : a.doc = e
      BY DEF SyncInv, SyncTypes
    <3>2. CASE p = n /\ e = d
      BY <1>4, <1>13, <3>1, <3>2
    <3>3. CASE p # n \/ e # d
      BY <1>4, <3>1, <3>3
    <3> QED BY <3>2, <3>3
  <2> QED BY <1>6, <1>14, <2>1 DEF SyncInv, SyncTypes
<1>8. TicksAreOwn'
  <2> SUFFICES ASSUME NEW a \in Written
               PROVE  /\ a \in held'[a.origin][a.doc]
                      /\ a.clock[a.origin] >= 1
                      /\ \A o \in Origin : a.clock[o] <= clock'[o][a.doc][o]
    BY <1>6 DEF TicksAreOwn
  <2>1. a.doc \in Doc /\ a.origin \in Origin /\ \A o \in Origin : a.clock[o] \in Nat
    BY TypeFacts
  <2>2. /\ a \in held[a.origin][a.doc] /\ a.clock[a.origin] >= 1
        /\ \A o \in Origin : a.clock[o] <= clock[o][a.doc][o]
    BY DEF SyncInv, TicksAreOwn
  <2>3. ASSUME NEW o \in Origin PROVE a.clock[o] <= clock'[o][a.doc][o]
    <3>1. clock'[o][a.doc][o] >= clock[o][a.doc][o]
      BY <1>5, <2>1 DEF Covers
    <3>2. clock'[o][a.doc][o] \in Nat /\ clock[o][a.doc][o] \in Nat /\ a.clock[o] \in Nat
      BY <1>5, <2>1 DEF Clock
    <3>3. a.clock[o] <= clock[o][a.doc][o]
      BY <2>2
    <3> QED BY <3>1, <3>2, <3>3
  <2> QED BY <1>5, <2>1, <2>2, <2>3
<1>9. TimesGrow' /\ TickNamesThePast'
  BY <1>6 DEF SyncInv, TimesGrow, TickNamesThePast
<1>10. PastsAreHeld'
  <2> SUFFICES ASSUME NEW p \in Origin, NEW e \in Doc, e \notin holes',
                      NEW a \in held'[p][e], NEW b \in Written,
                      b.doc = e, Covers(a.clock, b.clock)
               PROVE  b \in held'[p][e]
    BY <1>6 DEF PastsAreHeld, ClosedOver
  <2>0. e \notin holes
    BY <1>14
  <2>1. CASE a \in held[p][e]
    <3>1. b \in held[p][e]
      BY <2>0, <2>1 DEF SyncInv, PastsAreHeld, ClosedOver
    <3> QED BY <1>5, <3>1
  <2>2. CASE a \notin held[p][e]
    <3>1. p = n /\ e = d /\ a \in took
      BY <1>4, <2>2
    <3>2. took = as
      BY <1>13, <1>14, <3>1
    <3> QED BY <1>1, <1>4, <2>0, <3>1, <3>2 DEF ClosedOver
  <2> QED BY <2>1, <2>2
<1>15. FoldedIsHeld'
  <2> SUFFICES ASSUME NEW p \in Origin, NEW e \in Doc, e \notin holes', NEW q \in Readers[e]
               PROVE  held'[p][e] \ log'[p][e] \subseteq held'[q][e]
    BY DEF FoldedIsHeld
  <2>0. q \in Origin
    BY SyncAssumption
  <2>1. CASE p = n /\ e = d
    BY <1>14, <2>1
  <2>2. CASE p # n \/ e # d
    <3>1. held[p][e] \ log[p][e] \subseteq held[q][e]
      BY <1>14 DEF SyncInv, FoldedIsHeld
    <3>2. held[q][e] \subseteq held'[q][e]
      BY <1>5, <2>0
    <3> QED BY <1>4, <2>2, <3>1, <3>2
  <2> QED BY <2>1, <2>2
<1>11. OnlyReadersHold'
  BY <1>1, <1>4, <1>13 DEF SyncInv, OnlyReadersHold
<1>12. ASSUME NEW q \in net' PROVE Fits(q)'
  <2>1. Fits(q)
    BY DEF SyncInv
  <2>2. CASE q.body.is = "CatchUp"
    <3>1. Covers(clock'[q.client][q.body.doc], q.body.have)
      BY <1>5, <2>1, <2>2, CoversIsTransitive DEF Fits
    <3> QED BY <2>1, <2>2, <3>1 DEF Fits
  <2>3. CASE q.body.is = "CatchUpAck"
    <3>1. /\ q.client \in Origin /\ q.body.doc \in Doc
          /\ q.body.doc \notin holes =>
                ClosedOver(q.body.actions, held[q.client][q.body.doc], q.body.doc)
      BY <2>1, <2>3 DEF Fits
    <3>2. held[q.client][q.body.doc] \subseteq held'[q.client][q.body.doc]
      BY <1>5, <3>1
    <3>3. q.body.doc \notin holes' =>
              ClosedOver(q.body.actions, held[q.client][q.body.doc], q.body.doc)'
      BY <1>6, <1>14, <3>1, <3>2 DEF ClosedOver
    <3> QED BY <1>6, <2>1, <2>3, <3>3 DEF Fits
  <2>4. CASE q.body.is # "CatchUp" /\ q.body.is # "CatchUpAck"
    BY <2>1, <2>4 DEF Fits
  <2> QED BY <2>2, <2>3, <2>4
<1> QED BY <1>5, <1>7, <1>8, <1>9, <1>10, <1>11, <1>12, <1>15 DEF SyncInv

\* A local action follows everything its node holds, and nothing follows it.
LEMMA WritePreserves ==
    ASSUME SyncInv, NEW n \in Origin, NEW d \in Doc, Write(n, d)
    PROVE  SyncInv'
<1> DEFINE c == clock[n][d]
           size == Cardinality(Written)
           w == [doc |-> d, origin |-> n, ts |-> size + 1, clock |-> Tick(c, n)]
<1>1. n \in Readers[d] /\ Hold(n, d, {w}, {}) /\ net' = net
  BY DEF Write
<1>2. c \in Clock /\ (\A o \in Origin : c[o] \in Nat) /\ size \in Nat
  BY TypeFacts, FS_CardinalityType DEF SyncInv, SyncTypes
<1>3. /\ w.clock[n] = c[n] + 1
      /\ \A o \in Origin \ {n} : w.clock[o] = c[o]
      /\ w.clock \in Clock
  BY <1>2 DEF Tick, Clock
<1>4. /\ w \in Act /\ w.doc = d /\ w.origin = n /\ w.ts = size + 1
      /\ {w} \in SUBSET Act /\ IsFiniteSet({w}) /\ \A a \in {w} : a.doc = d
  <2>1. /\ w.doc = d /\ w.origin = n /\ w.ts = size + 1
    OBVIOUS
  <2>2. w \in Act
    BY <1>2, <1>3 DEF Act
  <2>3. IsFiniteSet({w})
    BY FS_Singleton, Zenon
  <2> HIDE DEF w
  <2> QED BY <2>1, <2>2, <2>3
<1>5. \A o \in Origin : w.clock[o] \in Nat /\ w.clock[o] >= c[o]
  <2> TAKE o \in Origin
  <2>1. c[o] \in Nat /\ (w.clock[o] = c[o] + 1 \/ w.clock[o] = c[o])
    BY <1>2, <1>3
  <2> QED BY <2>1
<1> HIDE DEF w, c, size
<1>22. /\ Containers' /\ Held(n, d, {w})
       /\ holes \subseteq holes' /\ holes' \subseteq holes \cup {d}
       /\ d \notin holes' =>
             \A p \in Readers[d] : held'[n][d] \ log'[n][d] \subseteq held'[p][d]
  <2>1. PICK one, none : one = {w} /\ none = {}
    OBVIOUS
  <2>2. /\ one \in SUBSET Act /\ IsFiniteSet(one) /\ none \in SUBSET one /\ one \ none = one
        /\ Hold(n, d, one, none)
    BY <1>1, <1>4, <2>1
  <2>3. /\ Containers' /\ Held(n, d, one \ none)
        /\ holes \subseteq holes' /\ holes' \subseteq holes \cup {d}
        /\ d \notin holes' =>
              \A p \in Readers[d] : held'[n][d] \ log'[n][d] \subseteq held'[p][d]
    BY <2>2, HoldEffect
  <2> QED BY <2>1, <2>2, <2>3
<1>6. /\ held'[n][d] = held[n][d] \cup {w}
      /\ clock'[n][d] = Raised(clock[n][d], {w})
      /\ log'[n][d] \subseteq log[n][d] \cup {w}
      /\ \A p \in Origin, e \in Doc : p # n \/ e # d =>
             held'[p][e] = held[p][e] /\ clock'[p][e] = clock[p][e] /\ log'[p][e] = log[p][e]
  BY <1>22 DEF Held
<1>7. /\ \A p \in Origin, e \in Doc :
            /\ held[p][e] \subseteq held'[p][e]
            /\ clock[p][e] \in Clock /\ clock'[p][e] \in Clock
            /\ Covers(clock'[p][e], clock[p][e])
      /\ \A p \in Origin, e \in Doc : \A a \in held'[p][e] : Covers(clock'[p][e], a.clock)
      /\ \A p \in Origin, e \in Doc, o \in Origin :
            \/ clock'[p][e][o] = 0
            \/ \E a \in held'[p][e] : a.clock[o] = clock'[p][e][o]
  BY <1>4, <1>22, HoldGrows
<1>8. Written' = Written \cup {w}
  <2>1. \A a : a \in Written' <=> \E p \in Origin, e \in Doc : a \in held'[p][e]
    BY DEF Written
  <2>2. ASSUME NEW a \in Written' PROVE a \in Written \cup {w}
    <3>1. PICK p \in Origin, e \in Doc : a \in held'[p][e]
      BY <2>1
    <3> QED BY <1>6, <3>1, WrittenIs
  <2>3. ASSUME NEW a \in Written \cup {w} PROVE a \in Written'
    BY <1>6, <1>7, <2>1, WrittenIs
  <2> QED BY <2>2, <2>3
<1>9. w \notin Written
  <2> SUFFICES ASSUME w \in Written PROVE FALSE
    OBVIOUS
  <2>1. w.ts <= size
    BY DEF SyncInv, TimesGrow, size
  <2> QED BY <1>2, <1>4, <2>1
<1>10. IsFiniteSet(Written') /\ Cardinality(Written') = size + 1
  BY <1>8, <1>9, FS_AddElement DEF SyncInv, SyncTypes, size
<1>11. SyncTypes'
  <2>1. ASSUME NEW p \in Origin, NEW e \in Doc
        PROVE  log'[p][e] \subseteq held'[p][e] /\ \A a \in held'[p][e] : a.doc = e
    <3>1. log[p][e] \subseteq held[p][e] /\ \A a \in held[p][e] : a.doc = e
      BY DEF SyncInv, SyncTypes
    <3>2. CASE p = n /\ e = d
      BY <1>4, <1>6, <3>1, <3>2
    <3>3. CASE p # n \/ e # d
      BY <1>6, <3>1, <3>3
    <3> QED BY <3>2, <3>3
  <2> QED BY <1>10, <1>22, <2>1 DEF SyncTypes
(* No older action counts n as far as w does; w counts others as n did.    *)
<1>12. \A a \in Written : a.doc = d => a.clock[n] < w.clock[n]
  <2> TAKE a \in Written
  <2> HAVE a.doc = d
  <2>1. a.clock[n] <= c[n] /\ a.clock[n] \in Nat
    BY TypeFacts DEF SyncInv, TicksAreOwn, c
  <2> QED BY <1>2, <1>3, <2>1
<1>13. \A a \in Written : a.doc = d => ~ Covers(a.clock, w.clock)
  <2> SUFFICES ASSUME NEW a \in Written, a.doc = d, a.clock[n] >= w.clock[n] PROVE FALSE
    BY DEF Covers
  <2>1. a.clock[n] \in Nat /\ w.clock[n] \in Nat
    BY <1>5, TypeFacts
  <2> QED BY <1>12, <2>1
<1>14. ASSUME NEW b \in Written, b.doc = d, w.clock[b.origin] >= b.clock[b.origin]
       PROVE  /\ b.origin = n \/ c[b.origin] >= b.clock[b.origin]
              /\ Covers(w.clock, b.clock)
  <2>1. /\ b.origin \in Origin /\ b.clock[b.origin] \in Nat /\ b.clock \in Clock
        /\ c[b.origin] \in Nat
    BY <1>2, TypeFacts
  <2>2. b.origin = n => b \in held[n][d]
    BY <1>14 DEF SyncInv, TicksAreOwn
  <2>3. b.origin # n => c[b.origin] >= b.clock[b.origin]
    BY <1>3, <1>14, <2>1
  <2>4. \E a \in held[n][d] : a \in Written /\ Covers(a.clock, b.clock)
    <3>1. CASE b.origin = n
      <4>1. \A x \in Nat : x >= x
        OBVIOUS
      <4>2. Covers(b.clock, b.clock)
        BY <4>1, <2>1 DEF Covers, Clock
      <4> QED BY <2>2, <3>1, <4>2
    <3>2. CASE b.origin # n
      BY <1>14, <2>3, <3>2, CountedIsCovered DEF c
    <3> QED BY <3>1, <3>2
  <2>5. Covers(c, b.clock)
    <3>1. PICK a \in held[n][d] : a \in Written /\ Covers(a.clock, b.clock)
      BY <2>4
    <3>2. Covers(c, a.clock) /\ a.clock \in Clock
      BY <3>1, TypeFacts DEF SyncInv, ClockIsJoin, c
    <3> QED BY <1>2, <2>1, <3>1, <3>2, CoversIsTransitive
  <2>6. Covers(w.clock, c)
    BY <1>5 DEF Covers
  <2> QED BY <1>2, <1>3, <2>1, <2>3, <2>5, <2>6, CoversIsTransitive
<1>23. ASSUME NEW b \in Written, b.doc = d, w.clock[b.origin] >= b.clock[b.origin], d \notin holes
       PROVE  b \in held[n][d]
  <2>1. CASE b.origin = n
    BY <1>23, <2>1 DEF SyncInv, TicksAreOwn
  <2>2. CASE b.origin # n
    <3>1. c[b.origin] >= b.clock[b.origin]
      BY <1>14, <1>23, <2>2
    <3> QED BY <1>23, <3>1, CoveredIsHeld DEF c
  <2> QED BY <2>1, <2>2
<1>15. TicksAreOwn'
  <2> SUFFICES ASSUME NEW a \in Written \cup {w}
               PROVE  /\ a \in held'[a.origin][a.doc]
                      /\ a.clock[a.origin] >= 1
                      /\ \A o \in Origin : a.clock[o] <= clock'[o][a.doc][o]
    BY <1>8 DEF TicksAreOwn
  <2>1. CASE a \in Written
    <3>1. a.doc \in Doc /\ a.origin \in Origin /\ \A o \in Origin : a.clock[o] \in Nat
      BY <2>1, TypeFacts
    <3>2. /\ a \in held[a.origin][a.doc] /\ a.clock[a.origin] >= 1
          /\ \A o \in Origin : a.clock[o] <= clock[o][a.doc][o]
      BY <2>1 DEF SyncInv, TicksAreOwn
    <3>3. ASSUME NEW o \in Origin PROVE a.clock[o] <= clock'[o][a.doc][o]
      <4>1. clock'[o][a.doc][o] >= clock[o][a.doc][o]
        BY <1>7, <3>1 DEF Covers
      <4>2. clock'[o][a.doc][o] \in Nat /\ clock[o][a.doc][o] \in Nat /\ a.clock[o] \in Nat
        BY <1>7, <3>1 DEF Clock
      <4> QED BY <3>2, <4>1, <4>2
    <3> QED BY <1>7, <3>1, <3>2, <3>3
  <2>2. CASE a = w
    <3>1. w \in held'[n][d] /\ w.clock[n] >= 1
      BY <1>2, <1>3, <1>6
    <3>2. ASSUME NEW o \in Origin PROVE w.clock[o] <= clock'[o][d][o]
      <4>1. CASE o = n
        <5>1. clock'[n][d][n] >= w.clock[n]
          BY <1>7, <3>1 DEF Covers
        <5>2. clock'[n][d][n] \in Nat
          BY <1>7 DEF Clock
        <5> QED BY <1>5, <4>1, <5>1, <5>2
      <4>2. CASE o # n
        <5>1. w.clock[o] = c[o] /\ clock'[o][d][o] = clock[o][d][o]
          BY <1>3, <1>6, <4>2
        <5>2. c[o] <= clock[o][d][o]
          <6>1. CASE c[o] = 0
            BY <6>1, TypeFacts
          <6>2. CASE c[o] # 0
            <7>1. PICK x \in held[n][d] : x.clock[o] = c[o]
              BY <6>2 DEF SyncInv, ClockIsJoin, c
            <7>2. x \in Written /\ x.doc = d
              BY TypeFacts DEF SyncInv, SyncTypes
            <7> QED BY <7>1, <7>2 DEF SyncInv, TicksAreOwn
          <6> QED BY <6>1, <6>2
        <5> QED BY <5>1, <5>2
      <4> QED BY <4>1, <4>2
    <3> QED BY <1>4, <2>2, <3>1, <3>2
  <2> QED BY <2>1, <2>2
<1>16. TimesGrow'
  <2>1. ASSUME NEW a \in Written \cup {w} PROVE a.ts <= size + 1 /\ (a \in Written => a.ts <= size)
    <3>1. a \in Written => a.ts <= size /\ a.ts \in Nat
      BY TypeFacts DEF SyncInv, TimesGrow, size
    <3> QED BY <1>2, <1>4, <3>1
  <2>2. ASSUME NEW a \in Written \cup {w}, NEW b \in Written \cup {w},
               a # b, a.doc = b.doc, Covers(a.clock, b.clock)
        PROVE  b.ts < a.ts
    <3>1. CASE a \in Written /\ b \in Written
      BY <2>2, <3>1 DEF SyncInv, TimesGrow
    <3>2. CASE a = w /\ b \in Written
      <4>1. b.ts <= size /\ b.ts \in Nat
        BY <2>1, <3>2, TypeFacts
      <4> QED BY <1>2, <1>4, <3>2, <4>1
    <3>3. CASE a \in Written /\ b = w
      BY <1>4, <1>13, <2>2, <3>3
    <3> QED BY <2>2, <3>1, <3>2, <3>3
  <2> QED BY <1>8, <1>10, <2>1, <2>2 DEF TimesGrow
<1>17. TickNamesThePast'
  <2> SUFFICES ASSUME NEW a \in Written \cup {w}, NEW b \in Written \cup {w}, a.doc = b.doc,
                      a.clock[b.origin] >= b.clock[b.origin]
               PROVE  Covers(a.clock, b.clock)
    BY <1>8 DEF TickNamesThePast
  <2>1. CASE a \in Written /\ b \in Written
    BY <2>1 DEF SyncInv, TickNamesThePast
  <2>2. CASE a = w /\ b \in Written
    BY <1>4, <1>14, <2>2
  <2>3. CASE a \in Written /\ b = w
    <3>1. a.clock[n] \in Nat /\ w.clock[n] \in Nat /\ a.clock[n] < w.clock[n] /\ a.clock[n] >= w.clock[n]
      BY <1>4, <1>5, <1>12, <2>3, TypeFacts
    <3> QED BY <3>1
  <2>4. CASE a = w /\ b = w
    <3>1. \A x \in Nat : x >= x
      OBVIOUS
    <3> QED BY <1>5, <2>4, <3>1 DEF Covers
  <2> QED BY <2>1, <2>2, <2>3, <2>4
<1>18. PastsAreHeld'
  <2> SUFFICES ASSUME NEW p \in Origin, NEW e \in Doc, e \notin holes',
                      NEW a \in held'[p][e], NEW b \in Written \cup {w},
                      b.doc = e, Covers(a.clock, b.clock)
               PROVE  b \in held'[p][e]
    BY <1>8 DEF PastsAreHeld, ClosedOver
  <2>0. e \notin holes
    BY <1>22
  <2>1. CASE a \in held[p][e]
    <3>1. a \in Written /\ a.doc = e
      BY <2>1, TypeFacts DEF SyncInv, SyncTypes
    <3>2. b \in Written
      BY <1>4, <1>13, <3>1
    <3>3. b \in held[p][e]
      BY <2>0, <2>1, <3>2 DEF SyncInv, PastsAreHeld, ClosedOver
    <3> QED BY <1>7, <3>3
  <2>2. CASE a \notin held[p][e]
    <3>1. p = n /\ e = d /\ a = w
      BY <1>6, <2>2
    <3>2. CASE b = w
      BY <1>6, <3>1, <3>2
    <3>3. CASE b \in Written
      <4>1. b.origin \in Origin
        BY <3>3, TypeFacts
      <4>2. w.clock[b.origin] >= b.clock[b.origin]
        BY <3>1, <4>1 DEF Covers
      <4> QED BY <1>6, <1>23, <2>0, <3>1, <3>3, <4>2
    <3> QED BY <3>2, <3>3
  <2> QED BY <2>1, <2>2
<1>24. FoldedIsHeld'
  <2> SUFFICES ASSUME NEW p \in Origin, NEW e \in Doc, e \notin holes', NEW q \in Readers[e]
               PROVE  held'[p][e] \ log'[p][e] \subseteq held'[q][e]
    BY DEF FoldedIsHeld
  <2>0. q \in Origin
    BY SyncAssumption
  <2>1. CASE p = n /\ e = d
    BY <1>22, <2>1
  <2>2. CASE p # n \/ e # d
    <3>1. held[p][e] \ log[p][e] \subseteq held[q][e]
      BY <1>22 DEF SyncInv, FoldedIsHeld
    <3>2. held[q][e] \subseteq held'[q][e]
      BY <1>7, <2>0
    <3> QED BY <1>6, <2>2, <3>1, <3>2
  <2> QED BY <2>1, <2>2
<1>19. ClockIsJoin'
  BY <1>7 DEF ClockIsJoin
<1>20. OnlyReadersHold'
  BY <1>1, <1>6 DEF SyncInv, OnlyReadersHold
<1>21. ASSUME NEW q \in net' PROVE Fits(q)'
  <2>1. Fits(q)
    BY <1>1 DEF SyncInv
  <2>2. CASE q.body.is = "CatchUp"
    <3>1. Covers(clock'[q.client][q.body.doc], q.body.have)
      BY <1>7, <2>1, <2>2, CoversIsTransitive DEF Fits
    <3> QED BY <2>1, <2>2, <3>1 DEF Fits
  <2>3. CASE q.body.is = "CatchUpAck"
    <3>1. /\ q.client \in Origin /\ q.body.doc \in Doc
          /\ q.body.actions \subseteq {a \in Written : a.doc = q.body.doc}
          /\ q.body.doc \notin holes =>
                ClosedOver(q.body.actions, held[q.client][q.body.doc], q.body.doc)
      BY <2>1, <2>3 DEF Fits
    <3>2. held[q.client][q.body.doc] \subseteq held'[q.client][q.body.doc]
      BY <1>7, <3>1
    <3>3. \A a \in q.body.actions : w.doc = q.body.doc => ~ Covers(a.clock, w.clock)
      BY <1>4, <1>13, <3>1
    <3>4. q.body.doc \notin holes' =>
              ClosedOver(q.body.actions, held[q.client][q.body.doc], q.body.doc)'
      BY <1>8, <1>22, <3>1, <3>2, <3>3 DEF ClosedOver
    <3> QED BY <1>8, <2>1, <2>3, <3>4 DEF Fits
  <2>4. CASE q.body.is # "CatchUp" /\ q.body.is # "CatchUpAck"
    BY <2>1, <2>4 DEF Fits
  <2> QED BY <2>2, <2>3, <2>4
<1> QED BY <1>11, <1>15, <1>16, <1>17, <1>18, <1>19, <1>20, <1>21, <1>24 DEF SyncInv

-----------------------------------------------------------------------------
(* The steps of the engine                                                 *)

LEMMA HandlePreserves ==
    ASSUME SyncInv, NEW m \in net, Handle(m)
    PROVE  SyncInv'
<1>1. m.client \in Origin /\ m.server \in Origin
  BY DEF SyncInv, Fits
<1>2. CASE ServeHello(m)
  <2> DEFINE b == [is |-> "HelloAck", clocks |-> SummaryFor(m.server, m.client)]
             r == [m EXCEPT !.body = b]
  <2>1. UNCHANGED store /\ net' = (net \ {m}) \cup {r}
    BY <1>2 DEF ServeHello, Answer
  <2>2. r.client = m.client /\ r.server = m.server /\ r.body = b /\ b.is = "HelloAck"
    BY DEF SyncInv, Fits
  <2> HIDE DEF r, b
  <2>3. Fits(r)
    BY <1>1, <2>2, OthersFit
  <2> QED BY <2>1, <2>3, QuietPreserves
<1>3. CASE ServeCatchUp(m)
  <2> DEFINE missing == Served(m.server, m.client, m.body.doc, m.body.have)
             r == [m EXCEPT !.body = [is |-> "CatchUpAck", doc |-> m.body.doc,
                                      actions |-> FirstOf(missing, Cap),
                                      more |-> Cardinality(missing) > Cap]]
  <2>1. UNCHANGED store /\ net' = (net \ {m}) \cup {r} /\ m.body.is = "CatchUp"
    BY <1>3 DEF ServeCatchUp, Answer
  <2>2. Fits(r)
    BY <2>1, AnswerFits
  <2> HIDE DEF r
  <2> QED BY <2>1, <2>2, QuietPreserves
<1>4. CASE ServeSummary(m)
  <2> DEFINE b == [is |-> "SummaryAck", clocks |-> SummaryFor(m.server, m.client)]
             r == [m EXCEPT !.body = b]
  <2>1. UNCHANGED store /\ net' = (net \ {m}) \cup {r}
    BY <1>4 DEF ServeSummary, Answer
  <2>2. r.client = m.client /\ r.server = m.server /\ r.body = b /\ b.is = "SummaryAck"
    BY DEF SyncInv, Fits
  <2> HIDE DEF r, b
  <2>3. Fits(r)
    BY <1>1, <2>2, OthersFit
  <2> QED BY <2>1, <2>3, QuietPreserves
<1>5. CASE OnHelloAck(m)
  <2>1. PICK gaps \in SUBSET Doc :
            UNCHANGED store /\ net' = (net \ {m}) \cup CatchUps(m.client, m.server, gaps)
    BY <1>5 DEF OnHelloAck, Ahead
  <2> QED BY <1>1, <2>1, RequestsFit, QuietPreserves
<1>6. CASE OnCatchUpAck(m)
  <2>1. PICK no \in SUBSET m.body.actions :
            /\ Hold(m.client, m.body.doc, m.body.actions, no)
            /\ m.body.is = "CatchUpAck" /\ net' = net \ {m}
    BY <1>6 DEF OnCatchUpAck
  <2> QED BY <2>1, AnswerPreserves
<1>7. CASE OnSummaryAck(m)
  <2>1. UNCHANGED store /\ net' = net \ {m}
    BY <1>7 DEF OnSummaryAck
  <2> QED BY <2>1, QuietPreserves
<1> QED BY <1>2, <1>3, <1>4, <1>5, <1>6, <1>7 DEF Handle

\* A Hello, a Summary and the requests of a round.
LEMMA NewRequestsFit ==
    ASSUME NEW n \in Origin, NEW p \in Origin, NEW b, b.is \in {"Hello", "Summary"}
    PROVE  Fits(Request(n, p, b))
BY OthersFit DEF Request

LEMMA NextPreserves == SyncInv /\ [Next]_vars => SyncInv'
<1> SUFFICES ASSUME SyncInv, [Next]_vars PROVE SyncInv'
  OBVIOUS
<1>1. ASSUME NEW m \in net, Handle(m) PROVE SyncInv'
  BY <1>1, HandlePreserves
<1>2. ASSUME NEW m \in net, RequestFails(m) PROVE SyncInv'
  <2>1. UNCHANGED store /\ net' = net \ {m}
    BY <1>2 DEF RequestFails
  <2> QED BY <2>1, QuietPreserves
<1>3. ASSUME NEW n \in Origin, NEW d \in Doc, Write(n, d) PROVE SyncInv'
  BY <1>3, WritePreserves
<1>4. ASSUME NEW n \in Origin, NEW p \in Peers(n), AddDrive(n, p) PROVE SyncInv'
  <2>1. UNCHANGED store /\ (net' = net \cup {Request(n, p, Hello)} \/ net' = net)
    BY <1>4 DEF AddDrive
  <2>2. Fits(Request(n, p, Hello))
    BY NewRequestsFit DEF Peers, Hello
  <2> QED BY <2>1, <2>2, QuietPreserves
<1>5. ASSUME NEW n \in Origin, NEW p \in Peers(n), Pause(n, p) \/ Resume(n, p) PROVE SyncInv'
  <2>1. UNCHANGED <<store, net>>
    BY <1>5 DEF Pause, Resume
  <2> QED BY <2>1, QuietPreserves
<1>6. ASSUME NEW n \in Origin, NEW p \in Peers(n), Connect(n, p) PROVE SyncInv'
  <2>1. UNCHANGED store /\ net' \subseteq net \cup {Request(n, p, Hello), Request(p, n, Hello)}
    BY <1>6 DEF Connect, OpenHandshake
  <2>2. Fits(Request(n, p, Hello)) /\ Fits(Request(p, n, Hello))
    BY NewRequestsFit DEF Peers, Hello
  <2> QED BY <2>1, <2>2, QuietPreserves
<1>7. ASSUME NEW n \in Origin, NEW p \in Peers(n), Close(n, p) PROVE SyncInv'
  <2>1. UNCHANGED store /\ net' \subseteq net
    BY <1>7 DEF Close, Surviving
  <2> QED BY <2>1, QuietPreserves
<1>8. ASSUME NEW n \in Origin, NEW p \in Peers(n), SyncTick(n, p) PROVE SyncInv'
  <2> DEFINE s == Request(n, p, [is |-> "Summary", clocks |-> clock[n]])
  <2>1. PICK gaps \in SUBSET Doc :
            UNCHANGED store /\ net' = net \cup CatchUps(n, p, gaps) \cup {s}
    BY <1>8 DEF SyncTick, Ahead
  <2>2. Fits(s)
    BY NewRequestsFit DEF Peers
  <2>3. p \in Origin
    BY DEF Peers
  <2> HIDE DEF s
  <2> QED BY <2>1, <2>2, <2>3, RequestsFit, QuietPreserves
<1>9. CASE UNCHANGED vars
  <2>1. UNCHANGED <<store, net>>
    BY <1>9 DEF vars
  <2> QED BY <2>1, QuietPreserves
<1> QED BY <1>1, <1>2, <1>3, <1>4, <1>5, <1>6, <1>7, <1>8, <1>9 DEF Next

LEMMA InitHolds == Init => SyncInv
<1> SUFFICES ASSUME Init PROVE SyncInv
  OBVIOUS
<1>1. \A n \in Origin, d \in Doc : held[n][d] = {} /\ log[n][d] = {} /\ clock[n][d] = ZeroClock
  BY DEF Init, NoClocks
<1>2. Written = {}
  BY <1>1, WrittenIs
<1>3. ZeroClock \in Clock /\ \A o \in Origin : ZeroClock[o] = 0
  BY DEF ZeroClock, Clock
<1>4. SyncTypes
  BY <1>1, <1>2, <1>3, FS_EmptySet DEF SyncTypes, Containers, Init, NoClocks
<1>5. TicksAreOwn /\ TimesGrow /\ TickNamesThePast /\ PastsAreHeld /\ FoldedIsHeld
      /\ OnlyReadersHold
  BY <1>1, <1>2 DEF TicksAreOwn, TimesGrow, TickNamesThePast, PastsAreHeld, ClosedOver, OnlyReadersHold,
         FoldedIsHeld
<1>6. ClockIsJoin
  BY <1>1, <1>3 DEF ClockIsJoin
<1> QED BY <1>4, <1>5, <1>6 DEF SyncInv, Init

LEMMA SyncInvariant == Spec => []SyncInv
<1>1. Init => SyncInv
  BY InitHolds
<1>2. SyncInv /\ [Next]_vars => SyncInv'
  BY NextPreserves
<1> QED BY <1>1, <1>2, PTL DEF Spec

\* For any nodes, documents, answer caps and bounds, without gossip: whatever
\* fails, closes, is paused or is folded into a snapshot, a node whose clock
\* covers an action holds that action, so no catch-up ever skips one (catch_up,
\* apply_remote_action), in every document of which no store has refused an
\* action and no snapshot has folded away one that a reader had not got.
THEOREM NothingIsSkipped == Spec => []ClockMeansHeld
<1>1. SyncInv => ClockMeansHeld
  BY InvMeansHeld
<1> QED BY <1>1, SyncInvariant, PTL

\* For any readers: no node comes to hold an action of a document it may not
\* read, although summaries are sent to every peer (may_peer_read in
\* serve_request).
THEOREM ReadersOnly == Spec => []OnlyReadersHold
<1>1. SyncInv => OnlyReadersHold
  BY DEF SyncInv
<1> QED BY <1>1, SyncInvariant, PTL
=============================================================================

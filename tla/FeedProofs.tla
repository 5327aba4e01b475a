----------------------------- MODULE FeedProofs -----------------------------
(***************************************************************************)
(* Proofs about the doc-change feed: what projections publish, and what    *)
(* the read models answer.  A change lies in a queue while its document    *)
(* goes on changing, so the invariant relates what is queued, what a       *)
(* listener has in hand and what it has made of it to the documents as     *)
(* they are now.  Names are what goes wrong on the way: a document may be  *)
(* renamed, and another may be given the name it has.                      *)
(***************************************************************************)
EXTENDS Feed, SetFacts

IsList(s) == s \in Seq(Range(s))

\* An entry of the store; its space is given once.
IsEntry(e) ==
    /\ e = [name |-> e.name, model |-> e.model, fields |-> e.fields, dead |-> e.dead,
            deleted |-> e.deleted, space |-> e.space]
    /\ e.deleted \in BOOLEAN

InFeed(c) == \E i \in DOMAIN feed : feed[i] = c

\* Names are the same, or both are names of renamed documents.
Same(m, n) == m = n \/ (m \in moved /\ n \in moved)

\* The index leads to a document of the name that it is asked for, and to each
\* live one that has its name to itself.
IndexHolds ==
    /\ \A n \in DOMAIN names :
          names[n] \in DOMAIN doc /\ (n \notin moved => doc[names[n]].name = n)
    /\ \A d \in DOMAIN doc :
          ~ doc[d].deleted /\ doc[d].name \notin moved /\ doc[d].name \notin given =>
             doc[d].name \in DOMAIN names /\ names[doc[d].name] = d

\* A change bears the name of its document.
StoreHolds ==
    /\ IsList(doc) /\ IsList(feed)
    /\ \A d \in DOMAIN doc : IsEntry(doc[d])
    /\ IndexHolds
    /\ \A i \in DOMAIN feed : feed[i].id \in DOMAIN doc /\ Same(feed[i].name, doc[feed[i].id].name)

\* What lies in a queue was once sent.
QueuesHold ==
    /\ inbox = [l \in Listeners |-> inbox[l]]
    /\ \A l \in Listeners : IsList(inbox[l]) /\ \A i \in DOMAIN inbox[l] : InFeed(inbox[l][i])

\* The rules in hand were triggered by the change in hand.
PubHolds ==
    /\ rules \subseteq Rules
    /\ pub # <<>> => \E c, todo :
          /\ pub = <<[change |-> c, todo |-> todo]>>
          /\ InFeed(c)
          /\ IsList(todo) /\ todo # <<>>
          /\ \A k \in DOMAIN todo : Triggers(todo[k], c)

\* Where a record is, and what it is called.
Placed(r) ==
    /\ r = [id |-> r.id, rule |-> r.rule, source |-> r.source]
    /\ r.id \in DOMAIN doc /\ r.source \in DOMAIN doc /\ doc[r.id].space \in DOMAIN doc
    /\ r.rule.into \notin moved => doc[doc[r.id].space].name = r.rule.into
    /\ doc[r.source].name \notin moved /\ doc[r.id].name \notin moved =>
          doc[r.id].name = target_name(r.rule, doc[r.source].name)

\* A record was made of one change of its source and is named after it.
RecordHolds(r) ==
    /\ Placed(r)
    /\ \E i, j \in DOMAIN feed :
          /\ feed[i].id = r.source /\ Triggers(r.rule, feed[i])
          /\ feed[j].id = r.id /\ feed[j].action_kind = <<"init">>
          /\ DOMAIN feed[j].fields \subseteq r.rule.fields
          /\ \A f \in DOMAIN feed[j].fields :
                f \notin feed[i].dead /\ feed[j].fields[f] = feed[i].fields[f]

RecordsHold == \A r \in published : RecordHolds(r)

\* A name of the read models leads to a document of that name, and to its edges
\* for as long as the view has it under that name.
ViewHolds ==
    /\ \A d \in DOMAIN view.by_id :
          d \in DOMAIN doc /\ view.by_id[d].name \in DOMAIN view.by_name
    /\ \A n \in DOMAIN view.by_name :
          /\ view.by_name[n] \in DOMAIN view.by_id
          /\ n \notin moved => doc[view.by_name[n]].name = n
          /\ n \in DOMAIN view.edges
          /\ view.by_id[view.by_name[n]].name = n =>
                view.edges[n] = Edges(view.by_id[view.by_name[n]])

\* The latest state of a document lies in the queue, or the queue has nothing
\* of it and the view has it.
Latest(d) ==
  LET q == inbox["coordinator"] IN
    \/ \E i \in DOMAIN q :
          /\ q[i].id = d /\ from_change(q[i]) = Snapshot(d, doc[d])
          /\ \A j \in DOMAIN q : j > i => q[j].id # d
    \/ /\ \A i \in DOMAIN q : q[i].id # d
       /\ d \in DOMAIN view.by_id /\ view.by_id[d] = Snapshot(d, doc[d])

PhaseHolds ==
    /\ phase = [l \in {"coordinator", "manager"} |-> phase[l]]
    /\ phase["coordinator"] \in {"off", "primed", "on"}
    /\ phase["coordinator"] # "off" => "coordinator" \in deployed
    /\ phase["coordinator"] # "on" => inbox["coordinator"] = <<>>

LatestHolds ==
    phase["coordinator"] # "off" =>
        \A d \in DOMAIN doc \ missed : Latest(d)

FeedInv ==
    /\ StoreHolds /\ QueuesHold /\ PubHolds /\ RecordsHold
    /\ ViewHolds /\ PhaseHolds /\ LatestHolds

-----------------------------------------------------------------------------
(* Lists. *)

LEMMA SeqIsList ==
    ASSUME NEW S, NEW s \in Seq(S)
    PROVE  /\ IsList(s) /\ Len(s) \in Nat /\ DOMAIN s = 1..Len(s)
           /\ \A i \in DOMAIN s : s[i] \in S
<1>1. Len(s) \in Nat /\ s \in [1..Len(s) -> S]
  OBVIOUS
<1>2. s \in [1..Len(s) -> Range(s)]
  BY <1>1 DEF Range
<1> QED BY <1>1, <1>2 DEF IsList

\* Appending puts one element behind a list.
LEMMA AppendList ==
    ASSUME NEW s, IsList(s), NEW e
    PROVE  /\ IsList(Append(s, e)) /\ Len(s) \in Nat
           /\ DOMAIN s = 1..Len(s) /\ DOMAIN Append(s, e) = 1..(Len(s) + 1)
           /\ Append(s, e)[Len(s) + 1] = e
           /\ \A i \in DOMAIN s : Append(s, e)[i] = s[i]
<1> DEFINE S == Range(s) \union {e}
<1>1. s \in Seq(S)
  BY SeqIsList DEF IsList
<1>2. Append(s, e) \in Seq(S)
  BY <1>1
<1>3. IsList(Append(s, e))
  BY <1>2, SeqIsList
<1> HIDE DEF S
<1>4. e \in S
  BY DEF S
<1> QED BY <1>1, <1>2, <1>3, <1>4

\* Taking the head off a list moves the others up.
LEMMA TailList ==
    ASSUME NEW s, IsList(s), s # <<>>
    PROVE  /\ IsList(Tail(s)) /\ Len(s) \in Nat /\ Len(s) > 0
           /\ DOMAIN s = 1..Len(s) /\ DOMAIN Tail(s) = 1..(Len(s) - 1)
           /\ Head(s) = s[1] /\ 1 \in DOMAIN s
           /\ \A i \in DOMAIN Tail(s) : i + 1 \in DOMAIN s /\ Tail(s)[i] = s[i + 1]
<1> DEFINE S == Range(s)
<1>1. s \in Seq(S)
  BY DEF IsList
<1> HIDE DEF S
<1>2. Tail(s) \in Seq(S)
  BY <1>1
<1>3. IsList(Tail(s))
  BY <1>2, SeqIsList
<1> QED BY <1>1, <1>2, <1>3

LEMMA EmptyIsList == IsList(<<>>) /\ DOMAIN <<>> = {}
<1>1. <<>> \in Seq({})
  OBVIOUS
<1>2. IsList(<<>>) /\ DOMAIN <<>> = 1..Len(<<>>) /\ Len(<<>>) = 0
  BY <1>1, SeqIsList
<1> QED BY <1>2

-----------------------------------------------------------------------------
(* A change of a document. *)
\* After keeps a document's space, and a deleted one as it is.
LEMMA AfterKeeps ==
    ASSUME NEW e, IsEntry(e), NEW w
    PROVE  /\ IsEntry(After(e, w)) /\ After(e, w).space = e.space
           /\ e.deleted => After(e, w) = e
<1> DEFINE r == [name |-> e.name, model |-> e.model, fields |-> e.fields, dead |-> e.dead,
                 deleted |-> e.deleted, space |-> e.space]
<1>1. e = r /\ e.deleted \in BOOLEAN
  BY DEF IsEntry
<1>2. CASE e.deleted
  <2>1. After(e, w) = e
    BY <1>2 DEF After
  <2> QED BY <2>1
<1>3. CASE ~ e.deleted /\ w.kind = <<"delete">>
  <2>1. After(e, w) = [r EXCEPT !.deleted = TRUE, !.fields = <<>>, !.dead = {}]
    BY <1>1, <1>3, Zenon DEF After
  <2> QED BY <1>1, <1>3, <2>1 DEF IsEntry
<1>4. CASE ~ e.deleted /\ w.kind # <<"delete">>
  <2>1. \E n, f, x : After(e, w) = [r EXCEPT !.name = n, !.fields = f, !.dead = x]
    BY <1>1, <1>4, Zenon DEF After
  <2>2. PICK n, f, x : After(e, w) = [r EXCEPT !.name = n, !.fields = f, !.dead = x]
    BY <2>1
  <2> QED BY <1>1, <1>4, <2>2 DEF IsEntry
<1> QED BY <1>2, <1>3, <1>4

\* A document is created, or changed; a deleted one is not brought back.
Change_OK(d, e) ==
    /\ IsEntry(e)
    /\ \/ d = Len(doc) + 1
       \/ d \in DOMAIN doc /\ e.space = doc[d].space /\ (doc[d].deleted => e.deleted)

Emits(d, e, kind, set) == Change_OK(d, e) /\ emit_change(d, e, kind, set)

\* The documents after d was made into e.
Written(d, e) ==
    /\ d \in DOMAIN doc' /\ doc'[d] = e /\ d \in Nat
    /\ DOMAIN doc' = DOMAIN doc \union {d}
    /\ \A x \in DOMAIN doc : x # d => doc'[x] = doc[x]
    /\ \A x \in DOMAIN doc :
          /\ doc'[x].space = doc[x].space
          /\ doc'[x].name = doc[x].name \/ (doc[x].name \in moved' /\ doc'[x].name \in moved')
    /\ IsList(doc')
    /\ moved \subseteq moved' /\ given \subseteq given'

\* What was sent stays sent.
FeedKept ==
    IsList(feed') /\ \A i \in DOMAIN feed : i \in DOMAIN feed' /\ feed'[i] = feed[i]

\* The feed after change c.
Sent(c) ==
    /\ FeedKept /\ InFeed(c)'
    /\ \A i \in DOMAIN feed' : i \in DOMAIN feed \/ feed'[i] = c

LEMMA PutFacts ==
    ASSUME StoreHolds, NEW d, NEW e, Change_OK(d, e), Put(d, e)
    PROVE  Written(d, e)
<1>1. /\ doc' = IF d \in DOMAIN doc THEN [doc EXCEPT ![d] = e] ELSE Append(doc, e)
      /\ given \subseteq given' /\ moved \subseteq moved'
      /\ d \in DOMAIN doc /\ e.name # doc[d].name => e.name \in moved' /\ doc[d].name \in moved'
  BY DEF Put
<1>2. IsList(doc)
  BY DEF StoreHolds
<1>4. CASE d = Len(doc) + 1
  <2>1. /\ Len(doc) \in Nat /\ DOMAIN doc = 1..Len(doc)
        /\ DOMAIN Append(doc, e) = 1..(Len(doc) + 1) /\ IsList(Append(doc, e))
        /\ Append(doc, e)[Len(doc) + 1] = e
        /\ \A x \in DOMAIN doc : Append(doc, e)[x] = doc[x]
    BY <1>2, AppendList
  <2>2. d \notin DOMAIN doc /\ d \in Nat /\ DOMAIN Append(doc, e) = DOMAIN doc \union {d}
    BY <1>4, <2>1
  <2>3. doc' = Append(doc, e)
    BY <1>1, <2>2, Zenon
  <2>4. DOMAIN doc' = DOMAIN doc \union {d} /\ IsList(doc') /\ doc'[d] = e
    BY <1>4, <2>1, <2>2, <2>3, Zenon
  <2>5. \A x \in DOMAIN doc : doc'[x] = doc[x]
    BY <2>1, <2>3, Zenon
  <2> QED BY <1>1, <2>2, <2>4, <2>5, Zenon DEF Written
<1>5. CASE d \in DOMAIN doc
  <2>1. doc' = [doc EXCEPT ![d] = e]
    BY <1>1, <1>5
  <2>2. doc \in Seq(Range(doc) \union {e}) /\ e \in Range(doc) \union {e}
    BY <1>2, SeqIsList DEF IsList
  <2>3. doc' \in Seq(Range(doc) \union {e}) /\ d \in Nat
    BY <2>1, <2>2, <1>5
  <2>4. IsList(doc')
    BY <2>3, SeqIsList
  <2>5. ~ (d = Len(doc) + 1)
    BY <1>5, <2>2
  <2>6. e.space = doc[d].space
    BY <2>5 DEF Change_OK
  <2>7. DOMAIN doc' = DOMAIN doc /\ \A x \in DOMAIN doc : doc'[x] = IF x = d THEN e ELSE doc[x]
    BY <2>1
  <2>8. doc'[d] = e /\ \A x \in DOMAIN doc : x # d => doc'[x] = doc[x]
    BY <1>5, <2>7
  <2> QED BY <1>1, <1>5, <2>3, <2>4, <2>6, <2>7, <2>8, Zenon DEF Written
<1> QED BY <1>4, <1>5 DEF Change_OK

LEMMA EmitFacts ==
    ASSUME StoreHolds, NEW d, NEW e, NEW kind, NEW set, Emits(d, e, kind, set)
    PROVE  Written(d, e) /\ Sent(ChangeOf(d, e, kind, set))
<1> DEFINE c == ChangeOf(d, e, kind, set)
<1>1. feed' = Append(feed, c)
  BY DEF Emits, emit_change
<1>2. IsList(feed)
  BY DEF StoreHolds
<1> HIDE DEF c
<1>3. Sent(c)
  <2>1. /\ IsList(feed') /\ Len(feed) \in Nat
        /\ DOMAIN feed = 1..Len(feed) /\ DOMAIN feed' = 1..(Len(feed) + 1)
        /\ feed'[Len(feed) + 1] = c
        /\ \A i \in DOMAIN feed : feed'[i] = feed[i]
    BY <1>1, <1>2, AppendList
  <2>2. Len(feed) + 1 \in DOMAIN feed'
    BY <2>1
  <2>3. \A i \in DOMAIN feed' : i \in DOMAIN feed \/ i = Len(feed) + 1
    BY <2>1
  <2>4. InFeed(c)'
    BY <2>1, <2>2 DEF InFeed
  <2>5. \A i \in DOMAIN feed : i \in DOMAIN feed'
    BY <2>1
  <2> QED BY <2>1, <2>3, <2>4, <2>5 DEF Sent, FeedKept
<1>4. Written(d, e)
  BY PutFacts DEF Emits, emit_change
<1> QED BY <1>3, <1>4 DEF c

LEMMA ChangeFacts ==
    ASSUME NEW d, NEW e, NEW kind, NEW set
    PROVE  LET c == ChangeOf(d, e, kind, set)
           IN  /\ c.id = d /\ c.name = e.name /\ c.fields = e.fields /\ c.action_kind = kind
               /\ from_change(c) = Snapshot(d, e)
BY DEF ChangeOf, from_change, Snapshot

\* The index' part: a name that leads elsewhere now was in use, or is that of a
\* renamed document.
LEMMA PutKeepsIndex ==
    ASSUME StoreHolds, NEW d, NEW e, Change_OK(d, e), Put(d, e)
    PROVE  IndexHolds'
<1>1. /\ d \in DOMAIN doc' /\ doc'[d] = e
      /\ DOMAIN doc' = DOMAIN doc \union {d}
      /\ \A x \in DOMAIN doc : x # d => doc'[x] = doc[x]
      /\ \A x \in DOMAIN doc :
            doc'[x].name = doc[x].name \/ (doc[x].name \in moved' /\ doc'[x].name \in moved')
      /\ moved \subseteq moved' /\ given \subseteq given'
  BY PutFacts DEF Written
<1>2. IndexHolds
  BY DEF StoreHolds
<1>3. CASE e.deleted
  <2>1. names' = [n \in {m \in DOMAIN names : ~ (m = e.name /\ names[m] = d)} |-> names[n]]
    BY <1>3 DEF Put
  <2>2. /\ \A n \in DOMAIN names' : n \in DOMAIN names /\ names'[n] = names[n]
        /\ \A n \in DOMAIN names : names[n] # d => n \in DOMAIN names'
    BY <2>1
  <2>3. ASSUME NEW n \in DOMAIN names'
        PROVE  names'[n] \in DOMAIN doc' /\ (n \notin moved' => doc'[names'[n]].name = n)
    <3>1. names[n] \in DOMAIN doc /\ (n \notin moved => doc[names[n]].name = n)
      BY <1>2, <2>2 DEF IndexHolds
    <3> QED BY <1>1, <2>2, <3>1
  <2>4. ASSUME NEW x \in DOMAIN doc', ~ doc'[x].deleted, doc'[x].name \notin moved',
               doc'[x].name \notin given'
        PROVE  doc'[x].name \in DOMAIN names' /\ names'[doc'[x].name] = x
    <3>1. x # d /\ x \in DOMAIN doc /\ doc'[x] = doc[x]
      BY <1>1, <1>3, <2>4
    <3>2. doc[x].name \in DOMAIN names /\ names[doc[x].name] = x
      BY <1>1, <1>2, <2>4, <3>1 DEF IndexHolds
    <3> QED BY <2>2, <3>1, <3>2
  <2> QED BY <2>3, <2>4 DEF IndexHolds
<1>4. CASE ~ e.deleted
  <2>1. names' = Over(names, [n \in {e.name} |-> d])
    BY <1>4 DEF Put
  <2>2. /\ DOMAIN names' = DOMAIN names \union {e.name} /\ names'[e.name] = d
        /\ \A n \in DOMAIN names : n # e.name => names'[n] = names[n]
    BY <2>1 DEF Over
  <2>3. ASSUME NEW n \in DOMAIN names'
        PROVE  names'[n] \in DOMAIN doc' /\ (n \notin moved' => doc'[names'[n]].name = n)
    <3>1. CASE n = e.name
      BY <1>1, <2>2, <3>1
    <3>2. CASE n # e.name
      <4>1. n \in DOMAIN names /\ names'[n] = names[n]
        BY <2>2, <3>2
      <4>2. names[n] \in DOMAIN doc /\ (n \notin moved => doc[names[n]].name = n)
        BY <1>2, <4>1 DEF IndexHolds
      <4> QED BY <1>1, <4>1, <4>2
    <3> QED BY <3>1, <3>2
  <2>4. ASSUME NEW x \in DOMAIN doc', ~ doc'[x].deleted, doc'[x].name \notin moved',
               doc'[x].name \notin given'
        PROVE  doc'[x].name \in DOMAIN names' /\ names'[doc'[x].name] = x
    <3>1. CASE x = d
      BY <1>1, <2>2, <3>1
    <3>2. CASE x # d
      <4>1. x \in DOMAIN doc /\ doc'[x] = doc[x]
        BY <1>1, <3>2
      <4>2. doc[x].name \in DOMAIN names /\ names[doc[x].name] = x
        BY <1>1, <1>2, <2>4, <4>1 DEF IndexHolds
      <4>3. doc[x].name # e.name
        <5> SUFFICES ASSUME doc[x].name = e.name PROVE FALSE
          OBVIOUS
        <5>1. CASE d \notin DOMAIN doc
          <6>1. given' = given \union {e.name}
            BY <4>2, <5>1 DEF Put
          <6> QED BY <2>4, <4>1, <6>1
        <5>2. CASE d \in DOMAIN doc
          <6>1. e.name = doc[d].name
            BY <1>1, <2>4, <4>1, <5>2
          <6>2. ~ doc[d].deleted
            <7>1. d # Len(doc) + 1
              BY <5>2, SeqIsList DEF StoreHolds, IsList
            <7> QED BY <1>4, <7>1 DEF Change_OK
          <6>3. names[e.name] = d
            BY <1>1, <1>2, <2>4, <4>1, <5>2, <6>1, <6>2 DEF IndexHolds
          <6> QED BY <3>2, <4>2, <6>3
        <5> QED BY <5>1, <5>2
      <4> QED BY <2>2, <4>1, <4>2, <4>3
    <3> QED BY <3>1, <3>2
  <2> QED BY <2>3, <2>4 DEF IndexHolds
<1> QED BY <1>3, <1>4

\* The store's part, when every new change in the feed is one of d.
LEMMA PutKeepsStore ==
    ASSUME StoreHolds, NEW d, NEW e, Change_OK(d, e), Put(d, e), FeedKept,
           \A i \in DOMAIN feed' : i \in DOMAIN feed \/ (feed'[i].id = d /\ feed'[i].name = e.name)
    PROVE  StoreHolds'
<1>1. /\ d \in DOMAIN doc' /\ doc'[d] = e
      /\ DOMAIN doc' = DOMAIN doc \union {d}
      /\ \A x \in DOMAIN doc : x # d => doc'[x] = doc[x]
      /\ \A x \in DOMAIN doc :
            doc'[x].name = doc[x].name \/ (doc[x].name \in moved' /\ doc'[x].name \in moved')
      /\ IsList(doc') /\ moved \subseteq moved'
  BY PutFacts DEF Written
<1>2. IsEntry(e)
  BY DEF Change_OK
<1>3. \A x \in DOMAIN doc' : IsEntry(doc'[x])
  BY <1>1, <1>2 DEF StoreHolds
<1>4. IndexHolds'
  BY PutKeepsIndex
<1>5. ASSUME NEW i \in DOMAIN feed'
      PROVE  /\ feed'[i].id \in DOMAIN doc'
             /\ \/ feed'[i].name = doc'[feed'[i].id].name
                \/ feed'[i].name \in moved' /\ doc'[feed'[i].id].name \in moved'
  <2>1. CASE i \in DOMAIN feed
    <3>1. feed'[i] = feed[i]
      BY <2>1 DEF FeedKept
    <3>2. /\ feed[i].id \in DOMAIN doc
          /\ \/ feed[i].name = doc[feed[i].id].name
             \/ feed[i].name \in moved /\ doc[feed[i].id].name \in moved
      BY <2>1 DEF StoreHolds, Same
    <3> QED BY <1>1, <3>1, <3>2
  <2>2. CASE i \notin DOMAIN feed
    BY <1>1, <2>2
  <2> QED BY <2>1, <2>2
<1>6. IsList(feed')
  BY DEF FeedKept
<1> QED BY <1>1, <1>3, <1>4, <1>5, <1>6 DEF StoreHolds, Same

LEMMA EmitKeepsStore ==
    ASSUME StoreHolds, NEW d, NEW e, NEW kind, NEW set, Emits(d, e, kind, set)
    PROVE  StoreHolds'
<1> DEFINE c == ChangeOf(d, e, kind, set)
<1>1. c.id = d /\ c.name = e.name
  BY ChangeFacts
<1>2. Sent(c)
  BY EmitFacts
<1> HIDE DEF c
<1>3. \A i \in DOMAIN feed' : i \in DOMAIN feed \/ (feed'[i].id = d /\ feed'[i].name = e.name)
  BY <1>1, <1>2 DEF Sent
<1>4. Change_OK(d, e) /\ Put(d, e) /\ FeedKept
  BY <1>2 DEF Emits, emit_change, Sent
<1> QED BY <1>3, <1>4, PutKeepsStore

\* What was sent stays sent.
LEMMA FeedGrows ==
    ASSUME FeedKept, NEW b, InFeed(b)
    PROVE  InFeed(b)'
BY DEF FeedKept, InFeed

\* The queues' part.
LEMMA EmitKeepsQueues ==
    ASSUME StoreHolds, QueuesHold, NEW d, NEW e, NEW kind, NEW set, Emits(d, e, kind, set)
    PROVE  QueuesHold'
<1> DEFINE c == ChangeOf(d, e, kind, set)
<1>1. Sent(c)
  BY EmitFacts
<1>2. inbox' = [l \in Listeners |-> IF Subscribed(l) THEN Append(inbox[l], c) ELSE inbox[l]]
  BY DEF Emits, emit_change
<1> HIDE DEF c
<1>3. ASSUME NEW l \in Listeners
      PROVE  /\ IsList(inbox'[l])
             /\ \A i \in DOMAIN inbox'[l] : \E k \in DOMAIN feed' : feed'[k] = inbox'[l][i]
  <2>1. IsList(inbox[l]) /\ \A i \in DOMAIN inbox[l] : InFeed(inbox[l][i])
    BY DEF QueuesHold
  <2>2. \A i \in DOMAIN inbox[l] : \E k \in DOMAIN feed : feed[k] = inbox[l][i]
    BY <2>1 DEF InFeed
  <2>3. \A i \in DOMAIN inbox[l] : \E k \in DOMAIN feed' : feed'[k] = inbox[l][i]
    BY <1>1, <2>2 DEF Sent, FeedKept
  <2>4. CASE Subscribed(l)
    <3>1. inbox'[l] = Append(inbox[l], c)
      BY <1>2, <2>4
    <3>2. /\ IsList(inbox'[l]) /\ Len(inbox[l]) \in Nat
          /\ DOMAIN inbox[l] = 1..Len(inbox[l]) /\ DOMAIN inbox'[l] = 1..(Len(inbox[l]) + 1)
          /\ inbox'[l][Len(inbox[l]) + 1] = c
          /\ \A i \in DOMAIN inbox[l] : inbox'[l][i] = inbox[l][i]
      BY <2>1, <3>1, AppendList
    <3>3. \A i \in DOMAIN inbox'[l] : i \in DOMAIN inbox[l] \/ i = Len(inbox[l]) + 1
      BY <3>2
    <3>4. \E k \in DOMAIN feed' : feed'[k] = c
      BY <1>1 DEF Sent, InFeed
    <3>5. \A i \in DOMAIN inbox'[l] : \E k \in DOMAIN feed' : feed'[k] = inbox'[l][i]
      BY <2>3, <3>2, <3>3, <3>4
    <3> QED BY <3>2, <3>5
  <2>5. CASE ~ Subscribed(l)
    <3>1. inbox'[l] = inbox[l]
      BY <1>2, <2>5
    <3> QED BY <2>1, <2>3, <3>1
  <2> QED BY <2>4, <2>5
<1>4. inbox' = [l \in Listeners |-> inbox'[l]]
  BY <1>2
<1> QED BY <1>3, <1>4 DEF QueuesHold, InFeed

\* The records' part.
LEMMA PutKeepsRecords ==
    ASSUME RecordsHold, NEW d, NEW e, Written(d, e), FeedKept, NEW r \in published
    PROVE  RecordHolds(r)'
<1>2. RecordHolds(r)
  BY DEF RecordsHold
<1>3. Placed(r)'
  <2>1. Placed(r)
    BY <1>2 DEF RecordHolds
  <2>2. PICK s, i, n : s = r.source /\ i = r.id /\ n = r.rule
    OBVIOUS
  <2>3. /\ r = [id |-> i, rule |-> n, source |-> s]
        /\ i \in DOMAIN doc /\ s \in DOMAIN doc /\ doc[i].space \in DOMAIN doc
        /\ n.into \notin moved => doc[doc[i].space].name = n.into
        /\ doc[s].name \notin moved /\ doc[i].name \notin moved =>
              doc[i].name = target_name(n, doc[s].name)
    BY <2>1, <2>2 DEF Placed
  <2>4. /\ DOMAIN doc \subseteq DOMAIN doc' /\ moved \subseteq moved'
        /\ \A x \in DOMAIN doc :
             /\ doc'[x].space = doc[x].space
             /\ doc'[x].name = doc[x].name \/ (doc[x].name \in moved' /\ doc'[x].name \in moved')
    BY DEF Written
  <2>5. doc'[s].name \notin moved' /\ doc'[i].name \notin moved' =>
           doc'[i].name = target_name(n, doc'[s].name)
    <3> SUFFICES ASSUME doc'[s].name \notin moved', doc'[i].name \notin moved'
                 PROVE  doc'[i].name = target_name(n, doc'[s].name)
      OBVIOUS
    <3>1. doc'[s].name = doc[s].name /\ doc'[i].name = doc[i].name
      BY <2>3, <2>4
    <3>2. doc[i].name = target_name(n, doc[s].name)
      BY <2>3, <2>4, <3>1
    <3> QED BY <3>1, <3>2
  <2>6. doc'[i].space \in DOMAIN doc' /\ (n.into \notin moved' => doc'[doc'[i].space].name = n.into)
    BY <2>3, <2>4
  <2> QED BY <2>2, <2>3, <2>4, <2>5, <2>6 DEF Placed
<1>4. PICK i \in DOMAIN feed, j \in DOMAIN feed :
          /\ feed[i].id = r.source /\ Triggers(r.rule, feed[i])
          /\ feed[j].id = r.id /\ feed[j].action_kind = <<"init">>
          /\ DOMAIN feed[j].fields \subseteq r.rule.fields
          /\ \A f \in DOMAIN feed[j].fields :
                f \notin feed[i].dead /\ feed[j].fields[f] = feed[i].fields[f]
  BY <1>2 DEF RecordHolds
<1>5. i \in DOMAIN feed' /\ j \in DOMAIN feed' /\ feed'[i] = feed[i] /\ feed'[j] = feed[j]
  BY DEF FeedKept
<1>6. \E x, y \in DOMAIN feed' :
          /\ feed'[x].id = r.source /\ Triggers(r.rule, feed'[x])
          /\ feed'[y].id = r.id /\ feed'[y].action_kind = <<"init">>
          /\ DOMAIN feed'[y].fields \subseteq r.rule.fields
          /\ \A f \in DOMAIN feed'[y].fields :
                f \notin feed'[x].dead /\ feed'[y].fields[f] = feed'[x].fields[f]
  BY <1>4, <1>5
<1> QED BY <1>3, <1>6 DEF RecordHolds, Triggers

\* The part of the names that the read models have.
LEMMA PutKeepsView ==
    ASSUME ViewHolds, NEW d, NEW e, Written(d, e), view' = view
    PROVE  ViewHolds'
<1>1. \A x \in DOMAIN view.by_id : x \in DOMAIN doc'
  BY DEF ViewHolds, Written
<1>2. ASSUME NEW n \in DOMAIN view.by_name, n \notin moved'
      PROVE  doc'[view.by_name[n]].name = n
  <2>1. n \notin moved /\ view.by_name[n] \in DOMAIN doc /\ doc[view.by_name[n]].name = n
    BY <1>2 DEF ViewHolds, Written
  <2> QED BY <1>2, <2>1 DEF Written
<1>3. /\ \A x \in DOMAIN view.by_id : view.by_id[x].name \in DOMAIN view.by_name
      /\ \A n \in DOMAIN view.by_name :
            /\ view.by_name[n] \in DOMAIN view.by_id /\ n \in DOMAIN view.edges
            /\ view.by_id[view.by_name[n]].name = n =>
                  view.edges[n] = Edges(view.by_id[view.by_name[n]])
  BY DEF ViewHolds
<1> QED BY <1>1, <1>2, <1>3 DEF ViewHolds

\* The read models' part.
LEMMA EmitKeepsView ==
    ASSUME StoreHolds, ViewHolds, PhaseHolds, LatestHolds, QueuesHold,
           NEW d, NEW e, NEW kind, NEW set, Emits(d, e, kind, set),
           view' = view, phase' = phase, deployed' = deployed
    PROVE  ViewHolds' /\ PhaseHolds' /\ LatestHolds'
<1> DEFINE c == ChangeOf(d, e, kind, set)
           q == inbox["coordinator"]
<1>1. Written(d, e)
  BY EmitFacts
<1>0. c.id = d /\ from_change(c) = Snapshot(d, e)
  BY ChangeFacts
<1>2. /\ inbox' = [l \in Listeners |-> IF Subscribed(l) THEN Append(inbox[l], c) ELSE inbox[l]]
      /\ missed' = IF phase["coordinator"] = "primed" THEN missed \union {d} ELSE missed \ {d}
  BY DEF Emits, emit_change
<1> HIDE DEF c
<1>3. ViewHolds'
  BY <1>1, PutKeepsView
<1>4. inbox'["coordinator"] = IF phase["coordinator"] = "on" /\ "coordinator" \in deployed
                              THEN Append(q, c) ELSE q
  BY <1>2 DEF Subscribed, Listeners
<1>5. PhaseHolds'
  BY <1>4 DEF PhaseHolds
<1>6. IsList(q)
  BY DEF QueuesHold, Listeners
<1>7. LatestHolds'
  <2> SUFFICES ASSUME phase["coordinator"] # "off", NEW x \in DOMAIN doc' \ missed'
               PROVE  Latest(x)'
    BY DEF LatestHolds, Latest
  <2>1. CASE phase["coordinator"] = "primed"
    <3>1. x # d /\ x \in DOMAIN doc \ missed /\ doc'[x] = doc[x] /\ inbox'["coordinator"] = q
      BY <1>1, <1>2, <1>4, <2>1 DEF Written
    <3>2. Latest(x)
      BY <3>1 DEF LatestHolds
    <3> QED BY <3>1, <3>2 DEF Latest
  <2>2. CASE phase["coordinator"] = "on"
    <3>1. inbox'["coordinator"] = Append(q, c)
      BY <1>4, <2>2 DEF PhaseHolds
    <3>2. /\ Len(q) \in Nat
          /\ DOMAIN q = 1..Len(q) /\ DOMAIN Append(q, c) = 1..(Len(q) + 1)
          /\ Append(q, c)[Len(q) + 1] = c
          /\ \A i \in DOMAIN q : Append(q, c)[i] = q[i]
      BY <1>6, AppendList
    <3>3. CASE x = d
      <4>1. doc'[x] = e
        BY <1>1, <3>3 DEF Written
      <4>2. /\ Len(q) + 1 \in DOMAIN Append(q, c)
            /\ \A j \in DOMAIN Append(q, c) : ~ (j > Len(q) + 1)
        BY <3>2
      <4>3. /\ Append(q, c)[Len(q) + 1].id = x
            /\ from_change(Append(q, c)[Len(q) + 1]) = Snapshot(x, doc'[x])
        BY <4>1, <3>2, <3>3, <1>0
      <4> QED BY <3>1, <4>2, <4>3 DEF Latest
    <3>4. CASE x # d
      <4>1. x \in DOMAIN doc \ missed /\ doc'[x] = doc[x]
        BY <1>1, <1>2, <2>2, <3>4 DEF Written
      <4>2. Latest(x)
        BY <4>1 DEF LatestHolds
      <4>3. /\ \A i \in DOMAIN q : i \in DOMAIN Append(q, c)
            /\ \A i \in DOMAIN Append(q, c) : i \in DOMAIN q \/ Append(q, c)[i].id # x
        BY <3>2, <3>4, <1>0
      <4>4. CASE \E i \in DOMAIN q :
                    /\ q[i].id = x /\ from_change(q[i]) = Snapshot(x, doc[x])
                    /\ \A j \in DOMAIN q : j > i => q[j].id # x
        <5>1. PICK i \in DOMAIN q :
                    /\ q[i].id = x /\ from_change(q[i]) = Snapshot(x, doc[x])
                    /\ \A j \in DOMAIN q : j > i => q[j].id # x
          BY <4>4
        <5>2. /\ i \in DOMAIN Append(q, c) /\ Append(q, c)[i] = q[i]
              /\ \A j \in DOMAIN Append(q, c) : j > i => Append(q, c)[j].id # x
          BY <5>1, <4>3, <3>2
        <5> QED BY <3>1, <4>1, <5>1, <5>2 DEF Latest
      <4>5. CASE /\ \A i \in DOMAIN q : q[i].id # x
                 /\ x \in DOMAIN view.by_id /\ view.by_id[x] = Snapshot(x, doc[x])
        <5>1. \A i \in DOMAIN Append(q, c) : Append(q, c)[i].id # x
          BY <4>5, <4>3, <3>2
        <5> QED BY <3>1, <4>1, <4>5, <5>1 DEF Latest
      <4> QED BY <4>2, <4>4, <4>5 DEF Latest
    <3> QED BY <3>3, <3>4
  <2> QED BY <2>1, <2>2 DEF PhaseHolds
<1> QED BY <1>3, <1>5, <1>7

\* A change of a document by whatever leaves the projector at its work.
LEMMA EmitKeeps ==
    ASSUME FeedInv, NEW d, NEW e, NEW kind, NEW set, Emits(d, e, kind, set),
           UNCHANGED <<view, phase, deployed, rules, pub, published>>
    PROVE  FeedInv'
<1>1. StoreHolds' /\ QueuesHold' /\ ViewHolds' /\ PhaseHolds' /\ LatestHolds'
  BY EmitKeepsStore, EmitKeepsQueues, EmitKeepsView DEF FeedInv
<1>2. RecordsHold'
  <2>1. Written(d, e) /\ FeedKept
    BY EmitFacts DEF FeedInv, Sent
  <2> QED BY <2>1, PutKeepsRecords DEF FeedInv, RecordsHold
<1>3. FeedKept
  BY EmitFacts DEF FeedInv, Sent
<1>4. PubHolds'
  <2>1. rules' \subseteq Rules
    BY DEF FeedInv, PubHolds
  <2>2. CASE pub = <<>>
    BY <2>1, <2>2 DEF PubHolds
  <2>3. CASE pub # <<>>
    <3>1. PICK b, todo : /\ pub = <<[change |-> b, todo |-> todo]>>
                         /\ InFeed(b)
                         /\ IsList(todo) /\ todo # <<>>
                         /\ \A k \in DOMAIN todo : Triggers(todo[k], b)
      BY <2>3 DEF FeedInv, PubHolds
    <3>2. InFeed(b)'
      BY <1>3, <3>1, FeedGrows
    <3> QED BY <2>1, <3>1, <3>2 DEF PubHolds
  <2> QED BY <2>2, <2>3
<1> QED BY <1>1, <1>2, <1>4 DEF FeedInv

\* A new entry, and one that was changed.
LEMMA EntryOK ==
    ASSUME NEW w
    PROVE  Change_OK(Len(doc) + 1, Entry(w))
<1>1. IsEntry(Entry(w))
  BY DEF IsEntry, Entry
<1> QED BY <1>1 DEF Change_OK

LEMMA AfterOK ==
    ASSUME StoreHolds, NEW w, NEW d \in DOMAIN doc
    PROVE  Change_OK(d, After(doc[d], w))
<1>1. IsEntry(doc[d])
  BY DEF StoreHolds
<1> QED BY <1>1, AfterKeeps DEF Change_OK

LEMMA RecordsStand ==
    ASSUME RecordsHold, UNCHANGED <<doc, moved, feed, published>>
    PROVE  RecordsHold'
<1>1. ASSUME NEW r, RecordHolds(r) PROVE RecordHolds(r)'
  BY <1>1 DEF RecordHolds, Placed
<1> QED BY <1>1 DEF RecordsHold

\* The part of the state that the invariant is about.
shown == <<deployed, doc, names, given, moved, feed, published, missed, rules, pub, phase, view>>

LEMMA ShownStands ==
    ASSUME FeedInv, UNCHANGED <<shown, inbox>>
    PROVE  FeedInv'
<1>1. StoreHolds' /\ QueuesHold' /\ PubHolds'
  BY DEF FeedInv, StoreHolds, IndexHolds, Same, QueuesHold, PubHolds, shown, InFeed
<1>2. RecordsHold'
  BY RecordsStand DEF FeedInv, shown
<1>3. ViewHolds' /\ PhaseHolds' /\ LatestHolds'
  BY DEF FeedInv, ViewHolds, PhaseHolds, LatestHolds, Latest, shown
<1> QED BY <1>1, <1>2, <1>3 DEF FeedInv

\* A listener takes a change from its queue.
LEMMA TakeKeepsQueues ==
    ASSUME StoreHolds, QueuesHold, NEW l \in Listeners, inbox[l] # <<>>,
           inbox' = Take(l), feed' = feed
    PROVE  /\ QueuesHold' /\ inbox'[l] = Tail(inbox[l]) /\ InFeed(Head(inbox[l]))
           /\ \A m \in Listeners : m # l => inbox'[m] = inbox[m]
<1>1. /\ inbox' = [m \in Listeners |-> inbox'[m]] /\ inbox'[l] = Tail(inbox[l])
      /\ \A m \in Listeners : m # l => inbox'[m] = inbox[m]
  BY DEF Take, QueuesHold
<1>2. IsList(inbox[l]) /\ \A i \in DOMAIN inbox[l] : InFeed(inbox[l][i])
  BY DEF QueuesHold
<1> DEFINE q == inbox[l]
<1>3. /\ IsList(Tail(q)) /\ Head(q) = q[1] /\ 1 \in DOMAIN q
      /\ \A i \in DOMAIN Tail(q) : i + 1 \in DOMAIN q /\ Tail(q)[i] = q[i + 1]
  BY <1>2, TailList
<1>4. ASSUME NEW m \in Listeners
      PROVE  /\ IsList(inbox'[m])
             /\ \A i \in DOMAIN inbox'[m] : \E k \in DOMAIN feed' : feed'[k] = inbox'[m][i]
  <2>1. CASE m = l
    <3>1. \A i \in DOMAIN Tail(q) : InFeed(Tail(q)[i])
      BY <1>2, <1>3
    <3>2. \A i \in DOMAIN Tail(q) : \E k \in DOMAIN feed : feed[k] = Tail(q)[i]
      BY <3>1 DEF InFeed
    <3>3. inbox'[m] = Tail(q)
      BY <1>1, <2>1
    <3> QED BY <1>3, <3>2, <3>3
  <2>2. CASE m # l
    BY <1>1, <2>2 DEF QueuesHold, InFeed
  <2> QED BY <2>1, <2>2
<1>5. QueuesHold'
  BY <1>1, <1>4 DEF QueuesHold, InFeed
<1>6. InFeed(Head(q))
  BY <1>2, <1>3
<1> QED BY <1>1, <1>5, <1>6

\* The processors, the projections and the job queue leave the read models be.
LEMMA TakeKeeps ==
    ASSUME FeedInv, NEW l \in Listeners, l # "coordinator", inbox[l] # <<>>,
           inbox' = Take(l), UNCHANGED <<deployed, doc, names, given, moved, feed, published, missed,
                                       rules, phase, view>>
    PROVE  /\ StoreHolds' /\ QueuesHold' /\ RecordsHold'
           /\ ViewHolds' /\ PhaseHolds' /\ LatestHolds' /\ (pub' = pub => PubHolds')
<1>1. QueuesHold' /\ inbox'["coordinator"] = inbox["coordinator"]
  BY TakeKeepsQueues DEF FeedInv, Listeners
<1>2. StoreHolds' /\ (pub' = pub => PubHolds')
  BY DEF FeedInv, StoreHolds, IndexHolds, Same, PubHolds, InFeed
<1>3. RecordsHold'
  BY RecordsStand DEF FeedInv
<1>4. ViewHolds' /\ PhaseHolds' /\ LatestHolds'
  BY <1>1 DEF FeedInv, ViewHolds, PhaseHolds, LatestHolds, Latest
<1> QED BY <1>1, <1>2, <1>3, <1>4

-----------------------------------------------------------------------------
(* The actions. *)

LEMMA ChangeKeeps ==
    ASSUME FeedInv, NEW w, Change(w) PROVE FeedInv'
<1>1. UNCHANGED <<view, phase, deployed, rules, pub, published>>
  BY DEF Change, viewVars, projVars
<1>2. PICK d, e, kind, set : Emits(d, e, kind, set)
  <2>1. CASE emit_change(Len(doc) + 1, Entry(w), w.kind, w.set)
    <3>1. Emits(Len(doc) + 1, Entry(w), w.kind, w.set)
      BY <2>1, EntryOK DEF Emits
    <3> QED BY <3>1
  <2>2. CASE \E d \in DOMAIN doc : emit_change(d, After(doc[d], w), w.kind, w.set)
    <3>1. PICK d \in DOMAIN doc : emit_change(d, After(doc[d], w), w.kind, w.set)
      BY <2>2
    <3>2. Emits(d, After(doc[d], w), w.kind, w.set)
      BY <3>1, AfterOK DEF Emits, FeedInv
    <3> QED BY <3>2
  <2> QED BY <2>1, <2>2 DEF Change
<1> QED BY <1>1, <1>2, EmitKeeps

\* A document changes and nobody is told: the read models have missed it.
LEMMA RefoldKeeps ==
    ASSUME FeedInv, NEW w, Refold(w) PROVE FeedInv'
<1>1. UNCHANGED <<view, phase, deployed, rules, pub, published, feed, inbox>>
  BY DEF Refold, viewVars, projVars
<1>2. PICK d \in DOMAIN doc : Put(d, After(doc[d], w)) /\ missed' = missed \union {d}
  BY DEF Refold
<1>3. PICK e : e = After(doc[d], w) /\ Put(d, e) /\ Change_OK(d, e)
  BY <1>2, AfterOK DEF FeedInv
<1>4. Written(d, e)
  BY <1>3, PutFacts DEF FeedInv
<1>5. FeedKept
  BY <1>1 DEF FeedKept, FeedInv, StoreHolds
<1>6. StoreHolds'
  BY <1>1, <1>3, <1>5, PutKeepsStore DEF FeedInv
<1>7. RecordsHold'
  BY <1>1, <1>4, <1>5, PutKeepsRecords DEF FeedInv, RecordsHold
<1>8. ViewHolds'
  BY <1>1, <1>4, PutKeepsView DEF FeedInv
<1>9. QueuesHold' /\ PubHolds' /\ PhaseHolds'
  BY <1>1 DEF FeedInv, QueuesHold, PubHolds, PhaseHolds, InFeed
<1>10. LatestHolds'
  <2> SUFFICES ASSUME phase["coordinator"] # "off", NEW x \in DOMAIN doc' \ missed'
               PROVE  Latest(x)'
    BY <1>1 DEF LatestHolds, Latest
  <2>1. x \in DOMAIN doc \ missed /\ doc'[x] = doc[x]
    BY <1>2, <1>4 DEF Written
  <2>2. Latest(x)
    BY <2>1 DEF FeedInv, LatestHolds
  <2> QED BY <1>1, <2>1, <2>2 DEF Latest
<1> QED BY <1>6, <1>7, <1>8, <1>9, <1>10 DEF FeedInv

LEMMA CreateDocKeeps ==
    ASSUME FeedInv, CreateDoc PROVE FeedInv'
<1>1. UNCHANGED <<view, phase, deployed, rules, pub, published>>
  BY DEF CreateDoc, viewVars, projVars
<1>2. PICK r, name :
         \/ emit_change(Len(doc) + 1,
                        Entry([name |-> name, model |-> r.model, set |-> r.fields, space |-> NoDoc]),
                        <<"init">>, r.fields)
         \/ UNCHANGED <<doc, names, given, moved, feed, inbox, missed>>
  BY DEF CreateDoc
<1>3. CASE emit_change(Len(doc) + 1,
                       Entry([name |-> name, model |-> r.model, set |-> r.fields, space |-> NoDoc]),
                       <<"init">>, r.fields)
  <2>1. PICK w : w = [name |-> name, model |-> r.model, set |-> r.fields, space |-> NoDoc]
    OBVIOUS
  <2>2. emit_change(Len(doc) + 1, Entry(w), <<"init">>, r.fields)
    BY <1>3, <2>1
  <2>3. Emits(Len(doc) + 1, Entry(w), <<"init">>, r.fields)
    BY <2>2, EntryOK DEF Emits
  <2>4. PICK d, e, kind, set : Emits(d, e, kind, set)
    BY <2>3
  <2> QED BY <1>1, <2>4, EmitKeeps
<1>4. CASE UNCHANGED <<doc, names, given, moved, feed, inbox, missed>>
  BY <1>1, <1>4, ShownStands DEF shown
<1> QED BY <1>2, <1>3, <1>4

LEMMA InstallKeeps ==
    ASSUME FeedInv, NEW p \in Rules, Install(p) PROVE FeedInv'
<1>1. rules' \subseteq Rules /\ UNCHANGED <<deployed, doc, names, given, moved, feed, published, missed, pub, phase, view, inbox>>
  BY DEF Install, storeVars, viewVars, FeedInv, PubHolds
<1>2. StoreHolds' /\ QueuesHold' /\ PubHolds'
  BY <1>1 DEF FeedInv, StoreHolds, IndexHolds, Same, QueuesHold, PubHolds, InFeed
<1>3. RecordsHold'
  BY <1>1, RecordsStand DEF FeedInv
<1>4. ViewHolds' /\ PhaseHolds' /\ LatestHolds'
  BY <1>1 DEF FeedInv, ViewHolds, PhaseHolds, LatestHolds, Latest
<1> QED BY <1>2, <1>3, <1>4 DEF FeedInv

LEMMA TakeForRulesKeeps ==
    ASSUME FeedInv, TakeForRules PROVE FeedInv'
<1>1. /\ inbox["projector"] # <<>> /\ inbox' = Take("projector")
      /\ UNCHANGED <<deployed, doc, names, given, moved, feed, published, missed, rules, phase, view>>
  BY DEF TakeForRules, storeVars, viewVars
<1>2. "projector" \in Listeners /\ "projector" # "coordinator"
  BY DEF Listeners
<1>3. /\ StoreHolds' /\ QueuesHold' /\ RecordsHold'
      /\ ViewHolds' /\ PhaseHolds' /\ LatestHolds'
  BY <1>1, <1>2, TakeKeeps
<1>4. PICK c, S, todo :
         /\ c = Head(inbox["projector"]) /\ S = {p \in rules : Triggers(p, c)} /\ todo = SetToSeq(S)
         /\ pub' = IF todo = <<>> THEN <<>> ELSE <<[change |-> c, todo |-> todo]>>
  BY DEF TakeForRules
<1>5. InFeed(c)
  BY <1>1, <1>2, <1>4, TakeKeepsQueues DEF FeedInv
<1>6. IsFiniteSet(S)
  BY <1>4, RulesAssumption, FS_Subset DEF FeedInv, PubHolds
<1>7. todo \in [1..Cardinality(S) -> S] /\ Cardinality(S) \in Nat
  BY <1>4, <1>6, SetToSeqLists
<1>8. todo \in Seq(S)
  BY <1>7
<1>9. IsList(todo) /\ \A k \in DOMAIN todo : Triggers(todo[k], c)
  <2>1. IsList(todo) /\ \A k \in DOMAIN todo : todo[k] \in S
    BY <1>8, SeqIsList
  <2> QED BY <1>4, <2>1
<1>10. PubHolds'
  BY <1>1, <1>4, <1>5, <1>9 DEF PubHolds, InFeed, FeedInv
<1> QED BY <1>3, <1>10 DEF FeedInv

\* The record that Project publishes.
LEMMA ProjectKeeps ==
    ASSUME FeedInv, Project PROVE FeedInv'
<1>1. UNCHANGED <<view, phase, deployed, rules>> /\ pub # <<>>
  BY DEF Project, viewVars
<1>2. PICK c, todo : /\ pub = <<[change |-> c, todo |-> todo]>>
                     /\ InFeed(c)
                     /\ IsList(todo) /\ todo # <<>>
                     /\ \A k \in DOMAIN todo : Triggers(todo[k], c)
  BY <1>1 DEF FeedInv, PubHolds
<1>3. /\ IsList(Tail(todo)) /\ Len(todo) \in Nat /\ 1 \in DOMAIN todo
      /\ DOMAIN Tail(todo) = 1..(Len(todo) - 1)
      /\ \A k \in DOMAIN Tail(todo) : k + 1 \in DOMAIN todo /\ Tail(todo)[k] = todo[k + 1]
  BY <1>2, TailList
<1>4. pub' = IF Len(todo) = 1 THEN <<>> ELSE <<[change |-> c, todo |-> Tail(todo)]>>
  <2> DEFINE h == [change |-> c, todo |-> todo]
  <2>1. pub[1] = h
    BY <1>2
  <2>2. pub[1].todo = todo
    BY <2>1
  <2>3. \A t : [h EXCEPT !.todo = t] = [change |-> c, todo |-> t]
    OBVIOUS
  <2>4. [pub[1] EXCEPT !.todo = Tail(@)] = [change |-> c, todo |-> Tail(todo)]
    <3> HIDE DEF h
    <3> QED BY <2>1, <2>2, <2>3
  <2> QED BY <2>2, <2>4 DEF Project
<1>5. ASSUME InFeed(c)' PROVE PubHolds'
  <2>1. rules' \subseteq Rules
    BY <1>1 DEF FeedInv, PubHolds
  <2>2. CASE Len(todo) = 1
    BY <1>4, <2>1, <2>2 DEF PubHolds
  <2>3. CASE Len(todo) # 1
    <3>1. Tail(todo) # <<>>
      <4>1. DOMAIN todo = 1..Len(todo)
        BY <1>2, TailList
      <4>2. 1 \in DOMAIN Tail(todo)
        BY <1>3, <2>3, <4>1
      <4> QED BY <4>2, EmptyIsList
    <3>2. \A k \in DOMAIN Tail(todo) : Triggers(Tail(todo)[k], c)
      BY <1>2, <1>3
    <3>3. pub' = <<[change |-> c, todo |-> Tail(todo)]>>
      BY <1>4, <2>3
    <3> QED BY <1>3, <1>5, <2>1, <3>1, <3>2, <3>3 DEF PubHolds
  <2> QED BY <2>2, <2>3
<1>6. PICK p, name, body :
         /\ p = todo[1] /\ name = target_name(p, c.name) /\ body = payload(p, c)
         /\ \/ \E space \in get(p.into) :
                 /\ emit_change(Len(doc) + 1,
                                Entry([name |-> name, model |-> p.to, set |-> body, space |-> space]),
                                <<"init">>, body)
                 /\ published' = published \union {[id |-> Len(doc) + 1, rule |-> p, source |-> c.id]}
            \/ UNCHANGED storeVars /\ UNCHANGED inbox
  <2>1. pub[1] = [change |-> c, todo |-> todo]
    BY <1>2
  <2>2. pub[1].change = c /\ pub[1].todo = todo
    BY <2>1
  <2>3. \E b \in {c}, p \in {todo[1]} :
          \E name \in {target_name(p, b.name)}, body \in {payload(p, b)} :
             \/ \E space \in get(p.into) :
                  /\ CanCreate(name)
                  /\ emit_change(Len(doc) + 1,
                                 Entry([name |-> name, model |-> p.to, set |-> body, space |-> space]),
                                 <<"init">>, body)
                  /\ published' = published \union {[id |-> Len(doc) + 1, rule |-> p, source |-> b.id]}
             \/ UNCHANGED storeVars /\ UNCHANGED inbox
    BY <2>2, Zenon DEF Project
  <2> QED BY <2>3, Zenon
<1>7. CASE UNCHANGED storeVars /\ UNCHANGED inbox
  <2>1. UNCHANGED <<doc, names, given, moved, feed, published, missed, inbox>>
    BY <1>7 DEF storeVars
  <2>2. PubHolds'
    BY <1>2, <1>5, <2>1 DEF InFeed
  <2>3. StoreHolds' /\ QueuesHold'
    BY <2>1 DEF FeedInv, StoreHolds, IndexHolds, Same, QueuesHold, InFeed
  <2>4. RecordsHold'
    BY <2>1, RecordsStand DEF FeedInv
  <2>5. ViewHolds' /\ PhaseHolds' /\ LatestHolds'
    BY <1>1, <2>1 DEF FeedInv, ViewHolds, PhaseHolds, LatestHolds, Latest
  <2> QED BY <2>2, <2>3, <2>4, <2>5 DEF FeedInv
<1>8. CASE \E space \in get(p.into) :
             /\ emit_change(Len(doc) + 1,
                            Entry([name |-> name, model |-> p.to, set |-> body, space |-> space]),
                            <<"init">>, body)
             /\ published' = published \union {[id |-> Len(doc) + 1, rule |-> p, source |-> c.id]}
  <2>0. PICK space \in get(p.into) :
             /\ emit_change(Len(doc) + 1,
                            Entry([name |-> name, model |-> p.to, set |-> body, space |-> space]),
                            <<"init">>, body)
             /\ published' = published \union {[id |-> Len(doc) + 1, rule |-> p, source |-> c.id]}
    BY <1>8
  <2>1. PICK d, w, e :
           /\ d = Len(doc) + 1 /\ e = Entry(w)
           /\ w = [name |-> name, model |-> p.to, set |-> body, space |-> space]
    OBVIOUS
  <2>2. /\ emit_change(d, e, <<"init">>, body)
        /\ published' = published \union {[id |-> d, rule |-> p, source |-> c.id]}
    BY <2>0, <2>1
  <2>3. Emits(d, e, <<"init">>, body)
    BY <2>1, <2>2, EntryOK DEF Emits
  <2>4. StoreHolds' /\ QueuesHold' /\ ViewHolds' /\ PhaseHolds' /\ LatestHolds'
    BY <1>1, <2>3, EmitKeepsStore, EmitKeepsQueues, EmitKeepsView DEF FeedInv
  <2>5. PICK b : b = ChangeOf(d, e, <<"init">>, body) /\ Written(d, e) /\ Sent(b)
    BY <2>3, EmitFacts DEF FeedInv
  <2>6. PubHolds'
    BY <1>2, <1>5, <2>5, FeedGrows DEF Sent
  <2>7. \A r \in published : RecordHolds(r)'
    BY <2>5, PutKeepsRecords DEF FeedInv, Sent
  <2>8. PICK r : r = [id |-> d, rule |-> p, source |-> c.id]
    OBVIOUS
  <2>9. r.id = d /\ r.rule = p /\ r.source = c.id
    BY <2>8
  <2>10. Placed(r)'
    <3>1. PICK i \in DOMAIN feed : feed[i] = c
      BY <1>2 DEF InFeed
    <3>2. c.id \in DOMAIN doc /\ (c.name = doc[c.id].name \/ (c.name \in moved /\ doc[c.id].name \in moved))
      BY <3>1 DEF FeedInv, StoreHolds, Same
    <3>3. space \in DOMAIN doc /\ (p.into \notin moved => doc[space].name = p.into)
      BY <2>0 DEF get, FeedInv, StoreHolds, IndexHolds
    <3>4. d \notin DOMAIN doc
      BY <2>1, SeqIsList DEF FeedInv, StoreHolds, IsList
    <3>5. doc'[d].name = name /\ doc'[d].space = space /\ d \in DOMAIN doc'
      BY <2>1, <2>5 DEF Written, Entry
    <3>6. /\ \A x \in DOMAIN doc : x \in DOMAIN doc' /\ doc'[x] = doc[x]
          /\ moved \subseteq moved'
      BY <2>5, <3>4 DEF Written
    <3>7. doc'[c.id].name \notin moved' => doc'[d].name = target_name(p, doc'[c.id].name)
      BY <1>6, <3>2, <3>5, <3>6
    <3>8. doc'[d].space \in DOMAIN doc' /\ (p.into \notin moved' => doc'[doc'[d].space].name = p.into)
      BY <3>3, <3>5, <3>6
    <3> QED BY <2>8, <2>9, <3>2, <3>5, <3>6, <3>7, <3>8 DEF Placed
  <2>11. RecordHolds(r)'
    <3>1. PICK i \in DOMAIN feed : feed[i] = c
      BY <1>2 DEF InFeed
    <3>3. i \in DOMAIN feed' /\ feed'[i] = c
      BY <2>5, <3>1 DEF Sent, FeedKept
    <3>4. PICK j \in DOMAIN feed' : feed'[j] = b
      BY <2>5 DEF Sent, InFeed
    <3>5. b.id = d /\ b.fields = body /\ b.action_kind = <<"init">>
      BY <2>1, <2>5, ChangeFacts DEF Entry
    <3>6. DOMAIN body \subseteq p.fields /\ \A f \in DOMAIN body : f \notin c.dead /\ body[f] = c.fields[f]
      BY <1>6 DEF payload
    <3>7. Triggers(p, c)
      BY <1>2, <1>3, <1>6
    <3>11. \E x, y \in DOMAIN feed' :
              /\ feed'[x].id = r.source /\ Triggers(r.rule, feed'[x])
              /\ feed'[y].id = r.id /\ feed'[y].action_kind = <<"init">>
              /\ DOMAIN feed'[y].fields \subseteq r.rule.fields
              /\ \A f \in DOMAIN feed'[y].fields :
                    f \notin feed'[x].dead /\ feed'[y].fields[f] = feed'[x].fields[f]
      BY <2>9, <3>3, <3>4, <3>5, <3>6, <3>7
    <3> QED BY <2>10, <3>11 DEF RecordHolds, Triggers
  <2>12. RecordsHold'
    BY <2>2, <2>7, <2>8, <2>11 DEF RecordsHold
  <2> QED BY <2>4, <2>6, <2>12 DEF FeedInv
<1> QED BY <1>6, <1>7, <1>8

LEMMA PrimeKeeps ==
    ASSUME FeedInv, Prime PROVE FeedInv'
<1>1. /\ UNCHANGED <<deployed, doc, names, given, moved, feed, published, inbox, rules, pub>> /\ missed' = {}
      /\ "coordinator" \in deployed /\ phase["coordinator"] = "off"
      /\ phase' = [phase EXCEPT !["coordinator"] = "primed"]
  BY DEF Prime, projVars
<1>2. PICK last \in [{doc[d].name : d \in DOMAIN doc} -> DOMAIN doc] :
         (\A n \in DOMAIN last : doc[last[n]].name = n) /\ view' = Primed(last)
  BY DEF Prime, Indexes
<1>3. /\ view'.by_id = [d \in DOMAIN doc |-> Snapshot(d, doc[d])]
      /\ view'.by_name = last
      /\ view'.edges = [n \in DOMAIN last |-> Edges(Snapshot(last[n], doc[last[n]]))]
  BY <1>2 DEF Primed
<1>4. \A d \in DOMAIN doc : Snapshot(d, doc[d]).name = doc[d].name
  BY DEF Snapshot
<1>5. ViewHolds'
  BY <1>1, <1>2, <1>3, <1>4 DEF ViewHolds
<1>6. PhaseHolds' /\ inbox'["coordinator"] = <<>>
  BY <1>1 DEF FeedInv, PhaseHolds
<1>7. LatestHolds'
  BY <1>1, <1>3, <1>6, EmptyIsList DEF LatestHolds, Latest
<1>8. StoreHolds' /\ QueuesHold' /\ PubHolds'
  BY <1>1 DEF FeedInv, StoreHolds, IndexHolds, Same, QueuesHold, PubHolds, InFeed
<1>9. RecordsHold'
  BY <1>1, RecordsStand DEF FeedInv
<1> QED BY <1>5, <1>6, <1>7, <1>8, <1>9 DEF FeedInv

LEMMA SubscribeKeeps ==
    ASSUME FeedInv, NEW l \in {"coordinator", "manager"}, Subscribe(l) PROVE FeedInv'
<1>1. /\ UNCHANGED <<deployed, doc, names, given, moved, feed, published, missed, inbox, rules, pub, view>>
      /\ l \in deployed /\ phase' = [phase EXCEPT ![l] = "on"]
      /\ l = "coordinator" => phase[l] = "primed"
  BY DEF Subscribe, storeVars, projVars, viewVars
<1>2. PhaseHolds'
  BY <1>1 DEF FeedInv, PhaseHolds
<1>3. phase'["coordinator"] # "off" => phase["coordinator"] # "off"
  BY <1>1 DEF FeedInv, PhaseHolds
<1>4. ViewHolds' /\ LatestHolds'
  BY <1>1, <1>3 DEF FeedInv, ViewHolds, LatestHolds, Latest
<1>5. StoreHolds' /\ QueuesHold' /\ PubHolds'
  BY <1>1 DEF FeedInv, StoreHolds, IndexHolds, Same, QueuesHold, PubHolds, InFeed
<1>6. RecordsHold'
  BY <1>1, RecordsStand DEF FeedInv
<1> QED BY <1>2, <1>4, <1>5, <1>6 DEF FeedInv

LEMMA CoordinateKeeps ==
    ASSUME FeedInv, Coordinate PROVE FeedInv'
<1> DEFINE q == inbox["coordinator"]
<1>1. /\ q # <<>> /\ inbox' = Take("coordinator")
      /\ UNCHANGED <<deployed, doc, names, given, moved, feed, published, missed, rules, pub, phase>>
  BY DEF Coordinate, storeVars, projVars
<1>2. "coordinator" \in Listeners
  BY DEF Listeners
<1>3. QueuesHold' /\ inbox'["coordinator"] = Tail(q) /\ InFeed(Head(q))
  BY <1>1, <1>2, TakeKeepsQueues DEF FeedInv
<1>4. PICK c, s : /\ c = Head(q) /\ s = from_change(c) /\ view' = Applied(view, s)
                  /\ s.id = c.id /\ s.name = c.name
  <2>1. from_change(Head(q)).id = Head(q).id /\ from_change(Head(q)).name = Head(q).name
    BY DEF from_change, Snapshot
  <2> QED BY <2>1 DEF Coordinate
<1>5. s.id \in DOMAIN doc /\ (s.name \notin moved => doc[s.id].name = s.name)
  BY <1>3, <1>4 DEF InFeed, FeedInv, StoreHolds, Same
<1>6. /\ DOMAIN view'.by_id = DOMAIN view.by_id \union {s.id} /\ view'.by_id[s.id] = s
      /\ \A i \in DOMAIN view.by_id : i # s.id => view'.by_id[i] = view.by_id[i]
  <2>1. view'.by_id = Over(view.by_id, [i \in {s.id} |-> s])
    BY <1>4 DEF Applied
  <2> QED BY <2>1 DEF Over
<1>7. /\ DOMAIN view'.by_name = DOMAIN view.by_name \union {s.name} /\ view'.by_name[s.name] = s.id
      /\ \A n \in DOMAIN view.by_name : n # s.name => view'.by_name[n] = view.by_name[n]
  <2>1. view'.by_name = Over(view.by_name, [i \in {s.name} |-> s.id])
    BY <1>4 DEF Applied
  <2> QED BY <2>1 DEF Over
<1>8. /\ DOMAIN view'.edges = DOMAIN view.edges \union {s.name} /\ view'.edges[s.name] = Edges(s)
      /\ \A n \in DOMAIN view.edges : n # s.name => view'.edges[n] = view.edges[n]
  <2>1. view'.edges = Over(view.edges, [i \in {s.name} |-> Edges(s)])
    BY <1>4 DEF Applied
  <2> QED BY <2>1 DEF Over
<1>9. ViewHolds'
  <2>1. \A d \in DOMAIN view'.by_id :
           d \in DOMAIN doc /\ view'.by_id[d].name \in DOMAIN view'.by_name
    BY <1>5, <1>6, <1>7 DEF FeedInv, ViewHolds
  <2>2. ASSUME NEW n \in DOMAIN view'.by_name
        PROVE  /\ view'.by_name[n] \in DOMAIN view'.by_id
               /\ n \notin moved => doc[view'.by_name[n]].name = n
               /\ n \in DOMAIN view'.edges
               /\ view'.by_id[view'.by_name[n]].name = n =>
                     view'.edges[n] = Edges(view'.by_id[view'.by_name[n]])
    <3>1. CASE n = s.name
      BY <1>5, <1>6, <1>7, <1>8, <3>1
    <3>2. CASE n # s.name
      <4>1. PICK i : i = view.by_name[n]
        OBVIOUS
      <4>2. /\ view'.by_name[n] = i /\ view'.edges[n] = view.edges[n]
            /\ i \in DOMAIN view.by_id /\ n \in DOMAIN view.edges
            /\ n \notin moved => doc[i].name = n
            /\ view.by_id[i].name = n => view.edges[n] = Edges(view.by_id[i])
        BY <1>7, <1>8, <3>2, <4>1 DEF FeedInv, ViewHolds
      <4>3. view'.by_id[i].name = n => view'.by_id[i] = view.by_id[i]
        BY <1>6, <3>2, <4>2
      <4>4. view'.by_id[i].name = n => view'.edges[n] = Edges(view'.by_id[i])
        BY <4>2, <4>3
      <4> QED BY <1>6, <1>8, <4>2, <4>4
    <3> QED BY <3>1, <3>2
  <2> QED BY <1>1, <2>1, <2>2 DEF ViewHolds
<1>10. PhaseHolds'
  BY <1>1 DEF FeedInv, PhaseHolds
<1>11. /\ DOMAIN q = 1..Len(q) /\ Len(q) \in Nat /\ DOMAIN Tail(q) = 1..(Len(q) - 1)
       /\ Head(q) = q[1] /\ 1 \in DOMAIN q
       /\ \A i \in DOMAIN Tail(q) : i + 1 \in DOMAIN q /\ Tail(q)[i] = q[i + 1]
  <2>1. IsList(q)
    BY <1>2 DEF FeedInv, QueuesHold
  <2> QED BY <1>1, <2>1, TailList
<1>12. LatestHolds'
  <2> SUFFICES ASSUME phase["coordinator"] # "off", NEW x \in DOMAIN doc \ missed
               PROVE  Latest(x)'
    BY <1>1 DEF LatestHolds
  <2>1. Latest(x)
    BY DEF FeedInv, LatestHolds
  <2>2. CASE \E i \in DOMAIN q :
                /\ q[i].id = x /\ from_change(q[i]) = Snapshot(x, doc[x])
                /\ \A j \in DOMAIN q : j > i => q[j].id # x
    <3>1. PICK i \in DOMAIN q :
                /\ q[i].id = x /\ from_change(q[i]) = Snapshot(x, doc[x])
                /\ \A j \in DOMAIN q : j > i => q[j].id # x
      BY <2>2
    <3>2. CASE i = 1
      <4>1. \A j \in DOMAIN Tail(q) : Tail(q)[j].id # x
        BY <1>11, <3>1, <3>2
      <4>2. s.id = x /\ s = Snapshot(x, doc[x])
        BY <1>4, <1>11, <3>1, <3>2
      <4> QED BY <1>1, <1>3, <1>6, <4>1, <4>2 DEF Latest
    <3>3. CASE i # 1
      <4>1. i - 1 \in DOMAIN Tail(q) /\ Tail(q)[i - 1] = q[i]
        BY <1>11, <3>3
      <4>2. \A j \in DOMAIN Tail(q) : j > i - 1 => Tail(q)[j].id # x
        BY <1>11, <3>1, <3>3
      <4>3. \E k \in DOMAIN Tail(q) :
                /\ Tail(q)[k].id = x /\ from_change(Tail(q)[k]) = Snapshot(x, doc[x])
                /\ \A j \in DOMAIN Tail(q) : j > k => Tail(q)[j].id # x
        BY <3>1, <4>1, <4>2
      <4> QED BY <1>1, <1>3, <4>3 DEF Latest
    <3> QED BY <3>2, <3>3
  <2>3. CASE /\ \A i \in DOMAIN q : q[i].id # x
             /\ x \in DOMAIN view.by_id /\ view.by_id[x] = Snapshot(x, doc[x])
    <3>1. \A j \in DOMAIN Tail(q) : Tail(q)[j].id # x
      BY <1>11, <2>3
    <3>2. s.id # x
      BY <1>4, <1>11, <2>3
    <3>3. x \in DOMAIN view'.by_id /\ view'.by_id[x] = Snapshot(x, doc[x])
      BY <1>6, <2>3, <3>2
    <3> QED BY <1>1, <1>3, <3>1, <3>3 DEF Latest
  <2> QED BY <2>1, <2>2, <2>3 DEF Latest
<1>13. StoreHolds' /\ PubHolds'
  BY <1>1 DEF FeedInv, StoreHolds, IndexHolds, Same, PubHolds, InFeed
<1>14. RecordsHold'
  BY <1>1, RecordsStand DEF FeedInv
<1> QED BY <1>3, <1>9, <1>10, <1>12, <1>13, <1>14 DEF FeedInv

LEMMA NothingInView == DOMAIN NoView.by_id = {} /\ DOMAIN NoView.by_name = {}
BY EmptyIsList DEF NoView

LEMMA RestartKeeps ==
    ASSUME FeedInv, NEW torn, Restart(torn) PROVE FeedInv'
<1>1. /\ UNCHANGED <<deployed, doc, moved, feed, published, rules>> /\ pub' = <<>>
      /\ inbox' = [l \in Listeners |-> <<>>] /\ view' = NoView
      /\ phase' = [l \in {"coordinator", "manager"} |-> "off"]
  BY DEF Restart
<1>0. IndexHolds'
  <2>1. /\ names' \in [{doc[d].name : d \in DOMAIN doc} -> DOMAIN doc]
        /\ \A n \in DOMAIN names' : doc[names'[n]].name = n
    BY DEF Restart, Indexes
  <2>2. ASSUME NEW d \in DOMAIN doc, doc[d].name \notin given'
        PROVE  doc[d].name \in DOMAIN names' /\ names'[doc[d].name] = d
    <3>1. PICK n, x : n = doc[d].name /\ x = names'[n]
      OBVIOUS
    <3>2. n \in DOMAIN names' /\ x \in DOMAIN doc /\ doc[x].name = n
      BY <2>1, <3>1
    <3>3. x # d => n \in given'
      BY <3>1, <3>2 DEF Restart
    <3> QED BY <2>2, <3>1, <3>2, <3>3
  <2>3. \A n \in DOMAIN names' : names'[n] \in DOMAIN doc
    BY <2>1
  <2> QED BY <1>1, <2>1, <2>2, <2>3 DEF IndexHolds
<1>2. StoreHolds' /\ PubHolds'
  BY <1>0, <1>1 DEF FeedInv, StoreHolds, Same, PubHolds
<1>3. QueuesHold'
  BY <1>1, EmptyIsList DEF QueuesHold
<1>4. RecordsHold'
  BY <1>1, RecordsStand DEF FeedInv
<1>5. ViewHolds' /\ PhaseHolds' /\ LatestHolds'
  BY <1>1, NothingInView DEF ViewHolds, PhaseHolds, LatestHolds, Listeners
<1> QED BY <1>2, <1>3, <1>4, <1>5 DEF FeedInv

LEMMA InitHolds == Init => FeedInv
<1> SUFFICES ASSUME Init PROVE FeedInv
  OBVIOUS
<1>1. /\ doc = [i \in DOMAIN Standing |-> Entry(Standing[i])] /\ feed = <<>> /\ published = {}
      /\ inbox = [l \in Listeners |-> <<>>] /\ rules = {} /\ pub = <<>> /\ view = NoView
      /\ phase = [l \in {"coordinator", "manager"} |-> "off"]
  BY DEF Init
<1>2. Len(Standing) \in Nat /\ DOMAIN Standing = 1..Len(Standing)
  BY StandingAssumption, SeqIsList
<1>3. DOMAIN doc = DOMAIN Standing /\ \A d \in DOMAIN doc : doc[d] = Entry(Standing[d])
  BY <1>1
<1>4. \A d \in DOMAIN doc : IsEntry(doc[d]) /\ doc[d].name = Standing[d].name
  <2>1. \A w : IsEntry(Entry(w)) /\ Entry(w).name = w.name
    BY DEF IsEntry, Entry
  <2> QED BY <1>3, <2>1
<1>5. IsList(doc)
  <2>1. doc \in [1..Len(Standing) -> Range(doc)]
    BY <1>1, <1>2 DEF Range
  <2>2. doc \in Seq(Range(doc))
    BY <1>2, <2>1
  <2> QED BY <2>2 DEF IsList
<1>6. StoreHolds
  <2>1. names = [n \in {Standing[i].name : i \in DOMAIN Standing} |->
                   CHOOSE i \in DOMAIN Standing : Standing[i].name = n]
    BY DEF Init
  <2>2. ASSUME NEW n \in DOMAIN names
        PROVE  names[n] \in DOMAIN Standing /\ Standing[names[n]].name = n
    <3>1. \E i \in DOMAIN Standing : Standing[i].name = n
      BY <2>1, <2>2
    <3>2. names[n] = CHOOSE i \in DOMAIN Standing : Standing[i].name = n
      BY <2>1
    <3> QED BY <3>1, <3>2
  <2>3. ASSUME NEW d \in DOMAIN Standing
        PROVE  Standing[d].name \in DOMAIN names /\ names[Standing[d].name] = d
    <3>1. Standing[d].name \in DOMAIN names
      BY <2>1
    <3> QED BY <2>2, <3>1, StandingAssumption
  <2>4. IndexHolds
    BY <1>3, <1>4, <2>2, <2>3 DEF IndexHolds
  <2> QED BY <1>1, <1>4, <1>5, <2>4, EmptyIsList DEF StoreHolds
<1>7. QueuesHold /\ PubHolds /\ RecordsHold
  BY <1>1, EmptyIsList DEF QueuesHold, PubHolds, RecordsHold
<1>8. ViewHolds /\ PhaseHolds /\ LatestHolds
  BY <1>1, NothingInView DEF ViewHolds, PhaseHolds, LatestHolds, Listeners
<1> QED BY <1>6, <1>7, <1>8 DEF FeedInv

LEMMA NextKeeps == FeedInv /\ [Next]_vars => FeedInv'
<1> SUFFICES ASSUME FeedInv, [Next]_vars PROVE FeedInv'
  OBVIOUS
<1>1. CASE \E w \in Writes : Change(w) \/ Refold(w)
  BY <1>1, ChangeKeeps, RefoldKeeps
<1>2. CASE \E cmd \in Commands : Ask(cmd)
  BY <1>2, ShownStands DEF Ask, shown, storeVars, projVars, viewVars
<1>3. CASE \E p \in Rules : Install(p)
  BY <1>3, InstallKeeps
<1>4. CASE Runner \/ RunExits
  <2>1. CASE CreateDoc
    BY <2>1, CreateDocKeeps
  <2>2. CASE Dispatch
    <3>1. /\ inbox["runner"] # <<>> /\ inbox' = Take("runner") /\ pub' = pub
          /\ UNCHANGED <<deployed, doc, names, given, moved, feed, published, missed, rules, phase, view>>
      BY <2>2 DEF Dispatch, storeVars, projVars, viewVars
    <3>2. "runner" \in Listeners /\ "runner" # "coordinator"
      BY DEF Listeners
    <3> QED BY <3>1, <3>2, TakeKeeps DEF FeedInv
  <2>3. CASE Command \/ LogOrEmit \/ RunCommand \/ RunTimesOut \/ RunExits
    BY <2>3, ShownStands DEF Command, LogOrEmit, RunCommand, RunTimesOut, RunExits, shown,
                             storeVars, projVars, viewVars
  <2> QED BY <1>4, <2>1, <2>2, <2>3 DEF Runner
<1>5. CASE Projector
  BY <1>5, TakeForRulesKeeps, ProjectKeeps DEF Projector
<1>6. CASE Reader
  BY <1>6, PrimeKeeps, SubscribeKeeps, CoordinateKeeps DEF Reader
<1>7. CASE Manager
  <2>1. CASE Subscribe("manager")
    BY <2>1, SubscribeKeeps
  <2>2. CASE Enlist
    <3>1. /\ inbox["manager"] # <<>> /\ inbox' = Take("manager") /\ pub' = pub
          /\ UNCHANGED <<deployed, doc, names, given, moved, feed, published, missed, rules, phase, view>>
      BY <2>2 DEF Enlist, storeVars, projVars, viewVars
    <3>2. "manager" \in Listeners /\ "manager" # "coordinator"
      BY DEF Listeners
    <3> QED BY <3>1, <3>2, TakeKeeps DEF FeedInv
  <2>3. CASE SendJob
    BY <2>3, ShownStands DEF SendJob, shown, storeVars, projVars, viewVars
  <2> QED BY <1>7, <2>1, <2>2, <2>3 DEF Manager
<1>8. CASE Worker
  BY <1>8, ShownStands DEF Worker, SendRetry, Work, shown, storeVars, projVars, viewVars
<1>9. CASE \E torn \in BOOLEAN : Restart(torn)
  BY <1>9, RestartKeeps
<1>10. CASE UNCHANGED vars
  BY <1>10, ShownStands DEF vars, shown, storeVars, projVars, viewVars
<1> QED BY <1>1, <1>2, <1>3, <1>4, <1>5, <1>6, <1>7, <1>8, <1>9, <1>10 DEF Next

LEMMA FeedInvariant == Spec => []FeedInv
BY InitHolds, NextKeeps, PTL DEF Spec

-----------------------------------------------------------------------------
\* A record that a projection published carries no more than the fields its
\* rule names, with the values they had at one triggering change of its source,
\* and lies in the space the rule names, for any writes, packages and restarts:
\* although the projector works on changes that are long outdated, it publishes
\* from the change in hand.  No rule has two live records of one source, unless
\* a rename, or a name that the index came to hold for another document, has
\* led it astray (run_one, payload, target_name).
THEOREM RecordsStayNarrow == Spec => []PublishedNarrow
<1>1. FeedInv => PublishedNarrow
  <2> SUFFICES ASSUME FeedInv PROVE PublishedNarrow
    OBVIOUS
  <2>1. \A r \in published : RecordHolds(r)
    BY DEF FeedInv, RecordsHold
  <2>2. ASSUME NEW r \in published
        PROVE  /\ \E i, j \in DOMAIN feed :
                    /\ feed[i].id = r.source /\ Triggers(r.rule, feed[i])
                    /\ feed[j].id = r.id /\ feed[j].action_kind = <<"init">>
                    /\ DOMAIN feed[j].fields \subseteq r.rule.fields
                    /\ \A f \in DOMAIN feed[j].fields :
                          f \notin feed[i].dead /\ feed[j].fields[f] = feed[i].fields[f]
               /\ r.rule.into \notin moved => doc[doc[r.id].space].name = r.rule.into
    BY <2>1 DEF RecordHolds, Placed
  <2>3. ASSUME NEW r \in published, NEW q \in published,
               r.rule = q.rule, r.source = q.source, r # q,
               {doc[r.source].name, doc[r.id].name, doc[q.id].name} \intersect moved = {},
               {doc[r.id].name, doc[q.id].name} \intersect given = {}
        PROVE  doc[r.id].deleted \/ doc[q.id].deleted
    <3>0. /\ doc[r.source].name \notin moved /\ doc[q.source].name \notin moved
          /\ doc[r.id].name \notin moved /\ doc[q.id].name \notin moved
          /\ doc[r.id].name \notin given /\ doc[q.id].name \notin given
      BY <2>3
    <3>1. Placed(r) /\ Placed(q)
      BY <2>1 DEF RecordHolds
    <3>2. /\ r = [id |-> r.id, rule |-> r.rule, source |-> r.source]
          /\ q = [id |-> q.id, rule |-> q.rule, source |-> q.source]
          /\ r.id \in DOMAIN doc /\ q.id \in DOMAIN doc
      BY <3>1 DEF Placed
    <3>3. /\ doc[r.id].name = target_name(r.rule, doc[r.source].name)
          /\ doc[q.id].name = target_name(q.rule, doc[q.source].name)
      BY <3>0, <3>1 DEF Placed
    <3>4. doc[r.id].name = doc[q.id].name
      BY <2>3, <3>3
    <3>5. r.id # q.id
      BY <2>3, <3>2
    <3>6. \A d \in DOMAIN doc :
             ~ doc[d].deleted /\ doc[d].name \notin moved /\ doc[d].name \notin given =>
                names[doc[d].name] = d
      BY DEF FeedInv, StoreHolds, IndexHolds
    <3> QED BY <3>0, <3>2, <3>4, <3>5, <3>6
  <2> QED BY <2>2, <2>3 DEF PublishedNarrow
<1> QED BY <1>1, FeedInvariant, PTL

\* Read models that have worked through their queue answer as the store does,
\* for any writes, names and relations: every document whose latest change they
\* were sent, neither between the snapshot and the subscription nor made by a
\* re-fold alone, is found with its latest state, and one that has its name to
\* itself also by that name and by its relations (ReadModelCoordinator::run, DocumentView, RelationshipIndex).
THEOREM ViewsCatchUp == Spec => []ViewCurrent
<1>1. FeedInv => ViewCurrent
  <2> SUFFICES ASSUME FeedInv, phase["coordinator"] = "on", inbox["coordinator"] = <<>>,
                      NEW d \in DOMAIN doc \ missed
               PROVE  /\ d \in DOMAIN view.by_id /\ view.by_id[d] = Snapshot(d, doc[d])
                      /\ (Snapshot(d, doc[d]) \in find(doc[d].model)) <=> ~ doc[d].deleted
                      /\ Sole(d) =>
                           /\ exists(doc[d].name) <=> ~ doc[d].deleted
                           /\ \A rel \in Relations :
                                outgoing(doc[d].name, rel[2]) =
                                  IF doc[d].deleted \/ <<doc[d].model, rel[2]>> \notin Relations THEN {}
                                  ELSE {doc[d].fields[f] : f \in {g \in {rel[2]} \intersect DOMAIN doc[d].fields :
                                                              doc[d].fields[g] # Null}}
    BY DEF ViewCurrent
  <2> DEFINE n == doc[d].name
             s == Snapshot(d, doc[d])
  <2>1. d \in DOMAIN view.by_id /\ view.by_id[d] = s
    <3>1. Latest(d)
      BY DEF FeedInv, LatestHolds
    <3> QED BY <3>1, EmptyIsList DEF Latest
  <2>2. /\ s.deleted = doc[d].deleted /\ s.model = doc[d].model /\ s.name = n
        /\ s.fields = doc[d].fields
    BY DEF Snapshot
  <2> HIDE DEF s
  <2>3. s \in find(doc[d].model) <=> ~ doc[d].deleted
    <3>1. s \in Range(view.by_id)
      BY <2>1 DEF Range
    <3> QED BY <2>2, <3>1 DEF find
  <2>4. ASSUME Sole(d)
        PROVE  n \in DOMAIN view.by_name /\ view.by_name[n] = d /\ n \in DOMAIN view.edges
               /\ view.edges[n] = Edges(s)
    <3>1. n \in DOMAIN view.by_name
      BY <2>1, <2>2 DEF FeedInv, ViewHolds
    <3>2. view.by_name[n] \in DOMAIN doc /\ doc[view.by_name[n]].name = n
      BY <2>4, <3>1 DEF FeedInv, ViewHolds, Sole
    <3>3. view.by_name[n] = d
      BY <2>4, <3>2 DEF Sole
    <3>4. /\ n \in DOMAIN view.edges
          /\ view.by_id[view.by_name[n]].name = n =>
                view.edges[n] = Edges(view.by_id[view.by_name[n]])
      BY <3>1 DEF FeedInv, ViewHolds
    <3> QED BY <2>1, <2>2, <3>1, <3>3, <3>4
  <2>5. Sole(d) => (exists(n) <=> ~ doc[d].deleted)
    BY <2>1, <2>2, <2>4 DEF exists
  <2>6. ASSUME Sole(d), NEW rel \in Relations
        PROVE  outgoing(n, rel[2]) =
                 IF doc[d].deleted \/ <<doc[d].model, rel[2]>> \notin Relations THEN {}
                 ELSE {doc[d].fields[f] : f \in {g \in {rel[2]} \intersect DOMAIN doc[d].fields :
                                                              doc[d].fields[g] # Null}}
    <3>1. PICK f : f = rel[2]
      OBVIOUS
    <3>2. PICK g, m : g = doc[d].fields /\ m = doc[d].model
      OBVIOUS
    <3>3. outgoing(n, f) = {e[2] : e \in {x \in Edges(s) : x[1] = f}}
      BY <2>4, <2>6 DEF outgoing, EdgesOf
    <3>4. Edges(s) = IF doc[d].deleted THEN {}
                     ELSE {<<h, g[h]>> : h \in {k \in DOMAIN g : <<m, k>> \in Relations /\ g[k] # Null}}
      BY <2>2, <3>2 DEF Edges
    <3>5. outgoing(n, f) = IF doc[d].deleted \/ <<m, f>> \notin Relations THEN {}
                           ELSE {g[h] : h \in {k \in {f} \intersect DOMAIN g : g[k] # Null}}
      <4>1. CASE doc[d].deleted
        BY <3>3, <3>4, <4>1
      <4>2. CASE ~ doc[d].deleted
        <5>1. \A e : e \in Edges(s) <=>
                 \E k \in DOMAIN g : <<m, k>> \in Relations /\ g[k] # Null /\ e = <<k, g[k]>>
          BY <3>4, <4>2
        <5>2. \A e : e \in Edges(s) /\ e[1] = f <=>
                 f \in DOMAIN g /\ <<m, f>> \in Relations /\ g[f] # Null /\ e = <<f, g[f]>>
          <6>1. \A k : <<k, g[k]>>[1] = k
            OBVIOUS
          <6>2. ASSUME NEW e, e \in Edges(s), e[1] = f
                PROVE  f \in DOMAIN g /\ <<m, f>> \in Relations /\ g[f] # Null /\ e = <<f, g[f]>>
            <7>1. PICK k \in DOMAIN g : <<m, k>> \in Relations /\ g[k] # Null /\ e = <<k, g[k]>>
              BY <5>1, <6>2
            <7>2. k = f
              BY <6>1, <6>2, <7>1
            <7> QED BY <7>1, <7>2
          <6>3. ASSUME NEW e, f \in DOMAIN g, <<m, f>> \in Relations, g[f] # Null, e = <<f, g[f]>>
                PROVE  e \in Edges(s) /\ e[1] = f
            BY <5>1, <6>1, <6>3
          <6> QED BY <6>2, <6>3
        <5>3. {x \in Edges(s) : x[1] = f} =
                 IF f \in DOMAIN g /\ <<m, f>> \in Relations /\ g[f] # Null THEN {<<f, g[f]>>} ELSE {}
          BY <5>2
        <5>4. CASE f \in DOMAIN g /\ <<m, f>> \in Relations /\ g[f] # Null
          <6>1. outgoing(n, f) = {e[2] : e \in {<<f, g[f]>>}}
            BY <3>3, <5>3, <5>4
          <6>2. \A y : y \in {e[2] : e \in {<<f, g[f]>>}} <=> y = g[f]
            OBVIOUS
          <6>3. \A y : y \in {g[h] : h \in {k \in {f} \intersect DOMAIN g : g[k] # Null}} <=> y = g[f]
            BY <5>4
          <6>4. {e[2] : e \in {<<f, g[f]>>}} = {g[h] : h \in {k \in {f} \intersect DOMAIN g : g[k] # Null}}
            BY <6>2, <6>3
          <6> QED BY <4>2, <5>4, <6>1, <6>4
        <5>5. CASE ~ (f \in DOMAIN g /\ <<m, f>> \in Relations /\ g[f] # Null)
          <6>1. outgoing(n, f) = {}
            BY <3>3, <5>3, <5>5
          <6>2. f \notin DOMAIN g \/ g[f] = Null => {g[h] : h \in {k \in {f} \intersect DOMAIN g : g[k] # Null}} = {}
            OBVIOUS
          <6> QED BY <4>2, <5>5, <6>1, <6>2
        <5> QED BY <5>4, <5>5
      <4> QED BY <4>1, <4>2
    <3> QED BY <3>1, <3>2, <3>5
  <2> QED BY <2>1, <2>3, <2>5, <2>6 DEF s
<1> QED BY <1>1, FeedInvariant, PTL
=============================================================================

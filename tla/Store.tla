------------------------------- MODULE Store --------------------------------
(***************************************************************************)
(* The document store of every node, the network between them and crashes  *)
(* (src/src/store.rs, `Store` and `Inner`).                                *)
(*                                                                         *)
(* A node is an origin.  Each operation runs under the store's one lock,   *)
(* so an operation is one action here; what interleaves is the operations  *)
(* of the nodes, the network, and a proposal's life between `propose` and  *)
(* `submit` (src/src/daemon.rs).  A crash keeps the files and loses the    *)
(* memory; `mem` of a node that is down is its memory at the crash, which  *)
(* nothing reads before the restart overwrites it.                         *)
(*                                                                         *)
(* The network delivers what was gossiped or served to a catch-up request  *)
(* in any order, any number of times, or never.                            *)
(***************************************************************************)
EXTENDS ActionLog

CONSTANTS Kinds,        \* the kinds of action the users issue
          SnapshotOps,  \* `SNAPSHOT_OPS`: the log length that is snapshotted
          Crashes,      \* bound: crashes in all
          Proposals,    \* bound: actions built and not applied at once
          MaxTs,        \* bound: the largest timestamp
          MaxBuilt,     \* bound: actions built in all
          MaxTaken      \* bound: actions taken in per node, copies counted

ASSUME StoreAssumption ==
    /\ Kinds \subseteq ActionKind
    /\ SnapshotOps \in Nat \ {0}
    /\ {Crashes, Proposals, MaxTs, MaxBuilt, MaxTaken} \subseteq Nat

NoDoc == 0      \* a name the index does not hold

VARIABLES mem,      \* mem[n]: entries, name index, ts high-water mark, outbound
          disk,     \* disk[n]: the .alog and .snap files and index.json
          up,       \* up[n]: is node n running?
          wire,     \* the actions that have been put on the network
          proposed, \* the actions built by `propose`, signed, not applied then
          built,    \* every action ever built
          taken,    \* taken[n]: how many actions node n has taken in
          crashed   \* crashes so far

vars == <<mem, disk, up, wire, proposed, built, taken, crashed>>

Memory == [entry    : [DocId -> Entry],
           names    : [Name -> DocId \cup {NoDoc}],
           hint     : Nat,
           outbound : SUBSET Action]

Files == [alog  : [DocId -> Seq(Action)],
          snap  : [DocId -> Snap],
          index : Nat]

TypeOK ==
    /\ DOMAIN mem = Origin /\ DOMAIN disk = Origin
    /\ \A n \in Origin :
          /\ DOMAIN mem[n] = {"entry", "names", "hint", "outbound"}
          /\ \A d \in DocId :
                LET e == mem[n].entry[d] IN
                /\ e.known \in BOOLEAN /\ e.doc \in DocState
                /\ Range(e.log) \subseteq built
                /\ Range(disk[n].alog[d]) \subseteq built
                /\ disk[n].snap[d] \in Snap
          /\ mem[n].names \in [Name -> DocId \cup {NoDoc}]
          /\ mem[n].hint \in Nat /\ disk[n].index \in Nat
          /\ mem[n].outbound \subseteq built
    /\ up \in [Origin -> BOOLEAN]
    /\ built \subseteq Action
    /\ wire \subseteq built /\ proposed \subseteq built
    /\ taken \in [Origin -> 0..MaxTaken]
    /\ crashed \in 0..Crashes

Init ==
    /\ mem = [n \in Origin |->
                [entry    |-> [d \in DocId |-> NewEntry],
                 names    |-> [s \in Name |-> NoDoc],
                 hint     |-> 0,
                 outbound |-> {}]]
    /\ disk = [n \in Origin |->
                [alog  |-> [d \in DocId |-> <<>>],
                 snap  |-> [d \in DocId |-> NoSnap],
                 index |-> 0]]
    /\ up = [n \in Origin |-> TRUE]
    /\ wire = {}
    /\ proposed = {}
    /\ built = {}
    /\ taken = [n \in Origin |-> 0]
    /\ crashed = 0

-----------------------------------------------------------------------------
(* The pieces of `apply_action`.                                           *)

LaterOf(s, t) == IF s >= t THEN s ELSE t

\* Faulty variant: a deleted document keeps its name.
SyncNames_KeepsDeleted(names, d, doc) ==
    IF doc.name = NoName THEN names ELSE [names EXCEPT ![doc.name] = d]

\* Step 7: a live document's name is registered, a deleted one's is freed.
SyncNames(names, d, doc) ==
    CASE doc.name = NoName -> names
      [] ~ doc.deleted     -> [names EXCEPT ![doc.name] = d]
      [] doc.deleted       -> [names EXCEPT ![doc.name] = IF @ = d THEN NoDoc ELSE @]

\* `snapshot`: the state becomes the base and the log and the WAL are cut.
SnapOf(e) == [written |-> TRUE, doc |-> e.doc, top |-> Last(e.log).id]

IsFull(e) == Len(e.log) >= SnapshotOps

\* `persist_action`: one line per action.
AppendLine(k, a) == [k EXCEPT !.alog[a.doc] = Append(@, a)]

Truncate(k, e, d) ==
    [k EXCEPT !.alog[d] = <<>>, !.snap[d] = SnapOf(e)]

\* Faulty variant: a remote action does not raise the high-water mark.
Accepted_KeepsHint(n, m, k, a) ==
    LET d    == a.doc
        e    == Extend(k.snap[d].doc, m.entry[d], a)
        full == IsFull(e)
    IN  [mem  |-> [m EXCEPT !.entry[d] = IF full THEN [e EXCEPT !.log = <<>>] ELSE e,
                            !.names = SyncNames(@, d, e.doc),
                            !.outbound = IF a.origin = n THEN @ \cup {a} ELSE @],
         disk |-> IF full THEN Truncate(k, e, d) ELSE AppendLine(k, a)]

\* An action that passes its precondition, applied at node n to memory m and
\* files k; steps 4 to 7.
Accepted(n, m, k, a) ==
    LET d    == a.doc
        e    == Extend(k.snap[d].doc, m.entry[d], a)
        full == IsFull(e)
        hit  == Applies(m.entry[d].doc, a)
    IN  [mem  |-> [entry    |-> [m.entry EXCEPT ![d] =
                                   IF full THEN [e EXCEPT !.log = <<>>] ELSE e],
                   names    |-> SyncNames(m.names, d, e.doc),
                   hint     |-> IF hit THEN LaterOf(m.hint, a.ts) ELSE m.hint,
                   outbound |-> IF hit /\ a.origin = n
                                THEN m.outbound \cup {a} ELSE m.outbound],
         disk |-> IF full THEN Truncate(k, e, d) ELSE AppendLine(k, a)]

\* A failed precondition changes nothing, but the document has an entry now.
Refused(m, k, a) ==
    [mem |-> [m EXCEPT !.entry[a.doc].known = TRUE], disk |-> k]

ApplyAction(n, m, k, a) ==
    IF Precondition(m.entry[a.doc].doc, a)
    THEN Accepted(n, m, k, a)
    ELSE Refused(m, k, a)

\* Faulty variant: the clock is not ticked.
BuildAction_Unticked(n, m, d, q, t, id) ==
    [id |-> id, doc |-> d, kind |-> q.kind, key |-> q.key, name |-> q.name,
     ts |-> t, origin |-> n, clock |-> m.entry[d].doc.clock,
     prev |-> IF m.entry[d].log = <<>> THEN NoHash ELSE Last(m.entry[d].log).id]

\* `build_action`: the clock ticked once, a timestamp above the high-water
\* mark, which it raises (`next_ts`), and the hash of the log's last action.
BuildAction(n, m, d, q, t, id) ==
    [id |-> id, doc |-> d, kind |-> q.kind, key |-> q.key, name |-> q.name,
     ts |-> t, origin |-> n, clock |-> Tick(m.entry[d].doc.clock, n),
     prev |-> IF m.entry[d].log = <<>> THEN NoHash ELSE Last(m.entry[d].log).id]

NextId == Cardinality(built) + 1

CanBuild(n, t) ==
    /\ up[n]
    /\ t > mem[n].hint
    /\ NextId <= MaxBuilt

TakeOne(n) ==
    /\ taken[n] < MaxTaken
    /\ taken' = [taken EXCEPT ![n] = @ + 1]

\* The documents node n finds by a name.
Named(n) == {mem[n].names[s] : s \in Name} \ {NoDoc}

\* Node n applies action a to memory m.
Take(n, m, a) ==
    LET result == ApplyAction(n, m, disk[n], a)
    IN  /\ TakeOne(n)
        /\ mem' = [mem EXCEPT ![n] = result.mem]
        /\ disk' = [disk EXCEPT ![n] = result.disk]

-----------------------------------------------------------------------------
(* Operations                                                              *)

\* `create_doc`: a fresh id, a free name, the create action.
CreateDoc(n, d, s, t) ==
    LET m == [mem[n] EXCEPT !.entry[d].known = TRUE, !.hint = t]
        q == [kind |-> "name", key |-> NoKey, name |-> s]
        a == BuildAction(n, m, d, q, t, NextId)
    IN  /\ CanBuild(n, t)
        /\ \A b \in built : b.doc # d
        /\ mem[n].names[s] = NoDoc
        /\ Take(n, m, a)
        /\ built' = built \cup {a}
        /\ UNCHANGED <<up, wire, proposed, crashed>>

\* `apply_local_action`: built and applied under one lock.
ApplyLocal(n, d, q, t) ==
    LET a == BuildAction(n, mem[n], d, q, t, NextId)
    IN  /\ CanBuild(n, t)
        /\ d \in Named(n)
        /\ Take(n, [mem[n] EXCEPT !.hint = t], a)
        /\ built' = built \cup {a}
        /\ UNCHANGED <<up, wire, proposed, crashed>>

\* `build_local_action`: signed for co-signing, not applied.
Propose(n, d, q, t) ==
    LET a == BuildAction(n, mem[n], d, q, t, NextId)
    IN  /\ CanBuild(n, t)
        /\ d \in Named(n)
        /\ Cardinality(proposed) < Proposals
        /\ mem' = [mem EXCEPT ![n].hint = t]
        /\ proposed' = proposed \cup {a}
        /\ built' = built \cup {a}
        /\ UNCHANGED <<disk, up, wire, taken, crashed>>

\* `apply_signed_action`, at whichever node the token was carried to.
Submit(n, a) ==
    /\ up[n]
    /\ Take(n, mem[n], a)
    /\ UNCHANGED <<up, wire, proposed, built, crashed>>

\* `drain_outbound`: the sync layer gossips what the store queued.
Publish(n) ==
    /\ up[n] /\ mem[n].outbound # {}
    /\ wire' = wire \cup mem[n].outbound
    /\ mem' = [mem EXCEPT ![n].outbound = {}]
    /\ UNCHANGED <<disk, up, proposed, built, taken, crashed>>

\* `catch_up`: n sends what r's clock for the document does not cover.
CatchUp(n, r, d) ==
    LET have == mem[r].entry[d].doc.clock
        missing == {a \in Range(mem[n].entry[d].log) : ~ Covers(have, a.clock)}
    IN  /\ up[n] /\ up[r]
        /\ ~ (missing \subseteq wire)
        /\ wire' = wire \cup missing
        /\ UNCHANGED <<mem, disk, up, proposed, built, taken, crashed>>

\* `apply_remote_action`
Deliver(n, a) ==
    /\ up[n]
    /\ Take(n, mem[n], a)
    /\ UNCHANGED <<up, wire, proposed, built, crashed>>

-----------------------------------------------------------------------------
(* Crashes and restarts                                                    *)

GoDown(n) ==
    /\ up[n] /\ crashed < Crashes
    /\ up' = [up EXCEPT ![n] = FALSE]
    /\ crashed' = crashed + 1
    /\ UNCHANGED <<wire, proposed, built>>

Crash(n) == GoDown(n) /\ UNCHANGED <<mem, disk, taken>>

\* The entry an arriving action leaves, before step 5.
Extended(n, a) == Extend(disk[n].snap[a.doc].doc, mem[n].entry[a.doc], a)

\* A crash inside the `apply_action` of an action that arrived.
CrashApplying(n, a) ==
    /\ TakeOne(n)
    /\ Precondition(mem[n].entry[a.doc].doc, a)
    /\ GoDown(n)

\* In the snapshot it ends with: the snapshot file holds `snap`, the WAL has
\* the action and is not cut yet.
CrashInSnapshot(n, a, snap) ==
    /\ CrashApplying(n, a)
    /\ IsFull(Extended(n, a))
    /\ mem' = [mem EXCEPT ![n].entry[a.doc] = Extended(n, a)]
    /\ disk' = [disk EXCEPT ![n] = [AppendLine(@, a) EXCEPT !.snap[a.doc] = snap]]

\* The snapshot file is whole.
CrashBeforeTruncate(n, a) == CrashInSnapshot(n, a, SnapOf(Extended(n, a)))

\* The snapshot file, written in place, is cut short and does not parse.
CrashInSnapshotWrite(n, a) == CrashInSnapshot(n, a, NoSnap)

\* `replay` and `persist_index`.
Restart(n) ==
    LET entry == [d \in DocId |-> Replay(disk[n].snap[d], disk[n].alog[d])]
        owners(s) == {d \in DocId : entry[d].known /\ entry[d].doc.name = s}
        stamps == UNION {{a.ts : a \in Range(entry[d].log)} : d \in DocId}
        hint == Max(stamps \cup {disk[n].index})
    IN  /\ ~ up[n]
        /\ up' = [up EXCEPT ![n] = TRUE]
        /\ mem' = [mem EXCEPT ![n] =
                     [entry    |-> entry,
                      names    |-> [s \in Name |-> Max(owners(s) \cup {NoDoc})],
                      hint     |-> hint,
                      outbound |-> {}]]
        /\ disk' = [disk EXCEPT ![n].index = hint]
        /\ UNCHANGED <<wire, proposed, built, taken, crashed>>

-----------------------------------------------------------------------------
UserSteps(n) ==
    \E t \in 1..MaxTs, d \in DocId :
        \/ \E s \in Name : CreateDoc(n, d, s, t)
        \/ \E q \in Request(Kinds) : ApplyLocal(n, d, q, t) \/ Propose(n, d, q, t)

Next ==
    \E n \in Origin :
        \/ UserSteps(n)
        \/ \E a \in proposed : Submit(n, a)
        \/ Publish(n)
        \/ \E r \in Origin, d \in DocId : CatchUp(n, r, d)
        \/ \E a \in wire : Deliver(n, a) \/ CrashBeforeTruncate(n, a)
        \/ Crash(n)
        \/ Restart(n)

Spec == Init /\ [][Next]_vars

\* The same with snapshot files that a crash can leave cut short.
TornSnapshotSpec ==
    Init /\ [][Next \/ \E n \in Origin, a \in wire : CrashInSnapshotWrite(n, a)]_vars

-----------------------------------------------------------------------------
(* Properties                                                              *)

\* The document of every running node is the fold of its log over its
\* snapshot in canonical order, although the log was extended in arrival
\* order (`canon_key`: "Folded state must be a function of the set of actions
\* a node holds, not of the order they arrived in").
CanonicalFold ==
    \A n \in Origin, d \in DocId : up[n] =>
        LET e == mem[n].entry[d]
        IN  /\ Canonical(e.log) = e.log
            /\ View(e.doc) = View(Fold(disk[n].snap[d].doc, e.log))

\* Running nodes whose WALs hold the same actions, with no snapshot under
\* them, show the same document.
SameActionsSameDoc ==
    \A m, n \in Origin, d \in DocId :
        /\ up[m] /\ up[n]
        /\ disk[m].snap[d] = NoSnap /\ disk[n].snap[d] = NoSnap
        /\ Range(disk[m].alog[d]) = Range(disk[n].alog[d])
        => View(mem[m].entry[d].doc) = View(mem[n].entry[d].doc)

\* A node that stopped now would show the same documents after its restart:
\* what it holds in memory is what its files replay to.
RestartKeepsDocs ==
    \A n \in Origin, d \in DocId :
        View(Replay(disk[n].snap[d], disk[n].alog[d]).doc) = View(mem[n].entry[d].doc)

\* The clock a document advertises to its peers covers every action of its
\* log, through re-folds, snapshots and restarts: catch-up would otherwise
\* ask for what is already here.
ClockCoversLog ==
    \A n \in Origin, d \in DocId : \A a \in Range(mem[n].entry[d].log) :
        Covers(mem[n].entry[d].doc.clock, a.clock)

\* Two actions a node sends out for a document never carry the same clock: the
\* merge drops a write whose version the field already covers, so the second
\* would be lost without an error.
VersionsAreUnique ==
    \A a, b \in wire :
        a.doc = b.doc /\ a.origin = b.origin /\ a.clock = b.clock => a = b

\* Every hash a document's log names is in the log or under it.
LogIsComplete(snap, log) ==
    LET ids == SeenBefore(snap, log, Len(log) + 1)
    IN  \A a \in Range(log) : a.prev \in ids \cup {NoHash}

\* A document whose log is complete and holds no action twice passes its own
\* audit, `doc verify`.
CleanLogsVerify ==
    \A n \in Origin, d \in DocId :
        LET log == mem[n].entry[d].log
        IN  /\ up[n] /\ LogIsComplete(disk[n].snap[d], log)
            /\ Cardinality(Range(log)) = Len(log)
            => Verifies(disk[n].snap[d], mem[n].entry[d])

\* A name leads to a live document of that name.
NamesFindLiveDocs ==
    \A n \in Origin, s \in Name :
        LET d == mem[n].names[s]
        IN  up[n] /\ d # NoDoc =>
                /\ mem[n].entry[d].doc.name = s
                /\ ~ mem[n].entry[d].doc.deleted

\* A deleted document stays deleted, whatever arrives late and through every
\* re-fold, snapshot and restart.
DeleteIsTerminal ==
    [][\A n \in Origin, d \in DocId :
          mem[n].entry[d].doc.deleted => mem'[n].entry[d].doc.deleted]_vars

\* A proposal submitted to its own node after the document changed is refused
\* (src/src/p2p/cosign.rs: "If the document changes between propose and
\* submit, the proposal is rejected and must be re-made").
StaleProposalsRefused ==
    [][\A n \in Origin, a \in proposed :
          LET e == mem[n].entry[a.doc]
          IN  /\ Submit(n, a)
              /\ e.log # <<>> /\ Last(e.log).id # a.prev
              => mem'[n].entry[a.doc] = e]_vars

=============================================================================

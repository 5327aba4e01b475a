----------------------------- MODULE SyncEngine -----------------------------
(***************************************************************************)
(* The sync layer between nodes (src/src/p2p/mod.rs, `SyncEngine`): the    *)
(* drives a node keeps for its peers, the hello handshake, the catch-up    *)
(* and summary exchange, and gossip.                                       *)
(*                                                                         *)
(* A node's event loop handles one event at a time, so a handler is one    *)
(* action.  libp2p gives every request its own stream: the requests and    *)
(* answers of a connection overtake each other, a request can fail, and a  *)
(* closed connection takes all of them with it.                            *)
(*                                                                         *)
(* A document is the set of actions folded into it, its live log, from     *)
(* which catch-up is served and which a snapshot empties, and its clock;   *)
(* the order of the log is the order of the timestamps, and the nodes'     *)
(* wall clocks agree.  Who may read a document does not change.            *)
(***************************************************************************)
EXTENDS VecClock, FiniteSets, FiniteSetsExt

CONSTANTS Doc,         \* the documents
          Readers,     \* Readers[d]: the nodes that may read d
          Public,      \* the documents of public spaces, which are gossiped
          Cap,         \* `CATCH_UP_MAX_ACTIONS`
          MaxWrites,   \* bound: actions in all
          Disruptions  \* bound: requests that fail, connections that close,
                       \* drives that are paused and answers of which the
                       \* store refuses an action, together

ASSUME SyncAssumption ==
    /\ IsFiniteSet(Origin) /\ IsFiniteSet(Doc)
    /\ Readers \in [Doc -> SUBSET Origin]
    /\ Public \subseteq Doc
    /\ Cap \in Nat \ {0}
    /\ {MaxWrites, Disruptions} \subseteq Nat

VARIABLES held,     \* held[n][d]: the actions folded into n's document
          log,      \* log[n][d]: its live log, `entry.log`
          clock,    \* clock[n][d]: the clock it advertises
          drive,    \* drive[n][p]: the runtime of n's drive for p
          guests,   \* guests[n]: peers whose hello n has accepted
          conn,     \* the connections: pairs of nodes
          dialing,  \* the pairs one of which is dialing the other
          net,      \* the requests and answers under way
          outbound, \* outbound[n]: n's own actions it has not gossiped yet
          gossip,   \* the gossip messages under way
          spent,    \* disruptions so far
          holes     \* history: the documents of which a store refused an
                    \* action, or folded one away that a reader had not got

store == <<held, log, clock, holes>>

vars == <<store, drive, guests, conn, dialing, net, outbound, gossip, spent>>

Status == {"connecting", "synced", "paused"}

Summaries == [Doc -> Clock]

NoClocks == [d \in Doc |-> ZeroClock]

Runtime == [known : BOOLEAN, paused : BOOLEAN, handshaken : BOOLEAN,
            status : Status, remote : Summaries, inFlight : Nat]

NoDrive == [known |-> FALSE, paused |-> FALSE, handshaken |-> FALSE,
            status |-> "connecting", remote |-> NoClocks, inFlight |-> 0]

Peers(n) == Origin \ {n}

Written == UNION {held[n][d] : n \in Origin, d \in Doc}

TypeOK ==
    /\ \A n \in Origin, d \in Doc :
          /\ log[n][d] \subseteq held[n][d]
          /\ \A a \in held[n][d] :
                /\ a.doc = d /\ a.origin \in Origin
                /\ a.ts \in 1..MaxWrites /\ a.clock \in Clock
    /\ holes \subseteq Doc
    /\ clock \in [Origin -> Summaries]
    /\ \A n \in Origin : \A p \in Peers(n) : drive[n][p] \in Runtime
    /\ guests \in [Origin -> SUBSET Origin]
    /\ conn \subseteq SUBSET Origin /\ dialing \subseteq SUBSET Origin
    /\ \A m \in net : m.client \in Origin /\ m.server \in Peers(m.client)
    /\ \A n \in Origin : outbound[n] \subseteq Written
    /\ spent \in 0..Disruptions
    /\ \A g \in gossip : g.to \in Origin /\ g.action \in Written

Init ==
    /\ held = [n \in Origin |-> [d \in Doc |-> {}]]
    /\ log = held /\ holes = {}
    /\ clock = [n \in Origin |-> NoClocks]
    /\ drive = [n \in Origin |-> [p \in Peers(n) |-> NoDrive]]
    /\ guests = [n \in Origin |-> {}]
    /\ conn = {} /\ dialing = {}
    /\ net = {}
    /\ outbound = [n \in Origin |-> {}]
    /\ gossip = {}
    /\ spent = 0

-----------------------------------------------------------------------------
(* The store as the engine uses it.                                        *)

\* Clock c raised by the clocks of actions.
Raised(c, as) == [o \in Origin |-> Max({c[o]} \cup {a.clock[o] : a \in as})]

\* Faulty variant: the answer holds the newest actions.
FirstOf_Newest(as, k) == {a \in as : Cardinality({b \in as : b.ts > a.ts}) < k}

\* The first k of a set of actions in the order of the log.
FirstOf(as, k) == {a \in as : Cardinality({b \in as : b.ts < a.ts}) < k}

\* `catch_up`: from the live log.
MissingAt(n, d, have) == {a \in log[n][d] : ~ Covers(have, a.clock)}

\* The live logs that applying actions may leave: a snapshot empties it when
\* it is SNAPSHOT_OPS long.  An action that comes twice counts twice towards
\* that length, so any of the actions may be the one that reaches it.
LogsAfter(live, as) ==
    {live \cup as} \cup {as \ FirstOf(as, k) : k \in 1..Cardinality(as)}

\* `apply_action` for the actions of an answer, a gossip message or a writer;
\* those in `no` are refused, which is only logged (or their model is not
\* here yet).
Hold(n, d, as, no) ==
    LET took == as \ no
        folded == (held[n][d] \cup took) \ log'[n][d]
    IN  /\ held' = [held EXCEPT ![n][d] = @ \cup took]
        /\ \E live \in LogsAfter(log[n][d], took) : log' = [log EXCEPT ![n][d] = live]
        /\ clock' = [clock EXCEPT ![n][d] = Raised(@, took)]
        /\ holes' = IF no # {} \/ \E p \in Readers[d] : ~ (folded \subseteq held'[p][d])
                    THEN holes \cup {d} ELSE holes

\* `summary_for`: the clocks p may see; a document n has no entry for, and
\* one p may not read, is no different from one with an empty clock.
SummaryFor(n, p) == [d \in Doc |-> IF p \in Readers[d] THEN clock[n][d] ELSE ZeroClock]

\* The documents a drive's last seen clocks are ahead of node n's on.
Ahead(n, remote) == {d \in Doc : ~ Covers(clock[n][d], remote[d])}

\* Faulty variant: any peer is served.
Served_Ungated(n, p, d, have) == MissingAt(n, d, have)

\* What node n has for p, behind the read gate `may_peer_read`.
Served(n, p, d, have) == IF p \in Readers[d] THEN MissingAt(n, d, have) ELSE {}

-----------------------------------------------------------------------------
(* Requests                                                                *)

\* A tag that no message between the two carries.
Tag(n, p) ==
    CHOOSE k \in 1..(Cardinality(net) + 1) :
        \A m \in net : m.client = n /\ m.server = p => m.tag # k

Request(n, p, body) == [client |-> n, server |-> p, tag |-> Tag(n, p), body |-> body]

Hello == [is |-> "Hello"]

CatchUps(n, p, ds) ==
    {Request(n, p, [is |-> "CatchUp", doc |-> d, have |-> clock[n][d]]) : d \in ds}

Answer(m, body) == (net \ {m}) \cup {[m EXCEPT !.body = body]}

\* `send_request` dials a peer that is not connected.
DialsFor(n, p) == IF {n, p} \in conn THEN {} ELSE {{n, p}}

\* `open_handshake`
OpenHandshake(n, p) ==
    IF drive[n][p].known /\ ~ drive[n][p].handshaken /\ ~ drive[n][p].paused
    THEN {Request(n, p, Hello)} ELSE {}

-----------------------------------------------------------------------------
(* The drives and their connections                                        *)

Disrupt == spent < Disruptions /\ spent' = spent + 1

\* `add_drive_internal`: a peer that has said hello before is taken as
\* greeted; one that is connected is greeted now.
AddDrive(n, p) ==
    LET greeted == p \in guests[n]
    IN  /\ ~ drive[n][p].known
        /\ drive' = [drive EXCEPT ![n][p] =
                        [NoDrive EXCEPT !.known = TRUE, !.handshaken = greeted]]
        /\ net' = IF ~ greeted /\ {n, p} \in conn
                  THEN net \cup {Request(n, p, Hello)} ELSE net
        /\ dialing' = dialing \cup DialsFor(n, p)
        /\ UNCHANGED <<store, guests, conn, outbound, gossip, spent>>

\* `SetPaused`, which keeps the handshake.
Pause(n, p) ==
    /\ drive[n][p].known /\ ~ drive[n][p].paused
    /\ Disrupt
    /\ drive' = [drive EXCEPT ![n][p].paused = TRUE, ![n][p].status = "paused"]
    /\ UNCHANGED <<store, guests, conn, dialing, net, outbound, gossip>>

\* Resuming dials again, connected or not.
Resume(n, p) ==
    /\ drive[n][p].paused
    /\ drive' = [drive EXCEPT ![n][p].paused = FALSE, ![n][p].status = "connecting"]
    /\ dialing' = dialing \cup {{n, p}}
    /\ UNCHANGED <<store, guests, conn, net, outbound, gossip, spent>>

\* `ConnectionEstablished`, on both sides.
Connect(n, p) ==
    /\ {n, p} \in dialing
    /\ dialing' = dialing \ {{n, p}}
    /\ conn' = conn \cup {{n, p}}
    /\ net' = net \cup OpenHandshake(n, p) \cup OpenHandshake(p, n)
    /\ UNCHANGED <<store, drive, guests, outbound, gossip, spent>>

\* The messages left when the connection of n and p closes: libp2p fails the
\* requests of a connection with it.
Surviving(n, p) == {m \in net : {m.client, m.server} # {n, p}}

Closed(rt) ==
    IF rt.known
    THEN [rt EXCEPT !.handshaken = FALSE, !.inFlight = 0,
                    !.status = IF rt.paused THEN "paused" ELSE "connecting"]
    ELSE rt

\* `ConnectionClosed`, on both sides.
Close(n, p) ==
    /\ {n, p} \in conn
    /\ Disrupt
    /\ conn' = conn \ {{n, p}}
    /\ net' = Surviving(n, p)
    /\ drive' = [drive EXCEPT ![n][p] = Closed(@), ![p][n] = Closed(@)]
    /\ UNCHANGED <<store, guests, dialing, outbound, gossip>>

\* `OutboundFailure`; the request stays in `in_flight`.
RequestFails(m) ==
    /\ Disrupt
    /\ net' = net \ {m}
    /\ drive' = [drive EXCEPT ![m.client][m.server].status =
                    IF drive[m.client][m.server].known /\ @ # "paused"
                    THEN "connecting" ELSE @]
    /\ UNCHANGED <<store, guests, conn, dialing, outbound, gossip>>

-----------------------------------------------------------------------------
(* The exchange                                                            *)

\* Faulty variant: the clock of a document is recorded once.
Seen_Once(remote, clocks) ==
    [d \in Doc |-> IF remote[d] = ZeroClock THEN clocks[d] ELSE remote[d]]

\* Clocks a peer sends replace the ones last seen, document by document.
Seen(remote, clocks) ==
    [d \in Doc |-> IF clocks[d] = ZeroClock THEN remote[d] ELSE clocks[d]]

\* `tick`, for one drive.  Bound: a round starts when the requests of the
\* last one are over (they time out in 10 s; rounds are 30 s apart).
SyncTick(n, p) ==
    LET rt == drive[n][p]
        gaps == Ahead(n, rt.remote)
    IN  /\ rt.known /\ ~ rt.paused /\ rt.handshaken
        /\ \A m \in net : ~ (m.client = n /\ m.server = p)
        /\ net' = net \cup CatchUps(n, p, gaps)
                      \cup {Request(n, p, [is |-> "Summary", clocks |-> clock[n]])}
        /\ drive' = [drive EXCEPT
                        ![n][p].inFlight = @ + Cardinality(gaps),
                        ![n][p].status = IF @ = "connecting" THEN "synced" ELSE @]
        /\ dialing' = dialing \cup DialsFor(n, p)
        /\ UNCHANGED <<store, guests, conn, outbound, gossip, spent>>

\* `serve_request`, Hello, from a peer that is not banned and brings the
\* version, the token and the key this node expects.
ServeHello(m) ==
    LET n == m.server
        p == m.client
    IN  /\ m.body.is = "Hello"
        /\ guests' = [guests EXCEPT ![n] = @ \cup {p}]
        /\ drive' = [drive EXCEPT ![n][p] =
                        IF @.known
                        THEN [@ EXCEPT !.handshaken = TRUE, !.remote = NoClocks,
                                       !.status = "connecting"]
                        ELSE @]
        /\ net' = Answer(m, [is |-> "HelloAck", clocks |-> SummaryFor(n, p)])
        /\ UNCHANGED <<store, conn, dialing, outbound, gossip, spent>>

\* `serve_request`, CatchUp: the read gate, then the oldest missing actions.
ServeCatchUp(m) ==
    LET n == m.server
        d == m.body.doc
        missing == Served(n, m.client, d, m.body.have)
    IN  /\ m.body.is = "CatchUp"
        /\ net' = Answer(m, [is |-> "CatchUpAck", doc |-> d,
                             actions |-> FirstOf(missing, Cap),
                             more |-> Cardinality(missing) > Cap])
        /\ UNCHANGED <<store, drive, guests, conn, dialing, outbound, gossip, spent>>

\* `serve_request`, Summary.
ServeSummary(m) ==
    LET n == m.server
        p == m.client
    IN  /\ m.body.is = "Summary"
        /\ drive' = [drive EXCEPT ![n][p].remote =
                        IF drive[n][p].known THEN Seen(@, m.body.clocks) ELSE @]
        /\ net' = Answer(m, [is |-> "SummaryAck", clocks |-> SummaryFor(n, p)])
        /\ UNCHANGED <<store, guests, conn, dialing, outbound, gossip, spent>>

\* `on_response`, HelloAck: catch-up starts at once.
OnHelloAck(m) ==
    LET n == m.client
        p == m.server
        rt == drive[n][p]
        remote == Seen(IF rt.handshaken THEN rt.remote ELSE NoClocks, m.body.clocks)
        gaps == Ahead(n, remote)
    IN  /\ m.body.is = "HelloAck"
        /\ drive' = [drive EXCEPT ![n][p] =
                        [@ EXCEPT !.handshaken = TRUE,
                                  !.status = IF rt.handshaken THEN @ ELSE "connecting",
                                  !.remote = remote,
                                  !.inFlight = @ + Cardinality(gaps)]]
        /\ net' = (net \ {m}) \cup CatchUps(n, p, gaps)
        /\ UNCHANGED <<store, guests, conn, dialing, outbound, gossip, spent>>

\* `on_response`, CatchUpAck: the actions are applied; the drive's clock for
\* the document becomes the last one's, applied or not, and the state that
\* comes with them is not looked at.  `more` only holds back "synced".
OnCatchUpAck(m) ==
    LET n == m.client
        p == m.server
        acts == m.body.actions
        rt == drive[n][p]
        last == CHOOSE a \in acts : \A b \in acts : b.ts <= a.ts
    IN  /\ m.body.is = "CatchUpAck"
        /\ \E no \in SUBSET acts :
              /\ Hold(n, m.body.doc, acts, no)
              /\ IF no = {} THEN spent' = spent ELSE Disrupt
        /\ drive' = [drive EXCEPT ![n][p] =
                        [@ EXCEPT !.inFlight = @ - 1,
                                  !.remote[m.body.doc] = IF acts = {} THEN @ ELSE last.clock,
                                  !.status = IF /\ ~ m.body.more
                                                /\ rt.inFlight = 1
                                                /\ @ # "paused"
                                             THEN "synced" ELSE @]]
        /\ net' = net \ {m}
        /\ UNCHANGED <<guests, conn, dialing, outbound, gossip>>

\* `on_response`, SummaryAck.
OnSummaryAck(m) ==
    /\ m.body.is = "SummaryAck"
    /\ drive' = [drive EXCEPT ![m.client][m.server].remote = Seen(@, m.body.clocks)]
    /\ net' = net \ {m}
    /\ UNCHANGED <<store, guests, conn, dialing, outbound, gossip, spent>>

-----------------------------------------------------------------------------
(* Writes and gossip                                                       *)

\* The store applies a local action and queues it for the engine, whose
\* `publish_action` drops it unless the document's space is public.
Write(n, d) ==
    LET a == [doc |-> d, origin |-> n, ts |-> Cardinality(Written) + 1,
              clock |-> Tick(clock[n][d], n)]
    IN  /\ Cardinality(Written) < MaxWrites
        /\ n \in Readers[d]
        /\ held[n][d] # {} \/ \A p \in Origin : held[p][d] = {}
        /\ Hold(n, d, {a}, {})
        /\ outbound' = [outbound EXCEPT ![n] = IF d \in Public THEN @ \cup {a} ELSE @]
        /\ UNCHANGED <<drive, guests, conn, dialing, net, gossip, spent>>

\* `publish_action`: the mesh has the peers that are connected now.
Publish(n, a) ==
    /\ outbound' = [outbound EXCEPT ![n] = @ \ {a}]
    /\ gossip' = gossip \cup {[to |-> p, action |-> a] :
                    p \in {q \in Peers(n) : {n, q} \in conn}}
    /\ UNCHANGED <<store, drive, guests, conn, dialing, net, spent>>

\* `on_gossip`
OnGossip(g) ==
    /\ \E no \in SUBSET {g.action} :
          /\ Hold(g.to, g.action.doc, {g.action}, no)
          /\ IF no = {} THEN spent' = spent ELSE Disrupt
    /\ gossip' = gossip \ {g}
    /\ UNCHANGED <<drive, guests, conn, dialing, net, outbound>>

-----------------------------------------------------------------------------
Handle(m) ==
    /\ {m.client, m.server} \in conn
    /\ \/ ServeHello(m) \/ ServeCatchUp(m) \/ ServeSummary(m)
       \/ OnHelloAck(m) \/ OnCatchUpAck(m) \/ OnSummaryAck(m)

Next ==
    \/ \E m \in net : Handle(m) \/ RequestFails(m)
    \/ \E n \in Origin :
          \/ \E d \in Doc : Write(n, d)
          \/ \E p \in Peers(n) :
                \/ AddDrive(n, p) \/ Pause(n, p) \/ Resume(n, p)
                \/ Connect(n, p) \/ Close(n, p) \/ SyncTick(n, p)

\* The requests of a node to a peer and their answers are handled in the end,
\* a dial that can succeed succeeds, and the interval timer of a drive fires.
Fairness ==
    \A n \in Origin : \A p \in Peers(n) :
        /\ WF_vars(\E m \in net : m.client = n /\ m.server = p /\ Handle(m))
        /\ WF_vars(Connect(n, p))
        /\ WF_vars(SyncTick(n, p))

Spec == Init /\ [][Next]_vars /\ Fairness

\* With documents in public spaces; the mesh may lose a message.
GossipSpec ==
    /\ Init
    /\ [][\/ Next
          \/ \E n \in Origin : \E a \in outbound[n] : Publish(n, a)
          \/ \E g \in gossip : OnGossip(g)]_vars
    /\ Fairness

-----------------------------------------------------------------------------
(* Properties                                                              *)

\* What a clock covers is held: a node never advertises, or asks for less
\* because of, an action it has not got.  Catch-up sends only what the
\* requester's clock does not cover, so an action lost behind a clock is lost
\* for good; a store that refuses an action, or a snapshot that folds one away
\* before every reader has it, makes such holes.
ClockMeansHeld ==
    \A n \in Origin : \A a \in Written :
        a.doc \notin holes /\ Covers(clock[n][a.doc], a.clock) => a \in held[n][a.doc]

\* The actions of a document reach only the nodes that may read it, although
\* the clocks that prompt a catch-up are sent to every peer.
OnlyReadersHold ==
    \A n \in Origin, d \in Doc : held[n][d] # {} => n \in Readers[d]

Linked ==
    \A n \in Origin : \A p \in Peers(n) : drive[n][p].handshaken /\ ~ drive[n][p].paused

Agree(d) == \A m, n \in Readers[d] : held[m][d] = held[n][d]

\* Nodes that in the end stay greeted and unpaused come to hold the same
\* actions of a document, however many rounds the capped answers take and
\* whatever failed before (README.md: "anything missed by gossip (loss, a
\* reconnection, a doc created before the link existed) is closed by
\* catch-up"), unless the document has a hole no catch-up can close.
Converges == \A d \in Doc : <>[](Linked /\ d \notin holes) => <>[]Agree(d)

=============================================================================

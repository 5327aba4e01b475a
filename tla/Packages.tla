------------------------------ MODULE Packages ------------------------------
(***************************************************************************)
(* Plugin packages on one node: manifests and what they may ask for        *)
(* (package/mod.rs), the publishers the operator trusts (package/trust.rs),*)
(* installing (package/install.rs), the handlers that publish, install,    *)
(* uninstall, trust and revoke (settings/packages.rs), the chunk store     *)
(* (blob/mod.rs), the fetching of chunks from drive peers (p2p/mod.rs) and *)
(* the definitions kept for the next start (model/persist.rs).             *)
(*                                                                         *)
(* Handlers run on several threads and hold no lock.  Each of the three    *)
(* files they share is read whole, changed in memory and written back in   *)
(* place, so a handler here is a record that moves from one file access to *)
(* the next, and a file being written is torn until the bytes are in.      *)
(***************************************************************************)
EXTENDS Integers, Sequences, FiniteSets, SequencesExt

CONSTANTS
    Me,            \* this node's own publisher key
    Peers,         \* the peers of its drives
    PeerHas,       \* peer -> the chunks it can serve
    Offers,        \* documents of other publishers: name -> <<manifest>>, <<>> when unreadable
    Held,          \* those of them that have arrived before
    Genuine,       \* the manifests those publishers really made
    Drafts,        \* what the operator may publish
    Definitions,   \* what the operator may register by hand
    Wanted,        \* documents the operator keeps trying to install
    Deletable,     \* documents their authors may delete
    MaxOpen,       \* bound: handlers at work at the same time
    MaxOps,        \* bound: requests beside those retries, and deletions
    MaxFaults      \* bound: crashes, lost answers and failed writes

VARIABLES
    docs,       \* the live package documents
    retired,    \* names of the deleted ones
    file,       \* publishers.json, packages.json and models.json
    torn,       \* the files whose content cannot be read
    registry,   \* the definitions the running store reduces with
    chunks,     \* the chunks on disk
    fetches,    \* bundles the engine has been told to fetch
    wire,       \* chunk requests not yet answered
    req,        \* the handlers at work
    accepted,   \* history: keys the operator ever said yes to
    cleared,    \* history: manifests that passed the checks
    lone,       \* history: uninstalls that have listed what to keep, with nobody at work since
    lost,       \* history: chunks that an uninstall dropped beside others, and nobody has stored since
    ops, faults

disk == <<file, torn>>
net  == <<fetches, wire>>
hist == <<accepted, cleared>>
drop == <<lone, lost>>
vars == <<docs, retired, disk, registry, chunks, net, req, hist, drop, ops, faults>>

-----------------------------------------------------------------------------
(* Manifests. *)

RESERVED_NAV_LABELS == {"home", "settings", "spaces"}
MAX_NAV_ITEMS       == 3

\* Labels are as trimmed and folded; fits stands for the length and the
\* characters of label, icon and view.
validate_ui(ui) ==
    /\ Len(ui) <= MAX_NAV_ITEMS
    /\ \A i \in DOMAIN ui :
          /\ ui[i].label # "" /\ ui[i].fits
          /\ ui[i].label \notin RESERVED_NAV_LABELS
          /\ \A j \in 1..(i - 1) : ui[j].label # ui[i].label

validate_projection(p) ==
    "" \notin {p.from, p.on, p.to, p.into} /\ p.fields # {}

validate_attention(a) ==
    a.model # "" /\ a.needs # "" /\ a.label # ""

from_def(def) == def.good

message_bytes_NoBundle(m) == [m EXCEPT !.sig = <<>>, !.bundle = <<>>]
message_bytes(m) == [m EXCEPT !.sig = <<>>]

sign(m, key) == [m EXCEPT !.sig = <<key, message_bytes(m)>>]

verify(m) == m.sig = <<m.publisher_key, message_bytes(m)>>

\* The fields of a manifest that anything here depends on.
IsManifest(m) ==
    m = [f \in {"name", "version", "publisher", "publisher_key", "bundle", "models", "ui",
                "projections", "attention", "sig"} |-> m[f]]

\* The bundle of a manifest, when it has one.
Bundles(m) == Range(m.bundle)

-----------------------------------------------------------------------------
(* The chunk store.  A blob's content is its chunks in order. *)

missing(b) == Range(b.chunks) \ chunks

get(b) == missing(b) = {} /\ b.hash = b.chunks

\* BlobRef::of: the hash and the chunks of some content.
of(content) == [hash |-> content, chunks |-> content]

Store(new) == chunks' = chunks \union new /\ lost' = lost \ new

put(content) == Store(Range(of(content).chunks))

gc(keep) == chunks' = chunks \intersect keep

\* A signature over some bytes is made by the key's holder only, who made it for
\* a manifest (what ed25519 is used for); Offers are others', and a draft has one
\* bundle or none.
ASSUME OffersAreOthers ==
    /\ Held \subseteq DOMAIN Offers
    /\ \A d \in DOMAIN Offers : \A m \in Range(Offers[d]) : m.publisher_key # Me
ASSUME Unforgeable ==
    /\ \A g \in Genuine : verify(g) /\ IsManifest(g)
    /\ \A d \in DOMAIN Offers : Offers[d] # <<>> =>
          /\ IsManifest(Offers[d][1])
          /\ verify(Offers[d][1]) => \E g \in Genuine : g.sig = Offers[d][1].sig
ASSUME DraftsAreDrafts ==
    \A draft \in Drafts :
       /\ {"bundle", "publisher_key"} \subseteq DOMAIN draft
       /\ draft.bundle = <<>> \/ draft.bundle = <<draft.bundle[1]>>

\* The asset server has every chunk of the manifest's editor, if it has one, and
\* they make the content that the manifest names.
Serves(m) == \A b \in Bundles(m) : get(b)

-----------------------------------------------------------------------------
(* The files. *)

load(f) == IF f \in torn THEN {} ELSE file[f]

is_trusted(trust, key) == \E t \in trust : t.key = key

\* The name under which a key was first approved stays.
trust_key(trust, key, name) ==
    IF is_trusted(trust, key) THEN trust ELSE trust \union {[key |-> key, name |-> name]}

revoke(trust, key) == {t \in trust : t.key # key}

remove(pkgs, name) == {p \in pkgs : p.name # name}

put_package(pkgs, m) == remove(pkgs, m.name) \union {m}

\* Adds or replaces by name and version.
With(defs, def) ==
    {d \in defs : <<d.name, d.version>> # <<def.name, def.version>>} \union {def}

live_blobs(pkgs) == UNION {Bundles(p) : p \in pkgs}

-----------------------------------------------------------------------------
(* Handlers. *)

Idle == [op |-> "idle", at |-> "done", manifest |-> <<>>, trust |-> {}, next |-> 1,
         out |-> "none", todo |-> {}, then |-> "done", keep |-> {}]

IsOpen(r)  == req[r].op # "idle"
Opening(op) == [Idle EXCEPT !.op = op]

Saving(h, f, content, then) ==
    [h EXCEPT !.at = "truncate", !.out = f, !.todo = content, !.then = then]

Become(r, h) == req' = [req EXCEPT ![r] = IF h.at = "done" THEN Idle ELSE h]
Answer(r)    == req' = [req EXCEPT ![r] = Idle]

MayOpen(r) ==
    /\ ~ IsOpen(r) /\ \A q \in 1..(r - 1) : IsOpen(q)
    /\ lone' = {}

\* Every request but the retries of Wanted counts.
Asked == ops < MaxOps /\ ops' = ops + 1

\* std::fs::write empties the file, then writes from its start: of two
\* overlapping writes, the shorter leaves the tail of the longer behind it.
Truncate(r) ==
    /\ req[r].at = "truncate"
    /\ torn' = torn \union {req[r].out}
    /\ Become(r, [req[r] EXCEPT !.at = "write"])
    /\ UNCHANGED <<docs, retired, file, registry, chunks, net, hist, drop, ops, faults>>

Write(r) ==
    /\ req[r].at = "write"
    /\ LET h == req[r]
       IN  /\ file' = [file EXCEPT ![h.out] = h.todo]
           /\ \/ torn' = torn \ {h.out}
              \/ h.out \notin torn /\ torn' = torn \union {h.out}
           /\ Become(r, [h EXCEPT !.at = h.then, !.out = "none", !.todo = {}, !.then = "done"])
    /\ UNCHANGED <<docs, retired, registry, chunks, net, hist, drop, ops, faults>>

SaveFails(r) ==
    /\ req[r].at = "truncate"
    /\ faults < MaxFaults /\ faults' = faults + 1
    /\ Answer(r)
    /\ UNCHANGED <<docs, retired, disk, registry, chunks, net, hist, drop, ops>>

-----------------------------------------------------------------------------
(* Installing. *)

manifest_of(d) == docs[d]

\* The documents once d is among them.
WithDoc(d, ms) == [e \in DOMAIN docs \union {d} |-> IF e = d THEN ms ELSE docs[e]]

\* What the console's package list says of a document's package.
list(d) ==
    LET m == manifest_of(d)[1]
    IN  [signatureOk   |-> verify(m),
         trusted       |-> is_trusted(load("publishers"), m.publisher_key),
         bundleMissing |-> UNION {missing(b) : b \in Bundles(m)},
         installed     |-> {p.version : p \in {q \in load("packages") : q.name = m.name}}]

Readable(d) == d \in DOMAIN docs /\ manifest_of(d) # <<>>

\* No such document, no readable manifest and a bad signature are answered
\* with an error and change nothing.
OpenInstall(r, d, accept) ==
    /\ MayOpen(r)
    /\ Readable(d)
    /\ \E m \in {manifest_of(d)[1]}, trust \in {load("publishers")} :
          /\ verify(m)
          /\ LET h == [Opening("install") EXCEPT !.manifest = <<m>>]
             IN  \/ /\ is_trusted(trust, m.publisher_key)
                    /\ Become(r, [h EXCEPT !.at = "want", !.trust = trust])
                    /\ UNCHANGED accepted
                 \/ /\ ~ is_trusted(trust, m.publisher_key) /\ accept
                    /\ accepted' = accepted \union {m.publisher_key}
                    /\ \E new \in {trust_key(trust, m.publisher_key, m.publisher)} :
                          Become(r, Saving([h EXCEPT !.trust = new], "publishers", new, "want"))
    /\ UNCHANGED <<docs, retired, disk, registry, chunks, net, cleared, lost, faults>>

Install(r, d, accept) == OpenInstall(r, d, accept) /\ Asked

\* The operator tries again while the list does not show this version.
Shown(d) == manifest_of(d)[1].version \in list(d).installed

Retry(r, d) ==
    /\ Readable(d) /\ ~ Shown(d)
    /\ \A q \in DOMAIN req : req[q].manifest # manifest_of(d)
    /\ OpenInstall(r, d, TRUE)
    /\ UNCHANGED ops

Want_OnlyWhenAbsent(r) ==
    /\ req[r].at = "want"
    /\ \E m \in {req[r].manifest[1]} :
          IF \E b \in Bundles(m) : missing(b) # {}
          THEN /\ fetches' = fetches \union {b \in Bundles(m) : missing(b) = Range(b.chunks)}
               /\ Answer(r)
          ELSE Become(r, [req[r] EXCEPT !.at = "check"]) /\ UNCHANGED fetches
    /\ UNCHANGED <<docs, retired, disk, registry, chunks, wire, hist, drop, ops, faults>>

\* Something is missing: peers are asked, and the answer is "fetching".
Want(r) ==
    /\ req[r].at = "want"
    /\ \E m \in {req[r].manifest[1]} :
          IF \E b \in Bundles(m) : missing(b) # {}
          THEN fetches' = fetches \union Bundles(m) /\ Answer(r)
          ELSE Become(r, [req[r] EXCEPT !.at = "check"]) /\ UNCHANGED fetches
    /\ UNCHANGED <<docs, retired, disk, registry, chunks, wire, hist, drop, ops, faults>>

check(m, trust) ==
    /\ verify(m)
    /\ is_trusted(trust, m.publisher_key)
    /\ validate_ui(m.ui)
    /\ \A b \in Bundles(m) : missing(b) = {}
    /\ \A i \in DOMAIN m.models : from_def(m.models[i])

Check(r) ==
    /\ req[r].at = "check"
    /\ \E m \in {req[r].manifest[1]} :
          \/ /\ check(m, req[r].trust)
             /\ cleared' = cleared \union {m}
             /\ Become(r, [req[r] EXCEPT !.at = "install"])
          \/ ~ check(m, req[r].trust) /\ Answer(r) /\ UNCHANGED cleared
    /\ UNCHANGED <<docs, retired, disk, registry, chunks, net, accepted, drop, ops, faults>>

\* install: every definition is registered and kept, then the package recorded.
AddModel(r) ==
    /\ req[r].at = "install"
    /\ \E m \in {req[r].manifest[1]}, i \in {req[r].next} :
          /\ i <= Len(m.models)
          /\ registry' = With(registry, m.models[i])
          /\ Become(r, Saving([req[r] EXCEPT !.next = i + 1], "models",
                              With(load("models"), m.models[i]), "install"))
    /\ UNCHANGED <<docs, retired, disk, chunks, net, hist, drop, ops, faults>>

Record(r) ==
    /\ req[r].at = "install"
    /\ \E m \in {req[r].manifest[1]} :
          /\ req[r].next > Len(m.models)
          /\ Become(r, Saving(req[r], "packages", put_package(load("packages"), m), "done"))
    /\ UNCHANGED <<docs, retired, disk, registry, chunks, net, hist, drop, ops, faults>>

-----------------------------------------------------------------------------
(* The other handlers. *)

Uninstall(r, name) ==
    /\ MayOpen(r) /\ Asked
    /\ \E pkgs \in {load("packages")} :
          /\ \E p \in pkgs : p.name = name
          /\ Become(r, Saving(Opening("uninstall"), "packages", remove(pkgs, name), "roots"))
    /\ UNCHANGED <<docs, retired, disk, registry, chunks, net, hist, lost, faults>>

blobs_to_keep_InstalledOnly == live_blobs(load("packages"))
blobs_to_keep ==
    live_blobs(load("packages")) \union UNION {UNION {Bundles(m) : m \in Range(docs[d])} : d \in DOMAIN docs}

Roots(r) ==
    /\ req[r].at = "roots"
    /\ Become(r, [req[r] EXCEPT !.at = "gc", !.keep = UNION {Range(b.chunks) : b \in blobs_to_keep}])
    /\ lone' = {q \in {r} : \A p \in DOMAIN req \ {q} : ~ IsOpen(p)}
    /\ UNCHANGED <<docs, retired, disk, registry, chunks, net, hist, lost, ops, faults>>

Collect(r) ==
    /\ req[r].at = "gc"
    /\ gc(req[r].keep)
    /\ lost' = IF r \in lone THEN lost ELSE lost \union (chunks \ req[r].keep)
    /\ lone' = {}
    /\ Answer(r)
    /\ UNCHANGED <<docs, retired, disk, registry, net, hist, ops, faults>>

TrustPublisher(r, key, name) ==
    /\ MayOpen(r) /\ Asked
    /\ accepted' = accepted \union {key}
    /\ Become(r, Saving(Opening("trust"), "publishers", trust_key(load("publishers"), key, name), "done"))
    /\ UNCHANGED <<docs, retired, disk, registry, chunks, net, cleared, lost, faults>>

RevokePublisher(r, key) ==
    /\ MayOpen(r) /\ Asked
    /\ is_trusted(load("publishers"), key)
    /\ Become(r, Saving(Opening("revoke"), "publishers", revoke(load("publishers"), key), "done"))
    /\ UNCHANGED <<docs, retired, disk, registry, chunks, net, hist, lost, faults>>

RegisterModel(r, def) ==
    /\ MayOpen(r) /\ Asked
    /\ from_def(def)
    /\ registry' = With(registry, def)
    /\ Become(r, Saving(Opening("register"), "models", With(load("models"), def), "done"))
    /\ UNCHANGED <<docs, retired, disk, chunks, net, hist, lost, faults>>

\* The editor's chunks are stored first; the rest of the manifest is checked,
\* signed and made a document afterwards.
Publish(r, draft) ==
    /\ MayOpen(r) /\ Asked
    /\ validate_ui(draft.ui)
    /\ \A i \in DOMAIN draft.models : from_def(draft.models[i])
    /\ IF draft.bundle = <<>> THEN UNCHANGED <<chunks, lost>> ELSE put(draft.bundle[1])
    /\ Become(r, [Opening("publish") EXCEPT !.at = "create", !.manifest = <<draft>>])
    /\ UNCHANGED <<docs, retired, disk, registry, net, hist, faults>>

DocOf(m) == <<"pkg", m.name, m.version>>

Signed(draft) ==
    sign([draft EXCEPT !.publisher_key = Me, !.bundle = [i \in DOMAIN draft.bundle |-> of(draft.bundle[i])]], Me)

Create(r) ==
    /\ req[r].at = "create"
    /\ \E m \in {Signed(req[r].manifest[1])} :
          IF /\ \A i \in DOMAIN m.projections : validate_projection(m.projections[i])
             /\ \A i \in DOMAIN m.attention : validate_attention(m.attention[i])
             /\ verify(m)
             /\ DocOf(m) \notin DOMAIN docs
          THEN docs' = WithDoc(DocOf(m), <<m>>)
          ELSE UNCHANGED docs
    /\ Answer(r)
    /\ UNCHANGED <<retired, disk, registry, chunks, net, hist, drop, ops, faults>>

-----------------------------------------------------------------------------
(* The engine, other nodes and the process. *)

FetchBlob(b) ==
    /\ b \in fetches
    /\ fetches' = fetches \ {b}
    /\ wire' = wire \union (missing(b) \X Peers)
    /\ UNCHANGED <<docs, retired, disk, registry, chunks, req, hist, drop, ops, faults>>

\* The peer is asked for a chunk and put_chunk stores what matches.
\* ChunkRequest: a peer answers with the chunk or with nothing.
Served(q) == {q[1]} \intersect PeerHas[q[2]]
ChunkData(q) ==
    /\ q \in wire
    /\ wire' = wire \ {q}
    /\ Store(Served(q))
    /\ UNCHANGED <<docs, retired, disk, registry, fetches, req, hist, lone, ops, faults>>

ChunkLost(q) ==
    /\ q \in wire
    /\ faults < MaxFaults /\ faults' = faults + 1
    /\ wire' = wire \ {q}
    /\ UNCHANGED <<docs, retired, disk, registry, chunks, fetches, req, hist, drop, ops>>

Arrive(d) ==
    /\ d \in DOMAIN Offers \ (DOMAIN docs \union retired)
    /\ docs' = WithDoc(d, Offers[d])
    /\ UNCHANGED <<retired, disk, registry, chunks, net, req, hist, drop, ops, faults>>

Delete(d) ==
    /\ d \in DOMAIN docs \intersect Deletable
    /\ Asked
    /\ docs' = [e \in DOMAIN docs \ {d} |-> docs[e]]
    /\ retired' = retired \union {d}
    /\ UNCHANGED <<disk, registry, chunks, net, req, hist, drop, faults>>

\* The process dies and starts again: the files are as they are.
Restart ==
    /\ faults < MaxFaults /\ faults' = faults + 1
    /\ registry' = {def \in load("models") : from_def(def)}
    /\ req' = [r \in DOMAIN req |-> Idle]
    /\ fetches' = {} /\ wire' = {} /\ lone' = {}
    /\ UNCHANGED <<docs, retired, disk, chunks, hist, lost, ops>>

-----------------------------------------------------------------------------
Init ==
    /\ docs = [d \in Held |-> Offers[d]] /\ retired = {}
    /\ file = [f \in {"publishers", "packages", "models"} |-> {}]
    /\ torn = {}
    /\ registry = {} /\ chunks = {}
    /\ fetches = {} /\ wire = {}
    /\ req = [r \in 1..MaxOpen |-> Idle]
    /\ accepted = {} /\ cleared = {} /\ lone = {} /\ lost = {}
    /\ ops = 0 /\ faults = 0

Keys == {m.publisher_key : m \in Genuine}

Step(r) ==
    Truncate(r) \/ Write(r) \/ Want(r) \/ Check(r) \/ AddModel(r) \/ Record(r)
    \/ Roots(r) \/ Collect(r) \/ Create(r)

Ask(r) ==
    \/ \E d \in DOMAIN docs, accept \in BOOLEAN : Install(r, d, accept)
    \/ \E name \in {m.name : m \in Genuine} : Uninstall(r, name)
    \/ \E key \in Keys : RevokePublisher(r, key)
    \/ \E m \in Genuine : TrustPublisher(r, m.publisher_key, m.publisher)
    \/ \E def \in Definitions : RegisterModel(r, def)
    \/ \E draft \in Drafts : Publish(r, draft)

Next ==
    \/ \E r \in DOMAIN req : Step(r) \/ SaveFails(r) \/ Ask(r)
    \/ \E r \in DOMAIN req, d \in Wanted : Retry(r, d)
    \/ \E b \in fetches : FetchBlob(b)
    \/ \E q \in wire : ChunkData(q) \/ ChunkLost(q)
    \/ \E d \in DOMAIN Offers : Arrive(d)
    \/ \E d \in Deletable : Delete(d)
    \/ Restart

\* The runtime goes on with a handler, the engine with its queue and a peer
\* with its answers; a wanted document is synced; its operator tries again.
Fairness ==
    /\ \A r \in 1..MaxOpen : WF_vars(Step(r))
    /\ \A d \in Wanted : WF_vars(Arrive(d)) /\ WF_vars(\E r \in DOMAIN req : Retry(r, d))
    /\ WF_vars(\E b \in fetches : FetchBlob(b))
    /\ WF_vars(\E q \in wire : ChunkData(q))

Spec == Init /\ [][Next]_vars /\ Fairness

-----------------------------------------------------------------------------
(* Properties. *)

Gate == INSTANCE PackageGate WITH
    Sound    <- {m \in Genuine \union {Signed(draft) : draft \in Drafts} :
                    validate_ui(m.ui) /\ \A i \in DOMAIN m.models : from_def(m.models[i])},
    admitted <- cleared,
    mounted  <- load("packages")

\* What this node mounts was made by its publisher, fit to install and from a
\* key the operator accepted, one version of a name: install, its checks and
\* the files they share implement PackageGate, whatever handlers overlap.
GateKept == Gate!Spec

\* What this node answers for: the packages it has installed, and those it
\* publishes itself.
Own == {m \in UNION {Range(docs[d]) : d \in DOMAIN docs} : m.publisher_key = Me}
Lacks(m) == UNION {missing(b) : b \in Bundles(m)}

\* Every bundle this node answers for is whole, and its own are served ("a
\* package offer is a promise to serve it", blobs_to_keep), but for the chunks
\* that an uninstall dropped while another handler was at work between its list
\* of what to keep and its collection.
BundlesHeld ==
    /\ \A m \in load("packages") \union Own : Lacks(m) \subseteq lost
    /\ \A m \in Own : Lacks(m) = {} => Serves(m)

\* A package whose bundle some peer holds is installed in the end if its
\* operator keeps trying, whatever was lost, torn, revoked or removed before.
InstallCompletes == \A d \in Wanted : <>[](Readable(d) /\ Shown(d))
=============================================================================

--------------------------- MODULE PackagesProofs ---------------------------
(***************************************************************************)
(* Proofs about installing packages: the handlers, the files they share    *)
(* and the checks implement PackageGate, and what the node answers for it  *)
(* can serve.  A handler carries a manifest, a copy of the trusted keys and*)
(* what it is about to write across steps of the others, so the invariants *)
(* say of each handler what the point it has reached vouches for.          *)
(***************************************************************************)
EXTENDS Packages, TLAPS

Made == Genuine \union {Signed(draft) : draft \in Drafts}
Fit(m) == validate_ui(m.ui) /\ \A i \in DOMAIN m.models : from_def(m.models[i])
Sounds == {m \in Made : Fit(m)}

Fields == {"op", "at", "manifest", "trust", "next", "out", "todo", "then", "keep"}
Files == {"publishers", "packages", "models"}

\* Where a handler is, or will be once the file it writes is written.
Point(h) == IF h.at \in {"truncate", "write"} THEN h.then ELSE h.at

OneVersion(ms) == \A a, b \in ms : a.name = b.name => a = b
Known(trust, acc) == \A t \in trust : t.key \in acc

\* What a handler's state vouches for, given the keys accepted and the
\* manifests cleared.
Vouches(h, acc, clr) ==
    /\ DOMAIN h = Fields
    /\ Known(h.trust, acc)
    /\ Point(h) \in {"want", "check"} => h.manifest[1] \in Made
    /\ Point(h) = "install" => h.manifest[1] \in clr
    /\ Point(h) = "create" => h.manifest[1] \in Drafts
    /\ h.out = "packages" => h.todo \subseteq clr /\ OneVersion(h.todo)
    /\ h.out = "publishers" => Known(h.todo, acc)

GateInv ==
    /\ DOMAIN file = Files
    /\ file["packages"] \subseteq cleared /\ OneVersion(file["packages"])
    /\ Known(file["publishers"], accepted)
    /\ \A d \in DOMAIN docs : docs[d] # <<>> /\ verify(docs[d][1]) => docs[d][1] \in Made
    /\ \A r \in DOMAIN req : Vouches(req[r], accepted, cleared)

-----------------------------------------------------------------------------
\* An offer that verifies is what its publisher made: the signed bytes are the
\* whole manifest but for the signature (message_bytes).
LEMMA OfferIsGenuine ==
    ASSUME NEW d \in DOMAIN Offers, Offers[d] # <<>>, verify(Offers[d][1])
    PROVE  Offers[d][1] \in Genuine
<1> DEFINE m == Offers[d][1]
           F == {"name", "version", "publisher", "publisher_key", "bundle", "models", "ui",
                 "projections", "attention", "sig"}
<1>1. IsManifest(m) /\ verify(m)
  BY Unforgeable
<1>2. PICK g \in Genuine : g.sig = m.sig
  BY Unforgeable
<1>3. IsManifest(g) /\ verify(g)
  BY Unforgeable
<1> HIDE DEF m
<1>4. message_bytes(m) = message_bytes(g)
  <2>1. m.sig = <<m.publisher_key, message_bytes(m)>> /\ g.sig = <<g.publisher_key, message_bytes(g)>>
    BY <1>1, <1>3 DEF verify
  <2> QED BY <1>2, <2>1
<1>5. m = [f \in F |-> m[f]] /\ g = [f \in F |-> g[f]]
  BY <1>1, <1>3 DEF IsManifest
<1> HIDE DEF F
<1>6. \A f \in F : f # "sig" => message_bytes(m)[f] = m[f] /\ message_bytes(g)[f] = g[f]
  BY <1>5 DEF message_bytes
<1>7. \A f \in F : m[f] = g[f]
  BY <1>2, <1>4, <1>6
<1>8. m = g
  BY <1>5, <1>7
<1> QED BY <1>8 DEF m

-----------------------------------------------------------------------------
(* Handlers. *)

LEMMA IdleVouches ==
    ASSUME NEW acc, NEW clr PROVE Vouches(Idle, acc, clr)
BY DEF Vouches, Idle, Fields, Known, Point

\* More accepted keys and cleared manifests vouch for no less.
LEMMA VouchesGrows ==
    ASSUME NEW h, NEW acc, NEW clr, NEW acc2, NEW clr2,
           Vouches(h, acc, clr), acc \subseteq acc2, clr \subseteq clr2
    PROVE  Vouches(h, acc2, clr2)
BY DEF Vouches, Known

\* A step that moves one handler to a state that vouches for what it must,
\* while the histories grow and the others stand still.
LEMMA BecomeVouches ==
    ASSUME GateInv, NEW r \in DOMAIN req, NEW h,
           accepted \subseteq accepted', cleared \subseteq cleared',
           Vouches(h, accepted', cleared'), Become(r, h)
    PROVE  \A q \in DOMAIN req' : Vouches(req'[q], accepted', cleared')
<1>1. Vouches(IF h.at = "done" THEN Idle ELSE h, accepted', cleared')
  BY IdleVouches
<1>2. \A q \in DOMAIN req : Vouches(req[q], accepted', cleared')
  BY VouchesGrows DEF GateInv
<1> QED
  BY <1>1, <1>2 DEF Become

LEMMA AnswerVouches ==
    ASSUME GateInv, NEW r \in DOMAIN req,
           accepted \subseteq accepted', cleared \subseteq cleared', Answer(r)
    PROVE  \A q \in DOMAIN req' : Vouches(req'[q], accepted', cleared')
<1>1. \A q \in DOMAIN req : Vouches(req[q], accepted', cleared')
  BY VouchesGrows DEF GateInv
<1> QED
  BY <1>1, IdleVouches DEF Answer

\* A handler that opens knows only what its step tells it.
LEMMA OpeningVouches ==
    ASSUME NEW acc, NEW clr, NEW op
    PROVE  /\ Vouches(Opening(op), acc, clr)
           /\ Opening(op).out = "none"
BY DEF Vouches, Opening, Idle, Fields, Known, Point

\* A handler that starts to save.
LEMMA SavingVouches ==
    ASSUME NEW acc, NEW clr, NEW h, NEW f, NEW content, NEW then,
           DOMAIN h = Fields, Known(h.trust, acc),
           then \in {"want", "check"} => h.manifest[1] \in Made,
           then = "install" => h.manifest[1] \in clr,
           then # "create",
           f = "packages" => content \subseteq clr /\ OneVersion(content),
           f = "publishers" => Known(content, acc)
    PROVE  Vouches(Saving(h, f, content, then), acc, clr)
BY DEF Vouches, Saving, Point, Fields

LEMMA LoadKnown ==
    ASSUME GateInv
    PROVE  /\ load("packages") \subseteq cleared /\ OneVersion(load("packages"))
           /\ Known(load("publishers"), accepted)
BY DEF GateInv, load, OneVersion, Known

\* A step that leaves the documents and the files alone.
LEMMA FilesStand ==
    ASSUME GateInv, UNCHANGED <<docs, file>>,
           accepted \subseteq accepted', cleared \subseteq cleared',
           \A q \in DOMAIN req' : Vouches(req'[q], accepted', cleared')
    PROVE  GateInv'
<1>1. file'["packages"] \subseteq cleared' /\ OneVersion(file'["packages"]) /\ Known(file'["publishers"], accepted')
  BY DEF GateInv, Known
<1>2. /\ DOMAIN file' = Files
      /\ \A d \in DOMAIN docs' : docs'[d] # <<>> /\ verify(docs'[d][1]) => docs'[d][1] \in Made
  BY DEF GateInv
<1> QED
  BY <1>1, <1>2 DEF GateInv

\* The step is one of PackageGate or leaves its variables alone.
GateStep == [Gate!Next]_<<accepted, cleared, load("packages")>>

\* A step that changes neither the files nor the histories.
LEMMA GateStutters ==
    ASSUME UNCHANGED <<file, torn, accepted, cleared>> PROVE GateStep
BY DEF GateStep, load

LEMMA GateAccepts ==
    ASSUME NEW key, accepted' = accepted \union {key}, UNCHANGED <<file, torn, cleared>>
    PROVE  GateStep
<1>1. load("packages")' = load("packages")
  BY DEF load
<1>2. key \in accepted' /\ Gate!Accept(key)
  BY <1>1 DEF Gate!Accept
<1> QED
  BY <1>2 DEF GateStep, Gate!Next

LEMMA GateAdmits ==
    ASSUME NEW m \in Sounds, m.publisher_key \in accepted,
           cleared' = cleared \union {m}, UNCHANGED <<file, torn, accepted>>
    PROVE  GateStep
<1>1. load("packages")' = load("packages")
  BY DEF load
<1>2. Gate!Admit(m)
  BY <1>1 DEF Gate!Admit, Sounds, Made, Fit
<1>3. m \in {x \in Genuine \union {Signed(draft) : draft \in Drafts} :
                validate_ui(x.ui) /\ \A i \in DOMAIN x.models : from_def(x.models[i])}
  BY DEF Sounds, Made, Fit
<1> QED
  BY <1>2, <1>3 DEF GateStep, Gate!Next

LEMMA GateMounts ==
    ASSUME UNCHANGED <<accepted, cleared>>,
           load("packages")' \subseteq cleared, OneVersion(load("packages")')
    PROVE  GateStep
<1>1. Gate!Mount(load("packages")')
  BY DEF Gate!Mount, Gate!OneOfAName, OneVersion
<1> QED
  BY <1>1 DEF GateStep, Gate!Next

-----------------------------------------------------------------------------
(* The steps. *)

Good == GateInv' /\ GateStep

LEMMA TruncateGood ==
    ASSUME GateInv, NEW r \in DOMAIN req, Truncate(r) PROVE Good
<1> DEFINE h == [req[r] EXCEPT !.at = "write"]
<1>1. Vouches(req[r], accepted, cleared) /\ req[r].at = "truncate"
  BY DEF GateInv, Truncate
<1>2. Vouches(h, accepted', cleared')
  BY <1>1 DEF Truncate, hist, Vouches, Point, Fields
<1>3. Become(r, h)
  BY DEF Truncate
<1> HIDE DEF h
<1>4. accepted' = accepted /\ cleared' = cleared /\ UNCHANGED <<docs, file>>
  BY DEF Truncate, hist
<1>5. \A q \in DOMAIN req' : Vouches(req'[q], accepted', cleared')
  BY <1>2, <1>3, <1>4, BecomeVouches
<1>6. GateInv'
  BY <1>4, <1>5, FilesStand
<1>7. torn \subseteq torn'
  BY DEF Truncate
<1>8. load("packages")' = {} \/ load("packages")' = load("packages")
  BY <1>4, <1>7 DEF load
<1>9. GateStep
  BY <1>4, <1>8, LoadKnown, GateMounts DEF OneVersion
<1> QED
  BY <1>6, <1>9 DEF Good

LEMMA WriteGood ==
    ASSUME GateInv, NEW r \in DOMAIN req, Write(r) PROVE Good
<1> DEFINE h == req[r]
           k == [h EXCEPT !.at = h.then, !.out = "none", !.todo = {}, !.then = "done"]
<1>1. Vouches(h, accepted, cleared) /\ h.at = "write"
  BY DEF GateInv, Write
<1>2. accepted' = accepted /\ cleared' = cleared /\ docs' = docs
  BY DEF Write, hist
<1>3. Vouches(k, accepted', cleared')
  BY <1>1, <1>2 DEF Vouches, Point, Fields
<1>4. Become(r, k) /\ file' = [file EXCEPT ![h.out] = h.todo]
  BY DEF Write
<1>5. \A q \in DOMAIN req' : Vouches(req'[q], accepted', cleared')
  <2> HIDE DEF k
  <2> QED
    BY <1>2, <1>3, <1>4, BecomeVouches
<1>6. /\ DOMAIN file' = Files
      /\ file'["packages"] \in {file["packages"], h.todo}
      /\ file'["packages"] = file["packages"] \/ h.out = "packages"
      /\ file'["publishers"] = file["publishers"] \/ (h.out = "publishers" /\ file'["publishers"] = h.todo)
  BY <1>4 DEF GateInv, Files
<1>7. /\ file'["packages"] \subseteq cleared /\ OneVersion(file'["packages"])
      /\ Known(file'["publishers"], accepted)
  BY <1>1, <1>6 DEF GateInv, Vouches
<1>8. GateInv'
  BY <1>2, <1>5, <1>6, <1>7 DEF GateInv
<1>9. load("packages")' \in {{}, file'["packages"]}
  BY DEF load
<1>10. load("packages")' \subseteq cleared /\ OneVersion(load("packages")')
  BY <1>7, <1>9 DEF OneVersion
<1>11. GateStep
  BY <1>2, <1>10, GateMounts
<1> QED
  BY <1>8, <1>11 DEF Good

\* A step that only answers, or only moves a handler: neither files nor
\* histories change.
LEMMA MovesGood ==
    ASSUME GateInv, NEW r \in DOMAIN req, UNCHANGED <<docs, file, torn, accepted, cleared>>,
           \/ Answer(r)
           \/ \E h : Vouches(h, accepted, cleared) /\ Become(r, h)
    PROVE  Good
<1>1. \A q \in DOMAIN req' : Vouches(req'[q], accepted', cleared')
  <2>1. CASE Answer(r)
    BY <2>1, AnswerVouches
  <2>2. ASSUME NEW h, Vouches(h, accepted, cleared), Become(r, h)
        PROVE  \A q \in DOMAIN req' : Vouches(req'[q], accepted', cleared')
    <3>1. Vouches(h, accepted', cleared')
      BY <2>2
    <3> QED
      BY <2>2, <3>1, BecomeVouches
  <2> QED
    BY <2>1, <2>2
<1>2. GateInv'
  BY <1>1, FilesStand
<1>3. GateStep
  BY GateStutters
<1> QED
  BY <1>2, <1>3 DEF Good

LEMMA SaveFailsGood ==
    ASSUME GateInv, NEW r \in DOMAIN req, SaveFails(r) PROVE Good
BY MovesGood DEF SaveFails, disk, hist

LEMMA WantGood ==
    ASSUME GateInv, NEW r \in DOMAIN req, Want(r) PROVE Good
<1> DEFINE h == [req[r] EXCEPT !.at = "check"]
<1>1. Vouches(req[r], accepted, cleared) /\ req[r].at = "want"
  BY DEF GateInv, Want
<1>2. Vouches(h, accepted, cleared)
  BY <1>1 DEF Vouches, Point, Fields
<1>3. Answer(r) \/ Become(r, h)
  BY DEF Want
<1>4. UNCHANGED <<docs, file, torn, accepted, cleared>>
  BY DEF Want, disk, hist
<1> HIDE DEF h
<1> QED
  BY <1>2, <1>3, <1>4, MovesGood

\* The check lets in only what is sound and from an accepted key: the copy of
\* the trusted keys may be old, but every key in it was accepted.
LEMMA CheckGood ==
    ASSUME GateInv, NEW r \in DOMAIN req, Check(r) PROVE Good
<1> DEFINE m == req[r].manifest[1]
           h == [req[r] EXCEPT !.at = "install"]
<1>1. Vouches(req[r], accepted, cleared) /\ req[r].at = "check"
  BY DEF GateInv, Check
<1>2. UNCHANGED <<docs, file, torn, accepted>>
  BY DEF Check, disk
<1>3. CASE Answer(r) /\ UNCHANGED cleared
  BY <1>2, <1>3, MovesGood
<1>4. CASE check(m, req[r].trust) /\ cleared' = cleared \union {m} /\ Become(r, h)
  <2>1. m \in Made
    BY <1>1 DEF Vouches, Point
  <2>2. m \in Sounds
    BY <1>4, <2>1 DEF Sounds, Fit, check
  <2>3. m.publisher_key \in accepted
    <3>1. is_trusted(req[r].trust, m.publisher_key) /\ Known(req[r].trust, accepted)
      BY <1>1, <1>4 DEF check, Vouches
    <3> HIDE DEF m
    <3> QED
      BY <3>1 DEF is_trusted, Known
  <2>4. Vouches(h, accepted', cleared')
    <3>1. DOMAIN req[r] = Fields /\ cleared \subseteq cleared' /\ m \in cleared'
      BY <1>1, <1>4 DEF Vouches
    <3> QED
      BY <1>1, <1>2, <3>1 DEF Vouches, Point, Fields
  <2>5. GateInv'
    <3> HIDE DEF h, m
    <3>1. \A q \in DOMAIN req' : Vouches(req'[q], accepted', cleared')
      BY <1>2, <1>4, <2>4, BecomeVouches
    <3> QED
      BY <1>2, <1>4, <3>1, FilesStand
  <2>6. GateStep
    <3> HIDE DEF h, m
    <3> QED
      BY <1>2, <1>4, <2>2, <2>3, GateAdmits
  <2> QED
    BY <2>5, <2>6 DEF Good
<1> QED
  BY <1>3, <1>4 DEF Check

LEMMA AddModelGood ==
    ASSUME GateInv, NEW r \in DOMAIN req, AddModel(r) PROVE Good
<1>1. PICK i, c : Become(r, Saving([req[r] EXCEPT !.next = i], "models", c, "install"))
  BY DEF AddModel
<1>2. Vouches(req[r], accepted, cleared) /\ req[r].at = "install"
  BY DEF GateInv, AddModel
<1> DEFINE h == [req[r] EXCEPT !.next = i]
<1>3. DOMAIN h = Fields /\ Known(h.trust, accepted) /\ h.manifest[1] \in cleared
  BY <1>2 DEF Vouches, Fields, Point
<1>4. Vouches(Saving(h, "models", c, "install"), accepted, cleared)
  BY <1>3, SavingVouches
<1> HIDE DEF h
<1>5. UNCHANGED <<docs, file, torn, accepted, cleared>>
  BY DEF AddModel, disk, hist
<1>6. Become(r, Saving(h, "models", c, "install"))
  BY <1>1 DEF h
<1> QED
  BY <1>4, <1>5, <1>6, MovesGood

\* put_package drops the other versions of the name before it adds one.
LEMMA RecordGood ==
    ASSUME GateInv, NEW r \in DOMAIN req, Record(r) PROVE Good
<1> DEFINE m == req[r].manifest[1]
           new == put_package(load("packages"), m)
<1>1. Vouches(req[r], accepted, cleared) /\ req[r].at = "install"
  BY DEF GateInv, Record
<1>2. m \in cleared
  BY <1>1 DEF Vouches, Point
<1>3. new \subseteq cleared /\ OneVersion(new)
  BY <1>2, LoadKnown DEF put_package, remove, OneVersion
<1>4. Become(r, Saving(req[r], "packages", new, "done"))
  BY DEF Record
<1> HIDE DEF new
<1>5. DOMAIN req[r] = Fields /\ Known(req[r].trust, accepted)
  BY <1>1 DEF Vouches
<1>6. Vouches(Saving(req[r], "packages", new, "done"), accepted, cleared)
  BY <1>3, <1>5, SavingVouches
<1>7. UNCHANGED <<docs, file, torn, accepted, cleared>>
  BY DEF Record, disk, hist
<1> QED
  BY <1>4, <1>6, <1>7, MovesGood

LEMMA RootsGood ==
    ASSUME GateInv, NEW r \in DOMAIN req, Roots(r) PROVE Good
<1>1. PICK keep : Become(r, [req[r] EXCEPT !.at = "gc", !.keep = keep])
  BY DEF Roots
<1>2. Vouches(req[r], accepted, cleared) /\ req[r].at = "roots"
  BY DEF GateInv, Roots
<1>3. Vouches([req[r] EXCEPT !.at = "gc", !.keep = keep], accepted, cleared)
  BY <1>2 DEF Vouches, Point, Fields
<1>4. UNCHANGED <<docs, file, torn, accepted, cleared>>
  BY DEF Roots, disk, hist
<1> QED
  BY <1>1, <1>3, <1>4, MovesGood

LEMMA CollectGood ==
    ASSUME GateInv, NEW r \in DOMAIN req, Collect(r) PROVE Good
BY MovesGood DEF Collect, disk, hist

LEMMA CreateGood ==
    ASSUME GateInv, NEW r \in DOMAIN req, Create(r) PROVE Good
<1> DEFINE m == Signed(req[r].manifest[1])
<1>1. req[r].manifest[1] \in Drafts
  BY DEF GateInv, Create, Vouches, Point
<1>2. m \in Made
  BY <1>1 DEF Made
<1>3. docs' = WithDoc(DocOf(m), <<m>>) \/ docs' = docs
  BY DEF Create
<1>4. UNCHANGED <<file, torn, accepted, cleared>> /\ Answer(r)
  BY DEF Create, disk, hist
<1>5. \A d \in DOMAIN docs' : docs'[d] # <<>> /\ verify(docs'[d][1]) => docs'[d][1] \in Made
  <2> HIDE DEF m
  <2> QED
    BY <1>2, <1>3 DEF GateInv, WithDoc
<1>6. \A q \in DOMAIN req' : Vouches(req'[q], accepted', cleared')
  BY <1>4, AnswerVouches
<1>7. GateInv'
  BY <1>4, <1>5, <1>6 DEF GateInv
<1>8. GateStep
  BY <1>4, GateStutters
<1> QED
  BY <1>7, <1>8 DEF Good

\* The keys are read once, and the manifest from a document that may be anyone's.
LEMMA OpenInstallGood ==
    ASSUME GateInv, NEW r \in DOMAIN req, NEW d, NEW accept, OpenInstall(r, d, accept)
    PROVE  Good
<1> DEFINE m == docs[d][1]
           trust == load("publishers")
           h == [Opening("install") EXCEPT !.manifest = <<m>>]
           new == trust_key(trust, m.publisher_key, m.publisher)
<1>1. m \in Made
  BY DEF GateInv, OpenInstall, Readable, manifest_of
<1>2. Known(trust, accepted)
  BY LoadKnown
<1>3. UNCHANGED <<docs, file, torn, cleared>>
  BY DEF OpenInstall, disk
<1>4. CASE Become(r, [h EXCEPT !.at = "want", !.trust = trust]) /\ UNCHANGED accepted
  <2>1. Vouches([h EXCEPT !.at = "want", !.trust = trust], accepted, cleared)
    BY <1>1, <1>2 DEF Opening, Idle, Vouches, Point, Fields, Known
  <2> HIDE DEF h, trust
  <2> QED
    BY <1>3, <1>4, <2>1, MovesGood
<1>5. CASE /\ accepted' = accepted \union {m.publisher_key}
           /\ Become(r, Saving([h EXCEPT !.trust = new], "publishers", new, "want"))
  <2>1. Known(new, accepted')
    BY <1>2, <1>5 DEF trust_key, Known
  <2> DEFINE k == [h EXCEPT !.trust = new]
  <2>2. DOMAIN k = Fields /\ k.trust = new /\ k.manifest[1] = m
    BY DEF Opening, Idle, Fields
  <2> HIDE DEF k, new, m
  <2>3. Vouches(Saving(k, "publishers", new, "want"), accepted', cleared')
    BY <1>1, <2>1, <2>2, SavingVouches
  <2>4. Become(r, Saving(k, "publishers", new, "want"))
    BY <1>5 DEF k
  <2>5. \A q \in DOMAIN req' : Vouches(req'[q], accepted', cleared')
    BY <1>3, <1>5, <2>3, <2>4, BecomeVouches
  <2>6. GateInv'
    BY <1>3, <1>5, <2>5, FilesStand
  <2>7. GateStep
    BY <1>3, <1>5, GateAccepts
  <2> QED
    BY <2>6, <2>7 DEF Good
<1> QED
  BY <1>4, <1>5 DEF OpenInstall, manifest_of

\* A handler that opens with a file to save and accepts no key.
LEMMA OpensToSave ==
    ASSUME GateInv, NEW r \in DOMAIN req, NEW op, NEW f, NEW content, NEW then \in {"roots", "done"},
           UNCHANGED <<docs, file, torn, accepted, cleared>>,
           Become(r, Saving(Opening(op), f, content, then)),
           f = "packages" => content \subseteq cleared /\ OneVersion(content),
           f = "publishers" => Known(content, accepted)
    PROVE  Good
<1>1. DOMAIN Opening(op) = Fields /\ Known(Opening(op).trust, accepted)
  BY OpeningVouches DEF Vouches
<1>2. Vouches(Saving(Opening(op), f, content, then), accepted, cleared)
  BY <1>1, SavingVouches
<1> QED
  BY <1>2, MovesGood

LEMMA UninstallGood ==
    ASSUME GateInv, NEW r \in DOMAIN req, NEW name, Uninstall(r, name) PROVE Good
<1> DEFINE new == remove(load("packages"), name)
<1>1. new \subseteq cleared /\ OneVersion(new)
  BY LoadKnown DEF remove, OneVersion
<1>2. Become(r, Saving(Opening("uninstall"), "packages", new, "roots"))
  BY DEF Uninstall
<1>3. UNCHANGED <<docs, file, torn, accepted, cleared>>
  BY DEF Uninstall, disk, hist
<1> HIDE DEF new
<1> QED
  BY <1>1, <1>2, <1>3, OpensToSave

LEMMA RevokeGood ==
    ASSUME GateInv, NEW r \in DOMAIN req, NEW key, RevokePublisher(r, key) PROVE Good
<1> DEFINE new == revoke(load("publishers"), key)
<1>1. Known(new, accepted)
  BY LoadKnown DEF revoke, Known
<1>2. Become(r, Saving(Opening("revoke"), "publishers", new, "done"))
  BY DEF RevokePublisher
<1>3. UNCHANGED <<docs, file, torn, accepted, cleared>>
  BY DEF RevokePublisher, disk, hist
<1> HIDE DEF new
<1> QED
  BY <1>1, <1>2, <1>3, OpensToSave

LEMMA RegisterGood ==
    ASSUME GateInv, NEW r \in DOMAIN req, NEW def, RegisterModel(r, def) PROVE Good
<1>1. PICK new : Become(r, Saving(Opening("register"), "models", new, "done"))
  BY DEF RegisterModel
<1>2. UNCHANGED <<docs, file, torn, accepted, cleared>>
  BY DEF RegisterModel, disk, hist
<1> QED
  BY <1>1, <1>2, OpensToSave

LEMMA TrustGood ==
    ASSUME GateInv, NEW r \in DOMAIN req, NEW key, NEW name, TrustPublisher(r, key, name)
    PROVE  Good
<1> DEFINE new == trust_key(load("publishers"), key, name)
<1>1. accepted' = accepted \union {key} /\ UNCHANGED <<docs, file, torn, cleared>>
  BY DEF TrustPublisher, disk
<1>2. Known(new, accepted')
  BY <1>1, LoadKnown DEF trust_key, Known
<1>3. Become(r, Saving(Opening("trust"), "publishers", new, "done"))
  BY DEF TrustPublisher
<1> HIDE DEF new
<1>4. DOMAIN Opening("trust") = Fields /\ Known(Opening("trust").trust, accepted')
  BY OpeningVouches DEF Vouches
<1>5. Vouches(Saving(Opening("trust"), "publishers", new, "done"), accepted', cleared')
  BY <1>2, <1>4, SavingVouches
<1>6. \A q \in DOMAIN req' : Vouches(req'[q], accepted', cleared')
  BY <1>1, <1>3, <1>5, BecomeVouches
<1>7. GateInv'
  BY <1>1, <1>6, FilesStand
<1>8. GateStep
  BY <1>1, GateAccepts
<1> QED
  BY <1>7, <1>8 DEF Good

LEMMA PublishGood ==
    ASSUME GateInv, NEW r \in DOMAIN req, NEW draft \in Drafts, Publish(r, draft) PROVE Good
<1> DEFINE h == [Opening("publish") EXCEPT !.at = "create", !.manifest = <<draft>>]
<1>1. Vouches(h, accepted, cleared)
  BY DEF Opening, Idle, Vouches, Point, Fields, Known
<1>2. Become(r, h) /\ UNCHANGED <<docs, file, torn, accepted, cleared>>
  BY DEF Publish, disk, hist
<1> HIDE DEF h
<1> QED
  BY <1>1, <1>2, MovesGood

LEMMA AskGood ==
    ASSUME GateInv, NEW r \in DOMAIN req, Ask(r) PROVE Good
BY OpenInstallGood, UninstallGood, RevokeGood, TrustGood, RegisterGood, PublishGood
   DEF Ask, Install

LEMMA StepGood ==
    ASSUME GateInv, NEW r \in DOMAIN req, Step(r) PROVE Good
BY TruncateGood, WriteGood, WantGood, CheckGood, AddModelGood, RecordGood, RootsGood,
   CollectGood, CreateGood DEF Step

\* Documents come and go; a document of another publisher that verifies is one
\* the publisher made.
LEMMA DocumentsGood ==
    ASSUME GateInv, \/ \E d \in DOMAIN Offers : Arrive(d)
                    \/ \E d \in Deletable : Delete(d)
    PROVE  Good
<1>1. UNCHANGED <<file, torn, accepted, cleared, req>>
  BY DEF Arrive, Delete, disk, hist
<1>2. \A d \in DOMAIN docs' : docs'[d] # <<>> /\ verify(docs'[d][1]) => docs'[d][1] \in Made
  <2>1. CASE \E d \in DOMAIN Offers : Arrive(d)
    BY <2>1, OfferIsGenuine DEF Arrive, GateInv, WithDoc, Made
  <2>2. CASE \E d \in Deletable : Delete(d)
    BY <2>2 DEF Delete, GateInv
  <2> QED
    BY <2>1, <2>2
<1>3. GateInv'
  BY <1>1, <1>2 DEF GateInv
<1> QED
  BY <1>1, <1>3, GateStutters DEF Good

LEMMA EngineGood ==
    ASSUME GateInv, \/ \E b \in fetches : FetchBlob(b)
                    \/ \E q \in wire : ChunkData(q) \/ ChunkLost(q)
    PROVE  Good
<1>1. UNCHANGED <<docs, file, torn, accepted, cleared, req>>
  BY DEF FetchBlob, ChunkData, ChunkLost, disk, hist
<1>2. GateInv'
  BY <1>1 DEF GateInv
<1> QED
  BY <1>1, <1>2, GateStutters DEF Good

LEMMA RestartGood ==
    ASSUME GateInv, Restart PROVE Good
<1>1. UNCHANGED <<docs, file, torn, accepted, cleared>> /\ req' = [r \in DOMAIN req |-> Idle]
  BY DEF Restart, disk, hist
<1>2. \A q \in DOMAIN req' : Vouches(req'[q], accepted', cleared')
  BY <1>1, IdleVouches
<1>3. GateInv'
  BY <1>1, <1>2, FilesStand
<1> QED
  BY <1>1, <1>3, GateStutters DEF Good

LEMMA NextGood ==
    ASSUME GateInv, [Next]_vars PROVE Good
<1>1. CASE Next
  <2>1. CASE \E r \in DOMAIN req : Step(r) \/ SaveFails(r) \/ Ask(r)
    BY <2>1, StepGood, SaveFailsGood, AskGood
  <2>2. CASE \E r \in DOMAIN req, d \in Wanted : Retry(r, d)
    BY <2>2, OpenInstallGood DEF Retry
  <2> QED
    BY <1>1, <2>1, <2>2, EngineGood, DocumentsGood, RestartGood DEF Next
<1>2. CASE UNCHANGED vars
  <2>1. UNCHANGED <<docs, file, torn, accepted, cleared, req>>
    BY <1>2 DEF vars, disk, hist
  <2>2. GateInv'
    BY <2>1 DEF GateInv
  <2> QED
    BY <2>1, <2>2, GateStutters DEF Good
<1> QED
  BY <1>1, <1>2

LEMMA InitGood ==
    ASSUME Init PROVE GateInv /\ Gate!Init
<1>1. \A d \in DOMAIN docs : docs[d] # <<>> /\ verify(docs[d][1]) => docs[d][1] \in Made
  BY OfferIsGenuine, OffersAreOthers DEF Init, Made
<1>2. \A r \in DOMAIN req : Vouches(req[r], accepted, cleared)
  BY IdleVouches DEF Init
<1>3. file["packages"] = {} /\ file["publishers"] = {} /\ DOMAIN file = Files /\ torn = {}
  BY DEF Init, Files
<1> QED
  BY <1>1, <1>2, <1>3 DEF Init, GateInv, OneVersion, Known, Gate!Init, load

\* What the node mounts was made by its publisher, is fit to install and comes
\* from a key the operator accepted, one version of a name, whatever handlers
\* overlap, writes tear and documents arrive: installing implements PackageGate.
THEOREM InstallKeepsGate == Spec => GateKept
<1>1. Init => GateInv /\ Gate!Init
  BY InitGood
<1>2. GateInv /\ [Next]_vars => GateInv' /\ [Gate!Next]_<<accepted, cleared, load("packages")>>
  BY NextGood DEF Good, GateStep
<1> QED
  BY <1>1, <1>2, PTL DEF Spec, GateKept, Gate!Spec

-----------------------------------------------------------------------------
(* Bundles.  Collecting drops every chunk that was no root when the roots  *)
(* were read.  If a handler was at work since, chunks that the node answers *)
(* for may be among them, and are lost; if none was, none of them is.       *)

Kept == chunks \union lost

\* The chunks in C are all that the manifest's editor has.
ServedBy(m, C) == \A b \in Bundles(m) : Range(b.chunks) \subseteq C

OwnOf(ds) == {m \in UNION {Range(ds[d]) : d \in DOMAIN ds} : m.publisher_key = Me}

\* What the node answers for is served by C.
AllServed(pkgs, ds, C) == \A m \in pkgs \union OwnOf(ds) : ServedBy(m, C)

\* The node's own packages name their bundles by what they hold.
Named(m) == \A b \in Bundles(m) : b.hash = b.chunks
OwnNamed(ds) == \A m \in OwnOf(ds) : Named(m)

\* What a handler's state promises, given the chunks on disk.
Carries(h, C) ==
    /\ DOMAIN h = Fields
    /\ h.op = "idle" => h = Idle
    /\ Point(h) = "install" => ServedBy(h.manifest[1], C)
    /\ Point(h) = "create" => ServedBy(Signed(h.manifest[1]), C)
    /\ h.out = "packages" => \A m \in h.todo : ServedBy(m, C)

BundleInv ==
    /\ AllServed(load("packages"), docs, Kept) /\ OwnNamed(docs)
    /\ \A r \in DOMAIN req : Carries(req[r], Kept)
    /\ \A r \in lone :
          /\ r \in DOMAIN req /\ req[r].at = "gc"
          /\ AllServed(load("packages"), docs, req[r].keep)
          /\ \A q \in DOMAIN req \ {r} : req[q] = Idle

LEMMA IdleCarries ==
    ASSUME NEW C PROVE Carries(Idle, C) /\ Idle.at # "gc"
BY DEF Carries, Idle, Fields, Point

LEMMA CarriesGrows ==
    ASSUME NEW h, NEW C, NEW C2, Carries(h, C), C \subseteq C2 PROVE Carries(h, C2)
BY DEF Carries, ServedBy

LEMMA ServedGrows ==
    ASSUME NEW pkgs, NEW ds, NEW C, NEW C2, AllServed(pkgs, ds, C), C \subseteq C2
    PROVE  AllServed(pkgs, ds, C2)
BY DEF AllServed, ServedBy

\* One handler moves, and no uninstall has the node to itself.
LEMMA MoverCarries ==
    ASSUME BundleInv, NEW r \in DOMAIN req, NEW h, req' = [req EXCEPT ![r] = h],
           lone' = {}, Kept \subseteq Kept', Carries(h, Kept'),
           AllServed(load("packages")', docs', Kept'), OwnNamed(docs')
    PROVE  BundleInv'
<1>1. ASSUME NEW q \in DOMAIN req' PROVE Carries(req'[q], Kept')
  <2>1. CASE q = r
    BY <2>1
  <2>2. CASE q # r
    <3>1. q \in DOMAIN req /\ req'[q] = req[q]
      BY <2>2
    <3>2. Carries(req[q], Kept) /\ Carries(req[q], Kept')
      BY <3>1, CarriesGrows DEF BundleInv
    <3> QED
      BY <3>1, <3>2
  <2> QED
    BY <2>1, <2>2
<1> QED
  BY <1>1 DEF BundleInv

\* While a handler is at work at anything else, no uninstall is alone.
LEMMA NoneAlone ==
    ASSUME BundleInv, NEW r \in DOMAIN req, req[r].at \notin {"gc", "done"}
    PROVE  lone = {}
<1>1. req[r] # Idle
  BY DEF Idle
<1> QED
  BY <1>1 DEF BundleInv

\* A handler at work takes a step.
LEMMA WorkerCarries ==
    ASSUME BundleInv, NEW r \in DOMAIN req, req[r].at \notin {"gc", "done"}, NEW h, Become(r, h),
           lone' = lone, Kept \subseteq Kept', Carries(h, Kept'),
           AllServed(load("packages")', docs', Kept'), OwnNamed(docs')
    PROVE  BundleInv'
<1> DEFINE k == IF h.at = "done" THEN Idle ELSE h
<1>1. req' = [req EXCEPT ![r] = k]
  BY DEF Become
<1>2. lone' = {}
  BY NoneAlone
<1>3. Carries(k, Kept')
  BY IdleCarries
<1> HIDE DEF k
<1> QED
  BY <1>1, <1>2, <1>3, MoverCarries

\* A handler at work answers.
LEMMA AnswererCarries ==
    ASSUME BundleInv, NEW r \in DOMAIN req, req[r].at \notin {"gc", "done"}, Answer(r),
           lone' = lone, Kept \subseteq Kept', AllServed(load("packages")', docs', Kept'),
           OwnNamed(docs')
    PROVE  BundleInv'
<1>1. lone' = {}
  BY NoneAlone
<1>2. Carries(Idle, Kept')
  BY IdleCarries
<1> QED
  BY <1>1, <1>2, MoverCarries DEF Answer

\* A handler opens.
LEMMA OpenerCarries ==
    ASSUME BundleInv, NEW r \in DOMAIN req, NEW h, MayOpen(r), Become(r, h),
           Kept \subseteq Kept', Carries(h, Kept'),
           AllServed(load("packages")', docs', Kept'), OwnNamed(docs')
    PROVE  BundleInv'
<1> DEFINE k == IF h.at = "done" THEN Idle ELSE h
<1>1. req' = [req EXCEPT ![r] = k] /\ lone' = {}
  BY DEF Become, MayOpen
<1>2. Carries(k, Kept')
  BY IdleCarries
<1> HIDE DEF k
<1> QED
  BY <1>1, <1>2, MoverCarries

LEMMA SameServed ==
    ASSUME BundleInv, UNCHANGED <<docs, file, torn>>, Kept \subseteq Kept'
    PROVE  AllServed(load("packages")', docs', Kept') /\ OwnNamed(docs')
<1>1. load("packages")' = load("packages") /\ docs' = docs
  BY DEF load
<1>2. AllServed(load("packages"), docs, Kept')
  BY ServedGrows DEF BundleInv
<1> QED
  BY <1>1, <1>2 DEF BundleInv

\* Nothing is stored or dropped.
LEMMA ChunksStand ==
    ASSUME UNCHANGED <<chunks, drop>> PROVE Kept' = Kept /\ lone' = lone
BY DEF Kept, drop

LEMMA TruncateServes ==
    ASSUME BundleInv, NEW r \in DOMAIN req, Truncate(r) PROVE BundleInv'
<1> DEFINE h == [req[r] EXCEPT !.at = "write"]
<1>1. Carries(req[r], Kept) /\ req[r].at = "truncate"
  BY DEF BundleInv, Truncate
<1>2. /\ Kept' = Kept /\ lone' = lone
      /\ docs' = docs /\ file' = file /\ torn \subseteq torn' /\ Become(r, h)
  BY ChunksStand DEF Truncate
<1>3. Carries(h, Kept')
  BY <1>1, <1>2 DEF Carries, Point, Fields, Idle
<1>4. load("packages")' = {} \/ load("packages")' = load("packages")
  BY <1>2 DEF load
<1>5. AllServed(load("packages")', docs', Kept') /\ OwnNamed(docs')
  BY <1>2, <1>4 DEF BundleInv, AllServed
<1> HIDE DEF h
<1> QED
  BY <1>1, <1>2, <1>3, <1>5, WorkerCarries

LEMMA WriteServes ==
    ASSUME GateInv, BundleInv, NEW r \in DOMAIN req, Write(r) PROVE BundleInv'
<1> DEFINE h == req[r]
           k == [h EXCEPT !.at = h.then, !.out = "none", !.todo = {}, !.then = "done"]
<1>1. Carries(h, Kept) /\ h.at = "write"
  BY DEF BundleInv, Write
<1>2. /\ Kept' = Kept /\ lone' = lone /\ docs' = docs /\ Become(r, k)
      /\ file' = [file EXCEPT ![h.out] = h.todo]
  BY ChunksStand DEF Write
<1>3. torn' = torn \ {h.out} \/ torn' = torn \union {h.out}
  BY DEF Write
<1>4. Carries(k, Kept')
  BY <1>1, <1>2 DEF Carries, Point, Fields, Idle
<1>5. load("packages")' \in {{}, load("packages")} \/ (h.out = "packages" /\ load("packages")' = h.todo)
  <2>1. CASE h.out = "packages"
    <3>1. file'["packages"] = h.todo
      BY <1>2, <2>1 DEF GateInv, Files
    <3> QED
      BY <2>1, <3>1 DEF load
  <2>2. CASE h.out # "packages"
    <3>1. file'["packages"] = file["packages"] /\ ("packages" \in torn' <=> "packages" \in torn)
      BY <1>2, <1>3, <2>2
    <3> QED
      BY <3>1 DEF load
  <2> QED
    BY <2>1, <2>2
<1>6. \A m \in load("packages")' : ServedBy(m, Kept)
  BY <1>1, <1>5 DEF BundleInv, AllServed, Carries
<1>7. AllServed(load("packages")', docs', Kept') /\ OwnNamed(docs')
  BY <1>2, <1>6 DEF BundleInv, AllServed
<1> HIDE DEF k
<1> QED
  BY <1>1, <1>2, <1>4, <1>7, WorkerCarries

LEMMA WantServes ==
    ASSUME BundleInv, NEW r \in DOMAIN req, Want(r) PROVE BundleInv'
<1> DEFINE h == [req[r] EXCEPT !.at = "check"]
<1>1. Carries(req[r], Kept) /\ req[r].at = "want"
  BY DEF BundleInv, Want
<1>2. /\ Kept' = Kept /\ lone' = lone
      /\ UNCHANGED <<docs, file, torn>> /\ (Answer(r) \/ Become(r, h))
  BY ChunksStand DEF Want, disk
<1>3. Carries(h, Kept')
  BY <1>1, <1>2 DEF Carries, Point, Fields, Idle
<1> HIDE DEF h
<1> QED
  BY <1>1, <1>2, <1>3, SameServed, WorkerCarries, AnswererCarries

\* The check asks for every chunk on disk.
LEMMA CheckServes ==
    ASSUME BundleInv, NEW r \in DOMAIN req, Check(r) PROVE BundleInv'
<1> DEFINE m == req[r].manifest[1]
           h == [req[r] EXCEPT !.at = "install"]
<1>1. Carries(req[r], Kept) /\ req[r].at = "check"
  BY DEF BundleInv, Check
<1>2. Kept' = Kept /\ lone' = lone /\ UNCHANGED <<docs, file, torn>>
  BY ChunksStand DEF Check, disk
<1>3. CASE Answer(r)
  BY <1>1, <1>2, <1>3, SameServed, AnswererCarries
<1>4. CASE check(m, req[r].trust) /\ Become(r, h)
  <2>1. ServedBy(m, Kept)
    BY <1>4 DEF ServedBy, check, missing, Kept
  <2>2. Carries(h, Kept')
    BY <1>1, <1>2, <2>1 DEF Carries, Point, Fields, Idle
  <2> HIDE DEF h
  <2> QED
    BY <1>1, <1>2, <1>4, <2>2, SameServed, WorkerCarries
<1> QED
  BY <1>3, <1>4 DEF Check

\* A handler that starts to save.
LEMMA SavingCarries ==
    ASSUME NEW h, NEW f, NEW content, NEW then, NEW C,
           DOMAIN h = Fields, h.op # "idle", then # "create",
           then = "install" => ServedBy(h.manifest[1], C),
           f = "packages" => \A m \in content : ServedBy(m, C)
    PROVE  Carries(Saving(h, f, content, then), C)
BY DEF Carries, Saving, Point, Fields

LEMMA AddModelServes ==
    ASSUME BundleInv, NEW r \in DOMAIN req, AddModel(r) PROVE BundleInv'
<1>1. PICK i, c : Become(r, Saving([req[r] EXCEPT !.next = i], "models", c, "install"))
  BY DEF AddModel
<1>2. Carries(req[r], Kept) /\ req[r].at = "install"
  BY DEF BundleInv, AddModel
<1>3. Kept' = Kept /\ lone' = lone /\ UNCHANGED <<docs, file, torn>>
  BY ChunksStand DEF AddModel, disk
<1> DEFINE h == [req[r] EXCEPT !.next = i]
<1>4. DOMAIN h = Fields /\ h.op # "idle" /\ ServedBy(h.manifest[1], Kept')
  BY <1>2, <1>3 DEF Carries, Point, Fields, Idle
<1> HIDE DEF h
<1>5. Become(r, Saving(h, "models", c, "install"))
  BY <1>1 DEF h
<1>6. Carries(Saving(h, "models", c, "install"), Kept')
  BY <1>4, SavingCarries
<1> QED
  BY <1>2, <1>3, <1>5, <1>6, SameServed, WorkerCarries

LEMMA RecordServes ==
    ASSUME BundleInv, NEW r \in DOMAIN req, Record(r) PROVE BundleInv'
<1> DEFINE m == req[r].manifest[1]
           new == put_package(load("packages"), m)
           h == Saving(req[r], "packages", new, "done")
<1>1. Carries(req[r], Kept) /\ req[r].at = "install"
  BY DEF BundleInv, Record
<1>2. Kept' = Kept /\ lone' = lone /\ UNCHANGED <<docs, file, torn>> /\ Become(r, h)
  BY ChunksStand DEF Record, disk
<1>3. ServedBy(m, Kept) /\ DOMAIN req[r] = Fields /\ req[r].op # "idle"
  BY <1>1 DEF Carries, Point, Idle
<1>4. \A p \in new : ServedBy(p, Kept')
  <2> HIDE DEF m
  <2> QED
    BY <1>2, <1>3 DEF put_package, remove, BundleInv, AllServed
<1>5. Carries(h, Kept')
  <2> HIDE DEF new
  <2> QED
    BY <1>3, <1>4, SavingCarries
<1> HIDE DEF h
<1> QED
  BY <1>1, <1>2, <1>5, SameServed, WorkerCarries

\* Every chunk of what the node answers for is a root.
LEMMA RootsServes ==
    ASSUME BundleInv, NEW r \in DOMAIN req, Roots(r) PROVE BundleInv'
<1> DEFINE keep == UNION {Range(b.chunks) : b \in blobs_to_keep}
           h == [req[r] EXCEPT !.at = "gc", !.keep = keep]
<1>1. Carries(req[r], Kept) /\ req[r].at = "roots"
  BY DEF BundleInv, Roots
<1>2. /\ Kept' = Kept /\ UNCHANGED <<docs, file, torn>> /\ Become(r, h)
      /\ lone' = {q \in {r} : \A p \in DOMAIN req \ {q} : ~ IsOpen(p)}
  BY DEF Roots, disk, Kept
<1>3. load("packages")' = load("packages") /\ docs' = docs
  BY <1>2 DEF load
<1>4. AllServed(load("packages"), docs, keep)
  <2>1. ASSUME NEW m \in load("packages") \union OwnOf(docs), NEW b \in Bundles(m)
        PROVE  b \in blobs_to_keep
    BY <2>1 DEF blobs_to_keep, live_blobs, OwnOf
  <2>2. ASSUME NEW m \in load("packages") \union OwnOf(docs), NEW b \in Bundles(m)
        PROVE  Range(b.chunks) \subseteq keep
    BY <2>1, <2>2
  <2> HIDE DEF keep
  <2> QED
    BY <2>2 DEF AllServed, ServedBy
<1> HIDE DEF keep
<1>5. Carries(h, Kept) /\ h.keep = keep /\ h.at = "gc"
  BY <1>1 DEF Carries, Point, Fields, Idle
<1> HIDE DEF h
<1>6. req' = [req EXCEPT ![r] = h]
  BY <1>2, <1>5 DEF Become
<1>7. DOMAIN req' = DOMAIN req /\ req'[r] = h /\ \A q \in DOMAIN req \ {r} : req'[q] = req[q]
  BY <1>6
<1>8. \A q \in DOMAIN req' : Carries(req'[q], Kept')
  BY <1>2, <1>5, <1>7 DEF BundleInv
<1>9. ASSUME NEW q \in lone'
      PROVE  /\ q \in DOMAIN req' /\ req'[q].at = "gc"
             /\ AllServed(load("packages")', docs', req'[q].keep)
             /\ \A p \in DOMAIN req' \ {q} : req'[p] = Idle
  <2>1. q = r /\ \A p \in DOMAIN req \ {r} : ~ IsOpen(p)
    BY <1>2
  <2>2. \A p \in DOMAIN req \ {r} : req[p] = Idle
    BY <2>1 DEF IsOpen, BundleInv, Carries
  <2>3. AllServed(load("packages")', docs', req'[q].keep)
    BY <1>3, <1>4, <1>5, <1>7, <2>1
  <2> QED
    BY <1>5, <1>7, <2>1, <2>2, <2>3
<1>10. AllServed(load("packages")', docs', Kept') /\ OwnNamed(docs')
  BY <1>2, SameServed
<1> QED
  BY <1>8, <1>9, <1>10 DEF BundleInv

\* What a collection drops is not the node's to keep, or is lost.
LEMMA CollectServes ==
    ASSUME BundleInv, NEW r \in DOMAIN req, Collect(r) PROVE BundleInv'
<1> DEFINE keep == req[r].keep
<1>1. /\ chunks' = chunks \intersect keep /\ docs' = docs /\ load("packages")' = load("packages")
      /\ lost' = IF r \in lone THEN lost ELSE lost \union (chunks \ keep)
      /\ lone' = {} /\ req' = [req EXCEPT ![r] = Idle]
  BY DEF Collect, gc, disk, load, Answer
<1>2. AllServed(load("packages"), docs, Kept) /\ OwnNamed(docs)
  BY DEF BundleInv
<1>3. Carries(Idle, Kept')
  BY IdleCarries
<1>4. CASE r \in lone
  <2>1. AllServed(load("packages"), docs, keep) /\ \A q \in DOMAIN req \ {r} : req[q] = Idle
    BY <1>4 DEF BundleInv
  <2>2. Kept \intersect keep \subseteq Kept'
    BY <1>1, <1>4 DEF Kept
  <2> HIDE DEF keep
  <2>3. AllServed(load("packages")', docs', Kept')
    BY <1>1, <1>2, <2>1, <2>2 DEF AllServed, ServedBy
  <2>4. \A q \in DOMAIN req' : req'[q] = Idle
    BY <1>1, <2>1
  <2> QED
    BY <1>1, <1>2, <1>3, <2>3, <2>4 DEF BundleInv
<1>5. CASE r \notin lone
  <2>1. Kept' = Kept
    BY <1>1, <1>5 DEF Kept
  <2>2. AllServed(load("packages")', docs', Kept') /\ OwnNamed(docs')
    BY <1>1, <1>2, <2>1
  <2> QED
    BY <1>1, <1>3, <2>1, <2>2, MoverCarries
<1> QED
  BY <1>4, <1>5

\* A draft's bundle is named by what it holds.
LEMMA SignedBundle ==
    ASSUME NEW draft \in Drafts
    PROVE  /\ draft.bundle = <<>> => Bundles(Signed(draft)) = {}
           /\ draft.bundle # <<>> => Bundles(Signed(draft)) = {of(draft.bundle[1])}
<1> DEFINE n == [i \in DOMAIN draft.bundle |-> of(draft.bundle[i])]
<1>1. Signed(draft).bundle = n
  BY DraftsAreDrafts DEF Signed, sign
<1>2. CASE draft.bundle = <<>>
  <2>1. DOMAIN n = {}
    BY <1>2
  <2> HIDE DEF n
  <2> QED
    BY <1>1, <1>2, <2>1 DEF Bundles, Range
<1>3. CASE draft.bundle # <<>>
  <2>1. draft.bundle = <<draft.bundle[1]>>
    BY <1>3, DraftsAreDrafts
  <2>2. PICK c : c = draft.bundle[1]
    OBVIOUS
  <2>3. DOMAIN draft.bundle = {1}
    BY <2>1
  <2>4. DOMAIN n = {1} /\ n[1] = of(c)
    BY <2>2, <2>3
  <2> HIDE DEF n
  <2>5. Range(n) = {of(c)}
    BY <2>4 DEF Range
  <2> QED
    BY <1>1, <1>3, <2>2, <2>5 DEF Bundles
<1> QED
  BY <1>2, <1>3

LEMMA SignedIsNamed ==
    ASSUME NEW draft \in Drafts PROVE Named(Signed(draft))
<1>1. \A c : of(c).hash = of(c).chunks
  BY DEF of
<1> QED
  BY <1>1, SignedBundle DEF Named

\* A document of this node is made from a draft whose chunks were stored.
LEMMA CreateServes ==
    ASSUME GateInv, BundleInv, NEW r \in DOMAIN req, Create(r) PROVE BundleInv'
<1> DEFINE draft == req[r].manifest[1]
           m == Signed(draft)
<1>1. /\ Carries(req[r], Kept) /\ req[r].at = "create" /\ draft \in Drafts
      /\ ServedBy(m, Kept)
  BY DEF GateInv, BundleInv, Create, Vouches, Carries, Point
<1>2. Named(m)
  BY <1>1, SignedIsNamed
<1>4. docs' = WithDoc(DocOf(m), <<m>>) \/ docs' = docs
  BY DEF Create
<1>5. Kept' = Kept /\ lone' = lone /\ UNCHANGED <<file, torn>> /\ Answer(r)
  BY ChunksStand DEF Create, disk
<1>6. load("packages")' = load("packages")
  BY <1>5 DEF load
<1> HIDE DEF m
<1>7. Range(<<m>>) = {m}
  BY DEF Range
<1>8. OwnOf(docs') \subseteq OwnOf(docs) \union {m}
  BY <1>4, <1>7 DEF OwnOf, WithDoc
<1>9. AllServed(load("packages")', docs', Kept') /\ OwnNamed(docs')
  BY <1>1, <1>2, <1>5, <1>6, <1>8 DEF BundleInv, AllServed, OwnNamed
<1> QED
  BY <1>1, <1>5, <1>9, AnswererCarries

LEMMA SaveFailsServes ==
    ASSUME BundleInv, NEW r \in DOMAIN req, SaveFails(r) PROVE BundleInv'
<1>1. /\ Kept' = Kept /\ lone' = lone /\ UNCHANGED <<docs, file, torn>> /\ Answer(r)
      /\ req[r].at \notin {"gc", "done"}
  BY ChunksStand DEF SaveFails, disk
<1> QED
  BY <1>1, SameServed, AnswererCarries

LEMMA OpeningIsFresh ==
    ASSUME NEW op, op # "idle"
    PROVE  DOMAIN Opening(op) = Fields /\ Opening(op).op # "idle"
BY DEF Opening, Idle, Fields

LEMMA OpenInstallServes ==
    ASSUME BundleInv, NEW r \in DOMAIN req, NEW d, NEW accept, OpenInstall(r, d, accept)
    PROVE  BundleInv'
<1>1. Kept' = Kept /\ UNCHANGED <<docs, file, torn>> /\ MayOpen(r)
  BY DEF OpenInstall, disk, Kept
<1>2. PICK h : Become(r, h) /\ Carries(h, Kept)
  <2> DEFINE m == docs[d][1]
             t == load("publishers")
             o == [Opening("install") EXCEPT !.manifest = <<m>>]
             n == trust_key(t, m.publisher_key, m.publisher)
             a == [o EXCEPT !.at = "want", !.trust = t]
             k == [o EXCEPT !.trust = n]
             b == Saving(k, "publishers", n, "want")
  <2>1. Carries(a, Kept)
    BY DEF Opening, Idle, Carries, Point, Fields
  <2>2. DOMAIN k = Fields /\ k.op # "idle"
    BY DEF Opening, Idle, Fields
  <2>3. Become(r, a) \/ Become(r, b)
    BY DEF OpenInstall, manifest_of
  <2> HIDE DEF a, k, n
  <2>4. Carries(b, Kept)
    BY <2>2, SavingCarries
  <2> QED
    BY <2>1, <2>3, <2>4
<1> QED
  BY <1>1, <1>2, SameServed, OpenerCarries

\* A handler that opens with a file to save.
LEMMA SaverServes ==
    ASSUME BundleInv, NEW r \in DOMAIN req, NEW op, op # "idle",
           NEW f, NEW content, NEW then \in {"roots", "done"},
           MayOpen(r), UNCHANGED <<chunks, lost, docs, file, torn>>,
           Become(r, Saving(Opening(op), f, content, then)),
           f = "packages" => content \subseteq load("packages")
    PROVE  BundleInv'
<1> DEFINE h == Saving(Opening(op), f, content, then)
<1>1. DOMAIN Opening(op) = Fields /\ Opening(op).op # "idle" /\ Kept' = Kept
  BY OpeningIsFresh DEF Kept
<1>2. f = "packages" => \A m \in content : ServedBy(m, Kept')
  BY <1>1 DEF BundleInv, AllServed
<1>3. Carries(h, Kept')
  BY <1>1, <1>2, SavingCarries
<1> HIDE DEF h
<1>4. Become(r, h)
  BY DEF h
<1> QED
  BY <1>1, <1>3, <1>4, SameServed, OpenerCarries

LEMMA PublishServes ==
    ASSUME BundleInv, NEW r \in DOMAIN req, NEW draft \in Drafts, Publish(r, draft)
    PROVE  BundleInv'
<1> DEFINE h == [Opening("publish") EXCEPT !.at = "create", !.manifest = <<draft>>]
<1>1. UNCHANGED <<docs, file, torn>> /\ MayOpen(r) /\ Become(r, h)
  BY DEF Publish, disk
<1>2. Kept \subseteq Kept' /\ ServedBy(Signed(draft), Kept')
  <2>1. CASE draft.bundle = <<>>
    BY <2>1, SignedBundle DEF ServedBy, Publish, Kept
  <2>2. CASE draft.bundle # <<>>
    <3>1. PICK b : b = of(draft.bundle[1])
      OBVIOUS
    <3>2. chunks' = chunks \union Range(b.chunks) /\ lost' = lost \ Range(b.chunks)
      BY <2>2, <3>1 DEF Publish, put, Store
    <3>3. Bundles(Signed(draft)) = {b}
      BY <2>2, <3>1, SignedBundle
    <3> QED
      BY <3>2, <3>3 DEF ServedBy, Kept
  <2> QED
    BY <2>1, <2>2
<1>3. Carries(h, Kept')
  <2>1. DOMAIN h = Fields /\ h.op = "publish" /\ h.at = "create" /\ h.manifest[1] = draft /\ h.out = "none"
    BY DEF Opening, Idle, Fields
  <2> HIDE DEF h
  <2> QED
    BY <1>2, <2>1 DEF Carries, Point
<1> HIDE DEF h
<1> QED
  BY <1>1, <1>2, <1>3, SameServed, OpenerCarries

LEMMA AskServes ==
    ASSUME BundleInv, NEW r \in DOMAIN req, Ask(r) PROVE BundleInv'
<1>1. ASSUME NEW d, NEW accept, Install(r, d, accept) PROVE BundleInv'
  BY <1>1, OpenInstallServes DEF Install
<1>2. ASSUME NEW name, Uninstall(r, name) PROVE BundleInv'
  <2> DEFINE new == remove(load("packages"), name)
  <2>1. new \subseteq load("packages")
    BY DEF remove
  <2>2. /\ Become(r, Saving(Opening("uninstall"), "packages", new, "roots"))
        /\ MayOpen(r) /\ UNCHANGED <<chunks, lost, docs, file, torn>>
    BY <1>2 DEF Uninstall, disk
  <2> HIDE DEF new
  <2> QED
    BY <2>1, <2>2, SaverServes
<1>3. ASSUME NEW key, RevokePublisher(r, key) PROVE BundleInv'
  <2>1. PICK new : Become(r, Saving(Opening("revoke"), "publishers", new, "done"))
    BY <1>3 DEF RevokePublisher
  <2>2. MayOpen(r) /\ UNCHANGED <<chunks, lost, docs, file, torn>>
    BY <1>3 DEF RevokePublisher, disk
  <2> QED
    BY <2>1, <2>2, SaverServes
<1>4. ASSUME NEW key, NEW name, TrustPublisher(r, key, name) PROVE BundleInv'
  <2>1. PICK new : Become(r, Saving(Opening("trust"), "publishers", new, "done"))
    BY <1>4 DEF TrustPublisher
  <2>2. MayOpen(r) /\ UNCHANGED <<chunks, lost, docs, file, torn>>
    BY <1>4 DEF TrustPublisher, disk
  <2> QED
    BY <2>1, <2>2, SaverServes
<1>5. ASSUME NEW def, RegisterModel(r, def) PROVE BundleInv'
  <2>1. PICK new : Become(r, Saving(Opening("register"), "models", new, "done"))
    BY <1>5 DEF RegisterModel
  <2>2. MayOpen(r) /\ UNCHANGED <<chunks, lost, docs, file, torn>>
    BY <1>5 DEF RegisterModel, disk
  <2> QED
    BY <2>1, <2>2, SaverServes
<1> QED
  BY <1>1, <1>2, <1>3, <1>4, <1>5, PublishServes DEF Ask

LEMMA StepServes ==
    ASSUME GateInv, BundleInv, NEW r \in DOMAIN req, Step(r) PROVE BundleInv'
BY TruncateServes, WriteServes, WantServes, CheckServes, AddModelServes, RecordServes,
   RootsServes, CollectServes, CreateServes DEF Step

\* Steps that move no handler: what is to be kept does not grow, for a
\* document that arrives is another publisher's.
LEMMA OthersServe ==
    ASSUME BundleInv, req' = req, lone' = lone, UNCHANGED <<file, torn>>,
           Kept \subseteq Kept', OwnOf(docs') \subseteq OwnOf(docs)
    PROVE  BundleInv'
<1>1. load("packages")' = load("packages")
  BY DEF load
<1>2. ASSUME NEW C, AllServed(load("packages"), docs, C) PROVE AllServed(load("packages")', docs', C)
  BY <1>1, <1>2 DEF AllServed
<1>3. AllServed(load("packages")', docs', Kept') /\ OwnNamed(docs')
  BY <1>2, ServedGrows DEF BundleInv, OwnNamed
<1>4. \A r \in DOMAIN req : Carries(req[r], Kept')
  BY CarriesGrows DEF BundleInv
<1>5. \A r \in lone : /\ r \in DOMAIN req /\ req[r].at = "gc"
                      /\ AllServed(load("packages")', docs', req[r].keep)
                      /\ \A q \in DOMAIN req \ {r} : req[q] = Idle
  BY <1>2 DEF BundleInv
<1> QED
  BY <1>3, <1>4, <1>5 DEF BundleInv

LEMMA NextServes ==
    ASSUME GateInv, BundleInv, [Next]_vars PROVE BundleInv'
<1>1. CASE \E r \in DOMAIN req : Step(r) \/ SaveFails(r) \/ Ask(r)
  BY <1>1, StepServes, SaveFailsServes, AskServes
<1>2. CASE \E r \in DOMAIN req, d \in Wanted : Retry(r, d)
  BY <1>2, OpenInstallServes DEF Retry
<1>3. CASE \/ \E b \in fetches : FetchBlob(b)
           \/ \E q \in wire : ChunkLost(q)
           \/ UNCHANGED vars
  <2>1. req' = req /\ UNCHANGED <<file, torn>> /\ UNCHANGED <<chunks, drop>> /\ docs' = docs
    BY <1>3 DEF FetchBlob, ChunkLost, vars, disk
  <2> QED
    BY <2>1, OthersServe, ChunksStand
<1>4. ASSUME NEW q \in wire, ChunkData(q) PROVE BundleInv'
  <2>1. req' = req /\ lone' = lone /\ UNCHANGED <<file, torn>> /\ docs' = docs
    BY <1>4 DEF ChunkData, disk
  <2>2. Kept \subseteq Kept'
    BY <1>4 DEF ChunkData, Store, Kept
  <2> QED
    BY <2>1, <2>2, OthersServe
<1>5. ASSUME NEW d \in DOMAIN Offers, Arrive(d) PROVE BundleInv'
  <2>1. /\ docs' = WithDoc(d, Offers[d]) /\ req' = req /\ UNCHANGED <<file, torn>>
        /\ UNCHANGED <<chunks, drop>>
    BY <1>5 DEF Arrive, disk
  <2>2. \A m \in Range(Offers[d]) : m.publisher_key # Me
    BY OffersAreOthers
  <2>3. OwnOf(docs') \subseteq OwnOf(docs)
    BY <2>1, <2>2 DEF OwnOf, WithDoc
  <2> QED
    BY <2>1, <2>3, OthersServe, ChunksStand
<1>6. ASSUME NEW d \in Deletable, Delete(d) PROVE BundleInv'
  <2>1. /\ docs' = [e \in DOMAIN docs \ {d} |-> docs[e]]
        /\ req' = req /\ UNCHANGED <<file, torn>> /\ UNCHANGED <<chunks, drop>>
    BY <1>6 DEF Delete, disk
  <2>2. OwnOf(docs') \subseteq OwnOf(docs)
    BY <2>1 DEF OwnOf
  <2> QED
    BY <2>1, <2>2, OthersServe, ChunksStand
<1>7. CASE Restart
  <2>1. /\ Kept' = Kept /\ lone' = {} /\ UNCHANGED <<docs, file, torn>>
        /\ \A r \in DOMAIN req' : req'[r] = Idle
    BY <1>7 DEF Restart, disk, Kept
  <2>2. Carries(Idle, Kept')
    BY IdleCarries
  <2> QED
    BY <2>1, <2>2, SameServed DEF BundleInv
<1> QED
  BY <1>1, <1>2, <1>3, <1>4, <1>5, <1>6, <1>7 DEF Next

LEMMA InitServes ==
    ASSUME Init PROVE BundleInv
<1>1. load("packages") = {} /\ lone = {}
  BY DEF Init, load
<1>2. OwnOf(docs) = {}
  BY OffersAreOthers DEF Init, OwnOf
<1>3. AllServed(load("packages"), docs, Kept) /\ OwnNamed(docs)
  BY <1>1, <1>2 DEF AllServed, OwnNamed
<1>4. Carries(Idle, Kept)
  BY IdleCarries
<1> QED
  BY <1>1, <1>3, <1>4 DEF Init, BundleInv

LEMMA BundleInvServes ==
    ASSUME BundleInv PROVE BundlesHeld
<1>1. Own = OwnOf(docs)
  BY DEF Own, OwnOf
<1>2. \A m \in load("packages") \union Own : Lacks(m) \subseteq lost
  BY <1>1 DEF BundleInv, AllServed, ServedBy, Lacks, missing, Kept
<1>3. ASSUME NEW m \in Own, Lacks(m) = {} PROVE Serves(m)
  <2>1. \A b \in Bundles(m) : missing(b) = {}
    BY <1>3 DEF Lacks
  <2>2. Named(m)
    BY <1>1 DEF BundleInv, OwnNamed
  <2> QED
    BY <2>1, <2>2 DEF Serves, get, Named
<1> QED
  BY <1>2, <1>3 DEF BundlesHeld

\* Every bundle of an installed package and of a package this node publishes is
\* whole, whatever handlers overlap and whatever publishers have signed, but for
\* the chunks that an uninstall dropped while another handler was at work
\* between its list of roots and its collection (uninstall, blobs_to_keep, gc).
THEOREM BundlesStayWhole == Spec => []BundlesHeld
<1>1. Init => GateInv /\ BundleInv
  BY InitGood, InitServes
<1>2. GateInv /\ BundleInv /\ [Next]_vars => GateInv' /\ BundleInv'
  BY NextGood, NextServes DEF Good
<1>3. BundleInv => BundlesHeld
  BY BundleInvServes
<1> QED
  BY <1>1, <1>2, <1>3, PTL DEF Spec

=============================================================================

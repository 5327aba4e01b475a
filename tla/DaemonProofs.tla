---------------------------- MODULE DaemonProofs ----------------------------
(***************************************************************************)
(* Proofs about the daemon's loop.  Three things travel over the two queues*)
(* between the loop and its engine: the drives, the bans and the invites.  *)
(* For each the invariant says what is still under way when the two sides  *)
(* differ: a command or event that sets right what a side has wrong, later *)
(* in its queue than every one that sets it wrong.                         *)
(***************************************************************************)
EXTENDS Daemon, SetFacts, SequenceTheorems

\* The engine commands and events.
DriveCmd ==
    [op : {"add", "join", "pause"}, n : AllNames, paused : BOOLEAN]
        \cup [op : {"remove", "resync"}, n : AllNames]
BanCmds == [op : {"ban", "unban"}, p : Peers]
Cmd == DriveCmd \cup BanCmds
Event ==
    [ev : {"status"}, n : AllNames, s : {"connecting", "synced", "offline", "error"}]
        \cup [ev : {"joined"}, n : Joined]
        \cup [ev : {"banned"}, p : Peers]
        \cup [ev : {"accepted"}, n : Joined, t : Nat]

\* A member of `good` is in the queue; every member of `bad` in it has a
\* member of `good` behind it.
Has(queue, good) == \E k \in 1..Len(queue) : queue[k] \in good
Mended(queue, bad, good) ==
    \A i \in 1..Len(queue) :
        queue[i] \in bad => \E k \in 1..Len(queue) : k > i /\ queue[k] \in good

\* The commands that put a drive into the engine's table, take it out, and
\* set its flag; those that ban and unban a peer; the events that follow what
\* the engine did by itself.
Puts(n) == {c \in DriveCmd : c.op \in {"add", "join"} /\ c.n = n}
Takes(n) == {c \in DriveCmd : c.op = "remove" /\ c.n = n}
Marks(n, p) == {c \in DriveCmd : c.op \in {"add", "join", "pause"} /\ c.n = n /\ c.paused = p}
Bans(p) == {c \in BanCmds : c.op = "ban" /\ c.p = p}
Unbans(p) == {c \in BanCmds : c.op = "unban" /\ c.p = p}
JoinedEvent(n) == {e \in Event : e.ev = "joined" /\ e.n = n}
BannedEvent(p) == {e \in Event : e.ev = "banned" /\ e.p = p}
AcceptedEvent(t, n) == {e \in Event : e.ev = "accepted" /\ e.t = t /\ e.n = n}

DriveNames == DOMAIN cfg.drives

Invites == [minted : Seq(Grants \cup {{OwnName}}), open : SUBSET Nat, here : SUBSET Nat,
            shown : SUBSET (Nat \X Joined), granted : SUBSET (Nat \X Joined \X Groups)]
Views == [AllNames -> {"connecting", "synced", "offline", "error", NoView}]

\* The type invariant, with what is in the queues and the views.
LoopTypes ==
    /\ newer \in BOOLEAN /\ file.kind \in FileKinds /\ file.val \in Config
    /\ cfg \in Config /\ known \subseteq AllNames /\ views \in Views
    /\ fails \in 0..MaxFails
QueueTypes == chan \in Seq(Cmd) /\ evts \in Seq(Event)
BanTypes == bans \in [mem : SUBSET Peers, disk : SUBSET Peers] /\ refused \subseteq Peers
CliTypes == cli.loaded \in BOOLEAN /\ (cli.loaded => cli.val \in Config)
InviteTypes ==
    /\ inv \in Invites
    /\ inv.open \subseteq inv.here /\ inv.here \subseteq 1..Len(inv.minted)
    /\ \A u \in inv.granted : u[1] \in 1..Len(inv.minted)

CoreTypes ==
    /\ LoopTypes /\ QueueTypes /\ BanTypes /\ CliTypes /\ InviteTypes
    /\ up \in BOOLEAN /\ table \in Drives /\ left \in [Purses -> Nat]

\* How far a save is, and the history variables.
SaveTypes ==
    /\ save.at \in {"idle", "read", "written"} /\ save.due \in Nat
    /\ writer \in {"daemon", "other", "during"} /\ misnamed \subseteq AllNames

DaemonTypes == CoreTypes /\ SaveTypes

\* A drive that is not configured and that the engine has, or is yet to be
\* told of, is removed later, or its joining is not yet known to the loop.
StrayIsTaken(n) ==
    \/ Has(evts, JoinedEvent(n))
    \/ /\ n \in DOMAIN table => Has(chan, Takes(n))
       /\ Mended(chan, Puts(n), Takes(n))

\* A drive of the user's is in the engine's table or on its way there, and the
\* last word on its flag is the configuration's.
UsersDriveIsPut(n) ==
    /\ n \in DOMAIN table \/ Has(chan, Puts(n))
    /\ Mended(chan, Takes(n), Puts(n))
UsersFlagIsMarked(n) ==
    /\ n \in DOMAIN table /\ table[n] # cfg.drives[n] => Has(chan, Marks(n, cfg.drives[n]))
    /\ \A p \in BOOLEAN :
          p # cfg.drives[n] => Mended(chan, Marks(n, p), Marks(n, cfg.drives[n]))

\* The names that were always given in full: each is known to the engine's side
\* exactly when it is configured.
Plain == AllNames \ misnamed

DrivesInv ==
    /\ \A n \in Plain : n \in known <=> n \in DriveNames
    /\ \A n \in Plain \ DriveNames : StrayIsTaken(n)
    /\ fails = 0 => \A n \in Plain \cap DriveNames \cap Names :
                        UsersDriveIsPut(n) /\ UsersFlagIsMarked(n)

\* A peer that is not banned and that the engine refuses, or is yet to be told
\* to, is unbanned later, or its automatic ban is not yet known to the loop.
BanIsLifted(p) ==
    \/ Has(evts, BannedEvent(p))
    \/ /\ p \in refused => Has(chan, Unbans(p))
       /\ Mended(chan, Bans(p), Unbans(p))

BansInv == fails = 0 => \A p \in Peers \ bans.mem : BanIsLifted(p)

\* An invite of this process that is no longer open has let in one of those
\* who showed it, unless open ones were forgotten; one that is open and was
\* shown has its event under way; and no grant was made on an open one.
LetIn(t, n) ==
    /\ <<t, n>> \in inv.shown
    /\ \A g \in inv.minted[t] \cap Groups : \E u \in inv.granted : Tail(u) = <<n, g>>

InvitesInv ==
    /\ \A u \in inv.granted : u[1] \notin inv.open
    /\ \A a, b \in inv.granted : a[1] = b[1] => a[2] = b[2]
    /\ \A t \in Nat, n \in Joined :
          /\ <<t, n>> \in inv.shown => t <= Len(inv.minted)
          /\ <<t, n>> \in inv.shown /\ t \in inv.open => Has(evts, AcceptedEvent(t, n))
          /\ Has(evts, AcceptedEvent(t, n)) => <<t, n>> \in inv.shown
    /\ Cardinality(inv.here) <= MaxPending + 1 =>
          \A t \in inv.here \ inv.open : \E n \in Joined : LetIn(t, n)

-----------------------------------------------------------------------------
(* Queues                                                                  *)

\* What is sent last mends all before it, and must itself be mended.
LEMMA MendedConcat ==
    ASSUME NEW S, NEW s \in Seq(S), NEW t \in Seq(S), NEW bad, NEW good
    PROVE  /\ s \o t \in Seq(S)
           /\ Has(s \o t, good) <=> Has(s, good) \/ Has(t, good)
           /\ Mended(t, bad, good) /\ (Mended(s, bad, good) \/ Has(t, good))
                => Mended(s \o t, bad, good)
<1> DEFINE u == s \o t
<1>1. /\ u \in Seq(S) /\ Len(u) = Len(s) + Len(t)
      /\ Len(s) \in Nat /\ Len(t) \in Nat
      /\ \A i \in 1..Len(s) : i \in 1..Len(u) /\ u[i] = s[i]
      /\ \A i \in 1..Len(t) : i + Len(s) \in 1..Len(u) /\ u[i + Len(s)] = t[i]
  BY ConcatProperties, LenProperties
<1>2. \A i \in 1..Len(u) : i \in 1..Len(s) \/ \E j \in 1..Len(t) : i = j + Len(s)
  <2> SUFFICES ASSUME NEW i \in 1..Len(u), i \notin 1..Len(s)
               PROVE  \E j \in 1..Len(t) : i = j + Len(s)
    OBVIOUS
  <2>1. i - Len(s) \in 1..Len(t) /\ i = (i - Len(s)) + Len(s)
    BY <1>1
  <2> QED BY <2>1
<1> HIDE DEF u
<1>3. Has(u, good) <=> Has(s, good) \/ Has(t, good)
  BY <1>1, <1>2 DEF Has
<1>4. ASSUME Mended(t, bad, good), Mended(s, bad, good) \/ Has(t, good)
      PROVE  Mended(u, bad, good)
  <2> SUFFICES ASSUME NEW i \in 1..Len(u), u[i] \in bad
               PROVE  \E k \in 1..Len(u) : k > i /\ u[k] \in good
    BY DEF Mended
  <2>1. CASE i \in 1..Len(s)
    <3>1. CASE Has(t, good)
      <4>1. PICK k \in 1..Len(t) : t[k] \in good
        BY <3>1 DEF Has
      <4>2. k + Len(s) \in 1..Len(u) /\ k + Len(s) > i /\ u[k + Len(s)] \in good
        BY <1>1, <2>1, <4>1
      <4> QED BY <4>2
    <3>2. CASE Mended(s, bad, good)
      BY <1>1, <2>1, <3>2 DEF Mended
    <3> QED BY <1>4, <3>1, <3>2
  <2>2. CASE i \notin 1..Len(s)
    <3>1. PICK j \in 1..Len(t) : i = j + Len(s)
      BY <1>2, <2>2
    <3>2. PICK k \in 1..Len(t) : k > j /\ t[k] \in good
      BY <1>1, <1>4, <3>1 DEF Mended
    <3>3. k + Len(s) \in 1..Len(u) /\ k + Len(s) > i /\ u[k + Len(s)] \in good
      BY <1>1, <3>1, <3>2
    <3> QED BY <3>3
  <2> QED BY <2>1, <2>2
<1> QED BY <1>1, <1>3, <1>4 DEF u

\* The first member is taken off.
LEMMA MendedTail ==
    ASSUME NEW S, NEW s \in Seq(S), s # <<>>, NEW bad, NEW good
    PROVE  /\ Tail(s) \in Seq(S) /\ Head(s) \in S
           /\ Has(s, good) <=> Head(s) \in good \/ Has(Tail(s), good)
           /\ Mended(s, bad, good) =>
                /\ Mended(Tail(s), bad, good)
                /\ Head(s) \in bad => Has(Tail(s), good)
<1>1. /\ Tail(s) \in Seq(S) /\ Head(s) \in S /\ Head(s) = s[1] /\ Len(s) \in Nat \ {0}
      /\ Len(Tail(s)) = Len(s) - 1
      /\ \A i \in 1..Len(Tail(s)) : i + 1 \in 1..Len(s) /\ Tail(s)[i] = s[i + 1]
  BY HeadTailProperties, EmptySeq
<1> DEFINE t == Tail(s)
<1>2. \A i \in 1..Len(s) : i = 1 \/ \E j \in 1..Len(t) : i = j + 1
  <2> SUFFICES ASSUME NEW i \in 1..Len(s), i # 1 PROVE \E j \in 1..Len(t) : i = j + 1
    OBVIOUS
  <2>1. i - 1 \in 1..Len(t) /\ i = (i - 1) + 1
    BY <1>1
  <2> QED BY <2>1
<1>3. 1 \in 1..Len(s)
  BY <1>1
<1> HIDE DEF t
<1>4. Has(s, good) <=> Head(s) \in good \/ Has(t, good)
  BY <1>1, <1>2, <1>3 DEF Has, t
<1>5. ASSUME Mended(s, bad, good)
      PROVE  Mended(t, bad, good)
  <2> SUFFICES ASSUME NEW i \in 1..Len(t), t[i] \in bad
               PROVE  \E k \in 1..Len(t) : k > i /\ t[k] \in good
    BY DEF Mended
  <2>1. PICK k \in 1..Len(s) : k > i + 1 /\ s[k] \in good
    BY <1>1, <1>5 DEF Mended, t
  <2>2. PICK j \in 1..Len(t) : k = j + 1
    BY <1>1, <1>2, <2>1 DEF t
  <2>3. j > i /\ t[j] \in good
    BY <1>1, <2>1, <2>2 DEF t
  <2> QED BY <2>3
<1>6. ASSUME Mended(s, bad, good), Head(s) \in bad
      PROVE  Has(t, good)
  <2>1. PICK k \in 1..Len(s) : k > 1 /\ s[k] \in good
    BY <1>1, <1>3, <1>6 DEF Mended
  <2>2. PICK j \in 1..Len(t) : k = j + 1
    BY <1>2, <2>1
  <2> QED BY <1>1, <2>1, <2>2 DEF Has, t
<1> QED BY <1>1, <1>4, <1>5, <1>6 DEF t

\* An empty queue has nothing, one without bad members is mended.
LEMMA MendedNone ==
    ASSUME NEW s, NEW bad, NEW good, ~ Has(s, bad)
    PROVE  Mended(s, bad, good)
BY DEF Has, Mended

LEMMA HasNone ==
    ASSUME NEW good
    PROVE  ~ Has(<<>>, good)
BY DEF Has

LEMMA HasOne ==
    ASSUME NEW S, NEW x \in S, NEW good
    PROVE  /\ <<x>> \in Seq(S)
           /\ Has(<<x>>, good) <=> x \in good
<1>1. Len(<<x>>) = 1 /\ <<x>>[1] = x /\ <<x>> \in Seq(S)
  OBVIOUS
<1>2. \A k \in 1..1 : k = 1
  OBVIOUS
<1>3. 1 \in 1..1
  OBVIOUS
<1> QED BY <1>1, <1>2, <1>3 DEF Has

\* A function on 1..n is a queue of length n.
LEMMA ListIsQueue ==
    ASSUME NEW n \in Nat, NEW S, NEW f \in [1..n -> S], NEW good
    PROVE  /\ f \in Seq(S) /\ Len(f) = n
           /\ Has(f, good) <=> \E k \in 1..n : f[k] \in good
<1>1. f \in Seq(S)
  BY SeqDef
<1>2. Len(f) = n
  BY <1>1, LenProperties
<1> QED BY <1>1, <1>2 DEF Has

LEMMA HasTwo ==
    ASSUME NEW S, NEW x \in S, NEW y \in S, NEW good
    PROVE  /\ <<x, y>> \in Seq(S)
           /\ Has(<<x, y>>, good) <=> x \in good \/ y \in good
<1>1. Len(<<x, y>>) = 2 /\ <<x, y>>[1] = x /\ <<x, y>>[2] = y /\ <<x, y>> \in Seq(S)
  OBVIOUS
<1>2. \A k \in 1..2 : k = 1 \/ k = 2
  OBVIOUS
<1>3. 1 \in 1..2 /\ 2 \in 1..2
  OBVIOUS
<1> QED BY <1>1, <1>2, <1>3 DEF Has

-----------------------------------------------------------------------------
(* Drive tables and the commands made from them                            *)

LEMMA DrivesAre ==
    ASSUME NEW f
    PROVE  f \in Drives <=> DOMAIN f \subseteq AllNames /\ f \in [DOMAIN f -> BOOLEAN]
BY DEF Drives

LEMMA NoDrives == <<>> \in Drives /\ DOMAIN <<>> = {}
<1>1. DOMAIN <<>> = {}
  OBVIOUS
<1>2. <<>> \in [{} -> BOOLEAN]
  BY <1>1
<1> QED BY <1>1, <1>2 DEF Drives

LEMMA WithDrive ==
    ASSUME NEW f \in Drives, NEW n \in AllNames, NEW v \in BOOLEAN
    PROVE  /\ With(f, n, v) \in Drives
           /\ DOMAIN With(f, n, v) = DOMAIN f \cup {n}
           /\ With(f, n, v)[n] = v
           /\ \A m \in DOMAIN f : m # n => With(f, n, v)[m] = f[m]
<1>1. DOMAIN f \subseteq AllNames /\ f \in [DOMAIN f -> BOOLEAN]
  BY DrivesAre
<1>2. /\ DOMAIN With(f, n, v) = DOMAIN f \cup {n}
      /\ With(f, n, v) \in [DOMAIN f \cup {n} -> BOOLEAN]
      /\ With(f, n, v)[n] = v
      /\ \A m \in DOMAIN f : m # n => With(f, n, v)[m] = f[m]
  BY <1>1 DEF With
<1> QED BY <1>1, <1>2, DrivesAre

LEMMA WithoutDrives ==
    ASSUME NEW f \in Drives, NEW S
    PROVE  /\ Without(f, S) \in Drives
           /\ DOMAIN Without(f, S) = DOMAIN f \ S
           /\ \A m \in DOMAIN f \ S : Without(f, S)[m] = f[m]
<1>1. DOMAIN f \subseteq AllNames /\ f \in [DOMAIN f -> BOOLEAN]
  BY DrivesAre
<1>2. /\ DOMAIN Without(f, S) = DOMAIN f \ S
      /\ Without(f, S) \in [DOMAIN f \ S -> BOOLEAN]
      /\ \A m \in DOMAIN f \ S : Without(f, S)[m] = f[m]
  BY <1>1 DEF Without
<1> QED BY <1>1, <1>2, DrivesAre

LEMMA FlagDrive ==
    ASSUME NEW f \in Drives, NEW d \in DOMAIN f, NEW p \in BOOLEAN
    PROVE  /\ [f EXCEPT ![d] = p] \in Drives
           /\ DOMAIN [f EXCEPT ![d] = p] = DOMAIN f
           /\ [f EXCEPT ![d] = p][d] = p
           /\ \A m \in DOMAIN f : m # d => [f EXCEPT ![d] = p][m] = f[m]
<1>1. DOMAIN f \subseteq AllNames /\ f \in [DOMAIN f -> BOOLEAN]
  BY DrivesAre
<1>2. [f EXCEPT ![d] = p] \in [DOMAIN f -> BOOLEAN]
  BY <1>1
<1> QED BY <1>1, <1>2, DrivesAre

\* The finite sets of names, and the order SetToSeq lists them in.
LEMMA NamesAreListed ==
    ASSUME NEW S \in SUBSET AllNames
    PROVE  /\ Cardinality(S) \in Nat
           /\ SetToSeq(S) \in [1..Cardinality(S) -> S]
           /\ \A x \in S : \E i \in 1..Cardinality(S) : SetToSeq(S)[i] = x
BY KeyAssumption, FS_Subset, SetToSeqLists DEF AllNames

LEMMA AddsPut ==
    ASSUME NEW c \in Drives, NEW k
    PROVE  /\ Adds(c, k) \in Seq(DriveCmd)
           /\ \A n \in AllNames :
                /\ Has(Adds(c, k), Puts(n)) <=> n \in DOMAIN c \ k
                /\ ~ Has(Adds(c, k), Takes(n))
                /\ \A p \in BOOLEAN :
                      Has(Adds(c, k), Marks(n, p)) <=> n \in DOMAIN c \ k /\ c[n] = p
<1> DEFINE S == DOMAIN c \ k
           s == SetToSeq(S)
           m == Cardinality(S)
           f == Adds(c, k)
<1>1. S \subseteq AllNames /\ c \in [DOMAIN c -> BOOLEAN]
  BY DrivesAre
<1>2. m \in Nat /\ s \in [1..m -> S] /\ \A x \in S : \E i \in 1..m : s[i] = x
  BY <1>1, NamesAreListed
<1>3. f = [i \in 1..m |-> [op |-> "add", n |-> s[i], paused |-> c[s[i]]]]
  BY DEF Adds
<1> HIDE DEF s, m, f
<1>4. f \in [1..m -> DriveCmd]
  BY <1>1, <1>2, <1>3 DEF DriveCmd
<1>5. f \in Seq(DriveCmd) /\ \A good : Has(f, good) <=> \E i \in 1..m : f[i] \in good
  BY <1>2, <1>4, ListIsQueue
<1>6. \A i \in 1..m : f[i].op = "add" /\ f[i].n = s[i] /\ f[i].paused = c[s[i]]
  BY <1>3
<1>7. ASSUME NEW n \in AllNames
      PROVE  /\ Has(f, Puts(n)) <=> n \in S
             /\ ~ Has(f, Takes(n))
             /\ \A p \in BOOLEAN : Has(f, Marks(n, p)) <=> n \in S /\ c[n] = p
  <2>1. \A i \in 1..m : /\ f[i] \in Puts(n) <=> s[i] = n
                        /\ f[i] \notin Takes(n)
                        /\ \A p \in BOOLEAN : f[i] \in Marks(n, p) <=> s[i] = n /\ c[n] = p
    BY <1>4, <1>6 DEF Puts, Takes, Marks
  <2> QED BY <1>2, <1>5, <2>1
<1> QED BY <1>5, <1>7 DEF f

LEMMA RemovesTake ==
    ASSUME NEW S \in SUBSET AllNames
    PROVE  /\ RemoveEach(S) \in Seq(DriveCmd)
           /\ \A n \in AllNames :
                /\ Has(RemoveEach(S), Takes(n)) <=> n \in S
                /\ ~ Has(RemoveEach(S), Puts(n))
                /\ \A p \in BOOLEAN : ~ Has(RemoveEach(S), Marks(n, p))
<1> DEFINE s == SetToSeq(S)
           m == Cardinality(S)
           f == RemoveEach(S)
<1>2. m \in Nat /\ s \in [1..m -> S] /\ \A x \in S : \E i \in 1..m : s[i] = x
  BY NamesAreListed
<1>3. f = [i \in 1..m |-> [op |-> "remove", n |-> s[i]]]
  BY DEF RemoveEach
<1> HIDE DEF s, m, f
<1>4. f \in [1..m -> DriveCmd]
  BY <1>2, <1>3 DEF DriveCmd
<1>5. f \in Seq(DriveCmd) /\ \A good : Has(f, good) <=> \E i \in 1..m : f[i] \in good
  BY <1>2, <1>4, ListIsQueue
<1>6. \A i \in 1..m : f[i].op = "remove" /\ f[i].n = s[i]
  BY <1>3
<1>7. ASSUME NEW n \in AllNames
      PROVE  /\ Has(f, Takes(n)) <=> n \in S
             /\ ~ Has(f, Puts(n))
             /\ \A p \in BOOLEAN : ~ Has(f, Marks(n, p))
  <2>1. \A i \in 1..m : /\ f[i] \in Takes(n) <=> s[i] = n
                        /\ f[i] \notin Puts(n)
                        /\ \A p \in BOOLEAN : f[i] \notin Marks(n, p)
    BY <1>4, <1>6 DEF Puts, Takes, Marks
  <2> QED BY <1>2, <1>5, <2>1
<1> QED BY <1>5, <1>7 DEF f

LEMMA FlagsMark ==
    ASSUME NEW c \in Drives
    PROVE  /\ Flags(c) \in Seq(DriveCmd)
           /\ \A n \in AllNames :
                /\ ~ Has(Flags(c), Puts(n))
                /\ ~ Has(Flags(c), Takes(n))
                /\ \A p \in BOOLEAN : Has(Flags(c), Marks(n, p)) <=> n \in DOMAIN c /\ c[n] = p
<1> DEFINE S == DOMAIN c
           s == SetToSeq(S)
           m == Cardinality(S)
           f == Flags(c)
<1>1. S \subseteq AllNames /\ c \in [DOMAIN c -> BOOLEAN]
  BY DrivesAre
<1>2. m \in Nat /\ s \in [1..m -> S] /\ \A x \in S : \E i \in 1..m : s[i] = x
  BY <1>1, NamesAreListed
<1>3. f = [i \in 1..m |-> [op |-> "pause", n |-> s[i], paused |-> c[s[i]]]]
  BY DEF Flags
<1> HIDE DEF s, m, f
<1>4. f \in [1..m -> DriveCmd]
  BY <1>1, <1>2, <1>3 DEF DriveCmd
<1>5. f \in Seq(DriveCmd) /\ \A good : Has(f, good) <=> \E i \in 1..m : f[i] \in good
  BY <1>2, <1>4, ListIsQueue
<1>6. \A i \in 1..m : f[i].op = "pause" /\ f[i].n = s[i] /\ f[i].paused = c[s[i]]
  BY <1>3
<1>7. ASSUME NEW n \in AllNames
      PROVE  /\ ~ Has(f, Puts(n))
             /\ ~ Has(f, Takes(n))
             /\ \A p \in BOOLEAN : Has(f, Marks(n, p)) <=> n \in S /\ c[n] = p
  <2>1. \A i \in 1..m : /\ f[i] \notin Puts(n)
                        /\ f[i] \notin Takes(n)
                        /\ \A p \in BOOLEAN : f[i] \in Marks(n, p) <=> s[i] = n /\ c[n] = p
    BY <1>4, <1>6 DEF Puts, Takes, Marks
  <2> QED BY <1>2, <1>5, <2>1
<1> QED BY <1>5, <1>7 DEF f

-----------------------------------------------------------------------------
(* Reading and saving the configuration                                    *)

LEMMA DefaultIsConfig == default_with_version \in Config
BY NoDrives, KeyAssumption DEF default_with_version, Config

LEMMA DriveCmdsAreCmds ==
    ASSUME NEW t \in Seq(DriveCmd)
    PROVE  t \in Seq(Cmd)
<1>1. DriveCmd \subseteq Cmd
  BY DEF Cmd
<1> QED BY <1>1, SeqMonotonic

LEMMA CmdsAssociate ==
    ASSUME NEW s \in Seq(Cmd), NEW t \in Seq(Cmd), NEW u \in Seq(Cmd)
    PROVE  (s \o t) \o u = s \o (t \o u)
BY ConcatAssociative

LEMMA Bounds == MaxFails \in Nat /\ MaxPending \in Nat
BY KeyAssumption

\* What load_quiet makes of the file.
LEMMA LoadIsTyped ==
    ASSUME LoopTypes
    PROVE  /\ load_quiet(file).val \in Config
           /\ load_quiet(file).file.kind \in FileKinds
           /\ load_quiet(file).file.val \in Config
           /\ load_quiet(file).fresh \in BOOLEAN
           /\ file.kind = "json" => load_quiet(file).file = file /\ load_quiet(file).val = file.val
<1>1. CASE file.kind = "json"
  BY <1>1 DEF LoopTypes, load_quiet, quarantine
<1>2. CASE file.kind # "json"
  BY <1>2, DefaultIsConfig DEF LoopTypes, load_quiet, quarantine, Written, FileKinds
<1> QED BY <1>1, <1>2

\* The commands adopt_external sends bring an engine that knows k to f.
AdoptCmds(f, k) == Adds(f, k) \o Removes(f, k) \o Flags(f)

LEMMA AdoptCmdsSay ==
    ASSUME NEW f \in Drives, NEW k \in SUBSET AllNames
    PROVE  /\ AdoptCmds(f, k) \in Seq(DriveCmd)
           /\ \A n \in AllNames :
                /\ Has(AdoptCmds(f, k), Puts(n)) <=> n \in DOMAIN f \ k
                /\ Has(AdoptCmds(f, k), Takes(n)) <=> n \in k \ DOMAIN f
                /\ \A p \in BOOLEAN :
                      Has(AdoptCmds(f, k), Marks(n, p)) <=> n \in DOMAIN f /\ f[n] = p
<1> DEFINE a == Adds(f, k)
           r == RemoveEach(k \ DOMAIN f)
           g == Flags(f)
<1>1. k \ DOMAIN f \in SUBSET AllNames
  OBVIOUS
<1>2. a \in Seq(DriveCmd) /\ r \in Seq(DriveCmd) /\ g \in Seq(DriveCmd)
  BY <1>1, AddsPut, RemovesTake, FlagsMark
<1>3. AdoptCmds(f, k) = (a \o r) \o g
  BY DEF AdoptCmds, Removes
<1>4. ASSUME NEW n \in AllNames
      PROVE  /\ Has(a, Puts(n)) <=> n \in DOMAIN f \ k
             /\ ~ Has(a, Takes(n))
             /\ ~ Has(r, Puts(n)) /\ ~ Has(g, Puts(n)) /\ ~ Has(g, Takes(n))
             /\ Has(r, Takes(n)) <=> n \in k \ DOMAIN f
             /\ \A p \in BOOLEAN :
                   /\ Has(a, Marks(n, p)) <=> n \in DOMAIN f \ k /\ f[n] = p
                   /\ ~ Has(r, Marks(n, p))
                   /\ Has(g, Marks(n, p)) <=> n \in DOMAIN f /\ f[n] = p
  BY <1>1, <1>4, AddsPut, RemovesTake, FlagsMark
<1> HIDE DEF a, r, g
<1>5. a \o r \in Seq(DriveCmd) /\ (a \o r) \o g \in Seq(DriveCmd)
  BY <1>2, ConcatProperties
<1>6. \A good : Has((a \o r) \o g, good) <=> Has(a, good) \/ Has(r, good) \/ Has(g, good)
  <2> TAKE good
  <2>1. Has(a \o r, good) <=> Has(a, good) \/ Has(r, good)
    BY <1>2, MendedConcat
  <2>2. Has((a \o r) \o g, good) <=> Has(a \o r, good) \/ Has(g, good)
    BY <1>2, <1>5, MendedConcat
  <2> QED BY <2>1, <2>2
<1> QED BY <1>3, <1>4, <1>5, <1>6

\* adopt_external, whatever it decides: nothing is adopted and nothing sent, or
\* what is adopted is what the engine is brought to; a valid edit wins.
Adopted(a, c, k, preserve) ==
    /\ a.newer \in BOOLEAN /\ a.file.kind \in FileKinds /\ a.file.val \in Config
    /\ a.cfg \in Config /\ a.known \subseteq AllNames /\ a.views \in Views
    /\ a.cmds \in Seq(DriveCmd)
    /\ preserve => a.cfg.drives = c.drives
    /\ \/ a.cfg = c /\ a.known = k /\ a.cmds = <<>>
       \/ a.known = DOMAIN a.cfg.drives /\ a.cmds = AdoptCmds(a.cfg.drives, k)
    /\ newer /\ file.kind = "json" /\ validate(file.val) =>
          a.file = file /\ a.cfg.opt = file.val.opt
    /\ a.newer /\ a.file.kind = "json" /\ validate(a.file.val) => a.file # file

LEMMA AdoptIsTyped ==
    ASSUME LoopTypes, NEW c \in Config, NEW k \in SUBSET AllNames, NEW v \in Views,
           NEW preserve \in BOOLEAN,
           NEW a, a = adopt_external(file, newer, c, k, v, preserve)
    PROVE  Adopted(a, c, k, preserve)
<1> SUFFICES
      /\ a.newer \in BOOLEAN /\ a.file.kind \in FileKinds /\ a.file.val \in Config
      /\ a.cfg \in Config /\ a.known \subseteq AllNames /\ a.views \in Views
      /\ a.cmds \in Seq(DriveCmd)
      /\ preserve => a.cfg.drives = c.drives
      /\ \/ a.cfg = c /\ a.known = k /\ a.cmds = <<>>
         \/ a.known = DOMAIN a.cfg.drives /\ a.cmds = AdoptCmds(a.cfg.drives, k)
      /\ newer /\ file.kind = "json" /\ validate(file.val) =>
            a.file = file /\ a.cfg.opt = file.val.opt
      /\ a.newer /\ a.file.kind = "json" /\ validate(a.file.val) => a.file # file
  BY DEF Adopted
<1> DEFINE l == load_quiet(file)
           new == IF preserve THEN [l.val EXCEPT !.drives = c.drives] ELSE l.val
           wanted == DOMAIN new.drives
           kept == [file |-> file, newer |-> newer, cfg |-> c, known |-> k, views |-> v,
                    cmds |-> <<>>]
<1>1. CASE ~newer \/ file.kind = "missing" \/ ~l.ok
  <2>1. a = kept
    BY <1>1 DEF adopt_external
  <2>2. newer /\ file.kind = "json" => ~ validate(file.val)
    BY <1>1 DEF load_quiet, quarantine
  <2> QED BY <2>1, <2>2, EmptySeq DEF LoopTypes
<1>2. CASE ~ (~newer \/ file.kind = "missing" \/ ~l.ok) /\ l.fresh
  <2>1. a = [kept EXCEPT !.file = l.file]
    BY <1>2 DEF adopt_external
  <2>2. file.kind # "json" /\ l.file # file
    BY <1>2 DEF load_quiet, quarantine
  <2>3. l.file.kind \in FileKinds /\ l.file.val \in Config
    BY LoadIsTyped
  <2> HIDE DEF l
  <2> QED BY <2>1, <2>2, <2>3, EmptySeq DEF LoopTypes
<1>3. CASE ~ (~newer \/ file.kind = "missing" \/ ~l.ok) /\ ~ l.fresh
  <2>1. a = [file |-> file, newer |-> FALSE, cfg |-> new, known |-> wanted,
             views |-> [n \in AllNames |-> IF n \in k \ wanted THEN NoView ELSE v[n]],
             cmds |-> AdoptCmds(new.drives, k)]
    BY <1>3 DEF adopt_external, AdoptCmds
  <2>2. l.val \in Config /\ (file.kind = "json" => l.val = file.val)
    BY LoadIsTyped
  <2> HIDE DEF l
  <2>3. new \in Config /\ new.opt = l.val.opt /\ (preserve => new.drives = c.drives)
    BY <2>2 DEF Config
  <2>4. new.drives \in Drives
    BY <2>3 DEF Config
  <2>5. wanted \subseteq AllNames
    BY <2>4, DrivesAre
  <2>6. AdoptCmds(new.drives, k) \in Seq(DriveCmd)
    BY <2>4, AdoptCmdsSay
  <2> HIDE DEF new
  <2>7. [n \in AllNames |-> IF n \in k \ wanted THEN NoView ELSE v[n]] \in Views
    BY DEF Views
  <2> QED BY <2>1, <2>2, <2>3, <2>5, <2>6, <2>7 DEF LoopTypes
<1> QED BY <1>1, <1>2, <1>3

\* A valid edit of the file, if there is one, is kept, and in memory when it is
\* marked as read; when a save begins, no such edit is left unread.
ReadsEdit ==
    /\ newer /\ file.kind = "json" /\ validate(file.val) =>
          file' = file /\ (newer' \/ cfg'.opt = file.val.opt)
    /\ newer' /\ file'.kind = "json" /\ validate(file'.val) => save' = save \/ writer' # "other"

\* persist_config sends `sent`, what adopting the file asks for and, when the
\* write succeeds, `then`.
Persisted(c, k, sent, then) ==
    /\ cfg'.drives = c.drives
    /\ \E u \in Seq(DriveCmd) :
         /\ \/ cfg' = c /\ known' = k /\ u = <<>>
            \/ known' = DOMAIN c.drives /\ u = AdoptCmds(c.drives, k)
         /\ \/ fails' = fails /\ chan' = chan \o (sent \o (u \o then))
            \/ fails' = fails + 1 /\ chan' = chan \o (sent \o u)
    /\ ReadsEdit

LEMMA PersistIsTyped ==
    ASSUME LoopTypes, QueueTypes,
           NEW c \in Config, NEW k \in SUBSET AllNames, NEW v \in Views,
           NEW sent \in Seq(DriveCmd), NEW then \in Seq(DriveCmd),
           persist_config(c, k, v, sent, then)
    PROVE  LoopTypes' /\ Persisted(c, k, sent, then)
<1> DEFINE a == adopt_external(file, newer, c, k, v, TRUE)
<1>0. PICK w \in BOOLEAN : w /\ a = adopt_external(file, newer, c, k, v, w)
  BY Zenon
<1>2. /\ cfg' = a.cfg /\ known' = a.known /\ views' = a.views
      /\ file' = a.file /\ newer' = a.newer
      /\ writer' = IF a.file = file THEN writer ELSE "daemon"
      /\ \/ chan' = chan \o sent \o a.cmds \o then /\ fails' = fails
         \/ /\ fails < MaxFails /\ fails' = fails + 1
            /\ chan' = chan \o sent \o a.cmds
  BY DEF persist_config
<1> HIDE DEF a
<1>a. Adopted(a, c, k, w)
  BY <1>0, AdoptIsTyped
<1>1. /\ a.newer \in BOOLEAN /\ a.file.kind \in FileKinds /\ a.file.val \in Config
      /\ a.cfg \in Config /\ a.known \subseteq AllNames /\ a.views \in Views
      /\ a.cmds \in Seq(DriveCmd)
      /\ a.cfg.drives = c.drives
      /\ \/ a.cfg = c /\ a.known = k /\ a.cmds = <<>>
         \/ a.known = DOMAIN a.cfg.drives /\ a.cmds = AdoptCmds(a.cfg.drives, k)
      /\ newer /\ file.kind = "json" /\ validate(file.val) =>
            a.file = file /\ a.cfg.opt = file.val.opt
      /\ a.newer /\ a.file.kind = "json" /\ validate(a.file.val) => a.file # file
  BY <1>0, <1>a DEF Adopted
<1>3. LoopTypes' /\ ReadsEdit
  <2>1. fails' \in 0..MaxFails
    <3>1. fails' = fails \/ (fails < MaxFails /\ fails' = fails + 1)
      BY <1>2
    <3>2. fails \in 0..MaxFails
      BY DEF LoopTypes
    <3> QED BY <3>1, <3>2, Bounds
  <2> QED BY <1>1, <1>2, <2>1 DEF LoopTypes, ReadsEdit
<1>5. chan \in Seq(Cmd) /\ sent \in Seq(Cmd) /\ a.cmds \in Seq(Cmd) /\ then \in Seq(Cmd)
  BY <1>1, DriveCmdsAreCmds DEF QueueTypes
<1>6. chan \o sent \o a.cmds = chan \o (sent \o a.cmds)
  BY <1>5, CmdsAssociate
<1>7. sent \o a.cmds \in Seq(Cmd)
  BY <1>5, ConcatProperties
<1>8. (chan \o (sent \o a.cmds)) \o then = chan \o ((sent \o a.cmds) \o then)
  <2> DEFINE x == sent \o a.cmds
  <2> HIDE DEF x
  <2>1. x \in Seq(Cmd)
    BY <1>7 DEF x
  <2>2. \A y, z \in Seq(Cmd) : (y \o x) \o z = y \o (x \o z)
    BY <2>1, CmdsAssociate
  <2>3. (chan \o x) \o then = chan \o (x \o then)
    BY <1>5, <2>2, Zenon
  <2> QED BY <2>3 DEF x
<1>9. (sent \o a.cmds) \o then = sent \o (a.cmds \o then)
  BY <1>5, CmdsAssociate
<1>10. \/ fails' = fails /\ chan' = chan \o (sent \o (a.cmds \o then))
       \/ fails' = fails + 1 /\ chan' = chan \o (sent \o a.cmds)
  BY <1>2, <1>6, <1>8, <1>9
<1> QED BY <1>1, <1>2, <1>3, <1>10 DEF Persisted

\* The commands that end in persist_config, with what they ask of it.
Persists ==
    \/ \E n \in AllNames :
          \/ RemoveDrive(n)
          \/ \E p \in BOOLEAN : SetPaused(n, p)
    \/ \E n \in Names : AddDrive(n) \/ Join(n)
    \/ \E w \in Opts \cup {BadOpt} : SetConfig(w)
    \/ OnDriveJoined

\* Each sends commands about drives, and changes neither bans nor invites.
LEMMA PersistsSends ==
    ASSUME DaemonTypes, Persists
    PROVE  /\ LoopTypes'
           /\ fails' \in {fails, fails + 1}
           /\ \E t \in Seq(DriveCmd) : chan' = chan \o t
           /\ UNCHANGED <<up, bans, engine, others>>
           /\ evts' = evts \/ (evts # <<>> /\ Head(evts).ev = "joined" /\ evts' = Tail(evts))
           /\ left' \in [Purses -> Nat] /\ (left'.edits = left.edits)
           /\ ReadsEdit
<1> USE DEF Views
<1>1. LoopTypes /\ QueueTypes /\ cfg \in Config /\ cfg.drives \in Drives
      /\ known \in SUBSET AllNames /\ views \in Views
  BY DEF DaemonTypes, CoreTypes, LoopTypes, Config
<1>2. ASSUME NEW c \in Config, NEW k \in SUBSET AllNames, NEW v \in Views,
             NEW sent \in Seq(DriveCmd), NEW then \in Seq(DriveCmd),
             persist_config(c, k, v, sent, then)
      PROVE  /\ LoopTypes'
             /\ fails' \in {fails, fails + 1}
             /\ \E t \in Seq(DriveCmd) : chan' = chan \o t
             /\ ReadsEdit
  <2>3. LoopTypes' /\ Persisted(c, k, sent, then)
    BY <1>1, <1>2, PersistIsTyped
  <2>1. PICK u \in Seq(DriveCmd) :
           /\ \/ cfg' = c /\ known' = k /\ u = <<>>
              \/ known' = DOMAIN c.drives /\ u = AdoptCmds(c.drives, k)
           /\ \/ fails' = fails /\ chan' = chan \o (sent \o (u \o then))
              \/ fails' = fails + 1 /\ chan' = chan \o (sent \o u)
    BY <2>3 DEF Persisted
  <2>2. sent \o (u \o then) \in Seq(DriveCmd) /\ sent \o u \in Seq(DriveCmd)
    BY ConcatProperties
  <2> QED BY <2>1, <2>2, <2>3 DEF Persisted
<1>3. ASSUME Requested
      PROVE  left' \in [Purses -> Nat] /\ left'.edits = left.edits
  BY <1>3 DEF Requested, Spend, DaemonTypes, CoreTypes, Purses
<1>4. \A n \in AllNames, p \in BOOLEAN :
         /\ << [op |-> "add", n |-> n, paused |-> p] >> \in Seq(DriveCmd)
         /\ << [op |-> "join", n |-> n, paused |-> p] >> \in Seq(DriveCmd)
         /\ << [op |-> "pause", n |-> n, paused |-> p] >> \in Seq(DriveCmd)
         /\ <<>> \in Seq(DriveCmd)
  BY DEF DriveCmd
<1>5. \A n \in AllNames :
         [cfg EXCEPT !.drives = With(cfg.drives, n, FALSE)] \in Config
           /\ known \cup {n} \in SUBSET AllNames
  <2> SUFFICES ASSUME NEW n \in AllNames
               PROVE  [cfg EXCEPT !.drives = With(cfg.drives, n, FALSE)] \in Config
    BY <1>1
  <2>1. With(cfg.drives, n, FALSE) \in Drives
    BY <1>1, WithDrive
  <2> QED BY <1>1, <2>1 DEF Config
<1>6. CASE \E n \in Names : AddDrive(n)
  <2>1. PICK n \in Names : AddDrive(n)
    BY <1>6
  <2>2. n \in AllNames /\ Requested
    BY <2>1 DEF AllNames, AddDrive, Command
  <2>3. persist_config([cfg EXCEPT !.drives = With(cfg.drives, n, FALSE)],
                       known \cup {n}, views, <<>>,
                       << [op |-> "add", n |-> n, paused |-> FALSE] >>)
    BY <2>1 DEF AddDrive
  <2>4. UNCHANGED <<up, bans, engine, others>> /\ evts' = evts
    BY <2>1 DEF AddDrive, engine, others
  <2> QED BY <1>1, <1>2, <1>3, <1>4, <1>5, <2>2, <2>3, <2>4
<1>7. CASE \E n \in Names : Join(n)
  <2>1. PICK n \in Names : Join(n)
    BY <1>7
  <2>2. n \in AllNames /\ Requested
    BY <2>1 DEF AllNames, Join, Awaited, Command
  <2>3. persist_config([cfg EXCEPT !.drives = With(cfg.drives, n, FALSE)],
                       known \cup {n}, views, <<>>,
                       << [op |-> "join", n |-> n, paused |-> FALSE] >>)
    BY <2>1 DEF Join
  <2>4. UNCHANGED <<up, bans, engine, others>> /\ evts' = evts
    BY <2>1 DEF Join, engine, others
  <2> QED BY <1>1, <1>2, <1>3, <1>4, <1>5, <2>2, <2>3, <2>4
<1>8. CASE \E n \in AllNames : RemoveDrive(n)
  <2>1. PICK n \in AllNames : RemoveDrive(n)
    BY <1>8
  <2>2. Requested /\ UNCHANGED <<up, bans, engine, others>> /\ evts' = evts
    BY <2>1 DEF RemoveDrive, Command, engine, others
  <2> DEFINE K == {k \in known : Same(k, n)}
  <2>3. PICK d \in Named(n) :
           persist_config([cfg EXCEPT !.drives = Without(cfg.drives, {d})],
                          {k \in known : ~Same(k, n)}, [views EXCEPT ![n] = NoView],
                          RemoveEach(K), <<>>)
    BY <2>1 DEF RemoveDrive
  <2>4. Without(cfg.drives, {d}) \in Drives
    BY <1>1, WithoutDrives
  <2>5. [cfg EXCEPT !.drives = Without(cfg.drives, {d})] \in Config
    BY <1>1, <2>4 DEF Config
  <2>6. K \in SUBSET AllNames /\ {k \in known : ~Same(k, n)} \in SUBSET AllNames
        /\ [views EXCEPT ![n] = NoView] \in Views
    BY <1>1
  <2>7. RemoveEach(K) \in Seq(DriveCmd) /\ <<>> \in Seq(DriveCmd)
    BY <2>6, RemovesTake, EmptySeq
  <2> HIDE DEF K
  <2> QED BY <1>1, <1>2, <1>3, <2>2, <2>3, <2>5, <2>6, <2>7
<1>9. CASE \E n \in AllNames, p \in BOOLEAN : SetPaused(n, p)
  <2>1. PICK n \in AllNames, p \in BOOLEAN : SetPaused(n, p)
    BY <1>9
  <2>2. Requested /\ UNCHANGED <<up, bans, engine, others>> /\ evts' = evts
    BY <2>1 DEF SetPaused, Command, engine, others
  <2>3. PICK d \in Named(n) :
           persist_config([cfg EXCEPT !.drives[d] = p], known, views, <<>>,
                          << [op |-> "pause", n |-> n, paused |-> p] >>)
    BY <2>1 DEF SetPaused
  <2>4. [cfg.drives EXCEPT ![d] = p] \in Drives
    BY <1>1, FlagDrive DEF Named
  <2>5. [cfg EXCEPT !.drives[d] = p] \in Config
    BY <1>1, <2>4 DEF Config
  <2> QED BY <1>1, <1>2, <1>3, <1>4, <2>2, <2>3, <2>5
<1>10. CASE \E w \in Opts \cup {BadOpt} : SetConfig(w)
  <2>1. PICK w \in Opts \cup {BadOpt} : SetConfig(w)
    BY <1>10
  <2>2. Requested /\ UNCHANGED <<up, bans, engine, others>> /\ evts' = evts
        /\ persist_config(set(cfg, w), known, views, <<>>, <<>>)
    BY <2>1 DEF SetConfig, Command, engine, others
  <2>3. set(cfg, w) \in Config /\ <<>> \in Seq(DriveCmd)
    BY <1>1, EmptySeq DEF set, Config
  <2> QED BY <1>1, <1>2, <1>3, <2>2, <2>3
<1>11. CASE OnDriveJoined
  <2> DEFINE n == Head(evts).n
  <2>1. /\ UNCHANGED <<up, bans, engine, others, left>>
        /\ evts # <<>> /\ Head(evts).ev = "joined" /\ evts' = Tail(evts)
        /\ IF n \in DOMAIN cfg.drives
           THEN UNCHANGED <<onDisk, mine, chan, fails>>
           ELSE persist_config([cfg EXCEPT !.drives = With(cfg.drives, n, FALSE)],
                               known \cup {n}, views, <<>>, <<>>)
    BY <1>11 DEF OnDriveJoined, engine, others
  <2>2. Head(evts) \in Event
    BY <2>1, HeadTailProperties DEF DaemonTypes, CoreTypes, QueueTypes
  <2>3. n \in AllNames
    BY <2>1, <2>2 DEF Event, AllNames
  <2>4. left' \in [Purses -> Nat] /\ left'.edits = left.edits /\ <<>> \in Seq(DriveCmd)
    BY <2>1, EmptySeq DEF DaemonTypes, CoreTypes
  <2> HIDE DEF n
  <2>5. CASE n \in DOMAIN cfg.drives
    <3>1. LoopTypes' /\ fails' = fails /\ chan' = chan
          /\ ReadsEdit
      BY <1>1, <2>1, <2>5 DEF LoopTypes, mine, onDisk, ReadsEdit
    <3>2. chan = chan \o <<>>
      BY <1>1, ConcatEmptySeq DEF QueueTypes
    <3> QED BY <2>1, <2>4, <3>1, <3>2
  <2>6. CASE n \notin DOMAIN cfg.drives
    BY <1>1, <1>2, <1>5, <2>1, <2>3, <2>4, <2>6
  <2> QED BY <2>5, <2>6
<1> QED BY <1>6, <1>7, <1>8, <1>9, <1>10, <1>11 DEF Persists

-----------------------------------------------------------------------------
(* Types                                                                   *)

LEMMA TypesImplyTypeOK == DaemonTypes => TypeOK
<1> SUFFICES ASSUME DaemonTypes PROVE TypeOK
  OBVIOUS
<1>1. views \in [AllNames -> Status \cup {NoView}]
  BY DEF DaemonTypes, CoreTypes, LoopTypes, Views, Status
<1>2. inv.granted \subseteq (1..Len(inv.minted)) \X Joined \X Groups
  BY DEF DaemonTypes, CoreTypes, InviteTypes, Invites
<1> QED BY <1>1, <1>2 DEF TypeOK, DaemonTypes, CoreTypes, SaveTypes, LoopTypes, BanTypes, InviteTypes

LEMMA SpendIsTyped ==
    ASSUME left \in [Purses -> Nat], NEW k \in Purses, Spend(k)
    PROVE  /\ left' \in [Purses -> Nat]
           /\ k # "edits" => left'.edits = left.edits
           /\ k = "edits" => left'.edits # left.edits
BY DEF Spend, Purses

LEMMA TickIsTyped ==
    ASSUME DaemonTypes, Tick
    PROVE  /\ LoopTypes'
           /\ \E t \in Seq(DriveCmd) :
                /\ chan' = chan \o t
                /\ \/ cfg' = cfg /\ known' = known /\ t = <<>>
                   \/ known' = DOMAIN cfg'.drives /\ t = AdoptCmds(cfg'.drives, known)
           /\ ReadsEdit
<1> DEFINE a == adopt_external(file, newer, cfg, known, views, FALSE)
<1>0. PICK w \in BOOLEAN : a = adopt_external(file, newer, cfg, known, views, w)
  BY Zenon
<1>1. /\ file' = a.file /\ newer' = a.newer /\ cfg' = a.cfg /\ save' = save
      /\ writer' = IF a.file = file THEN writer ELSE "daemon"
      /\ known' = a.known /\ views' = a.views /\ chan' = chan \o a.cmds /\ fails' = fails
  BY DEF Tick
<1> HIDE DEF a
<1>2. LoopTypes /\ cfg \in Config /\ known \in SUBSET AllNames /\ views \in Views
  BY DEF DaemonTypes, CoreTypes, LoopTypes
<1>3. Adopted(a, cfg, known, w)
  BY <1>0, <1>2, AdoptIsTyped
<1> QED BY <1>1, <1>2, <1>3 DEF Adopted, LoopTypes, ReadsEdit

LEMMA EventIsTyped ==
    ASSUME QueueTypes, evts # <<>>
    PROVE  Head(evts) \in Event /\ Tail(evts) \in Seq(Event)
BY HeadTailProperties DEF QueueTypes

LEMMA OnEventIsTyped ==
    ASSUME DaemonTypes, OnDriveStatus \/ OnPeerAutoBanned \/ OnInviteAccepted
    PROVE  CoreTypes'
<1> USE DEF DaemonTypes, CoreTypes
<1>1. evts # <<>> /\ Head(evts) \in Event /\ Tail(evts) \in Seq(Event)
  BY EventIsTyped DEF OnDriveStatus, OnPeerAutoBanned, OnInviteAccepted
<1> USE DEF onDisk
<1>2. CASE OnDriveStatus
  <2>1. [views EXCEPT ![Head(evts).n] = Head(evts).s] \in Views
    BY <1>1, <1>2 DEF OnDriveStatus, Event, LoopTypes, Views
  <2> QED BY <1>1, <1>2, <2>1 DEF OnDriveStatus, LoopTypes, QueueTypes, BanTypes, CliTypes,
                                  InviteTypes, engine, others
<1>3. CASE OnPeerAutoBanned
  <2> DEFINE p == Head(evts).p
  <2>1. /\ up' = up /\ file' = file /\ newer' = newer /\ cfg' = cfg /\ known' = known
        /\ views' = views /\ chan' = chan /\ table' = table /\ refused' = refused /\ cli' = cli
        /\ inv' = inv /\ left' = left /\ evts' = Tail(evts)
        /\ IF p \in bans.mem THEN UNCHANGED <<bans, fails>> ELSE save_bans(bans.mem \cup {p})
    BY <1>3 DEF OnPeerAutoBanned, mine, onDisk, engine, others
  <2>2. p \in Peers
    BY <1>1, <1>3 DEF OnPeerAutoBanned, Event
  <2> HIDE DEF p
  <2>3. bans' \in [mem : SUBSET Peers, disk : SUBSET Peers]
    BY <2>1, <2>2 DEF save_bans, BanTypes
  <2>4. fails' \in 0..MaxFails
    BY <2>1, Bounds DEF save_bans, LoopTypes
  <2> QED BY <1>1, <2>1, <2>3, <2>4 DEF LoopTypes, QueueTypes, BanTypes, CliTypes, InviteTypes
<1>4. CASE OnInviteAccepted
  <2> DEFINE t == Head(evts).t
             n == Head(evts).n
             new == {g \in inv.minted[t] \cap Groups : \A u \in inv.granted : Tail(u) # <<n, g>>}
  <2>1. /\ up' = up /\ file' = file /\ newer' = newer /\ cfg' = cfg /\ known' = known
        /\ views' = views /\ chan' = chan /\ table' = table /\ refused' = refused /\ cli' = cli
        /\ left' = left /\ evts' = Tail(evts) /\ bans' = bans /\ fails' = fails
        /\ \/ inv' = inv
           \/ /\ t \in inv.open
              /\ inv' = [inv EXCEPT !.open = inv.open \ {t},
                                    !.granted = inv.granted \cup {<<t, n, g>> : g \in new}]
    BY <1>4 DEF OnInviteAccepted, mine, onDisk, engine, others
  <2>2. n \in Joined /\ t \in Nat /\ new \subseteq Groups
    BY <1>1, <1>4 DEF OnInviteAccepted, Event
  <2> HIDE DEF n, t, new
  <2>3. InviteTypes'
    <3>1. CASE inv' = inv
      BY <3>1 DEF InviteTypes
    <3>2. CASE inv' # inv
      <4> DEFINE G == inv.granted \cup {<<t, n, g>> : g \in new}
      <4>1. t \in inv.open /\ inv' = [inv EXCEPT !.open = inv.open \ {t}, !.granted = G]
        BY <2>1, <3>2
      <4>2. G \subseteq Nat \X Joined \X Groups /\ \A u \in G : u[1] \in 1..Len(inv.minted)
        BY <2>2, <4>1 DEF InviteTypes, Invites
      <4> HIDE DEF G
      <4> QED BY <4>1, <4>2 DEF InviteTypes, Invites
    <3> QED BY <3>1, <3>2
  <2> QED BY <1>1, <2>1, <2>3 DEF LoopTypes, QueueTypes, BanTypes, CliTypes
<1> QED BY <1>2, <1>3, <1>4

LEMMA CommandIsTyped ==
    ASSUME DaemonTypes,
           \/ \E n \in AllNames : ResyncDrive(n)
           \/ \E p \in Peers, ban \in BOOLEAN : BanCmd(p, ban)
           \/ \E gs \in Grants : Invite(gs)
    PROVE  CoreTypes'
<1> USE DEF DaemonTypes, CoreTypes, onDisk
<1>1. ASSUME NEW n \in AllNames, ResyncDrive(n)
      PROVE  CoreTypes'
  <2>1. [op |-> "resync", n |-> n] \in Cmd
    BY DEF Cmd, DriveCmd
  <2>2. chan' \in Seq(Cmd) /\ evts' \in Seq(Event)
    BY <1>1, <2>1 DEF ResyncDrive, Send, QueueTypes
  <2>3. left' \in [Purses -> Nat]
    BY <1>1, SpendIsTyped DEF ResyncDrive, Command, Requested, Purses
  <2> QED BY <1>1, <2>2, <2>3 DEF ResyncDrive, LoopTypes, QueueTypes, BanTypes, CliTypes,
                                  InviteTypes, mine, engine, others
<1>2. ASSUME NEW p \in Peers, NEW ban \in BOOLEAN, BanCmd(p, ban)
      PROVE  CoreTypes'
  <2> DEFINE mem == IF ban THEN bans.mem \cup {p} ELSE bans.mem \ {p}
             c == [op |-> IF ban THEN "ban" ELSE "unban", p |-> p]
  <2>1. /\ up' = up /\ file' = file /\ newer' = newer /\ cfg' = cfg /\ known' = known
        /\ views' = views /\ table' = table /\ refused' = refused /\ cli' = cli
        /\ inv' = inv /\ evts' = evts
        /\ save_bans(mem) /\ chan' \in {chan, Append(chan, c)} /\ Spend("cmds")
    BY <1>2 DEF BanCmd, Awaited, Command, Requested, Send, mine, onDisk, engine, others
  <2>2. mem \subseteq Peers /\ c \in Cmd
    BY DEF BanTypes, Cmd, BanCmds
  <2> HIDE DEF mem, c
  <2>3. bans' \in [mem : SUBSET Peers, disk : SUBSET Peers]
    BY <2>1, <2>2 DEF save_bans, BanTypes
  <2>4. fails' \in 0..MaxFails
    BY <2>1, Bounds DEF save_bans, LoopTypes
  <2>5. chan' \in Seq(Cmd)
    BY <2>1, <2>2 DEF QueueTypes
  <2>6. left' \in [Purses -> Nat]
    BY <2>1, SpendIsTyped DEF Purses
  <2> QED BY <2>1, <2>3, <2>4, <2>5, <2>6 DEF LoopTypes, QueueTypes, BanTypes, CliTypes, InviteTypes
<1>3. ASSUME NEW gs \in Grants, Invite(gs)
      PROVE  CoreTypes'
  <2> DEFINE g == InviteToken(gs).groups
             m == Append(inv.minted, g)
             t == Len(inv.minted) + 1
             kept == IF Cardinality(inv.open) > MaxPending THEN {} ELSE inv.open
  <2>1. /\ up' = up /\ file' = file /\ newer' = newer /\ cfg' = cfg /\ known' = known
        /\ views' = views /\ table' = table /\ refused' = refused /\ cli' = cli
        /\ evts' = evts /\ bans' = bans /\ chan' = chan /\ fails' = fails /\ Spend("cmds")
        /\ inv' = [inv EXCEPT !.minted = m, !.open = kept \cup {t}, !.here = inv.here \cup {t}]
    BY <1>3 DEF Invite, Awaited, Command, Requested, InviteToken, new_nonce, mine, onDisk, engine, others
  <2>2. g \in Grants \cup {{OwnName}} /\ inv.minted \in Seq(Grants \cup {{OwnName}})
    BY DEF InviteToken, InviteTypes, Invites
  <2> HIDE DEF g
  <2>3. m \in Seq(Grants \cup {{OwnName}}) /\ Len(m) = t /\ t \in Nat /\ Len(inv.minted) \in Nat
    BY <2>2
  <2>4. kept \subseteq inv.open
    OBVIOUS
  <2>5. 1..Len(inv.minted) \subseteq 1..t /\ t \in 1..t
    BY <2>3
  <2> HIDE DEF m, t, kept
  <2>6. InviteTypes'
    BY <2>1, <2>3, <2>4, <2>5 DEF InviteTypes, Invites
  <2>7. left' \in [Purses -> Nat]
    BY <2>1, SpendIsTyped DEF Purses
  <2> QED BY <2>1, <2>6, <2>7 DEF LoopTypes, QueueTypes, BanTypes, CliTypes
<1> QED BY <1>1, <1>2, <1>3

\* What the engine does with the command at the head of its queue.
Handled(c) ==
    /\ table' \in Drives
    /\ evts' = evts \/ \E n \in AllNames, s \in {"connecting", "offline"} : evts' = evts \o Report(n, s)
    /\ \A n \in AllNames :
         /\ c \in Puts(n) => n \in DOMAIN table'
         /\ c \in Takes(n) => n \notin DOMAIN table'
         /\ c \notin Puts(n) /\ n \in DOMAIN table' => n \in DOMAIN table
         /\ c \notin Takes(n) /\ n \in DOMAIN table => n \in DOMAIN table'
         /\ \A p \in BOOLEAN : c \in Marks(n, p) /\ n \in DOMAIN table' => table'[n] = p
         /\ (\A p \in BOOLEAN : c \notin Marks(n, p)) /\ n \in DOMAIN table' =>
               n \in DOMAIN table /\ table'[n] = table[n]
    /\ \A p \in Peers : p \in refused' <=> (p \in refused /\ c \notin Unbans(p)) \/ c \in Bans(p)
    /\ refused' \subseteq Peers

LEMMA HandleCmdIs ==
    ASSUME DaemonTypes, handle_cmd
    PROVE  /\ chan # <<>> /\ Head(chan) \in Cmd /\ chan' = Tail(chan) /\ Tail(chan) \in Seq(Cmd)
           /\ UNCHANGED <<up, onDisk, mine, bans, others, fails, left>>
           /\ Handled(Head(chan))
<1> DEFINE c == Head(chan)
           here == c.op \notin {"ban", "unban"} /\ c.n \in DOMAIN table
<1>0. chan # <<>>
  <2>1. Len(chan) > save.due /\ save.due \in Nat
    BY DEF handle_cmd, DaemonTypes, SaveTypes
  <2>2. Len(<<>>) = 0
    OBVIOUS
  <2> QED BY <2>1, <2>2
<1>1. /\ chan # <<>> /\ chan' = Tail(chan)
      /\ UNCHANGED <<up, onDisk, mine, bans, others, fails, left>>
  BY <1>0 DEF handle_cmd
<1>2. c \in Cmd /\ Tail(chan) \in Seq(Cmd)
  BY <1>1, HeadTailProperties DEF DaemonTypes, CoreTypes, QueueTypes
<1>3. /\ table \in Drives /\ refused \subseteq Peers
  BY DEF DaemonTypes, CoreTypes, BanTypes
<1>4. CASE c.op \in {"add", "join"}
  <2>1. /\ table' = With(table, c.n, c.paused) /\ refused' = refused
        /\ evts' = IF c.paused THEN evts ELSE evts \o Report(c.n, "connecting")
    BY <1>4 DEF handle_cmd
  <2> HIDE DEF c
  <2>2. c \in DriveCmd /\ c.n \in AllNames /\ c.paused \in BOOLEAN
    BY <1>2, <1>4 DEF Cmd, DriveCmd, BanCmds
  <2>3. /\ table' \in Drives /\ DOMAIN table' = DOMAIN table \cup {c.n}
        /\ table'[c.n] = c.paused
        /\ \A m \in DOMAIN table : m # c.n => table'[m] = table[m]
    BY <1>3, <2>1, <2>2, WithDrive
  <2>4. \A n \in AllNames :
           /\ c \in Puts(n) <=> n = c.n
           /\ c \notin Takes(n)
           /\ \A p \in BOOLEAN : c \in Marks(n, p) <=> n = c.n /\ p = c.paused
    BY <1>4, <2>2 DEF Puts, Takes, Marks
  <2>5. \A p \in Peers : c \notin Bans(p) /\ c \notin Unbans(p)
    BY <1>4 DEF Bans, Unbans
  <2>6. Handled(c)
    BY <1>3, <2>1, <2>2, <2>3, <2>4, <2>5 DEF Handled
  <2> QED BY <1>1, <1>2, <2>6 DEF c
<1>5. CASE c.op = "remove"
  <2>1. /\ table' = Without(table, {c.n}) /\ refused' = refused
        /\ evts' = IF here THEN evts \o Report(c.n, "offline") ELSE evts
    BY <1>5 DEF handle_cmd
  <2> HIDE DEF c, here
  <2>2. c \in DriveCmd /\ c.n \in AllNames
    BY <1>2, <1>5 DEF Cmd, DriveCmd, BanCmds
  <2>3. /\ table' \in Drives /\ DOMAIN table' = DOMAIN table \ {c.n}
        /\ \A m \in DOMAIN table \ {c.n} : table'[m] = table[m]
    BY <1>3, <2>1, WithoutDrives
  <2>4. \A n \in AllNames :
           /\ c \in Takes(n) <=> n = c.n
           /\ c \notin Puts(n)
           /\ \A p \in BOOLEAN : c \notin Marks(n, p)
    BY <1>5, <2>2 DEF Puts, Takes, Marks
  <2>5. \A p \in Peers : c \notin Bans(p) /\ c \notin Unbans(p)
    BY <1>5 DEF Bans, Unbans
  <2>6. Handled(c)
    BY <1>3, <2>1, <2>2, <2>3, <2>4, <2>5 DEF Handled
  <2> QED BY <1>1, <1>2, <2>6 DEF c
<1>6. CASE c.op = "pause"
  <2>1. /\ table' = IF here THEN With(table, c.n, c.paused) ELSE table
        /\ refused' = refused /\ evts' = evts
    BY <1>6 DEF handle_cmd
  <2>2. here <=> c.n \in DOMAIN table
    BY <1>6
  <2> HIDE DEF c, here
  <2>3. c \in DriveCmd /\ c.n \in AllNames /\ c.paused \in BOOLEAN
    BY <1>2, <1>6 DEF Cmd, DriveCmd, BanCmds
  <2>4. /\ table' \in Drives /\ DOMAIN table' = DOMAIN table
        /\ c.n \in DOMAIN table => table'[c.n] = c.paused
        /\ \A m \in DOMAIN table : m # c.n => table'[m] = table[m]
    BY <1>3, <2>1, <2>2, <2>3, WithDrive
  <2>5. \A n \in AllNames :
           /\ c \notin Puts(n) /\ c \notin Takes(n)
           /\ \A p \in BOOLEAN : c \in Marks(n, p) <=> n = c.n /\ p = c.paused
    BY <1>6, <2>3 DEF Puts, Takes, Marks
  <2>6. \A p \in Peers : c \notin Bans(p) /\ c \notin Unbans(p)
    BY <1>6 DEF Bans, Unbans
  <2>7. Handled(c)
    BY <1>3, <2>1, <2>3, <2>4, <2>5, <2>6 DEF Handled
  <2> QED BY <1>1, <1>2, <2>7 DEF c
<1>7. CASE c.op = "resync"
  <2>1. /\ table' = table /\ refused' = refused
        /\ evts' = IF here THEN evts \o Report(c.n, "connecting") ELSE evts
    BY <1>7 DEF handle_cmd
  <2> HIDE DEF c, here
  <2>2. c.n \in AllNames
    BY <1>2, <1>7 DEF Cmd, DriveCmd, BanCmds
  <2>3. \A n \in AllNames :
           c \notin Puts(n) /\ c \notin Takes(n) /\ \A p \in BOOLEAN : c \notin Marks(n, p)
    BY <1>7 DEF Puts, Takes, Marks
  <2>4. \A p \in Peers : c \notin Bans(p) /\ c \notin Unbans(p)
    BY <1>7 DEF Bans, Unbans
  <2>5. Handled(c)
    BY <1>3, <2>1, <2>2, <2>3, <2>4 DEF Handled
  <2> QED BY <1>1, <1>2, <2>5 DEF c
<1>8. CASE c.op \in {"ban", "unban"}
  <2>1. /\ table' = table /\ evts' = evts
        /\ refused' = IF c.op = "ban" THEN refused \cup {c.p} ELSE refused \ {c.p}
    BY <1>8 DEF handle_cmd
  <2> HIDE DEF c, here
  <2>2. c \in BanCmds /\ c.p \in Peers
    BY <1>2, <1>8 DEF Cmd, DriveCmd, BanCmds
  <2>3. \A n \in AllNames :
           c \notin Puts(n) /\ c \notin Takes(n) /\ \A p \in BOOLEAN : c \notin Marks(n, p)
    BY <1>8 DEF Puts, Takes, Marks
  <2>4. \A p \in Peers : /\ c \in Bans(p) <=> c.op = "ban" /\ p = c.p
                         /\ c \in Unbans(p) <=> c.op = "unban" /\ p = c.p
    BY <1>8, <2>2 DEF Bans, Unbans
  <2>5. \A p \in Peers : p \in refused' <=> (p \in refused /\ c \notin Unbans(p)) \/ c \in Bans(p)
    BY <1>8, <2>1, <2>4
  <2>6. Handled(c)
    BY <1>3, <2>1, <2>2, <2>3, <2>5 DEF Handled
  <2> QED BY <1>1, <1>2, <2>6 DEF c
<1> HIDE DEF here
<1>9. c.op \in {"add", "join", "pause", "remove", "resync", "ban", "unban"}
  BY <1>2 DEF Cmd, DriveCmd, BanCmds
<1> QED BY <1>4, <1>5, <1>6, <1>7, <1>8, <1>9

\* An automatic ban is told, after the error of the peer's drive, if it has one.
LEMMA AutoBanTells ==
    ASSUME DaemonTypes, NEW p \in Peers, EngineAutoBan(p), NEW e, e = [ev |-> "banned", p |-> p]
    PROVE  /\ evts' \in Seq(Event) /\ e \in Event
           /\ \A good \in SUBSET {x \in Event : x.ev # "status"} :
                 Has(evts', good) <=> Has(evts, good) \/ e \in good
<1>1. evts \in Seq(Event) /\ DOMAIN table \subseteq AllNames
  BY DrivesAre DEF DaemonTypes, CoreTypes, QueueTypes
<1>2. PICK told \in {<<>>} \cup {Report(n, "error") : n \in DOMAIN table} :
         evts' = (evts \o told) \o <<e>>
  BY DEF EngineAutoBan
<1>3. e \in Event /\ e.ev = "banned"
  BY DEF Event
<1>4. told \in Seq(Event) /\ \A good \in SUBSET {x \in Event : x.ev # "status"} : ~ Has(told, good)
  <2>1. CASE told = <<>>
    BY <2>1, HasNone, EmptySeq
  <2>2. CASE told # <<>>
    <3>1. PICK n \in DOMAIN table : told = Report(n, "error")
      BY <2>2
    <3>2. PICK x : x = [ev |-> "status", n |-> n, s |-> "error"]
      OBVIOUS
    <3>3. told = <<x>> /\ x \in Event /\ x.ev = "status"
      BY <1>1, <3>1, <3>2 DEF Report, Event
    <3> QED BY <3>3, HasOne
  <2> QED BY <2>1, <2>2
<1>5. /\ evts \o told \in Seq(Event)
      /\ \A good : Has(evts \o told, good) <=> Has(evts, good) \/ Has(told, good)
  BY <1>1, <1>4, MendedConcat
<1>6. <<e>> \in Seq(Event) /\ \A good : Has(<<e>>, good) <=> e \in good
  BY <1>3, HasOne
<1>7. /\ evts' \in Seq(Event)
      /\ \A good : Has(evts', good) <=> Has(evts \o told, good) \/ Has(<<e>>, good)
  BY <1>2, <1>5, <1>6, MendedConcat
<1> QED BY <1>3, <1>4, <1>5, <1>6, <1>7

LEMMA EngineIsTyped ==
    ASSUME DaemonTypes,
           \/ handle_cmd
           \/ \E n \in AllNames, s \in {"synced", "offline"} : EngineStatus(n, s)
           \/ \E n \in Joined, t \in Nonces : EngineJoin(InviteAccept(t, n))
           \/ \E p \in Peers : EngineAutoBan(p)
    PROVE  CoreTypes'
<1> USE DEF DaemonTypes, CoreTypes, onDisk
<1>1. CASE handle_cmd
  <2>1. /\ chan' = Tail(chan) /\ Tail(chan) \in Seq(Cmd)
        /\ UNCHANGED <<up, onDisk, mine, bans, others, fails, left>>
        /\ Handled(Head(chan))
    BY <1>1, HandleCmdIs
  <2>2. \A n \in AllNames, s \in {"connecting", "offline"} : Report(n, s) \in Seq(Event)
    BY DEF Report, Event
  <2>3. evts' \in Seq(Event)
    <3>1. evts' = evts \/ \E n \in AllNames, s \in {"connecting", "offline"} : evts' = evts \o Report(n, s)
      BY <2>1 DEF Handled
    <3>2. evts \in Seq(Event)
      BY DEF QueueTypes
    <3>3. \A n \in AllNames, s \in {"connecting", "offline"} : evts \o Report(n, s) \in Seq(Event)
      BY <2>2, <3>2, ConcatProperties
    <3> QED BY <3>1, <3>2, <3>3
  <2>4. table' \in Drives /\ refused' \subseteq Peers
    BY <2>1 DEF Handled
  <2> QED BY <2>1, <2>3, <2>4 DEF LoopTypes, QueueTypes, BanTypes, CliTypes, InviteTypes, mine, onDisk, others
<1>2. ASSUME NEW n \in AllNames, NEW s \in {"synced", "offline"}, EngineStatus(n, s)
      PROVE  CoreTypes'
  <2>1. Report(n, s) \in Seq(Event)
    BY DEF Report, Event
  <2>2. evts' \in Seq(Event) /\ left' \in [Purses -> Nat]
    BY <1>2, <2>1, ConcatProperties, SpendIsTyped DEF EngineStatus, QueueTypes, Purses
  <2> QED BY <1>2, <2>2 DEF EngineStatus, LoopTypes, QueueTypes, BanTypes, CliTypes, InviteTypes,
                            mine, engine, others
<1>3. ASSUME NEW n \in Joined, NEW t \in Nonces, EngineJoin(InviteAccept(t, n))
      PROVE  CoreTypes'
  <2> DEFINE js == << [ev |-> "joined", n |-> n], [ev |-> "accepted", n |-> n, t |-> t] >>
             sh == inv.shown \cup {<<t, n>>}
  <2>1. /\ up' = up /\ file' = file /\ newer' = newer /\ cfg' = cfg /\ known' = known
        /\ views' = views /\ refused' = refused /\ cli' = cli
        /\ bans' = bans /\ chan' = chan /\ fails' = fails /\ Spend("reports")
        /\ table' = With(table, n, FALSE)
        /\ evts' = (evts \o Report(n, "connecting")) \o js
        /\ inv' = [inv EXCEPT !.shown = sh]
    BY <1>3 DEF EngineJoin, InviteAccept, mine, onDisk
  <2>2. n \in AllNames /\ t \in Nat
    BY DEF AllNames, Nonces
  <2>3. Report(n, "connecting") \in Seq(Event) /\ js \in Seq(Event)
    BY <2>2 DEF Report, Event
  <2> HIDE DEF js
  <2>4. evts' \in Seq(Event)
    <3>1. evts \o Report(n, "connecting") \in Seq(Event)
      BY <2>3, ConcatProperties DEF QueueTypes
    <3> QED BY <2>1, <2>3, <3>1, ConcatProperties
  <2>5. table' \in Drives
    BY <2>1, <2>2, WithDrive
  <2>6. sh \subseteq Nat \X Joined
    BY <2>2 DEF InviteTypes, Invites
  <2> HIDE DEF sh
  <2>7. InviteTypes'
    BY <2>1, <2>6 DEF InviteTypes, Invites
  <2>8. left' \in [Purses -> Nat]
    BY <2>1, SpendIsTyped DEF Purses
  <2> QED BY <2>1, <2>4, <2>5, <2>7, <2>8 DEF LoopTypes, QueueTypes, BanTypes, CliTypes
<1>4. ASSUME NEW p \in Peers, EngineAutoBan(p)
      PROVE  CoreTypes'
  <2>1. evts' \in Seq(Event)
    BY <1>4, AutoBanTells
  <2>2. left' \in [Purses -> Nat]
    BY <1>4, SpendIsTyped DEF EngineAutoBan, Purses
  <2> QED BY <1>4, <2>1, <2>2 DEF EngineAutoBan, LoopTypes, QueueTypes, BanTypes, CliTypes, InviteTypes,
                            mine, others
<1> QED BY <1>1, <1>2, <1>3, <1>4

LEMMA OutsideIsTyped ==
    ASSUME DaemonTypes,
           \/ CliLoad
           \/ \E n \in AllNames : direct_drive_op(n)
           \/ \E v \in Opts \cup {BadOpt} : CliSet(v)
           \/ \E k \in {"corrupt", "invalid", "missing"} : EditorSpoils(k)
    PROVE  /\ CoreTypes'
           /\ up' = up /\ UNCHANGED <<mine, bans, chan, evts, engine, fails, inv>>
           /\ cli' # cli \/ left'.edits # left.edits
<1> USE DEF DaemonTypes, CoreTypes, onDisk
<1>1. CASE CliLoad
  <2> DEFINE l == load_quiet(file)
  <2>1. /\ UNCHANGED <<up, mine, bans, chan, evts, engine, fails, inv>>
        /\ Spend("edits") /\ cli' = [loaded |-> TRUE, val |-> l.val]
        /\ file' = l.file /\ newer' = (newer \/ l.fresh)
    BY <1>1 DEF CliLoad
  <2>2. /\ l.val \in Config /\ l.file.kind \in FileKinds /\ l.file.val \in Config
        /\ l.fresh \in BOOLEAN
    BY LoadIsTyped
  <2> HIDE DEF l
  <2>3. left' \in [Purses -> Nat] /\ left'.edits # left.edits
    BY <2>1, SpendIsTyped DEF Purses
  <2> QED BY <2>1, <2>2, <2>3 DEF LoopTypes, QueueTypes, BanTypes, CliTypes, InviteTypes, mine, onDisk, engine
<1>2. ASSUME NEW c \in Config, cli.loaded, CliSaves(c)
      PROVE  /\ CoreTypes'
             /\ up' = up /\ UNCHANGED <<mine, bans, chan, evts, engine, fails, inv>>
             /\ cli' # cli
  BY <1>2 DEF CliSaves, NoCli, Written, FileKinds, LoopTypes, QueueTypes, BanTypes, CliTypes,
              InviteTypes, mine, engine
<1>3. ASSUME NEW n \in AllNames, direct_drive_op(n)
      PROVE  \E c \in Config : cli.loaded /\ CliSaves(c)
  <2>1. cli.loaded /\ cli.val \in Config /\ cli.val.drives \in Drives
    BY <1>3 DEF direct_drive_op, CliTypes, Config
  <2>2. With(cli.val.drives, n, FALSE) \in Drives /\ Without(cli.val.drives, CliNamed(n)) \in Drives
    BY <2>1, WithDrive, WithoutDrives
  <2>3. \A d \in CliNamed(n), p \in BOOLEAN : [cli.val.drives EXCEPT ![d] = p] \in Drives
    BY <2>1, FlagDrive DEF CliNamed
  <2>4. /\ [cli.val EXCEPT !.drives = With(cli.val.drives, n, FALSE)] \in Config
        /\ [cli.val EXCEPT !.drives = Without(cli.val.drives, CliNamed(n))] \in Config
        /\ \A d \in CliNamed(n), p \in BOOLEAN : [cli.val EXCEPT !.drives[d] = p] \in Config
    BY <2>1, <2>2, <2>3 DEF Config
  <2> QED BY <1>3, <2>1, <2>4 DEF direct_drive_op
<1>4. ASSUME NEW v \in Opts \cup {BadOpt}, CliSet(v)
      PROVE  \E c \in Config : cli.loaded /\ CliSaves(c)
  <2>1. cli.loaded /\ CliSaves(set(cli.val, v))
    BY <1>4 DEF CliSet
  <2>2. set(cli.val, v) \in Config
    BY <2>1 DEF CliTypes, set, Config
  <2> QED BY <2>1, <2>2
<1>5. ASSUME NEW k \in {"corrupt", "invalid", "missing"}, EditorSpoils(k)
      PROVE  /\ CoreTypes'
             /\ up' = up /\ UNCHANGED <<mine, bans, chan, evts, engine, fails, inv>>
             /\ left'.edits # left.edits
  <2>1. set(default_with_version, BadOpt) \in Config /\ default_with_version \in Config
    BY DefaultIsConfig DEF set, Config
  <2>2. file'.kind \in FileKinds /\ file'.val \in Config /\ newer' \in BOOLEAN
    BY <1>5, <2>1 DEF EditorSpoils, Written, FileKinds
  <2>3. left' \in [Purses -> Nat] /\ left'.edits # left.edits
    BY <1>5, SpendIsTyped DEF EditorSpoils, Purses
  <2> QED BY <1>5, <2>2, <2>3 DEF EditorSpoils, LoopTypes, QueueTypes, BanTypes, CliTypes,
                                  InviteTypes, mine, engine, others
<1> QED BY <1>1, <1>2, <1>3, <1>4, <1>5

LEMMA ProcessIsTyped ==
    ASSUME DaemonTypes, Crash \/ Start
    PROVE  CoreTypes'
<1> USE DEF DaemonTypes, CoreTypes, onDisk
<1>1. CASE Crash
  <2>1. /\ up' = FALSE /\ chan' = <<>> /\ evts' = <<>> /\ table' = <<>> /\ refused' = {}
        /\ cfg' = default_with_version /\ known' = {} /\ views' = [n \in AllNames |-> NoView]
        /\ inv' = [inv EXCEPT !.open = {}, !.here = {}, !.shown = {}]
        /\ UNCHANGED <<file, newer, cli, fails>> /\ Spend("crashes")
        /\ \E d \in {bans.disk, {}} : bans' = [mem |-> {}, disk |-> d]
    BY <1>1 DEF Crash, Stopped
  <2>2. LoopTypes'
    BY <2>1, DefaultIsConfig DEF LoopTypes, Views
  <2>3. InviteTypes'
    BY <2>1 DEF InviteTypes, Invites
  <2>4. QueueTypes' /\ table' \in Drives /\ BanTypes' /\ CliTypes'
    BY <2>1, NoDrives, EmptySeq DEF QueueTypes, BanTypes, CliTypes
  <2>5. left' \in [Purses -> Nat]
    BY <2>1, SpendIsTyped DEF Purses
  <2> QED BY <2>1, <2>2, <2>3, <2>4, <2>5
<1>2. CASE Start
  <2> DEFINE l == load_quiet(file)
  <2>1. /\ up' = TRUE /\ file' = l.file /\ newer' = FALSE /\ cfg' = l.val
        /\ known' = DOMAIN l.val.drives /\ chan' = Adds(l.val.drives, {})
        /\ bans' = [bans EXCEPT !.mem = bans.disk] /\ refused' = bans.disk
        /\ UNCHANGED <<views, evts, table, cli, inv, fails, left>>
    BY <1>2 DEF Start, others
  <2>2. /\ l.val \in Config /\ l.file.kind \in FileKinds /\ l.file.val \in Config
    BY LoadIsTyped
  <2> HIDE DEF l
  <2>3. l.val.drives \in Drives
    BY <2>2 DEF Config
  <2>4. DOMAIN l.val.drives \subseteq AllNames
    BY <2>3, DrivesAre
  <2>5. Adds(l.val.drives, {}) \in Seq(Cmd)
    BY <2>3, AddsPut, DriveCmdsAreCmds
  <2>6. LoopTypes'
    BY <2>1, <2>2, <2>4 DEF LoopTypes
  <2> QED BY <2>1, <2>5, <2>6 DEF QueueTypes, BanTypes, CliTypes, InviteTypes
<1> QED BY <1>1, <1>2

\* The steps of Next, by the lemmas above.
LEMMA NextIs ==
    ASSUME Next
    PROVE  \/ Persists \/ Tick \/ Rename \/ TakeTime
           \/ OnDriveStatus \/ OnPeerAutoBanned \/ OnInviteAccepted
           \/ \E n \in AllNames : ResyncDrive(n)
           \/ \E p \in Peers, ban \in BOOLEAN : BanCmd(p, ban)
           \/ \E gs \in Grants : Invite(gs)
           \/ handle_cmd
           \/ \E n \in AllNames, s \in {"synced", "offline"} : EngineStatus(n, s)
           \/ \E n \in Joined, t \in Nonces : EngineJoin(InviteAccept(t, n))
           \/ \E p \in Peers : EngineAutoBan(p)
           \/ CliLoad
           \/ \E n \in AllNames : direct_drive_op(n)
           \/ \E v \in Opts \cup {BadOpt} : CliSet(v)
           \/ \E k \in {"corrupt", "invalid", "missing"} : EditorSpoils(k)
           \/ Crash \/ Start
BY DEF Next, OnEvent, Persists

LEMMA CoreIsTyped ==
    ASSUME DaemonTypes, [Next]_vars
    PROVE  CoreTypes'
<1>1. CASE UNCHANGED vars
  BY <1>1 DEF vars, DaemonTypes, CoreTypes, LoopTypes, QueueTypes, BanTypes, CliTypes, InviteTypes
<1>2. CASE Persists
  <2>1. /\ LoopTypes' /\ UNCHANGED <<up, bans, engine, others>> /\ left' \in [Purses -> Nat]
        /\ evts' = evts \/ (evts # <<>> /\ evts' = Tail(evts))
        /\ \E t \in Seq(DriveCmd) : chan' = chan \o t
    BY <1>2, PersistsSends
  <2>2. chan' \in Seq(Cmd)
    BY <2>1, DriveCmdsAreCmds, ConcatProperties DEF DaemonTypes, CoreTypes, QueueTypes
  <2>3. evts' \in Seq(Event)
    BY <2>1, EventIsTyped DEF DaemonTypes, CoreTypes, QueueTypes
  <2> QED BY <2>1, <2>2, <2>3 DEF DaemonTypes, CoreTypes, QueueTypes, BanTypes, CliTypes, InviteTypes, engine, others
<1>3. CASE Tick
  <2>1. LoopTypes' /\ \E t \in Seq(DriveCmd) : chan' = chan \o t
    BY <1>3, TickIsTyped
  <2>2. chan' \in Seq(Cmd)
    BY <2>1, DriveCmdsAreCmds, ConcatProperties DEF DaemonTypes, CoreTypes, QueueTypes
  <2>3. UNCHANGED <<up, bans, evts, engine, others, left>>
    BY <1>3 DEF Tick
  <2> QED BY <2>1, <2>2, <2>3 DEF DaemonTypes, CoreTypes, QueueTypes, BanTypes, CliTypes, InviteTypes, engine, others
<1>4. CASE Rename \/ TakeTime
  <2>0. cfg \in Config /\ file.kind \in FileKinds /\ file.val \in Config
    BY DEF DaemonTypes, CoreTypes, LoopTypes
  <2>1. file'.kind \in FileKinds /\ file'.val \in Config /\ newer' \in BOOLEAN
    <3>1. CASE Rename
      <4>1. file' = [kind |-> "json", val |-> cfg] /\ newer' = TRUE
        BY <3>1 DEF Rename, Written
      <4>2. file'.kind = "json" /\ file'.val = cfg
        BY <4>1
      <4> QED BY <2>0, <4>1, <4>2 DEF FileKinds
    <3>2. CASE TakeTime
      <4>1. file' = file /\ newer' = FALSE
        BY <3>2 DEF TakeTime
      <4> QED BY <2>0, <4>1
    <3> QED BY <1>4, <3>1, <3>2
  <2> QED BY <1>4, <2>1 DEF Rename, TakeTime, DaemonTypes, CoreTypes, LoopTypes, QueueTypes, BanTypes,
                            CliTypes, InviteTypes, engine, others
<1>5. CASE Next
  BY <1>2, <1>3, <1>4, <1>5, NextIs, OnEventIsTyped, CommandIsTyped, EngineIsTyped, OutsideIsTyped,
     ProcessIsTyped
<1> QED BY <1>1, <1>5

\* The length of what is due, and who wrote the file.
LEMMA SaveIsTyped ==
    ASSUME DaemonTypes, [Next]_vars
    PROVE  SaveTypes'
<1> USE DEF SaveTypes
<1>0. SaveTypes
  BY DEF DaemonTypes
<1>1. CASE UNCHANGED <<save, writer, misnamed>>
  BY <1>0, <1>1
<1>2. ASSUME NEW c, NEW k, NEW v, NEW sent, NEW then \in Seq(DriveCmd),
             persist_config(c, k, v, sent, then)
      PROVE  /\ save'.at \in {"idle", "read", "written"} /\ save'.due \in Nat
             /\ writer' \in {"daemon", "other", "during"}
  <2>1. Len(then) \in Nat
    OBVIOUS
  <2>2. writer' \in {writer, "daemon"}
    BY <1>2, Zenon DEF persist_config
  <2>3. save' = save \/ save' = [at |-> "read", due |-> Len(then)]
    BY <1>2, Zenon DEF persist_config
  <2> QED BY <1>0, <2>1, <2>2, <2>3
<1>3. \A n \in AllNames, p \in BOOLEAN :
         /\ << [op |-> "add", n |-> n, paused |-> p] >> \in Seq(DriveCmd)
         /\ << [op |-> "join", n |-> n, paused |-> p] >> \in Seq(DriveCmd)
         /\ << [op |-> "pause", n |-> n, paused |-> p] >> \in Seq(DriveCmd)
         /\ <<>> \in Seq(DriveCmd)
  BY DEF DriveCmd
<1>4. ASSUME NEW n \in Names, AddDrive(n) \/ Join(n)
      PROVE  SaveTypes'
  <2>1. n \in AllNames /\ misnamed' = misnamed
    BY <1>4 DEF AllNames, AddDrive, Join
  <2> QED BY <1>0, <1>2, <1>3, <1>4, <2>1 DEF AddDrive, Join
<1>5. \A n : Named(n) \subseteq AllNames
  BY DrivesAre DEF Named, DaemonTypes, CoreTypes, LoopTypes, Config
<1>6. ASSUME NEW n \in AllNames, RemoveDrive(n)
      PROVE  SaveTypes'
  <2>1. PICK d \in Named(n) :
           /\ persist_config([cfg EXCEPT !.drives = Without(cfg.drives, {d})],
                             {k \in known : ~Same(k, n)}, [views EXCEPT ![n] = NoView],
                             RemoveEach({k \in known : Same(k, n)}), <<>>)
           /\ misnamed' = misnamed \cup (Named(n) \ {d})
    BY <1>6 DEF RemoveDrive
  <2>2. misnamed' \subseteq AllNames
    BY <1>0, <1>5, <2>1
  <2>3. <<>> \in Seq(DriveCmd)
    BY EmptySeq
  <2> QED BY <1>2, <2>1, <2>2, <2>3
<1>7. ASSUME NEW n \in AllNames, NEW p \in BOOLEAN, SetPaused(n, p)
      PROVE  SaveTypes'
  <2>1. PICK d \in Named(n) :
           /\ persist_config([cfg EXCEPT !.drives[d] = p], known, views, <<>>,
                             << [op |-> "pause", n |-> n, paused |-> p] >>)
           /\ misnamed' = IF d = n THEN misnamed ELSE misnamed \cup {d, n}
    BY <1>7 DEF SetPaused
  <2>2. misnamed' \subseteq AllNames
    BY <1>0, <1>5, <2>1
  <2> QED BY <1>2, <1>3, <2>1, <2>2
<1>8. ASSUME NEW v, SetConfig(v)
      PROVE  SaveTypes'
  <2>1. <<>> \in Seq(DriveCmd)
    BY EmptySeq
  <2> QED BY <1>0, <1>2, <1>8, <2>1 DEF SetConfig
<1>9. CASE OnDriveJoined
  <2>1. <<>> \in Seq(DriveCmd) /\ misnamed' = misnamed
    BY <1>9, EmptySeq DEF OnDriveJoined
  <2>2. CASE UNCHANGED <<onDisk, mine, chan, fails>>
    BY <1>0, <2>2 DEF onDisk, mine
  <2>3. CASE persist_config([cfg EXCEPT !.drives = With(cfg.drives, Head(evts).n, FALSE)],
                            known \cup {Head(evts).n}, views, <<>>, <<>>)
    BY <1>0, <1>2, <2>1, <2>3
  <2> QED BY <1>9, <2>2, <2>3 DEF OnDriveJoined
<1>10. CASE Persists
  BY <1>4, <1>6, <1>7, <1>8, <1>9, <1>10 DEF Persists
<1>11. CASE \/ Tick \/ Rename \/ TakeTime \/ Crash \/ Start
  <2>1. CASE Tick
    <3>1. writer' \in {writer, "daemon"} /\ save' = save /\ misnamed' = misnamed
      BY <2>1, Zenon DEF Tick
    <3> QED BY <1>0, <3>1
  <2>2. CASE Rename
    <3>1. writer' = "daemon" /\ save' = [save EXCEPT !.at = "written"] /\ misnamed' = misnamed
      BY <2>2 DEF Rename
    <3>2. save'.at \in {save.at, "written"} /\ save'.due = save.due
      BY <3>1
    <3> QED BY <1>0, <3>1, <3>2
  <2>3. CASE TakeTime
    BY <1>0, <2>3 DEF TakeTime, Idle
  <2>4. CASE Crash
    BY <1>0, <2>4 DEF Crash, Stopped, Idle, onDisk
  <2>5. CASE Start
    BY <1>0, <2>5 DEF Start
  <2> QED BY <1>11, <2>1, <2>2, <2>3, <2>4, <2>5
<1>12. CASE \/ CliLoad
            \/ \E n \in AllNames : direct_drive_op(n)
            \/ \E v \in Opts \cup {BadOpt} : CliSet(v)
            \/ \E k \in {"corrupt", "invalid", "missing"} : EditorSpoils(k)
  BY <1>0, <1>12 DEF CliLoad, direct_drive_op, CliSet, CliSaves, EditorSpoils, Outside, mine
<1>13. CASE \/ OnDriveStatus \/ OnPeerAutoBanned \/ OnInviteAccepted
            \/ \E n \in AllNames : ResyncDrive(n)
            \/ \E p \in Peers, ban \in BOOLEAN : BanCmd(p, ban)
            \/ \E gs \in Grants : Invite(gs)
            \/ \E n \in AllNames, s \in {"synced", "offline"} : EngineStatus(n, s)
            \/ \E n \in Joined, t \in Nonces : EngineJoin(InviteAccept(t, n))
            \/ \E p \in Peers : EngineAutoBan(p)
  BY <1>1, <1>13 DEF OnDriveStatus, OnPeerAutoBanned, OnInviteAccepted, ResyncDrive, BanCmd, Invite,
                     EngineStatus, EngineJoin, EngineAutoBan, onDisk, mine
<1>14. CASE handle_cmd
  BY <1>1, <1>14, HandleCmdIs DEF onDisk, mine
<1>15. CASE UNCHANGED vars
  BY <1>1, <1>15 DEF vars
<1> QED BY <1>10, <1>11, <1>12, <1>13, <1>14, <1>15, NextIs

LEMMA InitIsTyped == Init => DaemonTypes
<1> SUFFICES ASSUME Init PROVE DaemonTypes
  OBVIOUS
<1>1. LoopTypes
  <2>1. [n \in AllNames |-> NoView] \in Views
    BY DEF Views
  <2>2. 0 \in 0..MaxFails
    BY Bounds
  <2>3. file.kind = "missing" /\ file.val = default_with_version
    BY DEF Init
  <2> QED BY <2>1, <2>2, <2>3, DefaultIsConfig DEF Init, LoopTypes, FileKinds
<1>2. QueueTypes /\ table \in Drives /\ BanTypes /\ CliTypes
  BY NoDrives, EmptySeq DEF Init, QueueTypes, BanTypes, CliTypes, NoCli
<1>3. InviteTypes
  BY EmptySeq DEF Init, NoInvites, InviteTypes, Invites
<1>4. left \in [Purses -> Nat] /\ up \in BOOLEAN /\ SaveTypes
  BY KeyAssumption DEF Init, SaveTypes, Idle
<1> QED BY <1>1, <1>2, <1>3, <1>4 DEF DaemonTypes, CoreTypes

LEMMA AlwaysTyped == Spec => []DaemonTypes
<1>1. DaemonTypes /\ [Next]_vars => DaemonTypes'
  BY CoreIsTyped, SaveIsTyped DEF DaemonTypes
<1> QED BY <1>1, InitIsTyped, PTL DEF Spec

\* The daemon's state is well typed: whatever the commands, the edits, the
\* failed writes and the crashes, configuration, views, bans and invites are
\* of their kinds, open invites are this process's own and grants are made on
\* minted nonces.
THEOREM DaemonIsTyped == Spec => []TypeOK
BY AlwaysTyped, TypesImplyTypeOK, PTL

\* While a save is under way, no valid edit from before it is left unread.
SavesHaveRead ==
    save.at # "idle" /\ newer /\ file.kind = "json" /\ validate(file.val) => writer # "other"

LEMMA ReadBeforeSaving ==
    ASSUME DaemonTypes, SavesHaveRead, [Next]_vars
    PROVE  SavesHaveRead'
<1> USE DEF SavesHaveRead
<1>1. CASE UNCHANGED <<save, newer, file, writer>>
  BY <1>1
<1>2. ASSUME ReadsEdit, save = Idle
      PROVE  SavesHaveRead'
  BY <1>2 DEF ReadsEdit, Idle
<1>3. CASE Persists
  <2>1. ReadsEdit
    BY <1>3, PersistsSends
  <2>2. save = Idle
    BY <1>3 DEF Persists, RemoveDrive, SetPaused, AddDrive, Join, Awaited, SetConfig, OnDriveJoined,
                Command, Free
  <2> QED BY <1>2, <2>1, <2>2
<1>4. CASE Tick
  <2>1. ReadsEdit
    BY <1>4, TickIsTyped
  <2>2. save = Idle
    BY <1>4 DEF Tick, Free
  <2> QED BY <1>2, <2>1, <2>2
<1>5. CASE Rename \/ TakeTime
  BY <1>5 DEF Rename, TakeTime, Idle
<1>6. CASE Crash \/ Start
  BY <1>6 DEF Crash, Stopped, Start, Idle
<1>7. ASSUME Outside, save' = save
      PROVE  SavesHaveRead'
  <2>1. save.at # "idle" => save # Idle
    BY DEF Idle
  <2> QED BY <1>7, <2>1 DEF Outside
<1>8. CASE CliLoad
  <2>1. save' = save
    BY <1>8 DEF CliLoad, mine
  <2>2. CASE load_quiet(file).fresh
    BY <1>7, <1>8, <2>1, <2>2 DEF CliLoad
  <2>3. CASE ~ load_quiet(file).fresh
    <3>1. load_quiet(file).file = file
      BY <2>3 DEF load_quiet
    <3>2. newer' = (newer \/ load_quiet(file).fresh) /\ file' = file /\ writer' = writer
      BY <1>8, <2>3, <3>1 DEF CliLoad
    <3>3. newer' = newer
      BY <2>3, <3>2 DEF DaemonTypes, CoreTypes, LoopTypes
    <3> QED BY <1>1, <2>1, <3>2, <3>3
  <2> QED BY <2>2, <2>3
<1>9. CASE \/ \E n \in AllNames : direct_drive_op(n)
           \/ \E v \in Opts \cup {BadOpt} : CliSet(v)
           \/ \E k \in {"corrupt", "invalid", "missing"} : EditorSpoils(k)
  <2>1. Outside /\ save' = save
    BY <1>9 DEF direct_drive_op, CliSet, CliSaves, EditorSpoils, mine
  <2> QED BY <1>7, <2>1
<1>10. CASE \/ OnDriveStatus \/ OnPeerAutoBanned \/ OnInviteAccepted \/ handle_cmd
            \/ \E n \in AllNames : ResyncDrive(n)
            \/ \E p \in Peers, ban \in BOOLEAN : BanCmd(p, ban)
            \/ \E gs \in Grants : Invite(gs)
            \/ \E n \in AllNames, s \in {"synced", "offline"} : EngineStatus(n, s)
            \/ \E n \in Joined, t \in Nonces : EngineJoin(InviteAccept(t, n))
            \/ \E p \in Peers : EngineAutoBan(p)
  BY <1>1, <1>10 DEF OnDriveStatus, OnPeerAutoBanned, OnInviteAccepted, handle_cmd, ResyncDrive,
                     BanCmd, Invite, EngineStatus, EngineJoin, EngineAutoBan, onDisk, mine
<1>11. CASE UNCHANGED vars
  BY <1>1, <1>11 DEF vars
<1> QED BY <1>3, <1>4, <1>5, <1>6, <1>8, <1>9, <1>10, <1>11, NextIs

\* "External edits are adopted first so they are not clobbered"
\* (persist_config), for any names, options, budgets and bounds: an edit made
\* between two saves is written over by no step of the daemon, whichever command
\* or event it serves, however far the others have come and whether its write
\* succeeds, and the step that marks it as read has taken it into memory.
THEOREM EditsSurvive == Spec => EditsNotClobbered
<1> DEFINE Pre == up /\ up' /\ newer /\ writer = "other" /\ file.kind = "json" /\ validate(file.val)
                     /\ cli' = cli /\ left'.edits = left.edits
           Post == file'.val.opt = file.val.opt /\ (newer' \/ cfg'.opt = file.val.opt)
           A == Pre => Post
<1>1. ASSUME DaemonTypes, SavesHaveRead, [Next]_vars
      PROVE  [A]_vars
  <2> SUFFICES ASSUME Next, Pre PROVE Post
    BY <1>1
  <2>0. save.at = "idle"
    BY <1>1 DEF SavesHaveRead
  <2>1. CASE ReadsEdit
    BY <2>1 DEF ReadsEdit
  <2>2. CASE Persists \/ Tick
    BY <1>1, <2>1, <2>2, PersistsSends, TickIsTyped
  <2>3. CASE \/ CliLoad
             \/ \E n \in AllNames : direct_drive_op(n)
             \/ \E v \in Opts \cup {BadOpt} : CliSet(v)
             \/ \E k \in {"corrupt", "invalid", "missing"} : EditorSpoils(k)
    BY <1>1, <2>3, OutsideIsTyped
  <2>4. CASE Start \/ Crash
    BY <2>4 DEF Start, Crash, Stopped
  <2>5. CASE Rename \/ TakeTime
    BY <2>0, <2>5 DEF Rename, TakeTime
  <2>6. CASE file' = file /\ newer' = newer
    BY <2>6
  <2>7. CASE \/ OnDriveStatus \/ OnPeerAutoBanned \/ OnInviteAccepted \/ handle_cmd
             \/ \E n \in AllNames : ResyncDrive(n)
             \/ \E p \in Peers, ban \in BOOLEAN : BanCmd(p, ban)
             \/ \E gs \in Grants : Invite(gs)
             \/ \E n \in AllNames, s \in {"synced", "offline"} : EngineStatus(n, s)
             \/ \E n \in Joined, t \in Nonces : EngineJoin(InviteAccept(t, n))
             \/ \E p \in Peers : EngineAutoBan(p)
    BY <2>6, <2>7 DEF OnDriveStatus, OnPeerAutoBanned, OnInviteAccepted, handle_cmd, ResyncDrive,
                      BanCmd, Invite, EngineStatus, EngineJoin, EngineAutoBan, onDisk
  <2> QED BY <2>2, <2>3, <2>4, <2>5, <2>7, NextIs
<1>2. Init => SavesHaveRead
  BY DEF Init, SavesHaveRead, Idle
<1>3. DaemonTypes /\ SavesHaveRead /\ [Next]_vars => SavesHaveRead'
  BY ReadBeforeSaving
<1> QED BY <1>1, <1>2, <1>3, AlwaysTyped, PTL DEF Spec, EditsNotClobbered

-----------------------------------------------------------------------------
(* Steps that leave the bans, or the invites, alone                        *)

\* The loop takes an event that is not of this kind, or the engine reports a
\* drive's status, or neither.
Passes(kind) ==
    \/ evts' = evts
    \/ evts # <<>> /\ Head(evts).ev # kind /\ evts' = Tail(evts)
    \/ \E n \in AllNames, s \in {"connecting", "synced", "offline", "error"} : evts' = evts \o Report(n, s)

LEMMA PassedEvents ==
    ASSUME QueueTypes, NEW kind, kind # "status", Passes(kind),
           NEW good \in SUBSET {e \in Event : e.ev = kind}
    PROVE  Has(evts', good) <=> Has(evts, good)
<1>1. CASE evts' = evts
  BY <1>1
<1>2. CASE evts # <<>> /\ Head(evts).ev # kind /\ evts' = Tail(evts)
  <2>1. Has(evts, good) <=> Head(evts) \in good \/ Has(Tail(evts), good)
    BY <1>2, MendedTail DEF QueueTypes
  <2> QED BY <1>2, <2>1
<1>3. CASE \E n \in AllNames, s \in {"connecting", "synced", "offline", "error"} : evts' = evts \o Report(n, s)
  <2>1. PICK n \in AllNames, s \in {"connecting", "synced", "offline", "error"} : evts' = evts \o Report(n, s)
    BY <1>3
  <2> DEFINE e == [ev |-> "status", n |-> n, s |-> s]
  <2>2. e \in Event /\ e \notin good /\ Report(n, s) = <<e>>
    BY DEF Event, Report
  <2> HIDE DEF e
  <2>3. <<e>> \in Seq(Event) /\ ~ Has(<<e>>, good)
    BY <2>2, HasOne
  <2>4. Has(evts \o <<e>>, good) <=> Has(evts, good) \/ Has(<<e>>, good)
    BY <2>3, MendedConcat DEF QueueTypes
  <2> QED BY <2>1, <2>2, <2>3, <2>4
<1> QED BY <1>1, <1>2, <1>3 DEF Passes

LEMMA AppendAsConcat ==
    ASSUME NEW S, NEW s \in Seq(S), NEW x \in S
    PROVE  Append(s, x) = s \o <<x>>
OBVIOUS

\* Commands about drives ban nobody.
LEMMA DriveCmdsBanNobody ==
    ASSUME NEW t \in Seq(DriveCmd), NEW p
    PROVE  ~ Has(t, Bans(p)) /\ ~ Has(t, Unbans(p))
<1>1. \A k \in 1..Len(t) : t[k] \in DriveCmd
  BY ElementOfSeq
<1>2. \A c \in DriveCmd : c.op \notin {"ban", "unban"}
  BY DEF DriveCmd
<1> QED BY <1>1, <1>2 DEF Has, Bans, Unbans

\* The steps that have nothing to do with bans.
BansAlone ==
    /\ \E t \in Seq(DriveCmd) : chan' = chan \o t
    /\ bans' = bans /\ refused' = refused
    /\ fails' \in {fails, fails + 1}
    /\ Passes("banned")

LEMMA BansAlonePreserves ==
    ASSUME DaemonTypes, BansInv, BansAlone
    PROVE  BansInv'
<1> SUFFICES ASSUME fails' = 0, NEW p \in Peers \ bans'.mem
             PROVE  BanIsLifted(p)'
  BY DEF BansInv
<1>1. fails = 0 /\ p \in Peers \ bans.mem
  BY DEF BansAlone, DaemonTypes, CoreTypes, LoopTypes
<1>2. BanIsLifted(p)
  BY <1>1 DEF BansInv
<1>3. BannedEvent(p) \in SUBSET {e \in Event : e.ev = "banned"}
  BY DEF BannedEvent
<1>4. QueueTypes /\ Passes("banned")
  BY DEF DaemonTypes, CoreTypes, BansAlone
<1>5. Has(evts', BannedEvent(p)) <=> Has(evts, BannedEvent(p))
  BY <1>3, <1>4, PassedEvents
<1>6. PICK t \in Seq(DriveCmd) : chan' = chan \o t
  BY DEF BansAlone
<1>7. t \in Seq(Cmd) /\ chan \in Seq(Cmd)
  BY DriveCmdsAreCmds DEF DaemonTypes, CoreTypes, QueueTypes
<1>8. ~ Has(t, Bans(p)) /\ ~ Has(t, Unbans(p))
  BY DriveCmdsBanNobody
<1>9. Mended(t, Bans(p), Unbans(p))
  BY <1>8, MendedNone
<1>10. /\ Has(chan', Unbans(p)) <=> Has(chan, Unbans(p))
       /\ Mended(chan, Bans(p), Unbans(p)) => Mended(chan', Bans(p), Unbans(p))
  BY <1>6, <1>7, <1>8, <1>9, MendedConcat
<1>11. refused' = refused
  BY DEF BansAlone
<1> QED BY <1>2, <1>5, <1>10, <1>11 DEF BanIsLifted

\* The steps that have nothing to do with invites.
InvitesAlone == inv' = inv /\ Passes("accepted")

LEMMA InvitesAlonePreserves ==
    ASSUME DaemonTypes, InvitesInv, InvitesAlone
    PROVE  InvitesInv'
<1>1. \A t, n : Has(evts', AcceptedEvent(t, n)) <=> Has(evts, AcceptedEvent(t, n))
  <2> TAKE t, n
  <2>1. AcceptedEvent(t, n) \in SUBSET {e \in Event : e.ev = "accepted"}
    BY DEF AcceptedEvent
  <2>2. QueueTypes /\ Passes("accepted")
    BY DEF DaemonTypes, CoreTypes, InvitesAlone
  <2> QED BY <2>1, <2>2, PassedEvents
<1>2. inv' = inv
  BY DEF InvitesAlone
<1>3. ASSUME NEW t, NEW n, LetIn(t, n)
      PROVE  LetIn(t, n)'
  BY <1>2, <1>3 DEF LetIn
<1>4. /\ \A u \in inv'.granted : u[1] \notin inv'.open
      /\ \A a, b \in inv'.granted : a[1] = b[1] => a[2] = b[2]
  BY <1>2 DEF InvitesInv
<1>5. \A t \in Nat, n \in Joined :
         /\ <<t, n>> \in inv'.shown => t <= Len(inv'.minted)
         /\ <<t, n>> \in inv'.shown /\ t \in inv'.open => Has(evts', AcceptedEvent(t, n))
         /\ Has(evts', AcceptedEvent(t, n)) => <<t, n>> \in inv'.shown
  BY <1>1, <1>2 DEF InvitesInv
<1>6. Cardinality(inv'.here) <= MaxPending + 1 =>
         \A t \in inv'.here \ inv'.open : \E n \in Joined : LetIn(t, n)'
  BY <1>2, <1>3 DEF InvitesInv
<1> QED BY <1>4, <1>5, <1>6 DEF InvitesInv

\* Which steps they are.
LEMMA QuietSteps ==
    ASSUME DaemonTypes, Next
    PROVE  /\ BansAlone
              \/ OnPeerAutoBanned \/ handle_cmd \/ Crash \/ Start
              \/ (\E p \in Peers, ban \in BOOLEAN : BanCmd(p, ban))
              \/ (\E p \in Peers : EngineAutoBan(p))
              \/ (\E n \in Joined, t \in Nonces : EngineJoin(InviteAccept(t, n)))
           /\ InvitesAlone
              \/ OnInviteAccepted \/ Crash
              \/ (\E gs \in Grants : Invite(gs))
              \/ (\E p \in Peers : EngineAutoBan(p))
              \/ (\E n \in Joined, t \in Nonces : EngineJoin(InviteAccept(t, n)))
<1>1. chan \in Seq(Cmd) /\ evts \in Seq(Event)
  BY DEF DaemonTypes, CoreTypes, QueueTypes
<1>2. chan = chan \o <<>> /\ <<>> \in Seq(DriveCmd)
  BY <1>1, ConcatEmptySeq, EmptySeq
<1>3. ASSUME chan' = chan, bans' = bans, refused' = refused, fails' = fails, inv' = inv,
             Passes("banned"), Passes("accepted")
      PROVE  BansAlone /\ InvitesAlone
  BY <1>2, <1>3 DEF BansAlone, InvitesAlone
<1>4. CASE Persists
  <2>1. /\ fails' \in {fails, fails + 1}
        /\ \E t \in Seq(DriveCmd) : chan' = chan \o t
        /\ UNCHANGED <<up, bans, engine, others>>
        /\ evts' = evts \/ (evts # <<>> /\ Head(evts).ev = "joined" /\ evts' = Tail(evts))
    BY <1>4, PersistsSends
  <2>2. bans' = bans /\ refused' = refused /\ inv' = inv
    BY <2>1 DEF engine, others
  <2>3. Passes("banned") /\ Passes("accepted")
    BY <2>1 DEF Passes
  <2> QED BY <2>1, <2>2, <2>3 DEF BansAlone, InvitesAlone
<1>5. CASE Tick
  <2>1. \E t \in Seq(DriveCmd) : chan' = chan \o t
    BY <1>5, TickIsTyped
  <2>2. bans' = bans /\ refused' = refused /\ inv' = inv /\ evts' = evts /\ fails' = fails
    BY <1>5 DEF Tick, engine, others
  <2>3. Passes("banned") /\ Passes("accepted")
    BY <2>2 DEF Passes
  <2> QED BY <2>1, <2>2, <2>3 DEF BansAlone, InvitesAlone
<1>6. CASE OnDriveStatus
  BY <1>3, <1>6 DEF OnDriveStatus, Passes, engine, others
<1>7. CASE OnPeerAutoBanned
  BY <1>7 DEF OnPeerAutoBanned, InvitesAlone, Passes, others
<1>8. CASE OnInviteAccepted
  <2>1. chan' = chan /\ bans' = bans /\ refused' = refused /\ fails' = fails /\ Passes("banned")
    BY <1>8 DEF OnInviteAccepted, Passes, engine
  <2> QED BY <1>2, <1>8, <2>1 DEF BansAlone
<1>9. ASSUME NEW n \in AllNames, ResyncDrive(n)
      PROVE  BansAlone /\ InvitesAlone
  <2> DEFINE c == [op |-> "resync", n |-> n]
  <2>1. c \in DriveCmd /\ c \in Cmd
    BY DEF Cmd, DriveCmd
  <2>2. /\ chan' = Append(chan, c) /\ bans' = bans /\ refused' = refused /\ inv' = inv
        /\ evts' = evts /\ fails' = fails
    BY <1>9 DEF ResyncDrive, Send, engine, others
  <2> HIDE DEF c
  <2>3. chan' = chan \o <<c>> /\ <<c>> \in Seq(DriveCmd)
    BY <1>1, <2>1, <2>2, AppendAsConcat, HasOne
  <2> QED BY <2>2, <2>3 DEF BansAlone, InvitesAlone, Passes
<1>10. ASSUME NEW p \in Peers, NEW ban \in BOOLEAN, BanCmd(p, ban)
       PROVE  InvitesAlone
  BY <1>10 DEF BanCmd, InvitesAlone, Passes, others
<1>11. ASSUME NEW gs \in Grants, Invite(gs)
       PROVE  BansAlone
  <2>1. chan' = chan /\ bans' = bans /\ refused' = refused /\ fails' = fails /\ Passes("banned")
    BY <1>11 DEF Invite, Passes, engine
  <2> QED BY <1>2, <2>1 DEF BansAlone
<1>12. CASE handle_cmd
  <2>1. UNCHANGED <<up, onDisk, mine, bans, others, fails, left>> /\ Handled(Head(chan))
    BY <1>12, HandleCmdIs
  <2>2. evts' = evts \/ \E n \in AllNames, s \in {"connecting", "offline"} : evts' = evts \o Report(n, s)
    BY <2>1 DEF Handled
  <2> QED BY <1>12, <2>1, <2>2 DEF InvitesAlone, Passes, others
<1>13. ASSUME NEW n \in AllNames, NEW s \in {"synced", "offline"}, EngineStatus(n, s)
       PROVE  BansAlone /\ InvitesAlone
  <2>1. Passes("banned") /\ Passes("accepted")
    BY <1>13 DEF EngineStatus, Passes
  <2> QED BY <1>3, <1>13, <2>1 DEF EngineStatus, engine, others
<1>14. CASE \/ CliLoad
            \/ \E n \in AllNames : direct_drive_op(n)
            \/ \E v \in Opts \cup {BadOpt} : CliSet(v)
            \/ \E k \in {"corrupt", "invalid", "missing"} : EditorSpoils(k)
  <2>1. UNCHANGED <<mine, bans, chan, evts, engine, fails, inv>>
    BY <1>14, OutsideIsTyped
  <2> QED BY <1>3, <2>1 DEF Passes, engine
<1>15. CASE Start
  BY <1>15 DEF Start, InvitesAlone, Passes, others
<1>16. CASE Rename \/ TakeTime
  BY <1>3, <1>16 DEF Rename, TakeTime, Passes, engine, others
<1> QED BY <1>4, <1>5, <1>6, <1>7, <1>8, <1>9, <1>10, <1>11, <1>12, <1>13, <1>14, <1>15,
           <1>16, NextIs

-----------------------------------------------------------------------------
(* Bans                                                                    *)

LEMMA BansPreserved ==
    ASSUME DaemonTypes, BansInv, [Next]_vars
    PROVE  BansInv'
<1>0. CASE UNCHANGED vars
  BY <1>0 DEF vars, BansInv, BanIsLifted
<1>1. chan \in Seq(Cmd) /\ evts \in Seq(Event) /\ fails \in Nat
  BY DEF DaemonTypes, CoreTypes, QueueTypes, LoopTypes
<1>2. CASE OnPeerAutoBanned
  <2> SUFFICES ASSUME fails' = 0, NEW q \in Peers \ bans'.mem
               PROVE  BanIsLifted(q)'
    BY DEF BansInv
  <2>1. /\ evts # <<>> /\ Head(evts).ev = "banned" /\ evts' = Tail(evts)
        /\ chan' = chan /\ refused' = refused
        /\ IF Head(evts).p \in bans.mem THEN UNCHANGED <<bans, fails>>
                                          ELSE save_bans(bans.mem \cup {Head(evts).p})
    BY <1>2 DEF OnPeerAutoBanned, engine
  <2>2. fails = 0 /\ q \notin bans.mem /\ q # Head(evts).p
    BY <1>1, <2>1 DEF save_bans
  <2>3. Head(evts) \notin BannedEvent(q)
    BY <2>2 DEF BannedEvent
  <2>4. Has(evts, BannedEvent(q)) => Has(evts', BannedEvent(q))
    BY <1>1, <2>1, <2>3, MendedTail
  <2>5. BanIsLifted(q)
    BY <2>2 DEF BansInv
  <2> QED BY <2>1, <2>4, <2>5 DEF BanIsLifted
<1>3. CASE handle_cmd
  <2> SUFFICES ASSUME fails' = 0, NEW q \in Peers \ bans'.mem
               PROVE  BanIsLifted(q)'
    BY DEF BansInv
  <2> DEFINE c == Head(chan)
  <2>1. /\ chan # <<>> /\ chan' = Tail(chan) /\ bans' = bans /\ fails' = fails
        /\ Handled(c)
    BY <1>3, HandleCmdIs
  <2>2. BanIsLifted(q)
    BY <2>1 DEF BansInv
  <2>3. Has(evts, BannedEvent(q)) => Has(evts', BannedEvent(q))
    <3>1. Passes("banned")
      BY <2>1 DEF Handled, Passes
    <3>2. BannedEvent(q) \in SUBSET {e \in Event : e.ev = "banned"}
      BY DEF BannedEvent
    <3> QED BY <3>1, <3>2, PassedEvents DEF DaemonTypes, CoreTypes
  <2>4. q \in refused' => (q \in refused /\ c \notin Unbans(q)) \/ c \in Bans(q)
    BY <2>1 DEF Handled
  <2>5. /\ Has(chan, Unbans(q)) <=> c \in Unbans(q) \/ Has(chan', Unbans(q))
        /\ Mended(chan, Bans(q), Unbans(q)) =>
              /\ Mended(chan', Bans(q), Unbans(q))
              /\ c \in Bans(q) => Has(chan', Unbans(q))
    BY <1>1, <2>1, MendedTail
  <2> QED BY <2>2, <2>3, <2>4, <2>5 DEF BanIsLifted
<1>4. CASE Crash
  <2>1. chan' = <<>> /\ refused' = {}
    BY <1>4 DEF Crash, Stopped
  <2>2. \A p : ~ Has(chan', Bans(p))
    BY <2>1, HasNone
  <2> QED BY <2>1, <2>2, MendedNone DEF BansInv, BanIsLifted
<1>5. CASE Start
  <2>1. /\ bans' = [bans EXCEPT !.mem = bans.disk] /\ refused' = bans.disk
        /\ chan' = Adds(load_quiet(file).val.drives, {})
    BY <1>5 DEF Start
  <2>2. bans'.mem = refused'
    BY <2>1 DEF DaemonTypes, CoreTypes, BanTypes
  <2>3. load_quiet(file).val.drives \in Drives
    BY LoadIsTyped DEF DaemonTypes, CoreTypes, Config
  <2>4. chan' \in Seq(DriveCmd)
    BY <2>1, <2>3, AddsPut
  <2>5. \A p : Mended(chan', Bans(p), Unbans(p))
    BY <2>4, DriveCmdsBanNobody, MendedNone
  <2> QED BY <2>2, <2>5 DEF BansInv, BanIsLifted
<1>6. ASSUME NEW p \in Peers, NEW ban \in BOOLEAN, BanCmd(p, ban)
      PROVE  BansInv'
  <2> SUFFICES ASSUME fails' = 0, NEW q \in Peers \ bans'.mem
               PROVE  BanIsLifted(q)'
    BY DEF BansInv
  <2> DEFINE mem == IF ban THEN bans.mem \cup {p} ELSE bans.mem \ {p}
             c == [op |-> IF ban THEN "ban" ELSE "unban", p |-> p]
  <2>1. save_bans(mem) /\ evts' = evts /\ refused' = refused
        /\ (fails' = fails => chan' = Append(chan, c))
    BY <1>6 DEF BanCmd, Send, engine
  <2>2. fails' = fails /\ fails = 0 /\ bans' = [mem |-> mem, disk |-> mem]
    BY <1>1, <2>1 DEF save_bans
  <2>3. c \in Cmd /\ c \in BanCmds
    BY DEF Cmd, BanCmds
  <2>4. chan' = chan \o <<c>>
    BY <1>1, <2>1, <2>2, <2>3, AppendAsConcat
  <2>5. ban => p \in bans'.mem
    BY <2>2
  <2>6. ~ ban /\ q = p => c \in Unbans(q)
    BY <2>3 DEF Unbans
  <2>7. q # p => q \notin bans.mem /\ c \notin Bans(q)
    BY <2>2 DEF Bans
  <2>8. ~ ban => c \notin Bans(q)
    BY DEF Bans
  <2> HIDE DEF c, mem
  <2>9. /\ Has(<<c>>, Unbans(q)) <=> c \in Unbans(q)
        /\ Has(<<c>>, Bans(q)) <=> c \in Bans(q)
        /\ <<c>> \in Seq(Cmd)
    BY <2>3, HasOne
  <2>10. c \notin Bans(q)
    BY <2>5, <2>7, <2>8
  <2>11. Mended(<<c>>, Bans(q), Unbans(q))
    BY <2>9, <2>10, MendedNone
  <2>12. /\ Has(chan', Unbans(q)) <=> Has(chan, Unbans(q)) \/ Has(<<c>>, Unbans(q))
         /\ Mended(chan, Bans(q), Unbans(q)) \/ Has(<<c>>, Unbans(q)) => Mended(chan', Bans(q), Unbans(q))
    BY <1>1, <2>4, <2>9, <2>11, MendedConcat
  <2>13. CASE q = p
    BY <2>5, <2>6, <2>9, <2>12, <2>13 DEF BanIsLifted
  <2>14. CASE q # p
    <3>1. BanIsLifted(q)
      BY <2>2, <2>7, <2>14 DEF BansInv
    <3> QED BY <2>1, <2>12, <3>1 DEF BanIsLifted
  <2> QED BY <2>13, <2>14
<1>7. ASSUME NEW p \in Peers, EngineAutoBan(p)
      PROVE  BansInv'
  <2> SUFFICES ASSUME fails' = 0, NEW q \in Peers \ bans'.mem
               PROVE  BanIsLifted(q)'
    BY DEF BansInv
  <2>1. chan' = chan /\ bans' = bans /\ fails' = fails /\ refused' = refused \cup {p}
    BY <1>7 DEF EngineAutoBan
  <2>2. PICK e : e = [ev |-> "banned", p |-> p]
    OBVIOUS
  <2>3. BannedEvent(q) \in SUBSET {x \in Event : x.ev # "status"}
    BY DEF BannedEvent
  <2>4. e \in Event /\ (Has(evts', BannedEvent(q)) <=> Has(evts, BannedEvent(q)) \/ e \in BannedEvent(q))
    BY <1>7, <2>2, <2>3, AutoBanTells
  <2>5. q = p => e \in BannedEvent(q)
    BY <2>2, <2>4 DEF BannedEvent
  <2>6. BanIsLifted(q)
    BY <2>1 DEF BansInv
  <2> QED BY <2>1, <2>4, <2>5, <2>6 DEF BanIsLifted
<1>8. ASSUME NEW n \in Joined, NEW t \in Nonces, EngineJoin(InviteAccept(t, n))
      PROVE  BansInv'
  <2> SUFFICES ASSUME fails' = 0, NEW q \in Peers \ bans'.mem
               PROVE  BanIsLifted(q)'
    BY DEF BansInv
  <2> DEFINE r == Report(n, "connecting")
             js == << [ev |-> "joined", n |-> n], [ev |-> "accepted", n |-> n, t |-> t] >>
  <2>1. /\ chan' = chan /\ bans' = bans /\ fails' = fails /\ refused' = refused
        /\ evts' = (evts \o r) \o js
    BY <1>8 DEF EngineJoin, InviteAccept
  <2>2. n \in AllNames /\ t \in Nat
    BY DEF AllNames, Nonces, DaemonTypes, CoreTypes
  <2>3. r \in Seq(Event) /\ js \in Seq(Event)
    BY <2>2 DEF Report, Event
  <2> HIDE DEF r, js
  <2>4. evts \o r \in Seq(Event)
    BY <1>1, <2>3, ConcatProperties
  <2>5. Has(evts, BannedEvent(q)) => Has(evts \o r, BannedEvent(q))
    BY <1>1, <2>3, MendedConcat
  <2>6. Has(evts \o r, BannedEvent(q)) => Has(evts', BannedEvent(q))
    BY <2>1, <2>3, <2>4, MendedConcat
  <2>7. BanIsLifted(q)
    BY <2>1 DEF BansInv
  <2> QED BY <2>1, <2>5, <2>6, <2>7 DEF BanIsLifted
<1>9. CASE BansAlone
  BY <1>9, BansAlonePreserves
<1> QED BY <1>0, <1>2, <1>3, <1>4, <1>5, <1>6, <1>7, <1>8, <1>9, QuietSteps

\* Once both channels are empty, and as long as no write of the daemon failed,
\* every peer the engine refuses is on the list of bans the operator is shown
\* and can lift (execute_command, on_engine_event and handle_cmd), for any
\* peers, commands, restarts and interleaving of the two queues.
THEOREM BansAreListed == Spec => []RefusedAreListed
<1>1. Init => BansInv
  <2> SUFFICES ASSUME Init PROVE BansInv
    OBVIOUS
  <2>1. chan = <<>> /\ refused = {}
    BY DEF Init
  <2>2. \A p : ~ Has(chan, Bans(p))
    BY <2>1, HasNone
  <2> QED BY <2>1, <2>2, MendedNone DEF BansInv, BanIsLifted
<1>2. DaemonTypes /\ BansInv /\ [Next]_vars => BansInv'
  BY BansPreserved
<1>3. DaemonTypes /\ BansInv => RefusedAreListed
  <2> SUFFICES ASSUME DaemonTypes, BansInv, Drained, fails = 0, NEW p \in refused, p \notin bans.mem
               PROVE  FALSE
    BY DEF RefusedAreListed
  <2>1. BanIsLifted(p)
    BY DEF BansInv, DaemonTypes, CoreTypes, BanTypes
  <2>2. ~ Has(evts, BannedEvent(p)) /\ ~ Has(chan, Unbans(p))
    BY HasNone DEF Drained
  <2> QED BY <2>1, <2>2 DEF BanIsLifted
<1> QED BY <1>1, <1>2, <1>3, AlwaysTyped, PTL DEF Spec

-----------------------------------------------------------------------------
(* Invites                                                                 *)

\* Few invites of this process were made, so none was forgotten: there is room
\* for those that are open beside the new one.
LEMMA NewInviteForgetsNothing ==
    ASSUME InviteTypes, NEW t, t = Len(inv.minted) + 1,
           Cardinality(inv.here \cup {t}) <= MaxPending + 1
    PROVE  /\ Cardinality(inv.here) <= MaxPending + 1
           /\ ~ (Cardinality(inv.open) > MaxPending)
<1>1. Len(inv.minted) \in Nat
  BY DEF InviteTypes, Invites
<1>2. IsFiniteSet(1..Len(inv.minted))
  BY <1>1, FS_Interval
<1>3. inv.here \subseteq 1..Len(inv.minted) /\ inv.open \subseteq inv.here
  BY DEF InviteTypes
<1>4. IsFiniteSet(inv.here)
  BY <1>2, <1>3, FS_Subset
<1>5. t \notin inv.here
  BY <1>1, <1>3
<1>6. Cardinality(inv.here \cup {t}) = Cardinality(inv.here) + 1
  BY <1>4, <1>5, FS_AddElement
<1>7. Cardinality(inv.open) <= Cardinality(inv.here) /\ IsFiniteSet(inv.open)
  BY <1>3, <1>4, FS_Subset
<1>8. Cardinality(inv.here) \in Nat /\ Cardinality(inv.open) \in Nat
  BY <1>4, <1>7, FS_CardinalityType
<1> QED BY <1>6, <1>7, <1>8, Bounds

LEMMA InvitePreserves ==
    ASSUME DaemonTypes, InvitesInv, NEW gs \in Grants, Invite(gs)
    PROVE  InvitesInv'
<1> DEFINE g == InviteToken(gs).groups
           m == Append(inv.minted, g)
           t == Len(inv.minted) + 1
           kept == IF Cardinality(inv.open) > MaxPending THEN {} ELSE inv.open
<1>1. /\ evts' = evts
      /\ inv' = [inv EXCEPT !.minted = m, !.open = kept \cup {t}, !.here = inv.here \cup {t}]
  BY DEF Invite, InviteToken, new_nonce
<1>2. g \in Grants \cup {{OwnName}} /\ inv.minted \in Seq(Grants \cup {{OwnName}}) /\ inv \in Invites
  BY DEF InviteToken, DaemonTypes, CoreTypes, InviteTypes, Invites
<1> HIDE DEF g
<1>3. /\ Len(m) = t /\ t \in Nat /\ Len(inv.minted) \in Nat /\ Len(inv.minted) < t
      /\ \A i \in 1..Len(inv.minted) : m[i] = inv.minted[i]
  BY <1>2
<1>4. /\ inv'.minted = m /\ inv'.open = kept \cup {t} /\ inv'.here = inv.here \cup {t}
      /\ inv'.shown = inv.shown /\ inv'.granted = inv.granted
  BY <1>1, <1>2 DEF Invites
<1>5. kept \subseteq inv.open
  OBVIOUS
<1>6. InviteTypes
  BY DEF DaemonTypes, CoreTypes
<1>7. t = Len(inv.minted) + 1
  OBVIOUS
<1>8. kept = IF Cardinality(inv.open) > MaxPending THEN {} ELSE inv.open
  OBVIOUS
<1> HIDE DEF m, t, kept
<1>9. \A u \in inv'.granted : u[1] \notin inv'.open
  <2> SUFFICES ASSUME NEW u \in inv.granted PROVE u[1] \notin kept /\ u[1] # t
    BY <1>4
  <2>1. u[1] \in 1..Len(inv.minted)
    BY <1>6 DEF InviteTypes
  <2> QED BY <1>3, <1>5, <2>1 DEF InvitesInv
<1>10. \A x \in Nat, n \in Joined :
         /\ <<x, n>> \in inv'.shown => x <= Len(inv'.minted)
         /\ <<x, n>> \in inv'.shown /\ x \in inv'.open => Has(evts', AcceptedEvent(x, n))
         /\ Has(evts', AcceptedEvent(x, n)) => <<x, n>> \in inv'.shown
  <2> SUFFICES ASSUME NEW x \in Nat, NEW n \in Joined
               PROVE  /\ <<x, n>> \in inv.shown => x <= t
                      /\ <<x, n>> \in inv.shown /\ x \in kept \cup {t} => Has(evts, AcceptedEvent(x, n))
                      /\ Has(evts, AcceptedEvent(x, n)) => <<x, n>> \in inv.shown
    BY <1>1, <1>3, <1>4
  <2>1. <<x, n>> \in inv.shown => x <= Len(inv.minted)
    BY DEF InvitesInv
  <2>2. <<x, n>> \in inv.shown => x <= t /\ x # t
    BY <1>3, <2>1
  <2> QED BY <1>5, <2>2 DEF InvitesInv
<1>11. ASSUME Cardinality(inv'.here) <= MaxPending + 1, NEW x \in inv'.here \ inv'.open
       PROVE  \E n \in Joined : LetIn(x, n)'
  <2>1. /\ Cardinality(inv.here) <= MaxPending + 1
        /\ ~ (Cardinality(inv.open) > MaxPending)
    BY <1>4, <1>6, <1>7, <1>11, NewInviteForgetsNothing
  <2>2. x \in inv.here \ inv.open
    BY <1>4, <1>8, <1>11, <2>1
  <2>3. PICK n \in Joined : LetIn(x, n)
    BY <2>1, <2>2 DEF InvitesInv
  <2>4. inv'.minted[x] = inv.minted[x]
    BY <1>3, <1>4, <1>6, <2>2 DEF InviteTypes
  <2>5. LetIn(x, n)'
    BY <1>4, <2>3, <2>4 DEF LetIn
  <2> QED BY <2>5
<1>12. \A a, b \in inv'.granted : a[1] = b[1] => a[2] = b[2]
  BY <1>4 DEF InvitesInv
<1> QED BY <1>9, <1>10, <1>11, <1>12 DEF InvitesInv

LEMMA AcceptedPreserves ==
    ASSUME DaemonTypes, InvitesInv, OnInviteAccepted
    PROVE  InvitesInv'
<1>0. PICK t, n : t = Head(evts).t /\ n = Head(evts).n
  OBVIOUS
<1> DEFINE new == {g \in inv.minted[t] \cap Groups : \A u \in inv.granted : Tail(u) # <<n, g>>}
           G == inv.granted \cup {<<t, n, g>> : g \in new}
<1>1. /\ evts # <<>> /\ Head(evts).ev = "accepted" /\ evts' = Tail(evts)
      /\ IF t \notin inv.open THEN inv' = inv
         ELSE inv' = [inv EXCEPT !.open = inv.open \ {t}, !.granted = G]
  BY <1>0 DEF OnInviteAccepted
<1>2. Head(evts) \in Event /\ n \in Joined /\ t \in Nat /\ Head(evts) \in AcceptedEvent(t, n)
  BY <1>0, <1>1, EventIsTyped DEF DaemonTypes, CoreTypes, Event, AcceptedEvent
<1>3. evts \in Seq(Event) /\ InviteTypes /\ inv \in Invites
  BY DEF DaemonTypes, CoreTypes, QueueTypes, InviteTypes
<1>4. \A x \in Nat, y \in Joined :
         /\ Has(evts', AcceptedEvent(x, y)) => Has(evts, AcceptedEvent(x, y))
         /\ x # t /\ Has(evts, AcceptedEvent(x, y)) => Has(evts', AcceptedEvent(x, y))
  <2> TAKE x \in Nat, y \in Joined
  <2>1. Has(evts, AcceptedEvent(x, y)) <=> Head(evts) \in AcceptedEvent(x, y) \/ Has(Tail(evts), AcceptedEvent(x, y))
    BY <1>1, <1>3, MendedTail
  <2>2. x # t => Head(evts) \notin AcceptedEvent(x, y)
    BY <1>0 DEF AcceptedEvent
  <2> QED BY <1>1, <2>1, <2>2
<1>5. Has(evts, AcceptedEvent(t, n))
  <2>1. Has(evts, AcceptedEvent(t, n)) <=> Head(evts) \in AcceptedEvent(t, n) \/ Has(Tail(evts), AcceptedEvent(t, n))
    BY <1>1, <1>3, MendedTail
  <2> QED BY <1>2, <2>1
<1>6. <<t, n>> \in inv.shown
  BY <1>2, <1>5 DEF InvitesInv
<1>7. new \subseteq Groups
  OBVIOUS
<1>8. \A g \in inv.minted[t] \cap Groups : \E u \in G : Tail(u) = <<n, g>>
  <2> TAKE g \in inv.minted[t] \cap Groups
  <2>1. CASE g \in new
    <3>1. <<t, n, g>> \in G /\ Tail(<<t, n, g>>) = <<n, g>>
      BY <2>1
    <3> QED BY <3>1
  <2>2. CASE g \notin new
    BY <2>2
  <2> QED BY <2>1, <2>2
<1>g. /\ \A u \in G : u \in inv.granted \/ (u[1] = t /\ u[2] = n)
      /\ inv.granted \subseteq G
  OBVIOUS
<1> HIDE DEF new, G
<1>9. CASE t \notin inv.open
  <2>1. inv' = inv
    BY <1>1, <1>9
  <2>2. \A x, y : LetIn(x, y) => LetIn(x, y)'
    BY <2>1 DEF LetIn
  <2>3. \A x \in Nat, y \in Joined :
          /\ <<x, y>> \in inv'.shown => x <= Len(inv'.minted)
          /\ <<x, y>> \in inv'.shown /\ x \in inv'.open => Has(evts', AcceptedEvent(x, y))
          /\ Has(evts', AcceptedEvent(x, y)) => <<x, y>> \in inv'.shown
    BY <1>4, <1>9, <2>1 DEF InvitesInv
  <2>4. Cardinality(inv'.here) <= MaxPending + 1 =>
          \A x \in inv'.here \ inv'.open : \E y \in Joined : LetIn(x, y)'
    BY <2>1, <2>2 DEF InvitesInv
  <2>5. /\ \A u \in inv'.granted : u[1] \notin inv'.open
        /\ \A a, b \in inv'.granted : a[1] = b[1] => a[2] = b[2]
    BY <2>1 DEF InvitesInv
  <2> QED BY <2>3, <2>4, <2>5 DEF InvitesInv
<1>10. CASE t \in inv.open
  <2>1. /\ inv'.minted = inv.minted /\ inv'.open = inv.open \ {t} /\ inv'.here = inv.here
        /\ inv'.shown = inv.shown /\ inv'.granted = G
    BY <1>1, <1>3, <1>10 DEF Invites
  <2>2. \A u \in inv.granted : u[1] # t
    BY <1>10 DEF InvitesInv
  <2>3. \A u \in inv'.granted : u[1] \notin inv'.open
    BY <1>g, <2>1 DEF InvitesInv
  <2>4. \A a, b \in inv'.granted : a[1] = b[1] => a[2] = b[2]
    BY <1>g, <2>1, <2>2 DEF InvitesInv
  <2>5. \A x \in Nat, y \in Joined :
          /\ <<x, y>> \in inv'.shown => x <= Len(inv'.minted)
          /\ <<x, y>> \in inv'.shown /\ x \in inv'.open => Has(evts', AcceptedEvent(x, y))
          /\ Has(evts', AcceptedEvent(x, y)) => <<x, y>> \in inv'.shown
    BY <1>4, <2>1 DEF InvitesInv
  <2>6. LetIn(t, n)'
    BY <1>6, <1>8, <2>1 DEF LetIn
  <2>7. \A x, y : LetIn(x, y) => LetIn(x, y)'
    BY <1>g, <2>1 DEF LetIn
  <2>8. ASSUME Cardinality(inv'.here) <= MaxPending + 1, NEW x \in inv'.here \ inv'.open
        PROVE  \E y \in Joined : LetIn(x, y)'
    <3>1. CASE x = t
      BY <1>2, <2>6, <3>1
    <3>2. CASE x # t
      <4>1. Cardinality(inv.here) <= MaxPending + 1 /\ x \in inv.here \ inv.open
        BY <2>1, <2>8, <3>2
      <4>2. PICK y \in Joined : LetIn(x, y)
        BY <4>1 DEF InvitesInv
      <4> QED BY <2>7, <4>2
    <3> QED BY <3>1, <3>2
  <2> QED BY <2>3, <2>4, <2>5, <2>8 DEF InvitesInv
<1> QED BY <1>9, <1>10

LEMMA JoinPreservesInvites ==
    ASSUME DaemonTypes, InvitesInv, NEW n \in Joined, NEW t \in Nonces,
           EngineJoin(InviteAccept(t, n))
    PROVE  InvitesInv'
<1> DEFINE r == Report(n, "connecting")
           j == [ev |-> "joined", n |-> n]
           a == [ev |-> "accepted", n |-> n, t |-> t]
<1>1. evts' = (evts \o r) \o <<j, a>> /\ inv' = [inv EXCEPT !.shown = inv.shown \cup {<<t, n>>}]
  BY DEF EngineJoin, InviteAccept
<1>2. n \in AllNames /\ t \in Nat /\ t <= Len(inv.minted)
  BY DEF AllNames, Nonces, DaemonTypes, CoreTypes, InviteTypes, Invites
<1>3. inv \in Invites /\ evts \in Seq(Event)
  BY DEF DaemonTypes, CoreTypes, InviteTypes, QueueTypes
<1>4. /\ inv'.minted = inv.minted /\ inv'.open = inv.open /\ inv'.here = inv.here
      /\ inv'.shown = inv.shown \cup {<<t, n>>} /\ inv'.granted = inv.granted
  BY <1>1, <1>3 DEF Invites
<1> DEFINE e == [ev |-> "status", n |-> n, s |-> "connecting"]
<1>5. e \in Event /\ j \in Event /\ a \in Event /\ r = <<e>>
  BY <1>2 DEF Event, Report
<1>6. \A x \in Nat, y \in Joined :
         /\ e \notin AcceptedEvent(x, y) /\ j \notin AcceptedEvent(x, y)
         /\ a \in AcceptedEvent(x, y) <=> x = t /\ y = n
  BY <1>5 DEF AcceptedEvent
<1> HIDE DEF e, r, j, a
<1>7. \A x \in Nat, y \in Joined :
         Has(evts', AcceptedEvent(x, y)) <=> Has(evts, AcceptedEvent(x, y)) \/ (x = t /\ y = n)
  <2> TAKE x \in Nat, y \in Joined
  <2> DEFINE A == AcceptedEvent(x, y)
  <2>1. e \notin A /\ j \notin A /\ (a \in A <=> x = t /\ y = n)
    BY <1>6
  <2> HIDE DEF A
  <2>2. <<e>> \in Seq(Event) /\ ~ Has(<<e>>, A)
    BY <1>5, <2>1, HasOne
  <2>3. <<j, a>> \in Seq(Event) /\ (Has(<<j, a>>, A) <=> x = t /\ y = n)
    BY <1>5, <2>1, HasTwo
  <2>4. evts \o r \in Seq(Event) /\ (Has(evts \o r, A) <=> Has(evts, A) \/ Has(<<e>>, A))
    BY <1>3, <1>5, <2>2, MendedConcat
  <2>5. Has(evts', A) <=> Has(evts \o r, A) \/ Has(<<j, a>>, A)
    BY <1>1, <2>3, <2>4, MendedConcat
  <2> QED BY <2>2, <2>3, <2>4, <2>5 DEF A
<1>8. \A x \in Nat, y \in Joined :
         /\ <<x, y>> \in inv'.shown => x <= Len(inv'.minted)
         /\ <<x, y>> \in inv'.shown /\ x \in inv'.open => Has(evts', AcceptedEvent(x, y))
         /\ Has(evts', AcceptedEvent(x, y)) => <<x, y>> \in inv'.shown
  BY <1>2, <1>4, <1>7 DEF InvitesInv
<1>9. \A x, y : LetIn(x, y) => LetIn(x, y)'
  BY <1>4 DEF LetIn
<1>10. Cardinality(inv'.here) <= MaxPending + 1 =>
          \A x \in inv'.here \ inv'.open : \E y \in Joined : LetIn(x, y)'
  BY <1>4, <1>9 DEF InvitesInv
<1>11. /\ \A u \in inv'.granted : u[1] \notin inv'.open
       /\ \A x, y \in inv'.granted : x[1] = y[1] => x[2] = y[2]
  BY <1>4 DEF InvitesInv
<1> QED BY <1>8, <1>10, <1>11 DEF InvitesInv

LEMMA InvitesPreserved ==
    ASSUME DaemonTypes, InvitesInv, [Next]_vars
    PROVE  InvitesInv'
<1>1. CASE UNCHANGED vars
  <2>1. InvitesAlone
    BY <1>1 DEF vars, InvitesAlone, Passes
  <2> QED BY <2>1, InvitesAlonePreserves
<1>2. CASE Crash
  <2>1. evts' = <<>> /\ inv' = [inv EXCEPT !.open = {}, !.here = {}, !.shown = {}]
    BY <1>2 DEF Crash, Stopped
  <2>2. inv'.open = {} /\ inv'.here = {} /\ inv'.shown = {} /\ inv'.granted = inv.granted
    BY <2>1 DEF DaemonTypes, CoreTypes, InviteTypes, Invites
  <2>3. \A t, n : ~ Has(evts', AcceptedEvent(t, n))
    BY <2>1, HasNone
  <2> QED BY <2>2, <2>3 DEF InvitesInv
<1>3. ASSUME NEW p \in Peers, EngineAutoBan(p)
      PROVE  InvitesInv'
  <2>1. inv' = inv
    BY <1>3 DEF EngineAutoBan, others
  <2>2. PICK e : e = [ev |-> "banned", p |-> p]
    OBVIOUS
  <2>4. \A t, n : Has(evts', AcceptedEvent(t, n)) <=> Has(evts, AcceptedEvent(t, n))
    <3> TAKE t, n
    <3>1. AcceptedEvent(t, n) \in SUBSET {x \in Event : x.ev # "status"} /\ e \notin AcceptedEvent(t, n)
      BY <2>2 DEF AcceptedEvent
    <3> QED BY <1>3, <2>2, <3>1, AutoBanTells
  <2>5. \A x, y : LetIn(x, y) => LetIn(x, y)'
    BY <2>1 DEF LetIn
  <2>6. \A x \in Nat, y \in Joined :
          /\ <<x, y>> \in inv'.shown => x <= Len(inv'.minted)
          /\ <<x, y>> \in inv'.shown /\ x \in inv'.open => Has(evts', AcceptedEvent(x, y))
          /\ Has(evts', AcceptedEvent(x, y)) => <<x, y>> \in inv'.shown
    BY <2>1, <2>4 DEF InvitesInv
  <2>7. Cardinality(inv'.here) <= MaxPending + 1 =>
          \A x \in inv'.here \ inv'.open : \E y \in Joined : LetIn(x, y)'
    BY <2>1, <2>5 DEF InvitesInv
  <2>8. /\ \A u \in inv'.granted : u[1] \notin inv'.open
        /\ \A x, y \in inv'.granted : x[1] = y[1] => x[2] = y[2]
    BY <2>1 DEF InvitesInv
  <2> QED BY <2>6, <2>7, <2>8 DEF InvitesInv
<1> QED BY <1>1, <1>2, <1>3, QuietSteps, InvitesAlonePreserves, AcceptedPreserves, InvitePreserves,
           JoinPreservesInvites

\* An invite lets one joiner in, for any joiners, groups, capacity and order of
\* proofs, commands and restarts: no two peers are added to groups on one nonce
\* (pending_invites is emptied entry by entry in on_engine_event), and with the
\* channels empty one of those who showed a nonce is in every group it names,
\* unless more invites are open than the daemon remembers.
THEOREM InvitesLetInOne == Spec => []InvitesGrantOnce
<1>1. Init => InvitesInv
  <2> SUFFICES ASSUME Init PROVE InvitesInv
    OBVIOUS
  <2>1. evts = <<>> /\ inv.open = {} /\ inv.here = {} /\ inv.shown = {} /\ inv.granted = {}
    BY DEF Init, NoInvites
  <2>2. \A t, n : ~ Has(evts, AcceptedEvent(t, n))
    BY <2>1, HasNone
  <2> QED BY <2>1, <2>2 DEF InvitesInv
<1>2. DaemonTypes /\ InvitesInv /\ [Next]_vars => InvitesInv'
  BY InvitesPreserved
<1>3. DaemonTypes /\ InvitesInv => InvitesGrantOnce
  <2> SUFFICES ASSUME DaemonTypes, InvitesInv, Drained, Cardinality(inv.here) <= MaxPending + 1,
                      NEW t \in inv.here, NEW g \in Groups, g \in inv.minted[t],
                      NEW m \in Joined, <<t, m>> \in inv.shown
               PROVE  \E n \in Joined : <<t, n>> \in inv.shown /\ \E u \in inv.granted : Tail(u) = <<n, g>>
    BY DEF InvitesInv, InvitesGrantOnce
  <2>1. t \in Nat
    BY DEF DaemonTypes, CoreTypes, InviteTypes, Invites
  <2>2. ~ Has(evts, AcceptedEvent(t, m))
    BY HasNone DEF Drained
  <2>3. t \notin inv.open
    BY <2>1, <2>2 DEF InvitesInv
  <2>4. PICK n \in Joined : LetIn(t, n)
    BY <2>3 DEF InvitesInv
  <2> QED BY <2>4 DEF LetIn
<1> QED BY <1>1, <1>2, <1>3, AlwaysTyped, PTL DEF Spec

-----------------------------------------------------------------------------
(* Drives                                                                  *)

\* Commands that bring no engine away from the drives f, as far as names in N go.
Follows(t, f, N) ==
    /\ t \in Seq(Cmd)
    /\ \A n \in N :
         /\ n \notin DOMAIN f => Mended(t, Puts(n), Takes(n))
         /\ n \in DOMAIN f => /\ Mended(t, Takes(n), Puts(n))
                              /\ \A p \in BOOLEAN : p # f[n] => Mended(t, Marks(n, p), Marks(n, f[n]))

\* Commands that tell an engine which follows f what the user's part of g has
\* that f had not.
Tells(t, f, g, N) ==
    \A n \in DOMAIN g \cap Names \cap N :
        /\ n \notin DOMAIN f => Has(t, Puts(n))
        /\ n \notin DOMAIN f \/ f[n] # g[n] => Has(t, Marks(n, g[n]))

LEMMA FollowsConcat ==
    ASSUME NEW f, NEW s, NEW t, NEW N, Follows(s, f, N), Follows(t, f, N)
    PROVE  Follows(s \o t, f, N)
<1>1. s \in Seq(Cmd) /\ t \in Seq(Cmd)
  BY DEF Follows
<1>2. \A bad, good : Mended(s, bad, good) /\ Mended(t, bad, good) => Mended(s \o t, bad, good)
  BY <1>1, MendedConcat
<1>3. s \o t \in Seq(Cmd)
  BY <1>1, ConcatProperties
<1> QED BY <1>2, <1>3 DEF Follows

LEMMA FollowsNone ==
    ASSUME NEW f, NEW N, NEW t \in Seq(Cmd),
           \A n \in N :
              /\ n \notin DOMAIN f => ~ Has(t, Puts(n))
              /\ n \in DOMAIN f => /\ ~ Has(t, Takes(n))
                                   /\ \A p \in BOOLEAN : p # f[n] => ~ Has(t, Marks(n, p))
    PROVE  Follows(t, f, N)
BY MendedNone DEF Follows

\* A step of the loop: the drives are those of the configuration, what was
\* taken out of it is taken out of the engine, and unless a write failed the
\* engine is told what is new.
DrivesStep(t) ==
    /\ chan' = chan \o t /\ table' = table
    /\ Plain' \subseteq Plain
    /\ Follows(t, cfg'.drives, Plain')
    /\ \A n \in Plain' : n \in known' <=> n \in DriveNames'
    /\ \A n \in Plain' \ DriveNames' : Has(evts, JoinedEvent(n)) => Has(evts', JoinedEvent(n))
    /\ \A n \in (Plain' \cap DriveNames) \ DriveNames' : Has(t, Takes(n))
    /\ fails' = 0 => fails = 0 /\ Tells(t, cfg.drives, cfg'.drives, Plain')

LEMMA DrivesStepPreserves ==
    ASSUME DaemonTypes, LoopTypes', DrivesInv, NEW t, DrivesStep(t)
    PROVE  DrivesInv'
<1> DEFINE f == cfg.drives
           g == cfg'.drives
<1>1. chan \in Seq(Cmd) /\ t \in Seq(Cmd) /\ chan' = chan \o t /\ table' = table
  BY DEF DaemonTypes, CoreTypes, QueueTypes, DrivesStep, Follows
<1>2. /\ \A good : Has(chan', good) <=> Has(chan, good) \/ Has(t, good)
      /\ \A bad, good : Mended(t, bad, good) /\ (Mended(chan, bad, good) \/ Has(t, good))
                           => Mended(chan', bad, good)
  BY <1>1, MendedConcat
<1>3. f \in Drives /\ g \in Drives /\ DOMAIN f \subseteq AllNames /\ DOMAIN g \subseteq AllNames
  BY DrivesAre DEF DaemonTypes, CoreTypes, LoopTypes, Config
<1>0. Plain' \subseteq Plain
  BY DEF DrivesStep
<1>4. ASSUME NEW n \in Plain' \ DOMAIN g
      PROVE  StrayIsTaken(n)'
  <2>1. Mended(t, Puts(n), Takes(n))
    BY <1>4 DEF DrivesStep, Follows
  <2>2. CASE n \in DOMAIN f
    <3>1. Has(t, Takes(n))
      BY <1>4, <2>2 DEF DrivesStep, DriveNames
    <3> QED BY <1>2, <2>1, <3>1 DEF StrayIsTaken
  <2>3. CASE n \notin DOMAIN f
    <3>1. StrayIsTaken(n)
      BY <1>0, <1>4, <2>3 DEF DrivesInv, DriveNames
    <3>2. Has(evts, JoinedEvent(n)) => Has(evts', JoinedEvent(n))
      BY <1>4 DEF DrivesStep, DriveNames
    <3> QED BY <1>1, <1>2, <2>1, <3>1, <3>2 DEF StrayIsTaken
  <2> QED BY <2>2, <2>3
<1>5. ASSUME fails' = 0, NEW n \in Plain' \cap DOMAIN g \cap Names
      PROVE  UsersDriveIsPut(n)' /\ UsersFlagIsMarked(n)'
  <2>1. /\ fails = 0 /\ Tells(t, f, g, Plain')
        /\ Mended(t, Takes(n), Puts(n))
        /\ \A p \in BOOLEAN : p # g[n] => Mended(t, Marks(n, p), Marks(n, g[n]))
    BY <1>5 DEF DrivesStep, Follows
  <2>2. CASE n \notin DOMAIN f
    <3>1. Has(t, Puts(n)) /\ Has(t, Marks(n, g[n]))
      BY <1>5, <2>1, <2>2 DEF Tells
    <3> QED BY <1>2, <2>1, <3>1 DEF UsersDriveIsPut, UsersFlagIsMarked
  <2>3. CASE n \in DOMAIN f
    <3>1. UsersDriveIsPut(n) /\ UsersFlagIsMarked(n)
      BY <1>0, <1>5, <2>1, <2>3 DEF DrivesInv, DriveNames
    <3>2. UsersDriveIsPut(n)'
      BY <1>1, <1>2, <2>1, <3>1 DEF UsersDriveIsPut
    <3>3. CASE f[n] # g[n]
      <4>1. Has(t, Marks(n, g[n]))
        BY <1>5, <2>1, <3>3 DEF Tells
      <4> QED BY <1>2, <2>1, <3>2, <4>1 DEF UsersFlagIsMarked
    <3>4. CASE f[n] = g[n]
      <4>1. UsersFlagIsMarked(n)'
        BY <1>1, <1>2, <2>1, <3>1, <3>4 DEF UsersFlagIsMarked
      <4> QED BY <3>2, <4>1
    <3> QED BY <3>3, <3>4
  <2> QED BY <2>2, <2>3
<1>6. \A n \in Plain' : n \in known' <=> n \in DriveNames'
  BY DEF DrivesStep
<1> QED BY <1>4, <1>5, <1>6 DEF DrivesInv, DriveNames

\* What persist_config adds follows the drives it saves.
LEMMA PersistedPreserves ==
    ASSUME DaemonTypes, LoopTypes', DrivesInv, NEW c \in Config, NEW k \in SUBSET AllNames,
           NEW sent, NEW then, NEW N, N = Plain', N \subseteq Plain,
           Persisted(c, k, sent, then),
           \A n \in N : n \in k <=> n \in DOMAIN c.drives,
           Follows(sent, c.drives, N), Follows(then, c.drives, N), table' = table,
           \A n \in N \ DOMAIN c.drives : Has(evts, JoinedEvent(n)) => Has(evts', JoinedEvent(n)),
           \A n \in (N \cap DriveNames) \ DOMAIN c.drives : Has(sent, Takes(n)),
           Tells(then, cfg.drives, c.drives, N)
    PROVE  DrivesInv'
<1>1. cfg'.drives = c.drives
  BY DEF Persisted
<1>2. PICK u \in Seq(DriveCmd) :
         /\ \/ cfg' = c /\ known' = k /\ u = <<>>
            \/ known' = DOMAIN c.drives /\ u = AdoptCmds(c.drives, k)
         /\ \/ fails' = fails /\ chan' = chan \o (sent \o (u \o then))
            \/ fails' = fails + 1 /\ chan' = chan \o (sent \o u)
  BY DEF Persisted
<1>3. c.drives \in Drives /\ N \subseteq AllNames
  BY DEF Config, Plain
<1>4. Follows(u, c.drives, N)
  <2>1. u \in Seq(Cmd)
    BY DriveCmdsAreCmds
  <2>2. CASE u = <<>>
    <3>1. \A good : ~ Has(u, good)
      BY <2>2, HasNone
    <3> QED BY <2>1, <3>1, FollowsNone
  <2>3. CASE u = AdoptCmds(c.drives, k)
    <3>1. \A n \in AllNames :
            /\ Has(u, Puts(n)) <=> n \in DOMAIN c.drives \ k
            /\ Has(u, Takes(n)) <=> n \in k \ DOMAIN c.drives
            /\ \A p \in BOOLEAN : Has(u, Marks(n, p)) <=> n \in DOMAIN c.drives /\ c.drives[n] = p
      BY <1>3, <2>3, AdoptCmdsSay
    <3>2. \A n \in N :
             /\ n \notin DOMAIN c.drives => ~ Has(u, Puts(n))
             /\ n \in DOMAIN c.drives =>
                   /\ ~ Has(u, Takes(n))
                   /\ \A p \in BOOLEAN : p # c.drives[n] => ~ Has(u, Marks(n, p))
      BY <1>3, <3>1
    <3> QED BY <2>1, <3>2, FollowsNone
  <2> QED BY <1>2, <2>2, <2>3
<1>5. \A n \in N : n \in known' <=> n \in DriveNames'
  BY <1>1, <1>2 DEF DriveNames
<1>6. fails \in Nat
  BY DEF DaemonTypes, CoreTypes, LoopTypes
<1>7. u \in Seq(Cmd) /\ sent \in Seq(Cmd) /\ then \in Seq(Cmd) /\ u \o then \in Seq(Cmd)
  BY <1>4, ConcatProperties DEF Follows
<1>8. CASE fails' = fails /\ chan' = chan \o (sent \o (u \o then))
  <2> DEFINE t == sent \o (u \o then)
  <2>1. Follows(t, c.drives, N)
    BY <1>4, FollowsConcat
  <2>2. \A good : Has(t, good) <=> Has(sent, good) \/ Has(u, good) \/ Has(then, good)
    <3>1. \A good : Has(u \o then, good) <=> Has(u, good) \/ Has(then, good)
      BY <1>7, MendedConcat
    <3> DEFINE x == u \o then
    <3> HIDE DEF x
    <3>2. x \in Seq(Cmd)
      BY <1>7 DEF x
    <3>3. \A good : Has(sent \o x, good) <=> Has(sent, good) \/ Has(x, good)
      BY <1>7, <3>2, MendedConcat
    <3> QED BY <3>1, <3>3 DEF x
  <2> HIDE DEF t
  <2>3. Tells(t, cfg.drives, c.drives, N)
    BY <2>2 DEF Tells
  <2>4. DrivesStep(t)
    BY <1>1, <1>5, <1>8, <2>1, <2>2, <2>3 DEF DrivesStep, DriveNames, t
  <2> QED BY <2>4, DrivesStepPreserves
<1>9. CASE fails' = fails + 1 /\ chan' = chan \o (sent \o u)
  <2> DEFINE t == sent \o u
  <2>1. Follows(t, c.drives, N)
    BY <1>4, FollowsConcat
  <2>2. \A good : Has(t, good) <=> Has(sent, good) \/ Has(u, good)
    BY <1>7, MendedConcat
  <2>3. fails' # 0
    BY <1>6, <1>9
  <2> HIDE DEF t
  <2>4. DrivesStep(t)
    BY <1>1, <1>5, <1>9, <2>1, <2>2, <2>3 DEF DrivesStep, DriveNames, t
  <2> QED BY <2>4, DrivesStepPreserves
<1> QED BY <1>2, <1>8, <1>9

\* One command that says what the drives f have, or is about none of N.
LEMMA OneCommandFollows ==
    ASSUME NEW f \in Drives, NEW N \in SUBSET AllNames, NEW n \in AllNames,
           NEW op \in {"add", "join", "pause"}, NEW p \in BOOLEAN,
           n \in N => n \in DOMAIN f /\ f[n] = p,
           NEW c, c = [op |-> op, n |-> n, paused |-> p]
    PROVE  /\ Follows(<<c>>, f, N)
           /\ Has(<<c>>, Marks(n, p))
           /\ op # "pause" => Has(<<c>>, Puts(n))
<1>2. c \in DriveCmd /\ c \in Cmd
  BY DEF DriveCmd, Cmd
<1>3. \A good : Has(<<c>>, good) <=> c \in good
  BY <1>2, HasOne
<1>4. <<c>> \in Seq(Cmd)
  BY <1>2, HasOne
<1>5. \A m \in AllNames :
        /\ c \in Puts(m) => m = n
        /\ c \notin Takes(m)
        /\ \A q \in BOOLEAN : c \in Marks(m, q) => m = n /\ q = p
  BY DEF Puts, Takes, Marks
<1>6. c \in Marks(n, p) /\ (op # "pause" => c \in Puts(n))
  BY <1>2 DEF Marks, Puts
<1>7. Follows(<<c>>, f, N)
  <2>1. \A m \in N :
          /\ m \notin DOMAIN f => ~ Has(<<c>>, Puts(m))
          /\ m \in DOMAIN f => /\ ~ Has(<<c>>, Takes(m))
                               /\ \A q \in BOOLEAN : q # f[m] => ~ Has(<<c>>, Marks(m, q))
    BY <1>3, <1>5
  <2> QED BY <1>4, <2>1, FollowsNone
<1> QED BY <1>3, <1>6, <1>7

LEMMA NothingFollows ==
    ASSUME NEW f, NEW N
    PROVE  Follows(<<>>, f, N)
<1>1. <<>> \in Seq(Cmd) /\ \A good : ~ Has(<<>>, good)
  BY HasNone, EmptySeq
<1> QED BY <1>1, FollowsNone

\* A step that leaves configuration, table and engine's knowledge of them alone.
DrivesAlone ==
    /\ UNCHANGED <<cfg, known, table, misnamed>> /\ fails' \in {fails, fails + 1}
    /\ \E t \in Seq(Cmd) :
          /\ chan' = chan \o t
          /\ \A n \in AllNames :
               /\ ~ Has(t, Puts(n)) /\ ~ Has(t, Takes(n))
               /\ \A p \in BOOLEAN : ~ Has(t, Marks(n, p))
    /\ \A n \in AllNames \ DriveNames : Has(evts, JoinedEvent(n)) => Has(evts', JoinedEvent(n))

LEMMA DrivesAlonePreserves ==
    ASSUME DaemonTypes, DaemonTypes', DrivesInv, DrivesAlone
    PROVE  DrivesInv'
<1>1. PICK t \in Seq(Cmd) :
         /\ chan' = chan \o t
         /\ \A n \in AllNames :
              /\ ~ Has(t, Puts(n)) /\ ~ Has(t, Takes(n))
              /\ \A p \in BOOLEAN : ~ Has(t, Marks(n, p))
  BY DEF DrivesAlone
<1>2. cfg' = cfg /\ known' = known /\ table' = table /\ fails' \in {fails, fails + 1} /\ fails \in Nat
      /\ misnamed' = misnamed
  BY DEF DrivesAlone, DaemonTypes, CoreTypes, LoopTypes
<1>0. Plain' = Plain /\ Plain \subseteq AllNames
  BY <1>2 DEF Plain
<1>3. Follows(t, cfg'.drives, Plain')
  <2>1. \A n \in Plain' :
          ~ Has(t, Puts(n)) /\ ~ Has(t, Takes(n)) /\ \A p \in BOOLEAN : ~ Has(t, Marks(n, p))
    BY <1>0, <1>1
  <2> QED BY <2>1, FollowsNone
<1>4. fails' = 0 => fails = 0
  BY <1>2
<1>5. Tells(t, cfg.drives, cfg'.drives, Plain')
  BY <1>2 DEF Tells
<1>6. DriveNames' = DriveNames /\ \A n \in Plain' : n \in known' <=> n \in DriveNames'
  BY <1>0, <1>2 DEF DrivesInv, DriveNames
<1>7. \A n \in Plain' \ DriveNames' : Has(evts, JoinedEvent(n)) => Has(evts', JoinedEvent(n))
  BY <1>0, <1>6 DEF DrivesAlone
<1>8. DrivesStep(t)
  BY <1>0, <1>1, <1>2, <1>3, <1>4, <1>5, <1>6, <1>7 DEF DrivesStep
<1>9. LoopTypes'
  BY DEF DaemonTypes, CoreTypes
<1> QED BY <1>8, <1>9, DrivesStepPreserves

\* A drive is added to the configuration: the engine is told of it, if the
\* user added it, once it is saved.
LEMMA AddedPreserves ==
    ASSUME DaemonTypes, DaemonTypes', DrivesInv, NEW n \in AllNames, n \notin DriveNames,
           NEW then \in Seq(DriveCmd),
           \/ n \in Joined /\ then = <<>>
           \/ \E op \in {"add", "join"} : then = << [op |-> op, n |-> n, paused |-> FALSE] >>,
           persist_config([cfg EXCEPT !.drives = With(cfg.drives, n, FALSE)],
                          known \cup {n}, views, <<>>, then),
           table' = table, misnamed' = misnamed,
           \A m \in AllNames \ {n} : Has(evts, JoinedEvent(m)) => Has(evts', JoinedEvent(m))
    PROVE  DrivesInv'
<1>0. PICK N : N = Plain
  OBVIOUS
<1>b. N = Plain' /\ N \subseteq Plain /\ N \subseteq AllNames
  BY <1>0 DEF Plain
<1> DEFINE f == cfg.drives
           g == With(f, n, FALSE)
           c == [cfg EXCEPT !.drives = g]
<1>1. LoopTypes /\ QueueTypes /\ LoopTypes' /\ cfg \in Config /\ f \in Drives /\ views \in Views
  BY DEF DaemonTypes, CoreTypes, LoopTypes, Config
<1>2. /\ g \in Drives /\ DOMAIN g = DOMAIN f \cup {n}
      /\ \A m \in DOMAIN f : m # n => g[m] = f[m]
  BY <1>1, WithDrive
<1>3. PICK p \in BOOLEAN : p = FALSE
  BY Zenon
<1>4. With(f, n, p)[n] = p
  BY <1>1, WithDrive
<1>5. g[n] = p
  BY <1>3, <1>4
<1> HIDE DEF g
<1>6. c \in Config /\ c.drives = g
  BY <1>1, <1>2 DEF Config
<1>7. /\ known \cup {n} \in SUBSET AllNames
      /\ \A m \in N : m \in known \cup {n} <=> m \in DOMAIN c.drives
  BY <1>0, <1>1, <1>2, <1>6 DEF LoopTypes, DrivesInv, DriveNames
<1>8. persist_config(c, known \cup {n}, views, <<>>, then) /\ <<>> \in Seq(DriveCmd)
  BY EmptySeq DEF g
<1> HIDE DEF c
<1>9. Persisted(c, known \cup {n}, <<>>, then)
  BY <1>1, <1>6, <1>7, <1>8, PersistIsTyped
<1>10. Follows(<<>>, c.drives, N)
  BY NothingFollows
<1>11. Follows(then, g, N) /\ Tells(then, f, g, N)
  <2>1. n \notin DOMAIN f /\ n \in DOMAIN g
    BY <1>2 DEF DriveNames
  <2>2. CASE n \in Joined /\ then = <<>>
    <3>1. n \notin Names
      BY <2>2, KeyAssumption
    <3> QED BY <1>2, <2>1, <2>2, <3>1, NothingFollows DEF Tells
  <2>3. CASE \E op \in {"add", "join"} : then = << [op |-> op, n |-> n, paused |-> FALSE] >>
    <3>1. PICK op \in {"add", "join"} : then = << [op |-> op, n |-> n, paused |-> FALSE] >>
      BY <2>3
    <3>2. PICK x : x = [op |-> op, n |-> n, paused |-> p]
      OBVIOUS
    <3>3. then = <<x>>
      BY <1>3, <3>1, <3>2
    <3>4. op \in {"add", "join", "pause"} /\ op # "pause"
      OBVIOUS
    <3>5. Follows(<<x>>, g, N) /\ Has(<<x>>, Marks(n, p)) /\ Has(<<x>>, Puts(n))
      BY <1>b, <1>2, <1>5, <2>1, <3>2, <3>4, OneCommandFollows
    <3>6. Tells(<<x>>, f, g, N)
      <4> SUFFICES ASSUME NEW m \in DOMAIN g \cap Names \cap N
                   PROVE  /\ m \notin DOMAIN f => Has(<<x>>, Puts(m))
                          /\ m \notin DOMAIN f \/ f[m] # g[m] => Has(<<x>>, Marks(m, g[m]))
        BY DEF Tells
      <4>1. CASE m = n
        BY <1>5, <3>5, <4>1
      <4>2. CASE m # n
        BY <1>2, <4>2
      <4> QED BY <4>1, <4>2
    <3> QED BY <3>3, <3>5, <3>6
  <2> QED BY <2>2, <2>3
<1>12. \A m \in N \ DOMAIN c.drives : Has(evts, JoinedEvent(m)) => Has(evts', JoinedEvent(m))
  BY <1>b, <1>2, <1>6
<1>13. \A m \in (N \cap DriveNames) \ DOMAIN c.drives : Has(<<>>, Takes(m))
  BY <1>2, <1>6 DEF DriveNames
<1>14. PICK k : k = known \cup {n}
  OBVIOUS
<1> QED BY <1>b, <1>1, <1>6, <1>7, <1>9, <1>10, <1>11, <1>12, <1>13, <1>14, PersistedPreserves

LEMMA RemovePreserves ==
    ASSUME DaemonTypes, DaemonTypes', DrivesInv, NEW n \in AllNames, RemoveDrive(n)
    PROVE  DrivesInv'
<1>1. LoopTypes /\ QueueTypes /\ LoopTypes' /\ cfg \in Config /\ cfg.drives \in Drives
      /\ views \in Views /\ known \subseteq AllNames
  BY DEF DaemonTypes, CoreTypes, LoopTypes, Config
<1>2. PICK K, R : K = {k \in known : ~Same(k, n)} /\ R = {k \in known : Same(k, n)}
  OBVIOUS
<1>3. PICK d \in Named(n) :
         /\ persist_config([cfg EXCEPT !.drives = Without(cfg.drives, {d})], K,
                           [views EXCEPT ![n] = NoView], RemoveEach(R), <<>>)
         /\ misnamed' = misnamed \cup (Named(n) \ {d})
  BY <1>2 DEF RemoveDrive
<1> DEFINE f == cfg.drives
           g == Without(f, {d})
           c == [cfg EXCEPT !.drives = g]
           w == [views EXCEPT ![n] = NoView]
           sent == RemoveEach(R)
<1>4. g \in Drives /\ DOMAIN g = DOMAIN f \ {d} /\ \A m \in DOMAIN f \ {d} : g[m] = f[m]
  BY <1>1, WithoutDrives
<1>5. evts' = evts /\ table' = table
  BY DEF RemoveDrive, engine
<1>6. w \in Views
  BY <1>1 DEF Views
<1>7. persist_config(c, K, w, sent, <<>>) /\ <<>> \in Seq(DriveCmd)
  BY <1>3, EmptySeq
<1> HIDE DEF g
<1>8. c \in Config /\ c.drives = g
  BY <1>1, <1>4 DEF Config
<1>9. K \in SUBSET AllNames /\ R \in SUBSET AllNames
  BY <1>1, <1>2
<1>10. /\ sent \in Seq(DriveCmd)
       /\ \A m \in AllNames : /\ Has(sent, Takes(m)) <=> m \in R
                              /\ ~ Has(sent, Puts(m))
                              /\ \A q \in BOOLEAN : ~ Has(sent, Marks(m, q))
  BY <1>9, RemovesTake
<1> HIDE DEF sent, c, w
<1>11. Persisted(c, K, sent, <<>>)
  BY <1>1, <1>6, <1>7, <1>8, <1>9, <1>10, PersistIsTyped
<1>12. PICK N : N = AllNames \ (misnamed \cup (Named(n) \ {d}))
  OBVIOUS
<1>13. N = Plain' /\ N \subseteq Plain /\ N \subseteq AllNames
  BY <1>3, <1>12 DEF Plain
<1>14. \A m \in N : m \in known <=> m \in DOMAIN f
  BY <1>13 DEF DrivesInv, DriveNames
<1>15. \A m \in N : Same(m, n) /\ m \in DOMAIN f => m = d
  BY <1>12 DEF Named
<1>16. d \in DOMAIN f /\ Same(d, n)
  BY DEF Named
<1>17. \A m \in N : m \in K <=> m \in DOMAIN c.drives
  BY <1>2, <1>4, <1>8, <1>14, <1>15, <1>16
<1>18. \A m \in N : m \in DOMAIN g => m \notin R
  BY <1>2, <1>4, <1>15
<1>19. Follows(sent, c.drives, N)
  <2>1. \A m \in N :
          /\ m \notin DOMAIN g => ~ Has(sent, Puts(m))
          /\ m \in DOMAIN g => /\ ~ Has(sent, Takes(m))
                               /\ \A q \in BOOLEAN : q # g[m] => ~ Has(sent, Marks(m, q))
    BY <1>10, <1>13, <1>18
  <2>2. sent \in Seq(Cmd)
    BY <1>10, DriveCmdsAreCmds
  <2> QED BY <1>8, <2>1, <2>2, FollowsNone
<1>20. Follows(<<>>, c.drives, N)
  BY NothingFollows
<1>21. Tells(<<>>, f, c.drives, N)
  BY <1>4, <1>8 DEF Tells
<1>22. \A m \in (N \cap DriveNames) \ DOMAIN c.drives : Has(sent, Takes(m))
  BY <1>2, <1>4, <1>8, <1>10, <1>13, <1>14, <1>16 DEF DriveNames
<1>23. \A m \in N \ DOMAIN c.drives : Has(evts, JoinedEvent(m)) => Has(evts', JoinedEvent(m))
  BY <1>5
<1> QED BY <1>1, <1>5, <1>8, <1>9, <1>11, <1>13, <1>17, <1>19, <1>20, <1>21, <1>22, <1>23,
           PersistedPreserves

LEMMA SetPausedPreserves ==
    ASSUME DaemonTypes, DaemonTypes', DrivesInv,
           NEW n \in AllNames, NEW p \in BOOLEAN, SetPaused(n, p)
    PROVE  DrivesInv'
<1>1. LoopTypes /\ QueueTypes /\ LoopTypes' /\ cfg \in Config /\ cfg.drives \in Drives
      /\ views \in Views /\ known \in SUBSET AllNames
  BY DEF DaemonTypes, CoreTypes, LoopTypes, Config
<1>2. PICK x : x = [op |-> "pause", n |-> n, paused |-> p]
  OBVIOUS
<1>3. PICK d \in Named(n) :
         /\ persist_config([cfg EXCEPT !.drives[d] = p], known, views, <<>>, <<x>>)
         /\ misnamed' = IF d = n THEN misnamed ELSE misnamed \cup {d, n}
  BY <1>2 DEF SetPaused
<1> DEFINE f == cfg.drives
           g == [f EXCEPT ![d] = p]
           c == [cfg EXCEPT !.drives[d] = p]
<1>4. /\ d \in DOMAIN f /\ g \in Drives /\ DOMAIN g = DOMAIN f /\ g[d] = p
      /\ \A m \in DOMAIN f : m # d => g[m] = f[m]
  BY <1>1, FlagDrive DEF Named
<1>5. c = [cfg EXCEPT !.drives = g]
  BY <1>1 DEF Config
<1>6. evts' = evts /\ table' = table
  BY DEF SetPaused, engine
<1>7. persist_config(c, known, views, <<>>, <<x>>)
  BY <1>3
<1> HIDE DEF g, c
<1>8. c \in Config /\ c.drives = g
  BY <1>1, <1>4, <1>5 DEF Config
<1>9. x \in DriveCmd /\ <<x>> \in Seq(DriveCmd) /\ <<>> \in Seq(DriveCmd)
  BY <1>2, EmptySeq DEF DriveCmd
<1>10. Persisted(c, known, <<>>, <<x>>)
  BY <1>1, <1>7, <1>8, <1>9, PersistIsTyped
<1>11. PICK N : N = AllNames \ misnamed'
  OBVIOUS
<1>12. N = Plain' /\ N \subseteq Plain /\ N \in SUBSET AllNames
  BY <1>3, <1>11 DEF Plain
<1>13. (d \in N => d = n) /\ (n \in N => d = n)
  BY <1>3, <1>11
<1>14. \A m \in N : m \in known <=> m \in DOMAIN c.drives
  BY <1>4, <1>8, <1>12 DEF DrivesInv, DriveNames
<1>15. Follows(<<x>>, g, N) /\ Has(<<x>>, Marks(n, p))
  <2>1. "pause" \in {"add", "join", "pause"} /\ (n \in N => n \in DOMAIN g /\ g[n] = p)
    BY <1>4, <1>13
  <2> QED BY <1>2, <1>4, <1>12, <2>1, OneCommandFollows
<1>16. Tells(<<x>>, f, g, N)
  <2> SUFFICES ASSUME NEW m \in DOMAIN g \cap Names \cap N
               PROVE  /\ m \notin DOMAIN f => Has(<<x>>, Puts(m))
                      /\ m \notin DOMAIN f \/ f[m] # g[m] => Has(<<x>>, Marks(m, g[m]))
    BY DEF Tells
  <2>1. CASE m = d
    BY <1>4, <1>13, <1>15, <2>1
  <2>2. CASE m # d
    BY <1>4, <2>2
  <2> QED BY <2>1, <2>2
<1>17. Follows(<<>>, g, N)
  BY NothingFollows
<1>18. \A m \in (N \cap DriveNames) \ DOMAIN c.drives : Has(<<>>, Takes(m))
  BY <1>4, <1>8 DEF DriveNames
<1>19. \A m \in N \ DOMAIN c.drives : Has(evts, JoinedEvent(m)) => Has(evts', JoinedEvent(m))
  BY <1>6
<1> QED BY <1>1, <1>6, <1>8, <1>10, <1>12, <1>14, <1>15, <1>16, <1>17, <1>18, <1>19,
           PersistedPreserves

LEMMA SetConfigPreserves ==
    ASSUME DaemonTypes, DaemonTypes', DrivesInv, NEW v \in Opts \cup {BadOpt}, SetConfig(v)
    PROVE  DrivesInv'
<1> DEFINE c == set(cfg, v)
<1>1. LoopTypes /\ QueueTypes /\ LoopTypes' /\ cfg \in Config /\ views \in Views
      /\ known \in SUBSET AllNames /\ <<>> \in Seq(DriveCmd)
  BY EmptySeq DEF DaemonTypes, CoreTypes, LoopTypes, Config
<1>2. c \in Config /\ c.drives = cfg.drives
  BY <1>1 DEF set, Config
<1>3. evts' = evts /\ table' = table /\ misnamed' = misnamed
      /\ persist_config(c, known, views, <<>>, <<>>)
  BY DEF SetConfig, engine
<1> HIDE DEF c
<1>4. Persisted(c, known, <<>>, <<>>)
  BY <1>1, <1>2, <1>3, PersistIsTyped
<1>5. PICK N : N = Plain
  OBVIOUS
<1>6. N = Plain' /\ N \subseteq Plain
  BY <1>3, <1>5 DEF Plain
<1>7. Follows(<<>>, c.drives, N)
  BY NothingFollows
<1>8. Tells(<<>>, cfg.drives, c.drives, N)
  BY <1>2 DEF Tells
<1>9. \A m \in (N \cap DriveNames) \ DOMAIN c.drives : Has(<<>>, Takes(m))
  BY <1>2 DEF DriveNames
<1>10. \A m \in N : m \in known <=> m \in DOMAIN c.drives
  BY <1>2, <1>5 DEF DrivesInv, DriveNames
<1>11. \A m \in N \ DOMAIN c.drives : Has(evts, JoinedEvent(m)) => Has(evts', JoinedEvent(m))
  BY <1>3
<1> QED BY <1>1, <1>2, <1>3, <1>4, <1>6, <1>7, <1>8, <1>9, <1>10, <1>11, PersistedPreserves

LEMMA JoinedIsKnown ==
    ASSUME DaemonTypes, DaemonTypes', DrivesInv, OnDriveJoined
    PROVE  DrivesInv'
<1> DEFINE n == Head(evts).n
<1>1. /\ table' = table /\ misnamed' = misnamed /\ evts # <<>> /\ Head(evts).ev = "joined" /\ evts' = Tail(evts)
      /\ IF n \in DOMAIN cfg.drives
         THEN UNCHANGED <<onDisk, mine, chan, fails>>
         ELSE persist_config([cfg EXCEPT !.drives = With(cfg.drives, n, FALSE)],
                             known \cup {n}, views, <<>>, <<>>)
  BY DEF OnDriveJoined, engine
<1>2. Head(evts) \in Event /\ evts \in Seq(Event) /\ chan \in Seq(Cmd)
  BY <1>1, HeadTailProperties DEF DaemonTypes, CoreTypes, QueueTypes
<1>3. n \in Joined /\ n \in AllNames
  BY <1>1, <1>2 DEF Event, AllNames
<1>4. \A m \in AllNames \ {n} : Head(evts) \notin JoinedEvent(m)
  BY DEF JoinedEvent
<1>5. \A m \in AllNames \ {n} : Has(evts, JoinedEvent(m)) => Has(evts', JoinedEvent(m))
  BY <1>1, <1>2, <1>4, MendedTail
<1> HIDE DEF n
<1>6. CASE n \in DOMAIN cfg.drives
  <2>1. cfg' = cfg /\ known' = known /\ chan' = chan /\ fails' = fails
    BY <1>1, <1>6 DEF mine, onDisk
  <2>2. chan' = chan \o <<>> /\ <<>> \in Seq(Cmd) /\ \A good : ~ Has(<<>>, good)
    BY <1>2, <2>1, ConcatEmptySeq, EmptySeq, HasNone
  <2>3. DrivesAlone
    BY <1>1, <1>5, <1>6, <2>1, <2>2 DEF DrivesAlone, DriveNames
  <2> QED BY <2>3, DrivesAlonePreserves
<1>7. CASE n \notin DOMAIN cfg.drives
  <2>1. <<>> \in Seq(DriveCmd) /\ n \notin DriveNames
    BY <1>7, EmptySeq DEF DriveNames
  <2> QED BY <1>1, <1>3, <1>5, <1>7, <2>1, AddedPreserves
<1> QED BY <1>6, <1>7

LEMMA PersistsPreserves ==
    ASSUME DaemonTypes, DaemonTypes', DrivesInv, Persists
    PROVE  DrivesInv'
<1>1. ASSUME NEW n \in Names, NEW op \in {"add", "join"}, Named(n) = {},
             persist_config([cfg EXCEPT !.drives = With(cfg.drives, n, FALSE)],
                            known \cup {n}, views, <<>>,
                            << [op |-> op, n |-> n, paused |-> FALSE] >>),
             table' = table, evts' = evts, misnamed' = misnamed
      PROVE  DrivesInv'
  <2>1. n \in AllNames
    BY DEF AllNames
  <2>2. n \notin DriveNames
    BY <1>1 DEF Named, Same, DriveNames
  <2>3. << [op |-> op, n |-> n, paused |-> FALSE] >> \in Seq(DriveCmd)
    BY <2>1 DEF DriveCmd
  <2> QED BY <1>1, <2>1, <2>2, <2>3, AddedPreserves
<1>2. ASSUME NEW n \in Names, AddDrive(n)
      PROVE  DrivesInv'
  <2>1. "add" \in {"add", "join"}
    OBVIOUS
  <2> QED BY <1>1, <1>2, <2>1 DEF AddDrive, engine
<1>3. ASSUME NEW n \in Names, Join(n)
      PROVE  DrivesInv'
  <2>1. "join" \in {"add", "join"}
    OBVIOUS
  <2> QED BY <1>1, <1>3, <2>1 DEF Join, engine
<1> QED BY <1>2, <1>3, JoinedIsKnown, RemovePreserves, SetPausedPreserves, SetConfigPreserves
        DEF Persists

LEMMA TickPreserves ==
    ASSUME DaemonTypes, DaemonTypes', DrivesInv, Tick
    PROVE  DrivesInv'
<1>1. PICK t \in Seq(DriveCmd) :
         /\ chan' = chan \o t
         /\ \/ cfg' = cfg /\ known' = known /\ t = <<>>
            \/ known' = DOMAIN cfg'.drives /\ t = AdoptCmds(cfg'.drives, known)
  BY TickIsTyped
<1>2. evts' = evts /\ table' = table /\ fails' = fails /\ misnamed' = misnamed
  BY DEF Tick, engine
<1>3. known \in SUBSET AllNames /\ cfg'.drives \in Drives /\ LoopTypes'
  BY DEF DaemonTypes, CoreTypes, LoopTypes, Config
<1>0. /\ Plain' = Plain /\ Plain \subseteq AllNames
      /\ \A n \in Plain : n \in known <=> n \in DriveNames
  BY <1>2 DEF Plain, DrivesInv
<1>4. t \in Seq(Cmd)
  BY DriveCmdsAreCmds
<1>5. CASE cfg' = cfg /\ known' = known /\ t = <<>>
  <2>1. \A good : ~ Has(t, good)
    BY <1>5, HasNone
  <2>2. DrivesAlone
    BY <1>1, <1>2, <1>4, <1>5, <2>1 DEF DrivesAlone
  <2> QED BY <2>2, DrivesAlonePreserves
<1>6. CASE known' = DOMAIN cfg'.drives /\ t = AdoptCmds(cfg'.drives, known)
  <2> DEFINE g == cfg'.drives
  <2>1. \A n \in AllNames :
           /\ Has(t, Puts(n)) <=> n \in DOMAIN g \ known
           /\ Has(t, Takes(n)) <=> n \in known \ DOMAIN g
           /\ \A p \in BOOLEAN : Has(t, Marks(n, p)) <=> n \in DOMAIN g /\ g[n] = p
    BY <1>3, <1>6, AdoptCmdsSay
  <2>2. DOMAIN g \subseteq AllNames /\ g \in [DOMAIN g -> BOOLEAN]
    BY <1>3, DrivesAre
  <2>3. Follows(t, g, Plain')
    <3>1. \A n \in Plain' :
            /\ n \notin DOMAIN g => ~ Has(t, Puts(n))
            /\ n \in DOMAIN g => /\ ~ Has(t, Takes(n))
                                 /\ \A p \in BOOLEAN : p # g[n] => ~ Has(t, Marks(n, p))
      BY <1>0, <2>1
    <3> QED BY <1>4, <3>1, FollowsNone
  <2>4. Tells(t, cfg.drives, g, Plain')
    <3> SUFFICES ASSUME NEW n \in DOMAIN g \cap Names \cap Plain'
                 PROVE  /\ n \notin DOMAIN cfg.drives => Has(t, Puts(n))
                        /\ Has(t, Marks(n, g[n]))
      BY DEF Tells
    <3>1. n \in AllNames /\ g[n] \in BOOLEAN
      BY <2>2
    <3> QED BY <1>0, <2>1, <3>1 DEF DriveNames
  <2>5. \A n \in Plain' : n \in known' <=> n \in DriveNames'
    BY <1>6 DEF DriveNames
  <2>6. \A n \in (Plain' \cap DriveNames) \ DriveNames' : Has(t, Takes(n))
    BY <1>0, <2>1 DEF DriveNames
  <2>7. DrivesStep(t)
    BY <1>0, <1>1, <1>2, <2>3, <2>4, <2>5, <2>6 DEF DrivesStep
  <2> QED BY <1>3, <2>7, DrivesStepPreserves
<1> QED BY <1>1, <1>5, <1>6

LEMMA HandledPreserves ==
    ASSUME DaemonTypes, DaemonTypes', DrivesInv, handle_cmd
    PROVE  DrivesInv'
<1> DEFINE c == Head(chan)
<1>1. /\ chan # <<>> /\ c \in Cmd /\ chan' = Tail(chan) /\ chan \in Seq(Cmd)
      /\ cfg' = cfg /\ known' = known /\ fails' = fails /\ misnamed' = misnamed
      /\ Handled(c)
  BY HandleCmdIs DEF mine, onDisk, DaemonTypes, CoreTypes, QueueTypes
<1>2. DriveNames' = DriveNames /\ DriveNames \subseteq AllNames
      /\ cfg.drives \in [DriveNames -> BOOLEAN]
  BY <1>1, DrivesAre DEF DriveNames, DaemonTypes, CoreTypes, LoopTypes, Config
<1>3. \A n \in AllNames : Has(evts, JoinedEvent(n)) => Has(evts', JoinedEvent(n))
  <2>1. Passes("joined")
    BY <1>1 DEF Handled, Passes
  <2>2. \A n : JoinedEvent(n) \in SUBSET {e \in Event : e.ev = "joined"}
    BY DEF JoinedEvent
  <2> QED BY <2>1, <2>2, PassedEvents DEF DaemonTypes, CoreTypes
<1> HIDE DEF c
<1>4. /\ \A good : Has(chan, good) <=> c \in good \/ Has(chan', good)
      /\ \A bad, good : Mended(chan, bad, good) =>
            /\ Mended(chan', bad, good)
            /\ c \in bad => Has(chan', good)
  BY <1>1, MendedTail DEF c
<1>5. \A n \in AllNames :
         /\ c \in Puts(n) => n \in DOMAIN table'
         /\ c \in Takes(n) => n \notin DOMAIN table'
         /\ c \notin Puts(n) /\ n \in DOMAIN table' => n \in DOMAIN table
         /\ c \notin Takes(n) /\ n \in DOMAIN table => n \in DOMAIN table'
         /\ \A p \in BOOLEAN : c \in Marks(n, p) /\ n \in DOMAIN table' => table'[n] = p
         /\ (\A p \in BOOLEAN : c \notin Marks(n, p)) /\ n \in DOMAIN table' =>
               n \in DOMAIN table /\ table'[n] = table[n]
  BY <1>1 DEF Handled
<1>0. Plain' = Plain /\ Plain \subseteq AllNames
  BY <1>1 DEF Plain
<1>6. ASSUME NEW n \in Plain \ DriveNames
      PROVE  StrayIsTaken(n)'
  <2>1. StrayIsTaken(n)
    BY DEF DrivesInv
  <2> QED BY <1>0, <1>3, <1>4, <1>5, <2>1 DEF StrayIsTaken
<1>7. ASSUME fails = 0, NEW n \in Plain \cap DriveNames \cap Names
      PROVE  UsersDriveIsPut(n)' /\ UsersFlagIsMarked(n)'
  <2>1. n \in AllNames /\ UsersDriveIsPut(n) /\ UsersFlagIsMarked(n)
    BY <1>2, <1>7 DEF DrivesInv
  <2>2. UsersDriveIsPut(n)'
    BY <1>4, <1>5, <2>1 DEF UsersDriveIsPut
  <2>3. PICK q \in BOOLEAN : q = cfg.drives[n]
    BY <1>2
  <2>4. /\ n \in DOMAIN table /\ table[n] # q => Has(chan, Marks(n, q))
        /\ \A p \in BOOLEAN : p # q => Mended(chan, Marks(n, p), Marks(n, q))
    BY <2>1, <2>3 DEF UsersFlagIsMarked
  <2>5. \A p \in BOOLEAN : p # q => Mended(chan', Marks(n, p), Marks(n, q))
    BY <1>4, <2>4
  <2>6. ASSUME n \in DOMAIN table', table'[n] # q
        PROVE  Has(chan', Marks(n, q))
    <3>1. c \notin Marks(n, q)
      BY <1>5, <2>1, <2>6
    <3>2. CASE \E p \in BOOLEAN : c \in Marks(n, p)
      BY <1>4, <2>4, <3>1, <3>2
    <3>3. CASE \A p \in BOOLEAN : c \notin Marks(n, p)
      <4>1. n \in DOMAIN table /\ table[n] # q
        BY <1>5, <2>1, <2>6, <3>3
      <4> QED BY <1>4, <2>4, <3>1, <4>1
    <3> QED BY <3>2, <3>3
  <2>7. cfg'.drives[n] = q
    BY <1>1, <2>3
  <2>8. UsersFlagIsMarked(n)'
    BY <2>5, <2>6, <2>7 DEF UsersFlagIsMarked
  <2> QED BY <2>2, <2>8
<1> QED BY <1>0, <1>1, <1>2, <1>6, <1>7 DEF DrivesInv

\* The engine adds a joiner's drive by itself, and says so.
LEMMA EngineJoinPreserves ==
    ASSUME DaemonTypes, DaemonTypes', DrivesInv, NEW n \in Joined, NEW t \in Nonces,
           EngineJoin(InviteAccept(t, n))
    PROVE  DrivesInv'
<1> DEFINE r == Report(n, "connecting")
           j == [ev |-> "joined", n |-> n]
           a == [ev |-> "accepted", n |-> n, t |-> t]
<1>1. /\ evts' = (evts \o r) \o <<j, a>> /\ table' = With(table, n, FALSE)
      /\ chan' = chan /\ cfg' = cfg /\ known' = known /\ fails' = fails /\ misnamed' = misnamed
  BY DEF EngineJoin, InviteAccept, mine
<1>0. Plain' = Plain /\ Plain \subseteq AllNames
  BY <1>1 DEF Plain
<1>2. n \in AllNames /\ t \in Nat /\ n \notin Names /\ table \in Drives /\ evts \in Seq(Event)
  BY KeyAssumption DEF AllNames, Nonces, DaemonTypes, CoreTypes, QueueTypes
<1>3. r \in Seq(Event) /\ j \in Event /\ a \in Event /\ j \in JoinedEvent(n)
  BY <1>2 DEF Event, Report, JoinedEvent
<1> HIDE DEF r, j, a
<1>4. /\ DOMAIN table' = DOMAIN table \cup {n}
      /\ \A m \in DOMAIN table : m # n => table'[m] = table[m]
  <2>1. PICK p \in BOOLEAN : table' = With(table, n, p)
    BY <1>1, Zenon
  <2>2. table \in Drives /\ n \in AllNames
    BY <1>2
  <2>3. /\ With(table, n, p) \in Drives
        /\ DOMAIN With(table, n, p) = DOMAIN table \cup {n}
        /\ With(table, n, p)[n] = p
        /\ \A m \in DOMAIN table : m # n => With(table, n, p)[m] = table[m]
    BY <2>2, WithDrive
  <2> QED BY <2>1, <2>3
<1>5. <<j, a>> \in Seq(Event) /\ Has(<<j, a>>, JoinedEvent(n))
  BY <1>3, HasTwo
<1>6. /\ evts \o r \in Seq(Event)
      /\ \A good : Has(evts \o r, good) <=> Has(evts, good) \/ Has(r, good)
  BY <1>2, <1>3, MendedConcat
<1>7. \A good : Has(evts', good) <=> Has(evts \o r, good) \/ Has(<<j, a>>, good)
  BY <1>1, <1>5, <1>6, MendedConcat
<1>8. DriveNames' = DriveNames
  BY <1>1 DEF DriveNames
<1>9. ASSUME NEW m \in Plain \ DriveNames
      PROVE  StrayIsTaken(m)'
  <2>1. CASE m = n
    BY <1>5, <1>7, <2>1 DEF StrayIsTaken
  <2>2. CASE m # n
    <3>1. StrayIsTaken(m)
      BY DEF DrivesInv
    <3> QED BY <1>1, <1>4, <1>6, <1>7, <2>2, <3>1 DEF StrayIsTaken
  <2> QED BY <2>1, <2>2
<1>10. ASSUME fails = 0, NEW m \in Plain \cap DriveNames \cap Names
       PROVE  UsersDriveIsPut(m)' /\ UsersFlagIsMarked(m)'
  <2>1. m # n /\ UsersDriveIsPut(m) /\ UsersFlagIsMarked(m)
    BY <1>2, <1>10 DEF DrivesInv
  <2>2. UsersDriveIsPut(m)'
    BY <1>1, <1>4, <2>1 DEF UsersDriveIsPut
  <2>3. UsersFlagIsMarked(m)'
    BY <1>1, <1>4, <2>1 DEF UsersFlagIsMarked
  <2> QED BY <2>2, <2>3
<1> QED BY <1>0, <1>1, <1>8, <1>9, <1>10 DEF DrivesInv

\* The engine has no drive while the daemon is not running.
IdleEngine == ~up => DOMAIN table = {}

LEMMA ProcessPreserves ==
    ASSUME DaemonTypes, DaemonTypes', DrivesInv, IdleEngine, Crash \/ Start
    PROVE  DrivesInv'
<1>1. CASE Crash
  <2>1. chan' = <<>> /\ table' = <<>> /\ known' = {} /\ cfg' = default_with_version
    BY <1>1 DEF Crash, Stopped
  <2>2. DriveNames' = {} /\ DOMAIN table' = {}
    BY <2>1, NoDrives DEF DriveNames, default_with_version
  <2>3. \A good : ~ Has(chan', good)
    BY <2>1, HasNone
  <2>4. \A bad, good : Mended(chan', bad, good)
    BY <2>3, MendedNone
  <2>5. \A n \in AllNames : StrayIsTaken(n)'
    BY <2>2, <2>4 DEF StrayIsTaken
  <2> QED BY <2>1, <2>2, <2>5 DEF DrivesInv, Plain
<1>2. CASE Start
  <2> DEFINE g == cfg'.drives
  <2>1. /\ ~up /\ cfg' = load_quiet(file).val /\ known' = DOMAIN g /\ chan' = Adds(g, {})
        /\ table' = table
    BY <1>2 DEF Start
  <2>2. g \in Drives
    BY DEF DaemonTypes, CoreTypes, LoopTypes, Config
  <2>3. DOMAIN g \subseteq AllNames /\ g \in [DOMAIN g -> BOOLEAN] /\ DOMAIN table' = {}
    BY <2>1, <2>2, DrivesAre DEF IdleEngine
  <2>4. \A n \in AllNames :
          /\ Has(chan', Puts(n)) <=> n \in DOMAIN g \ {}
          /\ ~ Has(chan', Takes(n))
          /\ \A p \in BOOLEAN : Has(chan', Marks(n, p)) <=> n \in DOMAIN g \ {} /\ g[n] = p
    BY <2>1, <2>2, AddsPut
  <2>5. ASSUME NEW n \in AllNames \ DOMAIN g
        PROVE  StrayIsTaken(n)'
    BY <2>3, <2>4, MendedNone DEF StrayIsTaken
  <2>6. ASSUME NEW n \in DOMAIN g
        PROVE  UsersDriveIsPut(n)' /\ UsersFlagIsMarked(n)'
    <3>1. n \in AllNames
      BY <2>3
    <3>2. UsersDriveIsPut(n)'
      BY <2>4, <3>1, MendedNone DEF UsersDriveIsPut
    <3>3. \A p \in BOOLEAN : p # g[n] => ~ Has(chan', Marks(n, p))
      BY <2>4, <3>1
    <3>4. \A p \in BOOLEAN : p # g[n] => Mended(chan', Marks(n, p), Marks(n, g[n]))
      BY <3>3, MendedNone
    <3>5. UsersFlagIsMarked(n)'
      BY <2>3, <3>4 DEF UsersFlagIsMarked
    <3> QED BY <3>2, <3>5
  <2> QED BY <2>1, <2>5, <2>6 DEF DrivesInv, DriveNames, Plain
<1> QED BY <1>1, <1>2

\* The commands and events that are not about drives.
LEMMA OtherStepsPreserve ==
    ASSUME DaemonTypes, DaemonTypes', DrivesInv,
           \/ OnDriveStatus \/ OnPeerAutoBanned \/ OnInviteAccepted \/ Rename \/ TakeTime
           \/ \E n \in AllNames : ResyncDrive(n)
           \/ \E p \in Peers, ban \in BOOLEAN : BanCmd(p, ban)
           \/ \E gs \in Grants : Invite(gs)
           \/ \E n \in AllNames, s \in {"synced", "offline"} : EngineStatus(n, s)
           \/ \E p \in Peers : EngineAutoBan(p)
           \/ CliLoad
           \/ \E n \in AllNames : direct_drive_op(n)
           \/ \E v \in Opts \cup {BadOpt} : CliSet(v)
           \/ \E k \in {"corrupt", "invalid", "missing"} : EditorSpoils(k)
    PROVE  DrivesInv'
<1> SUFFICES DrivesAlone
  BY DrivesAlonePreserves
<1>1. chan \in Seq(Cmd) /\ evts \in Seq(Event) /\ fails \in Nat
  BY DEF DaemonTypes, CoreTypes, QueueTypes, LoopTypes
<1>2. chan = chan \o <<>> /\ <<>> \in Seq(Cmd) /\ \A good : ~ Has(<<>>, good)
  BY <1>1, ConcatEmptySeq, EmptySeq, HasNone
<1>3. ASSUME Passes("joined")
      PROVE  \A n : Has(evts, JoinedEvent(n)) => Has(evts', JoinedEvent(n))
  <2>1. \A n : JoinedEvent(n) \in SUBSET {e \in Event : e.ev = "joined"}
    BY DEF JoinedEvent
  <2> QED BY <1>3, <2>1, PassedEvents DEF DaemonTypes, CoreTypes
<1>4. ASSUME cfg' = cfg, known' = known, table' = table, misnamed' = misnamed,
             fails' \in {fails, fails + 1},
             chan' = chan, Passes("joined")
      PROVE  DrivesAlone
  BY <1>2, <1>3, <1>4 DEF DrivesAlone
<1>5. ASSUME NEW c \in Cmd, \A n, p : c \notin Puts(n) /\ c \notin Takes(n) /\ c \notin Marks(n, p),
             cfg' = cfg, known' = known, table' = table, misnamed' = misnamed,
             fails' \in {fails, fails + 1}, chan' = Append(chan, c), evts' = evts
      PROVE  DrivesAlone
  <2>1. chan' = chan \o <<c>> /\ <<c>> \in Seq(Cmd) /\ \A good : Has(<<c>>, good) <=> c \in good
    BY <1>1, <1>5, AppendAsConcat, HasOne
  <2> QED BY <1>5, <2>1 DEF DrivesAlone
<1>6. CASE OnDriveStatus
  BY <1>4, <1>6 DEF OnDriveStatus, Passes, engine
<1>7. CASE OnPeerAutoBanned
  <2>1. cfg' = cfg /\ known' = known /\ table' = table /\ chan' = chan /\ misnamed' = misnamed
        /\ Passes("joined")
    BY <1>7 DEF OnPeerAutoBanned, Passes, mine, onDisk, engine
  <2>2. fails' \in {fails, fails + 1}
    BY <1>7 DEF OnPeerAutoBanned, save_bans
  <2> QED BY <1>4, <2>1, <2>2
<1>8. CASE OnInviteAccepted
  BY <1>4, <1>8 DEF OnInviteAccepted, Passes, mine, onDisk, engine
<1>9. ASSUME NEW n \in AllNames, ResyncDrive(n)
      PROVE  DrivesAlone
  <2>1. PICK c : c = [op |-> "resync", n |-> n]
    OBVIOUS
  <2>2. c \in Cmd /\ \A m, p : c \notin Puts(m) /\ c \notin Takes(m) /\ c \notin Marks(m, p)
    BY <2>1 DEF Cmd, DriveCmd, Puts, Takes, Marks
  <2>3. /\ cfg' = cfg /\ known' = known /\ table' = table /\ fails' = fails /\ misnamed' = misnamed
        /\ chan' = Append(chan, c) /\ evts' = evts
    BY <1>9, <2>1 DEF ResyncDrive, Send, mine, onDisk, engine
  <2> QED BY <1>5, <2>2, <2>3
<1>10. ASSUME NEW p \in Peers, NEW ban \in BOOLEAN, BanCmd(p, ban)
       PROVE  DrivesAlone
  <2>1. PICK c : c = [op |-> IF ban THEN "ban" ELSE "unban", p |-> p]
    OBVIOUS
  <2>2. c \in Cmd /\ \A m, q : c \notin Puts(m) /\ c \notin Takes(m) /\ c \notin Marks(m, q)
    BY <2>1 DEF Cmd, BanCmds, Puts, Takes, Marks
  <2>3. /\ cfg' = cfg /\ known' = known /\ table' = table /\ evts' = evts /\ misnamed' = misnamed
        /\ chan' = chan \/ chan' = Append(chan, c)
    BY <1>10, <2>1 DEF BanCmd, Send, mine, onDisk, engine
  <2>4. fails' \in {fails, fails + 1}
    BY <1>10 DEF BanCmd, save_bans
  <2>5. Passes("joined")
    BY <2>3 DEF Passes
  <2> QED BY <1>4, <1>5, <2>2, <2>3, <2>4, <2>5
<1>11. ASSUME NEW gs \in Grants, Invite(gs)
       PROVE  DrivesAlone
  BY <1>4, <1>11 DEF Invite, Passes, mine, onDisk, engine
<1>12. ASSUME NEW n \in AllNames, NEW s \in {"synced", "offline"}, EngineStatus(n, s)
       PROVE  DrivesAlone
  <2>1. Passes("joined")
    BY <1>12 DEF EngineStatus, Passes
  <2> QED BY <1>4, <1>12, <2>1 DEF EngineStatus, mine, onDisk, engine
<1>13. ASSUME NEW p \in Peers, EngineAutoBan(p)
       PROVE  DrivesAlone
  <2>1. PICK e : e = [ev |-> "banned", p |-> p]
    OBVIOUS
  <2>2. /\ cfg' = cfg /\ known' = known /\ table' = table /\ fails' = fails /\ chan' = chan
        /\ misnamed' = misnamed
    BY <1>13 DEF EngineAutoBan, mine
  <2>3. \A n : JoinedEvent(n) \in SUBSET {x \in Event : x.ev # "status"}
    BY DEF JoinedEvent
  <2>4. \A n : Has(evts, JoinedEvent(n)) => Has(evts', JoinedEvent(n))
    BY <1>13, <2>1, <2>3, AutoBanTells
  <2> QED BY <1>2, <2>2, <2>4 DEF DrivesAlone
<1>14. CASE \/ CliLoad
            \/ \E n \in AllNames : direct_drive_op(n)
            \/ \E v \in Opts \cup {BadOpt} : CliSet(v)
            \/ \E k \in {"corrupt", "invalid", "missing"} : EditorSpoils(k)
  <2>1. UNCHANGED <<mine, bans, chan, evts, engine, fails, inv>>
    BY <1>14, OutsideIsTyped
  <2> QED BY <1>4, <2>1 DEF Passes, mine, onDisk, engine
<1>15. CASE Rename \/ TakeTime
  BY <1>4, <1>15 DEF Rename, TakeTime, Passes, engine
<1> QED BY <1>6, <1>7, <1>8, <1>9, <1>10, <1>11, <1>12, <1>13, <1>14, <1>15

LEMMA DrivesPreserved ==
    ASSUME DaemonTypes, DaemonTypes', DrivesInv, IdleEngine, [Next]_vars
    PROVE  DrivesInv'
<1>1. CASE UNCHANGED vars
  BY <1>1 DEF vars, DrivesInv, DriveNames, Plain, StrayIsTaken, UsersDriveIsPut, UsersFlagIsMarked
<1>2. CASE Next
  BY <1>2, NextIs, PersistsPreserves, TickPreserves, HandledPreserves, EngineJoinPreserves,
     ProcessPreserves, OtherStepsPreserve
<1> QED BY <1>1, <1>2

LEMMA IdlePreserved ==
    ASSUME DaemonTypes, IdleEngine, [Next]_vars
    PROVE  IdleEngine'
<1>1. CASE UNCHANGED <<up, table>>
  BY <1>1 DEF IdleEngine
<1>2. CASE Persists
  BY <1>1, <1>2, PersistsSends DEF engine
<1>3. CASE handle_cmd
  BY <1>3, HandleCmdIs DEF handle_cmd, IdleEngine
<1>4. CASE Crash
  BY <1>4, NoDrives DEF Crash, Stopped, IdleEngine
<1>5. CASE Start
  BY <1>5 DEF Start, IdleEngine
<1>6. CASE \/ CliLoad
           \/ \E n \in AllNames : direct_drive_op(n)
           \/ \E v \in Opts \cup {BadOpt} : CliSet(v)
           \/ \E k \in {"corrupt", "invalid", "missing"} : EditorSpoils(k)
  BY <1>1, <1>6, OutsideIsTyped DEF engine
<1>7. CASE \/ Tick \/ OnDriveStatus \/ OnPeerAutoBanned \/ OnInviteAccepted \/ Rename \/ TakeTime
           \/ \E n \in AllNames : ResyncDrive(n)
           \/ \E p \in Peers, ban \in BOOLEAN : BanCmd(p, ban)
           \/ \E gs \in Grants : Invite(gs)
           \/ \E n \in AllNames, s \in {"synced", "offline"} : EngineStatus(n, s)
           \/ \E p \in Peers : EngineAutoBan(p)
  BY <1>1, <1>7 DEF Tick, OnDriveStatus, OnPeerAutoBanned, OnInviteAccepted, ResyncDrive, BanCmd,
                    Invite, EngineStatus, EngineAutoBan, Rename, TakeTime, engine
<1>8. ASSUME NEW n \in Joined, NEW t \in Nonces, EngineJoin(InviteAccept(t, n))
      PROVE  IdleEngine'
  BY <1>8 DEF EngineJoin, IdleEngine
<1>9. CASE UNCHANGED vars
  BY <1>1, <1>9 DEF vars
<1> QED BY <1>2, <1>3, <1>4, <1>5, <1>6, <1>7, <1>8, <1>9, NextIs

LEMMA DrivesAlways == Spec => [](DaemonTypes /\ DrivesInv)
<1>1. Init => DrivesInv /\ IdleEngine
  <2> SUFFICES ASSUME Init PROVE DrivesInv /\ IdleEngine
    OBVIOUS
  <2>1. chan = <<>> /\ DOMAIN table = {} /\ known = {} /\ DriveNames = {}
    BY NoDrives DEF Init, DriveNames, default_with_version
  <2>2. \A good : ~ Has(chan, good)
    BY <2>1, HasNone
  <2>3. \A n : StrayIsTaken(n)
    BY <2>1, <2>2, MendedNone DEF StrayIsTaken
  <2> QED BY <2>1, <2>3 DEF DrivesInv, IdleEngine, Plain
<1>2. DaemonTypes /\ DaemonTypes' /\ DrivesInv /\ IdleEngine /\ [Next]_vars => DrivesInv' /\ IdleEngine'
  BY DrivesPreserved, IdlePreserved
<1> QED BY <1>1, <1>2, AlwaysTyped, PTL DEF Spec

\* Whatever order commands, ticks, joins, failed writes, edits of the file and
\* restarts come in, once both channels are empty the engine syncs no drive
\* that is not configured, and as long as no write has failed it has every
\* drive the user configured (execute_command, adopt_external, on_engine_event
\* and handle_cmd), for any drives, whatever spellings commands use: what is left
\* out is a drive reached under the spelling of another.
THEOREM EngineFollows == Spec => []EngineFollowsConfig
<1>1. DaemonTypes /\ DrivesInv => EngineFollowsConfig
  <2> SUFFICES ASSUME DaemonTypes, DrivesInv, Drained PROVE EngineFollowsConfig
    BY DEF EngineFollowsConfig
  <2>1. \A good : ~ Has(chan, good) /\ ~ Has(evts, good)
    BY HasNone DEF Drained
  <2>2. DOMAIN table \subseteq AllNames
    BY DrivesAre DEF DaemonTypes, CoreTypes
  <2>3. DOMAIN table \ misnamed \subseteq DriveNames
    BY <2>1, <2>2 DEF DrivesInv, Plain, StrayIsTaken
  <2>4. fails = 0 => DriveNames \cap Names \subseteq DOMAIN table \cup misnamed
    BY <2>1 DEF DrivesInv, Plain, AllNames, UsersDriveIsPut
  <2> QED BY <2>3, <2>4 DEF EngineFollowsConfig, DriveNames
<1> QED BY <1>1, DrivesAlways, PTL

\* What refresh_status says of a pause is what the engine does, in the same
\* generality: with the channels empty and no failed write, a drive that the user
\* configured and that no pause or resume named in another spelling is shown
\* paused exactly when the engine has stopped syncing it.
THEOREM PausesAreReal == Spec => []PauseIsReal
<1>1. DaemonTypes /\ DrivesInv => PauseIsReal
  <2> SUFFICES ASSUME DaemonTypes, DrivesInv, Drained, fails = 0,
                      NEW n \in (DOMAIN cfg.drives \cap Names \cap DOMAIN table) \ misnamed
               PROVE  (refresh_status(cfg, views)[n] = "paused") <=> table[n]
    BY DEF PauseIsReal
  <2>1. \A good : ~ Has(chan, good)
    BY HasNone DEF Drained
  <2>2. table[n] = cfg.drives[n]
    BY <2>1 DEF DrivesInv, Plain, AllNames, UsersFlagIsMarked, DriveNames
  <2>3. cfg.drives[n] \in BOOLEAN
    BY DrivesAre DEF DaemonTypes, CoreTypes, LoopTypes, Config
  <2>4. views[n] # "paused"
    BY DEF DaemonTypes, CoreTypes, LoopTypes, Views, AllNames, NoView
  <2>5. (refresh_status(cfg, views)[n] = "paused") <=> cfg.drives[n]
    BY <2>3, <2>4 DEF refresh_status
  <2> QED BY <2>2, <2>5
<1> QED BY <1>1, DrivesAlways, PTL
=============================================================================

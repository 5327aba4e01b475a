------------------------------- MODULE Daemon -------------------------------
(***************************************************************************)
(* The daemon's command and event loop (daemon.rs), the configuration file *)
(* it shares with the command line (config.rs, main.rs), the drive table   *)
(* and ban set of the engine that the loop keeps in step over two channels *)
(* (p2p/mod.rs), and the status that console and tray show.                *)
(*                                                                         *)
(* A configuration is the set of drives, each paused or not, and `opt`,    *)
(* which stands for every other field.  Addresses, token names, labels and *)
(* the log are left out.  The modification time of the file matters only   *)
(* through the comparison with last_save_mtime, so it is the flag `newer`. *)
(***************************************************************************)
EXTENDS Naturals, Sequences, SequencesExt, FiniteSets

CONSTANTS
    Names,      \* names of drives the user configures
    Joined,     \* names the engine gives to the drives of joining peers
    Key,        \* the name in lower case: commands compare names by it
    Opts,       \* values of the remaining configuration fields
    Default,    \* the value default_with_version gives them
    BadOpt,     \* a value validate refuses, left by an editor
    Peers,      \* peers that can be banned; a joiner goes by its drive's name
    Grants,     \* the sets of groups an invite may name
    OwnName,    \* instance.name, the group of an invite that names none
    Groups,     \* the groups of this node, which can be added to
    MaxPending, \* more open invites than this are forgotten at the next (256)
    Budgets,    \* bounds: how many commands, edits of the file by others,
                \* crashes and events the engine causes a behaviour has
    MaxFails,   \* bound: writes by the daemon that fail
    MaxChan     \* bound: engine commands and events in flight

Purses == {"cmds", "edits", "crashes", "reports"}

ASSUME KeyAssumption == /\ Key \in [Names \union Joined -> STRING]
                        /\ Default \in Opts /\ BadOpt \notin Opts
                        /\ Names \intersect Joined = {}
                        /\ IsFiniteSet(Names \union Joined)
                        /\ Budgets \subseteq [Purses -> Nat]
                        /\ {MaxPending, MaxFails} \subseteq Nat

AllNames == Names \union Joined
Status == {"connecting", "synced", "paused", "offline", "error"}
NoView == "none"
Drives == UNION {[S -> BOOLEAN] : S \in SUBSET AllNames}
Config == [drives : Drives, opt : Opts \union {BadOpt}]
NoCli == [loaded |-> FALSE]

\* A save of the configuration: the file is read, then written, then its time is
\* taken; `due` of the last engine commands are sent when that is done.
Idle == [at |-> "idle", due |-> 0]

\* minted: the groups of every invite made, whose place is its nonce; open:
\* ctx.pending_invites; here and shown: those made, and the join proofs
\* accepted, since the daemon started; granted: <<nonce, joiner, group>>.
NoInvites == [minted |-> <<>>, open |-> {}, here |-> {}, shown |-> {}, granted |-> {}]
Same(a, b) == Key[a] = Key[b]
Without(f, S) == [n \in DOMAIN f \ S |-> f[n]]
With(f, n, v) == [m \in DOMAIN f \union {n} |-> IF m = n THEN v ELSE f[m]]

VARIABLES
    up,       \* the daemon's loop runs
    file,     \* config.json: [kind, val]; val is what it parses to
    newer,    \* its modification time is later than last_save_mtime
    cfg,      \* ctx.config
    known,    \* ctx.engine_drives
    views,    \* ctx.drive_views
    bans,     \* [mem: ctx.bans, disk: bans.json]
    save,     \* how far the loop is in persist_config: see Idle
    chan,     \* engine commands sent, or about to be, and not handled
    evts,     \* engine events sent and not handled
    table,    \* the engine's drives: name -> paused
    refused,  \* the engine's banned peers
    cli,      \* what a command-line process has loaded and not yet saved
    fails,    \* writes by the daemon that failed
    inv,      \* the invites: see NoInvites
    left,     \* what is left of the budget
    writer,   \* history: who wrote the file last: the "daemon", which has read
              \* all that was in it before, an "other" process, or one that did
              \* so "during" a save
    misnamed  \* history: drives reached under another spelling than their own

vars == <<up, file, newer, cfg, known, views, bans, save, chan, evts, table, refused,
          cli, fails, inv, left, writer, misnamed>>
engine == <<table, refused>>
mine == <<cfg, known, views, save, misnamed>>
onDisk == <<file, newer, writer>>
others == <<cli, inv>>

default_with_version == [drives |-> <<>>, opt |-> Default]
FileKinds == {"json", "corrupt", "missing"}
Written(c) == [kind |-> "json", val |-> c]
Spend(k) == left[k] > 0 /\ left' = [left EXCEPT ![k] = left[k] - 1]

(***************************************************************************)
(* What the status page, the command line and the tray are shown.          *)
(***************************************************************************)
refresh_status(c, v) ==
    [n \in DOMAIN c.drives |->
        IF c.drives[n] THEN "paused" ELSE IF v[n] = NoView THEN "connecting" ELSE v[n]]

(***************************************************************************)
(* Loading and saving the configuration.                                   *)
(***************************************************************************)
validate(c) == c.opt # BadOpt

\* set: one dotted key; the new value is validated with the whole document.
set(c, v) == [c EXCEPT !.opt = v]

\* quarantine: a file that does not parse is set aside, and what load_quiet
\* writes in its place, as in the place of a missing one, is the defaults.
quarantine(f) == IF f.kind = "json" THEN f ELSE Written(default_with_version)

\* load_quiet: fresh when the file had to be replaced; an invalid one is an
\* error and stays where it is.
load_quiet(f) ==
    LET g == quarantine(f)
    IN  [ok |-> validate(g.val), val |-> g.val, fresh |-> g # f, file |-> g]

\* What adopt_external sends to bring an engine that knows k to the drives c:
\* those it lacks, those it should not have, and every pause flag.
Adds(c, k) ==
    [i \in 1..Cardinality(DOMAIN c \ k) |->
        LET n == SetToSeq(DOMAIN c \ k)[i] IN [op |-> "add", n |-> n, paused |-> c[n]]]
RemoveEach(S) ==
    [i \in 1..Cardinality(S) |-> [op |-> "remove", n |-> SetToSeq(S)[i]]]
Removes_None(c, k) == <<>>
Removes(c, k) == RemoveEach(k \ DOMAIN c)
Flags_None(c) == <<>>
Flags(c) ==
    [i \in 1..Cardinality(DOMAIN c) |->
        LET n == SetToSeq(DOMAIN c)[i] IN [op |-> "pause", n |-> n, paused |-> c[n]]]

\* adopt_external: nothing when the file is not newer or cannot be loaded; a
\* replaced file is not adopted, but its replacement is later than the time
\* that is then remembered.  Otherwise the file becomes the configuration.
adopt_external(f, isNewer, c, k, v, preserve) ==
    LET l == load_quiet(f)
        new == IF preserve THEN [l.val EXCEPT !.drives = c.drives] ELSE l.val
        wanted == DOMAIN new.drives
        kept == [file |-> f, newer |-> isNewer, cfg |-> c, known |-> k, views |-> v,
                 cmds |-> <<>>]
    IN  IF ~isNewer \/ f.kind = "missing" \/ ~l.ok THEN kept
        ELSE IF l.fresh THEN [kept EXCEPT !.file = l.file]
        ELSE [file |-> f, newer |-> FALSE, cfg |-> new, known |-> wanted,
              views |-> [n \in AllNames |-> IF n \in k \ wanted THEN NoView ELSE v[n]],
              cmds |-> Adds(new.drives, k) \o Removes(new.drives, k) \o Flags(new.drives)]

\* persist_config(c, k, v): the memory is as a command has just left it; the
\* file is adopted except for its drives, and the result saved: by Rename and
\* TakeTime, between which others may write, or not at all.  `sent` are the
\* engine commands sent before, `then` those sent only if the write succeeds.
persist_config_NoAdopt(c, k, v, sent, then) ==
    /\ cfg' = c /\ known' = k /\ views' = v
    /\ save' = [at |-> "read", due |-> Len(then)]
    /\ chan' = chan \o sent \o then
    /\ UNCHANGED <<onDisk, fails>>
persist_config(c, k, v, sent, then) ==
    LET a == adopt_external(file, newer, c, k, v, TRUE)
    IN  /\ cfg' = a.cfg /\ known' = a.known /\ views' = a.views
        /\ file' = a.file /\ newer' = a.newer
        /\ writer' = IF a.file = file THEN writer ELSE "daemon"
        /\ \/ /\ save' = [at |-> "read", due |-> Len(then)]
              /\ chan' = chan \o sent \o a.cmds \o then
              /\ UNCHANGED fails
           \/ /\ fails < MaxFails /\ fails' = fails + 1
              /\ chan' = chan \o sent \o a.cmds
              /\ UNCHANGED save

\* config::save: the file becomes what the memory is, whatever it is by now.
Rename ==
    /\ up /\ save.at = "read"
    /\ file' = Written(cfg) /\ newer' = TRUE /\ writer' = "daemon"
    /\ save' = [save EXCEPT !.at = "written"]
    /\ UNCHANGED <<up, cfg, known, views, bans, chan, evts, engine, others, fails, left, misnamed>>

\* The time of the file as it is by now becomes last_save_mtime; the command
\* goes on.
TakeTime ==
    /\ up /\ save.at = "written"
    /\ newer' = FALSE
    /\ save' = Idle
    /\ UNCHANGED <<up, file, writer, cfg, known, views, bans, chan, evts, engine, others, fails, left,
                   misnamed>>
(***************************************************************************)
(* Commands: execute_command runs one at a time between two events.        *)
(***************************************************************************)
\* The settings routes queue a command and answer at once; it is refused, if at
\* all, when the loop comes to it.
Requested == Spend("cmds")
Free == up /\ save = Idle
Command == Free /\ Len(chan) <= MaxChan /\ Requested

\* The routes of invites, joins and bans wait some seconds for the loop's
\* answer; a request that gives up has been queued all the same.
Awaited == Command
Named(n) == {d \in DOMAIN cfg.drives : Same(d, n)}
Send(m) == chan' = Append(chan, m)

\* AddDrive: refused when the name is taken; the drive is in memory before
\* the write, the engine hears of it only after.
AddDrive(n) ==
    /\ Command
    /\ Named(n) = {}
    /\ persist_config([cfg EXCEPT !.drives = With(cfg.drives, n, FALSE)],
                      known \union {n}, views, <<>>,
                      << [op |-> "add", n |-> n, paused |-> FALSE] >>)
    /\ UNCHANGED <<up, bans, evts, engine, others, misnamed>>

\* Join: the drive an invite names, with the join proof for the engine.
Join(n) ==
    /\ Awaited
    /\ Named(n) = {}
    /\ persist_config([cfg EXCEPT !.drives = With(cfg.drives, n, FALSE)],
                      known \union {n}, views, <<>>,
                      << [op |-> "join", n |-> n, paused |-> FALSE] >>)
    /\ UNCHANGED <<up, bans, evts, engine, others, misnamed>>

\* RemoveDrive: the engine hears of every spelling it knows before the write;
\* the view is dropped under the spelling the user gave.
RemoveDrive(n) ==
    /\ Command
    /\ \E d \in Named(n) :
        /\ persist_config([cfg EXCEPT !.drives = Without(cfg.drives, {d})],
                          {k \in known : ~Same(k, n)}, [views EXCEPT ![n] = NoView],
                          RemoveEach({k \in known : Same(k, n)}), <<>>)
        /\ misnamed' = misnamed \union (Named(n) \ {d})
    /\ UNCHANGED <<up, bans, evts, engine, others>>

\* PauseDrive and ResumeDrive: the flag is set on the drive that matches, the
\* engine is sent the spelling the user gave.
SetPaused(n, p) ==
    /\ Command
    /\ \E d \in Named(n) :
        /\ persist_config([cfg EXCEPT !.drives[d] = p], known, views, <<>>,
                          << [op |-> "pause", n |-> n, paused |-> p] >>)
        /\ misnamed' = IF d = n THEN misnamed ELSE misnamed \union {d, n}
    /\ UNCHANGED <<up, bans, evts, engine, others>>

ResyncDrive(n) ==
    /\ Command
    /\ Named(n) # {}
    /\ Send([op |-> "resync", n |-> n])
    /\ UNCHANGED <<up, onDisk, mine, bans, evts, engine, others, fails>>

\* SetConfig with a value `set` accepts; a value it refuses changes nothing.
SetConfig(v) ==
    /\ Command
    /\ validate(set(cfg, v))
    /\ persist_config(set(cfg, v), known, views, <<>>, <<>>)
    /\ UNCHANGED <<up, bans, evts, engine, others, misnamed>>

\* Ban and Unban: the set in memory first, then bans.json, then the engine.
save_bans(mem) ==
    \/ bans' = [mem |-> mem, disk |-> mem] /\ UNCHANGED fails
    \/ fails < MaxFails /\ fails' = fails + 1 /\ bans' = [bans EXCEPT !.mem = mem]

BanCmd(p, ban) ==
    /\ Awaited
    /\ save_bans(IF ban THEN bans.mem \union {p} ELSE bans.mem \ {p})
    /\ IF fails' = fails THEN Send([op |-> IF ban THEN "ban" ELSE "unban", p |-> p])
                         ELSE UNCHANGED chan
    /\ UNCHANGED <<up, onDisk, mine, evts, engine, others>>

\* Invite: a signed token with a fresh nonce, and the grant to make when it
\* comes back.
new_nonce == Len(inv.minted) + 1
InviteToken(gs) == [nonce |-> new_nonce, groups |-> IF gs = {} THEN {OwnName} ELSE gs]
Invite(gs) ==
    /\ Awaited
    /\ LET t == InviteToken(gs)
           kept == IF Cardinality(inv.open) > MaxPending THEN {} ELSE inv.open
       IN  inv' = [inv EXCEPT !.minted = Append(inv.minted, t.groups),
                              !.open = kept \union {t.nonce},
                              !.here = inv.here \union {t.nonce}]
    /\ UNCHANGED <<up, onDisk, mine, bans, chan, evts, engine, cli, fails>>
(***************************************************************************)
(* The other arms of the daemon's loop.                                    *)
(***************************************************************************)
\* The five-second tick: the file is fully authoritative.
Tick_KeepsDrives ==
    /\ Free /\ newer
    /\ LET a == adopt_external(file, newer, cfg, known, views, TRUE)
       IN  /\ file' = a.file /\ newer' = a.newer /\ cfg' = a.cfg
           /\ writer' = IF a.file = file THEN writer ELSE "daemon"
           /\ known' = a.known /\ views' = a.views /\ chan' = chan \o a.cmds
    /\ UNCHANGED <<up, bans, save, evts, engine, others, fails, left, misnamed>>
Tick ==
    /\ Free /\ newer
    /\ LET a == adopt_external(file, newer, cfg, known, views, FALSE)
       IN  /\ file' = a.file /\ newer' = a.newer /\ cfg' = a.cfg
           /\ writer' = IF a.file = file THEN writer ELSE "daemon"
           /\ known' = a.known /\ views' = a.views /\ chan' = chan \o a.cmds
    /\ UNCHANGED <<up, bans, save, evts, engine, others, fails, left, misnamed>>

\* on_engine_event, one disjunct per event that changes this state.
OnDriveStatus ==
    /\ Free /\ evts # <<>> /\ Head(evts).ev = "status"
    /\ views' = [views EXCEPT ![Head(evts).n] = Head(evts).s]
    /\ evts' = Tail(evts)
    /\ UNCHANGED <<up, onDisk, cfg, known, save, misnamed, bans, chan, engine, others, fails, left>>

OnDriveJoined ==
    /\ Free /\ evts # <<>> /\ Head(evts).ev = "joined"
    /\ LET n == Head(evts).n
       IN  IF n \in DOMAIN cfg.drives
           THEN UNCHANGED <<onDisk, mine, chan, fails>>
           ELSE persist_config([cfg EXCEPT !.drives = With(cfg.drives, n, FALSE)],
                               known \union {n}, views, <<>>, <<>>)
    /\ evts' = Tail(evts)
    /\ UNCHANGED <<up, bans, engine, others, left, misnamed>>

OnPeerAutoBanned_Ignored ==
    /\ Free /\ evts # <<>> /\ Head(evts).ev = "banned"
    /\ evts' = Tail(evts)
    /\ UNCHANGED <<up, onDisk, mine, bans, chan, engine, others, fails, left>>
OnPeerAutoBanned ==
    /\ Free /\ evts # <<>> /\ Head(evts).ev = "banned"
    /\ LET p == Head(evts).p
       IN  IF p \in bans.mem THEN UNCHANGED <<bans, fails>>
                             ELSE save_bans(bans.mem \union {p})
    /\ evts' = Tail(evts)
    /\ UNCHANGED <<up, onDisk, mine, chan, engine, others, left>>

\* InviteAccepted: the grant of its nonce is taken out and made: the joiner is
\* added to each of its groups the node has and the joiner is not yet in.
OnInviteAccepted_KeepsGrant ==
    /\ Free /\ evts # <<>> /\ Head(evts).ev = "accepted"
    /\ LET t == Head(evts).t
           n == Head(evts).n
           new == {g \in inv.minted[t] \intersect Groups : \A u \in inv.granted : Tail(u) # <<n, g>>}
       IN  IF t \notin inv.open THEN UNCHANGED inv
           ELSE inv' = [inv EXCEPT !.granted = inv.granted \union {<<t, n, g>> : g \in new}]
    /\ evts' = Tail(evts)
    /\ UNCHANGED <<up, onDisk, mine, bans, chan, engine, cli, fails, left>>
OnInviteAccepted ==
    /\ Free /\ evts # <<>> /\ Head(evts).ev = "accepted"
    /\ LET t == Head(evts).t
           n == Head(evts).n
           new == {g \in inv.minted[t] \intersect Groups : \A u \in inv.granted : Tail(u) # <<n, g>>}
       IN  IF t \notin inv.open THEN UNCHANGED inv
           ELSE inv' = [inv EXCEPT !.open = inv.open \ {t},
                                   !.granted = inv.granted \union {<<t, n, g>> : g \in new}]
    /\ evts' = Tail(evts)
    /\ UNCHANGED <<up, onDisk, mine, bans, chan, engine, cli, fails, left>>
(***************************************************************************)
(* The engine's side: handle_cmd, and what it does by itself.              *)
(***************************************************************************)
Report(n, s) == << [ev |-> "status", n |-> n, s |-> s] >>

handle_cmd ==
    /\ up /\ Len(chan) > save.due /\ Len(evts) <= MaxChan
    /\ LET c == Head(chan)
           here == c.op \notin {"ban", "unban"} /\ c.n \in DOMAIN table
       IN  CASE c.op \in {"add", "join"} ->
                    /\ table' = With(table, c.n, c.paused)
                    /\ evts' = IF c.paused THEN evts ELSE evts \o Report(c.n, "connecting")
                    /\ UNCHANGED refused
             [] c.op = "remove" ->
                    /\ table' = Without(table, {c.n})
                    /\ evts' = IF here THEN evts \o Report(c.n, "offline") ELSE evts
                    /\ UNCHANGED refused
             [] c.op = "pause" ->
                    /\ table' = IF here THEN With(table, c.n, c.paused) ELSE table
                    /\ UNCHANGED <<evts, refused>>
             [] c.op = "resync" ->
                    /\ evts' = IF here THEN evts \o Report(c.n, "connecting") ELSE evts
                    /\ UNCHANGED <<table, refused>>
             [] c.op = "ban" -> refused' = refused \union {c.p} /\ UNCHANGED <<table, evts>>
             [] c.op = "unban" -> refused' = refused \ {c.p} /\ UNCHANGED <<table, evts>>
    /\ chan' = Tail(chan)
    /\ UNCHANGED <<up, onDisk, mine, bans, others, fails, left>>

\* A catch-up round ends, or a connection closes: the drive's status changes.
EngineStatus(n, s) ==
    /\ up /\ Len(evts) <= MaxChan /\ Spend("reports")
    /\ n \in DOMAIN table /\ ~table[n]
    /\ evts' = evts \o Report(n, s)
    /\ UNCHANGED <<up, onDisk, mine, bans, chan, engine, others, fails>>

\* handle_invite_accept: a join proof binds the joiner to the nonce it echoes,
\* whichever that is.  The engine adds the joiner's drive, and says both.
InviteAccept(t, n) == [nonce |-> t, n |-> n, sig |-> <<t, n>>]
verify(a) == a.sig = <<a.nonce, a.n>>
EngineJoin(a) ==
    /\ up /\ Len(evts) <= MaxChan /\ Spend("reports")
    /\ a.n \notin refused /\ verify(a)
    /\ table' = With(table, a.n, FALSE)
    /\ evts' = evts \o Report(a.n, "connecting")
                    \o << [ev |-> "joined", n |-> a.n], [ev |-> "accepted", n |-> a.n, t |-> a.nonce] >>
    /\ inv' = [inv EXCEPT !.shown = inv.shown \union {<<a.nonce, a.n>>}]
    /\ UNCHANGED <<up, onDisk, mine, bans, chan, refused, cli, fails>>

\* record_auth_failure at its limit: the peer's drive, if there is one, is in
\* error, and the ban is reported.
EngineAutoBan(p) ==
    /\ up /\ Len(evts) <= MaxChan /\ Spend("reports")
    /\ p \notin refused
    /\ refused' = refused \union {p}
    /\ \E told \in {<<>>} \union {Report(n, "error") : n \in DOMAIN table} :
          evts' = evts \o told \o << [ev |-> "banned", p |-> p] >>
    /\ UNCHANGED <<up, onDisk, mine, bans, chan, table, others, fails>>
(***************************************************************************)
(* Other processes: the command line, an editor.  They take no notice of   *)
(* the daemon, nor of how far it is in a save.                             *)
(***************************************************************************)
Outside == writer' = IF save = Idle THEN "other" ELSE "during"

\* `config set` and `drive` load the file, which may replace it, ...
CliLoad ==
    /\ ~cli.loaded /\ Spend("edits")
    /\ LET l == load_quiet(file)
       IN  /\ l.ok
           /\ cli' = [loaded |-> TRUE, val |-> l.val]
           /\ file' = l.file
           /\ newer' = (newer \/ l.fresh)
           /\ IF l.fresh THEN Outside ELSE UNCHANGED writer
    /\ UNCHANGED <<up, mine, bans, chan, evts, engine, fails, inv>>

\* ... and write it back later with their change: `set`, or direct_drive_op
\* when no daemon answers.
CliSaves(c) ==
    /\ file' = Written(c)
    /\ newer' = TRUE
    /\ Outside
    /\ cli' = NoCli
    /\ UNCHANGED <<up, mine, bans, chan, evts, engine, fails, inv, left>>

CliSet(v) == cli.loaded /\ validate(set(cli.val, v)) /\ CliSaves(set(cli.val, v))

CliNamed(n) == {d \in DOMAIN cli.val.drives : Same(d, n)}
direct_drive_op(n) ==
    /\ cli.loaded
    /\ \/ /\ CliNamed(n) = {}
          /\ CliSaves([cli.val EXCEPT !.drives = With(cli.val.drives, n, FALSE)])
       \/ /\ CliNamed(n) # {}
          /\ CliSaves([cli.val EXCEPT !.drives = Without(cli.val.drives, CliNamed(n))])
       \/ \E d \in CliNamed(n), p \in BOOLEAN :
            CliSaves([cli.val EXCEPT !.drives[d] = p])

\* An editor leaves a file that does not parse, is not valid, or is gone.
EditorSpoils(k) ==
    /\ Spend("edits")
    /\ file' = IF k = "invalid" THEN Written(set(default_with_version, BadOpt))
               ELSE [kind |-> k, val |-> default_with_version]
    /\ newer' = (k # "missing")
    /\ Outside
    /\ UNCHANGED <<up, mine, bans, chan, evts, engine, others, fails>>
(***************************************************************************)
(* The process.                                                            *)
(***************************************************************************)
Stopped ==
    /\ up' = FALSE
    /\ chan' = <<>> /\ evts' = <<>> /\ table' = <<>> /\ refused' = {}
    /\ cfg' = default_with_version /\ known' = {} /\ views' = [n \in AllNames |-> NoView]
    /\ save' = Idle /\ misnamed' = {}
    /\ inv' = [inv EXCEPT !.open = {}, !.here = {}, !.shown = {}]
    /\ UNCHANGED <<onDisk, cli, fails>>

\* Quit, a signal or a crash; a crash inside save_bans can leave bans.json
\* truncated, which load_bans reads as no bans.
Crash ==
    /\ up /\ Spend("crashes")
    /\ Stopped
    /\ \E disk \in {bans.disk, {}} : bans' = [mem |-> {}, disk |-> disk]

\* run_inner: the configuration, the bans, then AddDrive for every drive.
Start ==
    /\ ~up
    /\ LET l == load_quiet(file)
       IN  /\ l.ok
           /\ up' = TRUE
           /\ file' = l.file
           /\ newer' = FALSE /\ writer' = "daemon"
           /\ cfg' = l.val
           /\ known' = DOMAIN l.val.drives
           /\ chan' = Adds(l.val.drives, {})
    /\ bans' = [bans EXCEPT !.mem = bans.disk]
    /\ refused' = bans.disk
    /\ UNCHANGED <<views, save, misnamed, evts, table, others, fails, left>>
-----------------------------------------------------------------------------
Init ==
    /\ up = FALSE
    /\ file = [kind |-> "missing", val |-> default_with_version] /\ newer = FALSE
    /\ writer = "other" /\ save = Idle /\ misnamed = {}
    /\ cfg = default_with_version /\ known = {} /\ views = [n \in AllNames |-> NoView]
    /\ bans = [mem |-> {}, disk |-> {}]
    /\ chan = <<>> /\ evts = <<>> /\ table = <<>> /\ refused = {}
    /\ cli = NoCli /\ fails = 0
    /\ inv = NoInvites /\ left \in Budgets

OnEvent == OnDriveStatus \/ OnDriveJoined \/ OnPeerAutoBanned \/ OnInviteAccepted
\* The nonces that have been handed out, and one that never is.
Nonces == 0..Len(inv.minted)
Next ==
    \/ Tick \/ OnEvent \/ Rename \/ TakeTime \/ handle_cmd \/ CliLoad \/ Crash \/ Start
    \/ \E n \in AllNames : \/ RemoveDrive(n) \/ ResyncDrive(n) \/ direct_drive_op(n)
                           \/ \E p \in BOOLEAN : SetPaused(n, p)
                           \/ \E s \in {"synced", "offline"} : EngineStatus(n, s)
    \/ \E n \in Names : AddDrive(n) \/ Join(n)
    \/ \E n \in Joined, t \in Nonces : EngineJoin(InviteAccept(t, n))
    \/ \E gs \in Grants : Invite(gs)
    \/ \E v \in Opts \union {BadOpt} : SetConfig(v) \/ CliSet(v)
    \/ \E p \in Peers : EngineAutoBan(p) \/ \E ban \in BOOLEAN : BanCmd(p, ban)
    \/ \E k \in {"corrupt", "invalid", "missing"} : EditorSpoils(k)

\* The loop goes on with a save and polls both channels and the tick, the engine
\* its channel, and a supervisor starts the daemon again.
Fairness ==
    /\ WF_vars(Rename) /\ WF_vars(TakeTime)
    /\ WF_vars(Tick) /\ WF_vars(OnEvent)
    /\ WF_vars(handle_cmd) /\ WF_vars(Start)
Spec == Init /\ [][Next]_vars /\ Fairness
-----------------------------------------------------------------------------
(***************************************************************************)
(* Properties.                                                             *)
(***************************************************************************)
TypeOK ==
    /\ up \in BOOLEAN /\ newer \in BOOLEAN /\ file.kind \in FileKinds /\ file.val \in Config
    /\ cfg \in Config /\ known \subseteq AllNames /\ table \in Drives
    /\ views \in [AllNames -> Status \union {NoView}]
    /\ bans \in [mem : SUBSET Peers, disk : SUBSET Peers] /\ refused \subseteq Peers
    /\ fails \in 0..MaxFails /\ misnamed \subseteq AllNames
    /\ save.at \in {"idle", "read", "written"} /\ save.due \in Nat
    /\ writer \in {"daemon", "other", "during"}
    /\ inv.open \subseteq inv.here /\ inv.here \subseteq 1..Len(inv.minted)
    /\ inv.granted \subseteq (1..Len(inv.minted)) \X Joined \X Groups

\* Nothing is under way between the daemon and its engine.
Drained == up /\ chan = <<>> /\ evts = <<>>

\* Whatever order commands, ticks, joins and file edits came in, once both
\* channels are empty the engine syncs no drive that is not configured
\* (execute_command, adopt_external and on_engine_event keep config.drives,
\* engine_drives and the engine's table in step over two queues), and as long
\* as no write has failed it has every drive the user configured.  Commands
\* accept any spelling of a name: a drive that differs only in case from one
\* that was removed is left out of both.
EngineFollowsConfig ==
    Drained => /\ DOMAIN table \ misnamed \subseteq DOMAIN cfg.drives
               /\ fails = 0 => DOMAIN cfg.drives \intersect Names \subseteq DOMAIN table \union misnamed

\* What the status page says of a pause is what the engine does: with the
\* channels empty and no failed write, a drive the user configured is shown
\* paused by refresh_status exactly when the engine has stopped syncing it,
\* unless a pause or a resume named it in another spelling, which is the name
\* the engine is then sent.
PauseIsReal ==
    Drained /\ fails = 0 =>
        \A n \in (DOMAIN cfg.drives \intersect Names \intersect DOMAIN table) \ misnamed :
            (refresh_status(cfg, views)[n] = "paused") <=> table[n]

\* A peer the engine refuses is on the list the operator is shown, so that the
\* ban can be lifted: Ban, Unban and the automatic ban reach the memory, the
\* file and the engine in different orders.
RefusedAreListed == Drained /\ fails = 0 => refused \subseteq bans.mem

\* An invite lets one joiner in: whatever order proofs, commands and restarts
\* come in, no two peers are added to groups on one nonce (pending_invites is
\* emptied entry by entry as join proofs are accepted), and once the channels
\* are empty one of those who showed a nonce is in every group it names, unless
\* more invites are open than the daemon remembers.
InvitesGrantOnce ==
    /\ \A a, b \in inv.granted : a[1] = b[1] => a[2] = b[2]
    /\ Drained /\ Cardinality(inv.here) <= MaxPending + 1 =>
        \A t \in inv.here, g \in Groups :
            g \in inv.minted[t] /\ (\E n \in Joined : <<t, n>> \in inv.shown) =>
                \E n \in Joined : <<t, n>> \in inv.shown /\ \E u \in inv.granted : Tail(u) = <<n, g>>

\* "External edits are adopted first so they are not clobbered"
\* (persist_config): as long as an edit made between two saves is unread, no
\* step of the daemon writes other fields over it, and the step that marks it as
\* read has taken it into memory, which is what a save then writes.
EditsNotClobbered ==
    [][up /\ up' /\ newer /\ writer = "other" /\ file.kind = "json" /\ validate(file.val)
        /\ cli' = cli /\ left'.edits = left.edits
        => file'.val.opt = file.val.opt /\ (newer' \/ cfg'.opt = file.val.opt)]_vars

\* Once edits and commands stop, the daemon runs the configuration that is on
\* disk: the tick adopts what is newer and every command saves what it changed;
\* except an edit that came between a save's renaming of the file and its look
\* at the time, which is never read.
ConfigSettles ==
    <>[](file.kind = "json" /\ validate(file.val) /\ fails = 0 /\ writer # "during"
            => up /\ cfg = file.val)
=============================================================================

------------------------------- MODULE Update -------------------------------
(***************************************************************************)
(* Self-update of one node (src/src/update/, `check_for_update` and the    *)
(* handover in src/src/daemon.rs, src/src/settings/updates.rs): releases   *)
(* are offered, their binaries fetched, and `apply` replaces the binary    *)
(* file by file-system calls, each an action here, so that a crash, an I/O *)
(* error, the supervisor or another applier can come between any two.      *)
(*                                                                         *)
(* The supervisor starts what lies at the image path.  On a host that path *)
(* is writable and replaced in place.  In a container it is not: the new   *)
(* binary goes to the state directory, a marker names it, and the image    *)
(* binary hands over to it when it starts.                                 *)
(*                                                                         *)
(* A name is a directory entry that points to a file (an inode), because a *)
(* rename moves the running binary's name under the process: `current_exe` *)
(* then returns the new name.  Every release offered is signed by a        *)
(* trusted publisher and built for this platform; the others are skipped   *)
(* by the code before anything else.                                       *)
(***************************************************************************)
EXTENDS Naturals, FiniteSets, FiniteSetsExt

CONSTANTS Versions,     \* versions above the image's, which is 1
          AutoApply,    \* `update.auto`: the periodic check applies releases
          Budgets,      \* bounds, one of which a behaviour has: releases,
                        \* clicks in the console, and mishaps (crashes, I/O
                        \* errors, chunk collections)
          MaxSuffix,    \* bound: ".previous" suffixes of a name
          Inodes        \* bound: files, the freed ones used again

Budget == [releases : Nat, clicks : Nat, mishaps : Nat]

ASSUME UpdateAssumption ==
    /\ Versions \subseteq Nat \ {0, 1}
    /\ AutoApply \in BOOLEAN
    /\ MaxSuffix \in Nat \ {0} /\ Inodes \in Nat \ {0}
    /\ Budgets \subseteq Budget

Applier == {"check", "console"}     \* `check_for_update`, `apply_update`
Place == {"image", "state"}         \* the two directories of binaries
Inode == 1..Inodes
NoFile == 0

\* The binary's name in a directory, with so many ".previous" suffixes.
Path == Place \X (0..MaxSuffix)
ImagePath == <<"image", 0>>
StatePath == <<"state", 0>>
Previous(path) == <<path[1], path[2] + 1>>

File == [ver : Versions \cup {1}, whole : BOOLEAN, exec : BOOLEAN]

Marker == [ver : Versions, path : Path]
NoMarker == [ver |-> 1, path |-> StatePath]     \* none, or not readable

\* Where a call of `apply` stands.
Step == {"idle", "write", "fill", "verify", "preserve", "install",
         "open marker", "write marker"}

Call == [at : Step, ver : Versions, exe : Path, target : Path,
         fd : Inode \cup {NoFile}]

VARIABLES container, \* is the image's directory read-only?
          offered,   \* the release documents on this node
          withdrawn, \* those of them that were withdrawn
          asked,     \* binaries asked of the peers (`FetchBlob`)
          fetched,   \* binaries whose chunks are all here
          bin,       \* bin[path]: the file a name of the binary points to
          staged,    \* staged[place][v]: `.ph-reactor-<v>.staged`
          file,      \* file[i]: what file i holds
          marker,    \* `staged.json`
          proc,      \* the process: state, its binary's file, handed over?
          call,      \* call[p]: applier p's call of `apply`
          quit,      \* has `Command::Quit` been sent?
          ran,       \* the version that last came up
          left,      \* what is left of the budget
          shared,    \* history: files cut by one call while another used them
          outrun     \* history: has a call moved another call's binary aside,
                     \* since this process started, for the running one?

vars == <<container, offered, withdrawn, asked, fetched, bin, staged, file,
          marker, proc, call, quit, ran, left, shared, outrun>>

releases == <<container, offered, withdrawn>>

history == <<shared, outrun>>

\* The type invariant; nothing in a read-only directory is ever touched.
TypeOK ==
    /\ container \in BOOLEAN
    /\ container => \A path \in Path : path[1] = "image" =>
                        bin[path] = IF path = ImagePath THEN 1 ELSE NoFile
    /\ withdrawn \subseteq offered /\ offered \subseteq Versions
    /\ asked \subseteq offered /\ fetched \subseteq offered
    /\ bin \in [Path -> Inode \cup {NoFile}]
    /\ staged \in [Place -> [Versions -> Inode \cup {NoFile}]]
    /\ file \in [Inode -> File]
    /\ marker \in Marker \cup {NoMarker}
    /\ proc \in [st : {"down", "booting", "up"}, file : Inode, handed : BOOLEAN]
    /\ DOMAIN call = Applier
    /\ \A p \in Applier : call[p] = [at |-> "idle"] \/ call[p] \in Call
    /\ quit \in BOOLEAN
    /\ ran \in Versions \cup {1}
    /\ left \in Budget
    /\ shared \subseteq Inode
    /\ outrun \in BOOLEAN

Idle == [at |-> "idle"]

Init ==
    /\ container \in BOOLEAN
    /\ offered = {} /\ withdrawn = {} /\ asked = {} /\ fetched = {}
    /\ bin = [path \in Path |-> IF path = ImagePath THEN 1 ELSE NoFile]
    /\ staged = [place \in Place |-> [v \in Versions |-> NoFile]]
    /\ file = [i \in Inode |-> [ver |-> 1, whole |-> i = 1, exec |-> i = 1]]
    /\ marker = NoMarker
    /\ proc = [st |-> "up", file |-> 1, handed |-> FALSE]
    /\ call = [p \in Applier |-> Idle]
    /\ quit = FALSE
    /\ ran = 1
    /\ left \in Budgets
    /\ shared = {}
    /\ outrun = FALSE

-----------------------------------------------------------------------------
(* Releases and chunks                                                     *)

\* The running process's `VERSION`.
Running == file[proc.file].ver

\* `offers`
Offers == offered \ withdrawn

\* `is_newer_than`
Newer(v) == v > Running

Candidates == {v \in Offers : Newer(v)}

\* A release document arrives, `status` is set to withdrawn later.
Publish(v) ==
    /\ v \notin offered
    /\ left.releases > 0
    /\ left' = [left EXCEPT !.releases = @ - 1]
    /\ offered' = offered \cup {v}
    /\ UNCHANGED <<container, withdrawn, asked, fetched, bin, staged, file,
                   marker, proc, call, quit, ran, history>>

Withdraw(v) ==
    /\ v \in Offers
    /\ withdrawn' = withdrawn \cup {v}
    /\ UNCHANGED <<container, offered, asked, fetched, bin, staged, file,
                   marker, proc, call, quit, ran, left, history>>

files == <<bin, staged, file, marker>>

Mishap ==
    /\ left.mishaps > 0
    /\ left' = [left EXCEPT !.mishaps = @ - 1]

\* The last missing chunk of a binary is stored (`put_chunk`).
ChunksArrive(v) ==
    /\ v \in asked
    /\ fetched' = fetched \cup {v}
    /\ asked' = asked \ {v}
    /\ UNCHANGED <<releases, files, proc, call, quit, ran, left, history>>

\* `uninstall` of a package ends in `gc`; the blobs it keeps are those of
\* packages, so no release's chunks survive.
CollectChunks ==
    /\ proc.st = "up"
    /\ fetched # {}
    /\ fetched' = {}
    /\ Mishap
    /\ UNCHANGED <<releases, asked, files, proc, call, quit, ran, history>>

-----------------------------------------------------------------------------
(* `apply`                                                                 *)

\* `current_exe`: the name the running binary has now.
Exe == CHOOSE path \in Path : bin[path] = proc.file

HasName == \E path \in Path : bin[path] = proc.file

\* `staging_dir` and the choice of the target.
Target ==
    IF container /\ Exe[1] = "image" THEN StatePath ELSE Exe

InProgress == {p \in Applier : call[p].at # "idle"}

Ask(v) ==
    /\ v \notin fetched \cup asked
    /\ asked' = asked \cup {v}
    /\ UNCHANGED <<releases, fetched, files, proc, call, quit, ran, history>>

\* Faulty variant: the version is not compared.
Begin_AnyVersion(p, v) ==
    /\ v \in fetched
    /\ HasName /\ Target[2] < MaxSuffix
    /\ call' = [call EXCEPT ![p] = [at |-> "write", ver |-> v, exe |-> Exe,
                                    target |-> Target, fd |-> NoFile]]
    /\ UNCHANGED <<releases, asked, fetched, files, proc, quit, ran, history>>

\* The refusals of `apply`: not newer, chunks missing.  The bytes are in
\* memory after this step.  No lock keeps the check's call and the console's
\* apart.  A process whose binary has lost its last name begins no call here
\* (`current_exe` would give a name that nothing starts).
Begin(p, v) ==
    /\ Newer(v)
    /\ v \in fetched
    /\ HasName /\ Target[2] < MaxSuffix
    /\ call' = [call EXCEPT ![p] = [at |-> "write", ver |-> v, exe |-> Exe,
                                    target |-> Target, fd |-> NoFile]]
    /\ UNCHANGED <<releases, asked, fetched, files, proc, quit, ran, history>>

\* `check_for_update`: the newest candidate is fetched, then applied.
CheckForUpdate ==
    /\ proc.st = "up" /\ call["check"].at = "idle"
    /\ Candidates # {}
    /\ LET best == Max(Candidates)
       IN  Ask(best) \/ (AutoApply /\ Begin("check", best))
    /\ UNCHANGED left

\* `apply_update`: the release the operator chose.
ApplyUpdate(v) ==
    /\ proc.st = "up" /\ call["console"].at = "idle"
    /\ v \in Offers
    /\ Ask(v) \/ Begin("console", v)
    /\ left.clicks > 0
    /\ left' = [left EXCEPT !.clicks = @ - 1]

\* The files something still refers to, and one that nothing does.
InUse ==
    {bin[path] : path \in Path}
        \cup (UNION {{staged[place][v] : v \in Versions} : place \in Place})
        \cup {call[p].fd : p \in InProgress}
        \cup {proc.file}

FreeFile == CHOOSE f \in Inode : f \notin InUse

Whole(f) == f # NoFile /\ file[f].whole

StagedFile(p) == staged[call[p].target[1]][call[p].ver]

Unstaged(p) == [staged EXCEPT ![call[p].target[1]][call[p].ver] = NoFile]

Goto(p, at) == call' = [call EXCEPT ![p].at = at]

Return(p) == call' = [call EXCEPT ![p] = Idle]

At(p, at) == call[p].at = at

offers == <<container, offered, withdrawn, asked, fetched>>

\* Another call is at work on the same staged file.
Twin(p) ==
    \E q \in Applier \ {p} :
        /\ call[q].at \in {"fill", "verify", "preserve", "install"}
        /\ call[q].ver = call[p].ver /\ call[q].target[1] = call[p].target[1]

\* `fs::write` opens the staged file: a new one, or the one of that name
\* that is there, which is cut to nothing.
OpenStaged(p) ==
    LET f == IF StagedFile(p) = NoFile THEN FreeFile ELSE StagedFile(p)
        c == call[p]
    IN  /\ At(p, "write")
        /\ StagedFile(p) = NoFile => Inode \ InUse # {}
        /\ staged' = [staged EXCEPT ![c.target[1]][c.ver] = f]
        /\ file' = [file EXCEPT ![f] =
                      [ver |-> c.ver, whole |-> FALSE,
                       exec |-> StagedFile(p) # NoFile /\ file[f].exec]]
        /\ call' = [call EXCEPT ![p].at = "fill", ![p].fd = f]
        /\ shared' = IF Twin(p) THEN shared \cup {f} ELSE shared \ {f}
        /\ UNCHANGED <<offers, bin, marker, proc, quit, ran, left, outrun>>

\* The bytes are written, in one system call.
FillStaged(p) ==
    /\ At(p, "fill")
    /\ file' = [file EXCEPT ![call[p].fd].whole = TRUE]
    /\ Goto(p, "verify")
    /\ UNCHANGED <<offers, bin, staged, marker, proc, quit, ran, left, history>>

\* Faulty variant: what landed on disk is not read again.
VerifyStaged_Unread(p) ==
    /\ At(p, "verify")
    /\ file' = [file EXCEPT ![StagedFile(p)].exec = TRUE]
    /\ Goto(p, "preserve")
    /\ UNCHANGED <<offers, bin, staged, marker, proc, quit, ran, left, history>>

\* The staged file is read again and made executable, or removed.
VerifyStaged(p) ==
    LET f == StagedFile(p)
    IN  /\ At(p, "verify")
        /\ \/ /\ Whole(f)
              /\ file' = [file EXCEPT ![f].exec = TRUE]
              /\ Goto(p, "preserve")
              /\ UNCHANGED staged
           \/ /\ ~ Whole(f)
              /\ staged' = Unstaged(p)
              /\ Return(p)
              /\ UNCHANGED file
        /\ UNCHANGED <<offers, bin, marker, proc, quit, ran, left, history>>

\* Faulty variant: the binary at the target is deleted.
Preserve_Deletes(p) ==
    /\ At(p, "preserve")
    /\ bin' = [bin EXCEPT ![call[p].target] = NoFile]
    /\ Goto(p, "install")
    /\ UNCHANGED <<offers, staged, file, marker, proc, quit, ran, left, history>>

\* The binary at the target becomes the target's `.previous`.
Preserve(p) ==
    LET target == call[p].target
    IN  /\ At(p, "preserve")
        /\ bin' = IF bin[target] = NoFile THEN bin
                  ELSE [bin EXCEPT ![Previous(target)] = bin[target],
                                   ![target] = NoFile]
        /\ Goto(p, "install")
        /\ outrun' = (outrun \/ (target = call[p].exe
                                 /\ bin[target] \notin {NoFile, proc.file}))
        /\ UNCHANGED <<offers, staged, file, marker, proc, quit, ran, left, shared>>

\* Faulty variant: no marker is written.
Install_Unmarked(p) ==
    /\ At(p, "install")
    /\ \/ /\ StagedFile(p) # NoFile
          /\ bin' = [bin EXCEPT ![call[p].target] = StagedFile(p)]
          /\ staged' = Unstaged(p)
          /\ quit' = TRUE
       \/ StagedFile(p) = NoFile /\ UNCHANGED <<bin, staged, quit>>
    /\ Return(p)
    /\ UNCHANGED <<offers, file, marker, proc, ran, left, history>>

\* The staged file becomes the target.  A target that is not the running
\* binary's own name needs the marker; otherwise the daemon is stopped.
Install(p) ==
    LET c == call[p]
    IN  /\ At(p, "install")
        /\ \/ /\ StagedFile(p) # NoFile
              /\ bin' = [bin EXCEPT ![c.target] = StagedFile(p)]
              /\ staged' = Unstaged(p)
              /\ \/ c.target # c.exe /\ Goto(p, "open marker") /\ UNCHANGED quit
                 \/ c.target = c.exe /\ Return(p) /\ quit' = TRUE
           \/ /\ StagedFile(p) = NoFile
              /\ Return(p)
              /\ UNCHANGED <<bin, staged, quit>>
        /\ UNCHANGED <<offers, file, marker, proc, ran, left, history>>

\* The marker is written in place: cut to nothing, then filled.
OpenMarker(p) ==
    /\ At(p, "open marker")
    /\ marker' = NoMarker
    /\ Goto(p, "write marker")
    /\ UNCHANGED <<offers, bin, staged, file, proc, quit, ran, left, history>>

WriteMarker(p) ==
    /\ At(p, "write marker")
    /\ marker' = [ver |-> call[p].ver, path |-> call[p].target]
    /\ Return(p) /\ quit' = TRUE
    /\ UNCHANGED <<offers, bin, staged, file, proc, ran, left, history>>

Apply(p) ==
    \/ OpenStaged(p) \/ FillStaged(p) \/ VerifyStaged(p)
    \/ Preserve(p) \/ Install(p)
    \/ OpenMarker(p) \/ WriteMarker(p)

-----------------------------------------------------------------------------
(* I/O errors: the call returns, and only a failed rename of the target    *)
(* cleans up.  A short write goes on and is found by the second read.      *)

Fault ==
    /\ Mishap
    /\ UNCHANGED <<offers, bin, file, marker, proc, quit, ran, history>>

StepFails(p) ==
    /\ call[p].at \in Step \ {"idle", "preserve"}
    /\ Return(p)
    /\ UNCHANGED staged
    /\ Fault

PreserveFails(p) ==
    /\ At(p, "preserve") /\ bin[call[p].target] # NoFile
    /\ staged' = Unstaged(p)
    /\ Return(p)
    /\ Fault

WriteIsShort(p) ==
    /\ At(p, "fill")
    /\ Goto(p, "verify")
    /\ UNCHANGED staged
    /\ Fault

-----------------------------------------------------------------------------
(* The process and its supervisor                                          *)

Runs(f) == Whole(f) /\ file[f].exec

\* The supervisor starts the image.
Start ==
    /\ proc.st = "down"
    /\ Runs(bin[ImagePath])
    /\ proc' = [st |-> "booting", file |-> bin[ImagePath], handed |-> FALSE]
    /\ UNCHANGED <<offers, bin, staged, file, marker, call, quit, ran, left, history>>

\* `staged_replacement`: a marker above the running version whose path is a
\* file.
StagedReplacement ==
    /\ marker # NoMarker
    /\ bin[marker.path] # NoFile
    /\ Newer(marker.ver)

HandsOver == StagedReplacement /\ ~ proc.handed

\* `exec` of the staged binary; one that is not whole dies at once.
Handover ==
    LET f == bin[marker.path]
    IN  /\ proc.st = "booting" /\ HandsOver /\ file[f].exec
        /\ proc' = [st |-> IF file[f].whole THEN "booting" ELSE "down",
                    file |-> f, handed |-> TRUE]
        /\ UNCHANGED <<offers, bin, staged, file, marker, call, quit, ran, left, history>>

\* Every failure of the handover falls through to running this binary.
ComeUp ==
    /\ proc.st = "booting"
    /\ HandsOver => ~ file[bin[marker.path]].exec
    /\ proc' = [proc EXCEPT !.st = "up"]
    /\ ran' = Running
    /\ UNCHANGED <<offers, bin, staged, file, marker, call, quit, left, history>>

GoDown ==
    /\ proc' = [proc EXCEPT !.st = "down"]
    /\ asked' = {}
    /\ quit' = FALSE
    /\ outrun' = FALSE
    /\ UNCHANGED <<releases, fetched, files, ran, shared>>

\* `Command::Quit` ends the main loop; the runtime waits for a call of
\* `apply` that is under way.
Stop ==
    /\ proc.st = "up" /\ quit
    /\ InProgress = {}
    /\ GoDown
    /\ UNCHANGED <<call, left>>

Crash ==
    /\ proc.st # "down"
    /\ GoDown
    /\ call' = [p \in Applier |-> Idle]
    /\ Mishap

-----------------------------------------------------------------------------
Next ==
    \/ \E v \in Versions :
          Publish(v) \/ Withdraw(v) \/ ChunksArrive(v) \/ ApplyUpdate(v)
    \/ CollectChunks
    \/ CheckForUpdate
    \/ \E p \in Applier :
          Apply(p) \/ StepFails(p) \/ PreserveFails(p) \/ WriteIsShort(p)
    \/ Start \/ Handover \/ ComeUp \/ Stop \/ Crash

Spec == Init /\ [][Next]_vars

\* The check comes back every six hours, peers answer in the end, a call of
\* `apply` runs to its end, the main loop takes up `Quit`, and the supervisor
\* restarts what stopped.  The stop is strongly fair: a shutdown
\* takes half a minute, so the check cannot start over and over before it.
Fairness ==
    /\ WF_vars(CheckForUpdate)
    /\ \A v \in Versions : WF_vars(ChunksArrive(v))
    /\ \A p \in Applier : WF_vars(Apply(p))
    /\ WF_vars(Start) /\ WF_vars(Handover) /\ WF_vars(ComeUp)
    /\ SF_vars(Stop)

FairSpec == Spec /\ Fairness

-----------------------------------------------------------------------------
(* Properties                                                              *)

\* Whatever crashes, errors and other calls interrupt an update, a file at a
\* name that is about to be executed is whole and executable ("A half-written
\* binary must never occupy the path that is about to be executed"), unless
\* one call cut it while another was at work on the same staged file.
StartsAreWhole ==
    \A path \in {ImagePath, StatePath} :
        bin[path] # NoFile => Runs(bin[path]) \/ bin[path] \in shared

\* The running binary keeps a name, so that there is something to go back to
\* ("Keep the running binary"), unless a call kept in its place the binary that
\* another had installed since it began.
RunningIsKept == proc.st = "up" => HasName \/ outrun

\* A restart comes up with the version that ran before or a newer one, except
\* in a container whose staged binary was moved away and not replaced, or is
\* not whole.
NoDowngrade ==
    [][proc.st = "booting" /\ proc'.st = "up" =>
          Running >= ran \/ (container /\ ~ Runs(bin[StatePath]))]_vars

\* The supervisor has something to start, and the image to hand over to.
Startable ==
    /\ proc.st # "down" \/ Runs(bin[ImagePath])
    /\ proc.st = "booting" /\ HandsOver => Runs(bin[marker.path])

\* The node runs, nothing stops it, and nothing newer is offered.
Settled ==
    /\ proc.st = "up" /\ ~ quit /\ InProgress = {}
    /\ Candidates = {}

\* Unless the binary is lost, the node comes to rest on the newest release: no
\* "restart loop wearing the costume of an upgrade", no endless handover.
UpdatesSettle == [](Startable) => <>[]Settled

\* At every moment the path the supervisor executes holds the old binary or
\* the new one ("a concurrent exec sees the old inode or the new one, never a
\* partial file").
ExecSeesOldOrNew == Runs(bin[ImagePath])

=============================================================================

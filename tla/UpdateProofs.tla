---------------------------- MODULE UpdateProofs ----------------------------
(***************************************************************************)
(* Proofs about self-update, with the check's call of `apply` and the      *)
(* console's at work at the same time.  A call goes through many           *)
(* file-system steps, a crash can end it at any of them and the other call *)
(* can move names and files under it, so the invariant says at each step   *)
(* what a call may still rely on: the running binary's name only climbs    *)
(* (".previous" of ".previous"), a verified staged file is whole unless    *)
(* the other call opened it since, no staged file is one that can be       *)
(* started, and what can be started is no older than what ran.             *)
(***************************************************************************)
EXTENDS Update, SetFacts

\* The name a restart ends up with: in a container the staged binary's.
StartPath == IF container THEN StatePath ELSE ImagePath

\* A staged file has one name, under which its version is known; it is no
\* binary and not what runs.
StagedApart ==
    \A place \in Place, v \in Versions : staged[place][v] # NoFile =>
        /\ file[staged[place][v]].ver = v
        /\ \A path \in Path : bin[path] # staged[place][v]
        /\ proc.file # staged[place][v]
        /\ \A q \in Place, w \in Versions : staged[q][w] = staged[place][v] => q = place /\ w = v

\* A binary has one name.
BinApart ==
    \A path, other \in Path : bin[path] = bin[other] /\ bin[path] # NoFile => path = other

\* What a call of `apply` relies on that no other call can change.
Sound(c) ==
    /\ c \in Call /\ c.at # "idle" /\ c.target[2] < MaxSuffix
    /\ c.target # c.exe => /\ container /\ c.target = StatePath /\ c.exe[1] = "image"
                           /\ ran = 1 /\ proc.file = 1
    /\ container => c.target[1] = "state"
    /\ c.ver > ran
    /\ c.at = "fill" => c.fd # NoFile
    /\ c.at \in {"open marker", "write marker"} => c.target # c.exe

\* The running binary is at the name the call noted or at one derived from it,
\* and no longer at the target once that was moved aside.
Climbs(c) ==
    c.target = c.exe => \A path \in Path : bin[path] = proc.file =>
        /\ path[1] = c.exe[1] /\ path[2] >= c.exe[2]
        /\ c.at = "install" => path[2] > c.exe[2]

\* What the call verified is still there, is gone, or was cut by the other.
Ready(c) ==
    LET s == staged[c.target[1]][c.ver]
    IN  c.at \in {"preserve", "install"} => s = NoFile \/ Runs(s) \/ s \in shared

CallHolds(c) == Sound(c) /\ Climbs(c) /\ Ready(c)

CallsHold ==
    \A p \in Applier : call[p] # Idle => proc.st = "up" /\ CallHolds(call[p])

\* The process has a name, and what comes up is known.
ProcHolds ==
    /\ proc.st # "down" => HasName \/ outrun
    /\ proc.st = "up" => Running = ran
    /\ proc.st = "booting" /\ ~ proc.handed => proc.file = bin[ImagePath]
    /\ proc.st = "booting" /\ proc.handed => container /\ marker # NoMarker /\ proc.file = bin[StatePath]

\* The image of a container stays what it was, and only a container's node
\* that ran the image writes the marker.
MarkerHolds ==
    /\ container => file[1] = [ver |-> 1, whole |-> TRUE, exec |-> TRUE]
    /\ marker # NoMarker => container /\ marker.path = StatePath
    /\ container /\ marker = NoMarker => ran = 1

NoOlder == bin[StartPath] # NoFile => file[bin[StartPath]].ver >= ran

UpdateInv ==
    /\ TypeOK
    /\ IsFiniteSet(offered)
    /\ StagedApart
    /\ BinApart
    /\ StartsAreWhole
    /\ CallsHold
    /\ ProcHolds
    /\ MarkerHolds
    /\ NoOlder

-----------------------------------------------------------------------------
LEMMA Paths ==
    /\ ImagePath \in Path /\ StatePath \in Path /\ ImagePath # StatePath
    /\ \A path \in Path : path[2] < MaxSuffix =>
          Previous(path) \in Path /\ Previous(path) # path
          /\ Previous(path) # ImagePath /\ Previous(path) # StatePath
          /\ Previous(path)[1] = path[1] /\ Previous(path)[2] > path[2]
    /\ \A path \in Path : path[2] \in Nat
    /\ \A path, other \in Path : path[1] = other[1] /\ path[2] = other[2] => path = other
BY UpdateAssumption DEF ImagePath, StatePath, Path, Place, Previous

LEMMA NoInodeZero == 1 \in Inode /\ NoFile \notin Inode
BY UpdateAssumption DEF Inode, NoFile

LEMMA InitUpdate ==
    ASSUME Init PROVE UpdateInv
<1>0. 1 \in Inode /\ NoFile \notin Inode
  BY NoInodeZero
<1>1. TypeOK
  <2>1. bin \in [Path -> Inode \cup {NoFile}] /\ staged \in [Place -> [Versions -> Inode \cup {NoFile}]]
    BY <1>0 DEF Init
  <2>2. file \in [Inode -> File]
    BY DEF Init, File
  <2>3. proc \in [st : {"down", "booting", "up"}, file : Inode, handed : BOOLEAN]
    BY <1>0 DEF Init
  <2>4. left \in Budget
    BY UpdateAssumption DEF Init
  <2> QED
    BY <2>1, <2>2, <2>3, <2>4 DEF Init, TypeOK, Idle
<1>2. StagedApart /\ BinApart
  BY DEF Init, StagedApart, BinApart
<1>3. file[1] = [ver |-> 1, whole |-> TRUE, exec |-> TRUE] /\ bin[ImagePath] = 1 /\ bin[StatePath] = NoFile
  BY <1>0, Paths DEF Init
<1>4. StartsAreWhole
  BY <1>0, <1>3 DEF StartsAreWhole, Runs, Whole
<1>5. CallsHold
  BY DEF Init, CallsHold
<1>6. ProcHolds
  BY <1>3, Paths DEF Init, ProcHolds, HasName, Running
<1>7. MarkerHolds /\ NoOlder
  BY <1>3 DEF Init, MarkerHolds, NoOlder, StartPath
<1> QED
  BY <1>1, <1>2, <1>4, <1>5, <1>6, <1>7, FS_EmptySet DEF UpdateInv, Init

-----------------------------------------------------------------------------
(* Steps that touch neither files nor calls. *)

core == <<container, bin, staged, file, marker, proc, call, ran, shared, outrun>>

LEMMA CoreStands ==
    ASSUME UpdateInv, UNCHANGED core, TypeOK', IsFiniteSet(offered') PROVE UpdateInv'
<1>1. StagedApart' /\ BinApart' /\ StartsAreWhole'
  BY DEF core, UpdateInv, StagedApart, BinApart, StartsAreWhole, Runs, Whole
<1>2. CallsHold'
  <2>1. ASSUME NEW c, CallHolds(c) PROVE CallHolds(c)'
    BY <2>1 DEF core, CallHolds, Sound, Climbs, Ready, Runs, Whole
  <2>2. call' = call /\ proc' = proc /\ CallsHold
    BY DEF core, UpdateInv
  <2>3. ASSUME NEW p \in Applier, call[p] # Idle PROVE CallHolds(call[p])'
    <3>1. PICK c : c = call[p]
      OBVIOUS
    <3>2. CallHolds(c)'
      BY <2>1, <2>2, <2>3, <3>1 DEF CallsHold
    <3> QED BY <2>2, <3>1, <3>2
  <2> QED BY <2>2, <2>3 DEF CallsHold
<1>3. ProcHolds' /\ MarkerHolds' /\ NoOlder'
  BY DEF core, UpdateInv, ProcHolds, MarkerHolds, NoOlder, HasName, Running, StartPath
<1> QED
  BY <1>1, <1>2, <1>3 DEF UpdateInv

LEMMA MishapTyped ==
    ASSUME left \in Budget, Mishap PROVE left' \in Budget
BY DEF Mishap, Budget

LEMMA ReleasesKeep ==
    ASSUME UpdateInv,
           \/ \E v \in Versions : Publish(v) \/ Withdraw(v) \/ ChunksArrive(v)
           \/ CollectChunks
           \/ UNCHANGED vars
    PROVE  UpdateInv'
<1>1. TypeOK
  BY DEF UpdateInv
<1>2. UNCHANGED core /\ quit' = quit
  BY DEF core, Publish, Withdraw, ChunksArrive, CollectChunks, releases, files, history, vars
<1>3. left' \in Budget
  <2>1. ASSUME NEW v \in Versions, Publish(v) PROVE left' \in Budget
    BY <1>1, <2>1 DEF TypeOK, Publish, Budget
  <2>2. ASSUME NEW v \in Versions, Withdraw(v) \/ ChunksArrive(v) PROVE left' \in Budget
    BY <1>1, <2>2 DEF TypeOK, Withdraw, ChunksArrive
  <2>3. ASSUME CollectChunks PROVE left' \in Budget
    BY <1>1, <2>3, MishapTyped DEF TypeOK, CollectChunks
  <2> QED
    BY <1>1, <2>1, <2>2, <2>3 DEF TypeOK, vars
<1>4. /\ withdrawn' \subseteq offered' /\ offered' \subseteq Versions
      /\ asked' \subseteq offered' /\ fetched' \subseteq offered'
  BY <1>1 DEF TypeOK, Publish, Withdraw, ChunksArrive, CollectChunks, releases, vars, Offers
<1>5. TypeOK'
  BY <1>1, <1>2, <1>3, <1>4 DEF TypeOK, core
<1>6. IsFiniteSet(offered')
  BY FS_AddElement DEF UpdateInv, Publish, Withdraw, ChunksArrive, CollectChunks, releases, vars
<1> QED
  BY <1>2, <1>5, <1>6, CoreStands

-----------------------------------------------------------------------------
(* Steps of a call. *)

\* One call moves; the other must still be able to rely on what it did.
LEMMA CallMoves ==
    ASSUME UpdateInv, UNCHANGED <<container, proc, ran>>, proc.st = "up",
           NEW p \in Applier, NEW c, call' = [call EXCEPT ![p] = c],
           c # Idle => CallHolds(c)',
           \A d \in Call : Climbs(d) => Climbs(d)',
           \A q \in Applier, d \in Call : q # p /\ d = call[q] /\ Ready(d) => Ready(d)'
    PROVE  CallsHold'
<1>1. DOMAIN call = Applier /\ call'[p] = c /\ \A q \in Applier : q # p => call'[q] = call[q]
  BY DEF UpdateInv, TypeOK
<1>2. ASSUME NEW q \in Applier, q # p, call[q] # Idle PROVE CallHolds(call[q])'
  <2>1. PICK d : d = call[q]
    OBVIOUS
  <2>2. Sound(d) /\ Climbs(d) /\ Ready(d) /\ d \in Call
    BY <1>2, <2>1 DEF UpdateInv, CallsHold, CallHolds, Sound
  <2>3. Sound(d)'
    BY <2>2 DEF Sound
  <2>4. Climbs(d)' /\ Ready(d)'
    BY <1>2, <2>1, <2>2
  <2>5. CallHolds(d)'
    BY <2>3, <2>4 DEF CallHolds
  <2> QED
    BY <1>1, <1>2, <2>1, <2>5
<1>3. ASSUME NEW q \in Applier, call'[q] # Idle PROVE CallHolds(call[q])'
  <2>1. CASE q = p
    BY <1>1, <1>3, <2>1
  <2>2. CASE q # p
    BY <1>1, <1>2, <1>3, <2>2
  <2> QED BY <2>1, <2>2
<1> QED
  BY <1>3 DEF CallsHold

\* While the names of binaries stand, every call keeps its own.
LEMMA ClimbsStand ==
    ASSUME UNCHANGED <<bin, proc>> PROVE \A d \in Call : Climbs(d) => Climbs(d)'
BY DEF Climbs

\* A staged file that is verified stays so while files only become whole and
\* executable, and names of staged files only disappear.
LEMMA ReadyStands ==
    ASSUME UpdateInv, shared' = shared,
           \A i \in Inode : (file[i].whole => file'[i].whole) /\ (file[i].exec => file'[i].exec),
           \A q \in Place, w \in Versions : staged'[q][w] \in {NoFile, staged[q][w]}
    PROVE  \A d \in Call : Ready(d) => Ready(d)'
<1> SUFFICES ASSUME NEW d \in Call, Ready(d), d.at \in {"preserve", "install"} PROVE Ready(d)'
  BY DEF Ready
<1>1. PICK place, v : place = d.target[1] /\ v = d.ver /\ place \in Place /\ v \in Versions
  BY DEF Call, Path
<1>2. PICK s : s = staged[place][v] /\ (s = NoFile \/ Runs(s) \/ s \in shared)
  BY <1>1 DEF Ready
<1>3. s = NoFile \/ s \in Inode
  BY <1>1, <1>2 DEF UpdateInv, TypeOK
<1>4. Runs(s) => Runs(s)'
  BY <1>3 DEF Runs, Whole
<1>5. PICK t : t = staged'[place][v] /\ (t = NoFile \/ Runs(t)' \/ t \in shared')
  BY <1>1, <1>2, <1>4
<1> QED
  BY <1>1, <1>5 DEF Ready, Runs, Whole

\* A call is typed, and the same with another step.
LEMMA CallTyped ==
    ASSUME UpdateInv, NEW p \in Applier, call[p].at # "idle"
    PROVE  /\ call[p] # Idle /\ call[p] \in Call /\ CallHolds(call[p]) /\ proc.st = "up"
           /\ call[p].target \in Path /\ call[p].exe \in Path /\ call[p].target[1] \in Place
           /\ call[p].ver \in Versions
           /\ \A at \in Step : [call[p] EXCEPT !.at = at] \in Call
<1>1. call[p] # Idle
  BY DEF Idle
<1>2. call[p] \in Call /\ CallHolds(call[p]) /\ proc.st = "up"
  BY <1>1 DEF UpdateInv, CallsHold, CallHolds, Sound
<1> QED
  BY <1>1, <1>2 DEF Call, Path

LEMMA BestIsCandidate ==
    ASSUME UpdateInv, Candidates # {} PROVE Max(Candidates) \in Candidates
<1>1. Candidates \subseteq offered /\ IsFiniteSet(offered) /\ offered \subseteq Nat
  BY UpdateAssumption DEF Candidates, Offers, UpdateInv, TypeOK
<1>2. IsFiniteSet(Candidates) /\ Candidates \subseteq Nat
  BY <1>1, FS_Subset
<1>3. \E x \in Candidates : \A y \in Candidates : x >= y
  BY <1>2, GreatestExists
<1> QED
  BY <1>3 DEF Max

LEMMA AskKeeps ==
    ASSUME UpdateInv, NEW v \in offered, Ask(v), left' \in Budget
    PROVE  UpdateInv'
<1>1. UNCHANGED core /\ quit' = quit /\ offered' = offered /\ withdrawn' = withdrawn /\ fetched' = fetched
  BY DEF Ask, core, releases, files, history
<1>2. asked' \subseteq offered'
  BY <1>1 DEF Ask, UpdateInv, TypeOK
<1>3. TypeOK'
  BY <1>1, <1>2 DEF UpdateInv, TypeOK, core
<1> QED
  BY <1>1, <1>3, CoreStands DEF UpdateInv

\* The running binary is at the name the call notes, and in a container the
\* image is only ever run, never replaced.
LEMMA BeginKeeps ==
    ASSUME UpdateInv, proc.st = "up", NEW p \in Applier, NEW v, Begin(p, v), left' \in Budget
    PROVE  UpdateInv'
<1>0. PICK c : c = [at |-> "write", ver |-> v, exe |-> Exe, target |-> Target, fd |-> NoFile]
  OBVIOUS
<1>1. TypeOK
  BY DEF UpdateInv
<1>2. /\ call' = [call EXCEPT ![p] = c] /\ v \in Versions /\ v > Running /\ Target[2] < MaxSuffix /\ HasName
      /\ UNCHANGED <<container, offered, withdrawn, asked, fetched, bin, staged, file, marker, proc, quit, ran,
                     shared, outrun>>
  BY <1>0, <1>1 DEF Begin, Newer, releases, files, history, TypeOK
<1>4. Exe \in Path /\ bin[Exe] = proc.file
  BY <1>2 DEF Exe, HasName
<1>5. Target \in Path /\ (container => Target[1] = "state")
  BY <1>4, Paths DEF Target, StatePath, Path, Place
<1>6. Running = ran
  BY DEF UpdateInv, ProcHolds
<1>7. Target # Exe => container /\ Target = StatePath /\ Exe[1] = "image" /\ ran = 1 /\ proc.file = 1
  <2> SUFFICES ASSUME Target # Exe
               PROVE  container /\ Target = StatePath /\ Exe[1] = "image" /\ ran = 1 /\ proc.file = 1
    OBVIOUS
  <2>1. container /\ Target = StatePath /\ Exe[1] = "image"
    BY DEF Target
  <2>2. proc.file = 1
    BY <1>1, <1>4, <2>1, UpdateAssumption DEF TypeOK, Inode, NoFile
  <2> QED
    BY <1>6, <2>1, <2>2 DEF Running, UpdateInv, MarkerHolds
<1>8. c \in Call /\ c.at = "write" /\ c.ver = v /\ c.exe = Exe /\ c.target = Target
  BY <1>0, <1>2, <1>4, <1>5 DEF Call, Step
<1>9. CallHolds(c)'
  <2>1. Sound(c)'
    BY <1>2, <1>5, <1>6, <1>7, <1>8 DEF Sound
  <2>2. \A path \in Path : bin[path] = proc.file => path = Exe
    BY <1>1, <1>4, NoInodeZero DEF UpdateInv, BinApart, TypeOK
  <2>3. Climbs(c)'
    BY <1>2, <1>4, <1>8, <2>2, Paths DEF Climbs
  <2>4. Ready(c)'
    BY <1>8 DEF Ready
  <2> QED BY <2>1, <2>3, <2>4 DEF CallHolds
<1>12. CallsHold'
  <2>1. \A d \in Call : Climbs(d) => Climbs(d)'
    BY <1>2, ClimbsStand
  <2>2. \A d \in Call : Ready(d) => Ready(d)'
    BY <1>2 DEF Ready, Runs, Whole
  <2> QED
    BY <1>2, <1>9, <2>1, <2>2, CallMoves
<1>13. TypeOK'
  <2>1. DOMAIN call' = Applier /\ \A q \in Applier : call'[q] = Idle \/ call'[q] \in Call
    BY <1>1, <1>2, <1>8 DEF TypeOK, Idle
  <2> QED
    BY <1>1, <1>2, <2>1 DEF TypeOK, Idle
<1>14. StagedApart' /\ BinApart' /\ StartsAreWhole'
  BY <1>2 DEF UpdateInv, StagedApart, BinApart, StartsAreWhole, Runs, Whole
<1>15. ProcHolds' /\ MarkerHolds' /\ NoOlder'
  BY <1>2 DEF UpdateInv, ProcHolds, MarkerHolds, NoOlder, HasName, Running, StartPath
<1> QED
  BY <1>2, <1>12, <1>13, <1>14, <1>15 DEF UpdateInv

LEMMA RequestsKeep ==
    ASSUME UpdateInv, CheckForUpdate \/ \E v \in Versions : ApplyUpdate(v)
    PROVE  UpdateInv'
<1>1. left \in Budget
  BY DEF UpdateInv, TypeOK
<1>2. CASE CheckForUpdate
  <2>1. Max(Candidates) \in offered
    BY <1>2, BestIsCandidate DEF CheckForUpdate, Candidates, Offers
  <2> QED
    BY <1>1, <1>2, <2>1, AskKeeps, BeginKeeps DEF CheckForUpdate, Applier
<1>3. ASSUME NEW v \in Versions, ApplyUpdate(v) PROVE UpdateInv'
  <2>1. left' \in Budget
    BY <1>1, <1>3 DEF ApplyUpdate, Budget
  <2> QED
    BY <1>3, <2>1, AskKeeps, BeginKeeps DEF ApplyUpdate, Offers, Applier
<1> QED
  BY <1>2, <1>3

\* What the steps on a staged file leave alone.
stage == <<container, offered, withdrawn, asked, fetched, bin, marker, proc, ran, outrun>>

\* A step on files that leaves the binaries' names alone and no binary worse
\* changes nothing for the process or for what can be started.
LEMMA NamedFilesStand ==
    ASSUME UpdateInv, UNCHANGED stage, file' \in [Inode -> File],
           \A path \in Path : bin[path] # NoFile =>
              /\ file'[bin[path]].ver = file[bin[path]].ver
              /\ file[bin[path]].whole => file'[bin[path]].whole
              /\ file[bin[path]].exec => file'[bin[path]].exec
              /\ bin[path] \in shared => bin[path] \in shared',
           file'[proc.file].ver = file[proc.file].ver
    PROVE  StartsAreWhole' /\ BinApart' /\ ProcHolds' /\ MarkerHolds' /\ NoOlder' /\ IsFiniteSet(offered')
<1>1. StartsAreWhole' /\ NoOlder'
  BY Paths DEF UpdateInv, StartsAreWhole, NoOlder, StartPath, Runs, Whole, stage
<1>2. ProcHolds' /\ BinApart'
  BY DEF UpdateInv, ProcHolds, HasName, Running, BinApart, stage
<1>3. container => file'[1] = [ver |-> 1, whole |-> TRUE, exec |-> TRUE]
  <2> SUFFICES ASSUME container PROVE file'[1] = [ver |-> 1, whole |-> TRUE, exec |-> TRUE]
    OBVIOUS
  <2>1. bin[ImagePath] = 1 /\ 1 \in Inode /\ 1 # NoFile
    BY Paths, NoInodeZero DEF UpdateInv, TypeOK, ImagePath, NoFile
  <2>2. file[1] = [ver |-> 1, whole |-> TRUE, exec |-> TRUE]
    BY DEF UpdateInv, MarkerHolds
  <2>3. file'[1] \in File /\ file'[1].ver = 1 /\ file'[1].whole = TRUE /\ file'[1].exec = TRUE
    BY <2>1, <2>2, Paths DEF File
  <2> QED
    BY <2>3 DEF File
<1>4. MarkerHolds'
  BY <1>3 DEF UpdateInv, MarkerHolds, stage
<1> QED
  BY <1>1, <1>2, <1>4 DEF UpdateInv, stage

\* The rest of the type invariant of such a step.
LEMMA StageTyped ==
    ASSUME UpdateInv, UNCHANGED stage, left' \in Budget, quit' \in BOOLEAN, file' \in [Inode -> File],
           shared' \subseteq Inode, staged' \in [Place -> [Versions -> Inode \cup {NoFile}]],
           NEW p \in Applier, NEW c, call' = [call EXCEPT ![p] = c], c = Idle \/ c \in Call
    PROVE  TypeOK'
<1>1. DOMAIN call' = Applier /\ \A q \in Applier : call'[q] = Idle \/ call'[q] \in Call
  BY DEF UpdateInv, TypeOK, Idle
<1> QED
  BY <1>1 DEF UpdateInv, TypeOK, Idle, stage

\* The file that `fs::write` opens is no binary and not what runs.
LEMMA OpenedFile ==
    ASSUME UpdateInv, NEW p \in Applier, OpenStaged(p)
    PROVE  \E f \in Inode :
              /\ f = IF StagedFile(p) = NoFile THEN FreeFile ELSE StagedFile(p)
              /\ proc.file # f
              /\ \A path \in Path : bin[path] # f
              /\ \A q \in Place, w \in Versions :
                    staged[q][w] = f => q = call[p].target[1] /\ w = call[p].ver
<1>1. call[p].at # "idle" /\ (StagedFile(p) = NoFile => Inode \ InUse # {})
  BY DEF OpenStaged, At
<1>2. call[p].target[1] \in Place /\ call[p].ver \in Versions
  BY <1>1, CallTyped
<1>3. CASE StagedFile(p) = NoFile
  <2>1. FreeFile \in Inode /\ FreeFile \notin InUse
    BY <1>1, <1>3 DEF FreeFile
  <2>2. proc.file # FreeFile /\ \A path \in Path : bin[path] # FreeFile
    <3>1. proc.file \in InUse
      BY DEF InUse
    <3>2. ASSUME NEW path \in Path PROVE bin[path] \in InUse
      <4>1. bin[path] \in {bin[x] : x \in Path}
        OBVIOUS
      <4> QED BY <4>1 DEF InUse
    <3> QED BY <2>1, <3>1, <3>2
  <2>3. ASSUME NEW q \in Place, NEW w \in Versions PROVE staged[q][w] # FreeFile
    <3>1. staged[q][w] \in {staged[q][x] : x \in Versions}
      OBVIOUS
    <3>2. staged[q][w] \in UNION {{staged[place][x] : x \in Versions} : place \in Place}
      BY <3>1
    <3> QED
      BY <2>1, <3>2 DEF InUse
  <2> QED
    BY <1>3, <2>1, <2>2, <2>3
<1>4. CASE StagedFile(p) # NoFile
  <2>1. StagedFile(p) \in Inode
    BY <1>2, <1>4 DEF UpdateInv, TypeOK, StagedFile
  <2> QED
    BY <1>2, <1>4, <2>1 DEF StagedFile, UpdateInv, StagedApart
<1> QED
  BY <1>3, <1>4

\* The only other call that can have verified the file is a twin's, and then
\* the file counts as shared.
LEMMA OpenStagedKeeps ==
    ASSUME UpdateInv, NEW p \in Applier, OpenStaged(p) PROVE UpdateInv'
<1>1. PICK f \in Inode :
        /\ f = IF StagedFile(p) = NoFile THEN FreeFile ELSE StagedFile(p)
        /\ proc.file # f
        /\ \A path \in Path : bin[path] # f
        /\ \A q \in Place, w \in Versions :
              staged[q][w] = f => q = call[p].target[1] /\ w = call[p].ver
  BY OpenedFile
<1>2. call[p].at = "write" /\ UNCHANGED stage /\ UNCHANGED <<quit, left>>
  BY DEF OpenStaged, At, stage, offers
<1>3. PICK c, b : /\ c = [call[p] EXCEPT !.at = "fill", !.fd = f] /\ b \in BOOLEAN
                  /\ b <=> StagedFile(p) # NoFile /\ file[f].exec
  OBVIOUS
<1>4. PICK place, v : place = call[p].target[1] /\ v = call[p].ver /\ place \in Place /\ v \in Versions
  BY <1>2, CallTyped
<1>5. /\ call' = [call EXCEPT ![p] = c]
      /\ staged' = [staged EXCEPT ![place][v] = f]
      /\ file' = [file EXCEPT ![f] = [ver |-> v, whole |-> FALSE, exec |-> b]]
      /\ shared' = IF Twin(p) THEN shared \cup {f} ELSE shared \ {f}
  BY <1>1, <1>2, <1>3, <1>4 DEF OpenStaged
<1>6. /\ c \in Call /\ c.at = "fill" /\ c.fd = f /\ c.ver = v /\ c.target[1] = place
      /\ c.target = call[p].target /\ c.exe = call[p].exe
  <2>1. call[p] \in Call
    BY <1>2, CallTyped
  <2> QED
    BY <1>3, <1>4, <2>1 DEF Call, Step
<1>7. /\ file' \in [Inode -> File] /\ file'[f] = [ver |-> v, whole |-> FALSE, exec |-> b]
      /\ \A i \in Inode : i # f => file'[i] = file[i]
  BY <1>3, <1>4, <1>5 DEF UpdateInv, TypeOK, File
<1>8. /\ staged' \in [Place -> [Versions -> Inode \cup {NoFile}]]
      /\ staged'[place][v] = f
      /\ \A q \in Place, w \in Versions : (q = place /\ w = v) \/ staged'[q][w] = staged[q][w]
  BY <1>4, <1>5 DEF UpdateInv, TypeOK
<1>9. shared' \subseteq Inode /\ (Twin(p) => f \in shared') /\ \A i : i # f => (i \in shared' <=> i \in shared)
  BY <1>5 DEF UpdateInv, TypeOK
<1>10. TypeOK'
  <2>1. left' \in Budget /\ quit' \in BOOLEAN
    BY <1>2 DEF UpdateInv, TypeOK
  <2> QED
    BY <1>2, <1>5, <1>6, <1>7, <1>8, <1>9, <2>1, StageTyped
<1>11. StartsAreWhole' /\ BinApart' /\ ProcHolds' /\ MarkerHolds' /\ NoOlder' /\ IsFiniteSet(offered')
  <2>1. \A path \in Path : bin[path] # NoFile =>
           file'[bin[path]] = file[bin[path]] /\ (bin[path] \in shared => bin[path] \in shared')
    BY <1>1, <1>7, <1>9 DEF UpdateInv, TypeOK
  <2>2. file'[proc.file] = file[proc.file]
    BY <1>1, <1>7 DEF UpdateInv, TypeOK
  <2> QED
    BY <1>2, <1>7, <2>1, <2>2, NamedFilesStand
<1>12. StagedApart'
  <2> SUFFICES ASSUME NEW q \in Place, NEW w \in Versions, staged'[q][w] # NoFile
               PROVE  /\ file'[staged'[q][w]].ver = w
                      /\ \A path \in Path : bin[path] # staged'[q][w]
                      /\ proc.file # staged'[q][w]
                      /\ \A r \in Place, x \in Versions :
                            staged'[r][x] = staged'[q][w] => r = q /\ x = w
    BY <1>2 DEF StagedApart, stage
  <2>1. CASE q = place /\ w = v
    <3>1. staged'[q][w] = f /\ file'[f].ver = w
      BY <1>7, <1>8, <2>1
    <3>2. \A r \in Place, x \in Versions : staged'[r][x] = f => r = place /\ x = v
      BY <1>1, <1>4, <1>8
    <3> QED BY <1>1, <2>1, <3>1, <3>2
  <2>2. CASE ~ (q = place /\ w = v)
    <3>1. staged'[q][w] = staged[q][w] /\ staged[q][w] \in Inode /\ staged[q][w] # f
      BY <1>1, <1>4, <1>8, <2>2 DEF UpdateInv, TypeOK
    <3>2. file'[staged[q][w]] = file[staged[q][w]]
      BY <1>7, <3>1
    <3> QED
      BY <1>8, <3>1, <3>2 DEF UpdateInv, StagedApart
  <2> QED
    BY <2>1, <2>2
<1>13. CallHolds(c)'
  <2>1. Sound(call[p]) /\ Climbs(call[p]) /\ f # NoFile
    BY <1>2, CallTyped, NoInodeZero DEF CallHolds
  <2>2. Sound(c)'
    <3>1. UNCHANGED <<container, proc, ran>>
      BY <1>2 DEF stage
    <3>2. call[p].ver = v
      BY <1>4
    <3> QED
      BY <1>6, <2>1, <3>1, <3>2 DEF Sound
  <2>3. Climbs(c)'
    BY <1>2, <1>6, <2>1 DEF Climbs, stage
  <2>4. Ready(c)'
    BY <1>6 DEF Ready
  <2> QED
    BY <2>2, <2>3, <2>4 DEF CallHolds
<1>14. ASSUME NEW q \in Applier, NEW d \in Call, q # p, d = call[q], Ready(d) PROVE Ready(d)'
  <2> SUFFICES ASSUME d.at \in {"preserve", "install"} PROVE Ready(d)'
    BY DEF Ready
  <2>1. PICK r, x : r = d.target[1] /\ x = d.ver /\ r \in Place /\ x \in Versions
    BY DEF Call, Path
  <2>2. CASE r = place /\ x = v
    <3>1. Twin(p)
      BY <1>4, <1>14, <2>1, <2>2 DEF Twin
    <3> QED
      BY <1>8, <1>9, <2>1, <2>2, <3>1 DEF Ready
  <2>3. CASE ~ (r = place /\ x = v)
    <3>1. PICK s : s = staged[r][x] /\ (s = NoFile \/ Runs(s) \/ s \in shared)
      BY <1>14, <2>1 DEF Ready
    <3>2. s # f /\ (s = NoFile \/ s \in Inode) /\ staged'[r][x] = s
      BY <1>1, <1>4, <1>8, <2>1, <2>3, <3>1 DEF UpdateInv, TypeOK
    <3>3. s = NoFile \/ Runs(s)' \/ s \in shared'
      BY <1>7, <1>9, <3>1, <3>2 DEF Runs, Whole
    <3> QED
      BY <2>1, <3>2, <3>3 DEF Ready, Runs, Whole
  <2> QED
    BY <2>2, <2>3
<1>15. CallsHold'
  <2>1. \A d \in Call : Climbs(d) => Climbs(d)'
    BY <1>2, ClimbsStand DEF stage
  <2>2. UNCHANGED <<container, proc, ran>> /\ proc.st = "up"
    BY <1>2, CallTyped DEF stage
  <2> QED
    BY <1>5, <1>13, <1>14, <2>1, <2>2, CallMoves
<1> QED
  BY <1>10, <1>11, <1>12, <1>15 DEF UpdateInv

\* A step that only makes files whole or executable, or forgets a staged file,
\* and moves or ends the call.
LEMMA QuietStep ==
    ASSUME UpdateInv, UNCHANGED stage, left' \in Budget, quit' \in BOOLEAN, shared' = shared,
           file' \in [Inode -> File],
           \A i \in Inode : /\ file'[i].ver = file[i].ver
                            /\ file[i].whole => file'[i].whole
                            /\ file[i].exec => file'[i].exec,
           staged' \in [Place -> [Versions -> Inode \cup {NoFile}]],
           \A q \in Place, w \in Versions : staged'[q][w] \in {NoFile, staged[q][w]},
           NEW p \in Applier, call[p].at # "idle", NEW c, call' = [call EXCEPT ![p] = c],
           c # Idle => CallHolds(c)'
    PROVE  UpdateInv'
<1>1. UNCHANGED <<container, proc, ran, bin>> /\ proc.st = "up"
  BY CallTyped DEF stage
<1>2. c = Idle \/ c \in Call
  BY DEF CallHolds, Sound
<1>3. TypeOK'
  BY <1>2, StageTyped DEF UpdateInv, TypeOK
<1>4. StartsAreWhole' /\ BinApart' /\ ProcHolds' /\ MarkerHolds' /\ NoOlder' /\ IsFiniteSet(offered')
  <2>1. proc.file \in Inode /\ \A path \in Path : bin[path] # NoFile => bin[path] \in Inode
    BY DEF UpdateInv, TypeOK
  <2> QED
    BY <2>1, NamedFilesStand
<1>5. StagedApart'
  <2> SUFFICES ASSUME NEW q \in Place, NEW w \in Versions, staged'[q][w] # NoFile
               PROVE  /\ file'[staged'[q][w]].ver = w
                      /\ \A path \in Path : bin[path] # staged'[q][w]
                      /\ proc.file # staged'[q][w]
                      /\ \A r \in Place, x \in Versions :
                            staged'[r][x] = staged'[q][w] => r = q /\ x = w
    BY DEF StagedApart, stage
  <2>1. staged'[q][w] = staged[q][w] /\ staged[q][w] \in Inode /\ staged[q][w] # NoFile
    BY DEF UpdateInv, TypeOK
  <2>2. \A r \in Place, x \in Versions : staged'[r][x] = staged'[q][w] => staged[r][x] = staged[q][w]
    BY <2>1
  <2> QED
    BY <2>1, <2>2 DEF UpdateInv, StagedApart
<1>6. CallsHold'
  <2>1. \A d \in Call : Climbs(d) => Climbs(d)'
    BY <1>1, ClimbsStand
  <2>2. \A d \in Call : Ready(d) => Ready(d)'
    BY ReadyStands
  <2> QED
    BY <1>1, <2>1, <2>2, CallMoves
<1> QED
  BY <1>3, <1>4, <1>5, <1>6 DEF UpdateInv

\* The call of p goes on at another step, as c.
GoneOn(p, at, c) ==
    /\ call' = [call EXCEPT ![p] = c]
    /\ c.at = at /\ c.ver = call[p].ver /\ c.exe = call[p].exe
    /\ c.target = call[p].target

LEMMA GoesOn ==
    ASSUME UpdateInv, NEW p \in Applier, call[p].at # "idle", NEW at \in Step, Goto(p, at)
    PROVE  \E c \in Call : GoneOn(p, at, c)
<1>1. call[p] \in Call /\ [call[p] EXCEPT !.at = at] \in Call
  BY CallTyped
<1> QED
  BY <1>1 DEF Goto, Call, GoneOn

\* Going on, a call keeps what it relied on; what the new step relies on
\* besides must be shown.
LEMMA GoneOnHolds ==
    ASSUME UpdateInv, NEW p \in Applier, call[p].at # "idle", UNCHANGED <<container, proc, ran>>,
           NEW at, at \in {"verify", "preserve", "install", "open marker", "write marker"},
           NEW c \in Call, GoneOn(p, at, c),
           at \in {"open marker", "write marker"} => c.target # c.exe
    PROVE  Sound(c)' /\ (bin' = bin /\ at # "install" => Climbs(c)')
<1>1. Sound(call[p]) /\ Climbs(call[p])
  BY CallTyped DEF CallHolds
<1>2. Sound(c)'
  BY <1>1 DEF Sound, GoneOn
<1>3. bin' = bin /\ at # "install" => Climbs(c)'
  BY <1>1 DEF Climbs, GoneOn
<1> QED
  BY <1>2, <1>3

LEMMA FillStagedKeeps ==
    ASSUME UpdateInv, NEW p \in Applier, FillStaged(p) PROVE UpdateInv'
<1>1. /\ call[p].at = "fill" /\ UNCHANGED stage /\ UNCHANGED <<quit, left, staged, shared>>
      /\ Goto(p, "verify")
  BY DEF FillStaged, At, stage, offers, history
<1>2. CallHolds(call[p]) /\ call[p] \in Call
  BY <1>1, CallTyped
<1>3. PICK f : f = call[p].fd /\ f \in Inode
  BY <1>1, <1>2 DEF CallHolds, Sound, Call
<1>4. file' = [file EXCEPT ![f].whole = TRUE] /\ file \in [Inode -> File]
  BY <1>3 DEF FillStaged, UpdateInv, TypeOK
<1>5. /\ file' \in [Inode -> File]
      /\ \A i \in Inode : /\ file'[i].ver = file[i].ver
                          /\ file[i].whole => file'[i].whole
                          /\ file[i].exec => file'[i].exec
  BY <1>3, <1>4 DEF File
<1>6. PICK c \in Call : GoneOn(p, "verify", c)
  BY <1>1, GoesOn DEF Step
<1>7. CallHolds(c)'
  <2>1. Sound(c)' /\ Climbs(c)'
    BY <1>1, <1>6, GoneOnHolds DEF stage
  <2>2. Ready(c)'
    BY <1>6 DEF Ready, GoneOn
  <2> QED BY <2>1, <2>2 DEF CallHolds
<1>8. /\ staged' \in [Place -> [Versions -> Inode \cup {NoFile}]] /\ quit' \in BOOLEAN /\ left' \in Budget
      /\ \A q \in Place, w \in Versions : staged'[q][w] \in {NoFile, staged[q][w]}
  BY <1>1 DEF UpdateInv, TypeOK
<1> QED
  BY <1>1, <1>5, <1>6, <1>7, <1>8, QuietStep DEF GoneOn

\* A staged file's name is removed.
LEMMA UnstagedShrinks ==
    ASSUME UpdateInv, NEW p \in Applier, call[p].at # "idle"
    PROVE  /\ Unstaged(p) \in [Place -> [Versions -> Inode \cup {NoFile}]]
           /\ Unstaged(p)[call[p].target[1]][call[p].ver] = NoFile
           /\ \A q \in Place, w \in Versions :
                 \/ Unstaged(p)[q][w] = staged[q][w]
                 \/ q = call[p].target[1] /\ w = call[p].ver /\ Unstaged(p)[q][w] = NoFile
<1>1. call[p].target[1] \in Place /\ call[p].ver \in Versions
  BY CallTyped
<1> QED
  BY <1>1 DEF Unstaged, UpdateInv, TypeOK

\* The call ends: what is staged stays, or its name is removed.
LEMMA ReturnKeeps ==
    ASSUME UpdateInv, NEW p \in Applier, call[p].at # "idle", Return(p),
           UNCHANGED stage, UNCHANGED <<file, quit, shared>>, left' \in Budget,
           staged' = staged \/ staged' = Unstaged(p)
    PROVE  UpdateInv'
<1>1. /\ staged' \in [Place -> [Versions -> Inode \cup {NoFile}]]
      /\ \A q \in Place, w \in Versions : staged'[q][w] \in {NoFile, staged[q][w]}
  BY UnstagedShrinks DEF UpdateInv, TypeOK
<1>2. /\ file' \in [Inode -> File] /\ quit' \in BOOLEAN
      /\ \A i \in Inode : /\ file'[i].ver = file[i].ver
                          /\ file[i].whole => file'[i].whole
                          /\ file[i].exec => file'[i].exec
  BY DEF UpdateInv, TypeOK
<1> QED
  BY <1>1, <1>2, QuietStep DEF Return

LEMMA VerifyStagedKeeps ==
    ASSUME UpdateInv, NEW p \in Applier, VerifyStaged(p) PROVE UpdateInv'
<1>1. call[p].at = "verify" /\ UNCHANGED stage /\ UNCHANGED <<quit, left, shared>>
  BY DEF VerifyStaged, At, stage, offers, history
<1>2. left' \in Budget /\ quit' \in BOOLEAN
  BY <1>1 DEF UpdateInv, TypeOK
<1>3. CASE staged' = Unstaged(p) /\ Return(p) /\ UNCHANGED file
  BY <1>1, <1>2, <1>3, ReturnKeeps
<1>4. CASE /\ Whole(StagedFile(p)) /\ file' = [file EXCEPT ![StagedFile(p)].exec = TRUE]
           /\ Goto(p, "preserve") /\ UNCHANGED staged
  <2> DEFINE g == StagedFile(p)
  <2>a. call[p].target[1] \in Place /\ call[p].ver \in Versions
    BY <1>1, CallTyped
  <2>b. g \in Inode \cup {NoFile}
    BY <2>a DEF StagedFile, UpdateInv, TypeOK
  <2>c. g # NoFile
    BY <1>4 DEF Whole
  <2>1. PICK f : f = StagedFile(p) /\ f \in Inode /\ f # NoFile
    BY <2>b, <2>c
  <2> HIDE DEF g
  <2>2. file' = [file EXCEPT ![f].exec = TRUE] /\ file[f].whole /\ file \in [Inode -> File]
    BY <1>4, <2>1 DEF Whole, UpdateInv, TypeOK
  <2>3. /\ file' \in [Inode -> File]
        /\ \A i \in Inode : /\ file'[i].ver = file[i].ver
                            /\ file[i].whole => file'[i].whole
                            /\ file[i].exec => file'[i].exec
        /\ file'[f].whole /\ file'[f].exec
    BY <2>1, <2>2 DEF File
  <2>4. PICK c \in Call : GoneOn(p, "preserve", c)
    BY <1>1, <1>4, GoesOn DEF Step
  <2>5. CallHolds(c)'
    <3>1. Sound(c)' /\ Climbs(c)'
      BY <1>1, <2>4, GoneOnHolds DEF stage
    <3>2. staged'[c.target[1]][c.ver] = f
      BY <1>4, <2>1, <2>4 DEF StagedFile, GoneOn
    <3>3. Ready(c)'
      BY <2>1, <2>3, <3>2 DEF Ready, Runs, Whole
    <3> QED
      BY <3>1, <3>3 DEF CallHolds
  <2>6. /\ staged' \in [Place -> [Versions -> Inode \cup {NoFile}]]
        /\ \A q \in Place, w \in Versions : staged'[q][w] \in {NoFile, staged[q][w]}
    BY <1>4 DEF UpdateInv, TypeOK
  <2> QED
    BY <1>1, <1>2, <2>3, <2>4, <2>5, <2>6, QuietStep DEF GoneOn
<1> QED
  BY <1>3, <1>4 DEF VerifyStaged

LEMMA FaultsKeep ==
    ASSUME UpdateInv, NEW p \in Applier, StepFails(p) \/ PreserveFails(p) \/ WriteIsShort(p)
    PROVE  UpdateInv'
<1>1. UNCHANGED stage /\ UNCHANGED <<file, quit, shared>> /\ call[p].at # "idle"
  BY DEF StepFails, PreserveFails, WriteIsShort, Fault, stage, offers, history, At
<1>2. left' \in Budget /\ quit' \in BOOLEAN
  BY <1>1, MishapTyped DEF UpdateInv, TypeOK, StepFails, PreserveFails, WriteIsShort, Fault
<1>3. CASE StepFails(p) \/ PreserveFails(p)
  BY <1>1, <1>2, <1>3, ReturnKeeps DEF StepFails, PreserveFails
<1>4. CASE WriteIsShort(p)
  <2>1. PICK c \in Call : GoneOn(p, "verify", c)
    BY <1>1, <1>4, GoesOn DEF Step, WriteIsShort
  <2>2. staged' = staged
    BY <1>4 DEF WriteIsShort
  <2>3. CallHolds(c)'
    <3>1. Sound(c)' /\ Climbs(c)'
      BY <1>1, <2>1, GoneOnHolds DEF stage
    <3>2. Ready(c)'
      BY <2>1 DEF Ready, GoneOn
    <3> QED BY <3>1, <3>2 DEF CallHolds
  <2>4. /\ staged' \in [Place -> [Versions -> Inode \cup {NoFile}]]
        /\ \A q \in Place, w \in Versions : staged'[q][w] \in {NoFile, staged[q][w]}
        /\ file' \in [Inode -> File]
        /\ \A i \in Inode : /\ file'[i].ver = file[i].ver
                            /\ file[i].whole => file'[i].whole
                            /\ file[i].exec => file'[i].exec
    BY <1>1, <2>2 DEF UpdateInv, TypeOK
  <2> QED
    BY <1>1, <1>2, <2>1, <2>3, <2>4, QuietStep DEF GoneOn
<1> QED
  BY <1>3, <1>4

\* A step that moves names of binaries while the process is up: what its
\* effect on the names must be.
LEMMA NamesMove ==
    ASSUME UpdateInv, proc.st = "up",
           UNCHANGED <<container, offered, withdrawn, asked, fetched, file, marker, proc, ran, left, shared>>,
           quit' \in BOOLEAN, outrun' \in BOOLEAN,
           bin' \in [Path -> Inode \cup {NoFile}],
           container => \A path \in Path : path[1] = "image" => bin'[path] = bin[path],
           HasName' \/ outrun',
           \A path \in {ImagePath, StatePath} :
              \/ bin'[path] \in {NoFile, bin[path]}
              \/ (Runs(bin'[path]) \/ bin'[path] \in shared) /\ file[bin'[path]].ver >= ran,
           staged' \in [Place -> [Versions -> Inode \cup {NoFile}]],
           \A q \in Place, w \in Versions : staged'[q][w] \in {NoFile, staged[q][w]},
           StagedApart', BinApart', \A d \in Call : Climbs(d) => Climbs(d)',
           NEW p \in Applier, call[p].at # "idle", NEW c, call' = [call EXCEPT ![p] = c],
           c # Idle => CallHolds(c)'
    PROVE  UpdateInv'
<1>1. CallsHold'
  <2>1. \A d \in Call : Ready(d) => Ready(d)'
    BY ReadyStands
  <2> QED
    BY <2>1, CallMoves
<1>2. c = Idle \/ c \in Call
  BY DEF CallHolds, Sound
<1>3. TypeOK'
  <2>1. DOMAIN call' = Applier /\ \A q \in Applier : call'[q] = Idle \/ call'[q] \in Call
    BY <1>2 DEF UpdateInv, TypeOK, Idle
  <2>2. container => \A path \in Path : path[1] = "image" =>
                        bin'[path] = IF path = ImagePath THEN 1 ELSE NoFile
    BY DEF UpdateInv, TypeOK
  <2> QED
    BY <2>1, <2>2 DEF UpdateInv, TypeOK, Idle
<1>4. StartsAreWhole'
  BY DEF UpdateInv, StartsAreWhole, Runs, Whole
<1>5. NoOlder'
  BY DEF UpdateInv, NoOlder, StartPath
<1>6. ProcHolds' /\ MarkerHolds'
  BY DEF UpdateInv, ProcHolds, MarkerHolds, Running
<1> QED
  BY <1>1, <1>3, <1>4, <1>5, <1>6 DEF UpdateInv

\* A call whose target is not its own binary runs a container's image, whose
\* name nothing moves.
LEMMA ImageRuns ==
    ASSUME UpdateInv, NEW p \in Applier, call[p].at # "idle", call[p].target # call[p].exe
    PROVE  container /\ call[p].target = StatePath /\ proc.file = 1 /\ bin[ImagePath] = 1
<1>1. Sound(call[p])
  BY CallTyped DEF CallHolds
<1> QED
  BY <1>1, Paths DEF Sound, UpdateInv, TypeOK, ImagePath

LEMMA PreserveKeeps ==
    ASSUME UpdateInv, NEW p \in Applier, Preserve(p) PROVE UpdateInv'
<1>1. /\ call[p].at = "preserve" /\ Goto(p, "install")
      /\ UNCHANGED <<container, offered, withdrawn, asked, fetched, file, marker, proc, ran, left, shared,
                     staged, quit>>
  BY DEF Preserve, At, offers
<1>2. Sound(call[p]) /\ Climbs(call[p]) /\ Ready(call[p]) /\ proc.st = "up" /\ call[p].target \in Path
  BY <1>1, CallTyped DEF CallHolds
<1>3. PICK t : t = call[p].target /\ t \in Path /\ t[2] < MaxSuffix
  BY <1>2 DEF Sound
<1>4. PICK prev : /\ prev = Previous(t) /\ prev \in Path /\ prev # t /\ prev[1] = t[1] /\ prev[2] > t[2]
                  /\ prev # ImagePath /\ prev # StatePath
  BY <1>3, Paths
<1>5. bin' = IF bin[t] = NoFile THEN bin ELSE [bin EXCEPT ![prev] = bin[t], ![t] = NoFile]
  BY <1>3, <1>4 DEF Preserve
<1>6. bin \in [Path -> Inode \cup {NoFile}] /\ proc.file \in Inode /\ proc.file # NoFile
  BY NoInodeZero DEF UpdateInv, TypeOK
<1>7. /\ bin' \in [Path -> Inode \cup {NoFile}] /\ bin'[t] = NoFile
      /\ \A path \in Path : path \notin {t, prev} => bin'[path] = bin[path]
      /\ bin[t] # NoFile => bin'[prev] = bin[t]
      /\ bin[t] = NoFile => bin' = bin
  BY <1>3, <1>4, <1>5, <1>6
<1>8. outrun' = (outrun \/ (t = call[p].exe /\ bin[t] \notin {NoFile, proc.file}))
  BY <1>3 DEF Preserve
<1>9. HasName' \/ outrun'
  <2>1. CASE outrun
    BY <1>8, <2>1
  <2>2. CASE bin[t] = NoFile /\ ~ outrun
    <3>1. HasName
      BY <1>2, <2>2 DEF UpdateInv, ProcHolds
    <3> QED
      BY <1>1, <1>7, <2>2, <3>1 DEF HasName
  <2>3. CASE bin[t] = proc.file
    BY <1>1, <1>4, <1>6, <1>7, <2>3 DEF HasName
  <2>4. CASE bin[t] \notin {NoFile, proc.file} /\ t = call[p].exe
    BY <1>8, <2>4
  <2>5. CASE t # call[p].exe
    <3>1. t = StatePath /\ bin[ImagePath] = proc.file
      BY <1>1, <1>3, <2>5, ImageRuns
    <3>2. bin'[ImagePath] = proc.file
      BY <1>4, <1>7, <3>1, Paths
    <3> QED
      BY <1>1, <3>2, Paths DEF HasName
  <2> QED
    BY <2>1, <2>2, <2>3, <2>4, <2>5
<1>10. container => \A path \in Path : path[1] = "image" => bin'[path] = bin[path]
  BY <1>2, <1>3, <1>4, <1>7 DEF Sound
<1>11. \A path \in {ImagePath, StatePath} : bin'[path] \in {NoFile, bin[path]}
  BY <1>4, <1>7, Paths
<1>12. \A path \in Path : bin'[path] \in {NoFile, bin[path], bin[t]}
  BY <1>4, <1>7
<1>13. StagedApart'
  <2> SUFFICES ASSUME NEW q \in Place, NEW w \in Versions, staged[q][w] # NoFile, NEW path \in Path
               PROVE  bin'[path] # staged[q][w]
    BY <1>1 DEF UpdateInv, StagedApart
  <2>1. bin[path] # staged[q][w] /\ bin[t] # staged[q][w]
    BY <1>3 DEF UpdateInv, StagedApart
  <2> QED
    BY <1>12, <2>1
<1>14. BinApart'
  <2> SUFFICES ASSUME NEW path \in Path, NEW other \in Path, bin'[path] = bin'[other], bin'[path] # NoFile
               PROVE  path = other
    BY DEF BinApart
  <2>1. BinApart
    BY DEF UpdateInv
  <2>2. CASE bin[t] = NoFile
    BY <1>7, <2>1, <2>2 DEF BinApart
  <2>3. CASE bin[t] # NoFile
    <3>1. path # t /\ other # t /\ bin'[prev] = bin[t]
      BY <1>7, <2>3
    <3>2. ASSUME NEW x \in Path, x # t, x # prev PROVE bin'[x] = bin[x] /\ (bin[x] # bin[t] \/ bin[x] = NoFile)
      BY <1>3, <1>7, <2>1, <3>2 DEF BinApart
    <3> QED
      BY <2>1, <3>1, <3>2 DEF BinApart
  <2> QED
    BY <2>2, <2>3
<1>15. ASSUME NEW path \in Path, bin'[path] = proc.file
       PROVE  path # t /\ (bin[path] = proc.file \/ (path = prev /\ bin[t] = proc.file))
  BY <1>6, <1>7, <1>15
<1>16. ASSUME NEW d \in Call, Climbs(d) PROVE Climbs(d)'
  <2>1. PICK x : x = d.exe /\ x \in Path /\ x[2] \in Nat
    BY Paths DEF Call
  <2> SUFFICES ASSUME d.target = d.exe, NEW path \in Path, bin'[path] = proc.file
               PROVE  path[1] = x[1] /\ path[2] >= x[2] /\ (d.at = "install" => path[2] > x[2])
    BY <1>1, <2>1 DEF Climbs
  <2>2. CASE bin[path] = proc.file
    BY <1>16, <2>1, <2>2 DEF Climbs
  <2>3. CASE path = prev /\ bin[t] = proc.file
    <3>1. t[1] = x[1] /\ t[2] >= x[2]
      BY <1>3, <1>16, <2>1, <2>3 DEF Climbs
    <3>2. t[2] \in Nat /\ prev[2] \in Nat
      BY <1>3, <1>4, Paths
    <3> QED
      BY <1>4, <2>1, <2>3, <3>1, <3>2
  <2> QED
    BY <1>15, <2>2, <2>3
<1>17. PICK c \in Call : GoneOn(p, "install", c)
  BY <1>1, GoesOn DEF Step
<1>18. CallHolds(c)'
  <2>1. Sound(c)'
    BY <1>1, <1>17, GoneOnHolds
  <2>2. Climbs(c)'
    <3> SUFFICES ASSUME c.target = c.exe, NEW path \in Path, bin'[path] = proc.file
                 PROVE  path[1] = t[1] /\ path[2] >= t[2] /\ path[2] > t[2]
      BY <1>1, <1>3, <1>17 DEF Climbs, GoneOn
    <3>1. call[p].target = call[p].exe /\ call[p].exe = t
      BY <1>3, <1>17 DEF GoneOn
    <3>2. t[2] \in Nat /\ path[2] \in Nat
      BY <1>3, Paths
    <3>3. CASE bin[path] = proc.file
      <4>1. path[1] = t[1] /\ path[2] >= t[2]
        BY <1>2, <3>1, <3>3 DEF Climbs
      <4>2. path[2] # t[2]
        BY <1>3, <1>15, <4>1, Paths
      <4> QED BY <3>2, <4>1, <4>2
    <3>4. CASE path = prev
      BY <1>4, <3>2, <3>4
    <3> QED
      BY <1>15, <3>3, <3>4
  <2>3. Ready(c)'
    BY <1>1, <1>2, <1>17 DEF Ready, GoneOn, Runs, Whole
  <2> QED
    BY <2>1, <2>2, <2>3 DEF CallHolds
<1>19. /\ staged' \in [Place -> [Versions -> Inode \cup {NoFile}]] /\ quit' \in BOOLEAN /\ outrun' \in BOOLEAN
       /\ \A q \in Place, w \in Versions : staged'[q][w] \in {NoFile, staged[q][w]}
  BY <1>1, <1>8 DEF UpdateInv, TypeOK
<1>20. call' = [call EXCEPT ![p] = c]
  BY <1>17 DEF GoneOn
<1> QED
  BY <1>1, <1>2, <1>7, <1>9, <1>10, <1>11, <1>13, <1>14, <1>16, <1>18, <1>19, <1>20, NamesMove

LEMMA InstallKeeps ==
    ASSUME UpdateInv, NEW p \in Applier, Install(p) PROVE UpdateInv'
<1>1. /\ call[p].at = "install"
      /\ UNCHANGED <<container, offered, withdrawn, asked, fetched, file, marker, proc, ran, left, shared, outrun>>
  BY DEF Install, At, offers, history
<1>2. /\ Sound(call[p]) /\ Climbs(call[p]) /\ Ready(call[p]) /\ proc.st = "up" /\ call[p].target \in Path
      /\ call[p].target[1] \in Place /\ call[p].ver \in Versions
  BY <1>1, CallTyped DEF CallHolds
<1>3. CASE StagedFile(p) = NoFile
  <2>1. Return(p) /\ UNCHANGED <<bin, staged, quit>>
    BY <1>3 DEF Install
  <2>2. UNCHANGED stage /\ left' \in Budget
    BY <1>1, <2>1 DEF stage, UpdateInv, TypeOK
  <2> QED
    BY <1>1, <2>1, <2>2, ReturnKeeps
<1>4. CASE StagedFile(p) # NoFile
  <2>1. PICK t, s, v : /\ t = call[p].target /\ s = StagedFile(p) /\ v = call[p].ver
                       /\ s \in Inode /\ s # NoFile /\ (Runs(s) \/ s \in shared) /\ file[s].ver = v /\ v > ran
                       /\ t \in Path /\ s # proc.file /\ \A path \in Path : bin[path] # s
    <3>1. Runs(StagedFile(p)) \/ StagedFile(p) \in shared
      BY <1>1, <1>2, <1>4 DEF Ready, StagedFile
    <3>2. /\ StagedFile(p) \in Inode /\ file[StagedFile(p)].ver = call[p].ver
          /\ StagedFile(p) # proc.file /\ \A path \in Path : bin[path] # StagedFile(p)
      BY <1>2, <1>4 DEF UpdateInv, TypeOK, StagedApart, StagedFile
    <3> QED
      BY <1>2, <1>4, <3>1, <3>2 DEF Sound
  <2>2. bin' = [bin EXCEPT ![t] = s] /\ staged' = Unstaged(p)
    BY <1>4, <2>1 DEF Install
  <2>3. /\ bin' \in [Path -> Inode \cup {NoFile}] /\ bin'[t] = s
        /\ \A path \in Path : path # t => bin'[path] = bin[path]
    BY <2>1, <2>2 DEF UpdateInv, TypeOK
  <2>4. HasName' \/ outrun'
    <3> SUFFICES ASSUME ~ outrun PROVE HasName'
      BY <1>1
    <3>1. PICK path \in Path : bin[path] = proc.file
      BY <1>2 DEF UpdateInv, ProcHolds, HasName
    <3>2. path # t
      <4>1. CASE call[p].exe = t
        <5>1. path[2] > t[2] /\ t[2] \in Nat
          BY <1>1, <1>2, <2>1, <3>1, <4>1, Paths DEF Climbs
        <5> QED BY <5>1
      <4>2. CASE call[p].exe # t
        <5>1. t = StatePath /\ bin[ImagePath] = proc.file /\ proc.file # NoFile
          BY <1>1, <2>1, <4>2, ImageRuns DEF NoFile
        <5>2. path = ImagePath
          BY <3>1, <5>1, Paths DEF UpdateInv, BinApart
        <5> QED BY <5>1, <5>2, Paths
      <4> QED BY <4>1, <4>2
    <3> QED
      BY <1>1, <2>3, <3>1, <3>2 DEF HasName
  <2>5. container => \A path \in Path : path[1] = "image" => bin'[path] = bin[path]
    BY <1>2, <2>1, <2>3 DEF Sound
  <2>6. v \in Nat /\ ran \in Nat
    BY <1>2, <2>1, UpdateAssumption DEF UpdateInv, TypeOK
  <2>7. \A path \in {ImagePath, StatePath} :
           \/ bin'[path] = bin[path]
           \/ (Runs(bin'[path]) \/ bin'[path] \in shared) /\ file[bin'[path]].ver >= ran
    BY <2>1, <2>3, <2>6, Paths
  <2>8. /\ staged' \in [Place -> [Versions -> Inode \cup {NoFile}]]
        /\ \A q \in Place, w \in Versions : staged'[q][w] \in {NoFile, staged[q][w]}
    BY <1>1, <2>2, UnstagedShrinks
  <2>9. StagedApart'
    <3> SUFFICES ASSUME NEW q \in Place, NEW w \in Versions, staged'[q][w] # NoFile
                 PROVE  /\ file[staged'[q][w]].ver = w
                        /\ \A path \in Path : bin'[path] # staged'[q][w]
                        /\ proc.file # staged'[q][w]
                        /\ \A r \in Place, x \in Versions :
                              staged'[r][x] = staged'[q][w] => r = q /\ x = w
      BY <1>1 DEF StagedApart
    <3>1. staged'[q][w] = staged[q][w] /\ staged[q][w] # NoFile
      BY <1>1, <2>2, UnstagedShrinks
    <3>2. q # call[p].target[1] \/ w # call[p].ver
      BY <1>1, <2>2, <3>1, UnstagedShrinks
    <3>3. staged[q][w] # s
      <4>1. s = staged[call[p].target[1]][call[p].ver]
        BY <2>1 DEF StagedFile
      <4>2. \A r \in Place, x \in Versions : staged[r][x] = staged[q][w] => r = q /\ x = w
        BY <3>1 DEF UpdateInv, StagedApart
      <4> QED BY <1>2, <3>2, <4>1, <4>2
    <3>4. \A r \in Place, x \in Versions : staged'[r][x] = staged'[q][w] => staged[r][x] = staged[q][w]
      BY <2>8, <3>1
    <3> QED
      BY <2>3, <3>1, <3>3, <3>4 DEF UpdateInv, StagedApart
  <2>10. BinApart'
    BY <2>1, <2>3 DEF UpdateInv, BinApart
  <2>11. \A d \in Call : Climbs(d) => Climbs(d)'
    BY <1>1, <2>1, <2>3 DEF Climbs
  <2>12. CASE call[p].target # call[p].exe /\ Goto(p, "open marker") /\ UNCHANGED quit
    <3>1. PICK c \in Call : GoneOn(p, "open marker", c)
      BY <1>1, <2>12, GoesOn DEF Step
    <3>2. c.target # c.exe /\ c.at = "open marker" /\ call' = [call EXCEPT ![p] = c]
      BY <2>12, <3>1 DEF GoneOn
    <3>3. Sound(c)'
      BY <1>1, <3>1, <3>2, GoneOnHolds
    <3>4. CallHolds(c)'
      BY <3>2, <3>3 DEF CallHolds, Climbs, Ready
    <3>5. quit' \in BOOLEAN /\ outrun' \in BOOLEAN
      BY <1>1, <2>12 DEF UpdateInv, TypeOK
    <3> QED
      BY <1>1, <1>2, <2>3, <2>4, <2>5, <2>7, <2>8, <2>9, <2>10, <2>11, <3>2, <3>4, <3>5, NamesMove
  <2>13. CASE Return(p) /\ quit' = TRUE
    <3>1. call' = [call EXCEPT ![p] = Idle] /\ outrun' \in BOOLEAN
      BY <1>1, <2>13 DEF Return, UpdateInv, TypeOK
    <3> QED
      BY <1>1, <1>2, <2>3, <2>4, <2>5, <2>7, <2>8, <2>9, <2>10, <2>11, <2>13, <3>1, NamesMove
  <2> QED
    BY <1>4, <2>12, <2>13 DEF Install
<1> QED
  BY <1>3, <1>4

\* Only a call that ran the image of a container writes the marker, so the
\* version that last came up is the image's while there is none.
LEMMA MarkerKeeps ==
    ASSUME UpdateInv, NEW p \in Applier, OpenMarker(p) \/ WriteMarker(p) PROVE UpdateInv'
<1>1. /\ call[p].at \in {"open marker", "write marker"}
      /\ UNCHANGED <<container, offered, withdrawn, asked, fetched, bin, staged, file, proc, ran, left, shared, outrun>>
  BY DEF OpenMarker, WriteMarker, At, offers, history
<1>2. /\ Sound(call[p]) /\ call[p] # Idle /\ proc.st = "up" /\ call[p].ver \in Versions
      /\ container /\ call[p].target = StatePath /\ ran = 1 /\ call[p].target \in Path
      /\ call[p].target # call[p].exe
  BY <1>1, CallTyped DEF CallHolds, Sound
<1>3. PICK c : /\ call' = [call EXCEPT ![p] = c]
               /\ c # Idle => CallHolds(c)'
               /\ c = Idle \/ c \in Call
  <2>1. CASE OpenMarker(p)
    <3>1. PICK c \in Call : GoneOn(p, "write marker", c)
      BY <1>1, <2>1, GoesOn DEF OpenMarker, Step
    <3>2. c.target # c.exe /\ c.at = "write marker"
      BY <1>2, <3>1 DEF GoneOn
    <3>3. Sound(c)'
      BY <1>1, <3>1, <3>2, GoneOnHolds
    <3>4. CallHolds(c)'
      BY <3>2, <3>3 DEF CallHolds, Climbs, Ready
    <3> QED
      BY <3>1, <3>4 DEF GoneOn
  <2>2. CASE WriteMarker(p)
    BY <2>2 DEF WriteMarker, Return
  <2> QED
    BY <2>1, <2>2
<1>4. CallsHold'
  <2>1. \A d \in Call : Climbs(d) => Climbs(d)'
    BY <1>1, ClimbsStand
  <2>2. \A d \in Call : Ready(d) => Ready(d)'
    BY <1>1 DEF Ready, Runs, Whole
  <2> QED
    BY <1>1, <1>2, <1>3, <2>1, <2>2, CallMoves
<1>5. marker' \in Marker \cup {NoMarker} /\ (marker' # NoMarker => marker'.path = StatePath) /\ quit' \in BOOLEAN
  <2>1. CASE OpenMarker(p)
    BY <2>1 DEF OpenMarker, UpdateInv, TypeOK
  <2>2. CASE WriteMarker(p)
    BY <1>2, <2>2 DEF WriteMarker, Marker
  <2> QED
    BY <2>1, <2>2
<1>6. TypeOK'
  <2>1. DOMAIN call' = Applier /\ \A q \in Applier : call'[q] = Idle \/ call'[q] \in Call
    BY <1>3 DEF UpdateInv, TypeOK, Idle
  <2> QED
    BY <1>1, <1>5, <2>1 DEF UpdateInv, TypeOK, Idle
<1>7. StagedApart' /\ BinApart' /\ StartsAreWhole' /\ NoOlder' /\ IsFiniteSet(offered')
  <2>0. StagedApart /\ BinApart /\ IsFiniteSet(offered)
    BY DEF UpdateInv
  <2>1. IsFiniteSet(offered')
    BY <1>1, <2>0
  <2>2. StagedApart' /\ BinApart'
    <3>1. staged' = staged /\ bin' = bin /\ file' = file /\ proc' = proc
      BY <1>1
    <3> QED
      BY <2>0, <3>1 DEF StagedApart, BinApart
  <2>3. StartsAreWhole' /\ NoOlder'
    BY <1>1 DEF UpdateInv, StartsAreWhole, Runs, Whole, NoOlder, StartPath
  <2> QED
    BY <2>1, <2>2, <2>3
<1>8. ProcHolds' /\ MarkerHolds'
  BY <1>1, <1>2, <1>5 DEF UpdateInv, ProcHolds, MarkerHolds, Running, HasName
<1> QED
  BY <1>4, <1>6, <1>7, <1>8 DEF UpdateInv

-----------------------------------------------------------------------------
(* The process. *)

\* A step of the process, which leaves the files and the marker alone and
\* happens while no call is in progress, or ends all.
LEMMA ProcessMoves ==
    ASSUME UpdateInv, UNCHANGED <<container, offered, withdrawn, bin, staged, file, marker, shared>>,
           proc' \in [st : {"down", "booting", "up"}, file : Inode, handed : BOOLEAN],
           proc'.file = proc.file \/ \E path \in Path : proc'.file = bin[path],
           \A p \in Applier : call'[p] = Idle, DOMAIN call' = Applier,
           asked' \subseteq offered, fetched' \subseteq offered,
           quit' \in BOOLEAN, outrun' \in BOOLEAN, left' \in Budget, ran' \in Versions \cup {1},
           ProcHolds', container /\ marker = NoMarker => ran' = 1, NoOlder'
    PROVE  UpdateInv'
<1>1. TypeOK'
  BY DEF UpdateInv, TypeOK, Idle
<1>2. BinApart' /\ StartsAreWhole' /\ IsFiniteSet(offered')
  BY DEF UpdateInv, BinApart, StartsAreWhole, Runs, Whole
<1>3. StagedApart'
  <2> SUFFICES ASSUME NEW q \in Place, NEW w \in Versions, staged[q][w] # NoFile
               PROVE  proc'.file # staged[q][w]
    BY DEF UpdateInv, StagedApart
  <2> QED
    BY DEF UpdateInv, StagedApart
<1>4. CallsHold'
  BY DEF CallsHold
<1>5. MarkerHolds'
  BY DEF UpdateInv, MarkerHolds
<1> QED
  BY <1>1, <1>2, <1>3, <1>4, <1>5 DEF UpdateInv

LEMMA NoCallUnlessUp ==
    ASSUME UpdateInv, proc.st # "up" PROVE \A p \in Applier : call[p] = Idle
BY DEF UpdateInv, CallsHold

LEMMA StartKeeps ==
    ASSUME UpdateInv, Start PROVE UpdateInv'
<1>1. /\ proc.st = "down" /\ Runs(bin[ImagePath])
      /\ proc' = [st |-> "booting", file |-> bin[ImagePath], handed |-> FALSE]
      /\ UNCHANGED <<container, offered, withdrawn, asked, fetched, bin, staged, file, marker, call, quit, ran, left,
                     shared, outrun>>
  BY DEF Start, offers, history
<1>2. bin[ImagePath] \in Inode /\ ImagePath \in Path
  BY <1>1, Paths DEF UpdateInv, TypeOK, Runs, Whole
<1>3. proc' \in [st : {"down", "booting", "up"}, file : Inode, handed : BOOLEAN]
  BY <1>1, <1>2
<1>4. ProcHolds'
  BY <1>1, Paths DEF ProcHolds, HasName
<1>5. NoOlder' /\ (container /\ marker = NoMarker => ran' = 1)
  BY <1>1 DEF UpdateInv, NoOlder, StartPath, MarkerHolds
<1>6. \A p \in Applier : call'[p] = Idle
  BY <1>1, NoCallUnlessUp
<1>7. proc'.file = bin[ImagePath]
  BY <1>1
<1> QED
  BY <1>1, <1>2, <1>3, <1>4, <1>5, <1>6, <1>7, ProcessMoves DEF UpdateInv, TypeOK

\* A staged binary that is not whole dies at once; otherwise the process is
\* that binary's.
LEMMA HandoverKeeps ==
    ASSUME UpdateInv, Handover PROVE UpdateInv'
<1>1. /\ proc.st = "booting" /\ marker # NoMarker /\ bin[marker.path] # NoFile
      /\ UNCHANGED <<container, offered, withdrawn, asked, fetched, bin, staged, file, marker, call, quit, ran, left,
                     shared, outrun>>
  BY DEF Handover, HandsOver, StagedReplacement, offers, history
<1>2. container /\ marker.path = StatePath
  BY <1>1 DEF UpdateInv, MarkerHolds
<1>3. PICK st \in {"down", "booting"} : proc' = [st |-> st, file |-> bin[StatePath], handed |-> TRUE]
  BY <1>2 DEF Handover
<1>4. bin[StatePath] \in Inode /\ StatePath \in Path
  BY <1>1, <1>2, Paths DEF UpdateInv, TypeOK
<1>5. /\ proc' \in [st : {"down", "booting", "up"}, file : Inode, handed : BOOLEAN]
      /\ proc'.file = bin[StatePath]
  BY <1>3, <1>4
<1>6. ProcHolds'
  BY <1>1, <1>2, <1>3, Paths DEF ProcHolds, HasName
<1>7. NoOlder' /\ (container /\ marker = NoMarker => ran' = 1)
  BY <1>1 DEF UpdateInv, NoOlder, StartPath, MarkerHolds
<1>8. \A p \in Applier : call'[p] = Idle
  BY <1>1, NoCallUnlessUp
<1> QED
  BY <1>1, <1>4, <1>5, <1>6, <1>7, <1>8, ProcessMoves DEF UpdateInv, TypeOK

\* What comes up: on a host what lies at the image path; in a container what
\* was handed over to or, while nothing that runs is there, the image.
LEMMA ComesUp ==
    ASSUME UpdateInv, ComeUp
    PROVE  \/ proc.file = bin[StartPath] /\ bin[StartPath] # NoFile
           \/ /\ container /\ proc.file = 1 /\ Running = 1
              /\ marker = NoMarker \/ ~ Runs(bin[StatePath])
<1>1. proc.st = "booting" /\ (HandsOver => ~ file[bin[marker.path]].exec) /\ proc.file \in Inode
  BY DEF ComeUp, UpdateInv, TypeOK
<1>2. proc.file # NoFile
  BY <1>1, NoInodeZero
<1>3. CASE proc.handed
  BY <1>1, <1>2, <1>3 DEF UpdateInv, ProcHolds, StartPath
<1>4. CASE ~ proc.handed /\ ~ container
  BY <1>1, <1>2, <1>4 DEF UpdateInv, ProcHolds, StartPath
<1>5. CASE ~ proc.handed /\ container
  <2>1. proc.file = 1
    BY <1>1, <1>5, Paths DEF UpdateInv, ProcHolds, TypeOK, ImagePath
  <2>2. Running = 1
    BY <1>5, <2>1 DEF Running, UpdateInv, MarkerHolds
  <2>3. ASSUME marker # NoMarker, Runs(bin[StatePath]) PROVE FALSE
    <3>1. marker.path = StatePath /\ marker.ver \in Versions
      BY <2>3 DEF UpdateInv, MarkerHolds, TypeOK, Marker
    <3>2. Newer(marker.ver)
      <4>1. marker.ver \in Nat /\ marker.ver # 0 /\ marker.ver # 1
        BY <3>1, UpdateAssumption
      <4> QED
        BY <2>2, <4>1 DEF Newer
    <3>3. HandsOver
      BY <1>5, <2>3, <3>1, <3>2 DEF HandsOver, StagedReplacement, Runs, Whole
    <3>4. file[bin[StatePath]].exec
      BY <2>3 DEF Runs
    <3> QED
      BY <1>1, <3>1, <3>3, <3>4
  <2> QED
    BY <1>5, <2>1, <2>2, <2>3
<1> QED
  BY <1>1, <1>3, <1>4, <1>5 DEF UpdateInv, TypeOK

LEMMA ComeUpKeeps ==
    ASSUME UpdateInv, ComeUp PROVE UpdateInv'
<1>1. /\ proc.st = "booting" /\ proc' = [proc EXCEPT !.st = "up"] /\ ran' = Running
      /\ UNCHANGED <<container, offered, withdrawn, asked, fetched, bin, staged, file, marker, call, quit, left,
                     shared, outrun>>
  BY DEF ComeUp, offers, history
<1>2. /\ proc' \in [st : {"down", "booting", "up"}, file : Inode, handed : BOOLEAN]
      /\ proc'.st = "up" /\ proc'.file = proc.file
  BY <1>1 DEF UpdateInv, TypeOK
<1>3. ran' \in Versions \cup {1} /\ ran' \in Nat
  BY <1>1, UpdateAssumption DEF UpdateInv, TypeOK, Running, File
<1>4. ProcHolds'
  BY <1>1, <1>2 DEF UpdateInv, ProcHolds, HasName, Running
<1>5. NoOlder'
  <2>1. CASE proc.file = bin[StartPath]
    BY <1>1, <1>3, <2>1 DEF NoOlder, StartPath, Running
  <2>2. CASE container /\ Running = 1
    <3>1. bin[StartPath] # NoFile => file[bin[StartPath]].ver \in Versions \cup {1}
      BY Paths DEF UpdateInv, TypeOK, StartPath, File
    <3> QED
      BY <1>1, <2>2, <3>1, UpdateAssumption DEF NoOlder, StartPath
  <2> QED
    BY <2>1, <2>2, ComesUp
<1>6. container /\ marker = NoMarker => ran' = 1
  <2> SUFFICES ASSUME container, marker = NoMarker PROVE Running = 1
    BY <1>1
  <2>1. ~ proc.handed
    BY <1>1 DEF UpdateInv, ProcHolds, TypeOK
  <2>2. proc.file = 1
    BY <1>1, <2>1, Paths DEF UpdateInv, ProcHolds, TypeOK, ImagePath
  <2> QED
    BY <2>2 DEF Running, UpdateInv, MarkerHolds
<1>7. \A p \in Applier : call'[p] = Idle
  BY <1>1, NoCallUnlessUp
<1> QED
  BY <1>1, <1>2, <1>3, <1>4, <1>5, <1>6, <1>7, ProcessMoves DEF UpdateInv, TypeOK

LEMMA EndsKeep ==
    ASSUME UpdateInv, Stop \/ Crash PROVE UpdateInv'
<1>1. /\ proc' = [proc EXCEPT !.st = "down"] /\ asked' = {} /\ quit' = FALSE /\ outrun' = FALSE
      /\ UNCHANGED <<container, offered, withdrawn, fetched, bin, staged, file, marker, ran, shared>>
  BY DEF Stop, Crash, GoDown, releases, files
<1>2. /\ proc' \in [st : {"down", "booting", "up"}, file : Inode, handed : BOOLEAN]
      /\ proc'.st = "down" /\ proc'.file = proc.file
  BY <1>1 DEF UpdateInv, TypeOK
<1>3. left' \in Budget
  BY MishapTyped DEF Stop, Crash, UpdateInv, TypeOK
<1>4. DOMAIN call' = Applier /\ \A p \in Applier : call'[p] = Idle
  <2>1. CASE Crash
    BY <2>1 DEF Crash
  <2>2. CASE Stop
    <3>1. call' = call /\ \A p \in Applier : call[p].at = "idle"
      BY <2>2 DEF Stop, InProgress
    <3> QED
      BY <3>1 DEF UpdateInv, TypeOK, CallsHold, CallHolds, Sound
  <2> QED BY <2>1, <2>2
<1>5. ProcHolds' /\ NoOlder' /\ (container /\ marker = NoMarker => ran' = 1)
  BY <1>1, <1>2 DEF ProcHolds, UpdateInv, NoOlder, StartPath, MarkerHolds
<1> QED
  BY <1>1, <1>2, <1>3, <1>4, <1>5, ProcessMoves DEF UpdateInv, TypeOK

LEMMA NextUpdate ==
    ASSUME UpdateInv, [Next]_vars PROVE UpdateInv'
<1>1. ASSUME NEW p \in Applier, Apply(p) \/ StepFails(p) \/ PreserveFails(p) \/ WriteIsShort(p)
      PROVE  UpdateInv'
  BY <1>1, OpenStagedKeeps, FillStagedKeeps, VerifyStagedKeeps, PreserveKeeps, InstallKeeps,
     MarkerKeeps, FaultsKeep DEF Apply
<1> QED
  BY <1>1, ReleasesKeep, RequestsKeep, StartKeeps, HandoverKeeps, ComeUpKeeps, EndsKeep DEF Next

LEMMA AlwaysUpdateInv == Spec => []UpdateInv
<1>1. Init => UpdateInv
  BY InitUpdate
<1>2. UpdateInv /\ [Next]_vars => UpdateInv'
  BY NextUpdate
<1> QED
  BY <1>1, <1>2, PTL DEF Spec

-----------------------------------------------------------------------------
\* A file at a name that is about to be executed is whole and executable,
\* whatever crash, error or other call interrupts a call of `apply`, unless
\* one call cut it while another was at work on the same staged file.
THEOREM ImagesAreWhole == Spec => []StartsAreWhole
<1>1. UpdateInv => StartsAreWhole
  BY DEF UpdateInv
<1> QED
  BY <1>1, AlwaysUpdateInv, PTL

\* The running binary keeps a name although calls move and replace it under
\* the process (`current_exe`, `.previous`), unless one call kept in its place
\* what another had installed since it began.
THEOREM RunningStaysNamed == Spec => []RunningIsKept
<1>1. UpdateInv => RunningIsKept
  BY DEF UpdateInv, ProcHolds, RunningIsKept
<1> QED
  BY <1>1, AlwaysUpdateInv, PTL

\* A restart never comes up with an older version than ran before, through the
\* handover of a container or without, whatever calls of `apply` overlapped;
\* except in a container whose staged binary was moved away and not replaced,
\* or is not whole.
THEOREM RestartsAreNoOlder == Spec => NoDowngrade
<1>2. ASSUME UpdateInv, [Next]_vars, proc.st = "booting", proc'.st = "up"
      PROVE  Running >= ran \/ (container /\ ~ Runs(bin[StatePath]))
  <2>1. ComeUp
    <3>1. proc' # proc
      BY <1>2
    <3>2. Next
      BY <1>2, <3>1 DEF vars
    <3>3. ASSUME \E v \in Versions : Publish(v) \/ Withdraw(v) \/ ChunksArrive(v) \/ ApplyUpdate(v)
          PROVE  FALSE
      BY <3>1, <3>3 DEF Publish, Withdraw, ChunksArrive, ApplyUpdate, Ask, Begin
    <3>4. ASSUME CollectChunks \/ CheckForUpdate PROVE FALSE
      BY <3>1, <3>4 DEF CollectChunks, CheckForUpdate, Ask, Begin
    <3>5. ASSUME NEW p \in Applier, Apply(p) \/ StepFails(p) \/ PreserveFails(p) \/ WriteIsShort(p)
          PROVE  FALSE
      BY <3>1, <3>5 DEF Apply, OpenStaged, FillStaged, VerifyStaged, Preserve, Install, OpenMarker,
                        WriteMarker, StepFails, PreserveFails, WriteIsShort, Fault
    <3>6. ASSUME Start \/ Stop \/ Crash PROVE FALSE
      BY <1>2, <3>6 DEF Start, Stop, Crash, GoDown, UpdateInv, TypeOK
    <3>7. ASSUME Handover PROVE FALSE
      BY <1>2, <3>7 DEF Handover
    <3> QED
      BY <3>2, <3>3, <3>4, <3>5, <3>6, <3>7 DEF Next
  <2>2. Running \in Nat /\ ran \in Nat /\ Running >= 1
    <3>1. Running \in Versions \cup {1} /\ ran \in Versions \cup {1}
      BY <1>2 DEF UpdateInv, TypeOK, Running, File
    <3> QED
      BY <3>1, UpdateAssumption
  <2>3. CASE proc.file = bin[StartPath] /\ bin[StartPath] # NoFile
    BY <1>2, <2>3 DEF UpdateInv, NoOlder, Running
  <2>4. CASE container /\ (marker = NoMarker \/ ~ Runs(bin[StatePath]))
    BY <1>2, <2>2, <2>4 DEF UpdateInv, MarkerHolds
  <2> QED
    BY <1>2, <2>1, <2>3, <2>4, ComesUp
<1>3. UpdateInv /\ [Next]_vars =>
        [proc.st = "booting" /\ proc'.st = "up" =>
            Running >= ran \/ (container /\ ~ Runs(bin[StatePath]))]_vars
  BY <1>2
<1> QED
  BY <1>3, AlwaysUpdateInv, PTL DEF Spec, NoDowngrade

=============================================================================

------------------------------ MODULE WorldOps ------------------------------
(***************************************************************************)
(* The world operations of one server: rename, activate, reset, delete,    *)
(* duplicate, install and copy (WorldLifecycleService and                  *)
(* WorldTransferService), and the two that edit region files               *)
(* (WorldShrinkService, WorldChunksService), beside starts of the server.  *)
(* Most of them look once whether the server runs and go on for minutes;   *)
(* an install from the library holds the long-operation lock, and the two  *)
(* editors hold the lifecycle guard and look again inside it.              *)
(*                                                                         *)
(* A world is a directory with at most one more for its split dimensions   *)
(* (its wing).  What a directory holds is the set of the worlds whose      *)
(* files are in it; each change of a world makes a new number of it.       *)
(***************************************************************************)
EXTENDS Naturals, FiniteSets, Callers

CONSTANTS Names,     \* names of worlds
          NoName,    \* no name, and an environment without LEVEL
          First,     \* the level the server was created with
          Second,    \* the name of another world on it
          MaxWorld,  \* bound on the numbers of worlds
          Scenes     \* the situations a behaviour may be in

ASSUME NamesAssumption == /\ {First, Second} \subseteq Names
                          /\ First # Second
                          /\ NoName \notin Names
                          /\ MaxWorld \in Nat \ {0, 1}

OpKinds == {"start", "rename", "activate", "reset", "delete", "duplicate",
            "install", "copy", "shrink", "chunks"}
\* fields of a scene: the requests made, whether the server's software splits
\* dimensions, whether LEVEL and level-name are edited, whether mc-router wakes
\* it, whether disk, Docker and backups fail, and a bound on the requests
ASSUME ScenesAssumption ==
  Scenes \subseteq [ops : SUBSET OpKinds, split : BOOLEAN, level : {NoName, First},
                    edits : BOOLEAN, routed : BOOLEAN, faults : BOOLEAN, asks : Nat]

VARIABLES scene,
          live,      \* the container runs
          plays,     \* the world it plays, NoName before it ever ran
          prop,      \* level-name in server.properties
          env,       \* LEVEL in the row's environment, or NoName
          box,       \* LEVEL in the container's environment, or NoName
          disk,      \* what the directories of each name hold
          saved,     \* the worlds in some backup
          next,      \* the next number of a world
          call,      \* the requests
          asked,     \* how many there were
          raced,     \* history: names of which two of them made use at once
          unmade     \* history: names whose world the next start is to make

worldVars == <<scene, live, plays, prop, env, box, disk, saved, next, call,
               asked, raced, unmade>>

Parts == {"main", "wing"}
LibraryWorld == 0
Numbers == 0..MaxWorld

Steps == {"idle", "pull", "look", "check", "enter", "recheck", "backup", "extract",
          "remove", "place", "move", "select", "env", "edit"}

\* env is the LEVEL of the row the request read, upto the first number made
\* after its backup, beside the starts in flight when it began and hit how
\* the server came up under it
Free == [op |-> "none", pc |-> "idle", from |-> NoName, to |-> NoName,
         env |-> NoName, todo |-> {}, backup |-> FALSE, upto |-> MaxWorld + 1,
         beside |-> {}, hit |-> {}]

TypeOK ==
  /\ scene \in Scenes
  /\ live \in BOOLEAN
  /\ {plays, env, box} \subseteq Names \cup {NoName}
  /\ prop \in Names
  /\ disk \in [Names -> [Parts -> SUBSET Numbers]]
  /\ saved \subseteq Numbers
  /\ next \in 1..MaxWorld + 1
  /\ call \in [Calls -> [op : OpKinds \cup {"none"}, pc : Steps,
                         from : Names \cup {NoName}, to : Names \cup {NoName},
                         env : Names \cup {NoName}, todo : SUBSET Parts,
                         backup : BOOLEAN, upto : 1..MaxWorld + 1,
                         beside : SUBSET Calls,
                         hit : SUBSET {"start", "inflight", "woken", "blind", "apart"}]]
  /\ asked \in 0..scene.asks
  /\ raced \subseteq Names
  /\ unmade \subseteq Names

-----------------------------------------------------------------------------
(* Names, directories and what a request has to do with them *)

\* activeLevelName: LEVEL of the row read, else the property as it is now
ActiveLevel(level) == IF level # NoName THEN level ELSE prop
Level == ActiveLevel(env)

Exists(n) == disk[n]["main"] # {}
\* serverWorldDims
Dims(n) == {"main"} \cup {p \in Parts : disk[n][p] # {}}
\* the main directory is always first
Part(todo) == IF "main" \in todo THEN "main" ELSE "wing"

Underway == {"look", "backup", "extract", "remove", "place", "move", "select", "env", "edit"}
\* the names a request works on, by what it read of the row or saw on disk
Footprint(c) ==
  IF call[c].pc \in Underway THEN {call[c].from, call[c].to} \ {NoName} ELSE {}
\* names among ns that one of the requests ds is at work on
Shared(ns, ds) == {n \in ns : \E d \in ds : n \in Footprint(d)}
Others(c) == Calls \ {c}
\* what was disturbed stays so under its new name
Tainted(r) == {n \in {r.to} : r.from \in raced}

Go(c, r) == call' = [call EXCEPT ![c] = r] /\ UNCHANGED asked
\* nothing but the requests changes
StandStill == UNCHANGED <<scene, live, plays, prop, env, box, disk, saved, next, raced, unmade>>
At(c, step) == [call[c] EXCEPT !.pc = step]

Editors == {"shrink", "chunks"}
Starting(c) == call[c].op = "start"

\* a request begins
Begin(c, op, r) ==
  /\ call[c].pc = "idle"
  /\ op \in scene.ops
  /\ asked < scene.asks
  /\ asked' = asked + 1
  /\ call' = [call EXCEPT ![c] = [r EXCEPT !.op = op, !.env = env, !.beside = {d \in Calls : Starting(d)}]]

\* the holders of the lifecycle guard and of the long-operation lock
InBody(r) == r.op \in Editors /\ r.pc \notin {"look", "enter"}
Guarded == {c \in Calls : Starting(c) \/ InBody(call[c])}
Installing == {c \in Calls : call[c].op = "install"}

\* two worlds on a stopped server, or one that has not made its world yet
Init ==
  /\ scene \in Scenes
  /\ live = FALSE
  /\ plays = NoName
  /\ prop = First
  /\ env = scene.level
  /\ box = env
  /\ \E made \in {{}, {First, Second}} :
       disk = [n \in Names |-> [p \in Parts |->
                 IF n \in made /\ (p = "main" \/ scene.split)
                 THEN {IF n = First THEN 1 ELSE 2} ELSE {}]]
  /\ saved = {}
  /\ next = 3
  /\ call = [c \in Calls |-> Free]
  /\ asked = 0
  /\ raced = {}
  /\ unmade = IF Exists(First) THEN {} ELSE {First}

-----------------------------------------------------------------------------
(* The server *)

\* the container starts with the LEVEL it was created with, which the image
\* writes to server.properties, and makes the directories it does not find
Boots(level, starting) ==
  LET n == ActiveLevel(level)
      missing == {p \in Parts : disk[n][p] = {} /\ (p = "main" \/ scene.split)}
  IN /\ missing # {} => next <= MaxWorld
     /\ live' = TRUE
     /\ plays' = n
     /\ prop' = n
     /\ box' = level
     /\ disk' = [disk EXCEPT ![n] = [p \in Parts |->
                               IF p \in missing THEN {next} ELSE disk[n][p]]]
     /\ next' = IF missing = {} THEN next ELSE next + 1
     /\ raced' = raced \cup Shared({m \in {n} : missing # {} \/ m # prop}, Calls \ starting)
     /\ unmade' = unmade \ {n}
     /\ UNCHANGED <<scene, env, saved, asked>>

\* how a start of the server shows in the requests it comes up under
Surprised(r, how) ==
  IF r.op \in {"none", "start"} THEN r ELSE [r EXCEPT !.hit = @ \cup {how}]

\* startServer: the guard, the row, then minutes of pulling and creating
StartServer(c) ==
  /\ Guarded = {}
  /\ Installing = {}
  /\ Begin(c, "start", [Free EXCEPT !.pc = "pull"])
  /\ StandStill

Launch(c) ==
  /\ call[c].pc = "pull"
  /\ ~live
  /\ Boots(call[c].env, {c})
  /\ call' = [d \in Calls |->
                IF d = c THEN Free
                ELSE Surprised(call[d], IF c \in call[d].beside THEN "inflight" ELSE "start")]

\* the image or the container fails, or the server runs already
LaunchEnds(c) ==
  /\ call[c].pc = "pull"
  /\ live \/ scene.faults
  /\ Go(c, Free)
  /\ StandStill

\* mc-router wakes the server for a player
RouterStarts ==
  /\ scene.routed
  /\ ~live
  /\ Boots(box, {})
  /\ call' = [d \in Calls |-> Surprised(call[d], "woken")]

\* a stop, or an exit of its own
ContainerExits ==
  /\ live
  /\ live' = FALSE
  /\ UNCHANGED <<scene, plays, prop, env, box, disk, saved, next, call, asked, raced, unmade>>

\* the server saves what the players did
Play ==
  /\ live
  /\ Exists(plays)
  /\ next <= MaxWorld
  /\ disk' = [disk EXCEPT ![plays] = [p \in Parts |-> IF @[p] = {} THEN {} ELSE {next}]]
  /\ next' = next + 1
  /\ raced' = raced \cup Shared({plays}, Calls)
  /\ UNCHANGED <<scene, live, plays, prop, env, box, saved, call, asked, unmade>>

\* the user makes n the level: a world that is there, or one the next start makes
Chooses(n) ==
  /\ raced' = raced \cup Shared({n}, Calls)
  /\ unmade' = unmade \cup {m \in {n} : ~Exists(m)}

\* LEVEL set, changed or taken out in the settings, of a running server too
EditLevel(level) ==
  /\ scene.edits
  /\ level # env
  /\ env' = level
  /\ Chooses(ActiveLevel(level))
  /\ UNCHANGED <<scene, live, plays, prop, box, disk, saved, next, call, asked>>

\* level-name changed in the file editor, which then takes LEVEL out of the
\* row, with it or (as EditLevel does) after an await
EditProperty(n) ==
  /\ scene.edits
  /\ n # prop
  /\ prop' = n
  /\ env' \in {env, NoName}
  /\ IF env' = NoName THEN Chooses(n) ELSE UNCHANGED <<raced, unmade>>
  /\ UNCHANGED <<scene, live, plays, box, disk, saved, next, call, asked>>

-----------------------------------------------------------------------------
(* Requests that look whether the server runs *)

\* a request reads the row and asks Docker
Ask(c, op, r) ==
  /\ Begin(c, op, r)
  /\ StandStill

RenameWorld(c, n, m) ==
  n # m /\ Ask(c, "rename", [Free EXCEPT !.pc = "look", !.from = n, !.to = m])
ActivateWorld(c, n) ==
  Ask(c, "activate", [Free EXCEPT !.pc = "look", !.from = n])
ResetWorld(c, wanted) ==
  Ask(c, "reset", [Free EXCEPT !.pc = "look", !.backup = wanted])
ShrinkWorld(c, n) ==
  Ask(c, "shrink", [Free EXCEPT !.pc = "look", !.from = n])
DeleteChunks(c, n, wanted) ==
  Ask(c, "chunks", [Free EXCEPT !.pc = "look", !.from = n, !.backup = wanted])
\* from the library, under the long-operation lock
InstallToServer(c, r) == Installing = {} /\ Ask(c, "install", r)
\* from another server, without it
CopyBetweenServers(c, r) == Ask(c, "copy", r)
\* mode replace, with its backup, and mode alongside
Replace == [Free EXCEPT !.pc = "look", !.backup = TRUE]
Alongside(n) == [Free EXCEPT !.pc = "check", !.to = n]

\* isRunning takes an inspection that failed for a server that is not there
SeenStopped == ~live \/ scene.faults

\* the look's answer lets the request go on to step with the given changes
Looks(c, op) == call[c].pc = "look" /\ call[c].op = op /\ SeenStopped
Looked(c, step) == [At(c, step) EXCEPT !.hit = IF live /\ scene.faults THEN {"blind"} ELSE {}]

\* Mutant: the directories are not looked at
NameIsIgnored(n) == TRUE

\* a new name must be free, at this moment
NameIsFree(n) == ~Exists(n)

\* renameWorld
RenameGoes(c) ==
  LET r == call[c]
  IN /\ Looks(c, "rename")
     /\ Exists(r.from)
     /\ NameIsFree(r.to)
     /\ Go(c, [Looked(c, "move") EXCEPT !.todo = Dims(r.from)])
     /\ StandStill

\* setActiveLevel: the property now, LEVEL of a row that has it after an await
SetLevel(c, n, r) ==
  /\ prop' = n
  /\ Go(c, IF r.env # NoName THEN [r EXCEPT !.pc = "env"] ELSE Free)
  /\ raced' = raced \cup Shared({n}, Others(c))

ActivateGoes(c) ==
  LET r == call[c]
  IN /\ Looks(c, "activate")
     /\ Exists(r.from)
     /\ r.from # ActiveLevel(r.env)
     /\ SetLevel(c, r.from, Looked(c, "env"))
     /\ UNCHANGED <<scene, live, plays, env, box, disk, saved, next, unmade>>

ResetGoes(c) ==
  LET n == ActiveLevel(call[c].env)
  IN /\ Looks(c, "reset")
     /\ Exists(n)
     /\ Go(c, [Looked(c, IF call[c].backup THEN "backup" ELSE "remove")
                 EXCEPT !.from = n, !.todo = Dims(n)])
     /\ StandStill

ReplaceGoes(c) ==
  /\ Looks(c, "install") \/ Looks(c, "copy")
  /\ Go(c, [Looked(c, "backup") EXCEPT !.to = ActiveLevel(call[c].env)])
  /\ StandStill

\* the first of the two looks of an editor, before it asks for the guard
EditGoes(c) ==
  LET r == call[c]
  IN /\ Looks(c, "shrink") \/ Looks(c, "chunks")
     /\ Exists(r.from)
     /\ \E todo \in IF r.op = "shrink" THEN {Dims(r.from)} ELSE {{p} : p \in Dims(r.from)} :
          Go(c, [Looked(c, "enter") EXCEPT !.todo = todo])
     /\ StandStill

\* what a request asks for is not there, or its new name is
Unfit(r) ==
  \/ r.op \in Editors \cup {"rename", "activate"} /\ ~Exists(r.from)
  \/ r.op = "rename" /\ Exists(r.to)
  \/ r.op = "activate" /\ r.from = ActiveLevel(r.env)
  \/ r.op = "reset" /\ ~Exists(ActiveLevel(r.env))

\* the server runs, or the request makes no sense
Refused(c) ==
  /\ \/ call[c].pc \in {"look", "recheck"} /\ live
     \/ call[c].pc = "look" /\ Unfit(call[c])
     \/ call[c].pc = "check" /\ Exists(call[c].to)
     \/ call[c].pc = "enter" /\ (Guarded # {} \/ Installing # {})
  /\ Go(c, Free)
  /\ StandStill

-----------------------------------------------------------------------------
(* Requests that do not look *)

\* deleteServerWorld: any world but the active one, of a running server too
DeleteWorld(c, n) ==
  /\ n # Level
  /\ Exists(n)
  /\ Begin(c, "delete", [Free EXCEPT !.pc = "remove", !.from = n, !.todo = Dims(n),
                            !.hit = IF live /\ plays = n THEN {"apart"} ELSE {}])
  /\ StandStill

\* duplicateWorld: the first of the names of copies that is free
DuplicateWorld(c, n, m) ==
  /\ Exists(n)
  /\ NameIsFree(m)
  /\ Begin(c, "duplicate", [Free EXCEPT !.pc = "place", !.from = n, !.to = m,
                               !.todo = Dims(n)])
  /\ StandStill

\* installToServer, mode alongside
AlongsideGoes(c) ==
  /\ call[c].pc = "check"
  /\ NameIsFree(call[c].to)
  /\ Go(c, At(c, "extract"))
  /\ StandStill

-----------------------------------------------------------------------------
(* The guarded editors *)

\* Mutant: an editor waits for starts only
EnterBesideEditors(c) ==
  /\ call[c].pc = "enter"
  /\ ~\E d \in Calls : Starting(d)
  /\ Installing = {}
  /\ Go(c, At(c, "recheck"))
  /\ StandStill

\* guard: no start, no other editor, and no install in progress
EnterGuard(c) ==
  /\ call[c].pc = "enter"
  /\ Guarded = {}
  /\ Installing = {}
  /\ Go(c, At(c, "recheck"))
  /\ StandStill

\* Mutant: the look inside the guard is dropped
StillStoppedUnseen(c) == TRUE

\* the look inside the guard
StillStopped(c) == SeenStopped

Recheck(c) ==
  /\ call[c].pc = "recheck"
  /\ StillStopped(c)
  /\ Go(c, Looked(c, IF call[c].backup THEN "backup" ELSE "edit"))
  /\ StandStill

\* a region file is rewritten, or holds nothing to remove
EditPart(c) ==
  LET r == call[c]  p == Part(r.todo)
  IN /\ r.pc = "edit"
     /\ Go(c, IF r.todo = {p} THEN Free ELSE [r EXCEPT !.todo = @ \ {p}])
     /\ \/ UNCHANGED <<disk, next, raced>>
        \/ /\ disk[r.from][p] # {}
           /\ next <= MaxWorld
           /\ disk' = [disk EXCEPT ![r.from][p] = {next}]
           /\ next' = next + 1
           /\ raced' = raced \cup Shared({r.from}, Others(c))
     /\ UNCHANGED <<scene, live, plays, prop, env, box, saved, unmade>>

-----------------------------------------------------------------------------
(* The long ways through a request *)

\* the step after the backup
AfterBackup(r) == [reset |-> "remove", chunks |-> "edit",
                   install |-> "extract", copy |-> "extract"][r.op]

\* createBackup copies the whole server directory
Backup(c) ==
  /\ call[c].pc = "backup"
  /\ saved' = saved \cup UNION {disk[n][p] : n \in Names, p \in Parts}
  /\ Go(c, [At(c, AfterBackup(call[c])) EXCEPT !.upto = next])
  /\ UNCHANGED <<scene, live, plays, prop, env, box, disk, next, raced, unmade>>

\* Mutant: a backup that fails does not stop the request
BackupShrugged(c) == At(c, AfterBackup(call[c]))

\* a backup that fails stops it
BackupFailed(c) == Free

BackupFails(c) ==
  /\ call[c].pc = "backup"
  /\ scene.faults
  /\ Go(c, BackupFailed(c))
  /\ StandStill

\* the directories of the world in the archive
LibraryParts == IF scene.split THEN Parts ELSE {"main"}

\* the archive is unpacked beside the server; then the old dims are listed
Extract(c) ==
  /\ call[c].pc = "extract"
  /\ Go(c, IF call[c].backup THEN [At(c, "remove") EXCEPT !.todo = Dims(call[c].to)]
           ELSE [At(c, "place") EXCEPT !.todo = LibraryParts])
  /\ StandStill

\* the world a request removes
Doomed(r) == IF r.op \in {"install", "copy"} THEN r.to ELSE r.from
AfterRemove(r) == IF r.op = "reset" THEN [r EXCEPT !.pc = "env", !.todo = {}]
                  ELSE IF r.op = "delete" THEN Free
                  ELSE [r EXCEPT !.pc = "place", !.todo = LibraryParts]

\* one rm -rf
RemovePart(c) ==
  LET r == call[c]  p == Part(r.todo)  n == Doomed(r)
  IN /\ r.pc = "remove"
     /\ disk' = [disk EXCEPT ![n][p] = {}]
     /\ Go(c, IF r.todo = {p} THEN AfterRemove(r) ELSE [r EXCEPT !.todo = @ \ {p}])
     /\ raced' = raced \cup Shared({n}, Others(c))
     /\ unmade' = IF r.op = "reset" THEN unmade \cup {n} ELSE unmade
     /\ UNCHANGED <<scene, live, plays, prop, env, box, saved, next>>

\* an install moves the unpacked files in, which a full directory of dimensions
\* refuses; a duplicate copies, over what it finds
PlacePart(c) ==
  LET r == call[c]  p == Part(r.todo)
      what == IF r.op = "duplicate" THEN disk[r.from][p] ELSE {LibraryWorld}
  IN /\ r.pc = "place"
     /\ what # {}
     /\ r.op = "duplicate" \/ p = "main" \/ disk[r.to][p] = {}
     /\ disk' = [disk EXCEPT ![r.to][p] = @ \cup what]
     /\ Go(c, IF r.todo = {p} THEN Free ELSE [r EXCEPT !.todo = @ \ {p}])
     /\ raced' = raced \cup Shared({r.to}, Others(c)) \cup Tainted(r)
     /\ UNCHANGED <<scene, live, plays, prop, env, box, saved, next, unmade>>

\* renameWorld moves one directory, which must be there, to where none is
MovePart(c) ==
  LET r == call[c]  p == Part(r.todo)
  IN /\ r.pc = "move"
     /\ disk[r.from][p] # {}
     /\ disk[r.to][p] = {}
     /\ disk' = [disk EXCEPT ![r.to][p] = disk[r.from][p], ![r.from][p] = {}]
     /\ Go(c, IF r.todo = {p} THEN [r EXCEPT !.todo = {}, !.pc = "select"]
              ELSE [r EXCEPT !.todo = @ \ {p}])
     /\ raced' = raced \cup Shared({r.from, r.to}, Others(c)) \cup Tainted(r)
     /\ UNCHANGED <<scene, live, plays, prop, env, box, saved, next, unmade>>

\* renameWorld: was it the active one?
Select(c) ==
  LET r == call[c]
  IN /\ r.pc = "select"
     /\ IF r.from = ActiveLevel(r.env) THEN SetLevel(c, r.to, r)
        ELSE Go(c, Free) /\ UNCHANGED <<prop, raced>>
     /\ UNCHANGED <<scene, live, plays, env, box, disk, saved, next, unmade>>

\* Mutant: a rename writes back the old name
NewLevelOld(r) == [rename |-> r.from, activate |-> r.from, reset |-> r.env][r.op]

\* the environment is written back whole: with the new LEVEL, or by a reset
\* that changes the seed with the LEVEL that it read
NewLevel(r) == [rename |-> r.to, activate |-> r.from, reset |-> r.env][r.op]
WriteEnv(c) ==
  LET r == call[c]
  IN /\ r.pc = "env"
     /\ env' \in {NewLevel(r)} \cup {e \in {env} : r.op = "reset"}
     /\ Go(c, Free)
     /\ raced' = raced \cup Shared({ActiveLevel(e) : e \in {env'} \ {env}}, Others(c))
     /\ unmade' = unmade \cup {n \in {prop} : env' = NoName /\ env # NoName /\ ~Exists(n)}
     /\ UNCHANGED <<scene, live, plays, prop, box, disk, saved, next>>

\* a removal, a move or a copy fails between two of its steps: always where
\* what it needs is gone or in its way, on a faulty disk anywhere
StepFails(c) ==
  LET r == call[c]  p == Part(r.todo)
  IN /\ r.pc \in {"extract", "remove", "place", "move", "select", "env", "edit"}
     /\ \/ scene.faults
        \/ r.pc = "move" /\ (disk[r.from][p] = {} \/ disk[r.to][p] # {})
        \/ r.pc = "place" /\ r.op = "duplicate" /\ disk[r.from][p] = {}
        \/ r.pc = "place" /\ r.op # "duplicate" /\ p = "wing" /\ disk[r.to][p] # {}
     /\ raced' = IF r.pc \in {"extract", "edit"} THEN raced ELSE raced \cup Footprint(c)
     /\ Go(c, Free)
     /\ UNCHANGED <<scene, live, plays, prop, env, box, disk, saved, next, unmade>>

Next ==
  \/ RouterStarts \/ ContainerExits \/ Play
  \/ \E level \in Names \cup {NoName} : EditLevel(level)
  \/ \E n \in Names : EditProperty(n)
  \/ \E c \in Calls :
       \/ StartServer(c) \/ Launch(c) \/ LaunchEnds(c)
       \/ \E wanted \in BOOLEAN : ResetWorld(c, wanted)
       \/ InstallToServer(c, Replace) \/ CopyBetweenServers(c, Replace)
       \/ RenameGoes(c) \/ ActivateGoes(c) \/ ResetGoes(c) \/ ReplaceGoes(c) \/ EditGoes(c)
       \/ Refused(c) \/ AlongsideGoes(c) \/ EnterGuard(c) \/ Recheck(c) \/ EditPart(c)
       \/ Backup(c) \/ BackupFails(c) \/ Extract(c) \/ RemovePart(c) \/ PlacePart(c)
       \/ MovePart(c) \/ Select(c) \/ WriteEnv(c) \/ StepFails(c)
       \/ \E n \in Names :
            \/ ActivateWorld(c, n) \/ ShrinkWorld(c, n) \/ DeleteWorld(c, n)
            \/ InstallToServer(c, Alongside(n)) \/ CopyBetweenServers(c, Alongside(n))
            \/ \E wanted \in BOOLEAN : DeleteChunks(c, n, wanted)
            \/ \E m \in Names : RenameWorld(c, n, m) \/ DuplicateWorld(c, n, m)

Spec == Init /\ [][Next]_worldVars

-----------------------------------------------------------------------------
(* Properties *)

\* how the server may have come up under a request that has seen it stopped
Excuses(op) ==
  CASE op \in Editors    -> {"woken", "blind"}
    [] op = "install"    -> {"woken", "blind", "inflight"}
    [] op = "delete"     -> {"woken", "inflight", "start", "apart"}
    [] OTHER             -> {"woken", "blind", "inflight", "start"}

\* A world that the server is playing loses files to a request only where the
\* server came up under it in a way its locks do not forbid: an editor of
\* region files only where mc-router woke the server or Docker did not answer
\* the look, an install from the library also for a start that was in flight
\* before it, a deletion where the level was edited while the server ran.
LiveWorldsAreLeftAlone ==
  [][\A c \in Calls :
       /\ live /\ call'[c] # call[c]
       /\ \E p \in Parts : ~(disk[plays][p] \subseteq disk'[plays][p])
       => call[c].hit \cap Excuses(call[c].op) # {}]_worldVars

\* What a reset, a replacing install or a chunk edit with a backup takes off
\* the disk is in a backup, unless something else worked on that world at the
\* same time and wrote it after the backup was made.
BackupCovers ==
  [][\A c \in Calls :
       call[c].backup /\ call[c].pc \in {"remove", "edit"} /\ call'[c] # call[c]
       => \A p \in Parts :
            LET n == Doomed(call[c])
            IN \A w \in disk[n][p] \ disk'[n][p] :
                 w \in saved \cup {LibraryWorld} \/ (n \in raced /\ w >= call[c].upto)]_worldVars

Quiet == \A c \in Calls : call[c].pc = "idle"

\* Between requests the active level has a world; or the next start is to make
\* it, of a reset, of an edit of LEVEL or level-name to a name without one or
\* of a reset that wrote back a row from before LEVEL was set; or two requests
\* (or a failing one) worked on that name at once.
LevelHasItsWorld ==
  Quiet /\ ~Exists(Level) => Level \in raced \cup unmade

\* A directory holds one world, and no split dimension outlives the world it
\* belongs to, where requests for that name did not overlap or fail.
WorldsStayWhole ==
  \A n \in Names \ raced :
    /\ \A p \in Parts : Cardinality(disk[n][p]) <= 1
    /\ Quiet /\ disk[n]["wing"] # {} => Exists(n)

(* Starts, the two editors and the installs use the two locks of a server  *)
(* the way ServerLocks says: one start or editor is inside guard at a time *)
(* ("no start/stop/restart/recreate (and no second shrink) can             *)
(* interleave"), each takes the entry from nobody and gives back its own,  *)
(* and one install at a time holds the long-operation lock.                *)
GuardOp(c) == IF call[c].op = "chunks" THEN "chunk-edit" ELSE call[c].op
GuardEntry == IF Guarded = {} THEN [op |-> "none", owner |-> NoCall]
              ELSE LET c == CHOOSE d \in Guarded : TRUE
                   IN [op |-> GuardOp(c), owner |-> c]
LockActive == IF Installing = {} THEN "none" ELSE "installing-world"
LockPhase == LET holders == Guarded
             IN [c \in Calls |-> IF c \in holders THEN "running" ELSE "out"]
Locks == INSTANCE ServerLocks
           WITH inFlight <- GuardEntry, active <- LockActive, phase <- LockPhase
ImplementsLocks == Locks!Spec
=============================================================================

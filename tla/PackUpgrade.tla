---------------------------- MODULE PackUpgrade ----------------------------
(***************************************************************************)
(* The modpack of one server: applying a pack by hand, the upgrade with    *)
(* its backup and the rollback that undoes it (PacksController,            *)
(* UpdateUpgradeService, PacksService.applyPack), beside starts, stops,    *)
(* backups and edits of the environment by users.                          *)
(*                                                                         *)
(* The version that runs is written down in three places: the row's        *)
(* environment (pin), the table of packs (pack), and the container that    *)
(* was built from the row (built).  The world remembers a fourth, the      *)
(* newest version that has run it.  The row is written without the table   *)
(* by whoever edits its environment.  None of the three requests excludes  *)
(* the others, but for an upgrade that finds another one under way; the    *)
(* stops, recreates and starts they are made of go through the guard.      *)
(***************************************************************************)
EXTENDS Naturals, Sequences

CONSTANTS Calls,       \* the requests in progress
          MaxVersion,  \* the newest version of the pack
          MaxBackups,  \* bound on the backups made
          Scenes       \* the situations a behaviour may be in

Kinds == {"apply", "upgrade", "rollback"}
\* fields of a scene: the requests made, whether an upgrade may go back to an
\* older version and without a backup, whether users start and stop the server
\* and back it up, whether they edit its environment, whether disk, registry and
\* Docker fail, and a bound on the requests
ASSUME PackAssumption ==
  /\ MaxVersion \in Nat \ {0}
  /\ MaxBackups \in Nat
  /\ Scenes \subseteq [kinds : SUBSET Kinds, free : BOOLEAN, users : BOOLEAN,
                       edits : BOOLEAN, faults : BOOLEAN, asks : Nat]

VARIABLES scene,
          pin,      \* the version in the row's environment
          pending,  \* pendingRecreate
          pack,     \* the server_packs row
          built,    \* the version the container was built with
          live,     \* it runs
          world,    \* the newest version that ran the world, 0 when there is none
          backups,  \* what the backups hold, by age
          newest,   \* the newest of them made before an update, or None
          op,       \* the guard's entry
          active,   \* activeUpgrades has an entry
          call,     \* the requests
          asked,    \* how many there were
          unpinned, \* history: the backups of no upgrade that has pinned its version
          doubts    \* history: what came between the world and the pack

packVars == <<scene, pin, pending, pack, built, live, world, backups, newest, op,
              active, call, asked, unpinned, doubts>>

Versions == 1..MaxVersion
None == 0

Steps == {"idle", "read", "resolve", "backup", "stop", "previous", "row", "pack",
          "recreate", "start", "monitor", "overlay", "stopAgain",
          "look", "extract"}

\* torn, of row and table, ends with the next whole write; the others stay
Doubts == {"torn", "edited", "bare", "stray", "mixed", "stale"}

\* seen is the pinned version read, previous the one applyPack read, target the
\* one to pin, backup the one to restore or the one just made, alone that no
\* other request wrote the pack meanwhile
Free == [kind |-> "none", pc |-> "idle", was |-> FALSE, skip |-> FALSE,
         seen |-> None, previous |-> None, target |-> None, backup |-> None,
         alone |-> TRUE]

NoOp == [kind |-> "none", by |-> {}, pin |-> None, rebuild |-> FALSE]

TypeOK ==
  /\ scene \in Scenes
  /\ {pin, built} \subseteq Versions
  /\ {pending, live, active} \subseteq BOOLEAN
  /\ pack \in [pinned : Versions, previous : Versions \cup {None}]
  /\ world \in Versions \cup {None}
  /\ backups \in Seq(Versions \cup {None})
  /\ Len(backups) <= MaxBackups
  /\ newest \in 0..Len(backups)
  /\ op \in [kind : {"none", "stop", "recreate", "start"}, by : SUBSET Calls,
             pin : Versions \cup {None}, rebuild : BOOLEAN]
  /\ call \in [Calls -> [kind : Kinds \cup {"none"}, pc : Steps, was : BOOLEAN,
                         skip : BOOLEAN, seen : Versions \cup {None},
                         previous : Versions \cup {None},
                         target : Versions \cup {None}, backup : 0..MaxBackups,
                         alone : BOOLEAN]]
  /\ asked \in 0..scene.asks
  /\ unpinned \subseteq 1..MaxBackups
  /\ doubts \subseteq Doubts

-----------------------------------------------------------------------------
(* The server and its guard *)

MaxOf(a, b) == IF a > b THEN a ELSE b
Others(c) == Calls \ {c}
\* one of the requests ds is between the two writes of applyPack
Writing(ds) == \E d \in ds : call[d].pc = "pack"
\* the pack's row is the one that goes with the pin
Settled == ~Writing(Calls) /\ "torn" \notin doubts

At(r, step) == [r EXCEPT !.pc = step]

\* where each request goes on after a step of the server that went well
After(r) ==
  IF r.pc = "recreate" THEN At(r, "start")
  ELSE IF r.pc = "start" /\ r.kind = "upgrade" THEN At(r, "monitor")
  ELSE IF r.pc = "start" THEN Free
  ELSE IF r.kind = "upgrade" THEN At(r, "previous")
  ELSE IF r.pc = "stopAgain" THEN At(r, "look")
  ELSE At(r, IF r.backup = None THEN "resolve" ELSE "stopAgain")

\* and after one that was refused or failed: a rollback swallows that of a stop
AfterFailure(r) ==
  IF r.kind = "rollback" /\ r.pc \in {"stop", "stopAgain"} THEN After(r) ELSE Free

Init ==
  /\ scene \in Scenes
  /\ pin = 1
  /\ pending = FALSE
  /\ pack = [pinned |-> 1, previous |-> None]
  /\ built = 1
  /\ live \in BOOLEAN
  /\ world = 1
  /\ backups = <<>>
  /\ newest = None
  /\ op = NoOp
  /\ active = FALSE
  /\ call = [c \in Calls |-> Free]
  /\ asked = 0
  /\ unpinned = {}
  /\ doubts = {}

\* the upgrades that have entered activeUpgrades and not returned
Upgrading(calls) == {c \in Calls : calls[c].kind = "upgrade" /\ calls[c].pc \notin {"idle", "read"}}

\* step sets the entry, in whichever upgrade it is called
StepNames == {"resolve", "backup", "stop", "previous", "recreate", "monitor", "overlay"}
Announced(calls) ==
  \E c \in Calls : /\ calls[c].kind = "upgrade" /\ calls[c].pc \in StepNames
                  /\ calls[c].pc # call[c].pc

\* Mutant: only an upgrade that comes up healthy cleans up
ReleasedOnSuccess(calls) ==
  \/ Announced(calls)
  \/ active /\ \A c \in Upgrading(call) : calls[c] = Free => call[c].pc # "overlay"

\* and the finally of an upgrade that returns deletes it, whosever it is
Released(calls) ==
  Announced(calls) \/ (active /\ \A c \in Upgrading(call) : calls[c] # Free)

\* the calls become calls; those of them that went on or returned say so
Resume(calls) == call' = calls /\ active' = Released(calls)
Go(c, r) == Resume([call EXCEPT ![c] = r])
Return(c) == Go(c, Free)

\* guard lets one operation in; the row is read under it
Entry(kind, by) ==
  [kind |-> kind, by |-> by, pin |-> pin, rebuild |-> kind = "recreate" \/ pending]

ServerStill == UNCHANGED <<pending, built, live, world>>
RestStill == UNCHANGED <<scene, pin, pack, backups, newest, asked, unpinned>>

\* a user starts, stops or recreates the server
UserOperates(kind) ==
  /\ scene.users
  /\ op.kind = "none"
  /\ op' = Entry(kind, {})
  /\ ServerStill /\ RestStill /\ UNCHANGED <<active, call, doubts>>

\* a request stops, recreates or starts it, or joins the start there is
OpOf(r) == [stop |-> "stop", stopAgain |-> "stop", recreate |-> "recreate",
            start |-> "start"][r.pc]
AtOp(c) == call[c].pc \in {"stop", "stopAgain", "recreate", "start"} /\ c \notin op.by
\* wasRunning decides before the backup whether an upgrade stops the server
Skips(r) == r.kind = "upgrade" /\ r.pc = "stop" /\ ~r.was

RequestOperates(c) ==
  /\ AtOp(c)
  /\ ~Skips(call[c])
  /\ \/ op.kind = "none" /\ op' = Entry(OpOf(call[c]), {c})
     \/ op.kind = "start" /\ OpOf(call[c]) = "start" /\ op' = [op EXCEPT !.by = @ \cup {c}]
  /\ ServerStill /\ RestStill /\ UNCHANGED <<active, call, doubts>>

\* the guard refuses it
RequestRefused(c) ==
  /\ AtOp(c)
  /\ ~Skips(call[c])
  /\ op.kind # "none"
  /\ ~(op.kind = "start" /\ OpOf(call[c]) = "start")
  /\ Go(c, AfterFailure(call[c]))
  /\ ServerStill /\ RestStill /\ UNCHANGED <<op, doubts>>

StopSkipped(c) ==
  /\ AtOp(c)
  /\ Skips(call[c])
  /\ Go(c, At(call[c], "previous"))
  /\ ServerStill /\ RestStill /\ UNCHANGED <<op, doubts>>

\* requests that have wiped the world and not yet pinned the version for it
Undoing(c) == call[c].kind = "rollback" /\ call[c].pc \in {"extract", "resolve", "previous", "row"}

\* the container comes up with version v
Boots(v) ==
  /\ world' = MaxOf(world, v)
  /\ doubts' = IF v # pin \/ \E c \in Calls : Undoing(c) THEN doubts \cup {"mixed"} ELSE doubts

OpEnds ==
  /\ op.kind # "none"
  /\ op' = NoOp
  /\ LET up == op.kind = "start" \/ (op.kind = "recreate" /\ live)
         v == IF op.rebuild THEN op.pin ELSE built
     IN /\ built' = IF op.kind = "stop" THEN built ELSE v
        /\ pending' = (pending /\ (op.kind = "stop" \/ ~op.rebuild))
        /\ live' = up
        /\ IF up THEN Boots(v) ELSE UNCHANGED <<world, doubts>>
  /\ Resume([c \in Calls |-> IF c \in op.by THEN After(call[c]) ELSE call[c]])
  /\ RestStill

\* Docker fails; where the old container was removed already it is gone
OpFails ==
  /\ op.kind # "none"
  /\ scene.faults
  /\ op' = NoOp
  /\ \/ ServerStill
     \/ /\ op.rebuild /\ op.kind # "stop"
        /\ live' = FALSE
        /\ pending' = TRUE
        /\ UNCHANGED <<built, world>>
  /\ Resume([c \in Calls |-> IF c \in op.by THEN AfterFailure(call[c]) ELSE call[c]])
  /\ RestStill /\ UNCHANGED doubts

Exits ==
  /\ live
  /\ scene.users
  /\ live' = FALSE
  /\ UNCHANGED <<pending, built, world, op, active, call, doubts>>
  /\ RestStill

-----------------------------------------------------------------------------
(* The requests *)

\* A user or the scheduler backs the server up.
UserBackup ==
  /\ scene.users
  /\ Len(backups) < MaxBackups
  /\ backups' = Append(backups, world)
  /\ unpinned' = unpinned \cup {Len(backups) + 1}
  /\ ServerStill
  /\ UNCHANGED <<scene, pin, pack, newest, op, active, call, asked, doubts>>

\* updateServer writes an environment that names another version: a user's, or
\* a stale one that a change of the active world writes back
EditEnv(v) ==
  /\ scene.edits
  /\ v # pin
  /\ pin' = v
  /\ pending' = TRUE
  /\ doubts' = doubts \cup {"torn", "edited"}
  /\ UNCHANGED <<scene, pack, built, live, world, backups, newest, op, active, call,
                 asked, unpinned>>

\* the row, its container and the operations on them stay as they are
Apart == ServerStill /\ UNCHANGED <<scene, pin, op>>

Begin(c, r) ==
  /\ call[c].pc = "idle"
  /\ r.kind \in scene.kinds
  /\ asked < scene.asks
  /\ asked' = asked + 1
  /\ Go(c, r)
  /\ Apart /\ UNCHANGED <<pack, backups, newest, unpinned, doubts>>

\* the route resolves the version, then applies it
ApplyToServer(c, v) ==
  /\ scene.free \/ v > pin
  /\ Begin(c, [Free EXCEPT !.kind = "apply", !.pc = "resolve", !.target = v])

\* upgradePack looks for an entry and reads row and pack after it
UpgradePack(c, v, skip) ==
  /\ ~active
  /\ scene.free \/ (v > pin /\ ~skip)
  /\ Begin(c, [Free EXCEPT !.kind = "upgrade", !.pc = "read", !.target = v, !.skip = skip])

\* rollbackPack's route takes the backup the client names, any of the server's,
\* or picks the newest pre-update one, whosever it is
Choices == {newest} \cup 1..Len(backups)
RollbackPack(c, b) ==
  Begin(c, [Free EXCEPT !.kind = "rollback", !.pc = "read", !.backup = b])

\* the status it reads with the row may lag behind the container either way
ReadForUpgrade(c, was) ==
  /\ call[c].pc = "read" /\ call[c].kind = "upgrade"
  /\ Go(c, [At(call[c], "resolve") EXCEPT !.was = was, !.seen = pack.pinned])
  /\ Apart /\ UNCHANGED <<pack, backups, newest, asked, unpinned, doubts>>

ReadForRollback(c) ==
  /\ call[c].pc = "read" /\ call[c].kind = "rollback"
  /\ Go(c, IF pack.previous = None THEN Free
           ELSE [At(call[c], "stop") EXCEPT !.target = pack.previous,
                   !.alone = Settled])
  /\ Apart /\ UNCHANGED <<pack, backups, newest, asked, unpinned, doubts>>

\* the registry resolves the version; an upgrade to the one there is ends here
Resolve(c) ==
  LET r == call[c]
  IN /\ r.pc = "resolve"
     /\ Go(c, IF r.kind # "upgrade" THEN At(r, "previous")
                 ELSE IF r.target = r.seen THEN Free
                 ELSE At(r, IF r.skip THEN "stop" ELSE "backup"))
     /\ Apart /\ UNCHANGED <<pack, backups, newest, asked, unpinned, doubts>>

\* createBackup, of a running server too
Backup(c) ==
  /\ call[c].pc = "backup"
  /\ Len(backups) < MaxBackups
  /\ backups' = Append(backups, world)
  /\ newest' = Len(backups) + 1
  /\ unpinned' = unpinned \cup {Len(backups) + 1}
  /\ Go(c, [At(call[c], "stop") EXCEPT !.backup = Len(backups) + 1])
  /\ Apart /\ UNCHANGED <<pack, asked, doubts>>

\* restoreBackup looks at the container once, after its stop
LooksStopped(c) == call[c].pc = "look" /\ ~live

\* then it wipes the directory
Look(c) ==
  /\ LooksStopped(c)
  /\ world' = None
  /\ Go(c, At(call[c], "extract"))
  /\ UNCHANGED <<scene, pin, pending, pack, built, live, backups, newest, op, asked,
                 unpinned, doubts>>

LooksLive(c) ==
  /\ call[c].pc = "look"
  /\ live
  /\ Return(c)
  /\ Apart /\ UNCHANGED <<pack, backups, newest, asked, unpinned, doubts>>

\* and fills it, over what a server that came up on it has made
Extract(c) ==
  LET r == call[c]
  IN /\ r.pc = "extract"
     /\ world' = MaxOf(world, backups[r.backup])
     /\ Go(c, At(r, "resolve"))
     /\ doubts' = IF r.backup \in unpinned THEN doubts \cup {"stray"} ELSE doubts
     /\ UNCHANGED <<scene, pin, pending, pack, built, live, backups, newest, op, asked, unpinned>>

\* applyPack: the pack's row, then the server's, then the pack's again
ReadPrevious(c) ==
  /\ call[c].pc = "previous"
  /\ Go(c, [At(call[c], "row") EXCEPT !.previous = pack.pinned, !.alone = @ /\ Settled])
  /\ Apart /\ UNCHANGED <<pack, backups, newest, asked, unpinned, doubts>>

WriteRow(c) ==
  LET r == call[c]
  IN /\ r.pc = "row"
     /\ pin' = r.target
     /\ pending' = TRUE
     /\ call' = [d \in Calls |-> IF d = c THEN At(r, "pack")
                                 ELSE IF call[d].pc = "idle" THEN call[d]
                                 ELSE [call[d] EXCEPT !.alone = FALSE]]
     /\ unpinned' = IF r.kind = "upgrade" THEN unpinned \ {r.backup} ELSE unpinned
     /\ doubts' = doubts \cup {d \in {"torn"} : Writing(Others(c))}
                         \cup {d \in {"stale"} : ~r.alone}
                         \cup {d \in {"bare"} : r.kind = "rollback" /\ r.backup = None}
     /\ UNCHANGED <<scene, pack, built, live, world, backups, newest, op, active, asked>>

\* Mutant: the version before is kept from the time before
RecordedOnce(r) == IF pack.previous = None THEN r.previous ELSE pack.previous

\* the version that a rollback will pin
Recorded(r) == r.previous

\* Mutant: a pack that is there already keeps its version
PinnedOnce(r) == IF r.kind = "rollback" THEN pack.pinned ELSE r.target

Pinned(r) == r.target

\* the controller's apply ends here, the other two rebuild the server
WritePack(c) ==
  LET r == call[c]
  IN /\ r.pc = "pack"
     /\ pack' = [pinned |-> Pinned(r), previous |-> Recorded(r)]
     /\ Go(c, IF r.kind = "apply" THEN Free ELSE At(r, "recreate"))
     /\ doubts' = IF pin = r.target /\ ~Writing(Others(c)) THEN doubts \ {"torn"} ELSE doubts
     /\ Apart /\ UNCHANGED <<backups, newest, asked, unpinned>>

\* healthy for a while the upgrade puts its mods back and is over; not healthy by
\* the deadline it is over at once
Monitor(c) ==
  /\ call[c].pc = "monitor"
  /\ Go(c, At(call[c], "overlay")) \/ Return(c)
  /\ Apart /\ UNCHANGED <<pack, backups, newest, asked, unpinned, doubts>>

Overlay(c) ==
  /\ call[c].pc = "overlay"
  /\ Return(c)
  /\ Apart /\ UNCHANGED <<pack, backups, newest, asked, unpinned, doubts>>

\* the registry, the disk or the database fails
StepFails(c) ==
  /\ scene.faults
  /\ call[c].pc \in {"read", "resolve", "backup", "extract", "previous", "row", "pack"}
  /\ Return(c)
  /\ doubts' = IF call[c].pc = "pack" THEN doubts \cup {"torn"} ELSE doubts
  /\ Apart /\ UNCHANGED <<pack, backups, newest, asked, unpinned>>

Step(c) ==
  \/ RequestOperates(c) \/ RequestRefused(c) \/ StopSkipped(c)
  \/ (\E was \in BOOLEAN : ReadForUpgrade(c, was)) \/ ReadForRollback(c) \/ Resolve(c) \/ Backup(c)
  \/ Look(c) \/ LooksLive(c) \/ Extract(c)
  \/ ReadPrevious(c) \/ WriteRow(c) \/ WritePack(c)
  \/ Monitor(c) \/ Overlay(c) \/ StepFails(c)

Next ==
  \/ \E kind \in {"start", "stop", "recreate"} : UserOperates(kind)
  \/ OpEnds \/ OpFails \/ Exits \/ UserBackup
  \/ \E v \in Versions : EditEnv(v)
  \/ \E c \in Calls :
       \/ Step(c)
       \/ \E b \in Choices : RollbackPack(c, b)
       \/ \E v \in Versions : ApplyToServer(c, v)
                              \/ \E skip \in BOOLEAN : UpgradePack(c, v, skip)

Spec == Init /\ [][Next]_packVars

-----------------------------------------------------------------------------
(* Properties *)

\* The environment that runs and the table of packs name the same version,
\* between the two writes of a request and but for two that wrote across each
\* other, one that failed half-way or an edit of the environment, which leaves
\* the table alone; the next whole request repairs all three.
PinsAgree ==
  "torn" \in doubts \/ Writing(Calls) \/ pin = pack.pinned

\* docs/updates.md: an upgrade is always reversible.  Where versions only go up
\* and every upgrade makes its backup, the server never runs a version older
\* than one that has run its world, whichever of the upgrades' backups a rollback
\* is told to restore, but after an edit of the environment's version, a rollback
\* without a backup, with one of no upgrade that pinned a version, with a start
\* of the server across it, or where two requests pinned over each other.
WorldFitsPack ==
  live /\ ~scene.free /\ doubts \subseteq {"torn"} => world <= built

\* An entry of activeUpgrades belongs to an upgrade that will delete it: none
\* is left behind that would refuse every later upgrade.
EntryHasItsUpgrade == active => Upgrading(call) # {}
=============================================================================

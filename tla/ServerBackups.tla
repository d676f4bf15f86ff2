---------------------------- MODULE ServerBackups ----------------------------
(***************************************************************************)
(* The backups of one server: BackupsService (create, restore, delete and  *)
(* the retention passes) and WorldSaveLockService, whose lock the world    *)
(* exports share: one of those is a backup that is discarded at the end.   *)
(* Every await of the service is a point where another call, the server or *)
(* its users may act.                                                      *)
(*                                                                         *)
(* A world is a version number, 0 an empty directory; an archive holds the *)
(* version it was cut from.  Free-space checks, labels and events are left *)
(* out.                                                                    *)
(***************************************************************************)
EXTENDS Integers, Sequences, FiniteSets, FiniteSetsExt, Callers

CONSTANTS Ids,          \* nanoid's names for archives; random, so no order of making
          Keep,         \* how many backups each bucket keeps
          Sizes,        \* archive sizes
          Scenes,       \* what may happen in a behaviour, see below
          MaxNow,       \* bound on the clock, in created_at's seconds
          MaxWrites     \* bound on how often the server changes its world

Reasons == {"scheduled", "pre-update", "manual", "pre-restore"}

\* RETENTION_BUCKETS in their order, then the two ceilings
Passes == <<"scheduled", "pre-update", "manual", "pre-restore", "age", "size">>

ASSUME BackupsAssumption ==
  /\ Ids \subseteq Nat
  /\ Keep \in [Reasons -> Nat \ {0}]
  /\ Sizes \subseteq Nat
  /\ MaxNow \in Nat
  /\ MaxWrites \in Nat \ {0}

(* A scene fixes the admin's ceilings (0 is off), and bounds what is asked *)
(* for and what fails: the reasons and kinds of calls, the faults of the   *)
(* disk, of RCON and of the panel itself, the archives that can be made,   *)
(* the worlds there can be, and whether the server is started at all.      *)
Scene == [age : Nat, size : Nat, taken : SUBSET Reasons,
          kinds : SUBSET {"backup", "restore", "delete"},
          faults : SUBSET {"rcon", "disk", "crash"},
          ids : SUBSET Ids, ticks : 0..MaxNow, writes : 1..MaxWrites,
          starts : BOOLEAN]

ASSUME ScenesAssumption == Scenes \subseteq Scene

VARIABLES rows,         \* the backups table
          files,        \* the archives on disk
          scene,        \* the scene, and the bounds
          now,
          live,         \* the container runs
          saving,       \* the world is written as it changes (save-on)
          world,        \* what the server directory holds
          writes,       \* how many worlds there have been
          tail,         \* the save lock: the holder, and who waits behind it
          call,         \* for each caller, where its operation stands
          made,         \* history: every row ever inserted
          discarded,    \* history: what users asked to delete
          stuck         \* history: a save-on went unanswered or was never sent

serverVars == <<live, saving, world, writes>>
storeVars == <<rows, files, made, discarded>>
vars == <<rows, files, scene, now, live, saving, world, writes, tail, call,
          made, discarded, stuck>>

Rows == [id : Ids, reason : Reasons, at : 0..MaxNow, size : Sizes]
Archives == [id : Ids, world : 0..MaxWrites]
Disturbances == {"write", "restart", "restore"}

Idle == [pc |-> "idle", kind |-> "none", reason |-> "manual", id |-> {},
         target |-> {}, safety |-> FALSE, lock |-> "none",
         torn |-> {}, pass |-> 1, left |-> {}, before |-> 0, after |-> {}]

Operations ==
  [pc : {"idle", "queued", "zip", "resume", "fail", "record", "prune", "drop", "dropRow",
         "stop", "safety", "wipe", "extract"},
   kind : {"none", "backup", "restore", "delete"}, reason : Reasons,
   id : SUBSET Ids, target : SUBSET Ids, safety : BOOLEAN,
   lock : {"none", "locked", "paused"}, torn : SUBSET Disturbances,
   pass : 1..6, left : SUBSET Rows, before : 0..MaxWrites,
   after : SUBSET Disturbances]

TypeOK == /\ rows \subseteq Rows
          /\ files \subseteq Archives
          /\ scene \in Scenes
          /\ now \in 0..MaxNow
          /\ live \in BOOLEAN
          /\ saving \in BOOLEAN
          /\ world \in 0..MaxWrites
          /\ writes \in 1..MaxWrites
          /\ tail \in Seq(Calls)
          /\ call \in [Calls -> Operations]
          /\ made \subseteq Rows
          /\ discarded \subseteq Ids
          /\ stuck \in BOOLEAN

Init == /\ rows = {} /\ files = {} /\ made = {} /\ discarded = {}
        /\ scene \in Scenes
        /\ now = 0
        /\ live = scene.starts
        /\ saving = TRUE
        /\ world = 1 /\ writes = 1
        /\ tail = <<>>
        /\ call = [c \in Calls |-> Idle]
        /\ stuck = FALSE

-----------------------------------------------------------------------------
(* The retention order.  created_at has seconds, the id breaks the ties.   *)

\* Mutant: the rows are read oldest first
Older(a, b) == a.at < b.at \/ (a.at = b.at /\ a.id < b.id)

\* orderBy(desc(createdAt), desc(id))
Newer(a, b) == a.at > b.at \/ (a.at = b.at /\ a.id > b.id)
Newest(S) == {r \in S : \A s \in S : ~Newer(s, r)}

\* the sum of the sizes, counted out unit by unit
Units(S) == UNION {{r} \X (1..r.size) : r \in S}
Total(S) == Cardinality(Units(S))

Rank(r) == CASE r.reason = "pre-restore" -> 0
             [] r.reason = "scheduled" -> 1
             [] OTHER -> 2

\* the size pass sacrifices a before b
Sooner(a, b) == \/ Rank(a) < Rank(b)
                \/ Rank(a) = Rank(b) /\ a.at < b.at
                \/ Rank(a) = Rank(b) /\ a.at = b.at /\ a.id > b.id

\* Mutant: one row too many is sliced off
StaleOneMore(S, keep) == {r \in S : Cardinality({s \in S : Newer(s, r)}) >= keep - 1}

\* rows.slice(keep), of rows sorted newest first
Stale(S, keep) == {r \in S : Cardinality({s \in S : Newer(s, r)}) >= keep}

TooOld(S) == {r \in S \ Newest(S) : r.at + scene.age < now}

\* Mutant: the newest backup is a candidate like any other
TooBigOfAll(S) ==
  {r \in S : Total(S) - Total({s \in S : Sooner(s, r)}) > scene.size}

\* `total` goes down with every candidate, dropped or not
TooBig(S) == LET spare == S \ Newest(S)
             IN {r \in spare : Total(S) - Total({s \in spare : Sooner(s, r)}) > scene.size}

\* what one pass means to drop, of the rows it has just read
Candidates(pass) ==
  CASE pass = "age" -> IF scene.age > 0 THEN TooOld(rows) ELSE {}
    [] pass = "size" -> IF scene.size > 0 THEN TooBig(rows) ELSE {}
    [] OTHER -> Stale({r \in rows : r.reason = pass}, Keep[pass])

\* the candidate a pass comes to next
First(pass, S) == {r \in S : \A s \in S : ~(IF pass = "size" THEN Sooner(s, r) ELSE Newer(s, r))}

-----------------------------------------------------------------------------
Goes(c, pc) == call' = [call EXCEPT ![c].pc = pc]

\* the restore's safety copy is done and the directory not wiped yet
CopiedAlready(c) ==
  call[c].safety /\ call[c].pc \in {"resume", "record", "prune", "drop", "dropRow", "wipe"}

\* everyone who is copying the directory copies d along with it; a restore
\* that made its safety copy misses d (history)
Disturbed(d) == [c \in Calls |->
  IF call[c].pc = "zip" THEN [call[c] EXCEPT !.torn = @ \cup {d}]
  ELSE IF CopiedAlready(c) THEN [call[c] EXCEPT !.after = @ \cup {d}] ELSE call[c]]

\* a user's restore holds the long-operation lock; a rollback's does not
Restoring == \E c \in Calls : call[c].kind = "restore" /\ call[c].safety

FreshId == scene.ids \ ({r.id : r \in made} \cup {f.id : f \in files}
                   \cup UNION {call[c].id : c \in Calls})

\* createBackup, and an export, up to the archive: a server seen running
\* queues for the save lock, a stopped one is copied at once
BeginCopy(c, kind, reason, target, safety) ==
  \E i \in FreshId :
    /\ call' = [call EXCEPT ![c] =
         [Idle EXCEPT !.pc = IF live THEN "queued" ELSE "zip", !.kind = kind,
                      !.reason = reason, !.id = {i}, !.target = target,
                      !.safety = safety, !.lock = IF live THEN "locked" ELSE "none"]]
    /\ tail' = IF live THEN Append(tail, c) ELSE tail

AskBackup(c) ==
  /\ "backup" \in scene.kinds /\ call[c].pc = "idle"
  /\ \E reason \in scene.taken : BeginCopy(c, "backup", reason, {}, FALSE)
  /\ UNCHANGED <<rows, files, scene, now, live, saving, world, writes, made,
                 discarded, stuck>>

\* Mutant: the sections of two callers are not serialized
TurnAnyone(c) == TRUE

Turn(c) == tail # <<>> /\ Head(tail) = c

\* save-off and save-all flush; an unanswered save-off only marks the archive
PauseSaves(c) ==
  /\ call[c].pc = "queued" /\ Turn(c)
  /\ \/ /\ live
        /\ saving' = FALSE
        /\ call' = [call EXCEPT ![c].pc = "zip", ![c].lock = "paused"]
     \/ /\ ~live \/ "rcon" \in scene.faults
        /\ saving' = saving
        /\ Goes(c, "zip")
  /\ UNCHANGED <<rows, files, scene, now, live, world, writes, tail, made,
                 discarded, stuck>>

\* the call once its copy has ended: the archive's checks, or its failure
Copied(c, ok) == IF ok THEN [call[c] EXCEPT !.pc = "record", !.lock = "none",
                                            !.torn = {}]
                 ELSE Idle

\* the copy is done: the archive is there, or a fault has removed it; the
\* save lock's section has its finally to go through
FinishZip(c) ==
  /\ call[c].pc = "zip"
  /\ \E ok \in BOOLEAN :
       /\ ok \/ "disk" \in scene.faults
       /\ call' = [call EXCEPT ![c] = IF @.lock # "none"
                                      THEN [@ EXCEPT !.pc = IF ok THEN "resume" ELSE "fail"]
                                      ELSE Copied(c, ok)]
       /\ files' = files \cup {[id |-> i, world |-> world] : i \in {j \in call[c].id : ok}}
  /\ UNCHANGED <<rows, scene, now, live, saving, world, writes, tail, made,
                 discarded, stuck>>

\* Mutant: save-on is sent after a copy that worked only
ResumeSavesUnlessFailed(c) ==
  /\ call[c].pc \in {"resume", "fail"}
  /\ tail' = Tail(tail)
  /\ call' = [call EXCEPT ![c] = Copied(c, @.pc = "resume")]
  /\ saving' = (saving \/ call[c].pc = "resume")
  /\ UNCHANGED <<rows, files, scene, now, live, world, writes, made, discarded, stuck>>

\* Mutant: a section that failed never lets the next one in
ResumeSavesKeepsLock(c) ==
  /\ call[c].pc \in {"resume", "fail"}
  /\ tail' = IF call[c].pc = "fail" THEN tail ELSE Tail(tail)
  /\ call' = [call EXCEPT ![c] = Copied(c, @.pc = "resume")]
  /\ saving' = (saving \/ live)
  /\ UNCHANGED <<rows, files, scene, now, live, world, writes, made, discarded, stuck>>

\* the finally: save-on, its failure swallowed, and the lock's next holder
ResumeSaves(c) ==
  /\ call[c].pc \in {"resume", "fail"}
  /\ tail' = Tail(tail)
  /\ call' = [call EXCEPT ![c] = Copied(c, @.pc = "resume")]
  /\ \/ live /\ saving' = TRUE /\ stuck' = FALSE
     \/ /\ ~live \/ "rcon" \in scene.faults
        /\ saving' = saving
        /\ stuck' = (stuck \/ ~saving)
  /\ UNCHANGED <<rows, files, scene, now, live, world, writes, made, discarded>>

RowOf(c, i, s) == [id |-> i, reason |-> call[c].reason, at |-> now, size |-> s]

\* the archive is read back, and becomes a row or is discarded; a failed
\* insert leaves the archive without one
Record(c) ==
  /\ call[c].pc = "record"
  /\ \/ \E i \in call[c].id, s \in Sizes :
          /\ rows' = rows \cup {RowOf(c, i, s)}
          /\ made' = made \cup {RowOf(c, i, s)}
          /\ call' = [call EXCEPT ![c].pc = "prune"]
          /\ files' = files
     \/ /\ "disk" \in scene.faults
        /\ files' \in {files, {f \in files : f.id \notin call[c].id}}
        /\ call' = [call EXCEPT ![c] = Idle]
        /\ UNCHANGED <<rows, made>>
  /\ UNCHANGED <<scene, now, live, saving, world, writes, tail, discarded, stuck>>

-----------------------------------------------------------------------------
\* the ceilings are read once, and passes that are off do not read the rows
Skipped(pass) == \/ pass = "age" /\ scene.age = 0
                 \/ pass = "size" /\ scene.size = 0

Rest(pass) == {p \in pass + 1 .. 6 : ~Skipped(Passes[p])}

\* the call after its pass: the next one, the restore it protects, or done
PassedOn(c) ==
  IF call[c].kind # "delete" /\ Rest(call[c].pass) # {}
  THEN [call[c] EXCEPT !.pc = "prune", !.left = {}, !.pass = Min(Rest(@))]
  ELSE IF call[c].kind = "restore"
  THEN [call[c] EXCEPT !.pc = "wipe", !.left = {}, !.pass = 1] ELSE Idle

\* pruneRetention, one pass: a read of the rows, then the drops one by one
Prune(c) ==
  /\ call[c].pc = "prune"
  /\ LET drops == Candidates(Passes[call[c].pass])
     IN call' = [call EXCEPT ![c] = IF drops = {} THEN PassedOn(c)
                                    ELSE [@ EXCEPT !.pc = "drop", !.left = drops]]
  /\ UNCHANGED <<rows, files, scene, now, live, saving, world, writes, tail, made,
                 discarded, stuck>>

\* a DELETE request drops one row
AskDelete(c, r) ==
  /\ "delete" \in scene.kinds /\ call[c].pc = "idle"
  /\ call' = [call EXCEPT ![c] = [Idle EXCEPT !.pc = "drop", !.kind = "delete",
                                              !.left = {r}]]
  /\ discarded' = discarded \cup {r.id}
  /\ UNCHANGED <<rows, files, scene, now, live, saving, world, writes, tail, made, stuck>>

\* the call once it is through with r
Dropped(c, r) == IF call[c].left = {r} THEN PassedOn(c)
                 ELSE [call[c] EXCEPT !.pc = "drop", !.left = @ \ {r}]

PassOf(c) == IF call[c].kind = "delete" THEN "one" ELSE Passes[call[c].pass]

\* deleteBackup: the row gives the file, which goes first
DropFile(c, r) ==
  /\ call[c].pc = "drop" /\ r \in call[c].left
  /\ r \in First(PassOf(c), call[c].left)
  /\ \/ /\ r \in rows
        /\ files' = {f \in files : f.id # r.id}
        /\ Goes(c, "dropRow")
     \/ /\ r \notin rows \/ "disk" \in scene.faults
        /\ files' = files
        /\ call' = [call EXCEPT ![c] = Dropped(c, r)]
  /\ UNCHANGED <<rows, scene, now, live, saving, world, writes, tail, made, discarded, stuck>>

DropRow(c, r) ==
  /\ call[c].pc = "dropRow" /\ r \in call[c].left
  /\ r \in First(PassOf(c), call[c].left)
  /\ \/ rows' = rows \ {r}
     \/ "disk" \in scene.faults /\ rows' = rows
  /\ call' = [call EXCEPT ![c] = Dropped(c, r)]
  /\ UNCHANGED <<files, scene, now, live, saving, world, writes, tail, made, discarded, stuck>>

-----------------------------------------------------------------------------
\* restoreBackup: the row and its archive are there.  A user's takes the
\* long-operation lock and makes a safety backup, rollbackPack's does neither.
AskRestore(c, r) ==
  /\ "restore" \in scene.kinds /\ call[c].pc = "idle"
  /\ \E f \in files : f.id = r.id
  /\ \E safety \in BOOLEAN :
       /\ safety => ~Restoring
       /\ call' = [call EXCEPT ![c] = [Idle EXCEPT !.pc = "stop", !.kind = "restore",
                  !.reason = "pre-restore", !.target = {r.id}, !.safety = safety]]
  /\ UNCHANGED <<rows, files, scene, now, live, saving, world, writes, tail, made,
                 discarded, stuck>>

\* stopServer, its refusal swallowed, and the container looked at again: a
\* live one ends the restore
StopForRestore(c) ==
  /\ call[c].pc = "stop"
  /\ \/ /\ live /\ live' = FALSE
        /\ call' = Disturbed("restart") /\ tail' = tail
     \/ /\ live /\ live' = live
        /\ call' = [call EXCEPT ![c] = Idle] /\ tail' = tail
     \/ /\ ~live /\ live' = live
        /\ Goes(c, IF call[c].safety THEN "safety" ELSE "wipe") /\ tail' = tail
  /\ UNCHANGED <<rows, files, scene, now, saving, world, writes, made, discarded, stuck>>

\* createBackup looks at the container for itself
BeginSafety(c) ==
  /\ call[c].pc = "safety"
  /\ BeginCopy(c, "restore", "pre-restore", call[c].target, TRUE)
  /\ UNCHANGED <<rows, files, scene, now, live, saving, world, writes, made,
                 discarded, stuck>>

\* rm -rf and mkdir
Wipe(c) ==
  /\ call[c].pc = "wipe"
  /\ world' = 0
  /\ call' = [Disturbed("restore") EXCEPT
                ![c] = [call[c] EXCEPT !.pc = "extract", !.before = world]]
  /\ UNCHANGED <<rows, files, scene, now, live, saving, writes, tail, made, discarded, stuck>>

\* extractZip: without the archive, or on a fault, the directory stays empty
Extract(c) ==
  /\ call[c].pc = "extract"
  /\ \/ \E f \in files : f.id \in call[c].target /\ world' = f.world
     \/ /\ "disk" \in scene.faults \/ ~\E f \in files : f.id \in call[c].target
        /\ world' = world
  /\ call' = [Disturbed("restore") EXCEPT ![c] = Idle]
  /\ UNCHANGED <<rows, files, scene, now, live, saving, writes, tail, made, discarded, stuck>>

-----------------------------------------------------------------------------
(* The server, its users, the clock, and the panel's own end.              *)

\* also during a restore: a start in flight when it began, mc-router, and any
\* start while it is a rollback's
StartServer ==
  /\ scene.starts /\ ~live
  /\ live' = TRUE /\ saving' = TRUE /\ stuck' = FALSE
  /\ call' = Disturbed("restart")
  /\ UNCHANGED <<rows, files, scene, now, world, writes, tail, made, discarded>>

StopServer ==
  /\ live
  /\ live' = FALSE
  /\ call' = Disturbed("restart")
  /\ UNCHANGED <<rows, files, scene, now, saving, world, writes, tail, made, discarded, stuck>>

\* a player builds: with saves on, the world on disk changes
WriteWorld ==
  /\ live /\ saving /\ writes < scene.writes
  /\ writes' = writes + 1 /\ world' = writes + 1
  /\ call' = Disturbed("write")
  /\ UNCHANGED <<rows, files, scene, now, live, saving, tail, made, discarded, stuck>>

Tick ==
  /\ now < scene.ticks
  /\ now' = now + 1
  /\ UNCHANGED <<rows, files, scene, live, saving, world, writes, tail, call, made,
                 discarded, stuck>>

\* the panel goes down: its calls and its lock are gone, what they did stays
Crash ==
  /\ "crash" \in scene.faults
  /\ \E c \in Calls : call[c].pc # "idle"
  /\ call' = [c \in Calls |-> Idle]
  /\ tail' = <<>>
  /\ stuck' = (stuck \/ (live /\ ~saving))
  /\ UNCHANGED <<rows, files, scene, now, live, saving, world, writes, made, discarded>>

CopyStep(c) == PauseSaves(c) \/ FinishZip(c) \/ ResumeSaves(c) \/ Record(c)
DropStep(c) == Prune(c) \/ \E r \in call[c].left : DropFile(c, r) \/ DropRow(c, r)
RestoreStep(c) == StopForRestore(c) \/ BeginSafety(c) \/ Wipe(c) \/ Extract(c)

CallStep(c) == CopyStep(c) \/ DropStep(c) \/ RestoreStep(c)

Next == \/ \E c \in Calls : \/ AskBackup(c)
                            \/ \E r \in rows : AskDelete(c, r) \/ AskRestore(c, r)
                            \/ CallStep(c)
        \/ StartServer \/ StopServer \/ WriteWorld \/ Tick \/ Crash

Spec == Init /\ [][Next]_vars

-----------------------------------------------------------------------------
NewerInBucket(b) == {a \in made : a.reason = b.reason /\ Newer(a, b)}

\* b's bucket has Keep newer ones, it is past the age ceiling, or without all
\* that should go sooner the rest is still too big
Deserved(b) ==
  \/ b.id \in discarded
  \/ Cardinality(NewerInBucket(b)) >= Keep[b.reason]
  \/ scene.age > 0 /\ b.at + scene.age < now
  \/ scene.size > 0 /\ \E a \in made :
       Total({a} \cup {x \in made : ~Sooner(x, b)}) > scene.size

(* Retention drops a backup only for a reason of its own; "an automatic    *)
(* snapshot can never push out a backup you took yourself"                 *)
(* (docs/backups.md).                                                      *)
DropsAreDeserved ==
  \A b \in made : b \notin rows \/ (\A f \in files : f.id # b.id) => Deserved(b)

(* "The single newest backup for the server is never a candidate": the     *)
(* passes of concurrent backups, each on rows it read some awaits ago,     *)
(* never drop the newest of all.                                           *)
NewestSurvives ==
  \A b \in Newest(made) : b \notin rows \/ (\A f \in files : f.id # b.id)
    => b.id \in discarded

(* "Another operation's save-on" never re-enables writes mid-copy: a copy  *)
(* with saves paused sees no write, unless the server itself went down or  *)
(* came up, or a restore passed, during the copy.                          *)
PausedCopiesAreWhole ==
  \A c \in Calls : call[c].pc = "zip" /\ call[c].lock = "paused" => call[c].torn # {"write"}

(* Saves are off only while somebody copies: a failed or interleaved copy  *)
(* never leaves a running server that does not save, short of an RCON that *)
(* does not answer save-on or a panel that went down.                      *)
SavesComeBack ==
  live /\ ~saving =>
    \/ stuck
    \/ \E c \in Calls : call[c].pc \in {"zip", "resume", "fail"} /\ call[c].lock # "none"

(* c's backup fits its bucket: no more than Keep were made in its second    *)
(* or since, the world operations' own safety backups among them.  Within  *)
(* a second the random ids, not the order of making, say which one goes.   *)
FitsItsBucket(c) ==
  \A b \in made : b.id \in call[c].id =>
    Cardinality({a \in made : a.reason = b.reason /\ a.at >= b.at}) <= Keep[b.reason]

(* When a restore has emptied the directory, its safety backup is there,   *)
(* whatever its own retention passes and those of other backups dropped    *)
(* meanwhile (under no ceiling), and it holds the very world that was      *)
(* there, save for what came after the copy: a rollback's restore, or what *)
(* a server wrote that was started although the restore was under way.     *)
RestoreIsReversible ==
  \A c \in Calls :
    /\ call[c].pc = "extract" /\ call[c].safety
    /\ scene.age = 0 /\ scene.size = 0
    /\ call[c].id \cap discarded = {}
    /\ FitsItsBucket(c)
    => \E f \in files :
         /\ f.id \in call[c].id
         /\ f.world = call[c].before \/ call[c].after \cap {"write", "restore"} # {}

(* A restore that has emptied the directory has the archive to fill it     *)
(* again: restoreBackup looked for it first.                               *)
RestoreHasItsArchive ==
  \A c \in Calls : call[c].pc = "extract" => \E f \in files : f.id \in call[c].target

(* The save lock is handed on: its holder is a call in its section or just *)
(* about to begin it, those behind it wait, and nobody waits outside it,   *)
(* whatever failed in a section.                                           *)
LockIsHandedOn ==
  /\ \A i \in DOMAIN tail :
       /\ call[tail[i]].lock # "none"
       /\ call[tail[i]].pc \in IF i = 1 THEN {"queued", "zip", "resume", "fail"} ELSE {"queued"}
  /\ \A c \in Calls : call[c].lock # "none" => \E i \in DOMAIN tail : tail[i] = c
=============================================================================

--------------------------- MODULE ServerLifecycle ---------------------------
(***************************************************************************)
(* ServerLifecycleService on one Minecraft server: its row, its container  *)
(* and the requests, cron jobs and timers that act on them at once.  The   *)
(* panel is one Node process, so a step below is the code that runs        *)
(* between two awaits: a database read or write, or one Docker call.       *)
(*                                                                         *)
(* The configuration (env, memory, ports, labels...) is a version number:  *)
(* row.config is what the row asks for, ctr.config what the container was  *)
(* created with, and an edit bumps the first.  The cached status column    *)
(* belongs to ServerStatus.                                                *)
(***************************************************************************)
EXTENDS Naturals, Sequences, Callers

CONSTANTS MaxConfig,    \* bound on the edits of one behaviour
          MaxNest,      \* bound on the frames under a re-flagged start
          Routed,       \* mc-router may start the stopped container itself
          DaemonFails   \* a Docker call may fail

ASSUME LifecycleAssumption == /\ MaxConfig \in Nat
                              /\ MaxNest \in Nat
                              /\ Routed \in BOOLEAN
                              /\ DaemonFails \in BOOLEAN

VARIABLES row,          \* the servers row
          ctr,          \* the container, state "none" when there is none
          world,        \* the server's data directory
          inFlight,     \* ServerLocksService.inFlightOps
          active,       \* ServerOperationsService.active
          call,         \* where each call stands
          missed        \* history: edits made inside a recreate's window

vars == <<row, ctr, world, inFlight, active, call, missed>>

Configs == 0..MaxConfig
CtrStates == {"none", "created", "running", "clean", "crashed"}

EntryOps == {"start", "stop", "restart", "recreate"}
Ops == EntryOps \cup {"routing", "kill", "delete", "restore", "none"}

\* the steps of the bodies that run under guard
StartPcs == {"start.read", "start.inspect", "start.launch", "start.record"}
RecreatePcs == {"recreate.read", "recreate.inspect", "recreate.stop",
                "recreate.remove", "recreate.create", "recreate.record"}
StopPcs == {"stop.begin", "stop.container", "stop.record"}
BodyPcs == StartPcs \cup RecreatePcs \cup StopPcs
             \cup {"restart.check", "routing.inspect"}
OtherPcs == {"idle", "joined", "kill.begin", "kill.container",
             "delete.begin", "delete.stop", "delete.remove", "delete.files",
             "delete.rows", "restore.begin", "restore.verify",
             "restore.wipe", "restore.extract"}

\* where a nested startServerImpl or recreateServerImpl returns to
Returns == {"start.launch", "restart.check"}

Idle == [op |-> "none", pc |-> "idle", k |-> <<>>, seen |-> 0,
         flagged |-> FALSE, was |-> FALSE]
Free == [op |-> "none", owner |-> NoCall]

CallType == [op : Ops,
             pc : BodyPcs \cup OtherPcs,
             k : Seq(Returns),     \* the frames below the running one
             seen : Configs,       \* config in the row the frame read
             flagged : BOOLEAN,    \* pendingRecreate in the row it read
             was : BOOLEAN]        \* recreate: wasRunning; restore: it stopped

TypeOK ==
  /\ row \in [deleted : BOOLEAN, hasContainer : BOOLEAN, pending : BOOLEAN,
              config : Configs]
  /\ ctr \in [state : CtrStates, config : Configs]
  /\ world \in {"whole", "wiped", "gone"}
  /\ inFlight \in [op : EntryOps, owner : Calls] \cup {Free}
  /\ active \in {"none", "restoring"}
  /\ call \in [Calls -> CallType]
  /\ missed \in SUBSET Configs

\* a server that createServer has just made: container created, never started
Init == /\ row = [deleted |-> FALSE, hasContainer |-> TRUE, pending |-> FALSE,
                  config |-> 0]
        /\ ctr = [state |-> "created", config |-> 0]
        /\ world = "whole"
        /\ inFlight = Free
        /\ active = "none"
        /\ call = [c \in Calls |-> Idle]
        /\ missed = {}

Live == ctr.state = "running"

-----------------------------------------------------------------------------
(* Control: moving a call on, returning from a frame, settling the promise *)

Goto(c, pc) == call' = [call EXCEPT ![c].pc = pc]

\* Mutant: the shared starts are never resumed
SettleAlone(c) ==
  /\ inFlight' = IF inFlight.owner = c THEN Free ELSE inFlight
  /\ call' = [call EXCEPT ![c] = IF @.op = "restore"
                THEN [@ EXCEPT !.pc = "restore.verify"] ELSE Idle]

\* The call's promise settles, fulfilled or rejected: guard's finally drops the
\* entry and the starts that shared it return.  A restore goes on after the
\* stop it nests, whatever became of it (.catch(() => {})).
Settle(c) ==
  /\ inFlight' = IF inFlight.owner = c THEN Free ELSE inFlight
  /\ call' = [d \in Calls |->
       IF d = c
       THEN IF call[c].op = "restore"
            THEN [call[c] EXCEPT !.pc = "restore.verify"] ELSE Idle
       ELSE IF inFlight.owner = c /\ call[d].pc = "joined" THEN Idle
       ELSE call[d]]

\* The running frame returns to the one below it.
Return(c) ==
  IF call[c].k = <<>>
  THEN Settle(c)
  ELSE /\ call' = [call EXCEPT ![c].pc = Head(call[c].k),
                               ![c].k = Tail(call[c].k)]
       /\ UNCHANGED inFlight

\* Call another body and come back to `ret`.
Nest(c, pc, ret) == call' = [call EXCEPT ![c].pc = pc,
                                         ![c].k = <<ret>> \o call[c].k]

\* Mutant: the long operation is not looked at
NeverBusy(inside) == TRUE

NotBusy(inside) == active = "none" \/ inside

\* Mutant: only another start is refused
GuardStartsOnly == inFlight.op # "start"

\* guard: the entry is taken in the same synchronous step as the test
GuardFree == inFlight = Free

Enter(c, op, body, pc, k) ==
  /\ call[c].pc = "idle"
  /\ NotBusy(FALSE)
  /\ GuardFree
  /\ inFlight' = [op |-> op, owner |-> c]
  /\ call' = [call EXCEPT ![c] = [Idle EXCEPT !.op = body, !.pc = pc, !.k = k]]
  /\ UNCHANGED <<row, ctr, world, active, missed>>

\* a start that finds a start in progress shares its promise
Join(c) ==
  /\ call[c].pc = "idle"
  /\ NotBusy(FALSE)
  /\ inFlight.op = "start"
  /\ call' = [call EXCEPT ![c] = [Idle EXCEPT !.op = "start", !.pc = "joined"]]
  /\ UNCHANGED <<row, ctr, world, inFlight, active, missed>>

StartServer(c) == Enter(c, "start", "start", "start.read", <<>>) \/ Join(c)
StopServer(c) == Enter(c, "stop", "stop", "stop.begin", <<>>)
RestartServer(c) ==
  Enter(c, "restart", "restart", "recreate.read", <<"restart.check">>)
RecreateServer(c) == Enter(c, "recreate", "recreate", "recreate.read", <<>>)
ApplyRoutingChange(c) ==
  Enter(c, "recreate", "routing", "routing.inspect", <<>>)

-----------------------------------------------------------------------------
(* The steps of the guarded bodies *)

\* mustGet: a deleted server is a 404; otherwise the frame keeps the row
ReadRow(c, from, to) ==
  /\ call[c].pc = from
  /\ IF row.deleted
     THEN Settle(c)
     ELSE /\ call' = [call EXCEPT ![c].pc = to, ![c].seen = row.config,
                                  ![c].flagged = row.pending]
          /\ UNCHANGED inFlight
  /\ UNCHANGED <<row, ctr, world, active, missed>>

StartRead(c) == ReadRow(c, "start.read", "start.inspect")

\* Mutant: the flag is not looked at, a stale container is started
MustRecreateIgnoringFlag(c) == ctr.state = "none"

MustRecreate(c) == ctr.state = "none" \/ call[c].flagged

StartInspect(c) ==
  /\ call[c].pc = "start.inspect"
  /\ IF MustRecreate(c) THEN Nest(c, "recreate.read", "start.launch")
                        ELSE Goto(c, "start.launch")
  /\ UNCHANGED <<row, ctr, world, inFlight, active, missed>>

\* startContainer: 404 without a container.  A container that already runs
\* (its nested recreate started it) is an error of the client or a no-op.
StartLaunch(c) ==
  /\ call[c].pc = "start.launch"
  /\ \/ /\ ctr.state \notin {"none", "running"}
        /\ ctr' = [ctr EXCEPT !.state = "running"]
        /\ Goto(c, "start.record")
        /\ UNCHANGED inFlight
     \/ Live /\ Goto(c, "start.record") /\ UNCHANGED <<ctr, inFlight>>
     \/ ctr.state \in {"none", "running"} /\ Settle(c) /\ UNCHANGED ctr
  /\ UNCHANGED <<row, world, active, missed>>

\* the row's status and the event are not modelled here: only the await is
StartRecord(c) ==
  /\ call[c].pc = "start.record"
  /\ Return(c)
  /\ UNCHANGED <<row, ctr, world, active, missed>>

RecreateRead(c) == ReadRow(c, "recreate.read", "recreate.inspect")

RecreateInspect(c) ==
  /\ call[c].pc = "recreate.inspect"
  /\ call' = [call EXCEPT ![c].was = Live,
                ![c].pc = IF Live THEN "recreate.stop" ELSE "recreate.remove"]
  /\ UNCHANGED <<row, ctr, world, inFlight, active, missed>>

\* stopContainer: rcon stop, wait, then docker stop if it still runs
Stopped == IF Live THEN [ctr EXCEPT !.state = "clean"] ELSE ctr

RecreateStop(c) ==
  /\ call[c].pc = "recreate.stop"
  /\ ctr' = Stopped
  /\ Goto(c, "recreate.remove")
  /\ UNCHANGED <<row, world, inFlight, active, missed>>

Removed == [ctr EXCEPT !.state = "none"]

RecreateRemove(c) ==
  /\ call[c].pc = "recreate.remove"
  /\ ctr' = Removed
  /\ Goto(c, "recreate.create")
  /\ UNCHANGED <<row, world, inFlight, active, missed>>

\* ensureImage and createContainer, with the row read before the pull
RecreateCreate(c) ==
  /\ call[c].pc = "recreate.create"
  /\ ctr.state = "none"
  /\ ctr' = [state |-> "created", config |-> call[c].seen]
  /\ Goto(c, "recreate.record")
  /\ UNCHANGED <<row, world, inFlight, active, missed>>

\* Mutant: the failure leaves the row as it was
RecreateFailSilent(c) ==
  /\ call[c].pc = "recreate.create"
  /\ DaemonFails \/ ctr.state # "none"
  /\ row' = [row EXCEPT !.hasContainer = FALSE]
  /\ Settle(c)
  /\ UNCHANGED <<ctr, world, active, missed>>

\* the pull or the create fails, or the name is taken: record it, throw
RecreateFail(c) ==
  /\ call[c].pc = "recreate.create"
  /\ DaemonFails \/ ctr.state # "none"
  /\ row' = [row EXCEPT !.hasContainer = FALSE, !.pending = TRUE]
  /\ Settle(c)
  /\ UNCHANGED <<ctr, world, active, missed>>

\* containerId and pendingRecreate = false; start again what was running
RecreateRecord(c) ==
  /\ call[c].pc = "recreate.record"
  /\ row' = [row EXCEPT !.hasContainer = TRUE, !.pending = FALSE]
  /\ IF call[c].was
     THEN Goto(c, "start.read") /\ UNCHANGED inFlight
     ELSE Return(c)
  /\ UNCHANGED <<ctr, world, active, missed>>

\* restartServerImpl: start a server that was stopped when it began
RestartCheck(c) ==
  /\ call[c].pc = "restart.check"
  /\ IF Live THEN Settle(c) ELSE Goto(c, "start.read") /\ UNCHANGED inFlight
  /\ UNCHANGED <<row, ctr, world, active, missed>>

\* applyRoutingChange: a live server waits for its next restart
RoutingInspect(c) ==
  /\ call[c].pc = "routing.inspect"
  /\ IF Live THEN Settle(c) ELSE Goto(c, "recreate.read") /\ UNCHANGED inFlight
  /\ UNCHANGED <<row, ctr, world, active, missed>>

\* stopServerImpl: mustGet, and the busy test a second time
StopBegin(c) ==
  /\ call[c].pc = "stop.begin"
  /\ IF row.deleted \/ ~NotBusy(call[c].op = "restore")
     THEN Settle(c)
     ELSE Goto(c, "stop.container") /\ UNCHANGED inFlight
  /\ UNCHANGED <<row, ctr, world, active, missed>>

StopContainer(c) ==
  /\ call[c].pc = "stop.container"
  /\ ctr' = Stopped
  /\ Goto(c, "stop.record")
  /\ UNCHANGED <<row, world, inFlight, active, missed>>

StopRecord(c) ==
  /\ call[c].pc = "stop.record"
  /\ IF call[c].op = "restore"
     THEN /\ inFlight' = IF inFlight.owner = c THEN Free ELSE inFlight
          /\ call' = [call EXCEPT ![c].pc = "restore.verify", ![c].was = TRUE]
     ELSE Settle(c)
  /\ UNCHANGED <<row, ctr, world, active, missed>>

-----------------------------------------------------------------------------
(* Operations that do not take the guard *)

Open(c, op, pc) ==
  /\ call[c].pc = "idle"
  /\ call' = [call EXCEPT ![c] = [Idle EXCEPT !.op = op, !.pc = pc]]
  /\ UNCHANGED <<row, ctr, world, inFlight, missed>>

\* killServer tests neither lock
KillServer(c) == Open(c, "kill", "kill.begin") /\ UNCHANGED active

KillBegin(c) == ReadRow(c, "kill.begin", "kill.container")

KillContainer(c) ==
  /\ call[c].pc = "kill.container"
  /\ ctr' = IF Live THEN [ctr EXCEPT !.state = "crashed"] ELSE ctr
  /\ Settle(c)
  /\ UNCHANGED <<row, world, active, missed>>

\* deleteServer tests the long operation, not the lifecycle entry
DeleteServer(c) ==
  NotBusy(FALSE) /\ Open(c, "delete", "delete.begin") /\ UNCHANGED active

DeleteBegin(c) == ReadRow(c, "delete.begin", "delete.stop")

\* stopContainer(...).catch(() => {})
DeleteStop(c) ==
  /\ call[c].pc = "delete.stop"
  /\ ctr' = Stopped \/ (DaemonFails /\ ctr' = ctr)
  /\ Goto(c, "delete.remove")
  /\ UNCHANGED <<row, world, inFlight, active, missed>>

DeleteRemove(c) ==
  /\ call[c].pc = "delete.remove"
  /\ ctr' = Removed
  /\ Goto(c, "delete.files")
  /\ UNCHANGED <<row, world, inFlight, active, missed>>

\* keepWorld leaves the directory
DeleteFiles(c) ==
  /\ call[c].pc = "delete.files"
  /\ world' \in {"gone", world}
  /\ Goto(c, "delete.rows")
  /\ UNCHANGED <<row, ctr, inFlight, active, missed>>

\* one transaction: the cascade and deletedAt
DeleteRows(c) ==
  /\ call[c].pc = "delete.rows"
  /\ row' = [row EXCEPT !.deleted = TRUE]
  /\ Settle(c)
  /\ UNCHANGED <<ctr, world, active, missed>>

\* operations.start("restoring"), then restoreBackup up to its nested stop:
\* the controller's mustGet refuses a deleted server
RestoreBackup(c) ==
  /\ NotBusy(FALSE)
  /\ ~row.deleted
  /\ Open(c, "restore", "restore.begin")
  /\ active' = "restoring"

\* stopServer through guard from inside the operation; a 409 is swallowed
RestoreStop(c) ==
  /\ call[c].pc = "restore.begin"
  /\ IF GuardFree
     THEN /\ inFlight' = [op |-> "stop", owner |-> c]
          /\ Goto(c, "stop.begin")
     ELSE /\ Goto(c, "restore.verify")
          /\ UNCHANGED inFlight
  /\ UNCHANGED <<row, ctr, world, active, missed>>

RestoreEnd(c) ==
  /\ active' = "none"
  /\ call' = [call EXCEPT ![c] = Idle]

\* never rm under a live container.  A failed inspect counts as stopped.
RestoreVerify(c) ==
  /\ call[c].pc = "restore.verify"
  /\ IF Live
     THEN \/ RestoreEnd(c)
          \/ DaemonFails /\ Goto(c, "restore.wipe") /\ UNCHANGED active
     ELSE Goto(c, "restore.wipe") /\ UNCHANGED active
  /\ UNCHANGED <<row, ctr, world, inFlight, missed>>

\* the safety backup, then rm -rf; a failed backup ends the restore
RestoreWipe(c) ==
  /\ call[c].pc = "restore.wipe"
  /\ \/ world' = "wiped" /\ Goto(c, "restore.extract") /\ UNCHANGED active
     \/ RestoreEnd(c) /\ UNCHANGED world
  /\ UNCHANGED <<row, ctr, inFlight, missed>>

\* extractZip, which may fail and leave the directory half written
RestoreExtract(c) ==
  /\ call[c].pc = "restore.extract"
  /\ world' \in {"whole", "wiped"}
  /\ RestoreEnd(c)
  /\ UNCHANGED <<row, ctr, inFlight, missed>>

-----------------------------------------------------------------------------
(* Edits, Docker and mc-router *)

InRecreateWindow(c) ==
  call[c].pc \in {"recreate.inspect", "recreate.stop", "recreate.remove",
                  "recreate.create", "recreate.record"}

\* Mutant: the edit is not flagged
UpdateUnflagged ==
  /\ ~row.deleted
  /\ row.config < MaxConfig
  /\ row' = [row EXCEPT !.config = @ + 1]
  /\ UNCHANGED <<ctr, world, inFlight, active, call, missed>>

\* updateServer with a field that needs a recreate
UpdateServer ==
  /\ ~row.deleted
  /\ row.config < MaxConfig
  /\ row' = [row EXCEPT !.config = @ + 1, !.pending = TRUE]
  /\ missed' = IF \E c \in Calls : InRecreateWindow(c)
               THEN missed \cup {row.config + 1} ELSE missed
  /\ UNCHANGED <<ctr, world, inFlight, active, call>>

\* refreshRoutedServers flags the server before it tries to apply the change;
\* a flag set again inside a nested start makes it recreate once more, which
\* MaxNest bounds
FlagRouted ==
  /\ Routed
  /\ ~row.deleted
  /\ \A c \in Calls : Len(call[c].k) < MaxNest
  /\ row' = [row EXCEPT !.pending = TRUE]
  /\ UNCHANGED <<ctr, world, inFlight, active, call, missed>>

\* the Java process ends on its own
ContainerExits ==
  /\ Live
  /\ \E s \in {"clean", "crashed"} : ctr' = [ctr EXCEPT !.state = s]
  /\ UNCHANGED <<row, world, inFlight, active, call, missed>>

\* mc-router starts a stopped container when a player knocks
RouterStarts ==
  /\ Routed
  /\ ctr.state \in {"created", "clean", "crashed"}
  /\ ctr' = [ctr EXCEPT !.state = "running"]
  /\ UNCHANGED <<row, world, inFlight, active, call, missed>>

\* a Docker call throws and nothing on the way catches it
DaemonError(c) ==
  /\ DaemonFails
  /\ call[c].pc \in {"start.inspect", "start.launch", "recreate.inspect",
                     "recreate.stop", "recreate.remove", "restart.check",
                     "routing.inspect", "stop.container", "kill.container",
                     "delete.remove"}
  /\ Settle(c)
  /\ UNCHANGED <<row, ctr, world, active, missed>>

-----------------------------------------------------------------------------
Request(c) == \/ StartServer(c) \/ StopServer(c) \/ RestartServer(c)
              \/ RecreateServer(c) \/ KillServer(c)
              \/ DeleteServer(c) \/ RestoreBackup(c)
              \/ Routed /\ ApplyRoutingChange(c)

Body(c) == \/ StartRead(c) \/ StartInspect(c) \/ StartLaunch(c) \/ StartRecord(c)
           \/ RecreateRead(c) \/ RecreateInspect(c) \/ RecreateStop(c)
           \/ RecreateRemove(c) \/ RecreateCreate(c) \/ RecreateFail(c)
           \/ RecreateRecord(c) \/ RestartCheck(c) \/ RoutingInspect(c)
           \/ StopBegin(c) \/ StopContainer(c) \/ StopRecord(c)
           \/ KillBegin(c) \/ KillContainer(c)
           \/ DeleteBegin(c) \/ DeleteStop(c) \/ DeleteRemove(c)
           \/ DeleteFiles(c) \/ DeleteRows(c)
           \/ RestoreStop(c) \/ RestoreVerify(c) \/ RestoreWipe(c)
           \/ RestoreExtract(c) \/ DaemonError(c)

Environment == UpdateServer \/ FlagRouted \/ ContainerExits \/ RouterStarts

Next == (\E c \in Calls : Request(c) \/ Body(c)) \/ Environment

Spec == Init /\ [][Next]_vars

\* Node resumes every awaiting call, and Docker answers or fails
FairSpec == Spec /\ \A c \in Calls : WF_vars(Body(c))

-----------------------------------------------------------------------------
(* Properties *)

(* createContainer never meets a container of the same name: between a     *)
(* recreate's remove and its create no other call can make one.  This is   *)
(* what guard is for ("racing into container-name collisions").            *)
NoNameCollision ==
  \A c \in Calls : call[c].pc = "recreate.create" => ctr.state = "none"

(* A row whose containerId is null is flagged for a recreate, so that the  *)
(* next start or restart builds the container.                             *)
NoContainerIsFlagged == ~row.hasContainer => row.pending

(* The only edits a container can lack while the row's pendingRecreate is  *)
(* clear are those made inside a recreate, after it read the row: every    *)
(* other edit stays flagged until a recreate has applied it.               *)
OnlyRacedEditsAreMissed ==
  ~row.pending /\ ctr.state # "none" /\ ctr.config # row.config
     => row.config \in missed

(* A start that read pendingRecreate = true never launches a container     *)
(* older than the row it read: the nested recreate reads the row again.    *)
LaunchAppliesFlaggedConfig ==
  [][\A c \in Calls :
       StartLaunch(c) /\ ctr.state # "running" /\ ctr'.state = "running"
         /\ call[c].flagged
       => ctr.config >= call[c].seen]_vars

(* Once a restore's own stop succeeded nothing but mc-router can bring the *)
(* container up before the directory is whole again: the operation refuses *)
(* every lifecycle call, and its stop found no other in flight.            *)
StoppedRestoreIsSafe ==
  ~Routed => \A c \in Calls :
    call[c].pc \in {"restore.wipe", "restore.extract"} /\ call[c].was => ~Live

(* Every call returns: no entry is leaked, no shared start is left waiting *)
(* and a restore gets past its nested stop.                                *)
CallsReturn == \A c \in Calls : call[c].pc # "idle" ~> call[c].pc = "idle"

(* The guard and the long operation behave as ServerLocks promises.        *)
LockPhase == [c \in Calls |->
  IF call[c].pc \in BodyPcs THEN "running"
  ELSE IF call[c].pc = "joined" THEN "joined" ELSE "out"]
Locks == INSTANCE ServerLocks WITH phase <- LockPhase
ImplementsLocks == Locks!Spec
=============================================================================

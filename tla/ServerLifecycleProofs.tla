------------------------ MODULE ServerLifecycleProofs ------------------------
(***************************************************************************)
(* Proofs about ServerLifecycle for any set of calls, any number of edits, *)
(* with or without a router and with or without Docker failures.           *)
(*                                                                         *)
(* NoNameCollision is not inductive: a second call could launch or create  *)
(* the container while the first stands between its remove and its create. *)
(* What forbids it is the guard, so the inductive invariant adds that a    *)
(* call is inside a guarded body exactly when it owns the entry.           *)
(*                                                                         *)
(* Three more invariants build on it: what a restore has seen, so that its *)
(* server stays down; the step map to ServerLocks, whose mutual exclusion  *)
(* then holds of the bodies; and what a recreate knows of the edits made   *)
(* while it ran.                                                           *)
(***************************************************************************)
EXTENDS ServerLifecycle, TLAPS

Owner == \A c \in Calls : call[c].pc \in BodyPcs <=> inFlight.owner = c

Control == /\ inFlight \in [op : EntryOps, owner : Calls] \cup {Free}
           /\ call \in [Calls -> CallType]
           /\ Owner

DataOK ==
  /\ row \in [deleted : BOOLEAN, hasContainer : BOOLEAN, pending : BOOLEAN,
              config : Configs]
  /\ ctr \in [state : CtrStates, config : Configs]
  /\ world \in {"whole", "wiped", "gone"}
  /\ active \in {"none", "restoring"}
  /\ missed \in SUBSET Configs

Inv == TypeOK /\ Owner /\ NoNameCollision

\* where the other calls stand, and c unless it is sent to `pc`
StandsAt(c, pc) ==
  \A d \in Calls : call'[d].pc = "recreate.create" =>
     call[d].pc = "recreate.create" \/ (d = c /\ pc = "recreate.create")

AllPcs == BodyPcs \cup OtherPcs

LEMMA BodyNotOther == BodyPcs \cap OtherPcs = {}
  BY DEF BodyPcs, StartPcs, RecreatePcs, StopPcs, OtherPcs

LEMMA ReturnsAreBodies == Returns \subseteq BodyPcs
  BY DEF Returns, BodyPcs, StartPcs

LEMMA IdleType == Idle \in CallType
  BY LifecycleAssumption, NoCallAssumption
     DEF Idle, CallType, Configs, Ops, OtherPcs

(* Settling a promise drops the entry only with its owner, and takes the   *)
(* call out of its body.                                                   *)
LEMMA SettleControl ==
  ASSUME Control, NEW c \in Calls, Settle(c)
  PROVE  /\ Control'
         /\ \A d \in Calls : call'[d].pc = "recreate.create" =>
               d # c /\ call[d].pc = "recreate.create"
<1>1. [call[c] EXCEPT !.pc = "restore.verify"] \in CallType
  BY DEF Control, CallType, OtherPcs
<1>2. call' \in [Calls -> CallType]
  BY <1>1, IdleType DEF Control, Settle
<1>3. inFlight' \in [op : EntryOps, owner : Calls] \cup {Free}
  BY DEF Control, Settle
<1>4. call'[c].pc \notin BodyPcs /\ call'[c].pc # "recreate.create"
  BY <1>1, BodyNotOther DEF Settle, Idle, OtherPcs, Control, CallType
<1>5. \A d \in Calls \ {c} : \/ call'[d] = call[d]
                             \/ call'[d] = Idle /\ call[d].pc = "joined"
  BY DEF Settle
<1>6. \A d \in Calls \ {c} : call'[d].pc \in BodyPcs <=> call[d].pc \in BodyPcs
  BY <1>5, BodyNotOther DEF Idle, OtherPcs
<1>7. \A d \in Calls \ {c} : inFlight'.owner = d <=> inFlight.owner = d
  BY LifecycleAssumption, NoCallAssumption DEF Settle, Free
<1>8. inFlight'.owner # c
  BY LifecycleAssumption, NoCallAssumption DEF Settle, Free
<1>9. Owner'
  BY <1>4, <1>6, <1>7, <1>8 DEF Control, Owner
<1>10. \A d \in Calls : call'[d].pc = "recreate.create" =>
          d # c /\ call[d].pc = "recreate.create"
  BY <1>4, <1>5 DEF Idle
<1> QED BY <1>2, <1>3, <1>9, <1>10 DEF Control

(* Moving a call inside its body, or outside any, leaves the entry right. *)
LEMMA MoveControl ==
  ASSUME Control, NEW c \in Calls, NEW r \in CallType,
         call' = [call EXCEPT ![c] = r],
         UNCHANGED inFlight,
         call[c].pc \in BodyPcs <=> r.pc \in BodyPcs
  PROVE  Control' /\ StandsAt(c, r.pc)
<1>1. call' \in [Calls -> CallType]
  BY DEF Control
<1>2. \A d \in Calls : call'[d] = IF d = c THEN r ELSE call[d]
  BY DEF Control
<1>3. Owner'
  BY <1>2 DEF Control, Owner
<1>4. StandsAt(c, r.pc)
  BY <1>2 DEF StandsAt
<1> QED BY <1>1, <1>3, <1>4 DEF Control

LEMMA GotoControl ==
  ASSUME Control, NEW c \in Calls, NEW pc \in AllPcs, Goto(c, pc),
         UNCHANGED inFlight, call[c].pc \in BodyPcs <=> pc \in BodyPcs
  PROVE  Control' /\ StandsAt(c, pc)
<1> DEFINE r == [call[c] EXCEPT !.pc = pc]
<1>1. call[c] \in CallType
  BY DEF Control
<1>2. r \in CallType /\ r.pc = pc
  BY <1>1 DEF CallType, AllPcs
<1>3. call' = [call EXCEPT ![c] = r]
  BY DEF Goto, Control
<1> HIDE DEF r
<1> QED BY <1>2, <1>3, MoveControl

(* Taking the guard's entry makes its owner the one call inside a body. *)
LEMMA TakeControl ==
  ASSUME Control, NEW c \in Calls, NEW op \in EntryOps, NEW r \in CallType,
         GuardFree, inFlight' = [op |-> op, owner |-> c],
         call' = [call EXCEPT ![c] = r], r.pc \in BodyPcs
  PROVE  Control' /\ StandsAt(c, r.pc)
<1>1. call' \in [Calls -> CallType]
  BY DEF Control
<1>2. \A d \in Calls : call'[d] = IF d = c THEN r ELSE call[d]
  BY DEF Control
<1>3. \A d \in Calls : call[d].pc \notin BodyPcs
  BY LifecycleAssumption, NoCallAssumption DEF Control, Owner, GuardFree, Free
<1>4. Owner'
  BY <1>2, <1>3 DEF Owner
<1>5. StandsAt(c, r.pc)
  BY <1>2 DEF StandsAt
<1> QED BY <1>1, <1>4, <1>5 DEF Control

LEMMA ReturnControl ==
  ASSUME Control, NEW c \in Calls, Return(c), call[c].pc \in BodyPcs
  PROVE  Control' /\ StandsAt(c, "idle")
<1>1. CASE call[c].k = <<>>
  BY <1>1, SettleControl DEF Return, StandsAt
<1>2. CASE call[c].k # <<>>
  <2> DEFINE r == [call[c] EXCEPT !.pc = Head(call[c].k), !.k = Tail(call[c].k)]
  <2>1. call[c] \in CallType /\ call[c].k \in Seq(Returns)
    BY DEF Control, CallType
  <2>2. Head(call[c].k) \in Returns /\ Tail(call[c].k) \in Seq(Returns)
    BY <1>2, <2>1
  <2>3. r.pc \in BodyPcs /\ r.pc # "recreate.create"
    BY <2>1, <2>2, ReturnsAreBodies DEF CallType, Returns
  <2>4. r \in CallType
    BY <2>1, <2>2, ReturnsAreBodies DEF CallType
  <2>5. call' = [call EXCEPT ![c] = r] /\ UNCHANGED inFlight
    BY <1>2 DEF Return, Control
  <2> HIDE DEF r
  <2>6. Control' /\ StandsAt(c, r.pc)
    BY <2>3, <2>4, <2>5, MoveControl
  <2> QED BY <2>3, <2>6 DEF StandsAt
<1> QED BY <1>1, <1>2

LEMMA NestControl ==
  ASSUME Control, NEW c \in Calls, NEW pc \in BodyPcs, NEW ret \in Returns,
         Nest(c, pc, ret), UNCHANGED inFlight, call[c].pc \in BodyPcs
  PROVE  Control' /\ StandsAt(c, pc)
<1> DEFINE r == [call[c] EXCEPT !.pc = pc, !.k = <<ret>> \o call[c].k]
<1>1. call[c] \in CallType /\ call[c].k \in Seq(Returns)
  BY DEF Control, CallType
<1>2. <<ret>> \o call[c].k \in Seq(Returns)
  BY <1>1
<1>3. r \in CallType /\ r.pc = pc
  BY <1>1, <1>2 DEF CallType
<1>4. call' = [call EXCEPT ![c] = r]
  BY DEF Nest, Control
<1> HIDE DEF r
<1> QED BY <1>3, <1>4, MoveControl

-----------------------------------------------------------------------------
LEMMA InitInv == Init => Inv
  BY LifecycleAssumption, NoCallAssumption, IdleType, BodyNotOther
     DEF Init, Inv, TypeOK, Owner, NoNameCollision, CtrStates, Configs, Idle,
         Free, OtherPcs

(* While one call is in a guarded body no other call is in one.            *)
LEMMA OneBody ==
  ASSUME Control, NEW c \in Calls, NEW d \in Calls,
         call[c].pc \in BodyPcs, call[d].pc \in BodyPcs
  PROVE  c = d
  BY DEF Control, Owner

(* mustGet, in a guarded body and out of one.                              *)
LEMMA ReadControl ==
  ASSUME Control, DataOK, NEW c \in Calls, NEW from, NEW to \in AllPcs,
         ReadRow(c, from, to), to # "recreate.create",
         from \in BodyPcs <=> to \in BodyPcs
  PROVE  Control' /\ StandsAt(c, "idle")
<1>1. CASE Settle(c)
  BY <1>1, SettleControl DEF StandsAt
<1>2. CASE ~Settle(c)
  <2> DEFINE r == [call[c] EXCEPT !.pc = to, !.seen = row.config,
                                  !.flagged = row.pending]
  <2>1. call[c] \in CallType /\ call[c].pc = from
    BY DEF Control, ReadRow
  <2>2. row.config \in Configs /\ row.pending \in BOOLEAN
    BY DEF DataOK
  <2>3. r \in CallType /\ r.pc = to
    BY <2>1, <2>2 DEF CallType, AllPcs
  <2>4. call' = [call EXCEPT ![c] = r] /\ UNCHANGED inFlight
    BY <1>2 DEF ReadRow, Control
  <2> HIDE DEF r
  <2>5. Control' /\ StandsAt(c, r.pc)
    BY <2>1, <2>3, <2>4, MoveControl
  <2> QED BY <2>3, <2>5 DEF StandsAt
<1> QED BY <1>1, <1>2

(* The steps of the guarded bodies keep the control right.                 *)
LEMMA GuardedControl ==
  ASSUME Control, DataOK, NEW c \in Calls,
         \/ StartRead(c) \/ StartInspect(c) \/ StartLaunch(c) \/ StartRecord(c)
         \/ RecreateRead(c) \/ RecreateInspect(c) \/ RecreateStop(c)
         \/ RecreateCreate(c) \/ RecreateFail(c)
         \/ RecreateRecord(c) \/ RestartCheck(c) \/ RoutingInspect(c)
         \/ StopBegin(c) \/ StopContainer(c) \/ StopRecord(c)
  PROVE  Control' /\ StandsAt(c, "idle")
<1> USE DEF AllPcs, BodyPcs, StartPcs, RecreatePcs, StopPcs, Returns
<1>1. CASE StartRead(c) \/ RecreateRead(c)
  BY <1>1, ReadControl DEF StartRead, RecreateRead
<1>2. CASE StartInspect(c)
  BY <1>2, NestControl, GotoControl DEF StartInspect, StandsAt
<1>3. CASE StartLaunch(c)
  BY <1>3, GotoControl, SettleControl DEF StartLaunch, StandsAt
<1>4. CASE StartRecord(c)
  BY <1>4, ReturnControl DEF StartRecord
<1>5. CASE RecreateInspect(c)
  <2> DEFINE r == [call[c] EXCEPT !.was = Live,
                !.pc = IF Live THEN "recreate.stop" ELSE "recreate.remove"]
  <2>1. call[c] \in CallType /\ Live \in BOOLEAN
    BY DEF Control, Live
  <2>2. r \in CallType /\ r.pc \in BodyPcs /\ r.pc # "recreate.create"
    BY <2>1 DEF CallType
  <2>3. call' = [call EXCEPT ![c] = r] /\ UNCHANGED inFlight
    BY <1>5 DEF RecreateInspect, Control
  <2>4. call[c].pc \in BodyPcs
    BY <1>5 DEF RecreateInspect
  <2> HIDE DEF r
  <2>5. Control' /\ StandsAt(c, r.pc)
    BY <2>2, <2>3, <2>4, MoveControl
  <2> QED BY <2>2, <2>5 DEF StandsAt
<1>6. CASE RecreateStop(c)
  BY <1>6, GotoControl DEF RecreateStop, StandsAt
<1>7. CASE RecreateCreate(c)
  BY <1>7, GotoControl DEF RecreateCreate, StandsAt
<1>8. CASE RecreateFail(c)
  BY <1>8, SettleControl DEF RecreateFail, StandsAt
<1>9. CASE RecreateRecord(c)
  BY <1>9, GotoControl, ReturnControl DEF RecreateRecord, StandsAt
<1>10. CASE RestartCheck(c)
  BY <1>10, GotoControl, SettleControl DEF RestartCheck, StandsAt
<1>11. CASE RoutingInspect(c)
  BY <1>11, GotoControl, SettleControl DEF RoutingInspect, StandsAt
<1>12. CASE StopBegin(c)
  BY <1>12, GotoControl, SettleControl DEF StopBegin, StandsAt
<1>13. CASE StopContainer(c)
  BY <1>13, GotoControl DEF StopContainer, StandsAt
<1>14. CASE StopRecord(c)
  <2>1. CASE Settle(c)
    BY <2>1, SettleControl DEF StandsAt
  <2>2. CASE ~Settle(c)
    <3> DEFINE r == [call[c] EXCEPT !.pc = "restore.verify", !.was = TRUE]
    <3>1. call[c] \in CallType /\ call[c].pc = "stop.record"
      BY <1>14 DEF Control, StopRecord
    <3>2. r \in CallType /\ r.pc = "restore.verify"
      BY <3>1 DEF CallType, OtherPcs
    <3>3. /\ call' = [call EXCEPT ![c] = r]
          /\ inFlight' = IF inFlight.owner = c THEN Free ELSE inFlight
      BY <1>14, <2>2 DEF StopRecord, Control
    <3> HIDE DEF r
    <3>4. call' \in [Calls -> CallType]
      BY <3>2, <3>3 DEF Control
    <3>5. \A d \in Calls : call'[d] = IF d = c THEN r ELSE call[d]
      BY <3>3 DEF Control
    <3>6. inFlight.owner = c
      BY <3>1 DEF Control, Owner
    <3>7. Owner'
      BY <3>2, <3>3, <3>5, <3>6, LifecycleAssumption, NoCallAssumption DEF Control, Owner, Free
    <3>8. StandsAt(c, "idle")
      BY <3>2, <3>5 DEF StandsAt
    <3> QED BY <3>3, <3>4, <3>7, <3>8 DEF Control
  <2> QED BY <2>1, <2>2
<1> QED BY <1>1, <1>2, <1>3, <1>4, <1>5, <1>6, <1>7, <1>8, <1>9, <1>10, <1>11,
           <1>12, <1>13, <1>14

(* ... and so do the steps of kill, delete and restore, which own no entry *)
(* but the one a restore's nested stop takes.                              *)
LEMMA UnguardedControl ==
  ASSUME Control, DataOK, NEW c \in Calls,
         \/ KillBegin(c) \/ KillContainer(c)
         \/ DeleteBegin(c) \/ DeleteStop(c) \/ DeleteRemove(c)
         \/ DeleteFiles(c) \/ DeleteRows(c)
         \/ RestoreStop(c) \/ RestoreVerify(c) \/ RestoreWipe(c)
         \/ RestoreExtract(c) \/ DaemonError(c)
  PROVE  Control' /\ StandsAt(c, "idle")
<1> USE DEF AllPcs, BodyPcs, StartPcs, RecreatePcs, StopPcs, OtherPcs
<1>0. ASSUME RestoreEnd(c), UNCHANGED inFlight, call[c].pc \notin BodyPcs
      PROVE  Control' /\ StandsAt(c, "idle")
  <2>1. Idle \in CallType /\ Idle.pc = "idle"
    BY IdleType DEF Idle
  <2>2. call' = [call EXCEPT ![c] = Idle]
    BY <1>0 DEF RestoreEnd
  <2> QED BY <1>0, <2>1, <2>2, MoveControl
<1>1. CASE KillBegin(c) \/ DeleteBegin(c)
  BY <1>1, ReadControl DEF KillBegin, DeleteBegin
<1>2. CASE KillContainer(c) \/ DeleteRows(c) \/ DaemonError(c)
  BY <1>2, SettleControl DEF KillContainer, DeleteRows, DaemonError, StandsAt
<1>3. CASE DeleteStop(c) \/ DeleteRemove(c) \/ DeleteFiles(c)
  BY <1>3, GotoControl DEF DeleteStop, DeleteRemove, DeleteFiles, StandsAt
<1>4. CASE RestoreStop(c)
  <2>1. CASE GuardFree
    <3> DEFINE r == [call[c] EXCEPT !.pc = "stop.begin"]
    <3>1. r \in CallType /\ r.pc = "stop.begin"
      BY DEF Control, CallType
    <3>2. /\ call' = [call EXCEPT ![c] = r]
          /\ inFlight' = [op |-> "stop", owner |-> c]
      BY <1>4, <2>1 DEF RestoreStop, Goto, Control
    <3> HIDE DEF r
    <3>3. Control' /\ StandsAt(c, r.pc)
      BY <2>1, <3>1, <3>2, TakeControl DEF EntryOps
    <3> QED BY <3>1, <3>3 DEF StandsAt
  <2>2. CASE ~GuardFree
    BY <1>4, <2>2, GotoControl DEF RestoreStop, StandsAt
  <2> QED BY <2>1, <2>2
<1>5. CASE RestoreVerify(c)
  BY <1>0, <1>5, GotoControl DEF RestoreVerify, StandsAt
<1>6. CASE RestoreWipe(c)
  BY <1>0, <1>6, GotoControl DEF RestoreWipe, StandsAt
<1>7. CASE RestoreExtract(c)
  BY <1>0, <1>7 DEF RestoreExtract
<1> QED BY <1>1, <1>2, <1>3, <1>4, <1>5, <1>6, <1>7

(* A request enters its body through guard, joins a start, or opens an     *)
(* operation that takes no entry.                                          *)
LEMMA RequestControl ==
  ASSUME Control, NEW c \in Calls, Request(c)
  PROVE  Control' /\ StandsAt(c, "idle")
<1> USE DEF AllPcs, BodyPcs, StartPcs, RecreatePcs, StopPcs, OtherPcs, EntryOps
<1>0. Idle.pc = "idle" /\ Idle.k = <<>>
  BY DEF Idle
<1>1. ASSUME NEW op \in EntryOps, NEW body \in Ops,
             NEW pc \in {"start.read", "stop.begin", "recreate.read",
                         "routing.inspect"},
             NEW k \in Seq(Returns), Enter(c, op, body, pc, k)
      PROVE  Control' /\ StandsAt(c, "idle")
  <2> DEFINE r == [Idle EXCEPT !.op = body, !.pc = pc, !.k = k]
  <2>1. r \in CallType /\ r.pc = pc
    BY IdleType DEF CallType
  <2>2. call' = [call EXCEPT ![c] = r]
    BY <1>1 DEF Enter
  <2> HIDE DEF r
  <2>3. Control' /\ StandsAt(c, r.pc)
    BY <1>1, <2>1, <2>2, TakeControl DEF Enter
  <2> QED BY <2>1, <2>3 DEF StandsAt
<1>2. ASSUME NEW op \in Ops,
             NEW pc \in {"joined", "kill.begin", "delete.begin", "restore.begin"},
             call[c].pc = "idle", UNCHANGED inFlight,
             call' = [call EXCEPT ![c] = [Idle EXCEPT !.op = op, !.pc = pc]]
      PROVE  Control' /\ StandsAt(c, "idle")
  <2> DEFINE r == [Idle EXCEPT !.op = op, !.pc = pc]
  <2>1. r \in CallType /\ r.pc = pc
    BY IdleType DEF CallType
  <2>2. call' = [call EXCEPT ![c] = r]
    BY <1>2
  <2> HIDE DEF r
  <2>3. Control' /\ StandsAt(c, r.pc)
    BY <1>2, <2>1, <2>2, MoveControl
  <2> QED BY <2>1, <2>3 DEF StandsAt
<1>3. <<>> \in Seq(Returns) /\ <<"restart.check">> \in Seq(Returns)
  BY DEF Returns
<1>4. CASE StartServer(c)
  BY <1>1, <1>2, <1>3, <1>4 DEF StartServer, Join, Ops
<1>5. CASE StopServer(c) \/ RestartServer(c) \/ RecreateServer(c)
             \/ ApplyRoutingChange(c)
  BY <1>1, <1>3, <1>5 DEF StopServer, RestartServer, RecreateServer,
                          ApplyRoutingChange, Ops
<1>6. CASE KillServer(c) \/ DeleteServer(c) \/ RestoreBackup(c)
  BY <1>2, <1>6 DEF KillServer, DeleteServer, RestoreBackup, Open, Ops
<1> QED BY <1>4, <1>5, <1>6 DEF Request

(* Outside the control, every step keeps the types of the data, and only   *)
(* a launch or a create can bring up a container that was not there.       *)
LEMMA CallData ==
  ASSUME Inv, NEW c \in Calls, Request(c) \/ Body(c)
  PROVE  /\ DataOK'
         /\ ~RecreateCreate(c) /\ ctr.state = "none" => ctr'.state = "none"
<1> USE DEF Inv, TypeOK, DataOK, CtrStates, Configs
<1>1. CASE Request(c)
  BY <1>1 DEF Request, StartServer, StopServer, RestartServer, RecreateServer,
              ApplyRoutingChange, KillServer, DeleteServer, RestoreBackup,
              Enter, Join, Open
<1>2. CASE RecreateCreate(c)
  <2>1. call[c].seen \in Configs
    BY DEF CallType
  <2> QED BY <1>2, <2>1 DEF RecreateCreate
<1>3. CASE \/ StartRead(c) \/ StartInspect(c) \/ StartRecord(c)
           \/ RecreateRead(c) \/ RecreateInspect(c) \/ RecreateRecord(c)
           \/ RecreateFail(c) \/ RestartCheck(c) \/ RoutingInspect(c)
           \/ StopBegin(c) \/ StopRecord(c) \/ KillBegin(c)
           \/ DeleteBegin(c) \/ DeleteRows(c) \/ DaemonError(c)
  BY <1>3 DEF StartRead, StartInspect, StartRecord, RecreateRead,
              RecreateInspect, RecreateRecord, RecreateFail, RestartCheck,
              RoutingInspect, StopBegin, StopRecord, KillBegin, DeleteBegin,
              DeleteRows, DaemonError, ReadRow
<1>4. CASE \/ StartLaunch(c) \/ RecreateStop(c) \/ RecreateRemove(c)
           \/ StopContainer(c) \/ KillContainer(c) \/ DeleteStop(c)
           \/ DeleteRemove(c)
  <2>1. UNCHANGED <<row, world, active, missed>>
    BY <1>4 DEF StartLaunch, RecreateStop, RecreateRemove, StopContainer,
                KillContainer, DeleteStop, DeleteRemove
  <2>2. \/ ctr' = ctr
        \/ \E s \in CtrStates : ctr' = [ctr EXCEPT !.state = s]
    BY <1>4 DEF StartLaunch, RecreateStop, RecreateRemove, StopContainer,
                KillContainer, DeleteStop, DeleteRemove, Stopped, Removed
  <2>3. ctr.state = "none" => ctr'.state = "none"
    BY <1>4 DEF StartLaunch, RecreateStop, RecreateRemove, StopContainer,
                KillContainer, DeleteStop, DeleteRemove, Stopped, Removed, Live
  <2> QED BY <2>1, <2>2, <2>3
<1>5. CASE \/ DeleteFiles(c) \/ RestoreStop(c) \/ RestoreVerify(c)
           \/ RestoreWipe(c) \/ RestoreExtract(c)
  BY <1>5 DEF DeleteFiles, RestoreStop, RestoreVerify, RestoreWipe,
              RestoreExtract, RestoreEnd
<1> QED BY <1>1, <1>2, <1>3, <1>4, <1>5 DEF Body

LEMMA CallInv ==
  ASSUME Inv, NEW c \in Calls, Request(c) \/ Body(c)
  PROVE  Inv'
<1>0. Control /\ DataOK /\ NoNameCollision
  BY DEF Inv, TypeOK, Control, DataOK
<1>1. DataOK' /\ (~RecreateCreate(c) /\ ctr.state = "none" => ctr'.state = "none")
  BY CallData
<1>2. CASE RecreateRemove(c)
  <2>1. Control'
    BY <1>0, <1>2, GotoControl
       DEF RecreateRemove, AllPcs, BodyPcs, RecreatePcs
  <2>2. ctr'.state = "none"
    BY <1>0, <1>2 DEF RecreateRemove, Removed, DataOK
  <2> QED BY <1>1, <2>1, <2>2 DEF Inv, TypeOK, Control, DataOK, NoNameCollision
<1>3. CASE ~RecreateRemove(c)
  <2>1. Control' /\ StandsAt(c, "idle")
    BY <1>0, <1>3, RequestControl, GuardedControl, UnguardedControl DEF Body
  <2>2. NoNameCollision'
    <3>1. CASE RecreateCreate(c)
      <4>1. call[c].pc = "recreate.create" /\ call'[c].pc = "recreate.record"
        BY <1>0, <3>1 DEF RecreateCreate, Goto, Control, CallType
      <4>2. \A d \in Calls : call[d].pc = "recreate.create" => d = c
        BY <1>0, <4>1, OneBody DEF BodyPcs, RecreatePcs
      <4> QED BY <2>1, <4>1, <4>2 DEF StandsAt, NoNameCollision
    <3>2. CASE ~RecreateCreate(c)
      BY <1>0, <1>1, <2>1, <3>2 DEF StandsAt, NoNameCollision
    <3> QED BY <3>1, <3>2
  <2> QED BY <1>1, <2>1, <2>2 DEF Inv, TypeOK, Control, DataOK
<1> QED BY <1>2, <1>3

LEMMA NextInv == Inv /\ [Next]_vars => Inv'
<1> SUFFICES ASSUME Inv, [Next]_vars
             PROVE  Inv'
  OBVIOUS
<1>1. ASSUME NEW c \in Calls, Request(c) \/ Body(c)
      PROVE  Inv'
  BY <1>1, CallInv
<1>2. CASE Environment
  <2>1. UNCHANGED <<world, inFlight, active, call>>
    BY <1>2 DEF Environment, UpdateServer, FlagRouted, ContainerExits,
                RouterStarts
  <2>2. row' \in [deleted : BOOLEAN, hasContainer : BOOLEAN,
                  pending : BOOLEAN, config : Configs]
    <3>1. CASE UpdateServer
      <4>1. row.config + 1 \in Configs
        BY <3>1, LifecycleAssumption, NoCallAssumption DEF UpdateServer, Inv, TypeOK, Configs
      <4>2. row' = [row EXCEPT !.config = row.config + 1, !.pending = TRUE]
        BY <3>1 DEF UpdateServer
      <4> QED BY <4>1, <4>2 DEF Inv, TypeOK
    <3>2. CASE FlagRouted \/ UNCHANGED row
      BY <3>2 DEF FlagRouted, Inv, TypeOK
    <3> QED BY <1>2, <3>1, <3>2 DEF Environment, ContainerExits, RouterStarts
  <2>3. missed' \in SUBSET Configs
    BY <1>2, LifecycleAssumption, NoCallAssumption
       DEF Environment, UpdateServer, FlagRouted, ContainerExits,
           RouterStarts, Inv, TypeOK, Configs
  <2>4. /\ ctr' \in [state : CtrStates, config : Configs]
        /\ ctr.state = "none" => ctr'.state = "none"
    BY <1>2 DEF Environment, UpdateServer, FlagRouted, ContainerExits,
                RouterStarts, Live, Inv, TypeOK, CtrStates
  <2> QED BY <2>1, <2>2, <2>3, <2>4
          DEF Inv, TypeOK, Owner, NoNameCollision
<1>3. CASE UNCHANGED vars
  BY <1>3 DEF vars, Inv, TypeOK, Owner, NoNameCollision
<1> QED BY <1>1, <1>2, <1>3 DEF Next

-----------------------------------------------------------------------------
(* Every variable keeps its type, the guard's entry names exactly the call *)
(* inside a guarded body, and no create meets an existing container.       *)
THEOREM LifecycleInvariant == Spec => []Inv
  BY InitInv, NextInv, PTL DEF Spec

(* Type correctness of the lifecycle, for all values of the constants.     *)
THEOREM LifecycleTypes == Spec => []TypeOK
  BY LifecycleInvariant, PTL DEF Inv

(* createContainer never finds the server's container name taken by the    *)
(* server's own previous container, however many calls, kills, deletes and *)
(* restores run at once and wherever Docker fails.                         *)
THEOREM CreateNeverCollides == Spec => []NoNameCollision
  BY LifecycleInvariant, PTL DEF Inv

-----------------------------------------------------------------------------
(* The long operation.  A restore is the only call in it, its pc is one of *)
(* its own or of the stop it nests, and once that stop has succeeded no    *)
(* call is in a guarded body until the restore ends.                       *)

RestorePcs == {"restore.begin", "restore.verify", "restore.wipe", "restore.extract"}
AfterStop == {"restore.verify", "restore.wipe", "restore.extract"}

\* only a restore is at the steps of one, and at no others but a stop's
Fits(r) == /\ r.pc \in RestorePcs => r.op = "restore"
           /\ r.op = "restore" => r.pc \in RestorePcs \cup StopPcs

InOperation ==
  /\ \A c \in Calls : Fits(call[c])
  /\ \A c \in Calls : call[c].op = "restore" => active = "restoring"
  /\ \A c, d \in Calls : call[c].op = "restore" /\ call[d].op = "restore" => c = d

\* shared starts share a start, and a restore's body is its stop
EntryFits ==
  /\ \A c \in Calls : call[c].pc = "joined" => inFlight.op = "start"
  /\ \A c \in Calls : call[c].op = "restore" /\ call[c].pc \in BodyPcs => inFlight.op = "stop"

Quiesced ==
  \A c \in Calls : call[c].op = "restore" /\ call[c].was =>
    /\ call[c].pc \in AfterStop
    /\ \A d \in Calls : call[d].pc \notin BodyPcs

OpInv == InOperation /\ EntryFits /\ Quiesced

(* What a step of the call c may do to the others and to the locks. *)
OpMove(c) ==
  /\ \A d \in Calls \ {c} : \/ call'[d] = call[d]
                            \/ call[d].pc = "joined" /\ call'[d] = Idle
  /\ Fits(call'[c])
  /\ call'[c].pc = "joined" =>
       inFlight.op = "start" /\ active = "none" /\ UNCHANGED <<inFlight, active>>
  /\ \/ /\ inFlight' = inFlight
        /\ \A d \in Calls \ {c} : call'[d] = call[d]
     \/ /\ \/ inFlight = Free /\ inFlight'.owner = c
           \/ inFlight.owner = c /\ inFlight' = Free
        /\ active' = active
        /\ \A d \in Calls \ {c} : call'[d].pc # "joined"
  /\ call'[c].op = "restore" =>
       /\ active' = "restoring"
       /\ \/ call[c].op = "restore"
          \/ active = "none" /\ call'[c].pc = "restore.begin" /\ ~call'[c].was
       /\ call'[c].pc \in BodyPcs => inFlight'.op = "stop"
       /\ call'[c].was => /\ call'[c].pc \in AfterStop
                          /\ (call[c].op = "restore" /\ call[c].was) \/ inFlight' = Free
  /\ active' = active \/ active' = "restoring" \/ call[c].op = "restore"
  /\ call'[c].pc \in BodyPcs =>
       call[c].pc \in BodyPcs \/ active = "none" \/ call[c].op = "restore"

LEMMA AfterStopNoBody == AfterStop \cap BodyPcs = {} /\ RestorePcs \cap BodyPcs = {}
  BY DEF AfterStop, RestorePcs, BodyPcs, StartPcs, RecreatePcs, StopPcs

LEMMA IdleFits == Fits(Idle) /\ Idle.op = "none" /\ Idle.pc = "idle" /\ Idle.pc \notin BodyPcs
  BY DEF Idle, Fits, RestorePcs, BodyPcs, StartPcs, RecreatePcs, StopPcs

LEMMA OpMoveKeeps ==
  ASSUME Control, Control', OpInv, NEW c \in Calls, OpMove(c)
  PROVE  OpInv'
<1>1. \A d \in Calls \ {c} : \/ call'[d] = call[d]
                             \/ call[d].pc = "joined" /\ call'[d] = Idle
  BY DEF OpMove
<1>2. \A d \in Calls \ {c} : call'[d].op = "restore" => call'[d] = call[d]
  BY <1>1, IdleFits
<1>3. InOperation'
  <2>1. ASSUME NEW d \in Calls
        PROVE  Fits(call'[d])
    BY <1>1, IdleFits DEF OpMove, OpInv, InOperation
  <2>2. ASSUME NEW d \in Calls, call'[d].op = "restore"
        PROVE  active' = "restoring"
    BY <1>2, <2>2 DEF OpMove, OpInv, InOperation
  <2>3. ASSUME NEW d \in Calls, NEW e \in Calls,
               call'[d].op = "restore", call'[e].op = "restore"
        PROVE  d = e
    BY <1>2, <2>3 DEF OpMove, OpInv, InOperation
  <2> QED BY <2>1, <2>2, <2>3 DEF InOperation
<1>4. EntryFits'
  <2>1. ASSUME NEW d \in Calls, call'[d].pc = "joined"
        PROVE  inFlight'.op = "start"
    BY <1>1, <2>1, IdleFits DEF OpMove, OpInv, EntryFits
  <2>2. ASSUME NEW d \in Calls, call'[d].op = "restore", call'[d].pc \in BodyPcs
        PROVE  inFlight'.op = "stop"
    <3>1. CASE d = c
      BY <2>2, <3>1 DEF OpMove
    <3>2. CASE d # c
      <4>1. inFlight'.owner = d
        BY <2>2 DEF Control, Owner
      <4>2. inFlight' = inFlight
        BY <3>2, <4>1, NoCallAssumption DEF OpMove, Free
      <4> QED BY <1>2, <2>2, <3>2, <4>2 DEF OpInv, EntryFits
    <3> QED BY <3>1, <3>2
  <2> QED BY <2>1, <2>2 DEF EntryFits
<1>5. Quiesced'
  <2> SUFFICES ASSUME NEW d \in Calls, call'[d].op = "restore", call'[d].was
               PROVE  /\ call'[d].pc \in AfterStop
                      /\ \A e \in Calls : call'[e].pc \notin BodyPcs
    BY DEF Quiesced
  <2>1. CASE d = c /\ inFlight' = Free
    <3>1. \A e \in Calls : call'[e].pc \notin BodyPcs
      BY <2>1, NoCallAssumption DEF Control, Owner, Free
    <3> QED BY <2>1, <3>1 DEF OpMove
  <2>2. CASE d = c /\ call[c].op = "restore" /\ call[c].was
    <3>1. call'[c].pc \in AfterStop
      BY <2>2 DEF OpMove
    <3>2. \A e \in Calls : call[e].pc \notin BodyPcs
      BY <2>2 DEF OpInv, Quiesced
    <3> QED BY <1>1, <2>2, <3>1, <3>2, AfterStopNoBody, IdleFits
  <2>3. CASE d # c
    <3>1. call'[d] = call[d]
      BY <1>2, <2>3
    <3>2. call[d].pc \in AfterStop /\ \A e \in Calls : call[e].pc \notin BodyPcs
      BY <3>1 DEF OpInv, Quiesced
    <3>3. active = "restoring" /\ call[c].op # "restore"
      BY <2>3, <3>1 DEF OpInv, InOperation
    <3>4. call'[c].pc \notin BodyPcs
      BY <3>2, <3>3 DEF OpMove
    <3> QED BY <1>1, <3>1, <3>2, <3>4, IdleFits
  <2> QED BY <2>1, <2>2, <2>3 DEF OpMove
<1> QED BY <1>3, <1>4, <1>5 DEF OpInv

(* Settling takes a call out of its body, and a restore on to its check.   *)
LEMMA SettleMoves ==
  ASSUME Control, OpInv, NEW c \in Calls, Settle(c), UNCHANGED active,
         call[c].op = "restore" => call[c].pc \in StopPcs
  PROVE  OpMove(c)
<1>1. call'[c] = IF call[c].op = "restore"
                 THEN [call[c] EXCEPT !.pc = "restore.verify"] ELSE Idle
  BY DEF Settle
<1>2. \A d \in Calls \ {c} : \/ call'[d] = call[d]
                             \/ call[d].pc = "joined" /\ call'[d] = Idle
  BY DEF Settle
<1>3. CASE call[c].op # "restore"
  BY <1>1, <1>2, <1>3, IdleFits, NoCallAssumption DEF Settle, OpMove, Free
<1>4. CASE call[c].op = "restore"
  <2>1. call[c] \in CallType /\ call[c].pc \in StopPcs
    BY <1>4 DEF Control
  <2>2. /\ call'[c].op = "restore" /\ call'[c].pc = "restore.verify"
        /\ call'[c].was = call[c].was
    BY <1>1, <1>4, <2>1 DEF CallType
  <2>3. ~call[c].was
    BY <1>4, <2>1 DEF OpInv, Quiesced, AfterStop, StopPcs
  <2>4. Fits(call'[c]) /\ call'[c].pc \notin BodyPcs
    BY <2>2, AfterStopNoBody DEF Fits, RestorePcs
  <2>5. active = "restoring"
    BY <1>4 DEF OpInv, InOperation
  <2>6. \/ /\ inFlight' = inFlight
           /\ \A d \in Calls \ {c} : call'[d] = call[d]
        \/ /\ inFlight.owner = c /\ inFlight' = Free
           /\ \A d \in Calls \ {c} : call'[d].pc # "joined"
    BY IdleFits DEF Settle
  <2> QED BY <1>2, <1>4, <2>2, <2>3, <2>4, <2>5, <2>6 DEF OpMove
<1> QED BY <1>3, <1>4

(* A step within a body, or outside any, changes no lock. *)
LEMMA OwnStepMoves ==
  ASSUME Control, OpInv, NEW c \in Calls, NEW r, call' = [call EXCEPT ![c] = r],
         UNCHANGED <<inFlight, active>>, r.op = call[c].op, Fits(r),
         r.pc # "joined", call[c].pc \in BodyPcs <=> r.pc \in BodyPcs,
         r.op = "restore" => r.was = call[c].was /\ (r.was => r.pc \in AfterStop)
  PROVE  OpMove(c)
<1>1. call'[c] = r /\ \A d \in Calls \ {c} : call'[d] = call[d]
  BY DEF Control
<1>2. r.op = "restore" => active = "restoring"
  BY DEF OpInv, InOperation
<1>3. r.op = "restore" /\ r.pc \in BodyPcs => inFlight.op = "stop"
  BY DEF OpInv, EntryFits
<1> QED BY <1>1, <1>2, <1>3 DEF OpMove

LEMMA GotoMoves ==
  ASSUME Control, OpInv, NEW c \in Calls, NEW pc, Goto(c, pc),
         UNCHANGED <<inFlight, active>>, pc # "joined",
         call[c].pc \in BodyPcs <=> pc \in BodyPcs,
         pc \in RestorePcs => call[c].op = "restore",
         call[c].op = "restore" =>
            pc \in RestorePcs \cup StopPcs /\ (call[c].was => pc \in AfterStop)
  PROVE  OpMove(c)
<1> DEFINE r == [call[c] EXCEPT !.pc = pc]
<1>1. /\ r.op = call[c].op /\ r.was = call[c].was /\ r.pc = pc
      /\ call' = [call EXCEPT ![c] = r]
  BY DEF Control, CallType, Goto
<1> HIDE DEF r
<1>2. Fits(r)
  BY <1>1 DEF Fits
<1> QED BY <1>1, <1>2, OwnStepMoves

(* A call that is not a restore's and is sent to a step that is not one of *)
(* a restore.                                                              *)
LEMMA BodyStepMoves ==
  ASSUME Control, OpInv, NEW c \in Calls, NEW r, call' = [call EXCEPT ![c] = r],
         UNCHANGED <<inFlight, active>>, call[c].op # "restore", r.op = call[c].op,
         call[c].pc \in BodyPcs, r.pc \in BodyPcs
  PROVE  OpMove(c)
<1>1. Fits(r) /\ r.pc # "joined"
  BY AfterStopNoBody, BodyNotOther DEF Fits, OtherPcs
<1> QED BY <1>1, OwnStepMoves

\* Outside the stop only other calls are in bodies.
LEMMA BodyIsNoRestore ==
  ASSUME OpInv, NEW c \in Calls, call[c].pc \in BodyPcs \ StopPcs
  PROVE  call[c].op # "restore"
  BY AfterStopNoBody DEF OpInv, InOperation, Fits

LEMMA ReadMoves ==
  ASSUME Control, OpInv, NEW c \in Calls, NEW from, NEW to,
         ReadRow(c, from, to), call[c].op # "restore", to # "joined",
         to \notin RestorePcs, from \in BodyPcs <=> to \in BodyPcs
  PROVE  OpMove(c)
<1>1. CASE Settle(c)
  BY <1>1, SettleMoves DEF ReadRow
<1>2. CASE ~Settle(c)
  <2> DEFINE r == [call[c] EXCEPT !.pc = to, !.seen = row.config,
                                  !.flagged = row.pending]
  <2>1. call[c] \in CallType /\ call[c].pc = from
    BY DEF Control, ReadRow
  <2>2. r.pc = to /\ r.op = call[c].op
    BY <2>1 DEF CallType
  <2>3. call' = [call EXCEPT ![c] = r] /\ UNCHANGED <<inFlight, active>>
    BY <1>2 DEF ReadRow, Control
  <2> HIDE DEF r
  <2>4. Fits(r)
    BY <2>2 DEF Fits
  <2> QED BY <2>1, <2>2, <2>3, <2>4, OwnStepMoves
<1> QED BY <1>1, <1>2

LEMMA ReturnMoves ==
  ASSUME Control, OpInv, NEW c \in Calls, Return(c), UNCHANGED active,
         call[c].pc \in BodyPcs \ StopPcs
  PROVE  OpMove(c)
<1>1. call[c].op # "restore"
  BY BodyIsNoRestore
<1>2. CASE call[c].k = <<>>
  BY <1>1, <1>2, SettleMoves DEF Return
<1>3. CASE call[c].k # <<>>
  <2> DEFINE r == [call[c] EXCEPT !.pc = Head(call[c].k), !.k = Tail(call[c].k)]
  <2>1. call[c] \in CallType /\ call[c].k \in Seq(Returns)
    BY DEF Control, CallType
  <2>2. Head(call[c].k) \in Returns
    BY <1>3, <2>1
  <2>3. r.pc \in BodyPcs /\ r.op = call[c].op
    BY <2>1, <2>2, ReturnsAreBodies DEF CallType
  <2>4. call' = [call EXCEPT ![c] = r] /\ UNCHANGED inFlight
    BY <1>3 DEF Return, Control
  <2> HIDE DEF r
  <2> QED BY <1>1, <2>3, <2>4, BodyStepMoves
<1> QED BY <1>2, <1>3

(* A call enters a guarded body only where no long operation is in         *)
(* progress, or as that operation itself.                                  *)
LEMMA EntersMoves ==
  ASSUME Control, OpInv, NEW c \in Calls, NEW op \in EntryOps, NEW r,
         GuardFree, inFlight' = [op |-> op, owner |-> c],
         call' = [call EXCEPT ![c] = r], UNCHANGED active,
         r.pc \in BodyPcs, Fits(r),
         \/ active = "none" /\ r.op # "restore"
         \/ call[c].op = "restore" /\ r.op = "restore" /\ op = "stop" /\ ~r.was
  PROVE  OpMove(c)
<1>1. call'[c] = r /\ \A d \in Calls \ {c} : call'[d] = call[d]
  BY DEF Control
<1>2. \A d \in Calls : call[d].pc # "joined"
  BY DEF OpInv, EntryFits, GuardFree, Free
<1>3. r.pc # "joined"
  BY BodyNotOther DEF OtherPcs
<1>4. call[c].op = "restore" => active = "restoring"
  BY DEF OpInv, InOperation
<1>5. inFlight = Free /\ inFlight'.owner = c /\ inFlight'.op = op
  BY DEF GuardFree
<1> QED BY <1>1, <1>2, <1>3, <1>4, <1>5 DEF OpMove

\* The steps of the guarded bodies.
LEMMA GuardedMoves ==
  ASSUME Control, OpInv, NEW c \in Calls,
         \/ StartRead(c) \/ StartInspect(c) \/ StartLaunch(c) \/ StartRecord(c)
         \/ RecreateRead(c) \/ RecreateInspect(c) \/ RecreateStop(c)
         \/ RecreateRemove(c) \/ RecreateCreate(c) \/ RecreateFail(c)
         \/ RecreateRecord(c) \/ RestartCheck(c) \/ RoutingInspect(c)
  PROVE  OpMove(c)
<1> USE DEF BodyPcs, StartPcs, RecreatePcs, StopPcs
<1>0. call[c].op # "restore" /\ call[c].pc \in BodyPcs \ StopPcs
  <2>1. call[c].pc \in BodyPcs \ StopPcs
    BY DEF StartRead, StartInspect, StartLaunch, StartRecord, RecreateRead, RecreateInspect,
           RecreateStop, RecreateRemove, RecreateCreate, RecreateFail, RecreateRecord,
           RestartCheck, RoutingInspect, ReadRow
  <2> QED BY <2>1, BodyIsNoRestore
<1>1. ASSUME NEW pc \in BodyPcs, Goto(c, pc), UNCHANGED <<inFlight, active>>
      PROVE  OpMove(c)
  <2>1. pc \notin RestorePcs /\ pc # "joined"
    BY DEF RestorePcs
  <2> QED BY <1>0, <1>1, <2>1, GotoMoves
<1>2. CASE StartRead(c) \/ RecreateRead(c)
  BY <1>0, <1>2, ReadMoves DEF StartRead, RecreateRead, RestorePcs
<1>3. CASE StartInspect(c)
  <2>1. CASE Nest(c, "recreate.read", "start.launch")
    <3> DEFINE r == [call[c] EXCEPT !.pc = "recreate.read", !.k = <<"start.launch">> \o call[c].k]
    <3>1. call[c] \in CallType
      BY DEF Control
    <3>2. r.pc \in BodyPcs /\ r.op = call[c].op
      BY <3>1 DEF CallType
    <3>3. call' = [call EXCEPT ![c] = r] /\ UNCHANGED <<inFlight, active>>
      BY <1>3, <2>1 DEF StartInspect, Nest, Control
    <3> HIDE DEF r
    <3> QED BY <1>0, <3>2, <3>3, BodyStepMoves
  <2> QED BY <1>1, <1>3, <2>1 DEF StartInspect
<1>4. CASE StartLaunch(c)
  BY <1>0, <1>1, <1>4, SettleMoves DEF StartLaunch
<1>5. CASE StartRecord(c)
  BY <1>0, <1>5, ReturnMoves DEF StartRecord
<1>6. CASE RecreateInspect(c)
  <2> DEFINE r == [call[c] EXCEPT !.was = Live,
                !.pc = IF Live THEN "recreate.stop" ELSE "recreate.remove"]
  <2>1. call[c] \in CallType
    BY DEF Control
  <2>2. r.pc \in BodyPcs /\ r.op = call[c].op
    BY <2>1 DEF CallType
  <2>3. call' = [call EXCEPT ![c] = r] /\ UNCHANGED <<inFlight, active>>
    BY <1>6 DEF RecreateInspect, Control
  <2> HIDE DEF r
  <2> QED BY <1>0, <2>2, <2>3, BodyStepMoves
<1>7. CASE RecreateStop(c) \/ RecreateRemove(c) \/ RecreateCreate(c)
  BY <1>1, <1>7 DEF RecreateStop, RecreateRemove, RecreateCreate
<1>8. CASE RecreateFail(c)
  BY <1>0, <1>8, SettleMoves DEF RecreateFail
<1>9. CASE RecreateRecord(c)
  BY <1>0, <1>1, <1>9, ReturnMoves DEF RecreateRecord
<1>10. CASE RestartCheck(c) \/ RoutingInspect(c)
  BY <1>0, <1>1, <1>10, SettleMoves DEF RestartCheck, RoutingInspect
<1> QED BY <1>2, <1>3, <1>4, <1>5, <1>6, <1>7, <1>8, <1>9, <1>10

\* The steps of a stop, which a restore nests.
LEMMA StopMoves ==
  ASSUME Control, OpInv, NEW c \in Calls, StopBegin(c) \/ StopContainer(c) \/ StopRecord(c)
  PROVE  OpMove(c)
<1> USE DEF StopPcs
<1>1. /\ call[c].pc \in StopPcs /\ call[c].pc \in BodyPcs /\ UNCHANGED active
      /\ call[c].op = "restore" => ~call[c].was
  BY DEF StopBegin, StopContainer, StopRecord, BodyPcs, OpInv, Quiesced, AfterStop
<1>2. ASSUME NEW pc \in StopPcs, Goto(c, pc), UNCHANGED inFlight
      PROVE  OpMove(c)
  <2>1. pc \notin RestorePcs /\ pc # "joined" /\ pc \in BodyPcs
    BY DEF RestorePcs, BodyPcs
  <2> QED BY <1>1, <1>2, <2>1, GotoMoves
<1>3. CASE StopBegin(c) \/ StopContainer(c)
  BY <1>1, <1>2, <1>3, SettleMoves DEF StopBegin, StopContainer
<1>4. CASE StopRecord(c)
  <2>1. CASE call[c].op # "restore"
    BY <1>1, <1>4, <2>1, SettleMoves DEF StopRecord
  <2>2. CASE call[c].op = "restore"
    <3> DEFINE r == [call[c] EXCEPT !.pc = "restore.verify", !.was = TRUE]
    <3>1. call[c] \in CallType
      BY DEF Control
    <3>2. r.op = "restore" /\ r.pc = "restore.verify"
      BY <2>2, <3>1 DEF CallType
    <3>3. /\ call'[c] = r
          /\ \A d \in Calls \ {c} : call'[d] = call[d]
          /\ inFlight' = IF inFlight.owner = c THEN Free ELSE inFlight
      BY <1>4, <2>2 DEF StopRecord, Control
    <3> HIDE DEF r
    <3>4. inFlight.owner = c /\ inFlight.op = "stop" /\ active = "restoring"
      BY <1>1, <2>2 DEF Control, Owner, OpInv, EntryFits, InOperation
    <3>5. inFlight' = Free /\ Free.owner = NoCall
      BY <3>3, <3>4 DEF Free
    <3>6. \A d \in Calls : call[d].pc # "joined"
      BY <3>4 DEF OpInv, EntryFits
    <3>7. Fits(r) /\ r.pc \in AfterStop /\ r.pc \notin BodyPcs /\ r.pc # "joined"
      BY <3>2, AfterStopNoBody DEF Fits, RestorePcs, AfterStop
    <3> QED BY <1>1, <2>2, <3>2, <3>3, <3>4, <3>5, <3>6, <3>7 DEF OpMove
  <2> QED BY <2>1, <2>2
<1> QED BY <1>3, <1>4

\* The steps of a kill and of a deletion.
LEMMA KillDeleteMoves ==
  ASSUME Control, OpInv, NEW c \in Calls,
         \/ KillBegin(c) \/ KillContainer(c) \/ DeleteBegin(c) \/ DeleteStop(c)
         \/ DeleteRemove(c) \/ DeleteFiles(c) \/ DeleteRows(c)
  PROVE  OpMove(c)
<1> DEFINE Pcs == {"kill.begin", "kill.container", "delete.begin", "delete.stop",
                   "delete.remove", "delete.files", "delete.rows"}
<1>1. call[c].pc \in Pcs /\ UNCHANGED active
  BY DEF KillBegin, KillContainer, DeleteBegin, DeleteStop, DeleteRemove, DeleteFiles,
         DeleteRows, ReadRow
<1>2. Pcs \cap (BodyPcs \cup RestorePcs) = {} /\ "joined" \notin Pcs
  BY DEF BodyPcs, StartPcs, RecreatePcs, StopPcs, RestorePcs
<1>3. call[c].op # "restore"
  BY <1>1, <1>2 DEF OpInv, InOperation, Fits, BodyPcs
<1>4. ASSUME NEW pc \in Pcs, Goto(c, pc), UNCHANGED inFlight
      PROVE  OpMove(c)
  BY <1>1, <1>2, <1>3, <1>4, GotoMoves
<1>5. CASE KillBegin(c) \/ DeleteBegin(c)
  BY <1>2, <1>3, <1>5, ReadMoves DEF KillBegin, DeleteBegin
<1>6. CASE KillContainer(c) \/ DeleteRows(c)
  BY <1>1, <1>3, <1>6, SettleMoves DEF KillContainer, DeleteRows
<1>7. CASE DeleteStop(c) \/ DeleteRemove(c) \/ DeleteFiles(c)
  BY <1>4, <1>7 DEF DeleteStop, DeleteRemove, DeleteFiles
<1> QED BY <1>5, <1>6, <1>7

\* The steps of a restore around its stop, and a failing Docker call.
LEMMA RestoreMoves ==
  ASSUME Control, OpInv, NEW c \in Calls,
         \/ RestoreStop(c) \/ RestoreVerify(c) \/ RestoreWipe(c) \/ RestoreExtract(c)
  PROVE  OpMove(c)
<1> USE DEF RestorePcs, AfterStop
<1>1. call[c].pc \in RestorePcs /\ call[c].pc \notin BodyPcs /\ call[c] \in CallType
  BY AfterStopNoBody DEF RestoreStop, RestoreVerify, RestoreWipe, RestoreExtract, Control
<1>2. call[c].op = "restore" /\ active = "restoring"
  BY <1>1 DEF OpInv, InOperation, Fits
<1>3. ASSUME NEW pc \in AfterStop, Goto(c, pc), UNCHANGED <<inFlight, active>>
      PROVE  OpMove(c)
  BY <1>1, <1>2, <1>3, AfterStopNoBody, GotoMoves
<1>4. ASSUME RestoreEnd(c), UNCHANGED inFlight
      PROVE  OpMove(c)
  <2>1. call'[c] = Idle /\ \A d \in Calls \ {c} : call'[d] = call[d]
    BY <1>4 DEF RestoreEnd, Control
  <2> QED BY <1>2, <1>4, <2>1, IdleFits DEF OpMove
<1>5. CASE RestoreStop(c)
  <2>1. CASE GuardFree
    <3> DEFINE r == [call[c] EXCEPT !.pc = "stop.begin"]
    <3>1. r.pc = "stop.begin" /\ r.op = "restore" /\ r.was = call[c].was
      BY <1>1, <1>2 DEF CallType
    <3>2. r.pc \in BodyPcs /\ Fits(r) /\ ~r.was
      BY <1>2, <1>5, <3>1 DEF BodyPcs, StopPcs, Fits, OpInv, Quiesced, RestoreStop
    <3>3. /\ call' = [call EXCEPT ![c] = r] /\ UNCHANGED active
          /\ inFlight' = [op |-> "stop", owner |-> c]
      BY <1>5, <2>1 DEF RestoreStop, Goto, Control
    <3> HIDE DEF r
    <3> QED BY <1>2, <2>1, <3>1, <3>2, <3>3, EntersMoves DEF EntryOps
  <2> QED BY <1>3, <1>5, <2>1 DEF RestoreStop
<1>6. CASE RestoreVerify(c)
  BY <1>3, <1>4, <1>6 DEF RestoreVerify
<1>7. CASE RestoreWipe(c)
  BY <1>3, <1>4, <1>7 DEF RestoreWipe
<1>8. CASE RestoreExtract(c)
  BY <1>4, <1>8 DEF RestoreExtract
<1> QED BY <1>5, <1>6, <1>7, <1>8

LEMMA DaemonErrorMoves ==
  ASSUME Control, OpInv, NEW c \in Calls, DaemonError(c)
  PROVE  OpMove(c)
<1>1. call[c].op = "restore" => call[c].pc \in StopPcs
  BY DEF DaemonError, OpInv, InOperation, Fits, RestorePcs
<1> QED BY <1>1, SettleMoves DEF DaemonError

\* A request enters its body, shares a start, or opens an operation.
LEMMA RequestMoves ==
  ASSUME Control, OpInv, NEW c \in Calls, Request(c)
  PROVE  OpMove(c)
<1> USE DEF Ops
<1>1. ASSUME NEW op \in EntryOps, NEW body \in Ops \ {"restore"}, NEW pc \in BodyPcs, NEW k,
             Enter(c, op, body, pc, k)
      PROVE  OpMove(c)
  <2> DEFINE r == [Idle EXCEPT !.op = body, !.pc = pc, !.k = k]
  <2>1. r.op = body /\ r.pc = pc
    BY DEF Idle
  <2>2. call' = [call EXCEPT ![c] = r]
    BY <1>1 DEF Enter
  <2> HIDE DEF r
  <2>3. Fits(r)
    BY <2>1, AfterStopNoBody DEF Fits
  <2> QED BY <1>1, <2>1, <2>2, <2>3, EntersMoves DEF Enter, NotBusy
<1>2. ASSUME NEW op, NEW pc, call[c].pc = "idle", UNCHANGED inFlight,
             call' = [call EXCEPT ![c] = [Idle EXCEPT !.op = op, !.pc = pc]],
             \/ pc \in {"joined", "kill.begin", "delete.begin"} /\ op # "restore" /\ UNCHANGED active
             \/ pc = "restore.begin" /\ op = "restore" /\ active = "none" /\ active' = "restoring",
             pc = "joined" => inFlight.op = "start" /\ active = "none"
      PROVE  OpMove(c)
  <2> DEFINE r == [Idle EXCEPT !.op = op, !.pc = pc]
  <2>1. r.op = op /\ r.pc = pc /\ ~r.was
    BY DEF Idle
  <2>2. call'[c] = r /\ \A d \in Calls \ {c} : call'[d] = call[d]
    BY <1>2 DEF Control
  <2> HIDE DEF r
  <2>3. Fits(r) /\ r.pc \notin BodyPcs
    BY <1>2, <2>1 DEF Fits, RestorePcs, BodyPcs, StartPcs, RecreatePcs, StopPcs
  <2> QED BY <1>2, <2>1, <2>2, <2>3 DEF OpMove
<1>3. CASE StartServer(c)
  <2>1. CASE Enter(c, "start", "start", "start.read", <<>>)
    BY <1>1, <2>1 DEF EntryOps, BodyPcs, StartPcs
  <2>2. CASE Join(c)
    BY <1>2, <2>2 DEF Join, NotBusy
  <2> QED BY <1>3, <2>1, <2>2 DEF StartServer
<1>4. CASE StopServer(c) \/ RestartServer(c) \/ RecreateServer(c) \/ ApplyRoutingChange(c)
  BY <1>1, <1>4 DEF StopServer, RestartServer, RecreateServer, ApplyRoutingChange,
                    EntryOps, BodyPcs, RecreatePcs, StopPcs
<1>5. CASE KillServer(c) \/ DeleteServer(c)
  <2>1. CASE KillServer(c)
    BY <1>2, <2>1 DEF KillServer, Open
  <2>2. CASE DeleteServer(c)
    BY <1>2, <2>2 DEF DeleteServer, Open
  <2> QED BY <1>5, <2>1, <2>2
<1>6. CASE RestoreBackup(c)
  BY <1>2, <1>6 DEF RestoreBackup, Open, NotBusy
<1> QED BY <1>3, <1>4, <1>5, <1>6 DEF Request

\* Any step of a call.
LEMMA CallMoves ==
  ASSUME Control, OpInv, NEW c \in Calls, Request(c) \/ Body(c)
  PROVE  OpMove(c)
BY RequestMoves, GuardedMoves, StopMoves, KillDeleteMoves, RestoreMoves, DaemonErrorMoves DEF Body

\* The environment touches neither calls nor locks.
LEMMA EnvironmentMoves ==
  Environment => UNCHANGED <<world, inFlight, active, call>>
BY DEF Environment, UpdateServer, FlagRouted, ContainerExits, RouterStarts

-----------------------------------------------------------------------------
(* The container under a restore.  Only a launch brings it up, and only    *)
(* from a guarded body or by mc-router.                                    *)

StaysDown ==
  ~Routed => \A c \in Calls :
    call[c].op = "restore" /\ (call[c].was \/ call[c].pc = "stop.record") => ~Live

\* What a call's step does to the container's life.
LEMMA CallLives ==
  ASSUME TypeOK, NEW c \in Calls, Request(c) \/ Body(c)
  PROVE  /\ Live' => Live \/ call[c].pc \in BodyPcs \ StopPcs
         /\ StopContainer(c) => ~Live'
<1>1. CASE \/ StartLaunch(c) \/ RecreateStop(c) \/ RecreateRemove(c) \/ RecreateCreate(c)
           \/ StopContainer(c) \/ KillContainer(c) \/ DeleteStop(c) \/ DeleteRemove(c)
  <2>1. CASE StartLaunch(c) \/ RecreateCreate(c)
    BY <2>1 DEF StartLaunch, RecreateCreate, StopContainer, BodyPcs, StartPcs, RecreatePcs, StopPcs
  <2>2. CASE RecreateStop(c) \/ StopContainer(c)
    BY <2>2 DEF RecreateStop, StopContainer, Stopped, Live, TypeOK
  <2>3. CASE DeleteStop(c)
    BY <2>3 DEF DeleteStop, StopContainer, Stopped, Live, TypeOK
  <2>4. CASE RecreateRemove(c) \/ DeleteRemove(c) \/ KillContainer(c)
    BY <2>4 DEF RecreateRemove, DeleteRemove, KillContainer, StopContainer, Removed, Live, TypeOK
  <2> QED BY <1>1, <2>1, <2>2, <2>3, <2>4
<1>2. CASE \/ Request(c) \/ StartRead(c) \/ StartInspect(c) \/ StartRecord(c)
           \/ RecreateRead(c) \/ RecreateInspect(c) \/ RecreateFail(c) \/ RecreateRecord(c)
           \/ RestartCheck(c) \/ RoutingInspect(c) \/ StopBegin(c) \/ StopRecord(c)
           \/ KillBegin(c) \/ DeleteBegin(c) \/ DeleteFiles(c) \/ DeleteRows(c)
           \/ RestoreStop(c) \/ RestoreVerify(c) \/ RestoreWipe(c) \/ RestoreExtract(c)
           \/ DaemonError(c)
  <2>1. ctr' = ctr
    BY <1>2 DEF Request, StartServer, StopServer, RestartServer, RecreateServer,
         ApplyRoutingChange, KillServer, DeleteServer, RestoreBackup, Enter, Join, Open,
         StartRead, StartInspect, StartRecord, RecreateRead, RecreateInspect, RecreateFail,
         RecreateRecord, RestartCheck, RoutingInspect, StopBegin, StopRecord, KillBegin,
         DeleteBegin, DeleteFiles, DeleteRows, RestoreStop, RestoreVerify, RestoreWipe,
         RestoreExtract, DaemonError, ReadRow
  <2>2. StopContainer(c) => ctr' = Stopped
    BY DEF StopContainer
  <2> QED BY <2>1, <2>2 DEF Live, Stopped, TypeOK
<1> QED BY <1>1, <1>2 DEF Body

(* A restore reaches its stop's last step through the stop itself, and      *)
(* remembers a stop that succeeded.                                        *)
LEMMA StopSteps ==
  ASSUME Control, OpInv, NEW c \in Calls, Request(c) \/ Body(c), call'[c].op = "restore"
  PROVE  /\ call'[c].pc = "stop.record" => StopContainer(c)
         /\ call'[c].was => /\ call[c].op = "restore"
                            /\ call[c].was \/ call[c].pc = "stop.record"
<1>1. CASE call[c].op # "restore"
  BY <1>1, CallMoves DEF OpMove
<1>2. CASE call[c].op = "restore"
  <2>1. call[c] \in CallType /\ call[c].pc \in RestorePcs \cup StopPcs
    BY <1>2 DEF Control, OpInv, InOperation, Fits
  <2>2. ASSUME NEW pc, Goto(c, pc)
        PROVE  call'[c].pc = pc /\ call'[c].was = call[c].was
    BY <2>1, <2>2 DEF Goto, Control, CallType
  <2>3. ASSUME Settle(c)
        PROVE  call'[c].pc = "restore.verify" /\ call'[c].was = call[c].was
    BY <1>2, <2>1, <2>3 DEF Settle, CallType
  <2>4. ASSUME RestoreEnd(c)
        PROVE  FALSE
    BY <2>4 DEF RestoreEnd, Control, Idle
  <2>5. ~Request(c)
    BY <2>1 DEF Request, StartServer, StopServer, RestartServer, RecreateServer,
         ApplyRoutingChange, KillServer, DeleteServer, RestoreBackup, Enter, Join, Open,
         RestorePcs, StopPcs
  <2>6. \/ StopBegin(c) \/ StopContainer(c) \/ StopRecord(c) \/ DaemonError(c)
        \/ RestoreStop(c) \/ RestoreVerify(c) \/ RestoreWipe(c) \/ RestoreExtract(c)
    BY <2>1, <2>5 DEF Body, RestorePcs, StopPcs, StartRead, StartInspect, StartLaunch, StartRecord,
         RecreateRead, RecreateInspect, RecreateStop, RecreateRemove, RecreateCreate,
         RecreateFail, RecreateRecord, RestartCheck, RoutingInspect, KillBegin, KillContainer,
         DeleteBegin, DeleteStop, DeleteRemove, DeleteFiles, DeleteRows, ReadRow
  <2>7. CASE StopBegin(c) \/ DaemonError(c)
    BY <1>2, <2>2, <2>3, <2>7 DEF StopBegin, DaemonError
  <2>8. CASE StopContainer(c)
    BY <1>2, <2>2, <2>8 DEF StopContainer
  <2>9. CASE StopRecord(c)
    <3>1. call[c].pc = "stop.record"
          /\ call' = [call EXCEPT ![c].pc = "restore.verify", ![c].was = TRUE]
      BY <1>2, <2>9 DEF StopRecord
    <3>2. call'[c].pc = "restore.verify"
      BY <2>1, <3>1 DEF Control, CallType
    <3> QED BY <1>2, <3>1, <3>2
  <2>10. CASE RestoreStop(c) \/ RestoreVerify(c) \/ RestoreWipe(c) \/ RestoreExtract(c)
    BY <1>2, <2>2, <2>4, <2>10 DEF RestoreStop, RestoreVerify, RestoreWipe, RestoreExtract
  <2> QED BY <2>6, <2>7, <2>8, <2>9, <2>10
<1> QED BY <1>1, <1>2

(* Nothing brings the container up under a restore whose stop succeeded:   *)
(* a launch needs a guarded body, and there is none.                       *)
LEMMA CallKeepsDown ==
  ASSUME TypeOK, Control, OpInv, OpInv', StaysDown, NEW c \in Calls, Request(c) \/ Body(c)
  PROVE  StaysDown'
<1> SUFFICES ASSUME ~Routed, NEW d \in Calls, call'[d].op = "restore",
                    call'[d].was \/ call'[d].pc = "stop.record"
             PROVE  ~Live'
  BY DEF StaysDown
<1>1. CASE StopContainer(c)
  BY <1>1, CallLives
<1>2. CASE ~StopContainer(c)
  <2>1. call[d].op = "restore" /\ (call[d].was \/ call[d].pc = "stop.record")
    <3>1. CASE d = c
      BY <1>2, <3>1, StopSteps
    <3>2. CASE d # c
      BY <3>2, CallMoves, IdleFits DEF OpMove
    <3> QED BY <3>1, <3>2
  <2>2. ~Live
    BY <2>1 DEF StaysDown
  <2>3. call[c].pc \notin BodyPcs \ StopPcs
    <3>1. CASE call[d].was
      BY <2>1, <3>1 DEF OpInv, Quiesced
    <3>2. CASE call[d].pc = "stop.record"
      BY <2>1, <3>2, OneBody DEF BodyPcs, StopPcs
    <3> QED BY <2>1, <3>1, <3>2
  <2> QED BY <2>2, <2>3, CallLives
<1> QED BY <1>1, <1>2

LEMMA EnvironmentKeepsDown ==
  ASSUME StaysDown, Environment
  PROVE  StaysDown'
<1>1. call' = call /\ (~Routed /\ Live' => Live)
  BY DEF Environment, UpdateServer, FlagRouted, ContainerExits, RouterStarts, Live
<1> QED BY <1>1 DEF StaysDown

LEMMA NextOp == Inv /\ OpInv /\ StaysDown /\ [Next]_vars => OpInv' /\ StaysDown'
<1> SUFFICES ASSUME Inv, OpInv, StaysDown, [Next]_vars
             PROVE  OpInv' /\ StaysDown'
  OBVIOUS
<1>1. TypeOK /\ Control /\ Control'
  BY NextInv DEF Inv, TypeOK, Control
<1>2. ASSUME NEW c \in Calls, Request(c) \/ Body(c)
      PROVE  OpInv' /\ StaysDown'
  BY <1>1, <1>2, CallMoves, OpMoveKeeps, CallKeepsDown
<1>3. CASE Environment
  BY <1>3, EnvironmentMoves, EnvironmentKeepsDown DEF OpInv, InOperation, EntryFits, Quiesced
<1>4. CASE UNCHANGED vars
  BY <1>4 DEF vars, OpInv, InOperation, EntryFits, Quiesced, StaysDown, Live
<1> QED BY <1>2, <1>3, <1>4 DEF Next

LEMMA InitOp == Init => OpInv /\ StaysDown
  BY IdleFits DEF Init, OpInv, InOperation, EntryFits, Quiesced, StaysDown, Live

(* At most one restore runs, alone in the long operation; the calls that   *)
(* share a promise share a start; and once a restore's own stop succeeded  *)
(* no lifecycle body runs and the container stays down.                    *)
THEOREM OperationInvariant == Spec => [](OpInv /\ StaysDown)
  BY LifecycleInvariant, InitOp, NextOp, PTL DEF Spec

(* A restore whose stop succeeded never wipes or unpacks the directory     *)
(* under a live server, whatever else is requested meanwhile.              *)
THEOREM RestoreNeverUnderALiveServer == Spec => []StoppedRestoreIsSafe
<1>1. OpInv /\ StaysDown => StoppedRestoreIsSafe
  BY DEF OpInv, InOperation, Fits, RestorePcs, StaysDown, StoppedRestoreIsSafe
<1> QED BY <1>1, OperationInvariant, PTL

-----------------------------------------------------------------------------
(* The refinement: the calls' bodies implement ServerLocks, whose running  *)
(* calls are those inside a guarded body.                                  *)

LEMMA PhaseOf ==
  ASSUME NEW c \in Calls
  PROVE  /\ LockPhase[c] = "running" <=> call[c].pc \in BodyPcs
         /\ LockPhase[c] = "joined" <=> call[c].pc = "joined"
         /\ LockPhase[c] = "out" <=> call[c].pc \notin BodyPcs \cup {"joined"}
         /\ LockPhase[c] \in {"running", "joined", "out"}
  BY BodyNotOther DEF LockPhase, OtherPcs

LEMMA InitLocks == Init => Locks!Init
  BY IdleFits DEF Init, Locks!Init, Locks!Free, Free, LockPhase, Idle

LEMMA StepsFromUnjoined ==
  ASSUME NEW c \in Calls, Request(c) \/ Body(c)
  PROVE  call[c].pc # "joined"
<1>1. CASE Request(c)
  BY <1>1 DEF Request, StartServer, StopServer, RestartServer, RecreateServer,
       ApplyRoutingChange, KillServer, DeleteServer, RestoreBackup, Enter, Join, Open
<1>2. CASE Body(c)
  BY <1>2 DEF Body, StartRead, StartInspect, StartLaunch, StartRecord,
       RecreateRead, RecreateInspect, RecreateStop, RecreateRemove, RecreateCreate,
       RecreateFail, RecreateRecord, RestartCheck, RoutingInspect, StopBegin, StopContainer,
       StopRecord, KillBegin, KillContainer, DeleteBegin, DeleteStop, DeleteRemove,
       DeleteFiles, DeleteRows, RestoreStop, RestoreVerify, RestoreWipe, RestoreExtract,
       DaemonError, ReadRow
<1> QED BY <1>1, <1>2

(* The step map.  A step that leaves the entry alone shares a start, opens *)
(* or ends the long operation, or stutters; one that changes it takes the  *)
(* entry for its call or drops its call's.                                 *)
LEMMA MoveIsLockStep ==
  ASSUME TypeOK, TypeOK', Control, Control', EntryFits, NEW c \in Calls, OpMove(c),
         call[c].pc # "joined"
  PROVE  Locks!Next \/ UNCHANGED <<inFlight, active, LockPhase>>
<1> DEFINE others == Calls \ {c}
<1>1. \A d \in others : \/ call'[d] = call[d]
                        \/ call[d].pc = "joined" /\ call'[d] = Idle
  BY DEF OpMove
<1>4. CASE inFlight' = inFlight
  <2>1. \A d \in others : LockPhase'[d] = LockPhase[d]
    BY <1>4, NoCallAssumption DEF OpMove, Free, LockPhase
  <2>2. CASE call'[c].pc = "joined"
    <3>1. /\ inFlight.op = "start" /\ active = "none" /\ UNCHANGED <<inFlight, active>>
          /\ call[c].pc \notin BodyPcs
      BY <1>4, <2>2, BodyNotOther DEF OpMove, Control, Owner, OtherPcs
    <3>2. LockPhase[c] = "out" /\ LockPhase'[c] = "joined"
      BY <2>2, <3>1, BodyNotOther DEF LockPhase, OtherPcs
    <3>3. LockPhase' = [LockPhase EXCEPT ![c] = "joined"]
      BY <2>1, <3>2 DEF LockPhase
    <3>4. Locks!Join(c, FALSE)
      BY <3>1, <3>2, <3>3 DEF Locks!Join, Locks!NotBusy
    <3> QED BY <3>4 DEF Locks!Next
  <2>3. CASE call'[c].pc # "joined"
    <3>1. LockPhase'[c] = LockPhase[c]
      BY <1>4, <2>3 DEF LockPhase, Control, Owner
    <3>2. LockPhase' = LockPhase
      BY <2>1, <3>1 DEF LockPhase
    <3>3. CASE active' = active
      BY <1>4, <3>2, <3>3
    <3>4. CASE active = "none" /\ active' = "restoring"
      <4>1. Locks!BeginOperation("restoring") /\ "restoring" \in Locks!Kinds
        BY <1>4, <3>2, <3>4 DEF Locks!BeginOperation, Locks!NotBusy, Locks!Kinds
      <4> QED BY <4>1 DEF Locks!Next
    <3>5. CASE active = "restoring" /\ active' = "none"
      <4>1. Locks!EndOperation
        BY <1>4, <3>2, <3>5 DEF Locks!EndOperation
      <4> QED BY <4>1 DEF Locks!Next
    <3> QED BY <3>3, <3>4, <3>5 DEF TypeOK
  <2> QED BY <2>2, <2>3
<1>5. CASE inFlight = Free /\ inFlight'.owner = c /\ active' = active
  <2>1. call[c].pc \notin BodyPcs /\ call'[c].pc \in BodyPcs
    BY <1>5, NoCallAssumption DEF Control, Owner, Free
  <2>2. LockPhase[c] = "out" /\ LockPhase'[c] = "running"
    BY <2>1 DEF LockPhase
  <2>3. \A d \in others : call'[d] = call[d]
    BY <1>1, <1>5 DEF EntryFits, Free
  <2>4. LockPhase' = [LockPhase EXCEPT ![c] = "running"]
    BY <2>2, <2>3 DEF LockPhase
  <2>5. inFlight' = [op |-> inFlight'.op, owner |-> c] /\ inFlight'.op \in Locks!LifecycleOps
    BY <1>5, NoCallAssumption DEF Control, Free, EntryOps, Locks!LifecycleOps
  <2>6. inFlight = Locks!Free
    BY <1>5 DEF Free, Locks!Free
  <2>7. Locks!Enter(c, inFlight'.op, TRUE)
    BY <1>5, <2>2, <2>4, <2>5, <2>6 DEF Locks!Enter, Locks!NotBusy, Locks!GuardFree
  <2> QED BY <2>5, <2>7 DEF Locks!Next
<1>6. CASE /\ inFlight.owner = c /\ inFlight' = Free /\ active' = active
           /\ \A d \in others : call'[d].pc # "joined"
  <2>1. call[c].pc \in BodyPcs /\ call'[c].pc \notin BodyPcs
    BY <1>6, NoCallAssumption DEF Control, Owner, Free
  <2>2. call'[c].pc # "joined"
    BY <1>6, NoCallAssumption DEF OpMove, Free
  <2>3. LockPhase[c] = "running" /\ LockPhase'[c] = "out"
    BY <2>1, <2>2 DEF LockPhase
  <2>4. \A d \in others : LockPhase'[d] = IF LockPhase[d] = "joined" THEN "out" ELSE LockPhase[d]
    BY <1>1, <1>6, PhaseOf, IdleFits DEF LockPhase
  <2>5. LockPhase' = [d \in Calls |->
          IF d = c \/ (inFlight.owner = c /\ LockPhase[d] = "joined") THEN "out" ELSE LockPhase[d]]
    BY <1>6, <2>3, <2>4 DEF LockPhase
  <2>6. Locks!Leave(c)
    BY <1>6, <2>3, <2>5 DEF Locks!Leave, Locks!Free, Free
  <2> QED BY <2>6 DEF Locks!Next
<1> QED BY <1>4, <1>5, <1>6 DEF OpMove

(* Every step of the lifecycle maps to a step of the locks or to a stutter. *)
LEMMA NextIsLockStep ==
  Inv /\ OpInv /\ [Next]_vars => [Locks!Next]_(Locks!lockVars)
<1> SUFFICES ASSUME Inv, OpInv, [Next]_vars
             PROVE  Locks!Next \/ UNCHANGED <<inFlight, active, LockPhase>>
  BY DEF Locks!lockVars
<1>1. TypeOK /\ TypeOK' /\ Control /\ Control'
  BY NextInv DEF Inv, TypeOK, Control
<1>2. ASSUME NEW c \in Calls, Request(c) \/ Body(c)
      PROVE  Locks!Next \/ UNCHANGED <<inFlight, active, LockPhase>>
  BY <1>1, <1>2, CallMoves, StepsFromUnjoined, MoveIsLockStep DEF OpInv
<1>3. CASE Environment
  BY <1>3, EnvironmentMoves DEF LockPhase
<1>4. CASE UNCHANGED vars
  BY <1>4 DEF vars, LockPhase
<1> QED BY <1>2, <1>3, <1>4 DEF Next

(* The lifecycle implements the guard and the long operation of            *)
(* ServerLocks: what is proved of the locks holds of every behaviour of    *)
(* the bodies.                                                             *)
THEOREM LifecycleImplementsLocks == Spec => ImplementsLocks
<1>1. Inv /\ OpInv /\ [Next]_vars => [Locks!Next]_(Locks!lockVars)
  BY NextIsLockStep
<1>2. Spec => [](OpInv /\ StaysDown)
  BY OperationInvariant
<1>3. Spec => Locks!Spec
  BY <1>1, <1>2, InitLocks, LifecycleInvariant, PTL DEF Spec, Locks!Spec
<1> QED BY <1>3 DEF ImplementsLocks

(* What ServerLocks promises, from its own actions: the two facts about    *)
(* the entry carry mutual exclusion, because two running calls would both  *)
(* be the entry's owner.                                                   *)
LocksInv == /\ Locks!TypeOK
            /\ Locks!EntryIsTheRunningCall
            /\ Locks!JoinedToAStart

LEMMA LocksInit == Locks!Init => LocksInv
  BY NoCallAssumption
     DEF Locks!Init, LocksInv, Locks!TypeOK, Locks!Entries, Locks!Free,
         Locks!EntryIsTheRunningCall, Locks!JoinedToAStart

LEMMA LocksNext == LocksInv /\ [Locks!Next]_(Locks!lockVars) => LocksInv'
<1> SUFFICES ASSUME LocksInv, [Locks!Next]_(Locks!lockVars)
             PROVE  LocksInv'
  OBVIOUS
<1> USE NoCallAssumption DEF LocksInv, Locks!TypeOK, Locks!Entries, Locks!Free,
                             Locks!EntryIsTheRunningCall, Locks!JoinedToAStart
<1>1. ASSUME NEW c \in Calls, NEW inside \in BOOLEAN, NEW op \in Locks!LifecycleOps,
             Locks!Enter(c, op, inside)
      PROVE  LocksInv'
  BY <1>1 DEF Locks!Enter, Locks!GuardFree
<1>2. ASSUME NEW c \in Calls, NEW inside \in BOOLEAN, Locks!Join(c, inside)
      PROVE  LocksInv'
  <2>1. inFlight # Locks!Free /\ inFlight.owner \in Calls
    BY <1>2 DEF Locks!Join, Locks!LifecycleOps
  <2>2. inFlight.owner # c
    BY <1>2 DEF Locks!Join
  <2> QED BY <1>2, <2>1, <2>2 DEF Locks!Join
<1>3. ASSUME NEW c \in Calls, Locks!Leave(c)
      PROVE  LocksInv'
  <2>1. inFlight.owner = c /\ inFlight' = Locks!Free
    BY <1>3 DEF Locks!Leave
  <2>2. \A d \in Calls : LockPhase'[d] = "out"
    BY <1>3, <2>1 DEF Locks!Leave
  <2>3. Locks!TypeOK'
    BY <1>3, <2>1 DEF Locks!Leave
  <2> QED BY <2>1, <2>2, <2>3
<1>4. ASSUME NEW kind \in Locks!Kinds, Locks!BeginOperation(kind)
      PROVE  LocksInv'
  BY <1>4 DEF Locks!BeginOperation
<1>5. CASE Locks!EndOperation
  BY <1>5 DEF Locks!EndOperation
<1>6. CASE UNCHANGED Locks!lockVars
  BY <1>6 DEF Locks!lockVars
<1> QED BY <1>1, <1>2, <1>3, <1>4, <1>5, <1>6 DEF Locks!Next

(* At most one lifecycle body runs per server, whatever the number of      *)
(* concurrent requests, timers and scheduled jobs that call guard: the     *)
(* locks promise it, and the lifecycle behaves as they do.                 *)
THEOREM GuardIsExclusive == Spec => []Locks!MutualExclusion
<1>1. LocksInv => Locks!MutualExclusion
  BY NoCallAssumption DEF LocksInv, Locks!EntryIsTheRunningCall, Locks!MutualExclusion
<1>2. Spec => Locks!Spec
  BY LifecycleImplementsLocks DEF ImplementsLocks
<1>3. Locks!Spec => []LocksInv
  BY LocksInit, LocksNext, PTL DEF Locks!Spec
<1> QED BY <1>1, <1>2, <1>3, PTL

-----------------------------------------------------------------------------
(* Edits and the flag.  An edit inside a recreate's window is missed by    *)
(* it; the container recorded at its end is the one built from the row it  *)
(* read; a start that saw the flag stands behind such a recreate.          *)

WindowIsMissed ==
  \A c \in Calls : InRecreateWindow(c) /\ call[c].seen # row.config => row.config \in missed

RecordIsBuilt ==
  \A c \in Calls : call[c].pc = "recreate.record" /\ ctr.state # "none" =>
    ctr.config = call[c].seen

LaunchPcs == {"start.launch", "start.record"}

FlaggedIsFresh ==
  \A c \in Calls : call[c].pc \in LaunchPcs /\ call[c].flagged /\ ctr.state # "none" =>
    ctr.config >= call[c].seen

FlagInv == /\ WindowIsMissed /\ RecordIsBuilt /\ FlaggedIsFresh
           /\ NoContainerIsFlagged /\ OnlyRacedEditsAreMissed

WindowPcs == {"recreate.inspect", "recreate.stop", "recreate.remove",
              "recreate.create", "recreate.record"}

(* Where a call's step takes it, as far as the flag is concerned. *)
Reaches(c) ==
  /\ call'[c].pc \in WindowPcs =>
       \/ call[c].pc \in WindowPcs /\ call'[c].seen = call[c].seen
       \/ call'[c].seen = row.config
  /\ call'[c].pc = "recreate.record" => RecreateCreate(c) /\ call'[c].seen = call[c].seen
  /\ call'[c].pc \in LaunchPcs =>
       /\ call[c].pc \in BodyPcs
       /\ \/ ~call'[c].flagged
          \/ /\ call[c].pc \in LaunchPcs \cup {"recreate.record"}
             /\ call'[c].seen = call[c].seen /\ call'[c].flagged = call[c].flagged

LEMMA CallReaches ==
  ASSUME Control, NEW c \in Calls, Request(c) \/ Body(c)
  PROVE  Reaches(c)
<1> USE DEF WindowPcs, LaunchPcs
<1>0. call[c] \in CallType
  BY DEF Control
<1>1. ASSUME NEW pc, Goto(c, pc)
      PROVE  /\ call'[c].pc = pc /\ call'[c].seen = call[c].seen
             /\ call'[c].flagged = call[c].flagged
  BY <1>0, <1>1 DEF Goto, Control, CallType
<1>2. ASSUME Settle(c) \/ RestoreEnd(c)
      PROVE  call'[c].pc \in {"idle", "restore.verify"}
  BY <1>0, <1>2 DEF Settle, RestoreEnd, Control, CallType, Idle
<1>3. ASSUME NEW from, NEW to, ReadRow(c, from, to)
      PROVE  \/ call'[c].pc \in {"idle", "restore.verify"}
             \/ call'[c].pc = to /\ call'[c].seen = row.config
  <2>1. CASE Settle(c)
    BY <1>2, <2>1
  <2>2. CASE ~Settle(c)
    BY <1>0, <1>3, <2>2 DEF ReadRow, Control, CallType
  <2> QED BY <2>1, <2>2
<1>4. ASSUME Return(c)
      PROVE  \/ call'[c].pc \in {"idle", "restore.verify"}
             \/ /\ call'[c].pc \in Returns /\ call'[c].seen = call[c].seen
                /\ call'[c].flagged = call[c].flagged
  <2>1. CASE call[c].k = <<>>
    BY <1>2, <1>4, <2>1 DEF Return
  <2>2. CASE call[c].k # <<>>
    <3>1. call[c].k \in Seq(Returns)
      BY <1>0 DEF CallType
    <3>2. Head(call[c].k) \in Returns
      BY <2>2, <3>1
    <3>3. call' = [call EXCEPT ![c].pc = Head(call[c].k), ![c].k = Tail(call[c].k)]
      BY <1>4, <2>2 DEF Return
    <3> QED BY <1>0, <3>2, <3>3 DEF Control, CallType
  <2> QED BY <2>1, <2>2
<1>5. CASE Request(c)
  <2>1. ASSUME NEW op, NEW body, NEW pc, NEW k, Enter(c, op, body, pc, k)
        PROVE  call'[c].pc = pc
    BY <2>1 DEF Enter, Control, Idle
  <2>2. ASSUME NEW op, NEW pc, Open(c, op, pc)
        PROVE  call'[c].pc = pc
    BY <2>2 DEF Open, Control, Idle
  <2>3. CASE StartServer(c) \/ StopServer(c)
    <3>1. Join(c) => call'[c].pc = "joined"
      BY DEF Join, Control, Idle
    <3> QED BY <2>1, <2>3, <3>1 DEF StartServer, StopServer, Reaches
  <2>4. CASE RestartServer(c) \/ RecreateServer(c) \/ ApplyRoutingChange(c)
    BY <2>1, <2>4 DEF RestartServer, RecreateServer, ApplyRoutingChange, Reaches
  <2>5. CASE KillServer(c) \/ DeleteServer(c) \/ RestoreBackup(c)
    BY <2>2, <2>5 DEF KillServer, DeleteServer, RestoreBackup, Reaches
  <2> QED BY <1>5, <2>3, <2>4, <2>5 DEF Request
<1>6. CASE StartRead(c) \/ RecreateRead(c) \/ KillBegin(c) \/ DeleteBegin(c)
  BY <1>3, <1>6 DEF StartRead, RecreateRead, KillBegin, DeleteBegin, Reaches
<1>7. CASE StartInspect(c)
  <2>1. CASE Nest(c, "recreate.read", "start.launch")
    <3>1. call'[c].pc = "recreate.read"
      BY <1>0, <2>1 DEF Nest, Control, CallType
    <3> QED BY <3>1 DEF Reaches
  <2>2. CASE ~MustRecreate(c) /\ Goto(c, "start.launch")
    BY <1>0, <1>1, <1>7, <2>2 DEF MustRecreate, Reaches, StartInspect, CallType, BodyPcs, StartPcs
  <2> QED BY <1>7, <2>1, <2>2 DEF StartInspect
<1>8. CASE StartLaunch(c)
  BY <1>1, <1>2, <1>8 DEF StartLaunch, Reaches, BodyPcs, StartPcs
<1>9. CASE StartRecord(c)
  BY <1>4, <1>9 DEF StartRecord, Reaches, Returns, BodyPcs, StartPcs
<1>10. CASE RecreateInspect(c)
  <2>1. /\ call'[c].pc \in {"recreate.stop", "recreate.remove"}
        /\ call'[c].seen = call[c].seen
    BY <1>0, <1>10 DEF RecreateInspect, Control, CallType
  <2> QED BY <1>10, <2>1 DEF RecreateInspect, Reaches
<1>11. CASE RecreateStop(c) \/ RecreateRemove(c)
  BY <1>1, <1>11 DEF RecreateStop, RecreateRemove, Reaches
<1>12. CASE RecreateCreate(c)
  <2>1. call[c].pc = "recreate.create" /\ Goto(c, "recreate.record")
    BY <1>12 DEF RecreateCreate
  <2> QED BY <1>1, <1>12, <2>1 DEF Reaches
<1>13. CASE RecreateRecord(c)
  <2>1. CASE Return(c)
    BY <1>4, <1>13, <2>1 DEF RecreateRecord, Reaches, Returns, BodyPcs, RecreatePcs
  <2>2. CASE Goto(c, "start.read")
    BY <1>1, <2>2 DEF Reaches
  <2> QED BY <1>13, <2>1, <2>2 DEF RecreateRecord
<1>14. CASE RecreateFail(c) \/ RestartCheck(c) \/ RoutingInspect(c) \/ StopBegin(c)
            \/ StopContainer(c) \/ KillContainer(c) \/ DeleteStop(c) \/ DeleteRemove(c)
            \/ DeleteFiles(c) \/ DeleteRows(c) \/ DaemonError(c)
  BY <1>1, <1>2, <1>14 DEF RecreateFail, RestartCheck, RoutingInspect, StopBegin, StopContainer,
       KillContainer, DeleteStop, DeleteRemove, DeleteFiles, DeleteRows, DaemonError, Reaches
<1>15. CASE StopRecord(c)
  <2>1. call'[c].pc \in {"idle", "restore.verify"}
    BY <1>0, <1>2, <1>15 DEF StopRecord, Control, CallType
  <2> QED BY <2>1 DEF Reaches
<1>16. CASE RestoreStop(c) \/ RestoreVerify(c) \/ RestoreWipe(c) \/ RestoreExtract(c)
  BY <1>1, <1>2, <1>16 DEF RestoreStop, RestoreVerify, RestoreWipe, RestoreExtract, Reaches
<1> QED BY <1>5, <1>6, <1>7, <1>8, <1>9, <1>10, <1>11, <1>12, <1>13, <1>14, <1>15, <1>16 DEF Body

(* What a call's step does to the data: only a create changes the          *)
(* container's configuration and only an edit the row's.                   *)
LEMMA CallWrites ==
  ASSUME TypeOK, NEW c \in Calls, Request(c) \/ Body(c)
  PROVE  /\ ctr'.config = ctr.config \/ RecreateCreate(c)
         /\ ctr'.state # "none" => ctr.state # "none" \/ RecreateCreate(c)
         /\ row'.config = row.config /\ missed' = missed
         /\ \/ row'.pending = row.pending /\ row'.hasContainer = row.hasContainer
            \/ row'.pending
            \/ RecreateRecord(c) /\ row'.hasContainer /\ ctr' = ctr
<1> USE DEF TypeOK
<1>1. CASE Request(c)
  BY <1>1 DEF Request, StartServer, StopServer, RestartServer, RecreateServer,
       ApplyRoutingChange, KillServer, DeleteServer, RestoreBackup, Enter, Join, Open
<1>2. CASE RecreateFail(c) \/ RecreateRecord(c) \/ DeleteRows(c)
  BY <1>2 DEF RecreateFail, RecreateRecord, DeleteRows
<1>3. CASE StartLaunch(c) \/ RecreateStop(c) \/ RecreateRemove(c) \/ RecreateCreate(c)
           \/ StopContainer(c) \/ KillContainer(c) \/ DeleteStop(c) \/ DeleteRemove(c)
  BY <1>3 DEF StartLaunch, RecreateStop, RecreateRemove, RecreateCreate, StopContainer,
       KillContainer, DeleteStop, DeleteRemove, Stopped, Removed, Live
<1>4. CASE \/ StartRead(c) \/ StartInspect(c) \/ StartRecord(c) \/ RecreateRead(c)
           \/ RecreateInspect(c) \/ RestartCheck(c) \/ RoutingInspect(c) \/ StopBegin(c)
           \/ StopRecord(c) \/ KillBegin(c) \/ DeleteBegin(c) \/ DeleteFiles(c)
           \/ RestoreStop(c) \/ RestoreVerify(c) \/ RestoreWipe(c) \/ RestoreExtract(c)
           \/ DaemonError(c)
  BY <1>4 DEF StartRead, StartInspect, StartRecord, RecreateRead, RecreateInspect,
       RestartCheck, RoutingInspect, StopBegin, StopRecord, KillBegin, DeleteBegin,
       DeleteFiles, RestoreStop, RestoreVerify, RestoreWipe, RestoreExtract, DaemonError, ReadRow
<1> QED BY <1>1, <1>2, <1>3, <1>4 DEF Body

LEMMA CallKeepsFlags ==
  ASSUME Inv, Inv', OpInv, FlagInv, NEW c \in Calls, Request(c) \/ Body(c)
  PROVE  FlagInv'
<1> USE DEF WindowPcs, LaunchPcs
<1>1. TypeOK /\ TypeOK' /\ Control /\ Control' /\ Reaches(c)
  BY CallReaches DEF Inv, TypeOK, Control
<1>2. \A d \in Calls \ {c} : call'[d] = call[d] \/ call'[d] = Idle
  BY <1>1, CallMoves DEF OpMove
<1>3. /\ ctr'.config = ctr.config \/ RecreateCreate(c)
      /\ ctr'.state # "none" => ctr.state # "none" \/ RecreateCreate(c)
      /\ row'.config = row.config /\ missed' = missed
      /\ \/ row'.pending = row.pending /\ row'.hasContainer = row.hasContainer
         \/ row'.pending
         \/ RecreateRecord(c) /\ row'.hasContainer /\ ctr' = ctr
  BY <1>1, CallWrites
<1>4. RecreateCreate(c) => /\ call[c].pc = "recreate.create" /\ ctr'.config = call[c].seen
                           /\ \A d \in Calls \ {c} : call'[d].pc \notin WindowPcs \cup LaunchPcs
  <2> SUFFICES ASSUME RecreateCreate(c)
               PROVE  \A d \in Calls \ {c} : call'[d].pc \notin WindowPcs \cup LaunchPcs
    BY DEF RecreateCreate
  <2>1. call[c].pc \in BodyPcs
    BY DEF RecreateCreate, BodyPcs, RecreatePcs
  <2>2. \A d \in Calls \ {c} : call[d].pc \notin BodyPcs
    BY <1>1, <2>1, OneBody
  <2> QED BY <1>2, <2>2, IdleFits DEF BodyPcs, RecreatePcs, StartPcs
<1>5. WindowIsMissed'
  <2> SUFFICES ASSUME NEW d \in Calls, call'[d].pc \in WindowPcs, call'[d].seen # row'.config
               PROVE  row'.config \in missed'
    BY DEF WindowIsMissed, InRecreateWindow
  <2>1. call[d].pc \in WindowPcs /\ call'[d].seen = call[d].seen
    <3>1. CASE d = c
      BY <1>1, <1>3, <3>1 DEF Reaches
    <3>2. CASE d # c
      BY <1>2, <3>2, IdleFits
    <3> QED BY <3>1, <3>2
  <2> QED BY <1>3, <2>1 DEF FlagInv, WindowIsMissed, InRecreateWindow
<1>6. RecordIsBuilt'
  <2> SUFFICES ASSUME NEW d \in Calls, call'[d].pc = "recreate.record", ctr'.state # "none"
               PROVE  ctr'.config = call'[d].seen
    BY DEF RecordIsBuilt
  <2>1. CASE d = c
    BY <1>1, <1>4, <2>1 DEF Reaches
  <2>2. CASE d # c
    <3>1. call'[d] = call[d] /\ ~RecreateCreate(c)
      BY <1>2, <1>4, <2>2, IdleFits
    <3> QED BY <1>3, <3>1 DEF FlagInv, RecordIsBuilt
  <2> QED BY <2>1, <2>2
<1>7. FlaggedIsFresh'
  <2> SUFFICES ASSUME NEW d \in Calls, call'[d].pc \in LaunchPcs, call'[d].flagged,
                      ctr'.state # "none"
               PROVE  ctr'.config >= call'[d].seen
    BY DEF FlaggedIsFresh
  <2>1. ~RecreateCreate(c)
    <3>1. CASE d = c
      BY <1>1, <1>4, <3>1 DEF Reaches
    <3>2. CASE d # c
      BY <1>4, <3>2
    <3> QED BY <3>1, <3>2
  <2>2. ctr'.config = ctr.config /\ ctr.state # "none"
    BY <1>3, <2>1
  <2>3. /\ call[d].pc \in LaunchPcs \cup {"recreate.record"}
        /\ call'[d].seen = call[d].seen /\ call[d].flagged
    <3>1. CASE d = c
      BY <1>1, <3>1 DEF Reaches
    <3>2. CASE d # c
      BY <1>2, <3>2, IdleFits
    <3> QED BY <3>1, <3>2
  <2>4. CASE call[d].pc \in LaunchPcs
    BY <2>2, <2>3, <2>4 DEF FlagInv, FlaggedIsFresh
  <2>5. CASE call[d].pc = "recreate.record"
    <3>1. ctr.config = call[d].seen /\ call[d].seen \in Nat
      BY <1>1, <2>2, <2>5 DEF FlagInv, RecordIsBuilt, TypeOK, CallType, Configs
    <3> QED BY <2>2, <2>3, <3>1
  <2> QED BY <2>3, <2>4, <2>5
<1>8. NoContainerIsFlagged'
  BY <1>3 DEF FlagInv, NoContainerIsFlagged
<1>9. OnlyRacedEditsAreMissed'
  <2> SUFFICES ASSUME ~row'.pending, ctr'.state # "none", ctr'.config # row'.config
               PROVE  row'.config \in missed'
    BY DEF OnlyRacedEditsAreMissed
  <2>1. CASE RecreateRecord(c) /\ ctr' = ctr
    <3>1. call[c].pc = "recreate.record" /\ ctr.config = call[c].seen
      BY <2>1 DEF RecreateRecord, FlagInv, RecordIsBuilt
    <3> QED BY <1>3, <2>1, <3>1 DEF FlagInv, WindowIsMissed, InRecreateWindow
  <2>2. CASE RecreateCreate(c)
    BY <1>3, <1>4, <2>2 DEF FlagInv, WindowIsMissed, InRecreateWindow
  <2>3. CASE ~RecreateCreate(c) /\ ~row.pending
    BY <1>3, <2>3 DEF FlagInv, OnlyRacedEditsAreMissed
  <2> QED BY <1>3, <2>1, <2>2, <2>3
<1> QED BY <1>5, <1>6, <1>7, <1>8, <1>9 DEF FlagInv

(* An edit is flagged, and missed when a recreate is past its read.        *)
LEMMA EnvironmentKeepsFlags ==
  ASSUME TypeOK, FlagInv, Environment
  PROVE  FlagInv'
<1>1. call' = call
  BY EnvironmentMoves
<1>2. CASE UpdateServer
  <2>1. row'.pending /\ row'.config = row.config + 1 /\ ctr' = ctr
    BY <1>2 DEF UpdateServer, TypeOK
  <2>2. (\E c \in Calls : InRecreateWindow(c)) => row'.config \in missed'
    BY <1>2, <2>1 DEF UpdateServer
  <2> QED BY <1>1, <2>1, <2>2 DEF FlagInv, WindowIsMissed, RecordIsBuilt, FlaggedIsFresh,
             NoContainerIsFlagged, OnlyRacedEditsAreMissed, InRecreateWindow
<1>3. CASE FlagRouted
  <2>1. row'.pending /\ row'.config = row.config /\ ctr' = ctr /\ missed' = missed
    BY <1>3 DEF FlagRouted, TypeOK
  <2> QED BY <1>1, <2>1 DEF FlagInv, WindowIsMissed, RecordIsBuilt, FlaggedIsFresh,
             NoContainerIsFlagged, OnlyRacedEditsAreMissed, InRecreateWindow
<1>4. CASE ContainerExits \/ RouterStarts
  <2>1. /\ row' = row /\ missed' = missed /\ ctr'.config = ctr.config
        /\ ctr.state # "none"
    BY <1>4 DEF ContainerExits, RouterStarts, TypeOK, Live
  <2> QED BY <1>1, <2>1 DEF FlagInv, WindowIsMissed, RecordIsBuilt, FlaggedIsFresh,
             NoContainerIsFlagged, OnlyRacedEditsAreMissed, InRecreateWindow
<1> QED BY <1>2, <1>3, <1>4 DEF Environment

LEMMA NextFlags == Inv /\ OpInv /\ FlagInv /\ [Next]_vars => FlagInv'
<1> SUFFICES ASSUME Inv, OpInv, FlagInv, [Next]_vars
             PROVE  FlagInv'
  OBVIOUS
<1>1. ASSUME NEW c \in Calls, Request(c) \/ Body(c)
      PROVE  FlagInv'
  BY <1>1, NextInv, CallKeepsFlags DEF Next
<1>2. CASE Environment
  BY <1>2, EnvironmentKeepsFlags DEF Inv
<1>3. CASE UNCHANGED vars
  BY <1>3 DEF vars, FlagInv, WindowIsMissed, RecordIsBuilt, FlaggedIsFresh,
              NoContainerIsFlagged, OnlyRacedEditsAreMissed, InRecreateWindow
<1> QED BY <1>1, <1>2, <1>3 DEF Next

LEMMA InitFlags == Init => FlagInv
  BY IdleFits DEF Init, Idle, LaunchPcs, FlagInv, WindowIsMissed, RecordIsBuilt, FlaggedIsFresh,
     NoContainerIsFlagged, OnlyRacedEditsAreMissed, InRecreateWindow

(* What the flag, the container and the history of edits have to do with   *)
(* each other in every reachable state.                                    *)
THEOREM FlagInvariant == Spec => []FlagInv
<1>1. Spec => []Inv
  BY LifecycleInvariant
<1>2. Spec => []OpInv
  BY OperationInvariant, PTL
<1> QED BY <1>1, <1>2, InitFlags, NextFlags, PTL DEF Spec

(* A server whose container is gone always asks for a recreate.            *)
THEOREM MissingContainerIsFlagged == Spec => []NoContainerIsFlagged
  BY FlagInvariant, PTL DEF FlagInv

(* A container out of date with an unflagged row lacks only an edit made   *)
(* inside a recreate, after it had read the row.                           *)
THEOREM OnlyARaceLosesAnEdit == Spec => []OnlyRacedEditsAreMissed
  BY FlagInvariant, PTL DEF FlagInv

(* A start that saw the flag never launches a container older than the row *)
(* it saw.                                                                 *)
THEOREM FlaggedStartLaunchesFresh == Spec => LaunchAppliesFlaggedConfig
<1> DEFINE Fresh == \A c \in Calls :
      StartLaunch(c) /\ ctr.state # "running" /\ ctr'.state = "running" /\ call[c].flagged
        => ctr.config >= call[c].seen
<1>1. Inv /\ FlagInv => Fresh
  <2> SUFFICES ASSUME TypeOK, FlaggedIsFresh, NEW c \in Calls, StartLaunch(c),
                      ctr.state # "running", ctr'.state = "running", call[c].flagged
               PROVE  ctr.config >= call[c].seen
    BY DEF Inv, FlagInv
  <2>1. call[c].pc = "start.launch" /\ ctr.state # "none"
    BY DEF StartLaunch
  <2> QED BY <2>1 DEF FlaggedIsFresh, LaunchPcs
<1>2. Inv /\ FlagInv => [Fresh]_vars
  BY <1>1
<1> HIDE DEF Fresh
<1>3. Spec => [][Fresh]_vars
  BY <1>2, LifecycleInvariant, FlagInvariant, PTL
<1> QED BY <1>3 DEF LaunchAppliesFlaggedConfig, Fresh
=============================================================================

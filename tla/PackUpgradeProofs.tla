------------------------- MODULE PackUpgradeProofs -------------------------
(***************************************************************************)
(* What holds of the modpack requests for any number of requests, versions *)
(* and backups: the types, the agreement of row and pack table, that an    *)
(* entry of activeUpgrades has an upgrade that will delete it, and that    *)
(* the server runs no version older than its world.                        *)
(*                                                                         *)
(* The argument of PinsAgree: as long as no two requests wrote across each *)
(* other and none failed between its writes, whoever has written the row   *)
(* and not yet the pack still finds its own version in the row (Held), so  *)
(* that its second write makes the two agree.  The calls that an operation *)
(* of the guard carries are at no such point (Carried), so that the end of *)
(* an operation does not pass over a second write.                         *)
(*                                                                         *)
(* WorldFitsPack rests on that and on a second invariant, FitInv, which    *)
(* the later part of the module states and keeps.                          *)
(***************************************************************************)
EXTENDS PackUpgrade, SequenceTheorems, TLAPS

CallRecords == [kind : Kinds \cup {"none"}, pc : Steps, was : BOOLEAN,
                skip : BOOLEAN, seen : Versions \cup {None},
                previous : Versions \cup {None},
                target : Versions \cup {None}, backup : 0..MaxBackups,
                alone : BOOLEAN]

OpSteps == {"stop", "stopAgain", "recreate", "start"}

\* A request that has read has a version to pin, and the backup it names is
\* there when it restores it.
Ready(r, latest) ==
  /\ r.pc \notin {"idle", "read"} \/ r.kind = "upgrade" => r.target \in Versions
  /\ r.backup <= latest
  /\ r.pc \in {"stopAgain", "look", "extract"} => r.backup # None

AllReady == \A c \in Calls : Ready(call[c], Len(backups))

\* An operation carries requests that wait for one, and a version to build.
Carried ==
  /\ \A c \in op.by : call[c].pc \in OpSteps
  /\ op.kind # "none" => op.pin \in Versions

\* Whoever is between its two writes finds its own version in the row.
Held ==
  "torn" \notin doubts => \A c \in Calls : call[c].pc = "pack" => pin = call[c].target

IInv == TypeOK /\ AllReady /\ Carried /\ Held /\ PinsAgree /\ EntryHasItsUpgrade

-----------------------------------------------------------------------------
(* The steps of a request *)

\* The record of a request that is not there is a record and needs nothing.
LEMMA FreeType == Free \in CallRecords /\ \A n \in Nat : Ready(Free, n)
  BY PackAssumption DEF Free, CallRecords, Ready, None, Steps, Kinds

\* After an operation a request is free or goes on with its version and backup,
\* but not between its writes, and an upgrade stays one.
LEMMA AfterType ==
  ASSUME NEW r \in CallRecords, NEW n \in Nat, Ready(r, n), r.pc \in OpSteps
  PROVE  /\ After(r) \in CallRecords /\ Ready(After(r), n) /\ After(r).pc # "pack"
         /\ r.kind = "upgrade" => After(r).kind = "upgrade" /\ After(r).pc \notin {"idle", "read"}
  BY FreeType DEF After, At, CallRecords, Ready, OpSteps, Steps, Free, None

\* The same of an operation that failed, where an upgrade is over.
LEMMA AfterFailureType ==
  ASSUME NEW r \in CallRecords, NEW n \in Nat, Ready(r, n), r.pc \in OpSteps
  PROVE  /\ AfterFailure(r) \in CallRecords /\ Ready(AfterFailure(r), n)
         /\ AfterFailure(r).pc # "pack"
         /\ r.kind = "upgrade" => AfterFailure(r) = Free
  <1>1. Free.pc # "pack"
    BY DEF Free
  <1>2. QED
    BY <1>1, FreeType, AfterType DEF AfterFailure

\* When the calls go on, an entry that stays has an upgrade: those that were
\* there are not free, and what is not free goes on as an upgrade.
LEMMA EntryStays ==
  ASSUME EntryHasItsUpgrade, NEW calls, Resume(calls),
         \A d \in Upgrading(call) :
            calls[d] = Free \/ (calls[d].kind = "upgrade" /\ calls[d].pc \notin {"idle", "read"})
  PROVE  EntryHasItsUpgrade'
  BY DEF EntryHasItsUpgrade, Resume, Released, Announced, StepNames, Upgrading

\* A request that is not carried moves on, not to and not from between its
\* writes, and nobody touches the row, the pack or the operation.
LEMMA CallMoves ==
  ASSUME IInv, NEW c \in Calls, c \notin op.by, call[c].pc # "pack",
         NEW r \in CallRecords, r.pc # "pack", Ready(r, Len(backups')),
         call' = [call EXCEPT ![c] = r], Len(backups') \in Nat, Len(backups') >= Len(backups),
         UNCHANGED <<pin, pack, op>>, "torn" \in doubts' <=> "torn" \in doubts
  PROVE  /\ call' \in [Calls -> CallRecords]
         /\ AllReady' /\ Carried' /\ Held' /\ PinsAgree'
  <1>1. /\ call \in [Calls -> CallRecords] /\ op.by \subseteq Calls /\ Len(backups) \in Nat
    BY LenProperties DEF IInv, TypeOK, CallRecords
  <1>2. \A d \in Calls : call'[d] = IF d = c THEN r ELSE call[d]
    BY <1>1
  <1>3. call' \in [Calls -> CallRecords]
    BY <1>1
  <1>4. AllReady'
    <2>1. \A d \in Calls : call[d].backup \in Nat
      BY <1>1 DEF CallRecords
    <2>2. ASSUME NEW d \in Calls, d # c PROVE Ready(call'[d], Len(backups'))
      BY <1>1, <1>2, <2>1, <2>2 DEF IInv, AllReady, Ready, Versions
    <2> QED BY <1>2, <2>2 DEF AllReady, Versions
  <1>5. Carried'
    BY <1>1, <1>2 DEF IInv, Carried, Versions
  <1>6. Held'
    BY <1>2 DEF IInv, Held
  <1>7. PinsAgree'
    BY <1>2 DEF IInv, PinsAgree, Writing
  <1> QED BY <1>3, <1>4, <1>5, <1>6, <1>7

\* An entry stays too when one request goes on that is free or an upgrade.
LEMMA EntryCarried ==
  ASSUME IInv, NEW c \in Calls, NEW r \in CallRecords, Go(c, r),
         c \in Upgrading(call) => r = Free \/ (r.kind = "upgrade" /\ r.pc \notin {"idle", "read"})
  PROVE  EntryHasItsUpgrade'
  <1> DEFINE calls == [call EXCEPT ![c] = r]
  <1>1. /\ call \in [Calls -> CallRecords]
    BY DEF IInv, TypeOK, CallRecords
  <1>2. \A d \in Calls : calls[d] = IF d = c THEN r ELSE call[d]
    BY <1>1
  <1>3. Resume(calls)
    BY DEF Go
  <1> HIDE DEF calls
  <1>4. \A d \in Upgrading(call) :
           calls[d] = Free \/ (calls[d].kind = "upgrade" /\ calls[d].pc \notin {"idle", "read"})
    BY <1>2 DEF Upgrading
  <1> QED BY <1>3, <1>4, EntryStays DEF IInv

\* active stays a truth value when calls go on.
LEMMA ReleasedType ==
  ASSUME NEW calls, Resume(calls), active \in BOOLEAN
  PROVE  active' \in BOOLEAN
  BY DEF Resume, Released, Announced

-----------------------------------------------------------------------------
(* The actions *)

\* What a step of one request may use of it.
LEMMA CallFacts ==
  ASSUME IInv, NEW c \in Calls
  PROVE  /\ call[c] \in CallRecords /\ Ready(call[c], Len(backups)) /\ Len(backups) \in Nat
         /\ call[c].pc \notin OpSteps => c \notin op.by
  BY LenProperties DEF IInv, TypeOK, AllReady, Carried, CallRecords

LEMMA InitIInv == Init => IInv
  <1> SUFFICES ASSUME Init PROVE IInv
    OBVIOUS
  <1> USE DEF Init
  <1>1. TypeOK
    <2>1. call \in [Calls -> CallRecords]
      BY FreeType
    <2>2. backups \in Seq(Versions \cup {None}) /\ Len(backups) = 0
      BY EmptySeq
    <2>3. op \in [kind : {"none", "stop", "recreate", "start"}, by : SUBSET Calls,
                  pin : Versions \cup {None}, rebuild : BOOLEAN]
      BY DEF NoOp
    <2>4. 1 \in Versions /\ asked \in 0..scene.asks
      BY PackAssumption DEF Versions
    <2>5. pack \in [pinned : Versions, previous : Versions \cup {None}]
      BY <2>4
    <2>6. Len(backups) <= MaxBackups
      BY <2>2, PackAssumption
    <2>8. {pending, live, active} \subseteq BOOLEAN
      BY Zenon
    <2>7. unpinned \subseteq 1..MaxBackups /\ doubts \subseteq Doubts
          /\ newest \in 0..Len(backups)
      BY <2>2 DEF None
    <2> QED BY <2>1, <2>2, <2>3, <2>4, <2>5, <2>6, <2>7, <2>8 DEF TypeOK, CallRecords
  <1>2. AllReady /\ Held /\ PinsAgree /\ EntryHasItsUpgrade
    BY FreeType DEF AllReady, Held, PinsAgree, EntryHasItsUpgrade, Free
  <1>3. Carried
    BY DEF Carried, NoOp
  <1> QED BY <1>1, <1>2, <1>3 DEF IInv

\* A new request begins to read or to resolve a version it names.
LEMMA BeginKeeps ==
  ASSUME IInv, NEW c \in Calls, NEW r \in CallRecords, Begin(c, r),
         r.pc \in {"read", "resolve"}, Ready(r, Len(backups))
  PROVE  IInv'
  <1> USE DEF Begin, Apart, ServerStill
  <1>1. call[c].pc = "idle" /\ c \notin op.by
    BY CallFacts DEF OpSteps
  <1>2. call' \in [Calls -> CallRecords] /\ AllReady' /\ Carried' /\ Held' /\ PinsAgree'
    <2>1. Len(backups') \in Nat /\ Len(backups') >= Len(backups) /\ Ready(r, Len(backups'))
      BY CallFacts
    <2>2. call' = [call EXCEPT ![c] = r] /\ UNCHANGED <<pin, pack, op, doubts>>
      BY DEF Go, Resume
    <2> QED BY <1>1, <2>1, <2>2, CallMoves
  <1>3. EntryHasItsUpgrade' /\ active' \in BOOLEAN
    BY <1>1, EntryCarried, ReleasedType DEF Upgrading, Go, IInv, TypeOK
  <1>4. asked' \in 0..scene'.asks
    BY PackAssumption DEF IInv, TypeOK
  <1>5. TypeOK'
    BY <1>2, <1>3, <1>4 DEF IInv, TypeOK, CallRecords, Versions
  <1> QED BY <1>2, <1>3, <1>5 DEF IInv

LEMMA ApplyKeeps ==
  ASSUME IInv, NEW c \in Calls, NEW v \in Versions, ApplyToServer(c, v)
  PROVE  IInv'
  <1> DEFINE r == [Free EXCEPT !.kind = "apply", !.pc = "resolve", !.target = v]
  <1>0. Len(backups) \in Nat /\ MaxBackups \in Nat
    BY CallFacts, PackAssumption
  <1>1. r \in CallRecords
    BY FreeType DEF CallRecords, Kinds, Steps
  <1>2. r.pc = "resolve" /\ Ready(r, Len(backups))
    BY <1>0 DEF Free, Ready, None
  <1> QED BY <1>1, <1>2, BeginKeeps DEF ApplyToServer

LEMMA UpgradeKeeps ==
  ASSUME IInv, NEW c \in Calls, NEW v \in Versions, NEW skip \in BOOLEAN,
         UpgradePack(c, v, skip)
  PROVE  IInv'
  <1> DEFINE r == [Free EXCEPT !.kind = "upgrade", !.pc = "read", !.target = v, !.skip = skip]
  <1>0. Len(backups) \in Nat /\ MaxBackups \in Nat
    BY CallFacts, PackAssumption
  <1>1. r \in CallRecords
    BY FreeType DEF CallRecords, Kinds, Steps
  <1>2. r.pc = "read" /\ Ready(r, Len(backups))
    BY <1>0 DEF Free, Ready, None
  <1> QED BY <1>1, <1>2, BeginKeeps DEF UpgradePack

LEMMA RollbackKeeps ==
  ASSUME IInv, NEW c \in Calls, NEW b \in Choices, RollbackPack(c, b)
  PROVE  IInv'
  <1> DEFINE r == [Free EXCEPT !.kind = "rollback", !.pc = "read", !.backup = b]
  <1>0. b \in 0..MaxBackups /\ b <= Len(backups)
    BY CallFacts, PackAssumption DEF IInv, TypeOK, Choices
  <1>1. r \in CallRecords /\ r.pc = "read" /\ Ready(r, Len(backups))
    BY <1>0 DEF Free, CallRecords, Kinds, Steps, Ready, None
  <1> QED BY <1>1, BeginKeeps DEF RollbackPack

\* A request outside the guard goes on, and touches neither row nor pack.
LEMMA StepKeeps ==
  ASSUME IInv, NEW c \in Calls, call[c].pc \notin OpSteps, call[c].pc # "pack",
         NEW r \in CallRecords, r.pc # "pack", Ready(r, Len(backups)),
         UNCHANGED <<pin, pack, op, scene, pending, built, live, backups, newest, asked, unpinned>>,
         world' \in Versions \cup {None},
         doubts' \subseteq Doubts,
         "torn" \in doubts' <=> "torn" \in doubts,
         Go(c, r),
         c \in Upgrading(call)
           => r = Free \/ (r.kind = "upgrade" /\ r.pc \notin {"idle", "read"})
  PROVE  IInv'
  <1>1. c \notin op.by /\ Len(backups) \in Nat
    BY CallFacts
  <1>2. call' = [call EXCEPT ![c] = r] /\ active' \in BOOLEAN
    BY ReleasedType DEF Go, Resume, IInv, TypeOK
  <1>3. call' \in [Calls -> CallRecords] /\ AllReady' /\ Carried' /\ Held' /\ PinsAgree'
    <2>1. Len(backups') \in Nat /\ Len(backups') >= Len(backups) /\ Ready(r, Len(backups'))
      BY <1>1
    <2>2. UNCHANGED <<pin, pack, op>>
      OBVIOUS
    <2> QED BY <1>1, <1>2, <2>1, <2>2, CallMoves
  <1>4. EntryHasItsUpgrade'
    BY EntryCarried
  <1>5. TypeOK'
    BY <1>2, <1>3 DEF IInv, TypeOK, CallRecords, Versions
  <1> QED BY <1>3, <1>4, <1>5 DEF IInv

LEMMA ReadForUpgradeKeeps ==
  ASSUME IInv, NEW c \in Calls, NEW was \in BOOLEAN, ReadForUpgrade(c, was)
  PROVE  IInv'
  <1> USE DEF ReadForUpgrade, Apart, ServerStill
  <1> DEFINE r == [At(call[c], "resolve") EXCEPT !.was = was, !.seen = pack.pinned]
  <1>1. /\ call[c] \in CallRecords /\ Ready(call[c], Len(backups)) /\ Len(backups) \in Nat
        /\ call[c].pc = "read" /\ call[c].kind = "upgrade"
    BY CallFacts
  <1>2. pack.pinned \in Versions
    BY DEF IInv, TypeOK
  <1>3. r \in CallRecords
    BY <1>1, <1>2 DEF At, CallRecords, Steps
  <1>4. r.pc = "resolve" /\ r.kind = "upgrade" /\ Ready(r, Len(backups))
    BY <1>1 DEF At, Ready, CallRecords
  <1>5. world' \in Versions \cup {None} /\ doubts' = doubts /\ doubts \subseteq Doubts
    BY DEF IInv, TypeOK, Versions
  <1>6. Go(c, r)
    OBVIOUS
  <1> HIDE DEF r
  <1> QED BY <1>1, <1>3, <1>4, <1>5, <1>6, StepKeeps DEF OpSteps

LEMMA ReadForRollbackKeeps ==
  ASSUME IInv, NEW c \in Calls, ReadForRollback(c)
  PROVE  IInv'
  <1> USE DEF ReadForRollback, Apart, ServerStill
  <1> DEFINE r == IF pack.previous = None THEN Free
                  ELSE [At(call[c], "stop") EXCEPT !.target = pack.previous, !.alone = Settled]
  <1>1. /\ call[c] \in CallRecords /\ Ready(call[c], Len(backups)) /\ Len(backups) \in Nat
        /\ call[c].pc = "read" /\ call[c].kind = "rollback"
    BY CallFacts
  <1>2. pack.previous \in Versions \cup {None} /\ Settled \in BOOLEAN
    BY DEF IInv, TypeOK, Settled
  <1>3. r \in CallRecords
    <2>1. ASSUME NEW v \in Versions, NEW b \in BOOLEAN
          PROVE  [At(call[c], "stop") EXCEPT !.target = v, !.alone = b] \in CallRecords
      BY <1>1 DEF At, CallRecords, Steps
    <2>2. pack.previous # None
            => [At(call[c], "stop") EXCEPT !.target = pack.previous, !.alone = Settled] \in CallRecords
      BY <1>2, <2>1
    <2> QED BY <2>2, FreeType
  <1>4. r.pc # "pack" /\ Ready(r, Len(backups))
    BY <1>1, <1>2, FreeType DEF At, Ready, CallRecords, Free
  <1>5. c \notin Upgrading(call) /\ Go(c, r)
    BY <1>1 DEF Upgrading
  <1>6. world' \in Versions \cup {None} /\ doubts' = doubts
        /\ doubts \subseteq Doubts
    BY DEF IInv, TypeOK, Versions
  <1> HIDE DEF r
  <1> QED BY <1>1, <1>3, <1>4, <1>5, <1>6, StepKeeps DEF OpSteps

LEMMA ResolveKeeps ==
  ASSUME IInv, NEW c \in Calls, Resolve(c)
  PROVE  IInv'
  <1> USE DEF Resolve, Apart, ServerStill
  <1> DEFINE r == call[c]
             q == IF r.kind # "upgrade" THEN At(r, "previous")
                  ELSE IF r.target = r.seen THEN Free
                  ELSE At(r, IF r.skip THEN "stop" ELSE "backup")
  <1>1. /\ call[c] \in CallRecords /\ Ready(call[c], Len(backups)) /\ Len(backups) \in Nat
        /\ call[c].pc = "resolve"
    BY CallFacts
  <1>2. q \in CallRecords
    BY <1>1, FreeType DEF At, CallRecords, Steps
  <1>3. q.pc # "pack" /\ Ready(q, Len(backups))
    BY <1>1, FreeType DEF At, Ready, CallRecords, Free
  <1>4. c \in Upgrading(call) => q = Free \/ (q.kind = "upgrade" /\ q.pc \notin {"idle", "read"})
    BY <1>1 DEF Upgrading, At, CallRecords
  <1>5. Go(c, q)
    OBVIOUS
  <1>6. world' \in Versions \cup {None} /\ doubts' = doubts
        /\ doubts \subseteq Doubts
    BY DEF IInv, TypeOK, Versions
  <1> HIDE DEF q
  <1> QED BY <1>1, <1>2, <1>3, <1>4, <1>5, <1>6, StepKeeps DEF OpSteps

\* LooksLive, Monitor and most failures: the request returns.
LEMMA ReturnKeeps ==
  ASSUME IInv, NEW c \in Calls, call[c].pc \notin OpSteps, call[c].pc # "pack", Return(c),
         Apart, UNCHANGED <<pack, backups, newest, asked, unpinned, doubts>>
  PROVE  IInv'
  <1>1. Len(backups) \in Nat
    BY CallFacts
  <1>2. Free \in CallRecords /\ Free.pc # "pack" /\ Ready(Free, Len(backups))
    BY <1>1, FreeType DEF Free
  <1>3. Go(c, Free)
    BY DEF Return
  <1>4. UNCHANGED <<pin, op, scene, pending, built, live, world>>
    BY DEF Apart, ServerStill
  <1>5. world' \in Versions \cup {None} /\ doubts' = doubts
        /\ doubts \subseteq Doubts
    BY <1>4 DEF IInv, TypeOK, Versions
  <1> QED BY <1>2, <1>3, <1>4, <1>5, StepKeeps

LEMMA LooksLiveKeeps == ASSUME IInv, NEW c \in Calls, LooksLive(c) PROVE IInv'
  BY ReturnKeeps DEF LooksLive, OpSteps

LEMMA MonitorKeeps ==
  ASSUME IInv, NEW c \in Calls, Monitor(c)
  PROVE  IInv'
  <1> DEFINE r == At(call[c], "overlay")
  <1>1. CASE Return(c)
    BY <1>1, ReturnKeeps DEF Monitor, OpSteps
  <1>2. CASE Go(c, r)
    <2> USE DEF Monitor, Apart, ServerStill
    <2>1. /\ call[c] \in CallRecords /\ Ready(call[c], Len(backups))
          /\ call[c].pc = "monitor"
      BY CallFacts
    <2>2. r \in CallRecords
      BY <2>1 DEF At, CallRecords, Steps
    <2>3. r.pc = "overlay" /\ r.kind = call[c].kind /\ Ready(r, Len(backups))
      BY <2>1 DEF At, Ready, CallRecords
    <2>4. world' \in Versions \cup {None} /\ doubts' = doubts /\ doubts \subseteq Doubts
      BY DEF IInv, TypeOK, Versions
    <2> HIDE DEF r
    <2>5. c \in Upgrading(call) => r.kind = "upgrade" /\ r.pc \notin {"idle", "read"}
      BY <2>3 DEF Upgrading
    <2> QED BY <1>2, <2>1, <2>2, <2>3, <2>4, <2>5, StepKeeps DEF OpSteps
  <1> QED BY <1>1, <1>2 DEF Monitor

LEMMA OverlayKeeps == ASSUME IInv, NEW c \in Calls, Overlay(c) PROVE IInv'
  BY ReturnKeeps DEF Overlay, OpSteps

LEMMA BackupKeeps ==
  ASSUME IInv, NEW c \in Calls, Backup(c)
  PROVE  IInv'
  <1> USE DEF Backup, Apart, ServerStill
  <1> DEFINE r == [At(call[c], "stop") EXCEPT !.backup = Len(backups) + 1]
  <1>1. /\ call[c] \in CallRecords /\ Ready(call[c], Len(backups)) /\ Len(backups) \in Nat
        /\ c \notin op.by /\ call[c].pc = "backup"
    BY CallFacts DEF OpSteps
  <1>2. /\ backups' \in Seq(Versions \cup {None}) /\ Len(backups') = Len(backups) + 1
        /\ Len(backups) + 1 \in 1..MaxBackups /\ newest' \in 0..Len(backups')
    <2>1. backups \in Seq(Versions \cup {None}) /\ world \in Versions \cup {None}
      BY DEF IInv, TypeOK
    <2> QED BY <1>1, <2>1, AppendProperties, PackAssumption
  <1>3. r \in CallRecords
    <2>1. ASSUME NEW b \in 0..MaxBackups
          PROVE  [At(call[c], "stop") EXCEPT !.backup = b] \in CallRecords
      BY <1>1 DEF At, CallRecords, Steps
    <2>2. Len(backups) + 1 \in 0..MaxBackups
      BY <1>2, PackAssumption
    <2> QED BY <2>1, <2>2
  <1>4. r.pc = "stop" /\ r.kind = call[c].kind /\ Ready(r, Len(backups'))
    BY <1>1, <1>2 DEF At, Ready, CallRecords
  <1>5. call' = [call EXCEPT ![c] = r] /\ UNCHANGED <<pin, pack, op, doubts>>
        /\ Len(backups') \in Nat /\ Len(backups') >= Len(backups) /\ Go(c, r)
    BY <1>1, <1>2 DEF Go, Resume
  <1>6. unpinned' \subseteq 1..MaxBackups
    BY <1>2 DEF IInv, TypeOK
  <1> HIDE DEF r
  <1>7. call' \in [Calls -> CallRecords] /\ AllReady' /\ Carried' /\ Held' /\ PinsAgree'
    BY <1>1, <1>3, <1>4, <1>5, CallMoves
  <1>8. EntryHasItsUpgrade' /\ active' \in BOOLEAN
    BY <1>3, <1>4, <1>5, EntryCarried, ReleasedType DEF Upgrading, Go, IInv, TypeOK
  <1>9. TypeOK'
    BY <1>2, <1>6, <1>7, <1>8 DEF IInv, TypeOK, CallRecords, Versions
  <1> QED BY <1>7, <1>8, <1>9 DEF IInv

LEMMA LookKeeps ==
  ASSUME IInv, NEW c \in Calls, Look(c)
  PROVE  IInv'
  <1> USE DEF Look, LooksStopped
  <1> DEFINE r == At(call[c], "extract")
  <1>1. /\ call[c] \in CallRecords /\ Ready(call[c], Len(backups)) /\ Len(backups) \in Nat
        /\ call[c].pc = "look"
    BY CallFacts
  <1>2. r \in CallRecords
    BY <1>1 DEF At, CallRecords, Steps
  <1>3. r.pc = "extract" /\ r.kind = call[c].kind /\ Ready(r, Len(backups))
    BY <1>1 DEF At, Ready, CallRecords
  <1>4. Go(c, r)
        /\ UNCHANGED <<pin, pack, op, scene, pending, built, live, backups, newest, asked, unpinned>>
    OBVIOUS
  <1>5. world' \in Versions \cup {None} /\ doubts' = doubts
        /\ doubts \subseteq Doubts
    BY DEF IInv, TypeOK
  <1> HIDE DEF r
  <1>6. c \in Upgrading(call) => r.kind = "upgrade" /\ r.pc \notin {"idle", "read"}
    BY <1>3 DEF Upgrading
  <1> QED BY <1>1, <1>2, <1>3, <1>4, <1>5, <1>6, StepKeeps DEF OpSteps

LEMMA ExtractKeeps ==
  ASSUME IInv, NEW c \in Calls, Extract(c)
  PROVE  IInv'
  <1> USE DEF Extract
  <1> DEFINE r == At(call[c], "resolve")
  <1>1. /\ call[c] \in CallRecords /\ Ready(call[c], Len(backups)) /\ Len(backups) \in Nat
        /\ call[c].pc = "extract"
    BY CallFacts
  <1>2. r \in CallRecords
    BY <1>1 DEF At, CallRecords, Steps
  <1>3. r.pc = "resolve" /\ r.kind = call[c].kind /\ Ready(r, Len(backups))
    BY <1>1 DEF At, Ready, CallRecords
  <1>4. Go(c, r)
        /\ UNCHANGED <<pin, pack, op, scene, pending, built, live, backups, newest, asked, unpinned>>
    OBVIOUS
  <1>5. world' \in Versions \cup {None}
    <2>1. call[c].backup \in 1..Len(backups)
      BY <1>1 DEF Ready, CallRecords, None
    <2>2. backups[call[c].backup] \in Versions \cup {None} /\ world \in Versions \cup {None}
      BY <2>1, ElementOfSeq DEF IInv, TypeOK
    <2> QED BY <2>2 DEF MaxOf
  <1>6. doubts' \subseteq Doubts
        /\ ("torn" \in doubts' <=> "torn" \in doubts)
    BY DEF IInv, TypeOK, Doubts
  <1>7. c \in Upgrading(call) => r.kind = "upgrade" /\ r.pc \notin {"idle", "read"}
    BY <1>3 DEF Upgrading
  <1> HIDE DEF r
  <1> QED BY <1>1, <1>2, <1>3, <1>4, <1>5, <1>6, <1>7, StepKeeps DEF OpSteps

LEMMA ReadPreviousKeeps ==
  ASSUME IInv, NEW c \in Calls, ReadPrevious(c)
  PROVE  IInv'
  <1> USE DEF ReadPrevious, Apart, ServerStill
  <1> DEFINE r == [At(call[c], "row") EXCEPT !.previous = pack.pinned, !.alone = @ /\ Settled]
  <1>1. /\ call[c] \in CallRecords /\ Ready(call[c], Len(backups)) /\ Len(backups) \in Nat
        /\ call[c].pc = "previous"
    BY CallFacts
  <1>2. pack.pinned \in Versions /\ (call[c].alone /\ Settled) \in BOOLEAN
    BY DEF IInv, TypeOK
  <1>3. r \in CallRecords
    <2>1. ASSUME NEW v \in Versions, NEW b \in BOOLEAN
          PROVE  [At(call[c], "row") EXCEPT !.previous = v, !.alone = b] \in CallRecords
      BY <1>1 DEF At, CallRecords, Steps
    <2>2. r = [At(call[c], "row") EXCEPT !.previous = pack.pinned,
                                         !.alone = call[c].alone /\ Settled]
      BY <1>1 DEF At, CallRecords
    <2> QED BY <1>2, <2>1, <2>2
  <1>4. r.pc = "row" /\ r.kind = call[c].kind /\ Ready(r, Len(backups))
    BY <1>1 DEF At, Ready, CallRecords
  <1>5. c \in Upgrading(call) => r.kind = "upgrade" /\ r.pc \notin {"idle", "read"}
    BY <1>4 DEF Upgrading
  <1>6. world' \in Versions \cup {None} /\ doubts' = doubts
        /\ doubts \subseteq Doubts
    BY DEF IInv, TypeOK, Versions
  <1>7. Go(c, r)
    OBVIOUS
  <1> HIDE DEF r
  <1> QED BY <1>1, <1>3, <1>4, <1>5, <1>6, <1>7, StepKeeps DEF OpSteps

\* The row gets the version: from here to its second write nobody else may
\* come, or the two are torn.
LEMMA WriteRowKeeps ==
  ASSUME IInv, NEW c \in Calls, WriteRow(c)
  PROVE  IInv'
  <1> USE DEF WriteRow
  <1> DEFINE r == At(call[c], "pack")
  <1>1. /\ call[c] \in CallRecords /\ Ready(call[c], Len(backups)) /\ Len(backups) \in Nat
        /\ call[c].pc = "row" /\ call[c].target \in Versions /\ c \notin op.by
        /\ call \in [Calls -> CallRecords]
    BY CallFacts DEF Ready, OpSteps, IInv, TypeOK, CallRecords
  <1>2. r \in CallRecords /\ r.pc = "pack" /\ r.target = call[c].target
        /\ r.kind = call[c].kind /\ Ready(r, Len(backups))
    BY <1>1 DEF At, CallRecords, Steps, Ready
  <1>3. ASSUME NEW d \in Calls, d # c
        PROVE  /\ call'[d] \in CallRecords /\ Ready(call'[d], Len(backups))
               /\ call'[d].pc = call[d].pc /\ call'[d].kind = call[d].kind
               /\ call'[d].target = call[d].target
    <2>1. call[d] \in CallRecords /\ Ready(call[d], Len(backups))
      BY <1>1 DEF IInv, AllReady
    <2>2. call'[d] = IF call[d].pc = "idle" THEN call[d] ELSE [call[d] EXCEPT !.alone = FALSE]
      BY <1>3
    <2>3. [call[d] EXCEPT !.alone = FALSE] \in CallRecords
          /\ Ready([call[d] EXCEPT !.alone = FALSE], Len(backups))
      BY <2>1 DEF CallRecords, Ready
    <2> QED BY <2>1, <2>2, <2>3 DEF CallRecords
  <1>4. call'[c] = r
    OBVIOUS
  <1> HIDE DEF r
  <1>5. call' \in [Calls -> CallRecords] /\ \A d \in Calls : Ready(call'[d], Len(backups))
    BY <1>2, <1>3, <1>4
  <1>6. AllReady'
    BY <1>5 DEF AllReady, Versions
  <1>7. Carried'
    <2>1. op.by \subseteq Calls
      BY DEF IInv, TypeOK
    <2> QED BY <1>1, <1>3, <2>1 DEF IInv, Carried, Versions
  <1>8. Held' /\ PinsAgree'
    <2>1. pin' = r.target /\ ("torn" \notin doubts' => \A d \in Calls : d # c => call[d].pc # "pack")
      BY <1>2 DEF Writing, Others
    <2> QED BY <1>2, <1>3, <1>4, <2>1 DEF Held, PinsAgree, Writing
  <1>9. EntryHasItsUpgrade'
    <2>1. \A d \in Calls : call'[d].kind = call[d].kind
                           /\ (call[d].pc \notin {"idle", "read"} => call'[d].pc \notin {"idle", "read"})
      BY <1>2, <1>3, <1>4
    <2> QED BY <2>1 DEF IInv, EntryHasItsUpgrade, Upgrading
  <1>10. TypeOK'
    <2>1. unpinned' \subseteq 1..MaxBackups
          /\ doubts' \subseteq Doubts
      BY DEF IInv, TypeOK, Doubts
    <2>2. {pending', live', active'} \subseteq BOOLEAN
      BY Zenon DEF IInv, TypeOK
    <2>3. {pin', built'} \subseteq Versions
      BY <1>1 DEF IInv, TypeOK, Versions
    <2> QED BY <1>5, <2>1, <2>2, <2>3 DEF IInv, TypeOK, CallRecords, Versions
  <1> QED BY <1>6, <1>7, <1>8, <1>9, <1>10 DEF IInv

\* The pack gets it too: if nobody wrote across, row and pack agree again.
LEMMA WritePackKeeps ==
  ASSUME IInv, NEW c \in Calls, WritePack(c)
  PROVE  IInv'
  <1> USE DEF WritePack, Apart, ServerStill, Recorded, Pinned
  <1> DEFINE r == IF call[c].kind = "apply" THEN Free ELSE At(call[c], "recreate")
  <1>1. /\ call[c] \in CallRecords /\ Ready(call[c], Len(backups)) /\ Len(backups) \in Nat
        /\ call[c].pc = "pack" /\ call[c].target \in Versions /\ c \notin op.by
        /\ call \in [Calls -> CallRecords]
    BY CallFacts DEF Ready, OpSteps, IInv, TypeOK, CallRecords
  <1>2. r \in CallRecords /\ r.pc # "pack" /\ Ready(r, Len(backups))
    BY <1>1, FreeType DEF At, CallRecords, Steps, Ready, Free
  <1>3. \A d \in Calls : call'[d] = IF d = c THEN r ELSE call[d]
    BY <1>1 DEF Go, Resume
  <1>4. c \in Upgrading(call) => r.kind = "upgrade" /\ r.pc \notin {"idle", "read"}
    BY <1>1 DEF Upgrading, At, CallRecords
  <1>5. call' = [call EXCEPT ![c] = r] /\ UNCHANGED <<op, pin, backups>> /\ Go(c, r)
    BY DEF Go, Resume
  <1> HIDE DEF r
  <1>6. call' \in [Calls -> CallRecords] /\ AllReady'
    BY <1>1, <1>2, <1>3, <1>5 DEF IInv, AllReady, Versions
  <1>7. Carried'
    BY <1>1, <1>3 DEF IInv, TypeOK, Carried, Versions
  <1>8. Held'
    <2>1. "torn" \notin doubts' => "torn" \notin doubts
                                   \/ \A d \in Calls : d # c => call[d].pc # "pack"
      BY DEF Writing, Others
    <2> QED BY <1>2, <1>3, <2>1 DEF IInv, Held
  <1>9. PinsAgree'
    <2>1. pack'.pinned = call[c].target
      OBVIOUS
    <2>2. "torn" \notin doubts' => pin = call[c].target
      BY <1>1 DEF IInv, Held
    <2> QED BY <2>1, <2>2 DEF PinsAgree
  <1>10. EntryHasItsUpgrade' /\ active' \in BOOLEAN
    BY <1>2, <1>4, <1>5, EntryCarried, ReleasedType DEF Go, IInv, TypeOK
  <1>11. TypeOK'
    <2>1. pack' \in [pinned : Versions, previous : Versions \cup {None}]
      BY <1>1 DEF CallRecords
    <2>2. doubts' \subseteq Doubts
      BY DEF IInv, TypeOK
    <2> QED BY <1>6, <1>10, <2>1, <2>2 DEF IInv, TypeOK, CallRecords, Versions
  <1> QED BY <1>6, <1>7, <1>8, <1>9, <1>10, <1>11 DEF IInv

\* A request that fails returns; between its writes it leaves the two torn.
LEMMA StepFailsKeeps ==
  ASSUME IInv, NEW c \in Calls, StepFails(c)
  PROVE  IInv'
  <1>1. CASE call[c].pc # "pack"
    BY <1>1, ReturnKeeps DEF StepFails, OpSteps
  <1>2. CASE call[c].pc = "pack"
    <2> USE DEF StepFails, Apart, ServerStill
    <2>1. /\ call \in [Calls -> CallRecords] /\ c \notin op.by /\ Len(backups) \in Nat
      BY <1>2, CallFacts DEF OpSteps, IInv, TypeOK, CallRecords
    <2>2. Free \in CallRecords /\ Ready(Free, Len(backups)) /\ Go(c, Free)
      BY <2>1, FreeType DEF Return
    <2>3. call' = [call EXCEPT ![c] = Free] /\ active' \in BOOLEAN /\ backups' = backups /\ op' = op
      BY <2>2, ReleasedType DEF Go, Resume, IInv, TypeOK
    <2>4. \A d \in Calls : call'[d] = IF d = c THEN Free ELSE call[d]
      BY <2>1, <2>3
    <2>5. call' \in [Calls -> CallRecords] /\ AllReady'
      BY <2>1, <2>2, <2>3, <2>4 DEF IInv, AllReady, Versions
    <2>6. Carried'
      BY <2>1, <2>3, <2>4 DEF IInv, TypeOK, Carried, Versions
    <2>7. Held' /\ PinsAgree'
      BY <1>2 DEF Held, PinsAgree
    <2>8. EntryHasItsUpgrade'
      BY <2>2, EntryCarried
    <2>9. doubts' \subseteq Doubts
      BY <1>2 DEF IInv, TypeOK, Doubts
    <2>10. TypeOK'
      BY <2>3, <2>5, <2>9 DEF IInv, TypeOK, CallRecords, Versions
    <2> QED BY <2>5, <2>6, <2>7, <2>8, <2>10 DEF IInv
  <1> QED BY <1>1, <1>2

\* An operation of the guard begins or takes one more request along.
LEMMA OperationKeeps ==
  ASSUME IInv,
         op' \in [kind : {"none", "stop", "recreate", "start"}, by : SUBSET Calls,
                  pin : Versions, rebuild : BOOLEAN],
         \A d \in op'.by : call[d].pc \in OpSteps,
         ServerStill, RestStill, UNCHANGED <<active, call, doubts>>
  PROVE  IInv'
  <1> USE DEF ServerStill, RestStill
  <1>1. TypeOK'
    BY DEF IInv, TypeOK, Versions
  <1>2. AllReady' /\ Held' /\ PinsAgree' /\ EntryHasItsUpgrade'
    BY DEF IInv, AllReady, Held, PinsAgree, Writing, EntryHasItsUpgrade, Versions
  <1>3. Carried'
    BY DEF Carried, Versions
  <1> QED BY <1>1, <1>2, <1>3 DEF IInv

LEMMA EntryType ==
  ASSUME IInv, NEW kind \in {"stop", "recreate", "start"}, NEW by \in SUBSET Calls
  PROVE  /\ Entry(kind, by) \in [kind : {"none", "stop", "recreate", "start"}, by : SUBSET Calls,
                                 pin : Versions, rebuild : BOOLEAN]
         /\ Entry(kind, by).by = by
  <1>1. pin \in Versions /\ pending \in BOOLEAN
    BY DEF IInv, TypeOK
  <1>2. (kind = "recreate" \/ pending) \in BOOLEAN
    OBVIOUS
  <1> QED BY <1>1, <1>2 DEF Entry

LEMMA UserOperatesKeeps ==
  ASSUME IInv, NEW kind \in {"start", "stop", "recreate"}, UserOperates(kind)
  PROVE  IInv'
  BY EntryType, OperationKeeps DEF UserOperates

LEMMA RequestOperatesKeeps ==
  ASSUME IInv, NEW c \in Calls, RequestOperates(c)
  PROVE  IInv'
  <1> USE DEF RequestOperates, AtOp
  <1>1. call[c].pc \in OpSteps
    BY DEF OpSteps
  <1>2. CASE op.kind = "none" /\ op' = Entry(OpOf(call[c]), {c})
    <2>1. OpOf(call[c]) \in {"stop", "recreate", "start"}
      BY <1>1 DEF OpOf, OpSteps
    <2>2. /\ op' \in [kind : {"none", "stop", "recreate", "start"}, by : SUBSET Calls,
                      pin : Versions, rebuild : BOOLEAN]
          /\ \A d \in op'.by : call[d].pc \in OpSteps
      BY <1>1, <1>2, <2>1, EntryType
    <2> QED BY <2>2, OperationKeeps
  <1>3. CASE op.kind = "start" /\ op' = [op EXCEPT !.by = @ \cup {c}]
    <2>1. /\ op \in [kind : {"none", "stop", "recreate", "start"}, by : SUBSET Calls,
                     pin : Versions \cup {None}, rebuild : BOOLEAN]
          /\ op.pin \in Versions /\ \A d \in op.by : call[d].pc \in OpSteps
      BY <1>3 DEF IInv, TypeOK, Carried
    <2>2. /\ op' \in [kind : {"none", "stop", "recreate", "start"}, by : SUBSET Calls,
                      pin : Versions, rebuild : BOOLEAN]
          /\ \A d \in op'.by : call[d].pc \in OpSteps
      BY <1>1, <1>3, <2>1
    <2> QED BY <2>2, OperationKeeps
  <1> QED BY <1>2, <1>3

LEMMA StopSkippedKeeps ==
  ASSUME IInv, NEW c \in Calls, StopSkipped(c)
  PROVE  IInv'
  <1> USE DEF StopSkipped, AtOp, Skips, ServerStill, RestStill
  <1> DEFINE r == At(call[c], "previous")
  <1>1. /\ call[c] \in CallRecords /\ Ready(call[c], Len(backups)) /\ Len(backups) \in Nat
        /\ call[c].pc = "stop" /\ c \notin op.by
    BY CallFacts
  <1>2. r \in CallRecords /\ r.pc = "previous" /\ r.kind = call[c].kind /\ Ready(r, Len(backups))
    BY <1>1 DEF At, CallRecords, Steps, Ready
  <1>3. call' = [call EXCEPT ![c] = r] /\ UNCHANGED <<pin, pack, op, doubts, backups>>
        /\ Len(backups') \in Nat /\ Len(backups') >= Len(backups) /\ Ready(r, Len(backups'))
        /\ Go(c, r)
    BY <1>1, <1>2 DEF Go, Resume
  <1> HIDE DEF r
  <1>4. call' \in [Calls -> CallRecords] /\ AllReady' /\ Carried' /\ Held' /\ PinsAgree'
    BY <1>1, <1>2, <1>3, CallMoves
  <1>5. EntryHasItsUpgrade' /\ active' \in BOOLEAN
    BY <1>2, <1>3, EntryCarried, ReleasedType DEF Upgrading, Go, IInv, TypeOK
  <1>6. TypeOK'
    BY <1>4, <1>5 DEF IInv, TypeOK, CallRecords, Versions
  <1> QED BY <1>4, <1>5, <1>6 DEF IInv

LEMMA RequestRefusedKeeps ==
  ASSUME IInv, NEW c \in Calls, RequestRefused(c)
  PROVE  IInv'
  <1> USE DEF RequestRefused, AtOp, ServerStill, RestStill
  <1> DEFINE r == AfterFailure(call[c])
  <1>1. /\ call[c] \in CallRecords /\ Ready(call[c], Len(backups)) /\ Len(backups) \in Nat
        /\ call[c].pc \in OpSteps /\ c \notin op.by
    BY CallFacts DEF OpSteps
  <1>2. /\ r \in CallRecords /\ r.pc # "pack" /\ Ready(r, Len(backups))
        /\ call[c].kind = "upgrade" => r = Free
    BY <1>1, AfterFailureType
  <1>3. Go(c, r)
    OBVIOUS
  <1> HIDE DEF r
  <1>4. call' = [call EXCEPT ![c] = r] /\ active' \in BOOLEAN
    BY <1>3, ReleasedType DEF Go, Resume, IInv, TypeOK
  <1>5. /\ UNCHANGED <<pin, pack, op, doubts, backups>> /\ call[c].pc # "pack"
        /\ Len(backups') \in Nat /\ Len(backups') >= Len(backups) /\ Ready(r, Len(backups'))
    BY <1>1, <1>2 DEF OpSteps
  <1>6. call' \in [Calls -> CallRecords] /\ AllReady' /\ Carried' /\ Held' /\ PinsAgree'
    BY <1>1, <1>2, <1>4, <1>5, CallMoves
  <1>7. EntryHasItsUpgrade'
    BY <1>2, <1>3, EntryCarried DEF Upgrading
  <1>8. TypeOK'
    BY <1>4, <1>6 DEF IInv, TypeOK, CallRecords, Versions
  <1> QED BY <1>6, <1>7, <1>8 DEF IInv

\* An operation is over, and the requests it carried go on.
LEMMA OperationOver ==
  ASSUME IInv, NEW calls \in [Calls -> CallRecords], Resume(calls), op' = NoOp, RestStill,
         \A d \in Calls :
           \/ calls[d] = call[d]
           \/ /\ call[d].pc \in OpSteps /\ calls[d].pc # "pack"
              /\ Ready(calls[d], Len(backups))
              /\ call[d].kind = "upgrade"
                   => calls[d] = Free \/ (calls[d].kind = "upgrade"
                                          /\ calls[d].pc \notin {"idle", "read"}),
         {pending', live'} \subseteq BOOLEAN, built' \in Versions,
         world' \in Versions \cup {None},
         doubts' \subseteq Doubts,
         "torn" \in doubts' <=> "torn" \in doubts
  PROVE  IInv'
  <1> USE DEF RestStill
  <1>1. call' = calls /\ active' \in BOOLEAN
    BY ReleasedType DEF Resume, IInv, TypeOK
  <1>2. AllReady'
    BY <1>1 DEF IInv, AllReady, Versions
  <1>3. Carried'
    BY DEF Carried, NoOp
  <1>4. \A d \in Calls : calls[d].pc = "pack" <=> call[d].pc = "pack"
    BY DEF OpSteps
  <1>5. Held'
    <2>1. \A d \in Calls : calls[d].pc = "pack" => calls[d] = call[d]
      OBVIOUS
    <2> QED BY <1>1, <2>1 DEF IInv, Held
  <1>6. PinsAgree'
    BY <1>1, <1>4 DEF IInv, PinsAgree, Writing
  <1>7. EntryHasItsUpgrade'
    BY EntryStays DEF IInv, Upgrading
  <1>8. TypeOK'
    <2>1. op' \in [kind : {"none", "stop", "recreate", "start"}, by : SUBSET Calls,
                   pin : Versions \cup {None}, rebuild : BOOLEAN]
      BY DEF NoOp
    <2>2. {pending', live', active'} \subseteq BOOLEAN
      BY <1>1
    <2>3. call' \in [Calls -> CallRecords]
      BY <1>1
    <2> QED BY <2>1, <2>2, <2>3 DEF IInv, TypeOK, CallRecords, Versions
  <1> QED BY <1>2, <1>3, <1>5, <1>6, <1>7, <1>8 DEF IInv

LEMMA OpEndsKeeps ==
  ASSUME IInv, OpEnds
  PROVE  IInv'
  <1> DEFINE calls == [c \in Calls |-> IF c \in op.by THEN After(call[c]) ELSE call[c]]
             up == op.kind = "start" \/ (op.kind = "recreate" /\ live)
             v == IF op.rebuild THEN op.pin ELSE built
  <1>1. /\ call \in [Calls -> CallRecords] /\ op.pin \in Versions /\ built \in Versions
        /\ world \in Versions \cup {None} /\ \A c \in op.by : call[c].pc \in OpSteps
    BY DEF OpEnds, IInv, TypeOK, Carried, CallRecords
  <1>2. ASSUME NEW d \in Calls
        PROVE  /\ calls[d] \in CallRecords
               /\ \/ calls[d] = call[d]
                  \/ /\ call[d].pc \in OpSteps /\ calls[d].pc # "pack"
                     /\ Ready(calls[d], Len(backups))
                     /\ call[d].kind = "upgrade"
                          => calls[d] = Free \/ (calls[d].kind = "upgrade"
                                                 /\ calls[d].pc \notin {"idle", "read"})
    <2>1. CASE d \in op.by
      BY <1>1, <2>1, CallFacts, AfterType
    <2>2. CASE d \notin op.by
      BY <1>1, <2>2
    <2> QED BY <2>1, <2>2
  <1>3. calls \in [Calls -> CallRecords]
    BY <1>2
  <1>4. /\ live' = up /\ v \in Versions
        /\ built' = IF op.kind = "stop" THEN built ELSE v
        /\ pending' = (pending /\ (op.kind = "stop" \/ ~op.rebuild))
        /\ IF up THEN Boots(v) ELSE UNCHANGED <<world, doubts>>
    BY <1>1 DEF OpEnds
  <1>5. {pending', live'} \subseteq BOOLEAN
    BY <1>4, Zenon
  <1>6. built' \in Versions
    BY <1>1, <1>4
  <1>7. world' \in Versions \cup {None}
    BY <1>1, <1>4 DEF Boots, MaxOf
  <1>8. doubts' \subseteq Doubts
        /\ ("torn" \in doubts' <=> "torn" \in doubts)
    <2>1. doubts' = doubts \/ doubts' = doubts \cup {"mixed"}
      BY <1>4, Zenon DEF Boots
    <2>2. doubts \subseteq Doubts
      BY DEF IInv, TypeOK
    <2> QED BY <2>1, <2>2 DEF Doubts
  <1>9. Resume(calls) /\ op' = NoOp /\ RestStill
    BY DEF OpEnds
  <1> HIDE DEF calls, v
  <1> QED BY <1>2, <1>3, <1>5, <1>6, <1>7, <1>8, <1>9, OperationOver

LEMMA OpFailsKeeps ==
  ASSUME IInv, OpFails
  PROVE  IInv'
  <1> DEFINE calls == [c \in Calls |-> IF c \in op.by THEN AfterFailure(call[c]) ELSE call[c]]
  <1>1. /\ call \in [Calls -> CallRecords] /\ built \in Versions
        /\ world \in Versions \cup {None} /\ \A c \in op.by : call[c].pc \in OpSteps
    BY DEF IInv, TypeOK, Carried, CallRecords
  <1>2. ASSUME NEW d \in Calls
        PROVE  /\ calls[d] \in CallRecords
               /\ \/ calls[d] = call[d]
                  \/ /\ call[d].pc \in OpSteps /\ calls[d].pc # "pack"
                     /\ Ready(calls[d], Len(backups))
                     /\ call[d].kind = "upgrade"
                          => calls[d] = Free \/ (calls[d].kind = "upgrade"
                                                 /\ calls[d].pc \notin {"idle", "read"})
    <2>1. CASE d \in op.by
      BY <1>1, <2>1, CallFacts, AfterFailureType
    <2>2. CASE d \notin op.by
      BY <1>1, <2>2
    <2> QED BY <2>1, <2>2
  <1>3. calls \in [Calls -> CallRecords]
    BY <1>2
  <1>4. {pending', live'} \subseteq BOOLEAN
    BY Zenon DEF OpFails, ServerStill, IInv, TypeOK
  <1>5. built' \in Versions /\ world' \in Versions \cup {None}
    BY <1>1 DEF OpFails, ServerStill, Versions
  <1>6. doubts' = doubts /\ doubts \subseteq Doubts
    BY DEF OpFails, IInv, TypeOK
  <1>7. Resume(calls) /\ op' = NoOp /\ RestStill
    BY DEF OpFails
  <1> HIDE DEF calls
  <1> QED BY <1>2, <1>3, <1>4, <1>5, <1>6, <1>7, OperationOver

LEMMA ExitsKeeps == ASSUME IInv, Exits PROVE IInv'
  <1> USE DEF Exits, RestStill
  <1>1. TypeOK'
    BY DEF IInv, TypeOK, Versions
  <1>2. AllReady' /\ Held' /\ PinsAgree' /\ EntryHasItsUpgrade'
    BY DEF IInv, AllReady, Held, PinsAgree, Writing, EntryHasItsUpgrade, Versions
  <1>3. Carried'
    BY DEF IInv, Carried, Versions
  <1> QED BY <1>1, <1>2, <1>3 DEF IInv

\* A backup that no upgrade made is one more.
LEMMA UserBackupKeeps == ASSUME IInv, UserBackup PROVE IInv'
  <1> USE DEF UserBackup, ServerStill
  <1>1. /\ backups' \in Seq(Versions \cup {None}) /\ Len(backups') = Len(backups) + 1
        /\ Len(backups) \in Nat /\ Len(backups') <= MaxBackups
    <2>1. backups \in Seq(Versions \cup {None}) /\ world \in Versions \cup {None}
      BY DEF IInv, TypeOK
    <2>2. Len(backups) \in Nat
      BY <2>1, LenProperties
    <2> QED BY <2>1, <2>2, AppendProperties, PackAssumption
  <1>2. TypeOK'
    <2>1. newest' \in 0..Len(backups') /\ unpinned' \subseteq 1..MaxBackups
      <3>1. newest \in 0..Len(backups) /\ newest' = newest /\ unpinned \subseteq 1..MaxBackups
        BY DEF IInv, TypeOK
      <3>2. Len(backups) + 1 \in 1..MaxBackups /\ Len(backups') = Len(backups) + 1
        BY <1>1, PackAssumption
      <3>3. newest' \in 0..Len(backups')
        BY <1>1, <3>1
      <3>4. unpinned' = unpinned \cup {Len(backups) + 1}
        OBVIOUS
      <3> QED BY <3>1, <3>2, <3>3, <3>4
    <2>2. {pending', live', active'} \subseteq BOOLEAN
      BY Zenon DEF IInv, TypeOK
    <2> QED BY <1>1, <2>1, <2>2 DEF IInv, TypeOK, Versions
  <1>3. AllReady'
    <2>1. ASSUME NEW d \in Calls PROVE Ready(call[d], Len(backups'))
      <3>1. call[d].backup \in Nat /\ Ready(call[d], Len(backups))
        BY CallFacts DEF CallRecords
      <3> QED BY <1>1, <3>1 DEF Ready
    <2> QED BY <2>1 DEF AllReady, Ready, Versions
  <1>4. Held' /\ PinsAgree' /\ EntryHasItsUpgrade'
    BY DEF IInv, Held, PinsAgree, Writing, EntryHasItsUpgrade, Upgrading
  <1>5. Carried'
    BY DEF IInv, Carried, Versions
  <1> QED BY <1>2, <1>3, <1>4, <1>5 DEF IInv

\* An edit of the environment tears row and table.
LEMMA EditEnvKeeps == ASSUME IInv, NEW v \in Versions, EditEnv(v) PROVE IInv'
  <1> USE DEF EditEnv
  <1>1. TypeOK'
    <2>1. doubts' \subseteq Doubts
      BY DEF IInv, TypeOK, Doubts
    <2>2. {pending', live', active'} \subseteq BOOLEAN
      BY Zenon DEF IInv, TypeOK
    <2>3. {pin', built'} \subseteq Versions
      BY DEF IInv, TypeOK, Versions
    <2> QED BY <2>1, <2>2, <2>3 DEF IInv, TypeOK, Versions
  <1>2. AllReady' /\ EntryHasItsUpgrade' /\ Carried'
    BY DEF IInv, AllReady, Ready, EntryHasItsUpgrade, Upgrading, Carried, Versions
  <1>3. Held' /\ PinsAgree'
    BY DEF Held, PinsAgree
  <1> QED BY <1>1, <1>2, <1>3 DEF IInv

LEMMA StepOfCall == ASSUME IInv, NEW c \in Calls, Step(c) PROVE IInv'
  BY RequestOperatesKeeps, RequestRefusedKeeps, StopSkippedKeeps, ReadForUpgradeKeeps,
     ReadForRollbackKeeps, ResolveKeeps, BackupKeeps, LookKeeps, LooksLiveKeeps, ExtractKeeps,
     ReadPreviousKeeps, WriteRowKeeps, WritePackKeeps, MonitorKeeps, OverlayKeeps,
     StepFailsKeeps
     DEF Step

LEMMA NextIInv == IInv /\ [Next]_packVars => IInv'
  <1> SUFFICES ASSUME IInv, [Next]_packVars PROVE IInv'
    OBVIOUS
  <1>1. CASE \E kind \in {"start", "stop", "recreate"} : UserOperates(kind)
    BY <1>1, UserOperatesKeeps
  <1>2. CASE OpEnds
    BY <1>2, OpEndsKeeps
  <1>3. CASE OpFails
    BY <1>3, OpFailsKeeps
  <1>4. CASE Exits \/ UserBackup \/ \E v \in Versions : EditEnv(v)
    BY <1>4, ExitsKeeps, UserBackupKeeps, EditEnvKeeps
  <1>5. ASSUME NEW c \in Calls, Step(c) \/ \E b \in Choices : RollbackPack(c, b) PROVE IInv'
    BY <1>5, StepOfCall, RollbackKeeps
  <1>6. ASSUME NEW c \in Calls, NEW v \in Versions,
               ApplyToServer(c, v) \/ \E skip \in BOOLEAN : UpgradePack(c, v, skip)
        PROVE  IInv'
    BY <1>6, ApplyKeeps, UpgradeKeeps
  <1>7. CASE UNCHANGED packVars
    BY <1>7 DEF packVars, IInv, TypeOK, AllReady, Carried, Held, PinsAgree, Writing,
                EntryHasItsUpgrade, Upgrading, Versions
  <1> QED BY <1>1, <1>2, <1>3, <1>4, <1>5, <1>6, <1>7 DEF Next

-----------------------------------------------------------------------------
(* The theorems *)

LEMMA PackInvariant == Spec => []IInv
  BY InitIInv, NextIInv, PTL DEF Spec

\* The state of the requests, the row, the pack table and the backups is of its
\* type: in particular no version is pinned that is none, and a restore finds
\* the backup it was given.
THEOREM PackTypes == Spec => []TypeOK
  <1>1. IInv => TypeOK
    BY DEF IInv
  <1> QED BY <1>1, PackInvariant, PTL

\* applyPack: the row's environment and server_packs name one version, unless a
\* request is between its two writes, two wrote across each other or one failed
\* half-way.
THEOREM PinsAlwaysAgree == Spec => []PinsAgree
  <1>1. IInv => PinsAgree
    BY DEF IInv
  <1> QED BY <1>1, PackInvariant, PTL

\* upgradePack: whatever fails or is refused, an entry of activeUpgrades has an
\* upgrade that is still going to delete it.
THEOREM NoEntryIsLeft == Spec => []EntryHasItsUpgrade
  <1>1. IInv => EntryHasItsUpgrade
    BY DEF IInv
  <1> QED BY <1>1, PackInvariant, PTL

-----------------------------------------------------------------------------
(***************************************************************************)
(* A rollback fits the world (WorldFitsPack), as long as nothing but a     *)
(* torn write came between the two (Clear).  The world is never newer than *)
(* the pin, nor is a backup whose upgrade has pinned its version; such a   *)
(* backup is not newer either than the version a rollback will pin, which  *)
(* the pack table holds, or the request that is about to write it there.   *)
(* A request that nobody wrote across climbs (apply, upgrade) or returns   *)
(* to that version (rollback).                                             *)
(***************************************************************************)

Clear == ~scene.free /\ doubts \subseteq {"torn"}

\* Which kinds of request come to which steps.
Shape(r) ==
  /\ r.pc \in {"stopAgain", "look", "extract"} => r.kind = "rollback"
  /\ r.pc = "stop" => r.kind \in {"upgrade", "rollback"}
  /\ r.pc = "backup" => r.kind = "upgrade"
  /\ r.pc # "idle" => r.kind \in Kinds

\* An apply or upgrade before it writes the row, an upgrade with its backup, a
\* rollback that has read the version to go back to, one that wiped the world.
Climbing(r) == r.kind \in {"apply", "upgrade"}
               /\ r.pc \in {"read", "resolve", "backup", "stop", "previous", "row"}
Saving(r) == Climbing(r) /\ r.kind = "upgrade" /\ r.backup # None
Returning(r) == r.kind = "rollback"
                /\ r.pc \in {"stop", "stopAgain", "look", "extract", "resolve", "previous", "row"}
Wiped(r) == r.kind = "rollback" /\ r.backup # None
            /\ r.pc \in {"extract", "resolve", "previous", "row"}

\* What a request relies on of the pin p, the version q to go back to, the world
\* w, and the backups bs.
Fits(r, p, q, w, bs) ==
  /\ r.alone /\ Climbing(r) => r.target > p
  /\ r.alone /\ Saving(r) => bs[r.backup] <= p
  /\ r.alone /\ r.pc = "row" => r.previous = p
  /\ r.alone /\ Returning(r) => r.target = q
  /\ r.alone /\ Wiped(r) => w <= r.target

\* And that nobody is between two writes (settled), and nobody runs on the world
\* it wiped.
Undisturbed(r, settled, l) ==
  /\ r.alone /\ (r.pc = "row" \/ Returning(r)) => settled
  /\ Wiped(r) => ~l

\* The backups whose upgrades have pinned their versions.
Kept == 1..Len(backups) \ unpinned

Below(b) ==
  /\ backups[b] <= pin
  /\ Settled => backups[b] <= pack.previous
  /\ \A c \in Calls : call[c].pc = "pack" => backups[b] <= call[c].previous

FitNow ==
  /\ world <= pin
  /\ live => world <= built
  /\ \A b \in Kept : Below(b)
  /\ \A c \in Calls : Fits(call[c], pin, pack.previous, world, backups)
                      /\ Undisturbed(call[c], Settled, live)

FitInv ==
  /\ \A c \in Calls : Shape(call[c])
  /\ Clear => FitNow

FitsFree == Shape(Free) /\ \A p, q, w, bs, s, l : Fits(Free, p, q, w, bs) /\ Undisturbed(Free, s, l)

LEMMA FreeFits == FitsFree
  BY DEF FitsFree, Fits, Undisturbed, Shape, Climbing, Saving, Returning, Wiped, Free

\* One request moves on, neither to nor from between its writes, and nothing
\* else changes that the others rely on.
LEMMA OneMoves ==
  ASSUME IInv, FitInv, NEW c \in Calls, NEW r, call' = [call EXCEPT ![c] = r],
         call[c].pc # "pack", r.pc # "pack",
         UNCHANGED <<scene, pin, pack, world, live, built, backups, unpinned, doubts>>,
         Shape(r), Clear /\ FitNow => Fits(r, pin, pack.previous, world, backups)
                                      /\ Undisturbed(r, Settled, live)
  PROVE  FitInv'
  <1>1. call \in [Calls -> CallRecords]
    BY DEF IInv, TypeOK, CallRecords
  <1>2. \A d \in Calls : call'[d] = IF d = c THEN r ELSE call[d]
    BY <1>1
  <1>3. Settled' <=> Settled
    BY <1>2 DEF Settled, Writing
  <1>4. \A d \in Calls : Shape(call'[d])
    BY <1>2 DEF FitInv
  <1>5. Clear' => Clear
    BY DEF Clear
  <1>6. ASSUME Clear PROVE FitNow'
    <2>1. FitNow /\ Fits(r, pin, pack.previous, world, backups) /\ Undisturbed(r, Settled, live)
      BY <1>6 DEF FitInv
    <2>2. world' <= pin' /\ (live' => world' <= built')
      BY <2>1 DEF FitNow
    <2>3. ASSUME NEW b \in Kept' PROVE Below(b)'
      <3>1. b \in Kept
        BY DEF Kept
      <3> QED BY <1>2, <1>3, <2>1, <3>1 DEF FitNow, Below
    <2>4. ASSUME NEW d \in Calls
          PROVE  Fits(call'[d], pin, pack.previous, world, backups)
                 /\ Undisturbed(call'[d], Settled, live)
      BY <1>2, <2>1 DEF FitNow
    <2>5. \A d \in Calls : Undisturbed(call'[d], Settled', live')
      BY <1>3, <2>4 DEF Undisturbed
    <2> QED BY <2>2, <2>3, <2>4, <2>5 DEF FitNow
  <1> QED BY <1>4, <1>5, <1>6 DEF FitInv

\* What a request relies on does not depend on the step it is at, but for what
\* the new step adds.
LEMMA FitsAt ==
  ASSUME NEW r \in CallRecords, NEW s, NEW p, NEW q, NEW w, NEW bs,
         Fits(r, p, q, w, bs), Climbing(At(r, s)) => Climbing(r), s # "row",
         Returning(At(r, s)) => Returning(r), Wiped(At(r, s)) => Wiped(r)
  PROVE  Fits(At(r, s), p, q, w, bs)
  <1> DEFINE t == At(r, s)
  <1>1. t.alone = r.alone /\ t.target = r.target /\ t.backup = r.backup /\ t.pc = s
        /\ t.kind = r.kind
    BY DEF At, CallRecords
  <1> HIDE DEF t
  <1>2. Climbing(t) => Climbing(r)
    BY DEF t
  <1>3. (Returning(t) => Returning(r)) /\ (Wiped(t) => Wiped(r))
    BY DEF t
  <1>4. Saving(t) => Saving(r)
    BY <1>1, <1>2 DEF Saving
  <1>5. Fits(t, p, q, w, bs)
    BY <1>1, <1>2, <1>3, <1>4 DEF Fits
  <1> QED BY <1>5 DEF t

LEMMA UndisturbedAt ==
  ASSUME NEW r \in CallRecords, NEW s, NEW settled, NEW l,
         Undisturbed(r, settled, l), s # "row",
         Returning(At(r, s)) => Returning(r), Wiped(At(r, s)) => Wiped(r)
  PROVE  Undisturbed(At(r, s), settled, l)
  <1> DEFINE t == At(r, s)
  <1>1. t.alone = r.alone /\ t.pc = s
    BY DEF At, CallRecords
  <1> HIDE DEF t
  <1>2. (Returning(t) => Returning(r)) /\ (Wiped(t) => Wiped(r))
    BY DEF t
  <1>3. Undisturbed(t, settled, l)
    BY <1>1, <1>2 DEF Undisturbed
  <1> QED BY <1>3 DEF t

\* After an operation a request goes on as what it was, and has not yet wiped
\* the world.
Goes(r, t) == t = Free \/ \E s \in {"start", "monitor", "previous", "look", "resolve", "stopAgain"} :
  /\ t = At(r, s)
  /\ Shape(t)
  /\ Climbing(t) => Climbing(r)
  /\ Returning(t) => Returning(r)
  /\ ~Wiped(t)

LEMMA AfterGoes ==
  ASSUME NEW r \in CallRecords, r.pc \in OpSteps, Shape(r)
  PROVE  Goes(r, After(r)) /\ Goes(r, AfterFailure(r))
  <1> DEFINE S == {"start", "monitor", "previous", "look", "resolve", "stopAgain"}
  <1>1. \A s : /\ At(r, s).kind = r.kind /\ At(r, s).pc = s /\ At(r, s).backup = r.backup
    BY DEF At, CallRecords
  <1>2. r.kind \in Kinds
    BY DEF Shape, OpSteps
  <1>3. ASSUME NEW s \in S, 
               s = "previous" => r.kind = "upgrade" /\ r.pc \in {"stop", "stopAgain"},
               s \in {"look", "stopAgain"} => r.kind = "rollback" /\ r.pc \in {"stop", "stopAgain"},
               s = "resolve" => r.kind = "rollback" /\ r.backup = None /\ r.pc \in {"stop", "stopAgain"}
        PROVE  Goes(r, At(r, s))
    <2>1. Shape(At(r, s))
      BY <1>1, <1>2, <1>3 DEF Shape
    <2>2. Climbing(At(r, s)) => Climbing(r)
      BY <1>1, <1>3 DEF Climbing, Shape
    <2>3. (Returning(At(r, s)) => Returning(r)) /\ ~Wiped(At(r, s))
      BY <1>1, <1>3 DEF Returning, Wiped
    <2> QED BY <2>1, <2>2, <2>3 DEF Goes
  <1>4. Goes(r, Free)
    BY DEF Goes
  <1>5. Goes(r, After(r))
    <2>1. CASE r.pc = "recreate"
      BY <2>1, <1>3 DEF After
    <2>2. CASE r.pc = "start" /\ r.kind = "upgrade"
      BY <2>2, <1>3 DEF After
    <2>3. CASE r.pc = "start" /\ r.kind # "upgrade"
      BY <2>3, <1>4 DEF After
    <2>4. CASE r.pc \in {"stop", "stopAgain"} /\ r.kind = "upgrade"
      BY <2>4, <1>3 DEF After
    <2>5. CASE r.pc = "stopAgain" /\ r.kind = "rollback"
      BY <2>5, <1>3 DEF After
    <2>6. CASE r.pc = "stop" /\ r.kind = "rollback" /\ r.backup = None
      <3>1. After(r) = At(r, "resolve")
        BY <2>6 DEF After
      <3> QED BY <2>6, <3>1, <1>3
    <2>7. CASE r.pc = "stop" /\ r.kind = "rollback" /\ r.backup # None
      <3>1. After(r) = At(r, "stopAgain")
        BY <2>7 DEF After
      <3> QED BY <2>7, <3>1, <1>3
    <2> QED BY <2>1, <2>2, <2>3, <2>4, <2>5, <2>6, <2>7 DEF OpSteps, Shape
  <1> QED BY <1>4, <1>5 DEF AfterFailure

LEMMA GoesFits ==
  ASSUME NEW r \in CallRecords, NEW t, Goes(r, t)
  PROVE  /\ Shape(t)
         /\ \A p, q, w, bs : Fits(r, p, q, w, bs) => Fits(t, p, q, w, bs)
         /\ \A settled, l : Undisturbed(r, settled, l) => Undisturbed(t, settled, l)
         /\ ~Wiped(t) /\ t.pc # "pack"
  <1>1. CASE t = Free
    BY <1>1, FreeFits DEF FitsFree, Free, Wiped
  <1>2. ASSUME NEW s \in {"start", "monitor", "previous", "look", "resolve", "stopAgain"},
               t = At(r, s), Shape(t), Climbing(t) => Climbing(r),
               Returning(t) => Returning(r), ~Wiped(t)
        PROVE  /\ Shape(t)
               /\ \A p, q, w, bs : Fits(r, p, q, w, bs) => Fits(t, p, q, w, bs)
               /\ \A settled, l : Undisturbed(r, settled, l) => Undisturbed(t, settled, l)
               /\ ~Wiped(t) /\ t.pc # "pack"
    <2>1. t.pc = s /\ s # "row" /\ s # "pack"
      BY <1>2 DEF At, CallRecords
    <2>2. ASSUME NEW p, NEW q, NEW w, NEW bs, Fits(r, p, q, w, bs) PROVE Fits(t, p, q, w, bs)
      BY <1>2, <2>1, <2>2, FitsAt
    <2>3. ASSUME NEW settled, NEW l, Undisturbed(r, settled, l) PROVE Undisturbed(t, settled, l)
      BY <1>2, <2>1, <2>3, UndisturbedAt
    <2> QED BY <1>2, <2>1, <2>2, <2>3
  <1> QED BY <1>1, <1>2 DEF Goes

-----------------------------------------------------------------------------
(* Steps that touch neither the world nor a version *)

\* Only the guard's entry changes.
LEMMA EntryFits ==
  ASSUME FitInv, ServerStill, RestStill, UNCHANGED <<call, doubts>>
  PROVE  FitInv'
  BY DEF ServerStill, RestStill, FitInv, Clear, FitNow, Below, Kept, Settled, Writing

LEMMA RefusedFits ==
  ASSUME IInv, FitInv, NEW c \in Calls, RequestRefused(c)
  PROVE  FitInv'
  <1> USE DEF RequestRefused, AtOp, ServerStill, RestStill
  <1> DEFINE r == AfterFailure(call[c])
  <1>1. call[c] \in CallRecords /\ call[c].pc \in OpSteps /\ Shape(call[c])
    BY CallFacts DEF OpSteps, FitInv
  <1>2. Goes(call[c], r)
    BY <1>1, AfterGoes
  <1>3. call' = [call EXCEPT ![c] = r]
    BY DEF Go, Resume
  <1> HIDE DEF r
  <1>4. r.pc # "pack" /\ call[c].pc # "pack" /\ Shape(r)
    BY <1>1, <1>2, GoesFits DEF OpSteps
  <1>5. Clear /\ FitNow => Fits(r, pin, pack.previous, world, backups)
                           /\ Undisturbed(r, Settled, live)
    BY <1>1, <1>2, GoesFits DEF FitNow
  <1> QED BY <1>3, <1>4, <1>5, OneMoves

LEMMA SkippedFits ==
  ASSUME IInv, FitInv, NEW c \in Calls, StopSkipped(c)
  PROVE  FitInv'
  <1> USE DEF StopSkipped, AtOp, ServerStill, RestStill
  <1> DEFINE r == At(call[c], "previous")
  <1>1. call[c] \in CallRecords /\ call[c].pc = "stop" /\ call[c].kind = "upgrade"
    BY CallFacts DEF Skips
  <1>2. call' = [call EXCEPT ![c] = r]
    BY DEF Go, Resume
  <1>3. r.pc = "previous" /\ r.kind = "upgrade"
    BY <1>1 DEF At, CallRecords
  <1>4. Goes(call[c], r)
    BY <1>1, <1>3 DEF Goes, Shape, Kinds, Climbing, Returning, Wiped
  <1> HIDE DEF r
  <1>5. Clear /\ FitNow => Fits(r, pin, pack.previous, world, backups)
                           /\ Undisturbed(r, Settled, live)
    BY <1>1, <1>4, GoesFits DEF FitNow
  <1>6. Shape(r)
    BY <1>1, <1>4, GoesFits
  <1>7. UNCHANGED <<scene, pin, pack, world, live, built, backups, unpinned, doubts>>
    OBVIOUS
  <1> QED BY <1>1, <1>2, <1>3, <1>5, <1>6, <1>7, OneMoves

\* A request ends without having written anything.
LEMMA ReturnFits ==
  ASSUME IInv, FitInv, NEW c \in Calls, Return(c), call[c].pc # "pack",
         Apart, UNCHANGED <<pack, backups, unpinned, doubts>>
  PROVE  FitInv'
  <1>1. call' = [call EXCEPT ![c] = Free]
    BY DEF Return, Go, Resume
  <1>2. Free.pc # "pack"
    BY DEF Free
  <1> QED BY <1>1, <1>2, FreeFits, OneMoves DEF Apart, ServerStill, FitsFree

LEMMA BeginFits ==
  ASSUME IInv, FitInv, NEW c \in Calls, NEW r, Begin(c, r), r.pc \in {"read", "resolve"},
         r.kind \in Kinds, r.backup = None \/ r.pc = "read",
         Clear => (r.kind \in {"apply", "upgrade"} => r.target > pin /\ r.backup = None),
         r.kind = "rollback" => r.pc = "read"
  PROVE  FitInv'
  <1>1. call' = [call EXCEPT ![c] = r] /\ call[c].pc # "pack" /\ r.pc # "pack"
    BY DEF Begin, Go, Resume
  <1>2. UNCHANGED <<scene, pin, pack, world, live, built, backups, unpinned, doubts>>
    BY DEF Begin, Apart, ServerStill
  <1>3. Shape(r)
    BY DEF Shape
  <1>4. ~Returning(r) /\ ~Wiped(r) /\ r.pc # "row"
    BY DEF Returning, Wiped
  <1>5. Undisturbed(r, Settled, live)
    BY <1>4 DEF Undisturbed
  <1>6. Clear => Fits(r, pin, pack.previous, world, backups)
    BY <1>4 DEF Fits, Climbing, Saving
  <1> QED BY <1>1, <1>2, <1>3, <1>5, <1>6, OneMoves

LEMMA ApplyFits ==
  ASSUME IInv, FitInv, NEW c \in Calls, NEW v \in Versions, ApplyToServer(c, v)
  PROVE  FitInv'
  <1> DEFINE r == [Free EXCEPT !.kind = "apply", !.pc = "resolve", !.target = v]
  <1>1. r.kind = "apply" /\ r.pc = "resolve" /\ r.target = v /\ r.backup = None
    BY DEF Free
  <1>2. Begin(c, r) /\ (Clear => v > pin)
    BY DEF ApplyToServer, Clear
  <1> HIDE DEF r
  <1> QED BY <1>1, <1>2, BeginFits DEF Kinds

LEMMA UpgradeFits ==
  ASSUME IInv, FitInv, NEW c \in Calls, NEW v \in Versions, NEW skip \in BOOLEAN,
         UpgradePack(c, v, skip)
  PROVE  FitInv'
  <1> DEFINE r == [Free EXCEPT !.kind = "upgrade", !.pc = "read", !.target = v, !.skip = skip]
  <1>1. r.kind = "upgrade" /\ r.pc = "read" /\ r.target = v /\ r.backup = None
    BY DEF Free
  <1>2. Begin(c, r) /\ (Clear => v > pin)
    BY DEF UpgradePack, Clear
  <1> HIDE DEF r
  <1> QED BY <1>1, <1>2, BeginFits DEF Kinds

LEMMA RollbackFits ==
  ASSUME IInv, FitInv, NEW c \in Calls, NEW b \in Choices, RollbackPack(c, b)
  PROVE  FitInv'
  <1> DEFINE r == [Free EXCEPT !.kind = "rollback", !.pc = "read", !.backup = b]
  <1>1. r.kind = "rollback" /\ r.pc = "read"
    BY DEF Free
  <1>2. Begin(c, r)
    BY DEF RollbackPack
  <1> HIDE DEF r
  <1> QED BY <1>1, <1>2, BeginFits DEF Kinds

LEMMA ReadForUpgradeFits ==
  ASSUME IInv, FitInv, NEW c \in Calls, NEW was \in BOOLEAN, ReadForUpgrade(c, was)
  PROVE  FitInv'
  <1> DEFINE r == [At(call[c], "resolve") EXCEPT !.was = was, !.seen = pack.pinned]
  <1>1. call[c] \in CallRecords /\ call[c].pc = "read" /\ call[c].kind = "upgrade"
    BY CallFacts DEF ReadForUpgrade
  <1>2. /\ r.kind = "upgrade" /\ r.pc = "resolve" /\ r.target = call[c].target
        /\ r.backup = call[c].backup /\ (r.alone <=> call[c].alone)
    BY <1>1 DEF At, CallRecords
  <1>3. /\ call' = [call EXCEPT ![c] = r]
        /\ UNCHANGED <<scene, pin, pack, world, live, built, backups, unpinned, doubts>>
    BY DEF ReadForUpgrade, Go, Resume, Apart, ServerStill
  <1> HIDE DEF r
  <1>4. ~Returning(r) /\ ~Wiped(r) /\ Shape(r)
    BY <1>2 DEF Returning, Wiped, Shape, Kinds
  <1>5. Undisturbed(r, Settled, live)
    BY <1>2, <1>4 DEF Undisturbed
  <1>6. FitNow => Fits(r, pin, pack.previous, world, backups)
    <2>1. FitNow => Fits(call[c], pin, pack.previous, world, backups)
      BY DEF FitNow
    <2> QED BY <1>1, <1>2, <1>4, <2>1 DEF Fits, Climbing, Saving
  <1> QED BY <1>1, <1>2, <1>3, <1>4, <1>5, <1>6, OneMoves

LEMMA ReadForRollbackFits ==
  ASSUME IInv, FitInv, NEW c \in Calls, ReadForRollback(c)
  PROVE  FitInv'
  <1> DEFINE Q(v, b) == [At(call[c], "stop") EXCEPT !.target = v, !.alone = b]
  <1>1. call[c] \in CallRecords /\ call[c].pc = "read" /\ call[c].kind = "rollback"
    BY CallFacts DEF ReadForRollback
  <1>2. ASSUME NEW v, NEW b
        PROVE  /\ Q(v, b).kind = "rollback" /\ Q(v, b).pc = "stop" /\ Q(v, b).target = v
               /\ Q(v, b).alone = b
    BY <1>1 DEF At, CallRecords
  <1>3. UNCHANGED <<scene, pin, pack, world, live, built, backups, unpinned, doubts>>
    BY DEF ReadForRollback, Apart, ServerStill
  <1>4. \/ call' = [call EXCEPT ![c] = Free]
        \/ call' = [call EXCEPT ![c] = Q(pack.previous, Settled)]
    BY DEF ReadForRollback, Go, Resume
  <1> HIDE DEF Q
  <1>5. CASE call' = [call EXCEPT ![c] = Free]
    BY <1>1, <1>3, <1>5, FreeFits, OneMoves DEF FitsFree, Free
  <1>6. CASE call' = [call EXCEPT ![c] = Q(pack.previous, Settled)]
    <2> DEFINE r == Q(pack.previous, Settled)
    <2>1. r.kind = "rollback" /\ r.pc = "stop" /\ r.target = pack.previous /\ r.alone = Settled
      BY <1>2
    <2> HIDE DEF r
    <2>2. ~Climbing(r) /\ ~Saving(r) /\ ~Wiped(r) /\ Shape(r)
      BY <2>1 DEF Climbing, Saving, Wiped, Shape, Kinds
    <2>3. Fits(r, pin, pack.previous, world, backups)
      BY <2>1, <2>2 DEF Fits
    <2>4. Undisturbed(r, Settled, live)
      BY <2>1, <2>2 DEF Undisturbed
    <2>5. call' = [call EXCEPT ![c] = r]
      BY <1>6 DEF r
    <2> QED BY <1>1, <1>3, <2>1, <2>2, <2>3, <2>4, <2>5, OneMoves
  <1> QED BY <1>4, <1>5, <1>6

LEMMA ResolveFits ==
  ASSUME IInv, FitInv, NEW c \in Calls, Resolve(c)
  PROVE  FitInv'
  <1> DEFINE r == call[c]
  <1>1. r \in CallRecords /\ r.pc = "resolve" /\ Shape(r)
    BY CallFacts DEF Resolve, FitInv
  <1>2. UNCHANGED <<scene, pin, pack, world, live, built, backups, unpinned, doubts>>
    BY DEF Resolve, Apart, ServerStill
  <1>3. \/ call' = [call EXCEPT ![c] = Free]
        \/ \E s \in {"previous", "stop", "backup"} :
             /\ call' = [call EXCEPT ![c] = At(r, s)]
             /\ s # "previous" => r.kind = "upgrade"
    BY DEF Resolve, Go, Resume
  <1>4. CASE call' = [call EXCEPT ![c] = Free]
    BY <1>1, <1>2, <1>4, FreeFits, OneMoves DEF FitsFree, Free
  <1>5. ASSUME NEW s \in {"previous", "stop", "backup"}, call' = [call EXCEPT ![c] = At(r, s)],
               s # "previous" => r.kind = "upgrade"
        PROVE  FitInv'
    <2> DEFINE t == At(r, s)
    <2>1. t.pc = s /\ t.kind = r.kind /\ t.backup = r.backup
      BY <1>1 DEF At, CallRecords
    <2>2. Climbing(t) => Climbing(r)
      BY <1>1, <2>1 DEF Climbing
    <2>3. (Returning(t) => Returning(r)) /\ (Wiped(t) => Wiped(r))
      BY <1>1, <1>5, <2>1 DEF Returning, Wiped
    <2>4. Shape(t)
      BY <1>1, <1>5, <2>1 DEF Shape, Kinds
    <2>5. Clear /\ FitNow => Fits(t, pin, pack.previous, world, backups)
      BY <1>1, <2>2, <2>3, FitsAt DEF FitNow
    <2>6. Clear /\ FitNow => Undisturbed(t, Settled, live)
      BY <1>1, <2>3, UndisturbedAt DEF FitNow
    <2>7. call' = [call EXCEPT ![c] = t] /\ t.pc # "pack"
      BY <1>5, <2>1
    <2> HIDE DEF t
    <2> QED BY <1>1, <1>2, <2>4, <2>5, <2>6, <2>7, OneMoves
  <1> QED BY <1>3, <1>4, <1>5

\* The version that applyPack reads is the pin, where nobody is between two
\* writes: there the row and the pack agree.
LEMMA ReadPreviousFits ==
  ASSUME IInv, FitInv, NEW c \in Calls, ReadPrevious(c)
  PROVE  FitInv'
  <1> DEFINE r == call[c]
             Q(v, b) == [At(r, "row") EXCEPT !.previous = v, !.alone = b]
             t == Q(pack.pinned, r.alone /\ Settled)
  <1>1. r \in CallRecords /\ r.pc = "previous" /\ Shape(r)
    BY CallFacts DEF ReadPrevious, FitInv
  <1>2. UNCHANGED <<scene, pin, pack, world, live, built, backups, unpinned, doubts>>
    BY DEF ReadPrevious, Apart, ServerStill
  <1>3. call' = [call EXCEPT ![c] = t]
    BY <1>1 DEF ReadPrevious, Go, Resume, At, CallRecords
  <1>4. ASSUME NEW v, NEW b
        PROVE  /\ Q(v, b).kind = r.kind /\ Q(v, b).pc = "row" /\ Q(v, b).target = r.target
               /\ Q(v, b).alone = b /\ Q(v, b).previous = v /\ Q(v, b).backup = r.backup
    BY <1>1 DEF At, CallRecords
  <1> HIDE DEF Q
  <1>5. /\ t.kind = r.kind /\ t.pc = "row" /\ t.target = r.target /\ t.backup = r.backup
        /\ t.previous = pack.pinned /\ t.alone = (r.alone /\ Settled)
    BY <1>4
  <1> HIDE DEF t
  <1>6. t.alone => r.alone /\ Settled
    BY <1>5
  <1>7. /\ Climbing(t) => Climbing(r)
        /\ Saving(t) => Saving(r)
        /\ Returning(t) => Returning(r)
        /\ Wiped(t) => Wiped(r)
    BY <1>1, <1>5 DEF Climbing, Saving, Returning, Wiped
  <1>8. Settled => pack.pinned = pin
    BY DEF Settled, IInv, PinsAgree
  <1>9. FitNow => Fits(t, pin, pack.previous, world, backups)
    <2>1. FitNow => Fits(r, pin, pack.previous, world, backups)
      BY DEF FitNow
    <2> QED BY <1>5, <1>6, <1>7, <1>8, <2>1 DEF Fits
  <1>10. FitNow => Undisturbed(t, Settled, live)
    <2>1. FitNow => Undisturbed(r, Settled, live)
      BY DEF FitNow
    <2> QED BY <1>6, <1>7, <2>1 DEF Undisturbed
  <1>11. Shape(t)
    BY <1>1, <1>5 DEF Shape
  <1> QED BY <1>1, <1>2, <1>3, <1>5, <1>9, <1>10, <1>11, OneMoves

LEMMA LooksLiveFits ==
  ASSUME IInv, FitInv, NEW c \in Calls, LooksLive(c)
  PROVE  FitInv'
  BY ReturnFits DEF LooksLive

LEMMA MonitorFits ==
  ASSUME IInv, FitInv, NEW c \in Calls, Monitor(c)
  PROVE  FitInv'
  <1> DEFINE r == At(call[c], "overlay")
  <1>1. call[c] \in CallRecords /\ call[c].pc = "monitor" /\ Shape(call[c])
    BY CallFacts DEF Monitor, FitInv
  <1>2. CASE Return(c)
    BY <1>1, <1>2, ReturnFits DEF Monitor
  <1>3. CASE Go(c, r)
    <2>1. call' = [call EXCEPT ![c] = r]
      BY <1>3 DEF Go, Resume
    <2>2. r.pc = "overlay" /\ r.kind = call[c].kind
      BY <1>1 DEF At, CallRecords
    <2>3. UNCHANGED <<scene, pin, pack, world, live, built, backups, unpinned, doubts>>
      BY DEF Monitor, Apart, ServerStill
    <2> HIDE DEF r
    <2>4. ~Climbing(r) /\ ~Saving(r) /\ ~Returning(r) /\ ~Wiped(r) /\ Shape(r)
      BY <1>1, <2>2 DEF Climbing, Saving, Returning, Wiped, Shape
    <2>5. Fits(r, pin, pack.previous, world, backups) /\ Undisturbed(r, Settled, live)
      BY <2>2, <2>4 DEF Fits, Undisturbed
    <2> QED BY <1>1, <2>1, <2>2, <2>3, <2>4, <2>5, OneMoves
  <1> QED BY <1>2, <1>3 DEF Monitor

LEMMA OverlayFits ==
  ASSUME IInv, FitInv, NEW c \in Calls, Overlay(c)
  PROVE  FitInv'
  BY ReturnFits DEF Overlay

-----------------------------------------------------------------------------
(* Steps that change a version, the world or a backup *)

\* Once one is between its two writes no other relies on a settled pair, so that
\* it may leave it torn.
LEMMA StepFailsFits ==
  ASSUME IInv, FitInv, NEW c \in Calls, StepFails(c)
  PROVE  FitInv'
  <1>1. CASE call[c].pc # "pack"
    BY <1>1, ReturnFits DEF StepFails
  <1>2. CASE call[c].pc = "pack"
    <2>1. /\ call' = [call EXCEPT ![c] = Free] /\ doubts' = doubts \cup {"torn"}
          /\ UNCHANGED <<scene, pin, pack, world, live, built, backups, unpinned>>
      BY <1>2 DEF StepFails, Return, Go, Resume, Apart, ServerStill
    <2>2. \A d \in Calls : call'[d] = IF d = c THEN Free ELSE call[d]
      BY <2>1 DEF IInv, TypeOK
    <2>3. ~Settled /\ ~Settled'
      BY <1>2, <2>1 DEF Settled, Writing
    <2>4. \A d \in Calls : Shape(call'[d])
      BY <2>2, FreeFits DEF FitInv, FitsFree
    <2>5. Clear' => Clear
      BY <2>1 DEF Clear
    <2>6. ASSUME FitNow PROVE FitNow'
      <3>1. world' <= pin' /\ (live' => world' <= built')
        BY <2>1, <2>6 DEF FitNow
      <3>2. Free.pc # "pack"
        BY DEF Free
      <3>3. \A b \in Kept' : Below(b)'
        BY <2>1, <2>2, <2>3, <2>6, <3>2 DEF FitNow, Kept, Below
      <3>4. ASSUME NEW d \in Calls
            PROVE  Fits(call'[d], pin, pack.previous, world, backups)
                   /\ Undisturbed(call'[d], Settled, live)
        BY <2>2, <2>6, FreeFits DEF FitNow, FitsFree
      <3>5. \A d \in Calls : Undisturbed(call'[d], Settled', live')
        BY <2>1, <2>3, <3>4 DEF Undisturbed
      <3> QED BY <2>1, <3>1, <3>3, <3>4, <3>5 DEF FitNow
    <2> QED BY <2>4, <2>5, <2>6 DEF FitInv
  <1> QED BY <1>1, <1>2

\* The backup of an upgrade holds the world, which is not newer than the pin.
LEMMA BackupFits ==
  ASSUME IInv, FitInv, NEW c \in Calls, Backup(c)
  PROVE  FitInv'
  <1> DEFINE n == Len(backups) + 1
             Q(b) == [At(call[c], "stop") EXCEPT !.backup = b]
             t == Q(n)
  <1>1. /\ call[c] \in CallRecords /\ call[c].pc = "backup" /\ call[c].kind = "upgrade"
        /\ Len(backups) \in Nat /\ call \in [Calls -> CallRecords]
    BY CallFacts DEF Backup, FitInv, Shape, IInv, TypeOK, CallRecords
  <1>2. ASSUME NEW b
        PROVE  /\ Q(b).kind = "upgrade" /\ Q(b).pc = "stop" /\ Q(b).target = call[c].target
               /\ (Q(b).alone <=> call[c].alone) /\ Q(b).backup = b
    BY <1>1 DEF At, CallRecords
  <1>3. /\ call' = [call EXCEPT ![c] = t]
        /\ UNCHANGED <<scene, pin, pack, world, live, built, doubts>>
        /\ backups' = Append(backups, world) /\ unpinned' = unpinned \cup {n}
    BY DEF Backup, Go, Resume, Apart, ServerStill
  <1> HIDE DEF Q
  <1>4. /\ t.kind = "upgrade" /\ t.pc = "stop" /\ t.target = call[c].target
        /\ (t.alone <=> call[c].alone) /\ t.backup = n
    BY <1>2
  <1> HIDE DEF t
  <1>5. \A d \in Calls : call'[d] = IF d = c THEN t ELSE call[d]
    BY <1>1, <1>3
  <1>6. /\ backups \in Seq(Versions \cup {None}) /\ world \in Versions \cup {None}
    BY DEF IInv, TypeOK
  <1>7. /\ Len(backups') = n
        /\ \A i \in 1..Len(backups) : backups'[i] = backups[i]
        /\ backups'[n] = world
    BY <1>1, <1>3, <1>6, AppendProperties
  <1>8. Kept' = Kept
    BY <1>1, <1>3, <1>7 DEF Kept
  <1>9. Settled' <=> Settled
    BY <1>1, <1>3, <1>4, <1>5 DEF Settled, Writing
  <1>10. \A d \in Calls : Shape(call'[d])
    BY <1>4, <1>5 DEF FitInv, Shape, Kinds
  <1>11. Clear' => Clear
    BY <1>3 DEF Clear
  <1>12. ASSUME FitNow PROVE FitNow'
    <2>1. world' <= pin' /\ (live' => world' <= built')
      BY <1>3, <1>12 DEF FitNow
    <2>2. ASSUME NEW b \in Kept' PROVE Below(b)'
      <3>1. backups'[b] = backups[b] /\ Below(b)
        BY <1>7, <1>8, <1>12 DEF Kept, FitNow
      <3> QED BY <1>1, <1>3, <1>4, <1>5, <1>9, <3>1 DEF Below
    <2>3. ASSUME NEW d \in Calls
          PROVE  Fits(call'[d], pin, pack.previous, world, backups')
                 /\ Undisturbed(call'[d], Settled, live)
      <3>1. Fits(call[d], pin, pack.previous, world, backups) /\ Undisturbed(call[d], Settled, live)
        BY <1>12 DEF FitNow
      <3>2. CASE d = c
        <4>1. ~Returning(t) /\ ~Wiped(t) /\ Climbing(call[c])
          BY <1>1, <1>4 DEF Returning, Wiped, Climbing
        <4>2. Undisturbed(t, Settled, live)
          BY <1>4, <4>1 DEF Undisturbed
        <4>3. backups'[t.backup] <= pin
          BY <1>4, <1>7, <1>12 DEF FitNow
        <4>4. t.alone => t.target > pin
          BY <1>4, <3>1, <3>2, <4>1 DEF Fits
        <4>5. Fits(t, pin, pack.previous, world, backups')
          BY <1>4, <4>1, <4>3, <4>4 DEF Fits
        <4> QED BY <1>5, <3>2, <4>2, <4>5
      <3>3. CASE d # c
        <4>1. call'[d] = call[d] /\ call[d] \in CallRecords /\ call[d].backup <= Len(backups)
          BY <1>1, <1>5, <3>3 DEF IInv, AllReady, Ready
        <4>2. call[d].backup # None => backups'[call[d].backup] = backups[call[d].backup]
          <5>1. call[d].backup \in Nat
            BY <4>1 DEF CallRecords
          <5> QED BY <1>1, <1>7, <4>1, <5>1 DEF None
        <4> QED BY <3>1, <4>1, <4>2 DEF Fits, Saving
      <3> QED BY <3>2, <3>3
    <2>4. \A d \in Calls : Undisturbed(call'[d], Settled', live')
      BY <1>3, <1>9, <2>3 DEF Undisturbed
    <2> QED BY <1>3, <2>1, <2>2, <2>3, <2>4 DEF FitNow
  <1> QED BY <1>10, <1>11, <1>12 DEF FitInv

\* A backup of no upgrade is not a kept one.
LEMMA UserBackupFits ==
  ASSUME IInv, FitInv, UserBackup
  PROVE  FitInv'
  <1> DEFINE n == Len(backups) + 1
  <1>1. /\ call \in [Calls -> CallRecords] /\ Len(backups) \in Nat
        /\ backups \in Seq(Versions \cup {None}) /\ world \in Versions \cup {None}
    BY LenProperties DEF IInv, TypeOK, CallRecords
  <1>2. /\ UNCHANGED <<scene, pin, pack, world, live, built, call, doubts>>
        /\ backups' = Append(backups, world) /\ unpinned' = unpinned \cup {n}
    BY DEF UserBackup, ServerStill
  <1>3. Len(backups') = n /\ \A i \in 1..Len(backups) : backups'[i] = backups[i]
    BY <1>1, <1>2, AppendProperties
  <1>4. Kept' = Kept
    BY <1>1, <1>2, <1>3 DEF Kept
  <1>5. ASSUME FitNow PROVE FitNow'
    <2>1. ASSUME NEW b \in Kept' PROVE Below(b)'
      <3>1. backups'[b] = backups[b] /\ Below(b)
        BY <1>3, <1>4, <1>5 DEF Kept, FitNow
      <3> QED BY <1>2, <3>1 DEF Below, Settled, Writing
    <2>2. ASSUME NEW d \in Calls
          PROVE  Fits(call[d], pin, pack.previous, world, backups')
      <3>1. Fits(call[d], pin, pack.previous, world, backups)
        BY <1>5 DEF FitNow
      <3>2. call[d].backup \in Nat /\ call[d].backup <= Len(backups)
        BY CallFacts DEF CallRecords, Ready
      <3>3. call[d].backup # None => backups'[call[d].backup] = backups[call[d].backup]
        BY <1>1, <1>3, <3>2 DEF None
      <3> QED BY <3>1, <3>3 DEF Fits, Saving
    <2> QED BY <1>2, <1>5, <2>1, <2>2 DEF FitNow, Settled, Writing
  <1> QED BY <1>2, <1>5 DEF FitInv, Clear

\* An edit of the environment is a doubt of its own.
LEMMA EditEnvFits ==
  ASSUME FitInv, NEW v \in Versions, EditEnv(v)
  PROVE  FitInv'
  BY DEF EditEnv, FitInv, Clear

\* The world of no version is older than any.
LEMMA LookFits ==
  ASSUME IInv, FitInv, NEW c \in Calls, Look(c)
  PROVE  FitInv'
  <1> DEFINE t == At(call[c], "extract")
  <1>1. /\ call[c] \in CallRecords /\ call[c].pc = "look" /\ call[c].kind = "rollback"
        /\ call \in [Calls -> CallRecords] /\ ~live
    BY CallFacts DEF Look, LooksStopped, FitInv, Shape, IInv, TypeOK, CallRecords
  <1>2. t.pc = "extract" /\ t.kind = "rollback" /\ t.target = call[c].target
        /\ (t.alone <=> call[c].alone)
    BY <1>1 DEF At, CallRecords
  <1>3. /\ call' = [call EXCEPT ![c] = t] /\ world' = None
        /\ UNCHANGED <<scene, pin, pack, live, built, backups, unpinned, doubts>>
    BY DEF Look, Go, Resume
  <1> HIDE DEF t
  <1>4. \A d \in Calls : call'[d] = IF d = c THEN t ELSE call[d]
    BY <1>1, <1>3
  <1>5. Settled' <=> Settled
    BY <1>1, <1>2, <1>3, <1>4 DEF Settled, Writing
  <1>6. \A d \in Calls : Shape(call'[d])
    BY <1>2, <1>4 DEF FitInv, Shape, Kinds
  <1>7. Clear' => Clear
    BY <1>3 DEF Clear
  <1>8. ASSUME FitNow PROVE FitNow'
    <2>1. world' <= pin' /\ (live' => world' <= built')
      BY <1>1, <1>3 DEF IInv, TypeOK, Versions, None
    <2>2. \A b \in Kept' : Below(b)'
      BY <1>2, <1>3, <1>4, <1>5, <1>8 DEF Kept, FitNow, Below
    <2>3. ASSUME NEW d \in Calls
          PROVE  Fits(call'[d], pin, pack.previous, world', backups)
                 /\ Undisturbed(call'[d], Settled, live)
      <3>1. Fits(call[d], pin, pack.previous, world, backups) /\ Undisturbed(call[d], Settled, live)
        BY <1>8 DEF FitNow
      <3>2. CASE d = c
        <4>1. ~Climbing(t) /\ ~Saving(t) /\ Returning(t) /\ Returning(call[c])
          BY <1>1, <1>2 DEF Climbing, Saving, Returning
        <4>2. world' <= t.target
          <5>1. t.target \in Nat
            BY <1>1, <1>2 DEF CallRecords, Versions, None
          <5> QED BY <1>3, <5>1 DEF None
        <4>3. t.alone => t.target = pack.previous /\ Settled
          BY <1>2, <3>1, <3>2, <4>1 DEF Fits, Undisturbed
        <4>4. Fits(t, pin, pack.previous, world', backups)
          BY <1>2, <4>1, <4>2, <4>3 DEF Fits
        <4>5. Undisturbed(t, Settled, live)
          BY <1>1, <4>3 DEF Undisturbed
        <4> QED BY <1>4, <3>2, <4>4, <4>5
      <3>3. CASE d # c
        <4>1. call'[d] = call[d] /\ call[d].target \in Nat
          BY <1>1, <1>4, <3>3 DEF CallRecords, Versions, None
        <4>2. world' <= call[d].target
          BY <1>3, <4>1 DEF None
        <4> QED BY <3>1, <4>1, <4>2 DEF Fits
      <3> QED BY <3>2, <3>3
    <2>4. \A d \in Calls : Undisturbed(call'[d], Settled', live')
      BY <1>3, <1>5, <2>3 DEF Undisturbed
    <2> QED BY <1>3, <2>1, <2>2, <2>3, <2>4 DEF FitNow
  <1> QED BY <1>6, <1>7, <1>8 DEF FitInv

\* What a rollback brings back is a kept backup, which is not newer than the
\* version that any undisturbed rollback returns to; the server is down.
LEMMA ExtractFits ==
  ASSUME IInv, FitInv, NEW c \in Calls, Extract(c)
  PROVE  FitInv'
  <1> DEFINE r == call[c]
             t == At(r, "resolve")
  <1>1. /\ r \in CallRecords /\ r.pc = "extract" /\ r.kind = "rollback"
        /\ call \in [Calls -> CallRecords] /\ Ready(r, Len(backups)) /\ Len(backups) \in Nat
    BY CallFacts DEF Extract, FitInv, Shape, IInv, TypeOK, CallRecords
  <1>2. t.pc = "resolve" /\ t.kind = "rollback" /\ t.target = r.target
        /\ (t.alone <=> r.alone) /\ t.backup = r.backup
    BY <1>1 DEF At, CallRecords
  <1>3. /\ call' = [call EXCEPT ![c] = t] /\ world' = MaxOf(world, backups[r.backup])
        /\ UNCHANGED <<scene, pin, pack, live, built, backups, unpinned>>
        /\ doubts' = IF r.backup \in unpinned THEN doubts \cup {"stray"} ELSE doubts
    BY DEF Extract, Go, Resume
  <1> HIDE DEF t
  <1>4. \A d \in Calls : call'[d] = IF d = c THEN t ELSE call[d]
    BY <1>1, <1>3
  <1>5. Settled' <=> Settled
    BY <1>1, <1>2, <1>3, <1>4 DEF Settled, Writing
  <1>6. \A d \in Calls : Shape(call'[d])
    BY <1>2, <1>4 DEF FitInv, Shape, Kinds
  <1>7. Clear' => Clear
    BY <1>3 DEF Clear
  <1>8. ASSUME FitNow, Clear' PROVE FitNow'
    <2>1. r.backup \notin unpinned
      BY <1>3, <1>8 DEF Clear
    <2>2. r.backup \in Kept /\ r.backup # None
      <3>1. r.backup \in Nat /\ r.backup <= Len(backups) /\ r.backup # 0
        BY <1>1 DEF CallRecords, Ready, None
      <3> QED BY <1>1, <2>1, <3>1 DEF Kept, None
    <2>3. Below(r.backup)
      BY <1>8, <2>2 DEF FitNow
    <2>4. ~live
      <3>1. Wiped(r) /\ Undisturbed(r, Settled, live)
        BY <1>1, <1>8, <2>2 DEF Wiped, FitNow
      <3> QED BY <3>1 DEF Undisturbed
    <2>5. world \in Nat /\ backups[r.backup] \in Nat
      <3>1. r.backup \in 1..Len(backups)
        BY <2>2 DEF Kept
      <3> QED BY <3>1, ElementOfSeq DEF IInv, TypeOK, Versions, None
    <2>6. \A n : world <= n /\ backups[r.backup] <= n => world' <= n
      BY <1>3 DEF MaxOf
    <2>7. world' <= pin' /\ (live' => world' <= built')
      BY <1>3, <1>8, <2>3, <2>4, <2>6 DEF FitNow, Below
    <2>8. \A b \in Kept' : Below(b)'
      BY <1>2, <1>3, <1>4, <1>5, <1>8 DEF Kept, FitNow, Below
    <2>9. ASSUME NEW d \in Calls
          PROVE  Fits(call'[d], pin, pack.previous, world', backups)
                 /\ Undisturbed(call'[d], Settled, live)
      <3>1. Fits(call[d], pin, pack.previous, world, backups) /\ Undisturbed(call[d], Settled, live)
        BY <1>8 DEF FitNow
      <3>2. ASSUME call[d].alone, Wiped(call[d]) PROVE world' <= call[d].target
        <4>1. Returning(call[d])
          BY <3>2 DEF Wiped, Returning
        <4>2. call[d].target = pack.previous /\ Settled /\ world <= call[d].target
          BY <3>1, <3>2, <4>1 DEF Fits, Undisturbed
        <4>3. backups[r.backup] <= pack.previous
          BY <2>3, <4>2 DEF Below
        <4> QED BY <2>6, <4>2, <4>3
      <3>3. Fits(call[d], pin, pack.previous, world', backups)
        BY <3>1, <3>2 DEF Fits
      <3>4. CASE d = c
        <4>1. Returning(r) /\ ~Climbing(t) /\ Returning(t)
          BY <1>1, <1>2 DEF Returning, Climbing
        <4>2. Wiped(t) => Wiped(r)
          BY <1>1, <1>2 DEF Wiped
        <4>3. Fits(t, pin, pack.previous, world', backups)
          BY <1>2, <3>3, <3>4, <4>1, <4>2 DEF Fits, Saving
        <4>4. Undisturbed(t, Settled, live)
          BY <1>2, <3>1, <3>4, <4>1, <4>2 DEF Undisturbed
        <4> QED BY <1>4, <3>4, <4>3, <4>4
      <3> QED BY <1>4, <3>1, <3>3, <3>4
    <2>10. \A d \in Calls : Undisturbed(call'[d], Settled', live')
      BY <1>3, <1>5, <2>9 DEF Undisturbed
    <2> QED BY <1>3, <2>7, <2>8, <2>9, <2>10 DEF FitNow
  <1> QED BY <1>6, <1>7, <1>8 DEF FitInv

\* The row's version changes: upwards, or back to that of the pack table.  All
\* others have been written across.
LEMMA WriteRowFits ==
  ASSUME IInv, FitInv, NEW c \in Calls, WriteRow(c)
  PROVE  FitInv'
  <1> DEFINE r == call[c]
             t == At(r, "pack")
  <1>1. /\ r \in CallRecords /\ r.pc = "row" /\ r.kind \in Kinds
        /\ call \in [Calls -> CallRecords] /\ Len(backups) \in Nat
        /\ Ready(r, Len(backups))
    BY CallFacts DEF WriteRow, FitInv, Shape, IInv, TypeOK, CallRecords
  <1>2. t.pc = "pack" /\ t.kind = r.kind /\ t.previous = r.previous
    BY <1>1 DEF At, CallRecords
  <1>3. /\ \A d \in Calls : call'[d] = IF d = c THEN t
                                       ELSE IF call[d].pc = "idle" THEN call[d]
                                       ELSE [call[d] EXCEPT !.alone = FALSE]
        /\ pin' = r.target
        /\ unpinned' = IF r.kind = "upgrade" THEN unpinned \ {r.backup} ELSE unpinned
        /\ UNCHANGED <<scene, pack, world, live, built, backups>>
        /\ doubts \subseteq doubts'
        /\ ~r.alone => "stale" \in doubts'
        /\ r.kind = "rollback" /\ r.backup = None => "bare" \in doubts'
    BY DEF WriteRow
  <1> HIDE DEF t
  <1>4. ASSUME NEW d \in Calls, d # c
        PROVE  /\ call'[d].pc = call[d].pc /\ call'[d].kind = call[d].kind
               /\ call'[d].backup = call[d].backup
               /\ call[d].pc # "idle" => ~call'[d].alone
    <2>1. call[d] \in CallRecords
      BY <1>1
    <2>2. CASE call[d].pc = "idle"
      <3>1. call'[d] = call[d]
        BY <1>3, <1>4, <2>2
      <3> QED BY <2>2, <3>1
    <2>3. CASE call[d].pc # "idle"
      <3>1. call'[d] = [call[d] EXCEPT !.alone = FALSE]
        BY <1>3, <1>4, <2>3
      <3> QED BY <2>1, <2>3, <3>1 DEF CallRecords
    <2> QED BY <2>2, <2>3
  <1>5. \A d \in Calls : Shape(call'[d])
    <2>1. \A d \in Calls : Shape(call[d])
      BY DEF FitInv
    <2>2. Shape(t)
      BY <1>1, <1>2 DEF Shape
    <2>3. ASSUME NEW d \in Calls, d # c PROVE Shape(call'[d])
      BY <1>4, <2>1, <2>3 DEF Shape
    <2> QED BY <1>3, <2>2, <2>3
  <1>6. Clear' => Clear
    BY <1>3 DEF Clear
  <1>7. ASSUME FitNow, Clear' PROVE FitNow'
    <2>1. r.alone /\ (r.kind = "rollback" => r.backup # None)
      BY <1>3, <1>7 DEF Clear
    <2>2. Fits(r, pin, pack.previous, world, backups) /\ Undisturbed(r, Settled, live)
      BY <1>7 DEF FitNow
    <2>3. Settled /\ r.previous = pin
      BY <1>1, <2>1, <2>2 DEF Fits, Undisturbed
    <2>4. ~Settled'
      BY <1>2, <1>3 DEF Settled, Writing
    <2>5. \A d \in Calls : call'[d].pc = "pack" => d = c
      BY <1>4, <2>3 DEF Settled, Writing
    <2>6. CASE r.kind \in {"apply", "upgrade"}
      <3>1. Climbing(r)
        BY <1>1, <2>6 DEF Climbing
      <3>2. pin' > pin
        BY <1>3, <2>1, <2>2, <3>1 DEF Fits
      <3>3. pin \in Nat /\ pin' \in Nat /\ world \in Nat
        BY <1>1, <1>3 DEF IInv, TypeOK, CallRecords, Versions, None
      <3>4. world' <= pin' /\ (live' => world' <= built')
        BY <1>3, <1>7, <3>2, <3>3 DEF FitNow
      <3>5. ASSUME NEW b \in Kept' PROVE backups[b] <= pin
        <4>1. CASE b \in Kept
          BY <1>7, <4>1 DEF FitNow, Below
        <4>2. CASE b \notin Kept
          <5>1. b = r.backup /\ r.kind = "upgrade" /\ b \in 1..Len(backups)
            BY <1>3, <4>2 DEF Kept
          <5>2. Saving(r)
            BY <3>1, <5>1 DEF Saving, None
          <5> QED BY <2>1, <2>2, <5>1, <5>2 DEF Fits
        <4> QED BY <4>1, <4>2
      <3>6. ASSUME NEW b \in Kept' PROVE Below(b)'
        <4>1. backups[b] \in Nat
          <5>1. b \in 1..Len(backups)
            BY <1>3 DEF Kept
          <5> QED BY <5>1, ElementOfSeq DEF IInv, TypeOK, Versions, None
        <4>2. backups'[b] <= pin'
          BY <1>3, <3>2, <3>3, <3>5, <4>1
        <4>3. \A d \in Calls : call'[d].pc = "pack" => backups'[b] <= call'[d].previous
          BY <1>2, <1>3, <2>3, <2>5, <3>5
        <4> QED BY <2>4, <4>2, <4>3 DEF Below
      <3> QED BY <1>1, <1>2, <1>3, <1>4, <1>7, <2>4, <3>4, <3>6
             DEF FitNow, Fits, Undisturbed, Climbing, Saving, Returning, Wiped
    <2>7. CASE r.kind = "rollback"
      <3>1. Returning(r) /\ Wiped(r)
        BY <1>1, <2>1, <2>7 DEF Returning, Wiped
      <3>2. pin' = pack.previous /\ world <= pin' /\ ~live
        BY <1>3, <2>1, <2>2, <3>1 DEF Fits, Undisturbed
      <3>3. world' <= pin' /\ (live' => world' <= built')
        BY <1>3, <3>2
      <3>4. ASSUME NEW b \in Kept' PROVE Below(b)'
        <4>1. b \in Kept
          BY <1>3, <2>7 DEF Kept
        <4>2. backups[b] <= pin /\ backups[b] <= pack.previous
          BY <1>7, <2>3, <4>1 DEF FitNow, Below
        <4>3. \A d \in Calls : call'[d].pc = "pack" => backups'[b] <= call'[d].previous
          BY <1>2, <1>3, <2>3, <2>5, <4>2
        <4> QED BY <1>3, <2>4, <3>2, <4>2, <4>3 DEF Below
      <3> QED BY <1>1, <1>2, <1>3, <1>4, <1>7, <2>4, <3>2, <3>3, <3>4
             DEF FitNow, Fits, Undisturbed, Climbing, Saving, Returning, Wiped
    <2> QED BY <1>1, <2>6, <2>7 DEF Kinds
  <1> QED BY <1>5, <1>6, <1>7 DEF FitInv

\* The version that the row has replaced is the one to go back to.
LEMMA WritePackFits ==
  ASSUME IInv, FitInv, NEW c \in Calls, WritePack(c)
  PROVE  FitInv'
  <1> DEFINE r == call[c]
             t == IF r.kind = "apply" THEN Free ELSE At(r, "recreate")
  <1>1. /\ r \in CallRecords /\ r.pc = "pack" /\ Shape(r)
        /\ call \in [Calls -> CallRecords]
    BY CallFacts DEF WritePack, FitInv, IInv, TypeOK, CallRecords
  <1>2. /\ call' = [call EXCEPT ![c] = t] /\ pack'.previous = r.previous
        /\ UNCHANGED <<scene, pin, world, live, built, backups, unpinned>>
        /\ doubts \subseteq doubts' \cup {"torn"}
    BY DEF WritePack, Go, Resume, Recorded, Apart, ServerStill
  <1>3. /\ t.pc # "pack" /\ Shape(t) /\ ~Climbing(t) /\ ~Returning(t) /\ ~Wiped(t) /\ t.pc # "row"
    <2>1. CASE r.kind = "apply"
      BY <2>1, FreeFits DEF FitsFree, Free, Climbing, Returning, Wiped
    <2>2. CASE r.kind # "apply"
      BY <1>1, <2>2 DEF At, CallRecords, Shape, Climbing, Returning, Wiped
    <2> QED BY <2>1, <2>2
  <1> HIDE DEF t
  <1>4. \A d \in Calls : call'[d] = IF d = c THEN t ELSE call[d]
    BY <1>1, <1>2
  <1>5. \A d \in Calls : Shape(call'[d])
    BY <1>3, <1>4 DEF FitInv
  <1>6. Clear' => Clear
    BY <1>2 DEF Clear
  <1>7. ASSUME FitNow PROVE FitNow'
    <2>1. world' <= pin' /\ (live' => world' <= built')
      BY <1>2, <1>7 DEF FitNow
    <2>2. ASSUME NEW b \in Kept' PROVE Below(b)'
      <3>1. Below(b)
        BY <1>2, <1>7 DEF Kept, FitNow
      <3> QED BY <1>1, <1>2, <1>3, <1>4, <3>1 DEF Below
    <2>3. ~Settled
      BY <1>1 DEF Settled, Writing
    <2>4. ASSUME NEW d \in Calls
          PROVE  Fits(call'[d], pin, pack'.previous, world, backups)
                 /\ Undisturbed(call'[d], Settled', live)
      <3>1. CASE d = c
        BY <1>3, <1>4, <3>1 DEF Fits, Undisturbed, Saving
      <3>2. CASE d # c
        <4>1. Fits(call[d], pin, pack.previous, world, backups)
              /\ Undisturbed(call[d], Settled, live)
          BY <1>7 DEF FitNow
        <4>2. ~(call[d].alone /\ (call[d].pc = "row" \/ Returning(call[d])))
          BY <2>3, <4>1 DEF Undisturbed
        <4>3. call'[d] = call[d]
          BY <1>4, <3>2
        <4> QED BY <4>1, <4>2, <4>3 DEF Fits, Undisturbed
      <3> QED BY <3>1, <3>2
    <2> QED BY <1>2, <2>1, <2>2, <2>4 DEF FitNow
  <1> QED BY <1>5, <1>6, <1>7 DEF FitInv

\* An operation of the guard is over, and leaves the world no newer than the
\* pin and than what runs.
LEMMA OverFits ==
  ASSUME IInv, FitInv, NEW calls, call' = calls, DOMAIN calls = Calls,
         \A d \in Calls : calls[d] = call[d]
                          \/ (call[d].pc \in OpSteps /\ Goes(call[d], calls[d])),
         UNCHANGED <<scene, pin, pack, backups, unpinned>>, doubts \subseteq doubts',
         "torn" \in doubts' <=> "torn" \in doubts,
         Clear' /\ FitNow =>
           \/ world' = world /\ (live' => live /\ built' = built)
           \/ world' <= pin /\ world' <= built' /\ \A d \in Calls : ~Wiped(call[d])
  PROVE  FitInv'
  <1>1. call \in [Calls -> CallRecords]
    BY DEF IInv, TypeOK, CallRecords
  <1>2. ASSUME NEW d \in Calls
        PROVE  /\ Shape(calls[d])
               /\ calls[d].pc = "pack" <=> call[d].pc = "pack"
               /\ calls[d].pc = "pack" => calls[d] = call[d]
               /\ Wiped(calls[d]) => calls[d] = call[d]
               /\ \A p, q, w, bs : Fits(call[d], p, q, w, bs) => Fits(calls[d], p, q, w, bs)
               /\ \A settled, l : Undisturbed(call[d], settled, l)
                                    => Undisturbed(calls[d], settled, l)
    <2>1. CASE calls[d] = call[d]
      BY <2>1 DEF FitInv
    <2>2. CASE call[d].pc \in OpSteps /\ Goes(call[d], calls[d])
      BY <1>1, <2>2, GoesFits DEF OpSteps
    <2> QED BY <2>1, <2>2
  <1>3. Settled' <=> Settled
    <2>1. Writing(Calls)' <=> Writing(Calls)
      BY <1>2 DEF Writing
    <2> QED BY <2>1 DEF Settled
  <1>4. Clear' => Clear
    BY DEF Clear
  <1>5. ASSUME FitNow, Clear' PROVE FitNow'
    <2>1. \/ world' = world /\ (live' => live /\ built' = built)
          \/ world' <= pin /\ world' <= built' /\ \A d \in Calls : ~Wiped(call[d])
      BY <1>5
    <2>2. world' <= pin' /\ (live' => world' <= built')
      BY <1>5, <2>1 DEF FitNow
    <2>3. ASSUME NEW b \in Kept' PROVE Below(b)'
      <3>1. Below(b)
        BY <1>5 DEF Kept, FitNow
      <3> QED BY <1>2, <1>3, <3>1 DEF Below
    <2>4. ASSUME NEW d \in Calls
          PROVE  Fits(calls[d], pin, pack.previous, world', backups)
                 /\ Undisturbed(calls[d], Settled, live')
      <3>1. Fits(calls[d], pin, pack.previous, world, backups)
            /\ Undisturbed(calls[d], Settled, live)
        BY <1>2, <1>5 DEF FitNow
      <3>2. Wiped(calls[d]) => world' = world /\ (live' => live)
        BY <1>2, <2>1
      <3> QED BY <3>1, <3>2 DEF Fits, Undisturbed
    <2>5. \A d \in Calls : Undisturbed(call'[d], Settled', live')
      BY <1>3, <2>4 DEF Undisturbed
    <2> QED BY <2>2, <2>3, <2>4, <2>5 DEF FitNow
  <1> QED BY <1>2, <1>4, <1>5 DEF FitInv

\* The container comes up with the pinned version, where no start mixed with a
\* rollback, so that the world grows no newer than the pin.
LEMMA OpEndsFits ==
  ASSUME IInv, FitInv, OpEnds
  PROVE  FitInv'
  <1> DEFINE calls == [c \in Calls |-> IF c \in op.by THEN After(call[c]) ELSE call[c]]
             up == op.kind = "start" \/ (op.kind = "recreate" /\ live)
             v == IF op.rebuild THEN op.pin ELSE built
  <1>1. \A c \in op.by : call[c].pc \in OpSteps
    BY DEF IInv, Carried
  <1>2. /\ call' = calls /\ UNCHANGED <<scene, pin, pack, backups, unpinned>>
        /\ built' = (IF op.kind = "stop" THEN built ELSE v)
        /\ live' = up
        /\ IF up THEN Boots(v) ELSE UNCHANGED <<world, doubts>>
    BY DEF OpEnds, Resume, RestStill
  <1>3. \A d \in Calls : calls[d] = call[d]
                         \/ (call[d].pc \in OpSteps /\ Goes(call[d], calls[d]))
    BY <1>1, CallFacts, AfterGoes DEF FitInv
  <1>4. doubts' = doubts \/ doubts' = doubts \cup {"mixed"}
    BY <1>2, Zenon DEF Boots
  <1>5. ASSUME Clear', FitNow, up
        PROVE  world' <= pin /\ world' <= built' /\ \A d \in Calls : ~Wiped(call[d])
    <2>1. Boots(v)
      BY <1>2, <1>5
    <2>2. v = pin /\ ~\E c \in Calls : Undoing(c)
      <3>1. "mixed" \notin doubts'
        BY <1>5 DEF Clear
      <3> QED BY <2>1, <3>1 DEF Boots
    <2>3. \A d \in Calls : ~Wiped(call[d])
      BY <2>2 DEF Undoing, Wiped
    <2>4. op.kind # "stop"
      BY <1>5
    <2>5. built' = pin
      BY <1>2, <2>2, <2>4
    <2>6. world' <= pin
      <3>1. world \in Nat /\ pin \in Nat /\ world <= pin
        BY <1>5 DEF FitNow, IInv, TypeOK, Versions, None
      <3>2. world' = MaxOf(world, pin)
        BY <2>1, <2>2 DEF Boots
      <3> QED BY <3>1, <3>2 DEF MaxOf
    <2> QED BY <2>3, <2>5, <2>6
  <1>6. CASE up
    <2>1. DOMAIN calls = Calls
      OBVIOUS
    <2> HIDE DEF calls, up, v
    <2> QED BY <1>2, <1>3, <1>4, <1>5, <1>6, <2>1, OverFits
  <1>7. CASE ~up
    <2>1. DOMAIN calls = Calls
      OBVIOUS
    <2>2. ~live' /\ UNCHANGED <<world, doubts>>
      BY <1>2, <1>7
    <2> HIDE DEF calls, up, v
    <2> QED BY <1>2, <1>3, <2>1, <2>2, OverFits
  <1> QED BY <1>6, <1>7

LEMMA OpFailsFits ==
  ASSUME IInv, FitInv, OpFails
  PROVE  FitInv'
  <1> DEFINE calls == [c \in Calls |-> IF c \in op.by THEN AfterFailure(call[c]) ELSE call[c]]
  <1>1. \A c \in op.by : call[c].pc \in OpSteps
    BY DEF IInv, Carried
  <1>2. /\ call' = calls /\ UNCHANGED <<scene, pin, pack, backups, unpinned, doubts>>
        /\ world' = world /\ (live' => live /\ built' = built)
    BY DEF OpFails, Resume, RestStill, ServerStill
  <1>3. \A d \in Calls : calls[d] = call[d]
                         \/ (call[d].pc \in OpSteps /\ Goes(call[d], calls[d]))
    BY <1>1, CallFacts, AfterGoes DEF FitInv
  <1>4. DOMAIN calls = Calls
    OBVIOUS
  <1> HIDE DEF calls
  <1> QED BY <1>2, <1>3, <1>4, OverFits

LEMMA ExitsFits ==
  ASSUME IInv, FitInv, Exits
  PROVE  FitInv'
  <1>1. DOMAIN call = Calls
    BY DEF IInv, TypeOK
  <1> QED BY <1>1, OverFits DEF Exits, RestStill

LEMMA StepFits == ASSUME IInv, FitInv, NEW c \in Calls, Step(c) PROVE FitInv'
  <1>1. RequestOperates(c) => FitInv'
    BY EntryFits DEF RequestOperates
  <1> QED
    BY <1>1, RefusedFits, SkippedFits, ReadForUpgradeFits, ReadForRollbackFits, ResolveFits,
       BackupFits, LookFits, LooksLiveFits, ExtractFits, ReadPreviousFits, WriteRowFits,
       WritePackFits, MonitorFits, OverlayFits, StepFailsFits
       DEF Step

LEMMA InitFits == Init => FitInv
  <1> SUFFICES ASSUME Init PROVE FitInv
    OBVIOUS
  <1> USE DEF Init
  <1>1. \A c \in Calls : call[c] = Free
    OBVIOUS
  <1>2. Kept = {}
    <2>1. Len(backups) = 0
      BY EmptySeq
    <2> QED BY <2>1 DEF Kept
  <1> QED BY <1>1, <1>2, FreeFits DEF FitInv, FitNow, FitsFree

LEMMA NextFits == IInv /\ FitInv /\ [Next]_packVars => FitInv'
  <1> SUFFICES ASSUME IInv, FitInv, [Next]_packVars PROVE FitInv'
    OBVIOUS
  <1>1. ASSUME NEW kind \in {"start", "stop", "recreate"}, UserOperates(kind) PROVE FitInv'
    BY <1>1, EntryFits DEF UserOperates
  <1>2. CASE OpEnds
    BY <1>2, OpEndsFits
  <1>3. CASE OpFails
    BY <1>3, OpFailsFits
  <1>4. CASE Exits \/ UserBackup \/ \E v \in Versions : EditEnv(v)
    BY <1>4, ExitsFits, UserBackupFits, EditEnvFits
  <1>5. ASSUME NEW c \in Calls, Step(c) \/ \E b \in Choices : RollbackPack(c, b) PROVE FitInv'
    BY <1>5, StepFits, RollbackFits
  <1>6. ASSUME NEW c \in Calls, NEW v \in Versions,
               ApplyToServer(c, v) \/ \E skip \in BOOLEAN : UpgradePack(c, v, skip)
        PROVE  FitInv'
    BY <1>6, ApplyFits, UpgradeFits
  <1>7. CASE UNCHANGED packVars
    BY <1>7 DEF packVars, FitInv, Clear, FitNow, Below, Kept, Settled, Writing
  <1> QED BY <1>1, <1>2, <1>3, <1>4, <1>5, <1>6, <1>7 DEF Next

\* docs/updates.md, "an upgrade is always reversible": where versions only go up
\* and every upgrade makes its backup, no server runs a version older than one
\* that has run its world, whatever requests, users' starts and failures come
\* between, but for the cases that WorldFitsPack names.
THEOREM UpgradesAreReversible == Spec => []WorldFitsPack
  <1>1. FitInv => WorldFitsPack
    BY DEF FitInv, FitNow, Clear, WorldFitsPack
  <1> QED BY <1>1, PackInvariant, InitFits, NextFits, PTL DEF Spec
=============================================================================

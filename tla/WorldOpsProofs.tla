--------------------------- MODULE WorldOpsProofs ---------------------------
(***************************************************************************)
(* The world operations of a server, for any number of requests, names     *)
(* and directories and in every scene: the types, and the five             *)
(* properties of the runs.  Their module's steps are first restated one    *)
(* by one (the ...View lemmas): which request moves, from which step,      *)
(* and what else changes.                                                  *)
(*                                                                         *)
(* What takes a world off a running server (LiveInv, with the two locks    *)
(* in LockInv) and what it takes without a backup (CoverInv) follow from   *)
(* what a request that has looked, or has backed up, may still rely on.    *)
(*                                                                         *)
(* That a directory holds one world (WholeInv) is inductive name by        *)
(* name: a name nobody disturbed is used by one request at a time, which   *)
(* is midway there (Midway), has emptied what it is to fill, or has yet    *)
(* to begin.                                                               *)
(*                                                                         *)
(* That the level has a world (LevelInv) is inductive with what is owed    *)
(* to it: a replacing install between its removal and its placing, and a   *)
(* rename until it has written the new level everywhere (Owes), and with   *)
(* what each request that is to write the level knows of the name it       *)
(* writes.                                                                 *)
(*                                                                         *)
(* The module ends with the refinement: requests take the two locks of the *)
(* server one at a time (OneHolder) and as ServerLocks says.               *)
(***************************************************************************)
EXTENDS WorldOps, FiniteSetTheorems, TLAPS

CallRecords == [op : OpKinds \cup {"none"}, pc : Steps,
                from : Names \cup {NoName}, to : Names \cup {NoName},
                env : Names \cup {NoName}, todo : SUBSET Parts,
                backup : BOOLEAN, upto : 1..MaxWorld + 1,
                beside : SUBSET Calls,
                hit : SUBSET {"start", "inflight", "woken", "blind", "apart"}]

\* Which steps each operation comes to, and the names it has by then.
Shape(r) ==
  /\ r.op = "none" <=> r.pc = "idle"
  /\ r.op = "start" <=> r.pc = "pull"
  /\ r.op = "rename" => r.pc \in {"look", "move", "select", "env"} /\ {r.from, r.to} \subseteq Names
                        /\ r.from # r.to
  /\ r.op = "activate" => r.pc \in {"look", "env"} /\ r.from \in Names
  /\ r.op = "reset" => /\ r.pc \in {"look", "backup", "remove", "env"}
                       /\ r.pc # "look" => r.from \in Names
  /\ r.op = "delete" => r.pc = "remove" /\ r.from \in Names
  /\ r.op = "duplicate" => r.pc = "place" /\ {r.from, r.to} \subseteq Names
  /\ r.op \in {"install", "copy"} =>
       /\ r.pc \in {"look", "check", "backup", "extract", "remove", "place"}
       /\ r.pc # "look" => r.to \in Names
       /\ r.pc \in {"look", "backup", "remove"} => r.backup
       /\ r.pc = "check" => ~r.backup
  /\ r.op \in Editors => r.pc \in {"look", "enter", "recheck", "backup", "edit"} /\ r.from \in Names
  /\ r.op = "shrink" => ~r.backup
  /\ r.pc = "backup" => r.backup
  /\ r.pc \in {"remove", "place", "move", "enter", "recheck", "edit"}
       \/ (r.pc = "backup" /\ r.op \in {"reset", "chunks"}) => r.todo # {}

IInv == TypeOK /\ \A c \in Calls : Shape(call[c])

-----------------------------------------------------------------------------
(* The steps of one request *)

\* Only the request c goes on, in a way that its operation may.
Moves(c) ==
  /\ call' \in [Calls -> CallRecords]
  /\ \A d \in Calls : d # c => call'[d] = call[d]
  /\ Shape(call'[c])

\* The request is the one it was, but for where it is and what it has to do.
Kin(r, t) ==
  /\ t.op = r.op /\ t.from = r.from /\ t.to = r.to /\ t.env = r.env
  /\ (t.backup <=> r.backup) /\ t.upto = r.upto /\ t.beside = r.beside

LEMMA CallFacts ==
  ASSUME IInv, NEW c \in Calls
  PROVE  call \in [Calls -> CallRecords] /\ call[c] \in CallRecords /\ Shape(call[c])
  BY DEF IInv, TypeOK, CallRecords

LEMMA MovesTo ==
  ASSUME IInv, NEW c \in Calls, NEW t \in CallRecords, Shape(t), call' = [call EXCEPT ![c] = t]
  PROVE  Moves(c) /\ call'[c] = t
  BY CallFacts DEF Moves

LEMMA FreeIs ==
  /\ Free \in CallRecords /\ Shape(Free)
  /\ Free.op = "none" /\ Free.pc = "idle" /\ Free.from = NoName /\ Free.to = NoName
  /\ ~Free.backup /\ Free.todo = {} /\ Free.hit = {} /\ Free.beside = {}
  BY NamesAssumption DEF Free, CallRecords, Shape, OpKinds, Steps, Editors

\* A request ends.
LEMMA EndMoves ==
  ASSUME IInv, NEW c \in Calls, Go(c, Free)
  PROVE  Moves(c) /\ call'[c] = Free /\ asked' = asked
  BY FreeIs, MovesTo DEF Go

LEMMA ActiveIs ==
  ASSUME IInv, NEW l \in Names \cup {NoName}
  PROVE  ActiveLevel(l) \in Names /\ ActiveLevel(l) # NoName /\ (l # NoName => ActiveLevel(l) = l)
  BY NamesAssumption DEF IInv, TypeOK, ActiveLevel

LEMMA DimsAre ==
  ASSUME NEW n
  PROVE  /\ Dims(n) \subseteq Parts /\ "main" \in Dims(n) /\ Dims(n) # {}
         /\ disk[n]["wing"] # {} => "wing" \in Dims(n)
  BY DEF Dims, Parts

LEMMA PartIs ==
  ASSUME NEW todo \in SUBSET Parts, todo # {}
  PROVE  Part(todo) \in todo /\ Part(todo) \in Parts /\ ("main" \in todo => Part(todo) = "main")
         /\ (todo # {Part(todo)} => todo \ {Part(todo)} = {"wing"} /\ Part(todo) = "main")
  BY DEF Part, Parts

\* A request begins with the LEVEL of the row, and notes the starts in flight.
LEMMA BeginMoves ==
  ASSUME IInv, NEW c \in Calls, NEW op \in OpKinds, NEW r \in CallRecords, Begin(c, op, r),
         \A t \in CallRecords : /\ t.op = op /\ t.pc = r.pc /\ t.from = r.from /\ t.to = r.to
                                /\ (t.backup <=> r.backup) /\ t.todo = r.todo
                                => Shape(t)
  PROVE  /\ Moves(c) /\ call[c].pc = "idle" /\ asked' \in 0..scene.asks
         /\ call'[c].op = op /\ call'[c].pc = r.pc /\ call'[c].from = r.from
         /\ call'[c].to = r.to /\ (call'[c].backup <=> r.backup) /\ call'[c].todo = r.todo
         /\ call'[c].hit = r.hit /\ call'[c].upto = r.upto /\ call'[c].env = env
         /\ call'[c].beside = {d \in Calls : Starting(d)}
  <1> DEFINE Q(e, b) == [r EXCEPT !.op = op, !.env = e, !.beside = b]
  <1>1. ASSUME NEW e \in Names \cup {NoName}, NEW b \in SUBSET Calls
        PROVE  /\ Q(e, b) \in CallRecords
               /\ Q(e, b).op = op /\ Q(e, b).pc = r.pc /\ Q(e, b).from = r.from
               /\ Q(e, b).to = r.to /\ (Q(e, b).backup <=> r.backup) /\ Q(e, b).todo = r.todo
               /\ Q(e, b).hit = r.hit /\ Q(e, b).upto = r.upto /\ Q(e, b).env = e
               /\ Q(e, b).beside = b
    BY DEF CallRecords
  <1>2. env \in Names \cup {NoName} /\ {d \in Calls : Starting(d)} \in SUBSET Calls
    BY DEF IInv, TypeOK
  <1>3. call' = [call EXCEPT ![c] = Q(env, {d \in Calls : Starting(d)})] /\ call[c].pc = "idle"
    BY DEF Begin
  <1>4. asked' \in 0..scene.asks
    <2>1. scene.asks \in Nat /\ asked \in 0..scene.asks
      BY ScenesAssumption DEF IInv, TypeOK
    <2> QED BY <2>1 DEF Begin
  <1> HIDE DEF Q
  <1>5. Shape(Q(env, {d \in Calls : Starting(d)}))
    BY <1>1, <1>2
  <1> QED BY <1>1, <1>2, <1>3, <1>4, <1>5, MovesTo

\* How a request looks that has just begun.
Fresh(c, op, pc) ==
  /\ call[c].pc = "idle" /\ call[c].op = "none"
  /\ call'[c].op = op /\ call'[c].pc = pc /\ call'[c].env = env
  /\ call'[c].beside = {d \in Calls : Starting(d)}

LEMMA StartView ==
  ASSUME IInv, NEW c \in Calls, StartServer(c)
  PROVE  /\ Moves(c) /\ StandStill /\ asked' \in 0..scene.asks /\ Fresh(c, "start", "pull")
         /\ ~call'[c].backup /\ call'[c].todo = {}
  <1> DEFINE r == [Free EXCEPT !.pc = "pull"]
  <1>1. r \in CallRecords /\ r.pc = "pull" /\ ~r.backup /\ r.todo = {}
    BY FreeIs DEF CallRecords, Steps
  <1>2. Begin(c, "start", r) /\ StandStill
    BY DEF StartServer
  <1> HIDE DEF r
  <1>3. \A t \in CallRecords : t.op = "start" /\ t.pc = "pull" => Shape(t)
    BY DEF Shape, Editors
  <1> QED BY <1>1, <1>2, <1>3, BeginMoves, CallFacts DEF Fresh, OpKinds, Shape

\* What the requests that look first begin with.
LEMMA RenameView ==
  ASSUME IInv, NEW c \in Calls, NEW n \in Names, NEW m \in Names, RenameWorld(c, n, m)
  PROVE  /\ Moves(c) /\ StandStill /\ asked' \in 0..scene.asks /\ Fresh(c, "rename", "look")
         /\ call'[c].from = n
  <1> DEFINE r == [Free EXCEPT !.pc = "look", !.from = n, !.to = m]
  <1>1. r \in CallRecords /\ r.pc = "look" /\ r.from = n /\ r.to = m
    BY FreeIs DEF CallRecords, Steps
  <1>2. Begin(c, "rename", r) /\ StandStill /\ n # m
    BY DEF RenameWorld, Ask
  <1> HIDE DEF r
  <1>3. \A t \in CallRecords : t.op = "rename" /\ t.pc = "look" /\ t.from = n /\ t.to = m => Shape(t)
    BY <1>2 DEF Shape, Editors
  <1> QED BY <1>1, <1>2, <1>3, BeginMoves, CallFacts DEF Fresh, OpKinds, Shape

LEMMA ActivateView ==
  ASSUME IInv, NEW c \in Calls, NEW n \in Names, ActivateWorld(c, n)
  PROVE  Moves(c) /\ StandStill /\ asked' \in 0..scene.asks /\ Fresh(c, "activate", "look")
  <1> DEFINE r == [Free EXCEPT !.pc = "look", !.from = n]
  <1>1. r \in CallRecords /\ r.pc = "look" /\ r.from = n
    BY FreeIs DEF CallRecords, Steps
  <1>2. Begin(c, "activate", r) /\ StandStill
    BY DEF ActivateWorld, Ask
  <1> HIDE DEF r
  <1>3. \A t \in CallRecords : t.op = "activate" /\ t.pc = "look" /\ t.from = n => Shape(t)
    BY DEF Shape, Editors
  <1> QED BY <1>1, <1>2, <1>3, BeginMoves, CallFacts DEF Fresh, OpKinds, Shape

LEMMA ResetView ==
  ASSUME IInv, NEW c \in Calls, NEW wanted \in BOOLEAN, ResetWorld(c, wanted)
  PROVE  Moves(c) /\ StandStill /\ asked' \in 0..scene.asks /\ Fresh(c, "reset", "look")
  <1> DEFINE r == [Free EXCEPT !.pc = "look", !.backup = wanted]
  <1>1. r \in CallRecords /\ r.pc = "look"
    BY FreeIs DEF CallRecords, Steps
  <1>2. Begin(c, "reset", r) /\ StandStill
    BY DEF ResetWorld, Ask
  <1> HIDE DEF r
  <1>3. \A t \in CallRecords : t.op = "reset" /\ t.pc = "look" => Shape(t)
    BY DEF Shape, Editors
  <1> QED BY <1>1, <1>2, <1>3, BeginMoves, CallFacts DEF Fresh, OpKinds, Shape

LEMMA ShrinkView ==
  ASSUME IInv, NEW c \in Calls, NEW n \in Names, ShrinkWorld(c, n)
  PROVE  Moves(c) /\ StandStill /\ asked' \in 0..scene.asks /\ Fresh(c, "shrink", "look")
  <1> DEFINE r == [Free EXCEPT !.pc = "look", !.from = n]
  <1>1. r \in CallRecords /\ r.pc = "look" /\ r.from = n /\ ~r.backup
    BY FreeIs DEF CallRecords, Steps
  <1>2. Begin(c, "shrink", r) /\ StandStill
    BY DEF ShrinkWorld, Ask
  <1> HIDE DEF r
  <1>3. \A t \in CallRecords : t.op = "shrink" /\ t.pc = "look" /\ t.from = n /\ ~t.backup => Shape(t)
    BY DEF Shape, Editors
  <1> QED BY <1>1, <1>2, <1>3, BeginMoves, CallFacts DEF Fresh, OpKinds, Shape

LEMMA ChunksView ==
  ASSUME IInv, NEW c \in Calls, NEW n \in Names, NEW wanted \in BOOLEAN,
         DeleteChunks(c, n, wanted)
  PROVE  Moves(c) /\ StandStill /\ asked' \in 0..scene.asks /\ Fresh(c, "chunks", "look")
  <1> DEFINE r == [Free EXCEPT !.pc = "look", !.from = n, !.backup = wanted]
  <1>1. r \in CallRecords /\ r.pc = "look" /\ r.from = n
    BY FreeIs DEF CallRecords, Steps
  <1>2. Begin(c, "chunks", r) /\ StandStill
    BY DEF DeleteChunks, Ask
  <1> HIDE DEF r
  <1>3. \A t \in CallRecords : t.op = "chunks" /\ t.pc = "look" /\ t.from = n => Shape(t)
    BY DEF Shape, Editors
  <1> QED BY <1>1, <1>2, <1>3, BeginMoves, CallFacts DEF Fresh, OpKinds, Shape

LEMMA ReplaceView ==
  ASSUME IInv, NEW c \in Calls, NEW op \in {"install", "copy"}, Ask(c, op, Replace)
  PROVE  Moves(c) /\ StandStill /\ asked' \in 0..scene.asks /\ Fresh(c, op, "look")
  <1>1. Replace \in CallRecords /\ Replace.pc = "look" /\ Replace.backup
    BY FreeIs DEF CallRecords, Steps, Replace
  <1>2. \A t \in CallRecords : t.op = op /\ t.pc = "look" /\ t.backup => Shape(t)
    BY DEF Shape, Editors
  <1> QED BY <1>1, <1>2, BeginMoves, CallFacts DEF Fresh, OpKinds, Shape, Ask

LEMMA AlongsideView ==
  ASSUME IInv, NEW c \in Calls, NEW n \in Names, NEW op \in {"install", "copy"},
         Ask(c, op, Alongside(n))
  PROVE  Moves(c) /\ StandStill /\ asked' \in 0..scene.asks /\ Fresh(c, op, "check")
  <1>1. /\ Alongside(n) \in CallRecords /\ Alongside(n).pc = "check" /\ ~Alongside(n).backup
        /\ Alongside(n).to = n
    BY FreeIs DEF CallRecords, Steps, Alongside
  <1>2. \A t \in CallRecords : t.op = op /\ t.pc = "check" /\ ~t.backup /\ t.to = n => Shape(t)
    BY DEF Shape, Editors
  <1> QED BY <1>1, <1>2, BeginMoves, CallFacts DEF Fresh, OpKinds, Shape, Ask

\* The two that do not look.
LEMMA DeleteView ==
  ASSUME IInv, NEW c \in Calls, NEW n \in Names, DeleteWorld(c, n)
  PROVE  /\ Moves(c) /\ StandStill /\ asked' \in 0..scene.asks /\ Fresh(c, "delete", "remove")
         /\ call'[c].from = n /\ call'[c].to = NoName /\ ~call'[c].backup
         /\ call'[c].todo = Dims(n) /\ n # Level /\ Exists(n)
         /\ live /\ plays = n => "apart" \in call'[c].hit
  <1> DEFINE h == IF live /\ plays = n THEN {"apart"} ELSE {}
             r == [Free EXCEPT !.pc = "remove", !.from = n, !.todo = Dims(n), !.hit = h]
  <1>1. /\ r \in CallRecords /\ r.pc = "remove" /\ r.from = n /\ r.to = NoName
        /\ r.hit = h /\ ~r.backup /\ r.todo = Dims(n)
    BY FreeIs, DimsAre DEF CallRecords, Steps
  <1>2. Begin(c, "delete", r) /\ StandStill /\ n # Level /\ Exists(n)
    BY DEF DeleteWorld
  <1>3. \A t \in CallRecords : t.op = "delete" /\ t.pc = "remove" /\ t.from = n /\ t.todo = Dims(n)
                                => Shape(t)
    BY DimsAre DEF Shape, Editors
  <1>4. live /\ plays = n => "apart" \in h
    OBVIOUS
  <1> HIDE DEF r, h
  <1>5. \A t \in CallRecords : /\ t.op = "delete" /\ t.pc = r.pc /\ t.from = r.from /\ t.to = r.to
                               /\ (t.backup <=> r.backup) /\ t.todo = r.todo
                               => Shape(t)
    BY <1>1, <1>3
  <1>6. "delete" \in OpKinds
    BY DEF OpKinds
  <1>7. /\ Moves(c) /\ call[c].pc = "idle" /\ asked' \in 0..scene.asks
        /\ call'[c].op = "delete" /\ call'[c].pc = r.pc /\ call'[c].from = r.from
        /\ call'[c].to = r.to /\ (call'[c].backup <=> r.backup) /\ call'[c].todo = r.todo
        /\ call'[c].hit = r.hit /\ call'[c].env = env
        /\ call'[c].beside = {d \in Calls : Starting(d)}
    BY <1>1, <1>2, <1>5, <1>6, BeginMoves
  <1>8. call[c].op = "none"
    BY <1>7, CallFacts DEF Shape
  <1> QED BY <1>1, <1>2, <1>4, <1>7, <1>8 DEF Fresh

LEMMA DuplicateView ==
  ASSUME IInv, NEW c \in Calls, NEW n \in Names, NEW m \in Names, DuplicateWorld(c, n, m)
  PROVE  /\ Moves(c) /\ StandStill /\ asked' \in 0..scene.asks /\ Fresh(c, "duplicate", "place")
         /\ call'[c].from = n /\ call'[c].to = m /\ ~call'[c].backup
         /\ call'[c].todo = Dims(n) /\ Exists(n) /\ ~Exists(m)
  <1> DEFINE r == [Free EXCEPT !.pc = "place", !.from = n, !.to = m, !.todo = Dims(n)]
  <1>1. r \in CallRecords /\ r.pc = "place" /\ r.from = n /\ r.to = m /\ r.todo = Dims(n)
        /\ ~r.backup
    BY FreeIs, DimsAre DEF CallRecords, Steps
  <1>2. Begin(c, "duplicate", r) /\ StandStill /\ Exists(n) /\ ~Exists(m)
    BY DEF DuplicateWorld, NameIsFree
  <1> HIDE DEF r
  <1>3. \A t \in CallRecords : t.op = "duplicate" /\ t.pc = "place" /\ t.from = n /\ t.to = m
                                /\ t.todo = Dims(n) => Shape(t)
    BY DimsAre DEF Shape, Editors
  <1> QED BY <1>1, <1>2, <1>3, BeginMoves, CallFacts DEF Fresh, OpKinds, Shape

\* A request stays what it is when it has looked, and notes a blind look.
LEMMA LookedIs ==
  ASSUME IInv, NEW c \in Calls, SeenStopped, NEW s \in Steps
  PROVE  /\ Looked(c, s) \in CallRecords /\ Kin(call[c], Looked(c, s)) /\ Looked(c, s).pc = s
         /\ Looked(c, s).todo = call[c].todo
         /\ live => "blind" \in Looked(c, s).hit
  <1> DEFINE Q(h) == [At(c, s) EXCEPT !.hit = h]
             h == IF live /\ scene.faults THEN {"blind"} ELSE {}
  <1>1. call[c] \in CallRecords
    BY CallFacts
  <1>2. h \in SUBSET {"start", "inflight", "woken", "blind", "apart"}
        /\ (live => "blind" \in h)
    BY DEF SeenStopped
  <1> HIDE DEF h
  <1>3. Q(h) \in CallRecords /\ Kin(call[c], Q(h)) /\ Q(h).pc = s /\ Q(h).hit = h
        /\ Q(h).todo = call[c].todo
    BY <1>1, <1>2 DEF At, CallRecords, Kin
  <1>4. Looked(c, s) = Q(h)
    BY DEF Looked, h
  <1> QED BY <1>2, <1>3, <1>4

LEMMA RenameGoesView ==
  ASSUME IInv, NEW c \in Calls, RenameGoes(c)
  PROVE  /\ Moves(c) /\ StandStill /\ asked' = asked /\ Kin(call[c], call'[c])
         /\ call[c].op = "rename" /\ call[c].pc = "look" /\ call'[c].pc = "move"
         /\ call'[c].todo = Dims(call[c].from) /\ Exists(call[c].from) /\ ~Exists(call[c].to)
         /\ live => "blind" \in call'[c].hit
  <1> DEFINE r == Looked(c, "move")
             t == [r EXCEPT !.todo = Dims(call[c].from)]
  <1>1. /\ call[c].op = "rename" /\ call[c].pc = "look" /\ SeenStopped /\ StandStill
        /\ Exists(call[c].from) /\ ~Exists(call[c].to) /\ asked' = asked
        /\ call' = [call EXCEPT ![c] = t]
    BY DEF RenameGoes, Looks, Go, NameIsFree
  <1>2. r \in CallRecords /\ Kin(call[c], r) /\ r.pc = "move" /\ (live => "blind" \in r.hit)
    BY <1>1, LookedIs DEF Steps
  <1> HIDE DEF r
  <1>3. /\ t \in CallRecords /\ Kin(call[c], t) /\ t.pc = "move" /\ (live => "blind" \in t.hit)
        /\ t.todo = Dims(call[c].from)
    BY <1>2, DimsAre DEF CallRecords, Kin
  <1> HIDE DEF t
  <1>4. Shape(t)
    BY <1>1, <1>3, DimsAre, CallFacts DEF Kin, Shape, Editors
  <1> QED BY <1>1, <1>3, <1>4, MovesTo

LEMMA ResetGoesView ==
  ASSUME IInv, NEW c \in Calls, ResetGoes(c)
  PROVE  /\ Moves(c) /\ StandStill /\ asked' = asked
         /\ call[c].op = "reset" /\ call[c].pc = "look" /\ call'[c].op = "reset"
         /\ call'[c].env = call[c].env /\ (call'[c].backup <=> call[c].backup)
         /\ call'[c].pc \in {"backup", "remove"} /\ (call'[c].pc = "remove" <=> ~call[c].backup)
         /\ call'[c].from = ActiveLevel(call[c].env) /\ call'[c].to = call[c].to
         /\ call'[c].todo = Dims(call'[c].from) /\ Exists(call'[c].from)
         /\ call'[c].beside = call[c].beside
         /\ live => "blind" \in call'[c].hit
  <1> DEFINE n == ActiveLevel(call[c].env)
             s == IF call[c].backup THEN "backup" ELSE "remove"
             r == Looked(c, s)
             t == [r EXCEPT !.from = n, !.todo = Dims(n)]
  <1>1. /\ call[c].op = "reset" /\ call[c].pc = "look" /\ SeenStopped /\ StandStill
        /\ Exists(n) /\ asked' = asked
        /\ call' = [call EXCEPT ![c] = t]
    BY DEF ResetGoes, Looks, Go
  <1>2. n \in Names /\ call[c] \in CallRecords /\ s \in {"backup", "remove"}
        /\ (s = "remove" <=> ~call[c].backup)
    BY ActiveIs, CallFacts DEF CallRecords
  <1> HIDE DEF s, n
  <1>3. r \in CallRecords /\ Kin(call[c], r) /\ r.pc = s /\ (live => "blind" \in r.hit)
    BY <1>1, <1>2, LookedIs DEF Steps
  <1> HIDE DEF r
  <1>4. /\ t \in CallRecords /\ t.pc = s /\ (live => "blind" \in t.hit)
        /\ t.todo = Dims(n) /\ t.from = n /\ t.to = call[c].to /\ t.env = call[c].env
        /\ (t.backup <=> call[c].backup) /\ t.beside = call[c].beside /\ t.op = call[c].op
    BY <1>2, <1>3, DimsAre DEF CallRecords, Kin
  <1> HIDE DEF t
  <1>5. Shape(t)
    BY <1>1, <1>2, <1>4, DimsAre DEF Shape, Editors
  <1>6. Moves(c) /\ call'[c] = t
    BY <1>1, <1>4, <1>5, MovesTo
  <1>7. n = ActiveLevel(call[c].env)
    BY DEF n
  <1> QED BY <1>1, <1>2, <1>4, <1>6, <1>7

LEMMA ReplaceGoesView ==
  ASSUME IInv, NEW c \in Calls, ReplaceGoes(c)
  PROVE  /\ Moves(c) /\ StandStill /\ asked' = asked
         /\ call[c].op \in {"install", "copy"} /\ call[c].pc = "look" /\ call'[c].op = call[c].op
         /\ call'[c].env = call[c].env /\ call'[c].backup
         /\ call'[c].pc = "backup" /\ call'[c].to = ActiveLevel(call[c].env)
         /\ call'[c].beside = call[c].beside
         /\ live => "blind" \in call'[c].hit
  <1> DEFINE n == ActiveLevel(call[c].env)
             r == Looked(c, "backup")
             t == [r EXCEPT !.to = n]
  <1>1. /\ call[c].op \in {"install", "copy"} /\ call[c].pc = "look" /\ SeenStopped /\ StandStill
        /\ asked' = asked /\ call' = [call EXCEPT ![c] = t]
    BY DEF ReplaceGoes, Looks, Go
  <1>2. n \in Names /\ call[c] \in CallRecords /\ call[c].backup
    BY <1>1, ActiveIs, CallFacts DEF CallRecords, Shape
  <1> HIDE DEF n
  <1>3. r \in CallRecords /\ Kin(call[c], r) /\ r.pc = "backup" /\ (live => "blind" \in r.hit)
    BY <1>1, LookedIs DEF Steps
  <1> HIDE DEF r
  <1>4. /\ t \in CallRecords /\ t.pc = "backup" /\ (live => "blind" \in t.hit)
        /\ t.to = n /\ t.env = call[c].env
        /\ t.backup /\ t.beside = call[c].beside /\ t.op = call[c].op
    BY <1>2, <1>3 DEF CallRecords, Kin
  <1> HIDE DEF t
  <1>5. Shape(t)
    BY <1>1, <1>2, <1>4 DEF Shape, Editors
  <1>6. Moves(c) /\ call'[c] = t
    BY <1>1, <1>4, <1>5, MovesTo
  <1>7. n = ActiveLevel(call[c].env)
    BY DEF n
  <1> QED BY <1>1, <1>2, <1>4, <1>6, <1>7

LEMMA EditGoesView ==
  ASSUME IInv, NEW c \in Calls, EditGoes(c)
  PROVE  /\ Moves(c) /\ StandStill /\ asked' = asked /\ Kin(call[c], call'[c])
         /\ call[c].op \in Editors /\ call[c].pc = "look" /\ call'[c].pc = "enter"
         /\ call'[c].todo # {}
  <1> DEFINE r == Looked(c, "enter")
             Q(todo) == [r EXCEPT !.todo = todo]
             S == IF call[c].op = "shrink" THEN {Dims(call[c].from)}
                  ELSE {{p} : p \in Dims(call[c].from)}
  <1>1. /\ call[c].op \in Editors /\ call[c].pc = "look" /\ SeenStopped /\ StandStill
        /\ asked' = asked
    BY DEF EditGoes, Looks, Editors, Go
  <1>2. PICK todo \in S : call' = [call EXCEPT ![c] = Q(todo)]
    BY DEF EditGoes, Go
  <1>3. todo \in SUBSET Parts /\ todo # {}
    BY DimsAre
  <1>4. r \in CallRecords /\ Kin(call[c], r) /\ r.pc = "enter"
    BY <1>1, LookedIs DEF Steps
  <1> HIDE DEF r, S
  <1>5. /\ Q(todo) \in CallRecords /\ Kin(call[c], Q(todo)) /\ Q(todo).pc = "enter"
        /\ Q(todo).todo = todo
    BY <1>3, <1>4 DEF CallRecords, Kin
  <1> HIDE DEF Q
  <1>6. Shape(Q(todo))
    BY <1>1, <1>3, <1>5, CallFacts DEF Kin, Shape, Editors
  <1> QED BY <1>1, <1>2, <1>3, <1>5, <1>6, MovesTo

\* A request that goes on to the step s and changes nothing else of itself.
LEMMA AtIs ==
  ASSUME IInv, NEW c \in Calls, NEW s \in Steps
  PROVE  /\ At(c, s) \in CallRecords /\ Kin(call[c], At(c, s)) /\ At(c, s).pc = s
         /\ At(c, s).todo = call[c].todo /\ At(c, s).hit = call[c].hit
  BY CallFacts DEF At, CallRecords, Kin

LEMMA AlongsideGoesView ==
  ASSUME IInv, NEW c \in Calls, AlongsideGoes(c)
  PROVE  /\ Moves(c) /\ StandStill /\ asked' = asked /\ Kin(call[c], call'[c])
         /\ call[c].op \in {"install", "copy"} /\ call[c].pc = "check" /\ call'[c].pc = "extract"
         /\ ~call[c].backup /\ ~Exists(call[c].to)
  <1>1. /\ call[c].pc = "check" /\ StandStill /\ ~Exists(call[c].to) /\ asked' = asked
        /\ call' = [call EXCEPT ![c] = At(c, "extract")]
    BY DEF AlongsideGoes, Go, NameIsFree
  <1>2. call[c].op \in {"install", "copy"} /\ ~call[c].backup
    BY <1>1, CallFacts DEF Shape, CallRecords, OpKinds, Editors
  <1>3. /\ At(c, "extract") \in CallRecords /\ Kin(call[c], At(c, "extract"))
        /\ At(c, "extract").pc = "extract"
    BY AtIs DEF Steps
  <1>4. Shape(At(c, "extract"))
    BY <1>1, <1>2, <1>3, CallFacts DEF Kin, Shape, Editors
  <1> QED BY <1>1, <1>2, <1>3, <1>4, MovesTo

LEMMA EnterGuardView ==
  ASSUME IInv, NEW c \in Calls, EnterGuard(c)
  PROVE  /\ Moves(c) /\ StandStill /\ asked' = asked /\ Kin(call[c], call'[c])
         /\ call[c].op \in Editors /\ call[c].pc = "enter" /\ call'[c].pc = "recheck"
         /\ Guarded = {}
  <1>1. /\ call[c].pc = "enter" /\ StandStill /\ Guarded = {} /\ asked' = asked
        /\ call' = [call EXCEPT ![c] = At(c, "recheck")]
    BY DEF EnterGuard, Go
  <1>2. call[c].op \in Editors
    BY <1>1, CallFacts DEF Shape, CallRecords, OpKinds, Editors
  <1>3. /\ At(c, "recheck") \in CallRecords /\ Kin(call[c], At(c, "recheck"))
        /\ At(c, "recheck").pc = "recheck" /\ At(c, "recheck").todo = call[c].todo
    BY AtIs DEF Steps
  <1>4. Shape(At(c, "recheck"))
    BY <1>1, <1>2, <1>3, CallFacts DEF Kin, Shape, Editors
  <1> QED BY <1>1, <1>2, <1>3, <1>4, MovesTo

LEMMA RecheckView ==
  ASSUME IInv, NEW c \in Calls, Recheck(c)
  PROVE  /\ Moves(c) /\ StandStill /\ asked' = asked /\ Kin(call[c], call'[c])
         /\ call[c].op \in Editors /\ call[c].pc = "recheck" /\ call'[c].pc \in {"backup", "edit"}
         /\ call'[c].pc = "edit" <=> ~call[c].backup
         /\ live => "blind" \in call'[c].hit
  <1> DEFINE s == IF call[c].backup THEN "backup" ELSE "edit"
  <1>1. /\ call[c].pc = "recheck" /\ StandStill /\ SeenStopped /\ asked' = asked
        /\ call' = [call EXCEPT ![c] = Looked(c, s)]
    BY DEF Recheck, Go, StillStopped
  <1>2. call[c].op \in Editors /\ call[c].todo # {} /\ s \in {"backup", "edit"}
        /\ (s = "backup" <=> call[c].backup) /\ (s = "edit" <=> ~call[c].backup)
    BY <1>1, CallFacts DEF Shape, CallRecords, OpKinds, Editors
  <1> HIDE DEF s
  <1>3. /\ Looked(c, s) \in CallRecords /\ Kin(call[c], Looked(c, s)) /\ Looked(c, s).pc = s
        /\ Looked(c, s).todo = call[c].todo /\ (live => "blind" \in Looked(c, s).hit)
    BY <1>1, <1>2, LookedIs DEF Steps
  <1>4. call[c].op = "shrink" => s # "backup"
    BY <1>1, <1>2, CallFacts DEF Shape
  <1>5. Shape(Looked(c, s))
    BY <1>1, <1>2, <1>3, <1>4, CallFacts DEF Kin, Shape, Editors
  <1> QED BY <1>1, <1>2, <1>3, <1>5, MovesTo

LEMMA ExtractView ==
  ASSUME IInv, NEW c \in Calls, Extract(c)
  PROVE  /\ Moves(c) /\ StandStill /\ asked' = asked /\ Kin(call[c], call'[c])
         /\ call[c].op \in {"install", "copy"} /\ call[c].pc = "extract" /\ call'[c].hit = call[c].hit
         /\ IF call[c].backup
            THEN call'[c].pc = "remove" /\ call'[c].todo = Dims(call[c].to)
            ELSE call'[c].pc = "place" /\ call'[c].todo = LibraryParts
  <1> DEFINE s == IF call[c].backup THEN "remove" ELSE "place"
             todo == IF call[c].backup THEN Dims(call[c].to) ELSE LibraryParts
             Q(x, y) == [At(c, x) EXCEPT !.todo = y]
  <1>1. /\ call[c].pc = "extract" /\ StandStill /\ asked' = asked
        /\ call' = [call EXCEPT ![c] = Q(s, todo)]
    BY DEF Extract, Go
  <1>2. s \in Steps /\ todo \in SUBSET Parts /\ todo # {}
    BY DimsAre DEF Steps, LibraryParts, Parts
  <1>3. call[c].op \in {"install", "copy"}
    BY <1>1, CallFacts DEF Shape, CallRecords, OpKinds, Editors
  <1>4. ASSUME NEW x \in Steps, NEW y \in SUBSET Parts
        PROVE  /\ Q(x, y) \in CallRecords /\ Kin(call[c], Q(x, y)) /\ Q(x, y).pc = x
               /\ Q(x, y).todo = y /\ Q(x, y).hit = call[c].hit
    <2>1. /\ At(c, x) \in CallRecords /\ Kin(call[c], At(c, x)) /\ At(c, x).pc = x
          /\ At(c, x).hit = call[c].hit
      BY AtIs
    <2> QED BY <2>1 DEF CallRecords, Kin
  <1> HIDE DEF Q
  <1>5. Shape(Q(s, todo))
    BY <1>1, <1>2, <1>3, <1>4, CallFacts DEF Kin, Shape, Editors
  <1>6. /\ Q(s, todo) \in CallRecords /\ Kin(call[c], Q(s, todo)) /\ Q(s, todo).pc = s
        /\ Q(s, todo).todo = todo /\ Q(s, todo).hit = call[c].hit
    BY <1>2, <1>4
  <1>7. Moves(c) /\ call'[c] = Q(s, todo)
    BY <1>1, <1>5, <1>6, MovesTo
  <1> QED BY <1>1, <1>3, <1>6, <1>7

\* A request that ends where it has taken nothing off the disk.
EarlyEnd(c) ==
  /\ call[c].pc \in {"look", "recheck", "check", "enter", "backup", "pull"}
  /\ Go(c, Free) /\ StandStill

LEMMA EndView ==
  ASSUME IInv, NEW c \in Calls, Refused(c) \/ LaunchEnds(c) \/ BackupFails(c)
  PROVE  EarlyEnd(c) /\ Moves(c) /\ call'[c] = Free /\ asked' = asked
  BY EndMoves DEF EarlyEnd, Refused, LaunchEnds, BackupFails, BackupFailed

\* Steps that change more than the request.
LEMMA BackupView ==
  ASSUME IInv, NEW c \in Calls, Backup(c)
  PROVE  /\ Moves(c) /\ asked' = asked
         /\ UNCHANGED <<scene, live, plays, prop, env, box, disk, next, raced, unmade>>
         /\ saved' = saved \cup UNION {disk[n][p] : n \in Names, p \in Parts}
         /\ call[c].pc = "backup" /\ call[c].op \in {"reset", "chunks", "install", "copy"}
         /\ call'[c].op = call[c].op /\ call'[c].from = call[c].from /\ call'[c].to = call[c].to
         /\ call'[c].env = call[c].env /\ (call'[c].backup <=> call[c].backup)
         /\ call'[c].beside = call[c].beside /\ call'[c].todo = call[c].todo
         /\ call'[c].hit = call[c].hit /\ call'[c].upto = next /\ call[c].backup
         /\ call'[c].pc = CASE call[c].op = "reset" -> "remove"
                            [] call[c].op = "chunks" -> "edit"
                            [] OTHER -> "extract"
  <1> DEFINE s == AfterBackup(call[c])
             Q(x, n) == [At(c, x) EXCEPT !.upto = n]
  <1>1. /\ call[c].pc = "backup" /\ asked' = asked
        /\ UNCHANGED <<scene, live, plays, prop, env, box, disk, next, raced, unmade>>
        /\ saved' = saved \cup UNION {disk[n][p] : n \in Names, p \in Parts}
        /\ call' = [call EXCEPT ![c] = Q(s, next)]
    BY DEF Backup, Go
  <1>2. call[c].op \in {"reset", "chunks", "install", "copy"} /\ call[c].backup
    BY <1>1, CallFacts DEF Shape, CallRecords, OpKinds, Editors
  <1>3. s = CASE call[c].op = "reset" -> "remove"
              [] call[c].op = "chunks" -> "edit"
              [] OTHER -> "extract"
    BY <1>2 DEF AfterBackup
  <1> HIDE DEF s
  <1>4. s \in {"remove", "edit", "extract"}
    BY <1>3
  <1>5. ASSUME NEW x \in Steps, NEW n \in 1..MaxWorld + 1
        PROVE  /\ Q(x, n) \in CallRecords /\ Q(x, n).op = call[c].op
               /\ Q(x, n).from = call[c].from /\ Q(x, n).to = call[c].to
               /\ Q(x, n).env = call[c].env /\ (Q(x, n).backup <=> call[c].backup)
               /\ Q(x, n).beside = call[c].beside /\ Q(x, n).todo = call[c].todo
               /\ Q(x, n).hit = call[c].hit /\ Q(x, n).upto = n /\ Q(x, n).pc = x
    <2>1. /\ At(c, x) \in CallRecords /\ Kin(call[c], At(c, x)) /\ At(c, x).pc = x
          /\ At(c, x).hit = call[c].hit /\ At(c, x).todo = call[c].todo
      BY AtIs
    <2> QED BY <2>1 DEF CallRecords, Kin
  <1>6. next \in 1..MaxWorld + 1 /\ s \in Steps
    BY <1>4 DEF IInv, TypeOK, Steps
  <1> HIDE DEF Q
  <1>7. Shape(Q(s, next))
    BY <1>1, <1>2, <1>3, <1>5, <1>6, CallFacts DEF Shape, Editors
  <1>8. Moves(c) /\ call'[c] = Q(s, next)
    BY <1>1, <1>5, <1>6, <1>7, MovesTo
  <1> QED BY <1>1, <1>2, <1>3, <1>5, <1>6, <1>8

\* setActiveLevel: the property is n, and LEVEL is still to be written if the row has it.
Levelled(c, n) ==
  /\ prop' = n /\ raced' = raced \cup Shared({n}, Others(c))
  /\ UNCHANGED <<scene, live, plays, env, box, disk, saved, next, unmade>>
  /\ IF call[c].env # NoName THEN Kin(call[c], call'[c]) /\ call'[c].pc = "env" ELSE call'[c] = Free

LEMMA SetLevelView ==
  ASSUME IInv, NEW c \in Calls, NEW n, NEW r \in CallRecords, Kin(call[c], r), SetLevel(c, n, r),
         call[c].op \in {"rename", "activate"},
         UNCHANGED <<scene, live, plays, env, box, disk, saved, next, unmade>>
  PROVE  Moves(c) /\ asked' = asked /\ Levelled(c, n)
  <1>1. /\ prop' = n /\ raced' = raced \cup Shared({n}, Others(c)) /\ asked' = asked
        /\ call' = [call EXCEPT ![c] = IF r.env # NoName THEN [r EXCEPT !.pc = "env"] ELSE Free]
        /\ r.env = call[c].env
    BY DEF SetLevel, Go, Kin
  <1>2. CASE r.env = NoName
    BY <1>1, <1>2, FreeIs, MovesTo DEF Levelled
  <1>3. CASE r.env # NoName
    <2> DEFINE t == [r EXCEPT !.pc = "env"]
    <2>1. t \in CallRecords /\ Kin(call[c], t) /\ t.pc = "env"
      BY DEF CallRecords, Steps, Kin
    <2>2. call' = [call EXCEPT ![c] = t]
      BY <1>1, <1>3
    <2> HIDE DEF t
    <2>3. Shape(t)
      BY <2>1, CallFacts DEF Kin, Shape, Editors
    <2> QED BY <1>1, <1>3, <2>1, <2>2, <2>3, MovesTo DEF Levelled
  <1> QED BY <1>2, <1>3

LEMMA ActivateGoesView ==
  ASSUME IInv, NEW c \in Calls, ActivateGoes(c)
  PROVE  /\ Moves(c) /\ asked' = asked /\ call[c].op = "activate" /\ call[c].pc = "look"
         /\ call[c].from \in Names /\ Exists(call[c].from)
         /\ Levelled(c, call[c].from)
  <1>1. /\ call[c].op = "activate" /\ call[c].pc = "look" /\ SeenStopped /\ Exists(call[c].from)
        /\ SetLevel(c, call[c].from, Looked(c, "env"))
        /\ UNCHANGED <<scene, live, plays, env, box, disk, saved, next, unmade>>
    BY DEF ActivateGoes, Looks
  <1>2. Looked(c, "env") \in CallRecords /\ Kin(call[c], Looked(c, "env"))
    BY <1>1, LookedIs DEF Steps
  <1>3. call[c].from \in Names
    BY <1>1, CallFacts DEF Shape
  <1> QED BY <1>1, <1>2, <1>3, SetLevelView

LEMMA SelectView ==
  ASSUME IInv, NEW c \in Calls, Select(c)
  PROVE  /\ Moves(c) /\ asked' = asked /\ call[c].op = "rename" /\ call[c].pc = "select"
         /\ {call[c].from, call[c].to} \subseteq Names
         /\ IF call[c].from = ActiveLevel(call[c].env) THEN Levelled(c, call[c].to)
            ELSE call'[c] = Free /\ StandStill
  <1>1. /\ call[c].pc = "select"
        /\ UNCHANGED <<scene, live, plays, env, box, disk, saved, next, unmade>>
        /\ IF call[c].from = ActiveLevel(call[c].env) THEN SetLevel(c, call[c].to, call[c])
           ELSE Go(c, Free) /\ UNCHANGED <<prop, raced>>
    BY DEF Select
  <1>2. call[c].op = "rename" /\ {call[c].from, call[c].to} \subseteq Names
    BY <1>1, CallFacts DEF Shape, CallRecords, OpKinds, Editors
  <1>3. CASE call[c].from = ActiveLevel(call[c].env)
    <2>1. Kin(call[c], call[c]) /\ call[c] \in CallRecords
      BY CallFacts DEF Kin
    <2> QED BY <1>1, <1>2, <1>3, <2>1, SetLevelView
  <1>4. CASE call[c].from # ActiveLevel(call[c].env)
    BY <1>1, <1>2, <1>4, EndMoves DEF StandStill
  <1> QED BY <1>3, <1>4

LEMMA WriteEnvView ==
  ASSUME IInv, NEW c \in Calls, WriteEnv(c)
  PROVE  /\ Moves(c) /\ asked' = asked /\ call'[c] = Free
         /\ call[c].pc = "env" /\ call[c].op \in {"rename", "activate", "reset"}
         /\ env' \in Names \cup {NoName}
         /\ call[c].op = "rename" => env' = call[c].to
         /\ call[c].op = "activate" => env' = call[c].from
         /\ call[c].op = "reset" => env' = env \/ env' = call[c].env
         /\ raced' = raced \cup Shared({ActiveLevel(e) : e \in {env'} \ {env}}, Others(c))
         /\ unmade' = unmade \cup {n \in {prop} : env' = NoName /\ env # NoName /\ ~Exists(n)}
         /\ UNCHANGED <<scene, live, plays, prop, box, disk, saved, next>>
  <1>1. /\ call[c].pc = "env" /\ Go(c, Free)
        /\ env' \in {NewLevel(call[c])} \cup {e \in {env} : call[c].op = "reset"}
        /\ raced' = raced \cup Shared({ActiveLevel(e) : e \in {env'} \ {env}}, Others(c))
        /\ unmade' = unmade \cup {n \in {prop} : env' = NoName /\ env # NoName /\ ~Exists(n)}
        /\ UNCHANGED <<scene, live, plays, prop, box, disk, saved, next>>
    BY DEF WriteEnv
  <1>2. call[c].op \in {"rename", "activate", "reset"} /\ call[c] \in CallRecords
    BY <1>1, CallFacts DEF Shape, CallRecords, OpKinds, Editors
  <1>3. /\ call[c].op = "rename" => NewLevel(call[c]) = call[c].to
        /\ call[c].op = "activate" => NewLevel(call[c]) = call[c].from
        /\ call[c].op = "reset" => NewLevel(call[c]) = call[c].env
    BY DEF NewLevel
  <1>4. /\ call[c].op = "rename" => env' = call[c].to
        /\ call[c].op = "activate" => env' = call[c].from
        /\ call[c].op = "reset" => env' = env \/ env' = call[c].env
    BY <1>1, <1>3
  <1>5. env' \in Names \cup {NoName}
    BY <1>2, <1>4 DEF CallRecords, IInv, TypeOK
  <1> QED BY <1>1, <1>2, <1>4, <1>5, EndMoves

LEMMA StepFailsView ==
  ASSUME IInv, NEW c \in Calls, StepFails(c)
  PROVE  /\ Moves(c) /\ asked' = asked /\ call'[c] = Free
         /\ call[c].pc \in {"extract", "remove", "place", "move", "select", "env", "edit"}
         /\ raced' = IF call[c].pc \in {"extract", "edit"} THEN raced ELSE raced \cup Footprint(c)
         /\ UNCHANGED <<scene, live, plays, prop, env, box, disk, saved, next, unmade>>
  BY EndMoves DEF StepFails

\* A request has dealt with the part p of its list, and goes on with the rest.
GoesOn(c, p) ==
  /\ call[c].todo # {p}
  /\ Kin(call[c], call'[c]) /\ call'[c].pc = call[c].pc /\ call'[c].hit = call[c].hit
  /\ call'[c].todo = call[c].todo \ {p}

LEMMA GoesOnMoves ==
  ASSUME IInv, NEW c \in Calls, NEW p \in call[c].todo, call[c].todo # {p}, 
         Go(c, [call[c] EXCEPT !.todo = @ \ {p}])
  PROVE  Moves(c) /\ GoesOn(c, p) /\ asked' = asked
  <1> DEFINE t == [call[c] EXCEPT !.todo = @ \ {p}]
  <1>1. /\ t \in CallRecords /\ Kin(call[c], t) /\ t.pc = call[c].pc /\ t.hit = call[c].hit
        /\ t.todo = call[c].todo \ {p}
    BY CallFacts DEF CallRecords, Kin
  <1>2. call' = [call EXCEPT ![c] = t] /\ asked' = asked
    BY DEF Go
  <1> HIDE DEF t
  <1>3. t.todo # {}
    BY <1>1
  <1>4. Shape(t)
    BY <1>1, <1>3, CallFacts DEF Kin, Shape, Editors
  <1> QED BY <1>1, <1>2, <1>4, MovesTo DEF GoesOn

LEMMA EditPartView ==
  ASSUME IInv, NEW c \in Calls, EditPart(c), NEW p, p = Part(call[c].todo)
  PROVE  /\ Moves(c) /\ asked' = asked /\ call[c].op \in Editors /\ call[c].pc = "edit"
         /\ call[c].from \in Names /\ p \in Parts /\ p \in call[c].todo
         /\ call'[c] = Free \/ GoesOn(c, p)
         /\ \/ UNCHANGED <<disk, next, raced>>
            \/ /\ disk[call[c].from][p] # {}
               /\ next <= MaxWorld
               /\ disk' = [disk EXCEPT ![call[c].from][p] = {next}]
               /\ next' = next + 1
               /\ raced' = raced \cup Shared({call[c].from}, Others(c))
         /\ UNCHANGED <<scene, live, plays, prop, env, box, saved, unmade>>
  <1>1. /\ call[c].pc = "edit"
        /\ Go(c, IF call[c].todo = {p} THEN Free ELSE [call[c] EXCEPT !.todo = @ \ {p}])
        /\ \/ UNCHANGED <<disk, next, raced>>
           \/ /\ disk[call[c].from][p] # {}
              /\ next <= MaxWorld
              /\ disk' = [disk EXCEPT ![call[c].from][p] = {next}]
              /\ next' = next + 1
              /\ raced' = raced \cup Shared({call[c].from}, Others(c))
        /\ UNCHANGED <<scene, live, plays, prop, env, box, saved, unmade>>
    BY DEF EditPart
  <1>2. call[c].op \in Editors /\ call[c].from \in Names /\ call[c].todo # {}
        /\ call[c].todo \in SUBSET Parts
    BY <1>1, CallFacts DEF Shape, CallRecords, OpKinds, Editors
  <1>3. p \in Parts /\ p \in call[c].todo
    BY <1>2, PartIs
  <1>4. CASE call[c].todo = {p}
    BY <1>1, <1>2, <1>3, <1>4, EndMoves
  <1>5. CASE call[c].todo # {p}
    BY <1>1, <1>2, <1>3, <1>5, GoesOnMoves
  <1> QED BY <1>4, <1>5

LEMMA RemovePartView ==
  ASSUME IInv, NEW c \in Calls, RemovePart(c), NEW p, p = Part(call[c].todo),
         NEW n, n = Doomed(call[c])
  PROVE  /\ Moves(c) /\ asked' = asked /\ call[c].op \in {"reset", "delete", "install", "copy"}
         /\ call[c].pc = "remove" /\ n \in Names /\ p \in Parts /\ p \in call[c].todo
         /\ "main" \in call[c].todo => p = "main"
         /\ \/ GoesOn(c, p)
            \/ /\ call[c].todo = {p}
               /\ \/ call[c].op = "delete" /\ call'[c] = Free
                  \/ /\ call[c].op = "reset" /\ Kin(call[c], call'[c]) /\ call'[c].pc = "env"
                     /\ call'[c].todo = {}
                  \/ /\ call[c].op \in {"install", "copy"} /\ Kin(call[c], call'[c])
                     /\ call'[c].pc = "place" /\ call'[c].todo = LibraryParts
         /\ disk' = [disk EXCEPT ![n][p] = {}]
         /\ raced' = raced \cup Shared({n}, Others(c))
         /\ unmade' = (IF call[c].op = "reset" THEN unmade \cup {n} ELSE unmade)
         /\ UNCHANGED <<scene, live, plays, prop, env, box, saved, next>>
  <1> DEFINE r == call[c]
  <1>1. /\ r.pc = "remove"
        /\ Go(c, IF r.todo = {p} THEN AfterRemove(r) ELSE [r EXCEPT !.todo = @ \ {p}])
        /\ disk' = [disk EXCEPT ![n][p] = {}]
        /\ raced' = raced \cup Shared({n}, Others(c))
        /\ unmade' = (IF r.op = "reset" THEN unmade \cup {n} ELSE unmade)
        /\ UNCHANGED <<scene, live, plays, prop, env, box, saved, next>>
    BY DEF RemovePart
  <1>2. r.op \in {"reset", "delete", "install", "copy"} /\ r.todo # {} /\ r.todo \in SUBSET Parts
    BY <1>1, CallFacts DEF Shape, CallRecords, OpKinds, Editors
  <1>3. p \in Parts /\ p \in r.todo /\ ("main" \in r.todo => p = "main")
    BY <1>2, PartIs
  <1>4. n \in Names
    BY <1>1, <1>2, CallFacts DEF Doomed, Shape
  <1>5. CASE r.todo # {p}
    BY <1>1, <1>2, <1>3, <1>4, <1>5, GoesOnMoves
  <1>6. CASE r.todo = {p} /\ r.op = "delete"
    <2>1. AfterRemove(r) = Free
      BY <1>6 DEF AfterRemove
    <2> QED BY <1>1, <1>2, <1>3, <1>4, <1>6, <2>1, EndMoves
  <1>7. CASE r.todo = {p} /\ r.op = "reset"
    <2> DEFINE t == [r EXCEPT !.pc = "env", !.todo = {}]
    <2>1. t \in CallRecords /\ Kin(r, t) /\ t.pc = "env" /\ t.todo = {}
      <3>1. r \in CallRecords /\ "env" \in Steps /\ {} \in SUBSET Parts
        BY CallFacts DEF Steps
      <3>2. t = [r EXCEPT !.pc = "env", !.todo = {}]
        OBVIOUS
      <3> HIDE DEF t, r
      <3> QED BY <3>1, <3>2 DEF CallRecords, Kin
    <2>2. call' = [call EXCEPT ![c] = t] /\ asked' = asked
      BY <1>1, <1>7 DEF AfterRemove, Go
    <2> HIDE DEF t
    <2>3. Shape(t)
      BY <1>1, <1>7, <2>1, CallFacts DEF Kin, Shape, Editors
    <2> QED BY <1>1, <1>2, <1>3, <1>4, <1>7, <2>1, <2>2, <2>3, MovesTo
  <1>8. CASE r.todo = {p} /\ r.op \in {"install", "copy"}
    <2> DEFINE t == [r EXCEPT !.pc = "place", !.todo = LibraryParts]
    <2>1. LibraryParts \in SUBSET Parts /\ LibraryParts # {}
      BY DEF LibraryParts, Parts
    <2>2. t \in CallRecords /\ Kin(r, t) /\ t.pc = "place" /\ t.todo = LibraryParts
      <3>1. r \in CallRecords /\ "place" \in Steps
        BY CallFacts DEF Steps
      <3>2. t = [r EXCEPT !.pc = "place", !.todo = LibraryParts]
        OBVIOUS
      <3> HIDE DEF t, r
      <3> QED BY <2>1, <3>1, <3>2 DEF CallRecords, Kin
    <2>3. call' = [call EXCEPT ![c] = t] /\ asked' = asked
      BY <1>1, <1>8 DEF AfterRemove, Go
    <2> HIDE DEF t
    <2>4. Shape(t)
      BY <1>1, <1>8, <2>1, <2>2, CallFacts DEF Kin, Shape, Editors
    <2> QED BY <1>1, <1>2, <1>3, <1>4, <1>8, <2>2, <2>3, <2>4, MovesTo
  <1> QED BY <1>2, <1>5, <1>6, <1>7, <1>8

\* What a request puts at its new name.
Cargo(r, p) == IF r.op = "duplicate" THEN disk[r.from][p] ELSE {LibraryWorld}

LEMMA PlacePartView ==
  ASSUME IInv, NEW c \in Calls, PlacePart(c), NEW p, p = Part(call[c].todo)
  PROVE  /\ Moves(c) /\ asked' = asked /\ call[c].op \in {"duplicate", "install", "copy"}
         /\ call[c].pc = "place" /\ call[c].to \in Names /\ p \in Parts /\ p \in call[c].todo
         /\ call[c].op = "duplicate" => call[c].from \in Names
         /\ "main" \in call[c].todo => p = "main"
         /\ call'[c] = Free \/ GoesOn(c, p)
         /\ Cargo(call[c], p) # {} /\ Cargo(call[c], p) \subseteq Numbers
         /\ call[c].op = "duplicate" \/ p = "main" \/ disk[call[c].to][p] = {}
         /\ disk' = [disk EXCEPT ![call[c].to][p] = disk[call[c].to][p] \cup Cargo(call[c], p)]
         /\ raced' = raced \cup Shared({call[c].to}, Others(c)) \cup Tainted(call[c])
         /\ UNCHANGED <<scene, live, plays, prop, env, box, saved, next, unmade>>
  <1> DEFINE r == call[c]
             what == Cargo(r, p)
  <1>1. /\ r.pc = "place"
        /\ Go(c, IF r.todo = {p} THEN Free ELSE [r EXCEPT !.todo = @ \ {p}])
        /\ what # {}
        /\ r.op = "duplicate" \/ p = "main" \/ disk[r.to][p] = {}
        /\ disk' = [disk EXCEPT ![r.to][p] = disk[r.to][p] \cup what]
        /\ raced' = raced \cup Shared({r.to}, Others(c)) \cup Tainted(r)
        /\ UNCHANGED <<scene, live, plays, prop, env, box, saved, next, unmade>>
    <2>1. r.to \in Names /\ p \in Parts
      <3>1. r.pc = "place"
        BY DEF PlacePart
      <3> QED BY <3>1, PartIs, CallFacts DEF Shape, CallRecords, OpKinds, Editors
    <2>2. disk' = [disk EXCEPT ![r.to][p] = @ \cup what]
      BY DEF PlacePart, Cargo
    <2>3. disk' = [disk EXCEPT ![r.to][p] = disk[r.to][p] \cup what]
      BY <2>1, <2>2 DEF IInv, TypeOK
    <2> QED BY <2>3 DEF PlacePart, Cargo
  <1>2. r.op \in {"duplicate", "install", "copy"} /\ r.todo # {} /\ r.todo \in SUBSET Parts
        /\ r.to \in Names /\ (r.op = "duplicate" => r.from \in Names)
    BY <1>1, CallFacts DEF Shape, CallRecords, OpKinds, Editors
  <1>3. p \in Parts /\ p \in r.todo /\ ("main" \in r.todo => p = "main")
    BY <1>2, PartIs
  <1>4. what \subseteq Numbers
    BY <1>2, <1>3, NamesAssumption DEF IInv, TypeOK, Numbers, LibraryWorld, Cargo
  <1>5. CASE r.todo = {p}
    BY <1>1, <1>2, <1>3, <1>4, <1>5, EndMoves
  <1>6. CASE r.todo # {p}
    BY <1>1, <1>2, <1>3, <1>4, <1>6, GoesOnMoves
  <1> QED BY <1>5, <1>6

LEMMA MovePartView ==
  ASSUME IInv, NEW c \in Calls, MovePart(c), NEW p, p = Part(call[c].todo)
  PROVE  /\ Moves(c) /\ asked' = asked /\ call[c].op = "rename" /\ call[c].pc = "move"
         /\ {call[c].from, call[c].to} \subseteq Names /\ call[c].from # call[c].to
         /\ p \in Parts /\ p \in call[c].todo
         /\ "main" \in call[c].todo => p = "main"
         /\ \/ GoesOn(c, p)
            \/ /\ call[c].todo = {p} /\ Kin(call[c], call'[c]) /\ call'[c].pc = "select"
               /\ call'[c].todo = {}
         /\ disk[call[c].from][p] # {}
         /\ disk[call[c].to][p] = {}
         /\ disk' = [disk EXCEPT ![call[c].to][p] = disk[call[c].from][p],
                                 ![call[c].from][p] = {}]
         /\ raced' = raced \cup Shared({call[c].from, call[c].to}, Others(c)) \cup Tainted(call[c])
         /\ UNCHANGED <<scene, live, plays, prop, env, box, saved, next, unmade>>
  <1> DEFINE r == call[c]
  <1>1. /\ r.pc = "move"
        /\ Go(c, IF r.todo = {p} THEN [r EXCEPT !.todo = {}, !.pc = "select"]
                 ELSE [r EXCEPT !.todo = @ \ {p}])
        /\ disk[r.from][p] # {}
        /\ disk[r.to][p] = {}
        /\ disk' = [disk EXCEPT ![r.to][p] = disk[r.from][p], ![r.from][p] = {}]
        /\ raced' = raced \cup Shared({r.from, r.to}, Others(c)) \cup Tainted(r)
        /\ UNCHANGED <<scene, live, plays, prop, env, box, saved, next, unmade>>
    BY DEF MovePart
  <1>2. r.op = "rename" /\ r.todo # {} /\ r.todo \in SUBSET Parts
        /\ {r.from, r.to} \subseteq Names /\ r.from # r.to
    BY <1>1, CallFacts DEF Shape, CallRecords, OpKinds, Editors
  <1>3. p \in Parts /\ p \in r.todo /\ ("main" \in r.todo => p = "main")
    BY <1>2, PartIs
  <1>4. CASE r.todo = {p}
    <2> DEFINE t == [r EXCEPT !.todo = {}, !.pc = "select"]
    <2>1. t \in CallRecords /\ Kin(r, t) /\ t.pc = "select" /\ t.todo = {}
      <3>1. r \in CallRecords /\ "select" \in Steps /\ {} \in SUBSET Parts
        BY CallFacts DEF Steps
      <3>2. t = [r EXCEPT !.todo = {}, !.pc = "select"]
        OBVIOUS
      <3> HIDE DEF t, r
      <3> QED BY <3>1, <3>2 DEF CallRecords, Kin
    <2>2. call' = [call EXCEPT ![c] = t] /\ asked' = asked
      BY <1>1, <1>4 DEF Go
    <2> HIDE DEF t
    <2>3. Shape(t)
      BY <1>1, <1>2, <2>1, CallFacts DEF Kin, Shape, Editors
    <2> QED BY <1>1, <1>2, <1>3, <1>4, <2>1, <2>2, <2>3, MovesTo
  <1>5. CASE r.todo # {p}
    BY <1>1, <1>2, <1>3, <1>5, GoesOnMoves
  <1> QED BY <1>4, <1>5

-----------------------------------------------------------------------------
(* The server comes up *)

\* All requests but those that started it go on, and note how it came up.
Wakes(starting, hows) ==
  /\ call' \in [Calls -> CallRecords]
  /\ \A d \in Calls :
       IF d \in starting THEN call'[d] = Free
       ELSE /\ Kin(call[d], call'[d]) /\ call'[d].pc = call[d].pc
            /\ call'[d].todo = call[d].todo /\ call[d].hit \subseteq call'[d].hit
            /\ call[d].op \notin {"none", "start"} => hows[d] \in call'[d].hit

\* The level n, and what the image makes of it.
Rises(n, missing) ==
  /\ n \in Names /\ missing \subseteq Parts
  /\ \A p \in Parts : p \in missing => disk[n][p] = {}
  /\ disk[n]["main"] = {} => "main" \in missing
  /\ missing # {} => next <= MaxWorld
  /\ live' /\ plays' = n /\ prop' = n
  /\ disk' = [disk EXCEPT ![n] = [p \in Parts |-> IF p \in missing THEN {next} ELSE disk[n][p]]]
  /\ next' = IF missing = {} THEN next ELSE next + 1
  /\ unmade' = unmade \ {n}
  /\ UNCHANGED <<scene, env, saved, asked>>

LEMMA BootsView ==
  ASSUME IInv, NEW level \in Names \cup {NoName}, NEW starting, Boots(level, starting)
  PROVE  \E missing \in SUBSET Parts :
           /\ Rises(ActiveLevel(level), missing)
           /\ raced' = raced \cup Shared({m \in {ActiveLevel(level)} : missing # {} \/ m # prop}, Calls \ starting)
           /\ box' = level
  <1> DEFINE n == ActiveLevel(level)
             missing == {p \in Parts : disk[n][p] = {} /\ (p = "main" \/ scene.split)}
  <1>1. n \in Names
    BY ActiveIs
  <1>2. /\ missing # {} => next <= MaxWorld
        /\ live' = TRUE
        /\ plays' = n
        /\ prop' = n
        /\ box' = level
        /\ disk' = [disk EXCEPT ![n] = [p \in Parts |->
                               IF p \in missing THEN {next} ELSE disk[n][p]]]
        /\ next' = IF missing = {} THEN next ELSE next + 1
        /\ raced' = raced \cup Shared({m \in {n} : missing # {} \/ m # prop}, Calls \ starting)
        /\ unmade' = unmade \ {n}
        /\ UNCHANGED <<scene, env, saved, asked>>
    BY DEF Boots
  <1>3. missing \in SUBSET Parts /\ (\A p \in Parts : p \in missing => disk[n][p] = {})
        /\ (disk[n]["main"] = {} => "main" \in missing)
    BY DEF Parts
  <1> HIDE DEF n, missing
  <1>5. Rises(n, missing)
    BY <1>1, <1>2, <1>3 DEF Rises
  <1>6. raced' = raced \cup Shared({m \in {n} : missing # {} \/ m # prop}, Calls \ starting)
    BY <1>2
  <1>7. missing \in SUBSET Parts /\ box' = level
    BY <1>2, <1>3
  <1>8. \E x \in SUBSET Parts : Rises(n, x) /\ box' = level
           /\ raced' = raced \cup Shared({m \in {n} : x # {} \/ m # prop}, Calls \ starting)
    BY <1>5, <1>6, <1>7
  <1> QED BY <1>8 DEF n

LEMMA SurprisedIs ==
  ASSUME NEW r \in CallRecords, NEW how \in {"start", "inflight", "woken"}
  PROVE  LET t == Surprised(r, how) IN
         /\ t \in CallRecords /\ Kin(r, t) /\ t.pc = r.pc /\ t.todo = r.todo
         /\ r.hit \subseteq t.hit /\ (r.op \notin {"none", "start"} => how \in t.hit)
  <1>1. CASE r.op \in {"none", "start"}
    BY <1>1 DEF Surprised, Kin
  <1>2. CASE r.op \notin {"none", "start"}
    <2>1. Surprised(r, how) = [r EXCEPT !.hit = r.hit \cup {how}]
      BY <1>2 DEF Surprised
    <2>2. r.hit \cup {how} \in SUBSET {"start", "inflight", "woken", "blind", "apart"}
      BY DEF CallRecords
    <2>3. ASSUME NEW h \in SUBSET {"start", "inflight", "woken", "blind", "apart"}
          PROVE  LET t == [r EXCEPT !.hit = h] IN
                 t \in CallRecords /\ Kin(r, t) /\ t.pc = r.pc /\ t.todo = r.todo /\ t.hit = h
      BY DEF CallRecords, Kin
    <2> QED BY <2>1, <2>2, <2>3
  <1> QED BY <1>1, <1>2

LEMMA ShapeKept ==
  ASSUME NEW r, NEW t, Shape(r), Kin(r, t), t.pc = r.pc, t.todo = r.todo
  PROVE  Shape(t)
  BY DEF Shape, Kin

\* A start that was asked for: those that were in flight with it note it so.
InFlight(c) == [d \in Calls |-> IF c \in call[d].beside THEN "inflight" ELSE "start"]

LEMMA LaunchView ==
  ASSUME IInv, NEW c \in Calls, Launch(c)
  PROVE  /\ Wakes({c}, InFlight(c)) /\ ~live /\ Starting(c)
         /\ call[c].env \in Names \cup {NoName}
         /\ Boots(call[c].env, {c})
  <1>1. /\ call[c].pc = "pull" /\ ~live /\ Boots(call[c].env, {c})
        /\ call' = [d \in Calls |->
                IF d = c THEN Free
                ELSE Surprised(call[d], IF c \in call[d].beside THEN "inflight" ELSE "start")]
    BY DEF Launch
  <1>2. Starting(c) /\ call[c].env \in Names \cup {NoName}
    BY <1>1, CallFacts DEF Shape, Starting, CallRecords
  <1>3. ASSUME NEW d \in Calls
        PROVE  /\ call'[d] \in CallRecords
               /\ IF d \in {c} THEN call'[d] = Free
                  ELSE /\ Kin(call[d], call'[d]) /\ call'[d].pc = call[d].pc
                       /\ call'[d].todo = call[d].todo /\ call[d].hit \subseteq call'[d].hit
                       /\ call[d].op \notin {"none", "start"} => InFlight(c)[d] \in call'[d].hit
    <2>1. CASE d = c
      BY <1>1, <2>1, FreeIs
    <2>2. CASE d # c
      <3>1. InFlight(c)[d] \in {"start", "inflight", "woken"} /\ call[d] \in CallRecords
        BY CallFacts DEF InFlight
      <3>2. call'[d] = Surprised(call[d], InFlight(c)[d])
        BY <1>1, <2>2 DEF InFlight
      <3> DEFINE h == InFlight(c)[d]
      <3>3. h \in {"start", "inflight", "woken"} /\ call'[d] = Surprised(call[d], h)
        BY <3>1, <3>2
      <3> HIDE DEF h
      <3>4. /\ call'[d] \in CallRecords /\ Kin(call[d], call'[d]) /\ call'[d].pc = call[d].pc
            /\ call'[d].todo = call[d].todo /\ call[d].hit \subseteq call'[d].hit
            /\ call[d].op \notin {"none", "start"} => h \in call'[d].hit
        BY <3>1, <3>3, SurprisedIs
      <3> QED BY <2>2, <3>4 DEF h
    <2> QED BY <2>1, <2>2
  <1>4. call' \in [Calls -> CallRecords]
    BY <1>1, <1>3
  <1> QED BY <1>1, <1>2, <1>3, <1>4 DEF Wakes

Woken == [d \in Calls |-> "woken"]

LEMMA RouterView ==
  ASSUME IInv, RouterStarts
  PROVE  Wakes({}, Woken) /\ ~live /\ box \in Names \cup {NoName} /\ Boots(box, {})
  <1>1. /\ ~live /\ Boots(box, {})
        /\ call' = [d \in Calls |-> Surprised(call[d], "woken")]
    BY DEF RouterStarts
  <1>2. ASSUME NEW d \in Calls
        PROVE  /\ call'[d] \in CallRecords
               /\ Kin(call[d], call'[d]) /\ call'[d].pc = call[d].pc
               /\ call'[d].todo = call[d].todo /\ call[d].hit \subseteq call'[d].hit
               /\ call[d].op \notin {"none", "start"} => Woken[d] \in call'[d].hit
    BY <1>1, CallFacts, SurprisedIs DEF Woken
  <1>3. call' \in [Calls -> CallRecords]
    BY <1>1, <1>2
  <1>4. box \in Names \cup {NoName}
    BY DEF IInv, TypeOK
  <1> QED BY <1>1, <1>2, <1>3, <1>4 DEF Wakes

-----------------------------------------------------------------------------
(* Types *)

Disks == [Names -> [Parts -> SUBSET Numbers]]

\* The directories with the part p of n holding ws.
WithPart(dk, n, p, ws) == [dk EXCEPT ![n][p] = ws]

LEMMA DiskSet ==
  ASSUME NEW dk \in Disks, NEW n \in Names, NEW p \in Parts, NEW ws \in SUBSET Numbers
  PROVE  /\ WithPart(dk, n, p, ws) \in Disks
         /\ \A m \in Names, q \in Parts :
              WithPart(dk, n, p, ws)[m][q] = IF m = n /\ q = p THEN ws ELSE dk[m][q]
  BY DEF Disks, WithPart

\* The types when one request goes on.
LEMMA TypesMove ==
  ASSUME IInv, NEW c \in Calls, Moves(c), asked' \in 0..scene.asks, scene' = scene,
         UNCHANGED <<live, plays, box>>, prop' \in Names, env' \in Names \cup {NoName},
         disk' \in Disks, saved' \subseteq Numbers, next' \in 1..MaxWorld + 1,
         raced' \subseteq Names, unmade' \subseteq Names
  PROVE  IInv'
  <1>1. TypeOK'
    BY DEF IInv, TypeOK, Moves, CallRecords, Disks, Numbers
  <1>2. \A d \in Calls : Shape(call'[d])
    BY DEF IInv, Moves
  <1> QED BY <1>1, <1>2 DEF IInv

\* And when it alone changes.
LEMMA TypesStand ==
  ASSUME IInv, NEW c \in Calls, Moves(c), StandStill, asked' \in 0..scene.asks \/ asked' = asked
  PROVE  IInv'
  BY TypesMove DEF IInv, TypeOK, StandStill, Disks

LEMMA SharedIs == \A ns, ds : Shared(ns, ds) \subseteq ns
  BY DEF Shared

LEMMA TaintedIs == ASSUME NEW r PROVE Tainted(r) \subseteq {r.to}
  BY DEF Tainted

LEMMA FootprintIs == ASSUME IInv, NEW c \in Calls PROVE Footprint(c) \subseteq Names
  BY CallFacts DEF Footprint, CallRecords

LEMMA BootsTypes ==
  ASSUME IInv, NEW level \in Names \cup {NoName}, NEW starting, NEW hows,
         Boots(level, starting), Wakes(starting, hows)
  PROVE  IInv'
  <1> DEFINE n == ActiveLevel(level)
  <1>1. PICK missing \in SUBSET Parts :
           /\ Rises(n, missing)
           /\ raced' = raced \cup Shared({m \in {n} : missing # {} \/ m # prop}, Calls \ starting)
           /\ box' = level
    BY BootsView
  <1>2. n \in Names
    BY <1>1 DEF Rises
  <1> HIDE DEF n
  <1>3. next \in 1..MaxWorld + 1 /\ MaxWorld \in Nat /\ disk \in Disks
    BY NamesAssumption DEF IInv, TypeOK, Disks
  <1>4. next' \in 1..MaxWorld + 1
    BY <1>1, <1>3 DEF Rises
  <1>5. disk' \in Disks
    <2>1. missing # {} => {next} \subseteq Numbers
      BY <1>1, <1>3 DEF Rises, Numbers
    <2>2. [p \in Parts |-> IF p \in missing THEN {next} ELSE disk[n][p]] \in [Parts -> SUBSET Numbers]
      BY <1>2, <1>3, <2>1 DEF Disks
    <2> QED BY <1>1, <1>3, <2>2 DEF Rises, Disks
  <1>6. raced' \subseteq Names /\ unmade' \subseteq Names
    BY <1>1, <1>2, SharedIs DEF Rises, IInv, TypeOK
  <1>7. \A d \in Calls : Shape(call'[d])
    BY ShapeKept, FreeIs DEF Wakes, IInv
  <1>8. call' \in [Calls -> CallRecords]
    BY DEF Wakes
  <1>9. live' \in BOOLEAN /\ {plays', env', box'} \subseteq Names \cup {NoName} /\ prop' \in Names
        /\ UNCHANGED <<scene, saved, asked>>
    BY <1>1, <1>2 DEF Rises, IInv, TypeOK
  <1>10. TypeOK'
    BY <1>4, <1>5, <1>6, <1>8, <1>9 DEF IInv, TypeOK, CallRecords, Disks, Numbers
  <1> QED BY <1>7, <1>10 DEF IInv

LEMMA InitTypes == Init => IInv
  <1> SUFFICES ASSUME Init PROVE IInv
    OBVIOUS
  <1> USE DEF Init
  <1>1. call \in [Calls -> CallRecords] /\ \A c \in Calls : Shape(call[c])
    BY FreeIs
  <1>2. disk \in Disks
    <2>1. {1} \subseteq Numbers /\ {2} \subseteq Numbers
      BY NamesAssumption DEF Numbers
    <2> QED BY <2>1 DEF Disks
  <1>3. next \in 1..MaxWorld + 1
    BY NamesAssumption
  <1>4. env \in Names \cup {NoName} /\ scene.asks \in Nat
    BY ScenesAssumption, NamesAssumption
  <1>5. prop \in Names /\ unmade \subseteq Names
    BY NamesAssumption
  <1>6. asked \in 0..scene.asks /\ live \in BOOLEAN /\ {plays, env, box} \subseteq Names \cup {NoName}
    <2>1. asked \in 0..scene.asks
      BY <1>4
    <2>2. live \in BOOLEAN
      OBVIOUS
    <2>3. plays = NoName /\ box = env
      OBVIOUS
    <2> QED BY <1>4, <2>1, <2>2, <2>3
  <1>7. saved \subseteq Numbers /\ raced \subseteq Names
    OBVIOUS
  <1> HIDE DEF Init
  <1>8. scene \in Scenes
    BY DEF Init
  <1>9. TypeOK
    BY <1>1, <1>2, <1>3, <1>5, <1>6, <1>7, <1>8 DEF TypeOK, CallRecords, Disks
  <1> QED BY <1>1, <1>9 DEF IInv

\* What the types say, as the lemmas cite it.
LEMMA TypeFacts ==
  ASSUME IInv
  PROVE  /\ disk \in Disks /\ next \in 1..MaxWorld + 1 /\ MaxWorld \in Nat
         /\ saved \subseteq Numbers /\ raced \subseteq Names /\ unmade \subseteq Names
         /\ prop \in Names /\ {plays, env, box} \subseteq Names \cup {NoName}
         /\ asked \in 0..scene.asks /\ live \in BOOLEAN
  BY NamesAssumption DEF IInv, TypeOK, Disks

LEMMA LevelledTypes ==
  ASSUME IInv, NEW c \in Calls, Moves(c), asked' = asked, NEW n \in Names, Levelled(c, n)
  PROVE  IInv'
  <1>1. raced' \subseteq Names
    BY SharedIs, TypeFacts DEF Levelled
  <1> QED BY <1>1, TypesMove, TypeFacts DEF Levelled

LEMMA SelectTypes ==
  ASSUME IInv, NEW c \in Calls, Select(c)
  PROVE  IInv'
  BY SelectView, LevelledTypes, TypesStand

LEMMA WriteEnvTypes ==
  ASSUME IInv, NEW c \in Calls, WriteEnv(c)
  PROVE  IInv'
  <1>1. raced' \subseteq Names /\ unmade' \subseteq Names
    <2>1. /\ raced' = raced \cup Shared({ActiveLevel(e) : e \in {env'} \ {env}}, Others(c))
          /\ unmade' = unmade \cup {n \in {prop} : env' = NoName /\ env # NoName /\ ~Exists(n)}
          /\ env' \in Names \cup {NoName}
      BY WriteEnvView
    <2>2. {ActiveLevel(e) : e \in {env'} \ {env}} \subseteq Names
      BY <2>1, ActiveIs
    <2> QED BY <2>1, <2>2, SharedIs, TypeFacts
  <1> QED BY <1>1, WriteEnvView, TypesMove, TypeFacts

LEMMA StepFailsTypes ==
  ASSUME IInv, NEW c \in Calls, StepFails(c)
  PROVE  IInv'
  <1>1. raced' \subseteq Names
    BY StepFailsView, FootprintIs, TypeFacts
  <1> QED BY <1>1, StepFailsView, TypesMove, TypeFacts

LEMMA BackupTypes ==
  ASSUME IInv, NEW c \in Calls, Backup(c)
  PROVE  IInv'
  <1>1. saved' \subseteq Numbers
    BY BackupView, TypeFacts DEF Disks
  <1> QED BY <1>1, BackupView, TypesMove, TypeFacts

LEMMA EditPartTypes ==
  ASSUME IInv, NEW c \in Calls, EditPart(c)
  PROVE  IInv'
  <1> DEFINE p == Part(call[c].todo)
  <1>0. /\ Moves(c) /\ asked' = asked
         /\ call[c].from \in Names /\ p \in Parts
         /\ \/ UNCHANGED <<disk, next, raced>>
            \/ /\ next <= MaxWorld
               /\ disk' = [disk EXCEPT ![call[c].from][p] = {next}]
               /\ next' = next + 1
               /\ raced' = raced \cup Shared({call[c].from}, Others(c))
         /\ UNCHANGED <<scene, live, plays, prop, env, box, saved, unmade>>
    BY EditPartView
  <1> HIDE DEF p
  <1>1. CASE UNCHANGED <<disk, next, raced>>
    BY <1>0, <1>1, TypesMove, TypeFacts
  <1>2. CASE /\ next <= MaxWorld
             /\ disk' = [disk EXCEPT ![call[c].from][p] = {next}]
             /\ next' = next + 1
             /\ raced' = raced \cup Shared({call[c].from}, Others(c))
    <2>1. next' \in 1..MaxWorld + 1 /\ {next} \subseteq Numbers
      BY <1>2, TypeFacts DEF Numbers
    <2>2. disk' \in Disks
      <3>1. disk' = WithPart(disk, call[c].from, p, {next})
        BY <1>2 DEF WithPart
      <3> QED BY <1>0, <2>1, <3>1, DiskSet, TypeFacts
    <2>3. raced' \subseteq Names
      BY <1>0, <1>2, SharedIs, TypeFacts
    <2> QED BY <1>0, <2>1, <2>2, <2>3, TypesMove, TypeFacts
  <1> QED BY <1>0, <1>1, <1>2

LEMMA RemovePartTypes ==
  ASSUME IInv, NEW c \in Calls, RemovePart(c)
  PROVE  IInv'
  <1> DEFINE p == Part(call[c].todo)
             n == Doomed(call[c])
  <1>1. /\ Moves(c) /\ asked' = asked /\ n \in Names /\ p \in Parts
         /\ disk' = [disk EXCEPT ![n][p] = {}]
         /\ raced' = raced \cup Shared({n}, Others(c))
         /\ unmade' = (IF call[c].op = "reset" THEN unmade \cup {n} ELSE unmade)
         /\ UNCHANGED <<scene, live, plays, prop, env, box, saved, next>>
    BY RemovePartView
  <1> HIDE DEF p, n
  <1>2. disk' \in Disks
    <2>1. disk' = WithPart(disk, n, p, {})
      BY <1>1 DEF WithPart
    <2>2. disk \in Disks /\ {} \in SUBSET Numbers
      BY TypeFacts
    <2>3. WithPart(disk, n, p, {}) \in Disks
      BY <1>1, <2>2, DiskSet
    <2> QED BY <2>1, <2>3
  <1>3. raced' \subseteq Names /\ unmade' \subseteq Names
    BY <1>1, SharedIs, TypeFacts
  <1> QED BY <1>1, <1>2, <1>3, TypesMove, TypeFacts

LEMMA PlacePartTypes ==
  ASSUME IInv, NEW c \in Calls, PlacePart(c)
  PROVE  IInv'
  <1> DEFINE p == Part(call[c].todo)
             what == Cargo(call[c], p)
             n == call[c].to
  <1>1. /\ Moves(c) /\ asked' = asked /\ n \in Names /\ p \in Parts
        /\ what \subseteq Numbers
        /\ disk' = [disk EXCEPT ![n][p] = disk[n][p] \cup what]
        /\ raced' = raced \cup Shared({n}, Others(c)) \cup Tainted(call[c])
        /\ UNCHANGED <<scene, live, plays, prop, env, box, saved, next, unmade>>
    BY PlacePartView
  <1>2. Tainted(call[c]) \subseteq {n}
    BY TaintedIs
  <1> HIDE DEF p, n, what
  <1>3. disk' \in Disks
    <2> DEFINE ws == disk[n][p] \cup what
    <2>1. disk' = WithPart(disk, n, p, ws)
      BY <1>1 DEF WithPart
    <2>2. disk \in Disks /\ ws \in SUBSET Numbers
      BY <1>1, TypeFacts DEF Disks
    <2> HIDE DEF ws
    <2>3. WithPart(disk, n, p, ws) \in Disks
      BY <1>1, <2>2, DiskSet
    <2> QED BY <2>1, <2>3
  <1>4. raced' \subseteq Names
    BY <1>1, <1>2, SharedIs, TypeFacts
  <1> QED BY <1>1, <1>3, <1>4, TypesMove, TypeFacts

LEMMA MovePartTypes ==
  ASSUME IInv, NEW c \in Calls, MovePart(c)
  PROVE  IInv'
  <1> DEFINE p == Part(call[c].todo)
             n == call[c].from
             m == call[c].to
  <1>1. /\ Moves(c) /\ asked' = asked /\ n \in Names /\ m \in Names /\ n # m /\ p \in Parts
        /\ disk' = [disk EXCEPT ![m][p] = disk[n][p], ![n][p] = {}]
        /\ raced' = raced \cup Shared({n, m}, Others(c)) \cup Tainted(call[c])
        /\ UNCHANGED <<scene, live, plays, prop, env, box, saved, next, unmade>>
    BY MovePartView
  <1>2. Tainted(call[c]) \subseteq {m}
    BY TaintedIs
  <1> HIDE DEF p, n, m
  <1>3. disk' \in Disks
    <2> DEFINE ws == disk[n][p]
               half == WithPart(disk, m, p, ws)
    <2>1. disk \in Disks /\ ws \in SUBSET Numbers /\ {} \in SUBSET Numbers
      BY <1>1, TypeFacts DEF Disks
    <2>2. [disk EXCEPT ![m][p] = disk[n][p], ![n][p] = {}] = WithPart(half, n, p, {})
      BY <1>1, <2>1 DEF Disks, WithPart
    <2>3. disk' = WithPart(half, n, p, {})
      BY <1>1, <2>2
    <2> HIDE DEF ws
    <2>4. half \in Disks
      BY <1>1, <2>1, DiskSet
    <2> HIDE DEF half
    <2>5. WithPart(half, n, p, {}) \in Disks
      BY <1>1, <2>1, <2>4, DiskSet
    <2> QED BY <2>3, <2>5
  <1>4. raced' \subseteq Names
    BY <1>1, <1>2, SharedIs, TypeFacts
  <1> QED BY <1>1, <1>3, <1>4, TypesMove, TypeFacts

\* The server's own steps leave the requests alone.
LEMMA PlayTypes ==
  ASSUME IInv, Play
  PROVE  IInv'
  <1> DEFINE part == [p \in Parts |-> IF disk[plays][p] = {} THEN {} ELSE {next}]
  <1>1. /\ disk' = [disk EXCEPT ![plays] = part] /\ next <= MaxWorld /\ next' = next + 1
        /\ raced' = raced \cup Shared({plays}, Calls)
        /\ UNCHANGED <<scene, live, plays, prop, env, box, saved, call, asked, unmade>>
    BY DEF Play
  <1>2. disk \in Disks /\ next \in 1..MaxWorld + 1 /\ MaxWorld \in Nat
    BY TypeFacts
  <1>3. {next} \in SUBSET Numbers /\ {} \in SUBSET Numbers /\ next' \in 1..MaxWorld + 1
    BY <1>1, <1>2 DEF Numbers
  <1>4. part \in [Parts -> SUBSET Numbers]
    BY <1>3
  <1> HIDE DEF part
  <1>5. disk' \in Disks
    BY <1>1, <1>2, <1>4 DEF Disks
  <1>6. raced' \subseteq Names
    <2>1. {plays} \cap Names \subseteq Names /\ plays \in Names \cup {NoName} /\ raced \subseteq Names
      BY TypeFacts
    <2>2. Shared({plays}, Calls) \subseteq Names
      BY FootprintIs DEF Shared
    <2> QED BY <1>1, <2>1, <2>2
  <1>7. TypeOK'
    BY <1>1, <1>3, <1>5, <1>6 DEF IInv, TypeOK, Disks
  <1> QED BY <1>1, <1>7 DEF IInv

\* The user edits LEVEL or level-name: the level becomes n, or stays.
Chosen ==
  (\E level \in Names \cup {NoName} : EditLevel(level)) \/ \E n \in Names : EditProperty(n)

LEMMA ChosenView ==
  ASSUME IInv, Chosen
  PROVE  /\ UNCHANGED <<scene, live, plays, box, disk, saved, next, call, asked>>
         /\ env' \in Names \cup {NoName} /\ prop' \in Names
         /\ \/ Chooses(IF env' # NoName THEN env' ELSE prop')
            \/ env' = env /\ env # NoName /\ UNCHANGED <<raced, unmade>>
         /\ raced \subseteq raced' /\ unmade \subseteq unmade'
  <1>1. ASSUME NEW level \in Names \cup {NoName}, EditLevel(level)
        PROVE  /\ UNCHANGED <<scene, live, plays, box, disk, saved, next, call, asked>>
               /\ env' \in Names \cup {NoName} /\ prop' \in Names
               /\ Chooses(IF env' # NoName THEN env' ELSE prop')
    BY <1>1, TypeFacts DEF EditLevel, ActiveLevel
  <1>2. ASSUME NEW n \in Names, EditProperty(n)
        PROVE  /\ UNCHANGED <<scene, live, plays, box, disk, saved, next, call, asked>>
               /\ env' \in Names \cup {NoName} /\ prop' \in Names
               /\ \/ Chooses(IF env' # NoName THEN env' ELSE prop')
                  \/ env' = env /\ env # NoName /\ UNCHANGED <<raced, unmade>>
    BY <1>2, TypeFacts DEF EditProperty
  <1>3. ASSUME NEW n, Chooses(n)
        PROVE  raced \subseteq raced' /\ unmade \subseteq unmade'
    BY <1>3 DEF Chooses
  <1> QED BY <1>1, <1>2, <1>3 DEF Chosen

LEMMA ChosenTypes ==
  ASSUME IInv, Chosen
  PROVE  IInv'
  <1>1. raced' \subseteq Names /\ unmade' \subseteq Names
    <2>1. ASSUME NEW n \in Names, Chooses(n)
          PROVE  raced' \subseteq Names /\ unmade' \subseteq Names
      BY <2>1, SharedIs, TypeFacts DEF Chooses
    <2> QED BY <2>1, ChosenView, TypeFacts
  <1>2. TypeOK'
    BY <1>1, ChosenView DEF IInv, TypeOK
  <1> QED BY <1>2, ChosenView DEF IInv

LEMMA ExitTypes ==
  ASSUME IInv, ContainerExits \/ UNCHANGED worldVars
  PROVE  IInv'
  BY DEF IInv, TypeOK, ContainerExits, worldVars

\* An install or a copy that begins, the install under the long-operation lock.
Asks(c, op, r) == Ask(c, op, r) /\ (op = "install" => Installing = {})

\* One disjunct of Next at a time, with what the views need to know of it.
StandsStill(c) ==
  \/ StartServer(c) \/ LaunchEnds(c) \/ Refused(c) \/ BackupFails(c)
  \/ \E wanted \in BOOLEAN : ResetWorld(c, wanted)
  \/ \E op \in {"install", "copy"} : Asks(c, op, Replace)
  \/ \E op \in {"install", "copy"}, n \in Names : Asks(c, op, Alongside(n))
  \/ \E n \in Names : ActivateWorld(c, n) \/ ShrinkWorld(c, n) \/ DeleteWorld(c, n)
  \/ \E n \in Names, wanted \in BOOLEAN : DeleteChunks(c, n, wanted)
  \/ \E n, m \in Names : RenameWorld(c, n, m) \/ DuplicateWorld(c, n, m)
  \/ RenameGoes(c) \/ ResetGoes(c) \/ ReplaceGoes(c) \/ EditGoes(c)
  \/ AlongsideGoes(c) \/ EnterGuard(c) \/ Recheck(c) \/ Extract(c)

Works(c) ==
  \/ EditPart(c) \/ Backup(c) \/ RemovePart(c) \/ PlacePart(c) \/ MovePart(c)
  \/ ActivateGoes(c) \/ Select(c) \/ WriteEnv(c) \/ StepFails(c)

LEMMA NextIs ==
  ASSUME Next
  PROVE  \/ RouterStarts \/ ContainerExits \/ Play
         \/ Chosen
         \/ \E c \in Calls : Launch(c) \/ StandsStill(c) \/ Works(c)
  <1>1. CASE \E c \in Calls : \E n \in Names :
            \/ ActivateWorld(c, n) \/ ShrinkWorld(c, n) \/ DeleteWorld(c, n)
            \/ InstallToServer(c, Alongside(n)) \/ CopyBetweenServers(c, Alongside(n))
            \/ \E wanted \in BOOLEAN : DeleteChunks(c, n, wanted)
            \/ \E m \in Names : RenameWorld(c, n, m) \/ DuplicateWorld(c, n, m)
    BY <1>1 DEF StandsStill, Asks, InstallToServer, CopyBetweenServers
  <1>2. CASE \E c \in Calls :
            \/ \E wanted \in BOOLEAN : ResetWorld(c, wanted)
            \/ InstallToServer(c, Replace) \/ CopyBetweenServers(c, Replace)
    BY <1>2 DEF StandsStill, Asks, InstallToServer, CopyBetweenServers
  <1>3. CASE \E c \in Calls :
       \/ StartServer(c) \/ Launch(c) \/ LaunchEnds(c)
       \/ RenameGoes(c) \/ ActivateGoes(c) \/ ResetGoes(c) \/ ReplaceGoes(c) \/ EditGoes(c)
       \/ Refused(c) \/ AlongsideGoes(c) \/ EnterGuard(c) \/ Recheck(c) \/ EditPart(c)
       \/ Backup(c) \/ BackupFails(c) \/ Extract(c) \/ RemovePart(c) \/ PlacePart(c)
       \/ MovePart(c) \/ Select(c) \/ WriteEnv(c) \/ StepFails(c)
    BY <1>3 DEF StandsStill, Works
  <1> QED BY <1>1, <1>2, <1>3 DEF Next, Chosen

LEMMA StandsStillTypes ==
  ASSUME IInv, NEW c \in Calls, StandsStill(c)
  PROVE  Moves(c) /\ StandStill /\ IInv'
  <1>1. Moves(c) /\ StandStill /\ (asked' \in 0..scene.asks \/ asked' = asked)
    <2>1. CASE StartServer(c) \/ LaunchEnds(c) \/ Refused(c) \/ BackupFails(c)
      <3>1. CASE StartServer(c)
        BY <3>1, StartView
      <3>2. CASE LaunchEnds(c) \/ Refused(c) \/ BackupFails(c)
        BY <3>2, EndView DEF EarlyEnd, LaunchEnds, Refused, BackupFails
      <3> QED BY <2>1, <3>1, <3>2
    <2>2. CASE \/ \E wanted \in BOOLEAN : ResetWorld(c, wanted)
               \/ \E op \in {"install", "copy"} : Asks(c, op, Replace)
               \/ \E op \in {"install", "copy"}, n \in Names : Asks(c, op, Alongside(n))
      BY <2>2, ResetView, ReplaceView, AlongsideView DEF Asks
    <2>3. CASE \/ \E n \in Names : ActivateWorld(c, n) \/ ShrinkWorld(c, n) \/ DeleteWorld(c, n)
               \/ \E n \in Names, wanted \in BOOLEAN : DeleteChunks(c, n, wanted)
               \/ \E n, m \in Names : RenameWorld(c, n, m) \/ DuplicateWorld(c, n, m)
      BY <2>3, ActivateView, ShrinkView, DeleteView, ChunksView, RenameView, DuplicateView
    <2>4. CASE RenameGoes(c) \/ ResetGoes(c) \/ ReplaceGoes(c) \/ EditGoes(c)
      BY <2>4, RenameGoesView, ResetGoesView, ReplaceGoesView, EditGoesView
    <2>5. CASE AlongsideGoes(c) \/ EnterGuard(c) \/ Recheck(c) \/ Extract(c)
      BY <2>5, AlongsideGoesView, EnterGuardView, RecheckView, ExtractView
    <2> QED BY <2>1, <2>2, <2>3, <2>4, <2>5 DEF StandsStill
  <1> QED BY <1>1, TypesStand

LEMMA WorksTypes ==
  ASSUME IInv, NEW c \in Calls, Works(c)
  PROVE  IInv'
  <1>1. CASE EditPart(c) \/ Backup(c) \/ RemovePart(c) \/ PlacePart(c) \/ MovePart(c)
    BY <1>1, EditPartTypes, BackupTypes, RemovePartTypes, PlacePartTypes, MovePartTypes
  <1>2. CASE ActivateGoes(c)
    BY <1>2, ActivateGoesView, LevelledTypes
  <1>3. CASE Select(c) \/ WriteEnv(c) \/ StepFails(c)
    BY <1>3, SelectTypes, WriteEnvTypes, StepFailsTypes
  <1> QED BY <1>1, <1>2, <1>3 DEF Works

LEMMA NextTypes == IInv /\ [Next]_worldVars => IInv'
  <1> SUFFICES ASSUME IInv, [Next]_worldVars PROVE IInv'
    OBVIOUS
  <1>1. CASE RouterStarts
    BY <1>1, RouterView, BootsTypes
  <1>2. CASE ContainerExits \/ UNCHANGED worldVars
    BY <1>2, ExitTypes
  <1>3. CASE Play
    BY <1>3, PlayTypes
  <1>4. CASE Chosen
    BY <1>4, ChosenTypes
  <1>5. CASE \E c \in Calls : Launch(c)
    BY <1>5, LaunchView, BootsTypes
  <1>6. CASE \E c \in Calls : StandsStill(c) \/ Works(c)
    BY <1>6, StandsStillTypes, WorksTypes
  <1> QED BY <1>1, <1>2, <1>3, <1>4, <1>5, <1>6, NextIs

\* Types and shapes: no request comes to a step that its operation does not have,
\* nor to one that works on a world without the name of it.
THEOREM WorldTypes == Spec => []TypeOK
  <1>1. IInv => TypeOK
    BY DEF IInv
  <1> QED BY InitTypes, NextTypes, <1>1, PTL DEF Spec

LEMMA IInvAlways == Spec => []IInv
  BY InitTypes, NextTypes, PTL DEF Spec

\* Where the steps change the disk, part by part.
Only(n, p, ws) ==
  \A m \in Names, q \in Parts : disk'[m][q] = IF m = n /\ q = p THEN ws ELSE disk[m][q]

LEMMA OnlyIs ==
  ASSUME IInv, NEW n \in Names, NEW p \in Parts, NEW ws, disk' = [disk EXCEPT ![n][p] = ws]
  PROVE  Only(n, p, ws)
  BY TypeFacts DEF Only, Disks

LEMMA EditDisk ==
  ASSUME IInv, NEW c \in Calls, EditPart(c)
  PROVE  \/ UNCHANGED <<disk, next, raced>>
         \/ Only(call[c].from, Part(call[c].todo), {next})
  <1> DEFINE p == Part(call[c].todo)
  <1>1. /\ call[c].from \in Names /\ p \in Parts
        /\ \/ UNCHANGED <<disk, next, raced>>
           \/ disk' = [disk EXCEPT ![call[c].from][p] = {next}]
    BY EditPartView
  <1> QED BY <1>1, OnlyIs

LEMMA RemoveDisk ==
  ASSUME IInv, NEW c \in Calls, RemovePart(c)
  PROVE  Only(Doomed(call[c]), Part(call[c].todo), {})
  <1> DEFINE p == Part(call[c].todo)
             n == Doomed(call[c])
  <1>1. n \in Names /\ p \in Parts /\ disk' = [disk EXCEPT ![n][p] = {}]
    BY RemovePartView
  <1> QED BY <1>1, OnlyIs

LEMMA PlaceDisk ==
  ASSUME IInv, NEW c \in Calls, PlacePart(c)
  PROVE  LET p == Part(call[c].todo)
         IN Only(call[c].to, p, disk[call[c].to][p] \cup Cargo(call[c], p))
  <1> DEFINE p == Part(call[c].todo)
  <1>1. /\ call[c].to \in Names /\ p \in Parts
        /\ disk' = [disk EXCEPT ![call[c].to][p] = disk[call[c].to][p] \cup Cargo(call[c], p)]
    BY PlacePartView
  <1> QED BY <1>1, OnlyIs

LEMMA MoveDisk ==
  ASSUME IInv, NEW c \in Calls, MovePart(c)
  PROVE  LET p == Part(call[c].todo) IN
         \A m \in Names, q \in Parts :
           disk'[m][q] = IF q # p THEN disk[m][q]
                         ELSE IF m = call[c].from THEN {}
                         ELSE IF m = call[c].to THEN disk[call[c].from][p]
                         ELSE disk[m][q]
  <1> DEFINE n == call[c].from
             k == call[c].to
             p == Part(call[c].todo)
  <1>1. /\ n \in Names /\ k \in Names /\ n # k /\ p \in Parts
        /\ disk' = [disk EXCEPT ![k][p] = disk[n][p], ![n][p] = {}]
    BY MovePartView
  <1> HIDE DEF n, k, p
  <1>2. \A m \in Names, q \in Parts :
           disk'[m][q] = IF q # p THEN disk[m][q]
                         ELSE IF m = n THEN {}
                         ELSE IF m = k THEN disk[n][p]
                         ELSE disk[m][q]
    BY <1>1, TypeFacts DEF Disks
  <1> QED BY <1>2 DEF n, k, p

LEMMA BootsDisk ==
  ASSUME IInv, NEW n \in Names, NEW missing \in SUBSET Parts, Rises(n, missing)
  PROVE  \A m \in Names, q \in Parts :
           disk'[m][q] = IF m = n /\ q \in missing THEN {next} ELSE disk[m][q]
  BY TypeFacts DEF Disks, Rises

-----------------------------------------------------------------------------
(* The locks, and worlds that are played *)

\* A start finds no editor in its guarded part and no install in progress, and
\* those that begin afterwards know of it.
LockInv ==
  /\ \A c, d \in Calls : InBody(call[c]) => ~Starting(d)
  /\ \A c, d \in Calls : call[c].op = "install" /\ Starting(d) => d \in call[c].beside

\* A request about to take a world off the disk, with its look behind it.
Taking(r) ==
  /\ r.pc \in {"backup", "extract", "remove", "move", "edit"}
  /\ r.pc = "extract" => r.backup

\* What it may take of the world the server is playing.
Excused(r, n) == (r.op = "delete" => r.from = n) => r.hit \cap Excuses(r.op) # {}

LiveInv ==
  /\ live => plays \in Names
  /\ \A c \in Calls : live /\ Taking(call[c]) => Excused(call[c], plays)

\* How one request may go on.
LockStep(c) ==
  /\ InBody(call'[c]) => InBody(call[c]) \/ Guarded = {}
  /\ call'[c].op = "start" => call[c].op = "start" \/ (Guarded = {} /\ Installing = {})
  /\ call'[c].op = "install" => \/ call[c].op = "install" /\ call'[c].beside = call[c].beside
                                \/ call'[c].beside = {d \in Calls : Starting(d)}

LiveStep(c) ==
  live /\ Taking(call'[c]) =>
    \/ Taking(call[c]) /\ call'[c].op = call[c].op /\ call'[c].from = call[c].from
       /\ call'[c].hit = call[c].hit
    \/ Excused(call'[c], plays)

LEMMA LockMoves ==
  ASSUME IInv, LockInv, NEW c \in Calls, Moves(c), LockStep(c)
  PROVE  LockInv'
  <1>1. ASSUME NEW a \in Calls, NEW b \in Calls, InBody(call'[a])
        PROVE  call'[b].op # "start"
    <2>1. CASE a = c /\ b = c
      BY <1>1, <2>1 DEF InBody, Editors
    <2>2. CASE a = c /\ b # c
      BY <1>1, <2>2 DEF LockStep, LockInv, Moves, Guarded, Starting
    <2>3. CASE a # c
      BY <1>1, <2>3 DEF LockStep, LockInv, Moves, Guarded, Starting
    <2> QED BY <2>1, <2>2, <2>3
  <1>2. ASSUME NEW a \in Calls, NEW b \in Calls, call'[a].op = "install", call'[b].op = "start"
        PROVE  b \in call'[a].beside
    <2>1. a # b
      BY <1>2
    <2>2. CASE a = c
      BY <1>2, <2>1, <2>2 DEF LockStep, LockInv, Moves, Starting
    <2>3. CASE a # c
      BY <1>2, <2>3 DEF LockStep, LockInv, Moves, Installing, Starting
    <2> QED BY <2>2, <2>3
  <1> QED BY <1>1, <1>2 DEF LockInv, Starting

LEMMA LiveMoves ==
  ASSUME IInv, LiveInv, NEW c \in Calls, Moves(c), LiveStep(c), UNCHANGED <<live, plays>>
  PROVE  LiveInv'
  <1>1. ASSUME NEW d \in Calls, live, Taking(call'[d])
        PROVE  Excused(call'[d], plays)
    BY <1>1 DEF LiveInv, LiveStep, Moves, Excused
  <1> QED BY <1>1 DEF LiveInv

\* Requests that end or only come closer to taking anything.
LEMMA FreeSteps ==
  ASSUME NEW c \in Calls, call'[c] = Free
  PROVE  LockStep(c) /\ LiveStep(c)
  BY FreeIs DEF LockStep, LiveStep, InBody, Taking, Editors

LEMMA FreshSteps ==
  ASSUME NEW c \in Calls, NEW op, NEW pc, Fresh(c, op, pc), pc \notin {"recheck", "edit", "backup"},
         op \in Editors => pc = "look",
         op = "start" => Guarded = {} /\ Installing = {}, op # "delete" => pc \notin {"extract", "remove", "move"},
         op = "delete" /\ live /\ plays = call'[c].from => "apart" \in call'[c].hit
  PROVE  LockStep(c) /\ LiveStep(c)
  <1>1. LockStep(c)
    BY DEF Fresh, LockStep, InBody
  <1>2. CASE op # "delete"
    <2>1. ~Taking(call'[c])
      BY <1>2 DEF Fresh, Taking
    <2> QED BY <1>1, <2>1 DEF LiveStep
  <1>3. CASE op = "delete"
    <2>1. "apart" \in Excuses("delete")
      BY DEF Excuses, Editors
    <2>2. live => Excused(call'[c], plays)
      BY <1>3, <2>1 DEF Fresh, Excused
    <2> QED BY <1>1, <2>2 DEF LiveStep
  <1> QED BY <1>2, <1>3

LEMMA StandsStillSteps ==
  ASSUME IInv, NEW c \in Calls, StandsStill(c)
  PROVE  LockStep(c) /\ LiveStep(c)
  <1>1. CASE LaunchEnds(c) \/ Refused(c) \/ BackupFails(c)
    BY <1>1, EndView, FreeSteps
  <1>2. CASE StartServer(c)
    <2>1. Fresh(c, "start", "pull") /\ Guarded = {} /\ Installing = {}
      BY <1>2, StartView DEF StartServer
    <2> QED BY <2>1, FreshSteps DEF Editors
  <1>3. CASE \E wanted \in BOOLEAN : ResetWorld(c, wanted)
    <2>1. Fresh(c, "reset", "look")
      BY <1>3, ResetView
    <2> QED BY <2>1, FreshSteps DEF Editors
  <1>4. CASE \E op \in {"install", "copy"} : Asks(c, op, Replace)
    <2>1. \E op \in {"install", "copy"} : Fresh(c, op, "look")
      BY <1>4, ReplaceView DEF Asks
    <2> QED BY <2>1, FreshSteps DEF Editors
  <1>5. CASE \E op \in {"install", "copy"}, n \in Names : Asks(c, op, Alongside(n))
    <2>1. \E op \in {"install", "copy"} : Fresh(c, op, "check")
      BY <1>5, AlongsideView DEF Asks
    <2> QED BY <2>1, FreshSteps DEF Editors
  <1>6. CASE \E n \in Names : ActivateWorld(c, n) \/ ShrinkWorld(c, n)
    <2>1. \E op \in {"activate", "shrink"} : Fresh(c, op, "look")
      BY <1>6, ActivateView, ShrinkView
    <2> QED BY <2>1, FreshSteps
  <1>7. CASE \E n \in Names : DeleteWorld(c, n)
    <2>1. Fresh(c, "delete", "remove") /\ (live /\ plays = call'[c].from => "apart" \in call'[c].hit)
      BY <1>7, DeleteView
    <2> QED BY <2>1, FreshSteps DEF Editors
  <1>8. CASE \E n \in Names, wanted \in BOOLEAN : DeleteChunks(c, n, wanted)
    <2>1. Fresh(c, "chunks", "look")
      BY <1>8, ChunksView
    <2> QED BY <2>1, FreshSteps
  <1>9. CASE \E n, m \in Names : RenameWorld(c, n, m)
    <2>1. Fresh(c, "rename", "look")
      BY <1>9, RenameView
    <2> QED BY <2>1, FreshSteps DEF Editors
  <1>10. CASE \E n, m \in Names : DuplicateWorld(c, n, m)
    <2>1. Fresh(c, "duplicate", "place")
      BY <1>10, DuplicateView
    <2> QED BY <2>1, FreshSteps DEF Editors
  <1>11. CASE RenameGoes(c)
    <2>1. /\ call'[c].op = "rename" /\ call'[c].pc = "move"
          /\ live => "blind" \in call'[c].hit
      BY <1>11, RenameGoesView DEF Kin
    <2>2. "blind" \in Excuses("rename")
      BY DEF Excuses, Editors
    <2> QED BY <2>1, <2>2 DEF LockStep, LiveStep, InBody, Editors, Excused
  <1>12. CASE ResetGoes(c)
    <2>1. /\ call'[c].op = "reset" /\ (live => "blind" \in call'[c].hit)
      BY <1>12, ResetGoesView
    <2>2. "blind" \in Excuses("reset")
      BY DEF Excuses, Editors
    <2> QED BY <2>1, <2>2 DEF LockStep, LiveStep, InBody, Editors, Excused
  <1>13. CASE ReplaceGoes(c)
    <2>1. /\ call'[c].op = call[c].op /\ call[c].op \in {"install", "copy"}
          /\ call'[c].beside = call[c].beside /\ (live => "blind" \in call'[c].hit)
      BY <1>13, ReplaceGoesView
    <2>2. "blind" \in Excuses("install") /\ "blind" \in Excuses("copy")
      BY DEF Excuses, Editors
    <2> QED BY <2>1, <2>2 DEF LockStep, LiveStep, InBody, Editors, Excused
  <1>14. CASE EditGoes(c)
    <2>1. call'[c].op \in Editors /\ call'[c].pc = "enter"
      BY <1>14, EditGoesView DEF Kin
    <2> QED BY <2>1 DEF LockStep, LiveStep, InBody, Editors, Taking
  <1>15. CASE AlongsideGoes(c)
    <2>1. /\ call'[c].op = call[c].op /\ call[c].op \in {"install", "copy"} /\ ~call'[c].backup
          /\ call'[c].pc = "extract" /\ call'[c].beside = call[c].beside
      BY <1>15, AlongsideGoesView DEF Kin
    <2> QED BY <2>1 DEF LockStep, LiveStep, InBody, Editors, Taking
  <1>16. CASE EnterGuard(c)
    <2>1. call'[c].op \in Editors /\ call'[c].pc = "recheck" /\ Guarded = {}
      BY <1>16, EnterGuardView DEF Kin
    <2> QED BY <2>1 DEF LockStep, LiveStep, InBody, Editors, Taking
  <1>17. CASE Recheck(c)
    <2>1. /\ call'[c].op \in Editors /\ call[c].op \in Editors /\ call[c].pc = "recheck"
          /\ live => "blind" \in call'[c].hit
      BY <1>17, RecheckView DEF Kin
    <2>2. "blind" \in Excuses(call'[c].op)
      BY <2>1 DEF Excuses, Editors
    <2> QED BY <2>1, <2>2 DEF LockStep, LiveStep, InBody, Editors, Excused
  <1>18. CASE Extract(c)
    <2>1. /\ call'[c].op = call[c].op /\ call[c].op \in {"install", "copy"}
          /\ call'[c].beside = call[c].beside /\ call'[c].from = call[c].from
          /\ call[c].pc = "extract" /\ call'[c].hit = call[c].hit
      BY <1>18, ExtractView DEF Kin
    <2>2. ~call[c].backup => call'[c].pc = "place"
      BY <1>18, ExtractView
    <2>3. Taking(call'[c]) => Taking(call[c])
      BY <2>1, <2>2 DEF Taking
    <2> QED BY <2>1, <2>3 DEF LockStep, LiveStep, InBody, Editors
  <1> QED BY <1>1, <1>2, <1>3, <1>4, <1>5, <1>6, <1>7, <1>8, <1>9, <1>10, <1>11, <1>12,
             <1>13, <1>14, <1>15, <1>16, <1>17, <1>18 DEF StandsStill

\* A request on its way takes more of what it was taking, or stops taking.
OnItsWay(c) ==
  \/ call'[c] = Free
  \/ /\ call'[c].op = call[c].op /\ call'[c].from = call[c].from
     /\ call'[c].beside = call[c].beside
     /\ InBody(call'[c]) => InBody(call[c])
     /\ Taking(call'[c]) => Taking(call[c]) /\ call'[c].hit = call[c].hit

LEMMA WaySteps ==
  ASSUME NEW c \in Calls, OnItsWay(c)
  PROVE  LockStep(c) /\ LiveStep(c)
  <1>1. CASE call'[c] = Free
    BY <1>1, FreeSteps
  <1>2. CASE call'[c] # Free
    BY <1>2 DEF OnItsWay, LockStep, LiveStep
  <1> QED BY <1>1, <1>2

LEMMA GoesOnWay ==
  ASSUME NEW c \in Calls, NEW p, GoesOn(c, p)
  PROVE  OnItsWay(c)
  BY DEF GoesOn, OnItsWay, Kin, InBody, Taking

LEMMA LevelledWay ==
  ASSUME NEW c \in Calls, NEW n, Levelled(c, n), call[c].op \in {"rename", "activate"}
  PROVE  OnItsWay(c)
  <1>1. CASE call'[c] = Free
    BY <1>1 DEF OnItsWay
  <1>2. CASE Kin(call[c], call'[c]) /\ call'[c].pc = "env"
    BY <1>2 DEF OnItsWay, Kin, InBody, Taking, Editors
  <1> QED BY <1>1, <1>2 DEF Levelled

LEMMA WorksSteps ==
  ASSUME IInv, NEW c \in Calls, Works(c)
  PROVE  LockStep(c) /\ LiveStep(c) /\ Moves(c) /\ UNCHANGED <<live, plays>>
  <1> DEFINE p == Part(call[c].todo)
  <1>1. CASE EditPart(c)
    <2>1. Moves(c) /\ (call'[c] = Free \/ GoesOn(c, p)) /\ UNCHANGED <<live, plays>>
      BY <1>1, EditPartView
    <2> QED BY <2>1, GoesOnWay, WaySteps DEF OnItsWay
  <1>2. CASE Backup(c)
    <2>1. /\ Moves(c) /\ UNCHANGED <<live, plays>>
          /\ call'[c].op = call[c].op /\ call'[c].from = call[c].from
          /\ call'[c].beside = call[c].beside /\ call'[c].hit = call[c].hit
          /\ call[c].pc = "backup"
      BY <1>2, BackupView
    <2>2. OnItsWay(c)
      BY <2>1 DEF OnItsWay, InBody, Taking
    <2> QED BY <2>1, <2>2, WaySteps
  <1>3. CASE RemovePart(c)
    <2>1. /\ Moves(c) /\ UNCHANGED <<live, plays>> /\ call[c].op \in {"reset", "delete", "install", "copy"}
          /\ \/ GoesOn(c, p) \/ call'[c] = Free
             \/ Kin(call[c], call'[c]) /\ call'[c].pc \in {"env", "place"}
      BY <1>3, RemovePartView
    <2>2. OnItsWay(c)
      <3>1. CASE Kin(call[c], call'[c]) /\ call'[c].pc \in {"env", "place"}
        BY <2>1, <3>1 DEF OnItsWay, Kin, InBody, Taking, Editors
      <3> QED BY <2>1, <3>1, GoesOnWay DEF OnItsWay
    <2> QED BY <2>1, <2>2, WaySteps
  <1>4. CASE PlacePart(c)
    <2>1. Moves(c) /\ (call'[c] = Free \/ GoesOn(c, p)) /\ UNCHANGED <<live, plays>>
      BY <1>4, PlacePartView
    <2> QED BY <2>1, GoesOnWay, WaySteps DEF OnItsWay
  <1>5. CASE MovePart(c)
    <2>1. /\ Moves(c) /\ UNCHANGED <<live, plays>> /\ call[c].op = "rename"
          /\ \/ GoesOn(c, p)
             \/ Kin(call[c], call'[c]) /\ call'[c].pc = "select"
      BY <1>5, MovePartView
    <2>2. OnItsWay(c)
      <3>1. CASE Kin(call[c], call'[c]) /\ call'[c].pc = "select"
        BY <2>1, <3>1 DEF OnItsWay, Kin, InBody, Taking, Editors
      <3> QED BY <2>1, <3>1, GoesOnWay
    <2> QED BY <2>1, <2>2, WaySteps
  <1>6. CASE ActivateGoes(c)
    <2>1. Moves(c) /\ Levelled(c, call[c].from) /\ call[c].op = "activate"
      BY <1>6, ActivateGoesView
    <2> QED BY <2>1, LevelledWay, WaySteps DEF Levelled
  <1>7. CASE Select(c)
    <2>1. Moves(c) /\ call[c].op = "rename"
      BY <1>7, SelectView
    <2>2. CASE Levelled(c, call[c].to)
      BY <2>1, <2>2, LevelledWay, WaySteps DEF Levelled
    <2>3. CASE call'[c] = Free /\ StandStill
      BY <2>1, <2>3, FreeSteps DEF StandStill
    <2> QED BY <1>7, <2>2, <2>3, SelectView
  <1>8. CASE WriteEnv(c)
    BY <1>8, WriteEnvView, FreeSteps
  <1>9. CASE StepFails(c)
    BY <1>9, StepFailsView, FreeSteps
  <1> QED BY <1>1, <1>2, <1>3, <1>4, <1>5, <1>6, <1>7, <1>8, <1>9 DEF Works

\* The server comes up only with nobody in the guarded part of an editor, and
\* every request that is underway notes it.
LEMMA WakesLocks ==
  ASSUME IInv, LockInv, NEW starting \in SUBSET Calls, NEW hows, Wakes(starting, hows)
  PROVE  LockInv'
  <1>1. \A d \in Calls :
          \/ call'[d].op = call[d].op /\ call'[d].pc = call[d].pc /\ call'[d].beside = call[d].beside
          \/ call'[d].op = "none"
    BY FreeIs DEF Wakes, Kin
  <1> QED BY <1>1 DEF LockInv, InBody, Starting, Editors

LEMMA WakesLive ==
  ASSUME IInv, LiveInv, NEW starting \in SUBSET Calls, NEW hows, Wakes(starting, hows), plays' \in Names,
         \A d \in Calls \ starting : Taking(call[d]) => hows[d] \in Excuses(call[d].op)
  PROVE  LiveInv'
  <1>1. ASSUME NEW d \in Calls, Taking(call'[d])
        PROVE  Excused(call'[d], plays')
    <2>1. d \notin starting
      BY <1>1, FreeIs DEF Wakes, Taking
    <2>2. Taking(call[d]) /\ call'[d].op = call[d].op /\ (call[d].op \notin {"none", "start"} => hows[d] \in call'[d].hit)
      BY <1>1, <2>1 DEF Wakes, Taking, Kin
    <2>3. call[d].op \notin {"none", "start"}
      BY <2>2, CallFacts DEF Taking, Shape
    <2> QED BY <2>1, <2>2, <2>3 DEF Excused
  <1> QED BY <1>1 DEF LiveInv

LEMMA LaunchFinds ==
  ASSUME IInv, LockInv, NEW c \in Calls, Launch(c), NEW d \in Calls \ {c}, Taking(call[d])
  PROVE  InFlight(c)[d] \in Excuses(call[d].op)
  <1>1. Starting(c)
    BY LaunchView
  <1>2. call[d].op \notin Editors
    BY <1>1 DEF LockInv, Taking, InBody
  <1>3. call[d].op = "install" => InFlight(c)[d] = "inflight"
    BY <1>1 DEF LockInv, InFlight
  <1>4. InFlight(c)[d] \in {"start", "inflight"}
    BY DEF InFlight
  <1> HIDE DEF InFlight
  <1>5. CASE call[d].op = "install"
    BY <1>3, <1>5 DEF Excuses, Editors
  <1>6. CASE call[d].op # "install"
    BY <1>2, <1>4, <1>6 DEF Excuses
  <1> QED BY <1>5, <1>6

LEMMA RisesToNames ==
  ASSUME IInv, NEW level \in Names \cup {NoName}, NEW starting, Boots(level, starting)
  PROVE  plays' \in Names
  BY BootsView DEF Rises

LInv == LockInv /\ LiveInv

LEMMA LiveInit == Init => LInv
  BY FreeIs DEF Init, LInv, LockInv, LiveInv, Taking, InBody, Starting, Editors

LEMMA LiveNext == IInv /\ LInv /\ [Next]_worldVars => LInv'
  <1> SUFFICES ASSUME IInv, LInv, [Next]_worldVars PROVE LInv'
    OBVIOUS
  <1> USE DEF LInv
  <1>1. CASE RouterStarts
    <2>1. Wakes({}, Woken) /\ plays' \in Names
      BY <1>1, RouterView, RisesToNames
    <2>2. \A d \in Calls : Woken[d] \in Excuses(call[d].op)
      BY DEF Woken, Excuses
    <2> HIDE DEF LInv
    <2>3. LockInv'
      BY <2>1, WakesLocks DEF LInv
    <2>4. LiveInv'
      BY <2>1, <2>2, WakesLive DEF LInv
    <2> QED BY <2>3, <2>4 DEF LInv
  <1>2. CASE ContainerExits \/ UNCHANGED worldVars \/ Play \/ Chosen
    <2>1. call' = call /\ (live' => live /\ plays' = plays)
      <3>1. CASE ContainerExits
        BY <3>1 DEF ContainerExits
      <3>2. CASE UNCHANGED worldVars
        BY <3>2 DEF worldVars
      <3>3. CASE Play
        <4>1. UNCHANGED <<live, plays, call>>
          BY <3>3 DEF Play
        <4> QED BY <4>1
      <3>4. CASE Chosen
        BY <3>4, ChosenView
      <3> QED BY <1>2, <3>1, <3>2, <3>3, <3>4
    <2> QED BY <2>1 DEF LockInv, LiveInv, Starting, InBody
  <1>3. ASSUME NEW c \in Calls, Launch(c) PROVE LInv'
    <2>1. Wakes({c}, InFlight(c)) /\ plays' \in Names
      BY <1>3, LaunchView, RisesToNames
    <2>2. \A d \in Calls \ {c} : Taking(call[d]) => InFlight(c)[d] \in Excuses(call[d].op)
      BY <1>3, LaunchFinds
    <2>3. LockInv'
      BY <2>1, WakesLocks
    <2>4. LiveInv'
      BY <2>1, <2>2, WakesLive
    <2> QED BY <2>3, <2>4
  <1>4. ASSUME NEW c \in Calls, StandsStill(c) PROVE LInv'
    <2>1. LockStep(c) /\ LiveStep(c) /\ Moves(c) /\ UNCHANGED <<live, plays>>
      BY <1>4, StandsStillSteps, StandsStillTypes DEF StandStill
    <2> QED BY <2>1, LockMoves, LiveMoves
  <1>5. ASSUME NEW c \in Calls, Works(c) PROVE LInv'
    BY <1>5, WorksSteps, LockMoves, LiveMoves
  <1> QED BY <1>1, <1>2, <1>3, <1>4, <1>5, NextIs

\* What a request takes of the world that is played.
LEMMA LossIsTaken ==
  ASSUME IInv, live, plays \in Names, [Next]_worldVars, NEW c \in Calls, call'[c] # call[c],
         NEW p \in Parts, ~(disk[plays][p] \subseteq disk'[plays][p])
  PROVE  Taking(call[c]) /\ (call[c].op = "delete" => call[c].from = plays)
  <1>1. CASE RouterStarts \/ \E d \in Calls : Launch(d)
    BY <1>1 DEF RouterStarts, Launch
  <1>2. CASE ContainerExits \/ UNCHANGED worldVars \/ Play \/ Chosen
    BY <1>2, ChosenView DEF ContainerExits, worldVars, Play
  <1>3. ASSUME NEW d \in Calls, StandsStill(d)
        PROVE  FALSE
    BY <1>3, StandsStillTypes DEF StandStill
  <1>4. ASSUME NEW d \in Calls, Works(d)
        PROVE  Taking(call[c]) /\ (call[c].op = "delete" => call[c].from = plays)
    <2>1. d = c
      BY <1>4, WorksSteps DEF Moves
    <2>2. CASE EditPart(c)
      <3>1. call[c].pc = "edit" /\ call[c].op \in Editors
        BY <2>2, EditPartView
      <3> QED BY <3>1 DEF Taking, Editors
    <2>3. CASE RemovePart(c)
      <3>1. call[c].pc = "remove"
        BY <2>3, RemovePartView
      <3>2. Doomed(call[c]) = plays
        BY <2>3, RemoveDisk DEF Only
      <3> QED BY <3>1, <3>2 DEF Taking, Doomed
    <2>4. CASE PlacePart(c)
      BY <2>4, PlaceDisk DEF Only
    <2>5. CASE MovePart(c)
      <3>1. call[c].pc = "move" /\ call[c].op = "rename"
        BY <2>5, MovePartView
      <3> QED BY <3>1 DEF Taking
    <2>6. CASE Backup(c) \/ ActivateGoes(c) \/ Select(c) \/ WriteEnv(c) \/ StepFails(c)
      <3>1. CASE Backup(c) \/ ActivateGoes(c)
        <4>1. disk' = disk
          <5>1. CASE Backup(c)
            BY <5>1 DEF Backup
          <5>2. CASE ActivateGoes(c)
            BY <5>2, ActivateGoesView DEF Levelled
          <5> QED BY <3>1, <5>1, <5>2
        <4> QED BY <4>1
      <3>2. CASE Select(c)
        BY <3>2 DEF Select
      <3>3. CASE WriteEnv(c) \/ StepFails(c)
        BY <3>3 DEF WriteEnv, StepFails
      <3> QED BY <2>6, <3>1, <3>2, <3>3
    <2> QED BY <1>4, <2>1, <2>2, <2>3, <2>4, <2>5, <2>6 DEF Works
  <1> QED BY <1>1, <1>2, <1>3, <1>4, NextIs

\* A world being played loses files to a request only where the server came up
\* in one of the ways that its locks leave open: an editor of region files, that
\* is, only after a wake-up by mc-router or a look that Docker did not answer.
THEOREM PlayedWorldsAreLeftAlone == Spec => LiveWorldsAreLeftAlone
  <1>1. IInv /\ LInv /\ [Next]_worldVars =>
          [\A c \in Calls :
             /\ live /\ call'[c] # call[c]
             /\ \E p \in Parts : ~(disk[plays][p] \subseteq disk'[plays][p])
             => call[c].hit \cap Excuses(call[c].op) # {}]_worldVars
    BY LossIsTaken DEF LInv, LiveInv, Excused
  <1>2. Spec => [](IInv /\ LInv)
    BY InitTypes, NextTypes, LiveInit, LiveNext, PTL DEF Spec
  <1> QED BY <1>1, <1>2, PTL DEF Spec, LiveWorldsAreLeftAlone

-----------------------------------------------------------------------------
(* What a step of one request, or of the server, does to the others *)

\* Whoever is at work on a name that the step writes finds it in raced.
Touches(who) ==
  \A n \in Names : (\E p \in Parts : disk'[n][p] # disk[n][p])
    => \A d \in who : n \in Footprint(d) => n \in raced'

\* Every number on the disk was on it, or is the library's or the next one.
Growth ==
  \A n \in Names, p \in Parts : \A w \in disk'[n][p] :
    \/ w = LibraryWorld
    \/ w = next /\ next' = next + 1
    \/ \E m \in Names, q \in Parts : w \in disk[m][q]

Ages == raced \subseteq raced' /\ saved \subseteq saved' /\ next <= next'

LEMMA SharedHas ==
  ASSUME NEW ns, NEW ds, NEW n \in ns, NEW d \in ds, n \in Footprint(d)
  PROVE  n \in Shared(ns, ds)
  BY DEF Shared

LEMMA OnlyTouches ==
  ASSUME NEW n \in Names, NEW p \in Parts, NEW ws, Only(n, p, ws), NEW who,
         Shared({n}, who) \subseteq raced'
  PROVE  Touches(who)
  <1>1. \A m \in Names, q \in Parts : disk'[m][q] # disk[m][q] => m = n
    BY DEF Only
  <1> QED BY <1>1, SharedHas DEF Touches

LEMMA OnlyGrows ==
  ASSUME NEW n \in Names, NEW p \in Parts, NEW ws, Only(n, p, ws),
         \A w \in ws : \/ w = LibraryWorld
                       \/ w = next /\ next' = next + 1
                       \/ \E m \in Names, q \in Parts : w \in disk[m][q]
  PROVE  Growth
  BY DEF Only, Growth

LEMMA StillGrows ==
  ASSUME IInv, disk' = disk, next' = next, saved \subseteq saved', raced \subseteq raced', NEW who
  PROVE  Touches(who) /\ Growth /\ Ages
  <1>1. next <= next'
    BY TypeFacts
  <1> QED BY <1>1 DEF Touches, Growth, Ages

LEMMA WorksGrows ==
  ASSUME IInv, NEW c \in Calls, Works(c)
  PROVE  Touches(Others(c)) /\ Growth /\ Ages
  <1> DEFINE p == Part(call[c].todo)
             n == Doomed(call[c])
             r == call[c]
  <1>1. CASE EditPart(c)
    <2>1. CASE UNCHANGED <<disk, next, raced>>
      <3>1. saved' = saved
        BY <1>1, EditPartView
      <3> QED BY <2>1, <3>1, StillGrows
    <2>2. CASE ~UNCHANGED <<disk, next, raced>>
      <3>1. /\ r.from \in Names /\ p \in Parts /\ next' = next + 1 /\ saved' = saved
            /\ raced' = raced \cup Shared({r.from}, Others(c))
        BY <1>1, <2>2, EditPartView
      <3>2. Only(r.from, p, {next})
        BY <1>1, <2>2, EditDisk
      <3> HIDE DEF p, r
      <3>3. Touches(Others(c))
        BY <3>1, <3>2, OnlyTouches
      <3>4. Growth
        BY <3>1, <3>2, OnlyGrows
      <3>5. next <= next'
        BY <3>1, TypeFacts
      <3> QED BY <3>1, <3>3, <3>4, <3>5 DEF Ages
    <2> QED BY <2>1, <2>2
  <1>2. CASE RemovePart(c)
    <2>1. /\ n \in Names /\ p \in Parts /\ next' = next /\ saved' = saved
          /\ raced' = raced \cup Shared({n}, Others(c))
      BY <1>2, RemovePartView
    <2>2. Only(n, p, {})
      BY <1>2, RemoveDisk
    <2> HIDE DEF n, p
    <2>3. Touches(Others(c))
      BY <2>1, <2>2, OnlyTouches
    <2>4. Growth
      BY <2>1, <2>2, OnlyGrows
    <2>5. next <= next'
      BY <2>1, TypeFacts
    <2> QED BY <2>1, <2>3, <2>4, <2>5 DEF Ages
  <1>3. CASE PlacePart(c)
    <2> DEFINE ws == disk[r.to][p] \cup Cargo(r, p)
    <2>1. /\ r.to \in Names /\ p \in Parts /\ next' = next /\ saved' = saved
          /\ raced' = raced \cup Shared({r.to}, Others(c)) \cup Tainted(r)
          /\ r.op = "duplicate" => r.from \in Names
      BY <1>3, PlacePartView
    <2>2. Only(r.to, p, ws)
      BY <1>3, PlaceDisk
    <2>3. \A w \in ws : w = LibraryWorld \/ \E m \in Names, q \in Parts : w \in disk[m][q]
      BY <2>1 DEF Cargo
    <2> HIDE DEF r, p, ws
    <2>4. Touches(Others(c))
      BY <2>1, <2>2, OnlyTouches
    <2>5. Growth
      BY <2>1, <2>2, <2>3, OnlyGrows
    <2>6. next <= next'
      BY <2>1, TypeFacts
    <2> QED BY <2>1, <2>4, <2>5, <2>6 DEF Ages
  <1>4. CASE MovePart(c)
    <2>1. /\ {r.from, r.to} \subseteq Names /\ p \in Parts /\ next' = next /\ saved' = saved
          /\ raced' = raced \cup Shared({r.from, r.to}, Others(c)) \cup Tainted(r)
      BY <1>4, MovePartView
    <2>2. \A m \in Names, q \in Parts :
            disk'[m][q] = IF q # p THEN disk[m][q]
                          ELSE IF m = r.from THEN {}
                          ELSE IF m = r.to THEN disk[r.from][p]
                          ELSE disk[m][q]
      BY <1>4, MoveDisk
    <2> HIDE DEF r, p
    <2>3. Touches(Others(c))
      <3>1. \A m \in Names, q \in Parts : disk'[m][q] # disk[m][q] => m \in {r.from, r.to}
        BY <2>2
      <3> QED BY <2>1, <3>1, SharedHas DEF Touches
    <2>4. Growth
      BY <2>1, <2>2 DEF Growth
    <2>5. next <= next'
      BY <2>1, TypeFacts
    <2> QED BY <2>1, <2>3, <2>4, <2>5 DEF Ages
  <1>5. CASE Backup(c)
    <2>1. disk' = disk /\ next' = next /\ saved \subseteq saved' /\ raced' = raced
      BY <1>5 DEF Backup
    <2> QED BY <2>1, StillGrows
  <1>6. CASE ActivateGoes(c) \/ Select(c) \/ WriteEnv(c) \/ StepFails(c)
    <2>1. disk' = disk /\ next' = next /\ saved' = saved
      <3>1. CASE ActivateGoes(c)
        BY <3>1, ActivateGoesView DEF Levelled
      <3>2. CASE Select(c)
        BY <3>2 DEF Select
      <3>3. CASE WriteEnv(c) \/ StepFails(c)
        BY <3>3 DEF WriteEnv, StepFails
      <3> QED BY <1>6, <3>1, <3>2, <3>3
    <2>2. raced \subseteq raced'
      <3>1. CASE ActivateGoes(c)
        BY <3>1, ActivateGoesView DEF Levelled
      <3>2. CASE Select(c)
        BY <3>2, SelectView DEF Levelled, StandStill
      <3>3. CASE WriteEnv(c) \/ StepFails(c)
        BY <3>3, WriteEnvView, StepFailsView
      <3> QED BY <1>6, <3>1, <3>2, <3>3
    <2> QED BY <2>1, <2>2, StillGrows
  <1> QED BY <1>1, <1>2, <1>3, <1>4, <1>5, <1>6 DEF Works

LEMMA BootsGrows ==
  ASSUME IInv, NEW level \in Names \cup {NoName}, NEW starting, Boots(level, starting)
  PROVE  Touches(Calls \ starting) /\ Growth /\ Ages
  <1> DEFINE n == ActiveLevel(level)
  <1>1. PICK missing \in SUBSET Parts :
           /\ Rises(n, missing)
           /\ raced' = raced \cup Shared({m \in {n} : missing # {} \/ m # prop}, Calls \ starting)
    BY BootsView
  <1> HIDE DEF n
  <1>3. /\ next' = (IF missing = {} THEN next ELSE next + 1) /\ saved' = saved
        /\ n \in Names
    BY <1>1 DEF Rises
  <1>2. \A m \in Names, q \in Parts :
           disk'[m][q] = IF m = n /\ q \in missing THEN {next} ELSE disk[m][q]
    BY <1>1, <1>3, BootsDisk
  <1>4. Touches(Calls \ starting)
    <2>1. ASSUME NEW m \in Names, NEW q \in Parts, disk'[m][q] # disk[m][q]
          PROVE  m \in {k \in {n} : missing # {} \/ k # prop}
      BY <1>2, <2>1
    <2> QED BY <1>1, <2>1, SharedHas DEF Touches
  <1>5. Growth
    BY <1>2, <1>3 DEF Growth
  <1>6. next <= next'
    BY <1>3, TypeFacts
  <1> QED BY <1>1, <1>3, <1>4, <1>5, <1>6 DEF Ages

LEMMA PlayGrows ==
  ASSUME IInv, Play, plays \in Names
  PROVE  /\ Touches(Calls) /\ Growth /\ Ages
         /\ \A m \in Names, q \in Parts :
              disk'[m][q] = IF m # plays \/ disk[m][q] = {} THEN disk[m][q] ELSE {next}
  <1>1. /\ disk' = [disk EXCEPT ![plays] = [p \in Parts |-> IF disk[plays][p] = {} THEN {} ELSE {next}]]
        /\ next <= MaxWorld /\ next' = next + 1
        /\ raced' = raced \cup Shared({plays}, Calls)
        /\ saved' = saved
    BY DEF Play
  <1>2. \A m \in Names, q \in Parts :
           disk'[m][q] = IF m # plays \/ disk[m][q] = {} THEN disk[m][q] ELSE {next}
    BY <1>1, TypeFacts DEF Disks
  <1>3. Touches(Calls)
    <2>1. \A m \in Names, q \in Parts : disk'[m][q] # disk[m][q] => m = plays
      BY <1>2
    <2> QED BY <1>1, <2>1, SharedHas DEF Touches
  <1>4. Growth
    BY <1>1, <1>2 DEF Growth
  <1>5. next <= next'
    BY <1>1, TypeFacts
  <1> QED BY <1>1, <1>2, <1>3, <1>4, <1>5 DEF Ages

-----------------------------------------------------------------------------
(* Backups before a world is taken *)

\* A request with its backup behind it, and the parts it has yet to take.
Saved(r) == r.backup /\ r.pc \in {"extract", "remove", "edit"}
Covered(r, p) == r.pc = "extract" \/ p \in r.todo

\* What the disk held when it was made is in a backup; what has come since is
\* newer, and on the world to be taken it is another request's or the server's.
Kept(w) == w \in saved \cup {LibraryWorld}
CoverOf(c) ==
  Saved(call[c]) =>
    /\ call[c].upto <= next
    /\ \A n \in Names, p \in Parts : \A w \in disk[n][p] : Kept(w) \/ w >= call[c].upto
    /\ \A p \in Parts : Covered(call[c], p) =>
         \A w \in disk[Doomed(call[c])][p] : Kept(w) \/ Doomed(call[c]) \in raced

CoverInv ==
  /\ \A n \in Names, p \in Parts : \A w \in disk[n][p] : w < next
  /\ \A c \in Calls : CoverOf(c)

LEMMA DoomedIn ==
  ASSUME IInv, NEW d \in Calls, call[d].pc \in {"remove", "edit"} \/ Saved(call[d])
  PROVE  Doomed(call[d]) \in Names /\ Doomed(call[d]) \in Footprint(d)
  <1>1. /\ Shape(call[d]) /\ call[d].pc \in {"extract", "remove", "edit"}
        /\ call[d].op \in OpKinds \cup {"none"}
    BY CallFacts DEF Saved, CallRecords
  <1>2. Doomed(call[d]) \in {call[d].from, call[d].to} /\ Doomed(call[d]) \in Names
    BY <1>1 DEF Shape, Doomed, OpKinds, Editors
  <1> QED BY <1>1, <1>2, NamesAssumption DEF Footprint, Underway

LEMMA Younger ==
  ASSUME IInv, CoverInv, Growth, Ages, IInv'
  PROVE  \A n \in Names, p \in Parts : \A w \in disk'[n][p] : w < next'
  <1> SUFFICES ASSUME NEW n \in Names, NEW p \in Parts, NEW w \in disk'[n][p]
               PROVE  w < next'
    OBVIOUS
  <1>1. next \in Nat /\ next' \in Nat /\ 0 < next /\ next <= next'
    BY TypeFacts DEF IInv, TypeOK, Ages
  <1>2. CASE w = LibraryWorld
    BY <1>1, <1>2 DEF LibraryWorld
  <1>3. CASE w = next /\ next' = next + 1
    BY <1>1, <1>3
  <1>4. CASE \E m \in Names, q \in Parts : w \in disk[m][q]
    <2>1. w < next /\ w \in Nat
      BY <1>4, TypeFacts DEF CoverInv, Disks, Numbers
    <2> QED BY <1>1, <2>1
  <1> QED BY <1>2, <1>3, <1>4 DEF Growth

\* The request takes no more than it did, of the same world.
NoMore(d) ==
  Saved(call'[d]) =>
    /\ Saved(call[d]) /\ call'[d].upto = call[d].upto /\ Doomed(call'[d]) = Doomed(call[d])
    /\ \A p \in Parts : Covered(call'[d], p) => Covered(call[d], p)

LEMMA CoverKept ==
  ASSUME IInv, IInv', CoverInv, Growth, Ages, NEW d \in Calls, NoMore(d),
         Saved(call'[d]) =>
           \A p \in Parts : Covered(call'[d], p) =>
             \/ disk'[Doomed(call[d])][p] \subseteq disk[Doomed(call[d])][p]
             \/ Doomed(call[d]) \in raced'
  PROVE  CoverOf(d)'
  <1> SUFFICES ASSUME Saved(call'[d]) PROVE CoverOf(d)'
    BY DEF CoverOf
  <1> DEFINE n == Doomed(call[d])
             u == call[d].upto
  <1>1. /\ Saved(call[d]) /\ call'[d].upto = u /\ Doomed(call'[d]) = n
        /\ \A p \in Parts : Covered(call'[d], p) => Covered(call[d], p)
    BY DEF NoMore
  <1>2. /\ u <= next
        /\ \A m \in Names, p \in Parts : \A w \in disk[m][p] : Kept(w) \/ w >= u
        /\ \A p \in Parts : Covered(call[d], p) => \A w \in disk[n][p] : Kept(w) \/ n \in raced
    BY <1>1 DEF CoverInv, CoverOf
  <1>3. n \in Names
    BY <1>1, DoomedIn
  <1>4. \A w : Kept(w) => Kept(w)'
    BY DEF Kept, Ages
  <1>5. u \in Nat /\ next \in Nat /\ next' \in Nat /\ next <= next'
    <2>1. next \in Nat /\ next' \in Nat
      BY NamesAssumption DEF IInv, TypeOK
    <2>2. u \in Nat
      BY CallFacts, NamesAssumption DEF CallRecords
    <2> QED BY <2>1, <2>2 DEF Ages
  <1> HIDE DEF n, u
  <1>6. u <= next'
    BY <1>2, <1>5
  <1>7. ASSUME NEW m \in Names, NEW p \in Parts, NEW w \in disk'[m][p]
        PROVE  Kept(w)' \/ w >= u
    <2>1. CASE w = LibraryWorld
      BY <2>1 DEF Kept
    <2>2. CASE w = next
      BY <1>2, <1>5, <2>2
    <2>3. CASE \E k \in Names, q \in Parts : w \in disk[k][q]
      BY <1>2, <1>4, <2>3
    <2> QED BY <2>1, <2>2, <2>3 DEF Growth
  <1>8. ASSUME NEW p \in Parts, Covered(call'[d], p), NEW w \in disk'[n][p]
        PROVE  Kept(w)' \/ n \in raced'
    <2>1. CASE n \in raced'
      BY <2>1
    <2>2. CASE disk'[n][p] \subseteq disk[n][p]
      BY <1>1, <1>2, <1>4, <1>8, <2>2 DEF Ages
    <2> QED BY <1>8, <2>1, <2>2 DEF n
  <1> QED BY <1>1, <1>6, <1>7, <1>8 DEF CoverOf

\* Those whose own step it is not.
LEMMA CoverOthers ==
  ASSUME IInv, IInv', CoverInv, Growth, Ages, NEW who, Touches(who), NEW d \in Calls, d \in who,
         NoMore(d)
  PROVE  CoverOf(d)'
  <1>1. ASSUME NEW p \in Parts, Saved(call'[d]), Covered(call'[d], p)
        PROVE  \/ disk'[Doomed(call[d])][p] \subseteq disk[Doomed(call[d])][p]
               \/ Doomed(call[d]) \in raced'
    <2>1. Doomed(call[d]) \in Names /\ Doomed(call[d]) \in Footprint(d)
      BY <1>1, DoomedIn DEF NoMore
    <2> QED BY <2>1 DEF Touches
  <1> QED BY <1>1, CoverKept

LEMMA NotSaved ==
  ASSUME NEW d \in Calls, ~Saved(call'[d])
  PROVE  NoMore(d) /\ CoverOf(d)'
  BY DEF NoMore, CoverOf

LEMMA FreeNotSaved == ~Saved(Free)
  BY FreeIs DEF Saved

LEMMA GoesOnNoMore ==
  ASSUME NEW c \in Calls, NEW p, GoesOn(c, p)
  PROVE  NoMore(c)
  BY DEF GoesOn, NoMore, Kin, Saved, Covered, Doomed

LEMMA StandsStillNoMore ==
  ASSUME IInv, NEW c \in Calls, StandsStill(c)
  PROVE  NoMore(c)
  <1>1. CASE StartServer(c) \/ LaunchEnds(c) \/ Refused(c) \/ BackupFails(c)
    <2>1. ~Saved(call'[c])
      <3>1. CASE StartServer(c)
        BY <3>1, StartView DEF Fresh, Saved
      <3>2. CASE LaunchEnds(c) \/ Refused(c) \/ BackupFails(c)
        BY <3>2, EndView, FreeNotSaved
      <3> QED BY <1>1, <3>1, <3>2
    <2> QED BY <2>1, NotSaved
  <1>2. CASE \/ \E wanted \in BOOLEAN : ResetWorld(c, wanted)
             \/ \E op \in {"install", "copy"} : Asks(c, op, Replace)
             \/ \E op \in {"install", "copy"}, n \in Names : Asks(c, op, Alongside(n))
    <2>1. call'[c].pc \in {"look", "check"}
      BY <1>2, ResetView, ReplaceView, AlongsideView DEF Fresh, Asks
    <2> QED BY <2>1, NotSaved DEF Saved
  <1>3. CASE \/ \E n \in Names : ActivateWorld(c, n) \/ ShrinkWorld(c, n)
             \/ \E n \in Names, wanted \in BOOLEAN : DeleteChunks(c, n, wanted)
             \/ \E n, m \in Names : RenameWorld(c, n, m) \/ DuplicateWorld(c, n, m)
    <2>1. call'[c].pc \in {"look", "place"}
      BY <1>3, ActivateView, ShrinkView, ChunksView, RenameView, DuplicateView DEF Fresh
    <2> QED BY <2>1, NotSaved DEF Saved
  <1>4. CASE \E n \in Names : DeleteWorld(c, n)
    <2>1. ~call'[c].backup
      BY <1>4, DeleteView
    <2> QED BY <2>1, NotSaved DEF Saved
  <1>5. CASE RenameGoes(c) \/ ReplaceGoes(c) \/ EditGoes(c) \/ EnterGuard(c)
    <2>1. call'[c].pc \in {"move", "backup", "enter", "recheck"}
      BY <1>5, RenameGoesView, ReplaceGoesView, EditGoesView, EnterGuardView
    <2> QED BY <2>1, NotSaved DEF Saved
  <1>6. CASE ResetGoes(c)
    <2>1. call'[c].pc \in {"backup", "remove"} /\ (call'[c].pc = "remove" => ~call'[c].backup)
      BY <1>6, ResetGoesView
    <2> QED BY <2>1, NotSaved DEF Saved
  <1>7. CASE AlongsideGoes(c)
    <2>1. ~call'[c].backup
      BY <1>7, AlongsideGoesView DEF Kin
    <2> QED BY <2>1, NotSaved DEF Saved
  <1>8. CASE Recheck(c)
    <2>1. call'[c].pc \in {"backup", "edit"} /\ (call'[c].pc = "edit" => ~call'[c].backup)
      BY <1>8, RecheckView DEF Kin
    <2> QED BY <2>1, NotSaved DEF Saved
  <1>9. CASE Extract(c)
    <2>1. Kin(call[c], call'[c]) /\ call[c].pc = "extract"
      BY <1>9, ExtractView
    <2> QED BY <2>1 DEF NoMore, Kin, Saved, Covered, Doomed
  <1> QED BY <1>1, <1>2, <1>3, <1>4, <1>5, <1>6, <1>7, <1>8, <1>9 DEF StandsStill

LEMMA WorksCover ==
  ASSUME IInv, IInv', CoverInv, NEW c \in Calls, Works(c)
  PROVE  CoverOf(c)'
  <1> DEFINE p == Part(call[c].todo)
  <1>0. Growth /\ Ages
    BY WorksGrows
  <1>1. CASE EditPart(c)
    <2>1. /\ call[c].op \in Editors /\ call[c].from \in Names /\ p \in Parts
          /\ (call'[c] = Free \/ GoesOn(c, p))
      BY <1>1, EditPartView
    <2>2. CASE call'[c] = Free
      BY <2>2, FreeNotSaved, NotSaved
    <2>3. CASE GoesOn(c, p)
      <3>1. ASSUME NEW q \in Parts, Saved(call'[c]), Covered(call'[c], q)
            PROVE  disk'[Doomed(call[c])][q] \subseteq disk[Doomed(call[c])][q]
        <4>1. q # p
          <5>1. call[c].pc = "edit"
            BY <1>1, EditPartView
          <5> QED BY <2>3, <3>1, <5>1 DEF GoesOn, Covered
        <4>2. Doomed(call[c]) = call[c].from
          BY <2>1 DEF Doomed, Editors
        <4> HIDE DEF p
        <4>3. UNCHANGED disk \/ Only(call[c].from, p, {next})
          BY <1>1, EditDisk DEF p
        <4> QED BY <2>1, <4>1, <4>2, <4>3 DEF Only
      <3> QED BY <1>0, <2>3, <3>1, GoesOnNoMore, CoverKept
    <2> QED BY <2>1, <2>2, <2>3
  <1>2. CASE Backup(c)
    <2>1. /\ saved' = saved \cup UNION {disk[n][q] : n \in Names, q \in Parts}
          /\ UNCHANGED <<disk, next>> /\ call'[c].upto = next
      BY <1>2, BackupView
    <2>2. \A n \in Names, q \in Parts : \A w \in disk'[n][q] : w \in saved'
      BY <2>1
    <2>3. Saved(call'[c]) => Doomed(call'[c]) \in Names
      <3>1. /\ Shape(call'[c]) /\ call'[c].op \in {"reset", "chunks", "install", "copy"}
            /\ call'[c].pc \in {"remove", "edit", "extract"}
        BY <1>2, BackupView DEF Moves
      <3> QED BY <3>1 DEF Shape, Doomed, Editors
    <2>4. next' = next /\ next <= next
      BY <2>1, TypeFacts
    <2> QED BY <2>1, <2>2, <2>3, <2>4 DEF CoverOf, Kept
  <1>3. CASE RemovePart(c)
    <2>1. /\ p \in Parts /\ Doomed(call[c]) \in Names
          /\ \/ GoesOn(c, p) \/ call'[c] = Free
             \/ call'[c].pc \in {"env", "place"}
      BY <1>3, RemovePartView
    <2>2. CASE GoesOn(c, p)
      <3>1. Only(Doomed(call[c]), p, {})
        BY <1>3, RemoveDisk
      <3> HIDE DEF p
      <3>2. \A q \in Parts : disk'[Doomed(call[c])][q] \subseteq disk[Doomed(call[c])][q]
        BY <2>1, <3>1 DEF Only
      <3> QED BY <1>0, <2>2, <3>2, GoesOnNoMore, CoverKept
    <2>3. CASE call'[c] = Free
      BY <2>3, FreeNotSaved, NotSaved
    <2>4. CASE call'[c].pc \in {"env", "place"}
      BY <2>4, NotSaved DEF Saved
    <2> QED BY <2>1, <2>2, <2>3, <2>4
  <1>4. CASE PlacePart(c) \/ MovePart(c)
    <2>1. call'[c] = Free \/ call'[c].pc \in {"place", "move", "select"}
      <3>1. CASE PlacePart(c)
        BY <3>1, PlacePartView DEF GoesOn
      <3>2. CASE MovePart(c)
        <4>1. call[c].pc = "move" /\ (GoesOn(c, p) \/ call'[c].pc = "select")
          BY <3>2, MovePartView
        <4> QED BY <4>1 DEF GoesOn
      <3> QED BY <1>4, <3>1, <3>2
    <2>2. ~Saved(call'[c])
      BY <2>1, FreeNotSaved DEF Saved
    <2> QED BY <2>2, NotSaved
  <1>5. CASE ActivateGoes(c) \/ Select(c) \/ WriteEnv(c) \/ StepFails(c)
    <2>1. call'[c] = Free \/ call'[c].pc = "env"
      <3>1. CASE ActivateGoes(c)
        BY <3>1, ActivateGoesView DEF Levelled
      <3>2. CASE Select(c)
        BY <3>2, SelectView DEF Levelled
      <3>3. CASE WriteEnv(c) \/ StepFails(c)
        BY <3>3, WriteEnvView, StepFailsView
      <3> QED BY <1>5, <3>1, <3>2, <3>3
    <2>2. ~Saved(call'[c])
      BY <2>1, FreeNotSaved DEF Saved
    <2> QED BY <2>2, NotSaved
  <1> QED BY <1>1, <1>2, <1>3, <1>4, <1>5 DEF Works

LEMMA CoverInit == Init => CoverInv
  <1> SUFFICES ASSUME Init PROVE CoverInv
    OBVIOUS
  <1>1. \A n \in Names, p \in Parts : disk[n][p] \subseteq {1, 2}
    BY DEF Init
  <1>2. next = 3 /\ \A c \in Calls : call[c] = Free
    BY DEF Init
  <1> QED BY <1>1, <1>2, FreeNotSaved DEF CoverInv, CoverOf

LEMMA WakesCover ==
  ASSUME IInv, IInv', CoverInv, NEW starting \in SUBSET Calls, NEW hows, Wakes(starting, hows),
         NEW level \in Names \cup {NoName}, Boots(level, starting)
  PROVE  CoverInv'
  <1>1. Touches(Calls \ starting) /\ Growth /\ Ages
    BY BootsGrows
  <1>2. ASSUME NEW d \in Calls PROVE CoverOf(d)'
    <2>1. CASE d \in starting
      BY <2>1, FreeNotSaved, NotSaved DEF Wakes
    <2>2. CASE d \notin starting
      <3>1. NoMore(d)
        BY <2>2 DEF Wakes, Kin, NoMore, Saved, Covered, Doomed
      <3> QED BY <1>1, <2>2, <3>1, CoverOthers
    <2> QED BY <2>1, <2>2
  <1> QED BY <1>1, <1>2, Younger DEF CoverInv

LEMMA CoverNext == IInv /\ LInv /\ CoverInv /\ [Next]_worldVars => CoverInv'
  <1> SUFFICES ASSUME IInv, LInv, CoverInv, [Next]_worldVars PROVE CoverInv'
    OBVIOUS
  <1>0. IInv'
    BY NextTypes
  <1>1. CASE RouterStarts
    BY <1>0, <1>1, RouterView, WakesCover
  <1>2. ASSUME NEW c \in Calls, Launch(c) PROVE CoverInv'
    BY <1>0, <1>2, LaunchView, WakesCover
  <1>3. CASE ContainerExits \/ UNCHANGED worldVars \/ Chosen
    <2>1. UNCHANGED <<disk, call, saved, next>> /\ raced \subseteq raced'
      <3>1. CASE ContainerExits
        BY <3>1 DEF ContainerExits
      <3>2. CASE UNCHANGED worldVars
        BY <3>2 DEF worldVars
      <3>3. CASE Chosen
        BY <3>3, ChosenView
      <3> QED BY <1>3, <3>1, <3>2, <3>3
    <2> QED BY <2>1 DEF CoverInv, CoverOf, Kept
  <1>4. CASE Play
    <2>1. plays \in Names /\ call' = call
      BY <1>4 DEF LInv, LiveInv, Play
    <2>2. Touches(Calls) /\ Growth /\ Ages
      BY <1>4, <2>1, PlayGrows
    <2>3. \A d \in Calls : NoMore(d)
      BY <2>1 DEF NoMore
    <2> QED BY <1>0, <2>2, <2>3, Younger, CoverOthers DEF CoverInv
  <1>5. ASSUME NEW c \in Calls, StandsStill(c) PROVE CoverInv'
    <2>1. Moves(c) /\ StandStill /\ NoMore(c)
      BY <1>5, StandsStillTypes, StandsStillNoMore
    <2>2. \A d \in Calls : NoMore(d)
      BY <2>1 DEF NoMore, Moves
    <2>3. Touches(Calls) /\ Growth /\ Ages
      BY <2>1, StillGrows DEF StandStill
    <2> QED BY <1>0, <2>2, <2>3, Younger, CoverOthers DEF CoverInv
  <1>6. ASSUME NEW c \in Calls, Works(c) PROVE CoverInv'
    <2>1. Touches(Others(c)) /\ Growth /\ Ages /\ Moves(c)
      BY <1>6, WorksGrows, WorksSteps
    <2>2. \A d \in Others(c) : d \in Calls /\ NoMore(d)
      BY <2>1 DEF NoMore, Moves, Others
    <2>3. CoverOf(c)'
      BY <1>0, <1>6, WorksCover
    <2>4. \A d \in Others(c) : CoverOf(d)'
      BY <1>0, <2>1, <2>2, CoverOthers
    <2>5. \A d \in Calls : CoverOf(d)'
      BY <2>3, <2>4 DEF Others
    <2> QED BY <1>0, <2>1, <2>5, Younger DEF CoverInv
  <1> QED BY <1>1, <1>2, <1>3, <1>4, <1>5, <1>6, NextIs

\* What the request itself takes was still on its list.
LEMMA LossIsCovered ==
  ASSUME IInv, LInv, [Next]_worldVars, NEW c \in Calls, call'[c] # call[c],
         call[c].pc \in {"remove", "edit"}, NEW p \in Parts,
         NEW w \in disk[Doomed(call[c])][p], w \notin disk'[Doomed(call[c])][p]
  PROVE  p \in call[c].todo
  <1> DEFINE n == Doomed(call[c])
  <1>0. n \in Names
    BY DoomedIn
  <1>1. ASSUME NEW level \in Names \cup {NoName}, NEW starting, Boots(level, starting)
        PROVE  FALSE
    <2> DEFINE k == ActiveLevel(level)
    <2>1. PICK missing \in SUBSET Parts : Rises(k, missing)
      BY <1>1, BootsView
    <2> HIDE DEF k, n
    <2>2. k \in Names /\ \A q \in missing : disk[k][q] = {}
      BY <2>1 DEF Rises
    <2>3. disk'[n][p] = IF n = k /\ p \in missing THEN {next} ELSE disk[n][p]
      BY <1>0, <2>1, <2>2, BootsDisk
    <2> QED BY <2>2, <2>3 DEF n
  <1>2. CASE RouterStarts
    BY <1>1, <1>2, RouterView
  <1>3. CASE \E d \in Calls : Launch(d)
    BY <1>1, <1>3, LaunchView
  <1>4. CASE ContainerExits \/ UNCHANGED worldVars \/ Play \/ Chosen
    <2>1. call' = call
      <3>1. CASE ContainerExits \/ UNCHANGED worldVars
        BY <3>1 DEF ContainerExits, worldVars
      <3>2. CASE Play
        BY <3>2 DEF Play
      <3>3. CASE Chosen
        BY <3>3, ChosenView
      <3> QED BY <1>4, <3>1, <3>2, <3>3
    <2> QED BY <2>1
  <1>5. ASSUME NEW d \in Calls, StandsStill(d) PROVE FALSE
    BY <1>5, StandsStillTypes DEF StandStill
  <1>6. ASSUME NEW d \in Calls, Works(d) PROVE p \in call[c].todo
    <2>1. d = c
      BY <1>6, WorksSteps DEF Moves
    <2> DEFINE q == Part(call[c].todo)
    <2>2. CASE EditPart(c)
      <3>1. q \in call[c].todo
        BY <2>2, EditPartView
      <3>2. UNCHANGED disk \/ Only(call[c].from, q, {next})
        BY <2>2, EditDisk
      <3> HIDE DEF q, n
      <3>3. p = q
        BY <1>0, <3>2 DEF Only, n
      <3> QED BY <3>1, <3>3
    <2>3. CASE RemovePart(c)
      <3>1. q \in call[c].todo
        BY <2>3, RemovePartView
      <3>2. Only(n, q, {})
        BY <2>3, RemoveDisk
      <3> HIDE DEF q, n
      <3>3. p = q
        BY <1>0, <3>2 DEF Only, n
      <3> QED BY <3>1, <3>3
    <2>4. CASE PlacePart(c) \/ MovePart(c) \/ Backup(c) \/ ActivateGoes(c) \/ Select(c) \/ WriteEnv(c)
      <3>1. call[c].pc \notin {"remove", "edit"}
        <4>1. CASE PlacePart(c) \/ WriteEnv(c)
          BY <4>1, PlacePartView, WriteEnvView
        <4>3. CASE Backup(c)
          BY <4>3 DEF Backup
        <4>2. CASE MovePart(c) \/ ActivateGoes(c) \/ Select(c)
          BY <4>2, MovePartView, ActivateGoesView, SelectView
        <4> QED BY <2>4, <4>1, <4>2, <4>3
      <3> QED BY <3>1
    <2>5. CASE StepFails(c)
      <3>1. disk' = disk
        BY <2>5, StepFailsView
      <3> QED BY <3>1
    <2> QED BY <1>6, <2>1, <2>2, <2>3, <2>4, <2>5 DEF Works
  <1> QED BY <1>2, <1>3, <1>4, <1>5, <1>6, NextIs

\* What a reset, a replacing install or a chunk edit takes off the disk after
\* its backup is in a backup, but for what another request or the server wrote
\* to that world in the meantime.
THEOREM BackupsCoverLosses == Spec => BackupCovers
  <1>1. IInv /\ LInv /\ CoverInv /\ [Next]_worldVars =>
          [\A c \in Calls :
             call[c].backup /\ call[c].pc \in {"remove", "edit"} /\ call'[c] # call[c]
             => \A p \in Parts :
                  LET n == Doomed(call[c])
                  IN \A w \in disk[n][p] \ disk'[n][p] :
                       w \in saved \cup {LibraryWorld} \/ (n \in raced /\ w >= call[c].upto)]_worldVars
    <2> SUFFICES ASSUME IInv, LInv, CoverInv, [Next]_worldVars, NEW c \in Calls,
                        call[c].backup, call[c].pc \in {"remove", "edit"}, call'[c] # call[c],
                        NEW p \in Parts,
                        NEW w \in disk[Doomed(call[c])][p], w \notin disk'[Doomed(call[c])][p]
                 PROVE  \/ w \in saved \cup {LibraryWorld}
                        \/ Doomed(call[c]) \in raced /\ w >= call[c].upto
      OBVIOUS
    <2>1. p \in call[c].todo
      BY LossIsCovered
    <2>2. Saved(call[c]) /\ Covered(call[c], p) /\ Doomed(call[c]) \in Names
      BY <2>1, DoomedIn DEF Saved, Covered
    <2> QED BY <2>2 DEF CoverInv, CoverOf, Kept
  <1>2. Spec => [](IInv /\ LInv /\ CoverInv)
    BY InitTypes, NextTypes, LiveInit, LiveNext, CoverInit, CoverNext, PTL DEF Spec
  <1> QED BY <1>1, <1>2, PTL DEF Spec, BackupCovers

-----------------------------------------------------------------------------
(* Directories hold one world *)

\* The request has taken the main directory of n, and its wing is to come.
Midway(r, n) ==
  /\ r.todo = {"wing"}
  /\ \/ r.pc = "remove" /\ Doomed(r) = n
     \/ r.pc = "move" /\ r.from = n

\* The request has listed the directories of the world that it removes, and one
\* that is to place a world at n has yet to place its part p.
Removing(r) == r.pc = "remove" \/ (r.pc = "backup" /\ r.op = "reset")
Placing(r, n) == (r.pc = "place" \/ (r.pc = "extract" /\ ~r.backup)) /\ r.to = n
Lays(r, p) == r.pc = "extract" \/ p \in r.todo

\* What a request relies on at a name nobody disturbed: what it has taken is
\* gone, what it has placed is there, what it is going to place finds no other,
\* or only the wing of a world that another request is on the way of taking.
WholeCall(c, n) ==
  LET r == call[c]
  IN /\ Removing(r) /\ Doomed(r) = n =>
          /\ "wing" \in r.todo \/ disk[n]["wing"] = {}
          /\ "main" \in r.todo \/ disk[n]["main"] = {}
     /\ r.pc = "move" /\ r.from = n => "wing" \in r.todo \/ disk[n]["wing"] = {}
     /\ r.pc \in {"move", "place"} /\ r.to = n => "main" \in r.todo \/ disk[n]["main"] # {}
     /\ Placing(r, n) /\ Lays(r, "main") => disk[n]["main"] = {}
     /\ Placing(r, n) /\ Lays(r, "wing") =>
          disk[n]["wing"] = {} \/ \E d \in Others(c) : Midway(call[d], n)

OneWorld(n) == \A p \in Parts : \A v, w \in disk[n][p] : v = w
NoStray(n) == disk[n]["wing"] # {} /\ disk[n]["main"] = {} => \E d \in Calls : Midway(call[d], n)

WholeAt(n) == OneWorld(n) /\ NoStray(n) /\ \A c \in Calls : WholeCall(c, n)

WholeInv == \A n \in Names \ raced : WholeAt(n)

\* Whether there is something in the directories of n is as it was.
SameParts(n) == \A p \in Parts : disk'[n][p] = {} <=> disk[n][p] = {}

Uses(r, n) == r.pc \in Underway /\ n \in {r.from, r.to}

LEMMA UsesIs ==
  ASSUME NEW n \in Names, NEW d \in Calls
  PROVE  n \in Footprint(d) <=> Uses(call[d], n)
  BY NamesAssumption DEF Footprint, Uses

LEMMA WholeUnused ==
  ASSUME NEW n \in Names, NEW d \in Calls, ~Uses(call'[d], n)
  PROVE  WholeCall(d, n)' /\ ~Midway(call'[d], n)
  BY DEF WholeCall, Midway, Uses, Underway, Removing, Placing, Doomed

LEMMA WholeVacuous ==
  ASSUME NEW n \in Names, NEW d \in Calls,
         call'[d].pc \notin {"remove", "backup", "move", "place", "extract"}
  PROVE  WholeCall(d, n)'
  BY DEF WholeCall, Removing, Placing

Alike(r, t) == Kin(r, t) /\ t.pc = r.pc /\ t.todo = r.todo

LEMMA AlikeMidway ==
  ASSUME NEW r, NEW t, Alike(r, t), NEW n
  PROVE  Midway(r, n) <=> Midway(t, n)
  BY DEF Alike, Kin, Midway, Doomed

LEMMA WholeAlike ==
  ASSUME NEW n \in Names, WholeAt(n), SameParts(n), NEW d \in Calls, Alike(call[d], call'[d]),
         \A e \in Calls : Midway(call[e], n) => Midway(call'[e], n)
  PROVE  WholeCall(d, n)'
  <1>1. WholeCall(d, n)
    BY DEF WholeAt
  <1>2. "main" \in Parts /\ "wing" \in Parts
    BY DEF Parts
  <1>3. (disk'[n]["main"] = {} <=> disk[n]["main"] = {}) /\ (disk'[n]["wing"] = {} <=> disk[n]["wing"] = {})
    BY <1>2 DEF SameParts
  <1>4. /\ Removing(call'[d]) <=> Removing(call[d])
        /\ Doomed(call'[d]) = Doomed(call[d])
        /\ Placing(call'[d], n) <=> Placing(call[d], n)
        /\ \A p : Lays(call'[d], p) <=> Lays(call[d], p)
    BY DEF Alike, Kin, Removing, Doomed, Placing, Lays
  <1>5. (\E e \in Others(d) : Midway(call[e], n)) => \E e \in Others(d) : Midway(call'[e], n)
    BY DEF Others
  <1>6. /\ call'[d].pc = call[d].pc /\ call'[d].from = call[d].from /\ call'[d].to = call[d].to
        /\ call'[d].todo = call[d].todo
    BY DEF Alike, Kin
  <1> QED BY <1>1, <1>3, <1>4, <1>5, <1>6 DEF WholeCall

\* One request goes on and n stays as it is, or is rewritten in place.
LEMMA WholeStays ==
  ASSUME NEW n \in Names, WholeAt(n), SameParts(n), OneWorld(n)', NEW c \in Calls, Moves(c),
         ~Midway(call[c], n), WholeCall(c, n)'
  PROVE  WholeAt(n)'
  <1>1. \A e \in Calls : Midway(call[e], n) => Midway(call'[e], n)
    BY DEF Moves
  <1>2. NoStray(n)'
    BY <1>1 DEF WholeAt, NoStray, SameParts, Parts
  <1>3. ASSUME NEW d \in Calls, d # c PROVE WholeCall(d, n)'
    <2>1. Alike(call[d], call'[d])
      BY <1>3 DEF Moves, Alike, Kin
    <2> QED BY <1>1, <2>1, WholeAlike
  <1> QED BY <1>2, <1>3 DEF WholeAt

\* One request writes n, which nobody else is at work on.
LEMMA WholeAlone ==
  ASSUME NEW n \in Names, OneWorld(n)', NEW c \in Calls, Moves(c),
         \A d \in Others(c) : n \notin Footprint(d), WholeCall(c, n)',
         disk'[n]["wing"] # {} /\ disk'[n]["main"] = {} => Midway(call'[c], n)
  PROVE  WholeAt(n)'
  <1>1. ASSUME NEW d \in Calls, d # c PROVE WholeCall(d, n)'
    <2>1. ~Uses(call'[d], n)
      BY <1>1, UsesIs DEF Moves, Others
    <2> QED BY <2>1, WholeUnused
  <1> QED BY <1>1 DEF WholeAt, NoStray

LEMMA FreeWhole ==
  ASSUME NEW n \in Names, NEW c \in Calls, call'[c] = Free
  PROVE  WholeCall(c, n)'
  BY FreeIs, WholeVacuous

LEMMA StandsStillWhole ==
  ASSUME IInv, NEW n \in Names, WholeAt(n), NEW c \in Calls, StandsStill(c)
  PROVE  WholeAt(n)'
  <1>0. Moves(c) /\ disk' = disk
    BY StandsStillTypes DEF StandStill
  <1>1. SameParts(n) /\ OneWorld(n)'
    BY <1>0 DEF SameParts, OneWorld, WholeAt
  <1>2. CASE StartServer(c) \/ LaunchEnds(c) \/ Refused(c) \/ BackupFails(c)
    <2>1. CASE StartServer(c)
      <3>1. call[c].pc = "idle" /\ call'[c].pc = "pull"
        BY <2>1, StartView DEF Fresh
      <3> QED BY <1>0, <1>1, <3>1, WholeVacuous, WholeStays DEF Midway
    <2>2. CASE LaunchEnds(c) \/ Refused(c) \/ BackupFails(c)
      <3>1. EarlyEnd(c) /\ call'[c] = Free
        BY <2>2, EndView
      <3>2. ~Midway(call[c], n)
        BY <3>1 DEF EarlyEnd, Midway
      <3> QED BY <1>0, <1>1, <3>1, <3>2, FreeWhole, WholeStays
    <2> QED BY <1>2, <2>1, <2>2
  <1>3. CASE \/ \E wanted \in BOOLEAN : ResetWorld(c, wanted)
             \/ \E op \in {"install", "copy"} : Asks(c, op, Replace)
             \/ \E op \in {"install", "copy"}, m \in Names : Asks(c, op, Alongside(m))
    <2>1. call[c].pc = "idle" /\ call'[c].pc \in {"look", "check"}
      BY <1>3, ResetView, ReplaceView, AlongsideView DEF Fresh, Asks
    <2> QED BY <1>0, <1>1, <2>1, WholeVacuous, WholeStays DEF Midway
  <1>4. CASE \/ \E m \in Names : ActivateWorld(c, m) \/ ShrinkWorld(c, m)
             \/ \E m \in Names, wanted \in BOOLEAN : DeleteChunks(c, m, wanted)
             \/ \E m, k \in Names : RenameWorld(c, m, k)
    <2>1. call[c].pc = "idle" /\ call'[c].pc = "look"
      BY <1>4, ActivateView, ShrinkView, ChunksView, RenameView DEF Fresh
    <2> QED BY <1>0, <1>1, <2>1, WholeVacuous, WholeStays DEF Midway
  <1>5. CASE \E m \in Names : DeleteWorld(c, m)
    <2>1. PICK m \in Names : DeleteWorld(c, m)
      BY <1>5
    <2>2. /\ call[c].pc = "idle" /\ call'[c].pc = "remove" /\ call'[c].op = "delete"
          /\ call'[c].from = m /\ call'[c].to = NoName /\ call'[c].todo = Dims(m)
      BY <2>1, DeleteView DEF Fresh
    <2>3. Doomed(call'[c]) = m /\ "main" \in Dims(m) /\ (disk[m]["wing"] # {} => "wing" \in Dims(m))
      BY <2>2, DimsAre DEF Doomed
    <2>4. WholeCall(c, n)'
      BY <1>0, <2>2, <2>3 DEF WholeCall, Removing, Placing
    <2> QED BY <1>0, <1>1, <2>2, <2>4, WholeStays DEF Midway
  <1>6. CASE \E m, k \in Names : DuplicateWorld(c, m, k)
    <2>1. PICK m \in Names, k \in Names : DuplicateWorld(c, m, k)
      BY <1>6
    <2>2. /\ call[c].pc = "idle" /\ call'[c].pc = "place" /\ call'[c].op = "duplicate"
          /\ call'[c].to = k /\ call'[c].todo = Dims(m) /\ ~Exists(k)
      BY <2>1, DuplicateView DEF Fresh
    <2>3. "main" \in Dims(m)
      BY DimsAre
    <2>4. ~Midway(call[c], n)
      BY <2>2 DEF Midway
    <2>5. n = k => /\ disk'[n]["main"] = {}
                   /\ disk'[n]["wing"] = {} \/ \E d \in Others(c) : Midway(call'[d], n)
      <3>1. n = k => disk[n]["main"] = {}
        BY <2>2 DEF Exists
      <3>2. n = k => disk[n]["wing"] = {} \/ \E d \in Others(c) : Midway(call[d], n)
        BY <2>4, <3>1 DEF WholeAt, NoStray, Others
      <3> QED BY <1>0, <3>1, <3>2 DEF Moves, Others
    <2>6. WholeCall(c, n)'
      BY <2>2, <2>3, <2>5 DEF WholeCall, Removing, Placing
    <2> QED BY <1>0, <1>1, <2>4, <2>6, WholeStays
  <1>7. CASE RenameGoes(c)
    <2>1. /\ call[c].pc = "look" /\ call'[c].pc = "move"
          /\ call'[c].todo = Dims(call'[c].from)
      BY <1>7, RenameGoesView DEF Kin
    <2>2. "main" \in Dims(call'[c].from) /\ (disk[call'[c].from]["wing"] # {} => "wing" \in Dims(call'[c].from))
      BY DimsAre
    <2>3. WholeCall(c, n)'
      BY <1>0, <2>1, <2>2 DEF WholeCall, Removing, Placing
    <2> QED BY <1>0, <1>1, <2>1, <2>3, WholeStays DEF Midway
  <1>8. CASE ResetGoes(c)
    <2>1. /\ call[c].pc = "look" /\ call'[c].op = "reset" /\ call'[c].pc \in {"backup", "remove"}
          /\ call'[c].todo = Dims(call'[c].from)
      BY <1>8, ResetGoesView
    <2>2. "main" \in Dims(call'[c].from) /\ (disk[call'[c].from]["wing"] # {} => "wing" \in Dims(call'[c].from))
      BY DimsAre
    <2>3. Doomed(call'[c]) = call'[c].from
      BY <2>1 DEF Doomed
    <2>4. WholeCall(c, n)'
      BY <1>0, <2>1, <2>2, <2>3 DEF WholeCall, Removing, Placing
    <2> QED BY <1>0, <1>1, <2>1, <2>4, WholeStays DEF Midway
  <1>9. CASE ReplaceGoes(c)
    <2>1. /\ call[c].pc = "look" /\ call'[c].op \in {"install", "copy"} /\ call'[c].pc = "backup"
      BY <1>9, ReplaceGoesView
    <2>2. WholeCall(c, n)'
      BY <2>1 DEF WholeCall, Removing, Placing
    <2> QED BY <1>0, <1>1, <2>1, <2>2, WholeStays DEF Midway
  <1>10. CASE EditGoes(c) \/ EnterGuard(c)
    <2>1. call[c].pc \in {"look", "enter"} /\ call'[c].pc \in {"enter", "recheck"}
      BY <1>10, EditGoesView, EnterGuardView
    <2> QED BY <1>0, <1>1, <2>1, WholeVacuous, WholeStays DEF Midway
  <1>11. CASE Recheck(c)
    <2>1. call[c].pc = "recheck" /\ call'[c].op \in Editors /\ call'[c].pc \in {"backup", "edit"}
      BY <1>11, RecheckView DEF Kin
    <2>2. WholeCall(c, n)'
      BY <2>1 DEF WholeCall, Removing, Placing, Editors
    <2> QED BY <1>0, <1>1, <2>1, <2>2, WholeStays DEF Midway
  <1>12. CASE AlongsideGoes(c)
    <2>1. call[c].pc = "check" /\ call'[c].pc = "extract" /\ call'[c].to = call[c].to /\ ~Exists(call[c].to)
      BY <1>12, AlongsideGoesView DEF Kin
    <2>2. ~Midway(call[c], n)
      BY <2>1 DEF Midway
    <2>3. n = call[c].to => /\ disk'[n]["main"] = {}
                            /\ disk'[n]["wing"] = {} \/ \E d \in Others(c) : Midway(call'[d], n)
      <3>1. n = call[c].to => disk[n]["main"] = {}
        BY <2>1 DEF Exists
      <3>2. n = call[c].to => disk[n]["wing"] = {} \/ \E d \in Others(c) : Midway(call[d], n)
        BY <2>2, <3>1 DEF WholeAt, NoStray, Others
      <3> QED BY <1>0, <3>1, <3>2 DEF Moves, Others
    <2>4. WholeCall(c, n)'
      BY <2>1, <2>3 DEF WholeCall, Removing, Placing
    <2> QED BY <1>0, <1>1, <2>2, <2>4, WholeStays
  <1>13. CASE Extract(c)
    <2>1. /\ call[c].pc = "extract" /\ call'[c].to = call[c].to /\ call'[c].op \in {"install", "copy"}
          /\ IF call[c].backup THEN call'[c].pc = "remove" /\ call'[c].todo = Dims(call[c].to)
             ELSE call'[c].pc = "place" /\ call'[c].todo = LibraryParts
      BY <1>13, ExtractView DEF Kin
    <2>2. ~Midway(call[c], n)
      BY <2>1 DEF Midway
    <2>3. CASE call[c].backup
      <3>1. Doomed(call'[c]) = call[c].to
        BY <2>1 DEF Doomed
      <3>2. "main" \in Dims(call[c].to) /\ (disk[call[c].to]["wing"] # {} => "wing" \in Dims(call[c].to))
        BY DimsAre
      <3> QED BY <1>0, <1>1, <2>1, <2>2, <2>3, <3>1, <3>2, WholeStays DEF WholeCall, Removing, Placing
    <2>4. CASE ~call[c].backup
      <3>1. "main" \in LibraryParts
        BY DEF LibraryParts, Parts
      <3>2. n = call[c].to => /\ disk'[n]["main"] = {}
                              /\ disk'[n]["wing"] = {} \/ \E d \in Others(c) : Midway(call'[d], n)
        <4>1. n = call[c].to => /\ disk[n]["main"] = {}
                                /\ disk[n]["wing"] = {} \/ \E d \in Others(c) : Midway(call[d], n)
          BY <2>1, <2>4 DEF WholeAt, WholeCall, Placing, Lays
        <4> QED BY <1>0, <4>1 DEF Moves, Others
      <3>3. WholeCall(c, n)'
        BY <2>1, <2>4, <3>1, <3>2 DEF WholeCall, Removing, Placing
      <3> QED BY <1>0, <1>1, <2>2, <3>3, WholeStays
    <2> QED BY <2>3, <2>4
  <1> QED BY <1>2, <1>3, <1>4, <1>5, <1>6, <1>7, <1>8, <1>9, <1>10, <1>11, <1>12, <1>13 DEF StandsStill

\* A request writes n only where nobody else is at work on it, or n is raced.
LEMMA WritesAlone ==
  ASSUME NEW c \in Calls, NEW ns, NEW n \in ns, Shared(ns, Others(c)) \subseteq raced', n \notin raced'
  PROVE  \A d \in Others(c) : n \notin Footprint(d)
  BY SharedHas

LEMMA EditWhole ==
  ASSUME IInv, NEW c \in Calls, EditPart(c), NEW n \in Names, WholeAt(n)
  PROVE  WholeAt(n)'
  <1> DEFINE p == Part(call[c].todo)
  <1>1. /\ Moves(c) /\ call[c].pc = "edit" /\ p \in Parts /\ call[c].from \in Names
        /\ call'[c] = Free \/ GoesOn(c, p)
        /\ UNCHANGED disk \/ disk[call[c].from][p] # {}
    BY EditPartView
  <1>2. UNCHANGED disk \/ Only(call[c].from, p, {next})
    BY EditDisk
  <1>3. call'[c].pc \in {"edit", "idle"}
    BY <1>1, FreeIs DEF GoesOn
  <1> HIDE DEF p
  <1>4. SameParts(n)
    BY <1>1, <1>2 DEF SameParts, Only
  <1>5. OneWorld(n)'
    BY <1>1, <1>2 DEF OneWorld, WholeAt, Only
  <1>6. ~Midway(call[c], n) /\ WholeCall(c, n)'
    BY <1>1, <1>3, WholeVacuous DEF Midway
  <1> QED BY <1>1, <1>4, <1>5, <1>6, WholeStays

LEMMA RemoveWhole ==
  ASSUME IInv, NEW c \in Calls, RemovePart(c), NEW n \in Names, WholeAt(n), n \notin raced'
  PROVE  WholeAt(n)'
  <1> DEFINE p == Part(call[c].todo)
             m == Doomed(call[c])
             todo == call[c].todo
  <1>1. /\ Moves(c) /\ call[c].pc = "remove" /\ m \in Names /\ p \in Parts /\ p \in todo
        /\ "main" \in todo => p = "main"
        /\ \/ GoesOn(c, p)
           \/ /\ todo = {p}
              /\ \/ call'[c] = Free
                 \/ /\ Kin(call[c], call'[c]) /\ call'[c].pc = "env"
                 \/ /\ call[c].op \in {"install", "copy"} /\ Kin(call[c], call'[c])
                    /\ call'[c].pc = "place" /\ call'[c].todo = LibraryParts
        /\ raced' = raced \cup Shared({m}, Others(c))
    BY RemovePartView
  <1>2. Only(m, p, {})
    BY RemoveDisk
  <1>3. todo \subseteq Parts
    BY CallFacts DEF CallRecords
  <1>4. WholeCall(c, n)
    BY DEF WholeAt
  <1>5. Kin(call[c], call'[c]) => Doomed(call'[c]) = m
    BY DEF Kin, Doomed
  <1>6. call[c].op \in {"install", "copy"} => call[c].to = m
    BY DEF Doomed
  <1>7. OneWorld(n)'
    BY <1>1, <1>2 DEF OneWorld, WholeAt, Only
  <1>8. "main" \in LibraryParts
    BY DEF LibraryParts, Parts
  <1> HIDE DEF p
  <1>9. CASE n # m
    <2>1. SameParts(n) /\ ~Midway(call[c], n)
      BY <1>1, <1>2, <1>9 DEF SameParts, Only, Midway
    <2>2. WholeCall(c, n)'
      <3>1. CASE call'[c] = Free
        BY <3>1, FreeWhole
      <3>2. CASE GoesOn(c, p) \/ (Kin(call[c], call'[c]) /\ call'[c].pc \in {"env", "place"})
        <4>1. call'[c].pc \in {"remove", "env", "place"} /\ Doomed(call'[c]) # n /\ (call'[c].pc = "place" => call'[c].to # n)
          <5>1. Kin(call[c], call'[c]) /\ call'[c].pc \in {"remove", "env", "place"}
            BY <1>1, <3>2 DEF GoesOn
          <5>2. call'[c].pc = "place" => call[c].op \in {"install", "copy"}
            BY <1>1, <3>2, FreeIs DEF GoesOn
          <5> QED BY <1>5, <1>6, <1>9, <5>1, <5>2 DEF Kin
        <4> QED BY <4>1 DEF WholeCall, Removing, Placing
      <3> QED BY <1>1, <3>1, <3>2
    <2> QED BY <1>1, <1>7, <2>1, <2>2, WholeStays
  <1>10. CASE n = m
    <2>1. \A d \in Others(c) : n \notin Footprint(d)
      BY <1>1, <1>10, WritesAlone
    <2>2. disk'[n][p] = {} /\ \A q \in Parts : q # p => disk'[n][q] = disk[n][q]
      BY <1>1, <1>2, <1>10 DEF Only
    <2>3. "wing" \in todo \/ disk[n]["wing"] = {}
      BY <1>1, <1>4, <1>10 DEF WholeCall, Removing
    <2>4. "main" \in todo \/ disk[n]["main"] = {}
      BY <1>1, <1>4, <1>10 DEF WholeCall, Removing
    <2>5. disk'[n]["main"] = {}
      BY <1>1, <2>2, <2>4 DEF Parts
    <2>6. CASE GoesOn(c, p)
      <3>1. p = "main" /\ call'[c].todo = {"wing"} /\ call'[c].pc = "remove" /\ Doomed(call'[c]) = n
        BY <1>1, <1>3, <1>5, <1>10, <2>6 DEF GoesOn, Parts
      <3>2. Midway(call'[c], n)
        BY <3>1 DEF Midway
      <3>3. WholeCall(c, n)'
        BY <2>5, <3>1 DEF WholeCall, Removing, Placing
      <3> QED BY <1>1, <1>7, <2>1, <3>2, <3>3, WholeAlone
    <2>7. CASE todo = {p} /\ ~GoesOn(c, p)
      <3>1. disk'[n]["wing"] = {}
        BY <2>2, <2>3, <2>7 DEF Parts
      <3>2. WholeCall(c, n)'
        <4>1. CASE call'[c] = Free
          BY <4>1, FreeWhole
        <4>2. CASE call'[c].pc = "env"
          BY <4>2, WholeVacuous
        <4>3. CASE call'[c].pc = "place" /\ call'[c].todo = LibraryParts
          BY <1>8, <2>5, <3>1, <4>3 DEF WholeCall, Removing, Placing
        <4> QED BY <1>1, <2>7, <4>1, <4>2, <4>3
      <3> QED BY <1>1, <1>7, <2>1, <3>1, <3>2, WholeAlone
    <2> QED BY <1>1, <2>6, <2>7
  <1> QED BY <1>9, <1>10

LEMMA PlaceWhole ==
  ASSUME IInv, WholeInv, NEW c \in Calls, PlacePart(c), NEW n \in Names, WholeAt(n),
         n \notin raced', raced \subseteq raced'
  PROVE  WholeAt(n)'
  <1> DEFINE p == Part(call[c].todo)
             m == call[c].to
             what == Cargo(call[c], p)
             todo == call[c].todo
  <1>a. /\ Moves(c) /\ call[c].pc = "place" /\ m \in Names /\ p \in Parts /\ p \in call[c].todo
        /\ call[c].op \in {"duplicate", "install", "copy"}
        /\ call[c].op = "duplicate" => call[c].from \in Names
        /\ Cargo(call[c], p) # {}
        /\ raced' = raced \cup Shared({m}, Others(c)) \cup Tainted(call[c])
    BY PlacePartView
  <1>c. "main" \in call[c].todo => p = "main"
    BY DEF Part
  <1>b. /\ p \in Parts
        /\ call'[c] = Free \/ GoesOn(c, p)
    BY PlacePartView
  <1>1. /\ Moves(c) /\ call[c].pc = "place" /\ m \in Names /\ p \in Parts /\ p \in todo
        /\ call[c].op \in {"duplicate", "install", "copy"}
        /\ call[c].op = "duplicate" => call[c].from \in Names
        /\ "main" \in todo => p = "main"
        /\ call'[c] = Free \/ GoesOn(c, p)
        /\ what # {}
        /\ raced' = raced \cup Shared({m}, Others(c)) \cup Tainted(call[c])
    BY <1>a, <1>b, <1>c
  <1>2. Only(m, p, disk[m][p] \cup what)
    BY PlaceDisk
  <1>3. todo \subseteq Parts
    BY CallFacts DEF CallRecords
  <1>4. WholeCall(c, n)
    BY DEF WholeAt
  <1>5. n = m => \A v, w \in what : v = w
    <2>1. CASE call[c].op = "duplicate"
      <3>1. n = m => call[c].from \notin raced
        BY <1>1 DEF Tainted
      <3>2. n = m => WholeAt(call[c].from)
        BY <1>1, <2>1, <3>1 DEF WholeInv
      <3> QED BY <1>1, <2>1, <3>2 DEF Cargo, WholeAt, OneWorld
    <2>2. CASE call[c].op # "duplicate"
      BY <2>2 DEF Cargo
    <2> QED BY <2>1, <2>2
  <1> HIDE DEF p, what
  <1>6. ~Midway(call[c], n)
    BY <1>1 DEF Midway
  <1>7. CASE n # m
    <2>1. SameParts(n) /\ OneWorld(n)'
      BY <1>2, <1>7 DEF SameParts, OneWorld, WholeAt, Only
    <2>2. WholeCall(c, n)'
      <3>1. CASE call'[c] = Free
        BY <3>1, FreeWhole
      <3>2. CASE GoesOn(c, p)
        <4>1. call'[c].pc = "place" /\ call'[c].to # n
          BY <1>1, <1>7, <3>2 DEF GoesOn, Kin
        <4> QED BY <4>1 DEF WholeCall, Removing, Placing
      <3> QED BY <1>1, <3>1, <3>2
    <2> QED BY <1>1, <1>6, <2>1, <2>2, WholeStays
  <1>8. CASE n = m
    <2>1. \A d \in Others(c) : n \notin Footprint(d)
      BY <1>1, <1>8, WritesAlone
    <2>2. \A d \in Others(c) : ~Midway(call[d], n)
      BY <2>1, UsesIs DEF Others, Uses, Midway, Underway, Doomed
    <2>3. Placing(call[c], n) /\ \A q \in todo : Lays(call[c], q)
      BY <1>1, <1>8 DEF Placing, Lays
    <2>4. \A q \in todo : disk[n][q] = {}
      <3>1. "main" \in todo => disk[n]["main"] = {}
        BY <1>4, <2>3 DEF WholeCall
      <3>2. "wing" \in todo => disk[n]["wing"] = {}
        BY <1>4, <2>2, <2>3 DEF WholeCall
      <3> QED BY <1>3, <3>1, <3>2 DEF Parts
    <2>5. disk'[n][p] = what /\ \A q \in Parts : q # p => disk'[n][q] = disk[n][q]
      <3>1. disk[m][p] = {}
        BY <1>1, <1>8, <2>4
      <3>2. Only(n, p, what)
        BY <1>2, <1>8, <3>1
      <3> QED BY <1>1, <3>2 DEF Only
    <2>6. OneWorld(n)'
      BY <1>5, <1>8, <2>5 DEF OneWorld, WholeAt
    <2>7. disk'[n]["main"] # {}
      <3>1. "main" \in todo \/ disk[n]["main"] # {}
        BY <1>1, <1>4, <1>8 DEF WholeCall
      <3> QED BY <1>1, <2>5, <3>1 DEF Parts
    <2>8. WholeCall(c, n)'
      <3>1. CASE call'[c] = Free
        BY <3>1, FreeWhole
      <3>2. CASE GoesOn(c, p)
        <4>1. p = "main" /\ call'[c].pc = "place" /\ call'[c].todo = {"wing"}
          BY <1>1, <1>3, <3>2 DEF GoesOn, Parts
        <4>2. "wing" \in todo /\ disk'[n]["wing"] = {}
          BY <2>4, <2>5, <3>2, <4>1 DEF GoesOn, Parts
        <4> QED BY <2>7, <4>1, <4>2 DEF WholeCall, Removing, Placing, Lays
      <3> QED BY <1>1, <3>1, <3>2
    <2> QED BY <1>1, <2>1, <2>6, <2>7, <2>8, WholeAlone
  <1> QED BY <1>7, <1>8

LEMMA MoveWhole ==
  ASSUME IInv, WholeInv, NEW c \in Calls, MovePart(c), NEW n \in Names, WholeAt(n),
         n \notin raced', raced \subseteq raced'
  PROVE  WholeAt(n)'
  <1> DEFINE p == Part(call[c].todo)
             a == call[c].from
             b == call[c].to
             todo == call[c].todo
  <1>a. /\ Moves(c) /\ call[c].pc = "move" /\ {a, b} \subseteq Names /\ a # b /\ p \in Parts
        /\ p \in call[c].todo /\ call[c].op = "rename" /\ disk[a][p] # {}
        /\ raced' = raced \cup Shared({a, b}, Others(c)) \cup Tainted(call[c])
    BY MovePartView
  <1>c. "main" \in call[c].todo => p = "main"
    BY DEF Part
  <1>b. /\ p \in Parts
         /\ \/ GoesOn(c, p)
            \/ call[c].todo = {p} /\ Kin(call[c], call'[c]) /\ call'[c].pc = "select"
    BY MovePartView
  <1>1. /\ Moves(c) /\ call[c].pc = "move" /\ {a, b} \subseteq Names /\ a # b /\ p \in Parts /\ p \in todo
        /\ call[c].op = "rename"
        /\ "main" \in todo => p = "main"
        /\ \/ GoesOn(c, p)
           \/ todo = {p} /\ Kin(call[c], call'[c]) /\ call'[c].pc = "select"
        /\ disk[a][p] # {}
        /\ raced' = raced \cup Shared({a, b}, Others(c)) \cup Tainted(call[c])
    BY <1>a, <1>b, <1>c
  <1>2. \A k \in Names, q \in Parts :
           disk'[k][q] = IF q # p THEN disk[k][q]
                         ELSE IF k = a THEN {}
                         ELSE IF k = b THEN disk[a][p]
                         ELSE disk[k][q]
    BY MoveDisk
  <1>3. todo \subseteq Parts
    BY CallFacts DEF CallRecords
  <1>4. WholeCall(c, n)
    BY DEF WholeAt
  <1>5. n = b => OneWorld(a)
    <2>1. n = b => a \notin raced
      BY <1>1 DEF Tainted
    <2> QED BY <1>1, <2>1 DEF WholeInv, WholeAt
  <1>6. GoesOn(c, p) => /\ p = "main" /\ call'[c].todo = {"wing"} /\ call'[c].pc = "move"
                        /\ "wing" \in todo
                        /\ call'[c].op = "rename" /\ call'[c].from = a /\ call'[c].to = b
    BY <1>1, <1>3 DEF GoesOn, Kin, Parts
  <1>7. ~GoesOn(c, p) => WholeCall(c, n)'
    BY <1>1, WholeVacuous
  <1> HIDE DEF p, a, b
  <1>8. OneWorld(n)'
    BY <1>1, <1>2, <1>5 DEF OneWorld, WholeAt
  <1>9. CASE n \notin {a, b}
    <2>1. SameParts(n) /\ ~Midway(call[c], n)
      BY <1>1, <1>2, <1>9 DEF SameParts, Midway, a
    <2>2. WholeCall(c, n)'
      BY <1>6, <1>7, <1>9 DEF WholeCall, Removing, Placing
    <2> QED BY <1>1, <1>8, <2>1, <2>2, WholeStays
  <1>10. CASE n = a
    <2>1. \A d \in Others(c) : n \notin Footprint(d)
      BY <1>1, <1>10, WritesAlone
    <2>2. disk'[n][p] = {} /\ \A q \in Parts : q # p => disk'[n][q] = disk[n][q]
      BY <1>1, <1>2, <1>10
    <2>3. "wing" \in todo \/ disk[n]["wing"] = {}
      BY <1>1, <1>4, <1>10 DEF WholeCall, a
    <2>4. CASE GoesOn(c, p)
      <3>1. Midway(call'[c], n)
        BY <1>6, <1>10, <2>4 DEF Midway
      <3>2. WholeCall(c, n)'
        BY <1>1, <1>6, <1>10, <2>4 DEF WholeCall, Removing, Placing
      <3> QED BY <1>1, <1>8, <2>1, <3>1, <3>2, WholeAlone
    <2>5. CASE ~GoesOn(c, p)
      <3>1. disk'[n]["wing"] = {}
        BY <1>1, <2>2, <2>3, <2>5 DEF Parts
      <3> QED BY <1>1, <1>7, <1>8, <2>1, <2>5, <3>1, WholeAlone
    <2> QED BY <2>4, <2>5
  <1>11. CASE n = b
    <2>1. \A d \in Others(c) : n \notin Footprint(d)
      BY <1>1, <1>11, WritesAlone
    <2>2. disk'[n][p] # {} /\ \A q \in Parts : q # p => disk'[n][q] = disk[n][q]
      BY <1>1, <1>2, <1>11
    <2>3. disk'[n]["main"] # {}
      <3>1. "main" \in todo \/ disk[n]["main"] # {}
        BY <1>1, <1>4, <1>11 DEF WholeCall, b
      <3> QED BY <1>1, <2>2, <3>1 DEF Parts
    <2>4. WholeCall(c, n)'
      <3>1. CASE GoesOn(c, p)
        BY <1>1, <1>6, <1>11, <2>3, <3>1 DEF WholeCall, Removing, Placing
      <3> QED BY <1>7, <3>1
    <2> QED BY <1>1, <1>8, <2>1, <2>3, <2>4, WholeAlone
  <1> QED BY <1>9, <1>10, <1>11

LEMMA WorksWhole ==
  ASSUME IInv, WholeInv, NEW c \in Calls, Works(c), NEW n \in Names, n \notin raced'
  PROVE  WholeAt(n)'
  <1>1. raced \subseteq raced'
    BY WorksGrows DEF Ages
  <1>2. WholeAt(n)
    BY <1>1 DEF WholeInv
  <1>3. CASE EditPart(c) \/ RemovePart(c) \/ PlacePart(c) \/ MovePart(c)
    BY <1>1, <1>2, <1>3, EditWhole, RemoveWhole, PlaceWhole, MoveWhole
  <1>4. CASE Backup(c)
    <2>1. /\ Moves(c) /\ disk' = disk /\ call[c].pc = "backup"
          /\ call'[c].op = call[c].op /\ call'[c].from = call[c].from /\ call'[c].to = call[c].to
          /\ call'[c].todo = call[c].todo /\ (call'[c].backup <=> call[c].backup) /\ call[c].backup
          /\ call[c].op \in {"reset", "chunks", "install", "copy"}
      BY <1>4, BackupView
    <2>2. call'[c].pc = CASE call[c].op = "reset" -> "remove"
                            [] call[c].op = "chunks" -> "edit"
                            [] OTHER -> "extract"
      BY <1>4, BackupView
    <2>3. SameParts(n) /\ OneWorld(n)' /\ ~Midway(call[c], n)
      BY <1>2, <2>1 DEF SameParts, OneWorld, WholeAt, Midway
    <2>4. WholeCall(c, n)'
      <3>1. CASE call[c].op = "reset"
        <4>1. call'[c].pc = "remove" /\ Doomed(call'[c]) = Doomed(call[c]) /\ Removing(call[c])
          BY <2>1, <2>2, <3>1 DEF Doomed, Removing
        <4>2. WholeCall(c, n)
          BY <1>2 DEF WholeAt
        <4> QED BY <2>1, <4>1, <4>2 DEF WholeCall, Placing
      <3>2. CASE call[c].op = "chunks"
        BY <2>2, <3>2, WholeVacuous
      <3>3. CASE call[c].op \in {"install", "copy"}
        <4>1. call'[c].pc = "extract" /\ call'[c].backup
          BY <2>1, <2>2, <3>3
        <4> QED BY <4>1 DEF WholeCall, Removing, Placing
      <3> QED BY <2>1, <3>1, <3>2, <3>3
    <2> QED BY <1>2, <2>1, <2>3, <2>4, WholeStays
  <1>5. CASE ActivateGoes(c) \/ Select(c) \/ WriteEnv(c)
    <2>1. /\ Moves(c) /\ call[c].pc \in {"look", "select", "env"} /\ disk' = disk
          /\ call'[c] = Free \/ call'[c].pc = "env"
      <3>1. CASE ActivateGoes(c)
        BY <3>1, ActivateGoesView DEF Levelled
      <3>2. CASE Select(c)
        BY <3>2, SelectView DEF Levelled, StandStill
      <3>3. CASE WriteEnv(c)
        BY <3>3, WriteEnvView
      <3> QED BY <1>5, <3>1, <3>2, <3>3
    <2>2. SameParts(n) /\ OneWorld(n)' /\ ~Midway(call[c], n)
      BY <1>2, <2>1 DEF SameParts, OneWorld, WholeAt, Midway
    <2>3. WholeCall(c, n)'
      BY <2>1, WholeVacuous, FreeWhole
    <2> QED BY <1>2, <2>1, <2>2, <2>3, WholeStays
  <1>6. CASE StepFails(c)
    <2>1. /\ Moves(c) /\ call'[c] = Free /\ disk' = disk
          /\ raced' = IF call[c].pc \in {"extract", "edit"} THEN raced ELSE raced \cup Footprint(c)
      BY <1>6, StepFailsView
    <2>2. ~Midway(call[c], n)
      <3>1. Midway(call[c], n) => n \in Footprint(c) /\ call[c].pc \notin {"extract", "edit"}
        BY UsesIs DEF Midway, Uses, Underway, Doomed
      <3> QED BY <2>1, <3>1
    <2>3. SameParts(n) /\ OneWorld(n)'
      BY <1>2, <2>1 DEF SameParts, OneWorld, WholeAt
    <2> QED BY <1>2, <2>1, <2>2, <2>3, FreeWhole, WholeStays
  <1> QED BY <1>3, <1>4, <1>5, <1>6 DEF Works

\* The server comes up: what it makes at n is the only thing there.
LEMMA WakesWhole ==
  ASSUME IInv, NEW starting \in SUBSET Calls, NEW hows, Wakes(starting, hows),
         \A d \in starting : call[d].pc = "pull",
         NEW level \in Names \cup {NoName}, Boots(level, starting),
         NEW n \in Names, WholeAt(n), n \notin raced'
  PROVE  WholeAt(n)'
  <1> DEFINE k == ActiveLevel(level)
  <1>0. \E missing \in SUBSET Parts :
          /\ Rises(k, missing)
          /\ raced' = raced \cup Shared({m \in {k} : missing # {} \/ m # prop}, Calls \ starting)
    BY ONLY IInv, level \in Names \cup {NoName}, Boots(level, starting), BootsView
  <1>1. PICK missing \in SUBSET Parts :
           /\ Rises(k, missing)
           /\ raced' = raced \cup Shared({m \in {k} : missing # {} \/ m # prop}, Calls \ starting)
    BY <1>0
  <1> HIDE DEF k
  <1>2. k \in Names /\ (disk[k]["main"] = {} => "main" \in missing)
    BY <1>1 DEF Rises
  <1>3. \A m \in Names, q \in Parts :
           disk'[m][q] = IF m = k /\ q \in missing THEN {next} ELSE disk[m][q]
    BY <1>1, <1>2, BootsDisk
  <1>4. OneWorld(n)'
    BY <1>3 DEF OneWorld, WholeAt
  <1>5. CASE n # k \/ missing = {}
    <2>1. SameParts(n)
      BY <1>3, <1>5 DEF SameParts
    <2>2. ASSUME NEW d \in Calls, d \in starting PROVE ~Midway(call[d], n) /\ WholeCall(d, n)'
      <3>1. call[d].pc = "pull" /\ call'[d] = Free
        BY <2>2 DEF Wakes
      <3> QED BY <3>1, FreeWhole DEF Midway
    <2>3. ASSUME NEW d \in Calls, d \notin starting PROVE Alike(call[d], call'[d])
      BY <2>3 DEF Wakes, Alike
    <2>4. \A d \in Calls : Midway(call[d], n) => Midway(call'[d], n)
      BY <2>2, <2>3, AlikeMidway
    <2>5. NoStray(n)'
      BY <2>1, <2>4 DEF WholeAt, NoStray, SameParts, Parts
    <2>6. ASSUME NEW d \in Calls PROVE WholeCall(d, n)'
      BY <2>1, <2>2, <2>3, <2>4, WholeAlike
    <2> QED BY <1>4, <2>5, <2>6 DEF WholeAt
  <1>6. CASE n = k /\ missing # {}
    <2>1. ASSUME NEW d \in Calls PROVE WholeCall(d, n)'
      <3>1. CASE d \in starting
        <4>1. call'[d] = Free
          BY <3>1 DEF Wakes
        <4> QED BY <4>1, FreeWhole
      <3>2. CASE d \notin starting
        <4>1. n \notin Footprint(d)
          BY <1>1, <1>6, <3>2, SharedHas
        <4>2. ~Uses(call'[d], n)
          BY <3>2, <4>1, UsesIs DEF Wakes, Kin, Uses
        <4> QED BY <4>2, WholeUnused
      <3> QED BY <3>1, <3>2
    <2>2. disk'[n]["main"] # {}
      BY <1>2, <1>3, <1>6 DEF Parts
    <2> QED BY <1>4, <2>1, <2>2 DEF WholeAt, NoStray
  <1> QED BY <1>5, <1>6

LEMMA WholeInit == Init => WholeInv
  <1> SUFFICES ASSUME Init, NEW n \in Names PROVE WholeAt(n)
    BY DEF WholeInv
  <1>1. PICK made \in {{}, {First, Second}} :
           disk = [m \in Names |-> [p \in Parts |->
                     IF m \in made /\ (p = "main" \/ scene.split)
                     THEN {IF m = First THEN 1 ELSE 2} ELSE {}]]
    BY DEF Init
  <1>2. OneWorld(n)
    BY <1>1 DEF OneWorld
  <1>3. disk[n]["wing"] # {} => disk[n]["main"] # {}
    BY <1>1 DEF Parts
  <1>4. \A d \in Calls : call[d] = Free
    BY DEF Init
  <1>5. ASSUME NEW d \in Calls PROVE WholeCall(d, n)
    BY <1>4, FreeIs DEF WholeCall, Removing, Placing
  <1> QED BY <1>2, <1>3, <1>5 DEF WholeAt, NoStray

LEMMA WholeNext == IInv /\ LInv /\ WholeInv /\ [Next]_worldVars => WholeInv'
  <1> SUFFICES ASSUME IInv, LInv, WholeInv, [Next]_worldVars, NEW n \in Names, n \notin raced'
               PROVE  WholeAt(n)'
    BY DEF WholeInv
  <1>1. CASE RouterStarts
    <2>1. Wakes({}, Woken) /\ box \in Names \cup {NoName} /\ Boots(box, {})
      BY <1>1, RouterView
    <2>2. WholeAt(n)
      BY <2>1, BootsGrows DEF Ages, WholeInv
    <2> QED BY <2>1, <2>2, WakesWhole
  <1>2. ASSUME NEW c \in Calls, Launch(c) PROVE WholeAt(n)'
    <2>1. /\ Wakes({c}, InFlight(c)) /\ call[c].env \in Names \cup {NoName} /\ Boots(call[c].env, {c})
          /\ call[c].pc = "pull"
      BY <1>2, LaunchView DEF Launch
    <2>2. WholeAt(n)
      BY <2>1, BootsGrows DEF Ages, WholeInv
    <2> QED BY <2>1, <2>2, WakesWhole
  <1>3. CASE ContainerExits \/ UNCHANGED worldVars \/ Chosen
    <2>1. UNCHANGED <<disk, call>> /\ raced \subseteq raced'
      <3>1. CASE ContainerExits
        BY <3>1 DEF ContainerExits
      <3>2. CASE UNCHANGED worldVars
        BY <3>2 DEF worldVars
      <3>3. CASE Chosen
        BY <3>3, ChosenView
      <3> QED BY <1>3, <3>1, <3>2, <3>3
    <2>2. WholeAt(n)
      BY <2>1 DEF WholeInv
    <2>3. SameParts(n) /\ OneWorld(n)' /\ NoStray(n)'
      BY <2>1, <2>2 DEF WholeAt, SameParts, OneWorld, NoStray
    <2>4. \A d \in Calls : Alike(call[d], call'[d])
      BY <2>1 DEF Alike, Kin
    <2> QED BY <2>1, <2>2, <2>3, <2>4, WholeAlike DEF WholeAt
  <1>4. CASE Play
    <2>1. plays \in Names /\ call' = call
      BY <1>4 DEF LInv, LiveInv, Play
    <2>2. /\ Ages
          /\ \A m \in Names, q \in Parts :
               disk'[m][q] = IF m # plays \/ disk[m][q] = {} THEN disk[m][q] ELSE {next}
      BY <1>4, <2>1, PlayGrows
    <2>3. WholeAt(n)
      BY <2>2 DEF Ages, WholeInv
    <2>4. SameParts(n) /\ OneWorld(n)'
      BY <2>2, <2>3 DEF WholeAt, SameParts, OneWorld
    <2>5. NoStray(n)'
      BY <2>1, <2>3, <2>4 DEF WholeAt, NoStray, SameParts, Parts
    <2>6. \A d \in Calls : Alike(call[d], call'[d])
      BY <2>1 DEF Alike, Kin
    <2> QED BY <2>1, <2>3, <2>4, <2>5, <2>6, WholeAlike DEF WholeAt
  <1>5. ASSUME NEW c \in Calls, StandsStill(c) PROVE WholeAt(n)'
    <2>1. WholeAt(n)
      BY <1>5, StandsStillTypes DEF StandStill, WholeInv
    <2> QED BY <1>5, <2>1, StandsStillWhole
  <1>6. ASSUME NEW c \in Calls, Works(c) PROVE WholeAt(n)'
    BY <1>6, WorksWhole
  <1> QED BY <1>1, <1>2, <1>3, <1>4, <1>5, <1>6, NextIs

LEMMA OneAtMost ==
  ASSUME NEW S, \A v, w \in S : v = w
  PROVE  Cardinality(S) <= 1
  <1>1. CASE S = {}
    BY <1>1, FS_EmptySet
  <1>2. CASE S # {}
    <2>1. PICK x \in S : TRUE
      BY <1>2
    <2>2. S = {x}
      BY <2>1
    <2> QED BY <2>2, FS_Singleton
  <1> QED BY <1>1, <1>2

\* However the operations meet, no directory comes to hold the files of two
\* worlds, and none outlives the world it belongs to, but at names that two
\* requests worked on at once or that one of them failed at.
THEOREM DirectoriesHoldOneWorld == Spec => []WorldsStayWhole
  <1>1. WholeInv => WorldsStayWhole
    <2> SUFFICES ASSUME WholeInv, NEW n \in Names \ raced
                 PROVE  /\ \A p \in Parts : Cardinality(disk[n][p]) <= 1
                        /\ Quiet /\ disk[n]["wing"] # {} => Exists(n)
      BY DEF WorldsStayWhole
    <2>1. WholeAt(n)
      BY DEF WholeInv
    <2>2. \A p \in Parts : Cardinality(disk[n][p]) <= 1
      BY <2>1, OneAtMost DEF WholeAt, OneWorld
    <2>3. Quiet => ~ \E d \in Calls : Midway(call[d], n)
      BY DEF Quiet, Midway
    <2> QED BY <2>1, <2>2, <2>3 DEF WholeAt, NoStray, Exists
  <1>2. Spec => [](IInv /\ LInv /\ WholeInv)
    BY InitTypes, NextTypes, LiveInit, LiveNext, WholeInit, WholeNext, PTL DEF Spec
  <1> QED BY <1>1, <1>2, PTL

-----------------------------------------------------------------------------
(* The active level has a world *)

\* A request that will yet see to it that the level n has a world, or that
\* another name is the level.
Owes(r, n) ==
  \/ /\ r.op \in {"install", "copy"} /\ r.to = n
     /\ r.pc = "remove" \/ (r.pc = "place" /\ "main" \in r.todo /\ r.backup)
  \/ r.op = "rename" /\ r.from = n /\ r.pc \in {"move", "select", "env"}

Spoken(n) == n \in raced \cup unmade
Safe(n) == Exists(n) \/ Spoken(n) \/ \E d \in Calls : Owes(call[d], n)

\* What the requests rely on that have to do with the level.
LevelCall(c) ==
  LET r == call[c]
  IN /\ r.op = "delete" /\ r.from = Level => r.from \in raced
     /\ r.op = "rename" /\ r.from = Level
          => r.from \in raced \/ r.from = r.env \/ (r.env = NoName /\ env = NoName)
     /\ r.op = "rename" /\ (r.pc \in {"select", "env"} \/ (r.pc = "move" /\ "main" \notin r.todo))
          => Exists(r.to) \/ r.to \in raced
     /\ r.op = "activate" /\ r.pc = "env" => Exists(r.from) \/ r.from \in raced
     /\ r.op \in {"rename", "activate"} /\ r.pc = "env" => r.env # NoName
     /\ r.op = "reset" /\ r.pc # "look" /\ r.env # NoName => r.from = r.env
     /\ r.op = "reset" /\ r.pc = "env" => Exists(r.from) \/ Spoken(r.from)

LevelInv == Safe(Level) /\ \A c \in Calls : LevelCall(c)

\* A new level is told to all who are at work on it, and a world that a reset
\* was to make anew is so until it is there.
LevelTold(who) ==
  \/ Level' = Level /\ (env' = NoName <=> env = NoName)
  \/ \A d \in who : Level' \in Footprint(d) => Level' \in raced'
Remade == \A n \in Names : n \in unmade => n \in unmade' \/ Exists(n)'

LEMMA FreeLevel ==
  ASSUME NEW c \in Calls, call'[c] = Free
  PROVE  LevelCall(c)'
  BY FreeIs DEF LevelCall

LEMMA LevelIs ==
  ASSUME IInv
  PROVE  /\ env = NoName => Level = prop
         /\ env # NoName => Level = env
         /\ env' = NoName => Level' = prop'
         /\ env' # NoName => Level' = env'
         /\ Level \in Names
  <1>1. env \in Names \cup {NoName}
    BY TypeFacts
  <1> QED BY <1>1, ActiveIs DEF Level, ActiveLevel

\* A request that has not moved, at names that others touch only if they are raced.
LEMMA LevelOthers ==
  ASSUME IInv, LevelInv, Ages, Remade, NEW who, Touches(who), LevelTold(who),
         NEW d \in Calls, d \in who, Alike(call[d], call'[d])
  PROVE  LevelCall(d)'
  <1> DEFINE r == call[d]
             t == call'[d]
  <1>1. LevelCall(d)
    BY DEF LevelInv
  <1>2. /\ t.op = r.op /\ t.pc = r.pc /\ t.from = r.from /\ t.to = r.to /\ t.env = r.env /\ t.todo = r.todo
    BY DEF Alike, Kin
  <1>3. Shape(r)
    BY CallFacts
  <1>4. ASSUME NEW n \in Names, n \in Footprint(d), n \notin raced' PROVE disk'[n]["main"] # {} <=> Exists(n)
    BY <1>4 DEF Touches, Exists, Parts
  <1>5. ASSUME NEW n \in Names, Uses(r, n) PROVE n \in Footprint(d)
    BY <1>5, UsesIs
  <1>6. raced \subseteq raced'
    BY DEF Ages
  <1>7. r.op = "delete" /\ r.from = Level' => r.from \in raced'
    <2> SUFFICES ASSUME r.op = "delete", r.from = Level' PROVE r.from \in raced'
      OBVIOUS
    <2>1. r.from \in Footprint(d)
      BY <1>3, <1>5 DEF Shape, Uses, Underway
    <2> QED BY <1>1, <1>6, <2>1 DEF LevelCall, LevelTold
  <1>8. r.op = "rename" /\ r.from = Level' =>
          r.from \in raced' \/ r.from = r.env \/ (r.env = NoName /\ env' = NoName)
    <2> SUFFICES ASSUME r.op = "rename", r.from = Level'
                 PROVE  r.from \in raced' \/ r.from = r.env \/ (r.env = NoName /\ env' = NoName)
      OBVIOUS
    <2>1. r.from \in Footprint(d)
      BY <1>3, <1>5 DEF Shape, Uses, Underway
    <2>2. CASE Level' = Level /\ (env' = NoName <=> env = NoName)
      BY <1>1, <1>6, <2>2 DEF LevelCall
    <2>3. CASE Level' \in Footprint(d) => Level' \in raced'
      BY <2>1, <2>3
    <2> QED BY <2>2, <2>3 DEF LevelTold
  <1>9. ASSUME r.op = "rename", r.pc \in {"select", "env"} \/ (r.pc = "move" /\ "main" \notin r.todo)
        PROVE  disk'[r.to]["main"] # {} \/ r.to \in raced'
    <2>1. r.to \in Names /\ r.to \in Footprint(d)
      BY <1>3, <1>5, <1>9 DEF Shape, Uses, Underway
    <2>2. Exists(r.to) \/ r.to \in raced
      BY <1>1, <1>9 DEF LevelCall
    <2> HIDE DEF r
    <2> QED BY <1>4, <1>6, <2>1, <2>2
  <1>10. ASSUME r.op = "activate", r.pc = "env"
         PROVE  disk'[r.from]["main"] # {} \/ r.from \in raced'
    <2>1. r.from \in Names /\ r.from \in Footprint(d)
      BY <1>3, <1>5, <1>10 DEF Shape, Uses, Underway
    <2>2. Exists(r.from) \/ r.from \in raced
      BY <1>1, <1>10 DEF LevelCall
    <2> HIDE DEF r
    <2> QED BY <1>4, <1>6, <2>1, <2>2
  <1>11. ASSUME r.op = "reset", r.pc = "env"
         PROVE  disk'[r.from]["main"] # {} \/ r.from \in raced' \cup unmade'
    <2>1. r.from \in Names /\ r.from \in Footprint(d)
      BY <1>3, <1>5, <1>11 DEF Shape, Uses, Underway
    <2>2. Exists(r.from) \/ r.from \in raced \cup unmade
      BY <1>1, <1>11 DEF LevelCall, Spoken
    <2> HIDE DEF r
    <2> QED BY <1>4, <1>6, <2>1, <2>2 DEF Remade, Exists
  <1>12. /\ r.op \in {"rename", "activate"} /\ r.pc = "env" => r.env # NoName
         /\ r.op = "reset" /\ r.pc # "look" /\ r.env # NoName => r.from = r.env
    BY <1>1 DEF LevelCall
  <1> QED BY <1>2, <1>7, <1>8, <1>9, <1>10, <1>11, <1>12 DEF LevelCall, Spoken, Exists

\* Nothing changes but one request, which owed the level nothing.
LEMMA LevelStands ==
  ASSUME IInv, LevelInv, NEW c \in Calls, Moves(c), StandStill,
         \A n \in Names : ~Owes(call[c], n),
         LevelCall(c)'
  PROVE  LevelInv'
  <1>2. Level' = Level /\ env' = env /\ Level \in Names
    BY LevelIs DEF StandStill
  <1>3. Safe(Level)'
    <2>1. \A d \in Calls : Owes(call[d], Level) => Owes(call'[d], Level)
      BY <1>2 DEF Moves
    <2>2. Exists(Level) => disk'[Level]["main"] # {}
      BY DEF Exists, StandStill
    <2> QED BY <1>2, <2>1, <2>2 DEF LevelInv, Safe, Exists, Spoken, StandStill
  <1>4. ASSUME NEW d \in Calls, d # c PROVE LevelCall(d)'
    <2>1. Alike(call[d], call'[d])
      BY <1>4 DEF Moves, Alike, Kin
    <2>2. Touches(Calls) /\ Ages
      BY StillGrows DEF StandStill
    <2>3. LevelTold(Calls) /\ Remade
      BY <1>2 DEF LevelTold, Remade, StandStill
    <2> QED BY <2>1, <2>2, <2>3, LevelOthers
  <1> QED BY <1>3, <1>4 DEF LevelInv

LEMMA FreshLevel ==
  ASSUME IInv, LevelInv, NEW c \in Calls, Moves(c), StandStill, NEW op, NEW pc, Fresh(c, op, pc),
         op \notin {"delete", "rename"}, pc # "env", op = "reset" => pc = "look"
  PROVE  LevelInv'
  <1>1. \A n \in Names : ~Owes(call[c], n)
    BY DEF Fresh, Owes
  <1>3. LevelCall(c)'
    BY DEF Fresh, LevelCall
  <1> QED BY <1>1, <1>3, LevelStands

\* A request of an operation that has nothing to do with the level goes on.
LEMMA OtherOpLevel ==
  ASSUME IInv, LevelInv, NEW c \in Calls, Moves(c), StandStill, Kin(call[c], call'[c]),
         call[c].op \notin {"none", "delete", "rename", "activate", "reset"},
         \A n \in Names : ~Owes(call[c], n)
  PROVE  LevelInv'
  <1>2. LevelCall(c)'
    BY DEF Kin, LevelCall
  <1> QED BY <1>2, LevelStands

LEMMA StandsStillLevel ==
  ASSUME IInv, LevelInv, NEW c \in Calls, StandsStill(c)
  PROVE  LevelInv'
  <1>0. Moves(c) /\ StandStill
    BY StandsStillTypes
  <1>1. CASE StartServer(c) \/ LaunchEnds(c) \/ Refused(c) \/ BackupFails(c)
    <2>1. CASE StartServer(c)
      <3>1. Fresh(c, "start", "pull")
        BY <2>1, StartView
      <3> QED BY <1>0, <3>1, FreshLevel
    <2>2. CASE LaunchEnds(c) \/ Refused(c) \/ BackupFails(c)
      <3>1. EarlyEnd(c) /\ call'[c] = Free
        BY <2>2, EndView
      <3>2. \A n \in Names : ~Owes(call[c], n)
        BY <3>1 DEF EarlyEnd, Owes
      <3> QED BY <1>0, <3>1, <3>2, FreeIs, FreeLevel, LevelStands
    <2> QED BY <1>1, <2>1, <2>2
  <1>2. CASE \E wanted \in BOOLEAN : ResetWorld(c, wanted)
    <2>1. Fresh(c, "reset", "look")
      BY <1>2, ResetView
    <2> QED BY <1>0, <2>1, FreshLevel
  <1>3. CASE \/ \E op \in {"install", "copy"} : Asks(c, op, Replace)
             \/ \E op \in {"install", "copy"}, n \in Names : Asks(c, op, Alongside(n))
    <2>1. \E op \in {"install", "copy"}, pc \in {"look", "check"} : Fresh(c, op, pc)
      BY <1>3, ReplaceView, AlongsideView DEF Asks
    <2> QED BY <1>0, <2>1, FreshLevel
  <1>4. CASE \/ \E n \in Names : ActivateWorld(c, n) \/ ShrinkWorld(c, n)
             \/ \E n \in Names, wanted \in BOOLEAN : DeleteChunks(c, n, wanted)
    <2>1. \E op \in {"activate", "shrink", "chunks"} : Fresh(c, op, "look")
      BY <1>4, ActivateView, ShrinkView, ChunksView
    <2> QED BY <1>0, <2>1, FreshLevel
  <1>5. CASE \E n, m \in Names : DuplicateWorld(c, n, m)
    <2>1. Fresh(c, "duplicate", "place")
      BY <1>5, DuplicateView
    <2> QED BY <1>0, <2>1, FreshLevel
  <1>6. CASE \E n \in Names : DeleteWorld(c, n)
    <2>1. PICK n \in Names : DeleteWorld(c, n)
      BY <1>6
    <2>2. Fresh(c, "delete", "remove") /\ call'[c].from = n /\ n # Level
      BY <2>1, DeleteView
    <2>3. Level' = Level
      BY <1>0, LevelIs DEF StandStill
    <2>4. LevelCall(c)'
      BY <2>2, <2>3 DEF LevelCall, Fresh
    <2>5. \A k \in Names : ~Owes(call[c], k)
      BY <2>2 DEF Owes, Fresh
    <2> QED BY <1>0, <2>4, <2>5, LevelStands
  <1>7. CASE \E n, m \in Names : RenameWorld(c, n, m)
    <2>1. Fresh(c, "rename", "look")
      BY <1>7, RenameView
    <2>2. env' = call'[c].env /\ (env' # NoName => Level' = env')
      BY <1>0, <2>1, LevelIs DEF Fresh, StandStill
    <2>3. LevelCall(c)'
      BY <2>1, <2>2 DEF LevelCall, Fresh
    <2>4. \A k \in Names : ~Owes(call[c], k)
      BY <2>1 DEF Owes, Fresh
    <2> QED BY <1>0, <2>3, <2>4, LevelStands
  <1>8. CASE RenameGoes(c)
    <2>1. /\ Kin(call[c], call'[c]) /\ call[c].op = "rename" /\ call[c].pc = "look"
          /\ call'[c].pc = "move" /\ "main" \in call'[c].todo
      BY <1>8, RenameGoesView, DimsAre
    <2>2. Level' = Level /\ env' = env /\ raced' = raced
      BY <1>0, LevelIs DEF StandStill
    <2>3. LevelCall(c)
      BY DEF LevelInv
    <2>4. LevelCall(c)'
      BY <2>1, <2>2, <2>3 DEF LevelCall, Kin
    <2>5. \A k \in Names : ~Owes(call[c], k)
      BY <2>1 DEF Owes
    <2> QED BY <1>0, <2>4, <2>5, LevelStands
  <1>9. CASE ResetGoes(c)
    <2>1. /\ call[c].op = "reset" /\ call[c].pc = "look" /\ call'[c].op = "reset"
          /\ call'[c].env = call[c].env /\ call'[c].pc \in {"backup", "remove"}
          /\ call'[c].from = ActiveLevel(call[c].env)
      BY <1>9, ResetGoesView
    <2>2. LevelCall(c)'
      BY <2>1 DEF LevelCall, ActiveLevel
    <2>3. \A k \in Names : ~Owes(call[c], k)
      BY <2>1 DEF Owes
    <2> QED BY <1>0, <2>2, <2>3, LevelStands
  <1>10. CASE ReplaceGoes(c)
    <2>1. /\ call[c].op \in {"install", "copy"} /\ call[c].pc = "look" /\ call'[c].op = call[c].op
          /\ call'[c].env = call[c].env
      BY <1>10, ReplaceGoesView
    <2>2. LevelCall(c)'
      BY <2>1 DEF LevelCall
    <2>3. \A k \in Names : ~Owes(call[c], k)
      BY <2>1 DEF Owes
    <2> QED BY <1>0, <2>2, <2>3, LevelStands
  <1>11. CASE EditGoes(c) \/ EnterGuard(c) \/ Recheck(c)
    <2>1. Kin(call[c], call'[c]) /\ call[c].op \in Editors
      BY <1>11, EditGoesView, EnterGuardView, RecheckView
    <2>2. \A k \in Names : ~Owes(call[c], k)
      BY <2>1 DEF Owes, Editors
    <2> QED BY <1>0, <2>1, <2>2, OtherOpLevel DEF Editors
  <1>12. CASE AlongsideGoes(c) \/ Extract(c)
    <2>1. Kin(call[c], call'[c]) /\ call[c].op \in {"install", "copy"} /\ call[c].pc \in {"check", "extract"}
      BY <1>12, AlongsideGoesView, ExtractView
    <2>2. \A k \in Names : ~Owes(call[c], k)
      BY <2>1 DEF Owes
    <2> QED BY <1>0, <2>1, <2>2, OtherOpLevel
  <1> QED BY <1>1, <1>2, <1>3, <1>4, <1>5, <1>6, <1>7, <1>8, <1>9, <1>10, <1>11, <1>12 DEF StandsStill

\* A request goes on and nobody else moves.
LEMMA LevelMoves ==
  ASSUME IInv, LevelInv, NEW c \in Calls, Moves(c), Ages, Remade,
         Touches(Others(c)), LevelTold(Others(c)), LevelCall(c)', Safe(Level)'
  PROVE  LevelInv'
  <1>1. ASSUME NEW d \in Calls, d # c PROVE LevelCall(d)'
    <2>1. Alike(call[d], call'[d]) /\ d \in Others(c)
      BY <1>1 DEF Moves, Alike, Kin, Others
    <2> QED BY <2>1, LevelOthers
  <1> QED BY <1>1 DEF LevelInv

\* The level stays, and what was owed to it is still.
LEMMA SafeStays ==
  ASSUME IInv, LevelInv, Ages, Remade, Level' = Level,
         Exists(Level) => disk'[Level]["main"] # {} \/ Level \in raced',
         \A d \in Calls : Owes(call[d], Level)
            => Owes(call'[d], Level) \/ disk'[Level]["main"] # {} \/ Level \in raced'
  PROVE  Safe(Level)'
  <1>1. Level \in Names
    BY LevelIs
  <1> QED BY <1>1 DEF LevelInv, Safe, Spoken, Exists, Ages, Remade

LEMMA LevelSame ==
  ASSUME IInv, UNCHANGED <<env, prop>>
  PROVE  Level' = Level /\ env' = env /\ \A who : LevelTold(who)
  BY LevelIs DEF LevelTold

LEMMA RemadeSame == ASSUME unmade \subseteq unmade' PROVE Remade
  BY DEF Remade

LEMMA RemoveLevel ==
  ASSUME IInv, LevelInv, NEW c \in Calls, RemovePart(c)
  PROVE  LevelInv'
  <1> DEFINE p == Part(call[c].todo)
             m == Doomed(call[c])
             r == call[c]
             t == call'[c]
  <1>1. /\ Moves(c) /\ r.pc = "remove" /\ m \in Names /\ p \in Parts
        /\ r.op \in {"reset", "delete", "install", "copy"}
        /\ UNCHANGED <<scene, live, plays, prop, env, box, saved, next>>
        /\ raced' = raced \cup Shared({m}, Others(c))
        /\ unmade' = (IF r.op = "reset" THEN unmade \cup {m} ELSE unmade)
    BY RemovePartView
  <1>2. /\ p \in Parts
        /\ \/ GoesOn(c, p)
           \/ r.op = "delete" /\ t = Free
           \/ r.op = "reset" /\ Kin(r, t) /\ t.pc = "env"
           \/ r.op \in {"install", "copy"} /\ Kin(r, t) /\ t.pc = "place" /\ t.todo = LibraryParts
    BY RemovePartView
  <1>3. Only(m, p, {})
    BY RemoveDisk
  <1>4. LevelCall(c) /\ Shape(r)
    BY CallFacts DEF LevelInv
  <1>5. Level' = Level /\ LevelTold(Others(c)) /\ Level \in Names
    BY <1>1, LevelSame, LevelIs
  <1>6. Ages /\ Touches(Others(c))
    BY WorksGrows DEF Works
  <1>7. Remade
    BY <1>1, RemadeSame
  <1>8. t = Free \/ Kin(r, t)
    BY <1>2 DEF GoesOn
  <1> HIDE DEF p
  <1>10. LevelCall(c)'
    <2>1. CASE t = Free
      BY <2>1, FreeLevel
    <2>2. CASE Kin(r, t) /\ r.op \in {"install", "copy"}
      BY <2>2 DEF Kin, LevelCall
    <2>3. CASE Kin(r, t) /\ r.op = "delete"
      BY <1>4, <1>5, <1>6, <2>3 DEF Kin, LevelCall, Ages
    <2>4. CASE Kin(r, t) /\ r.op = "reset"
      <3>1. r.from = m /\ t.from = m /\ m \in unmade'
        BY <1>1, <2>4 DEF Kin, Doomed
      <3> QED BY <1>1, <1>4, <2>4, <3>1 DEF Kin, LevelCall, Spoken
    <2> QED BY <1>1, <1>8, <2>1, <2>2, <2>3, <2>4
  <1>11. ASSUME NEW n \in Names, Owes(r, n) PROVE Owes(t, n)
    <2>1. r.op \in {"install", "copy"} /\ r.to = n /\ r.backup
      BY <1>1, <1>4, <1>11 DEF Owes, Shape
    <2>2. CASE GoesOn(c, p)
      BY <1>1, <2>1, <2>2 DEF GoesOn, Kin, Owes
    <2>3. CASE Kin(r, t) /\ t.pc = "place" /\ t.todo = LibraryParts
      <3>1. "main" \in LibraryParts
        BY DEF LibraryParts, Parts
      <3> QED BY <2>1, <2>3, <3>1 DEF Kin, Owes
    <2> QED BY <1>2, <2>1, <2>2, <2>3
  <1>12. Safe(Level)'
    <2>1. \A d \in Calls : Owes(call[d], Level) => Owes(call'[d], Level)
      BY <1>1, <1>5, <1>11 DEF Moves
    <2>2. CASE Level # m
      <3>1. disk'[Level]["main"] = disk[Level]["main"]
        BY <1>3, <1>5, <2>2 DEF Only, Parts
      <3> QED BY <1>5, <1>6, <1>7, <2>1, <3>1, SafeStays DEF Exists
    <2>3. CASE Level = m
      <3>1. CASE r.op = "delete"
        <4>1. Level \in raced'
          BY <1>4, <1>6, <2>3, <3>1 DEF LevelCall, Ages, Doomed
        <4> QED BY <1>5, <4>1 DEF Safe, Spoken
      <3>2. CASE r.op = "reset"
        BY <1>1, <1>5, <2>3, <3>2 DEF Safe, Spoken
      <3>3. CASE r.op \in {"install", "copy"}
        <4>1. Owes(r, Level)
          BY <1>1, <2>3, <3>3 DEF Owes, Doomed
        <4>2. Owes(t, Level')
          BY <1>5, <1>11, <4>1
        <4> QED BY <4>2 DEF Safe
      <3> QED BY <1>1, <3>1, <3>2, <3>3
    <2> QED BY <2>2, <2>3
  <1> QED BY <1>1, <1>5, <1>6, <1>7, <1>10, <1>12, LevelMoves

LEMMA PlaceLevel ==
  ASSUME IInv, LevelInv, NEW c \in Calls, PlacePart(c)
  PROVE  LevelInv'
  <1> DEFINE p == Part(call[c].todo)
             r == call[c]
             t == call'[c]
             what == Cargo(r, p)
  <1>1. /\ Moves(c) /\ r.pc = "place" /\ r.to \in Names /\ p \in Parts
        /\ r.op \in {"duplicate", "install", "copy"}
        /\ UNCHANGED <<scene, live, plays, prop, env, box, saved, next, unmade>>
        /\ Cargo(r, p) # {}
    BY PlacePartView
  <1>2. p \in Parts /\ (t = Free \/ GoesOn(c, p))
    BY PlacePartView
  <1>3. Only(r.to, p, disk[r.to][p] \cup what)
    BY PlaceDisk
  <1>4. "main" \in r.todo => p = "main"
    BY DEF Part
  <1>5. Level' = Level /\ LevelTold(Others(c)) /\ Level \in Names
    BY <1>1, LevelSame, LevelIs
  <1>6. Ages /\ Touches(Others(c))
    BY WorksGrows DEF Works
  <1>7. Remade
    BY <1>1, RemadeSame
  <1>8. t = Free \/ Kin(r, t)
    BY <1>2 DEF GoesOn
  <1>10. what # {}
    BY <1>1
  <1> HIDE DEF p, what
  <1>11. LevelCall(c)'
    <2>1. CASE t = Free
      BY <2>1, FreeLevel
    <2>2. CASE Kin(r, t)
      BY <1>1, <2>2 DEF Kin, LevelCall
    <2> QED BY <1>8, <2>1, <2>2
  <1>12. \A n \in Names : disk[n]["main"] # {} => disk'[n]["main"] # {}
    BY <1>3 DEF Only, Parts
  <1>13. Owes(r, Level) => disk'[Level]["main"] # {}
    <2>1. Owes(r, Level) => r.to = Level /\ p = "main"
      BY <1>1, <1>4 DEF Owes
    <2> QED BY <1>3, <1>5, <1>10, <2>1 DEF Only, Parts
  <1>14. Safe(Level)'
    <2>1. \A d \in Calls : Owes(call[d], Level) => Owes(call'[d], Level) \/ disk'[Level]["main"] # {}
      BY <1>1, <1>13 DEF Moves
    <2> QED BY <1>5, <1>6, <1>7, <1>12, <2>1, SafeStays DEF Exists
  <1> QED BY <1>1, <1>5, <1>6, <1>7, <1>11, <1>14, LevelMoves

LEMMA MoveLevel ==
  ASSUME IInv, LevelInv, NEW c \in Calls, MovePart(c)
  PROVE  LevelInv'
  <1> DEFINE p == Part(call[c].todo)
             r == call[c]
             t == call'[c]
  <1>1. /\ Moves(c) /\ r.pc = "move" /\ {r.from, r.to} \subseteq Names /\ r.from # r.to /\ p \in Parts
        /\ r.op = "rename" /\ disk[r.from][p] # {}
        /\ UNCHANGED <<scene, live, plays, prop, env, box, saved, next, unmade>>
    BY MovePartView
  <1>2. /\ p \in Parts
        /\ GoesOn(c, p) \/ (call[c].todo = {p} /\ Kin(r, t) /\ t.pc = "select")
    BY MovePartView
  <1>3. \A k \in Names, q \in Parts :
           disk'[k][q] = IF q # p THEN disk[k][q]
                         ELSE IF k = r.from THEN {}
                         ELSE IF k = r.to THEN disk[r.from][p]
                         ELSE disk[k][q]
    BY MoveDisk
  <1>4. LevelCall(c) /\ "main" \in Parts
    BY DEF LevelInv, Parts
  <1>5. Level' = Level /\ LevelTold(Others(c)) /\ Level \in Names
    BY <1>1, LevelSame, LevelIs
  <1>6. Ages /\ Touches(Others(c))
    BY WorksGrows DEF Works
  <1>7. Remade
    BY <1>1, RemadeSame
  <1>8. Kin(r, t) /\ t.pc \in {"move", "select"}
    BY <1>1, <1>2 DEF GoesOn
  <1>10. "main" \in r.todo => p = "main"
    BY DEF Part
  <1> HIDE DEF p
  <1>11. LevelCall(c)'
    <2>1. disk'[r.to]["main"] # {} \/ r.to \in raced'
      <3>1. CASE "main" \in r.todo
        BY <1>1, <1>3, <1>4, <1>10, <3>1
      <3>2. CASE "main" \notin r.todo
        <4>1. disk[r.to]["main"] # {} \/ r.to \in raced
          BY <1>1, <1>4, <3>2 DEF LevelCall, Exists
        <4> QED BY <1>1, <1>3, <1>4, <1>6, <4>1 DEF Ages
      <3> QED BY <3>1, <3>2
    <2>2. r.from = Level => r.from \in raced' \/ r.from = r.env \/ (r.env = NoName /\ env = NoName)
      BY <1>1, <1>4, <1>6 DEF LevelCall, Ages
    <2> QED BY <1>1, <1>5, <1>8, <2>1, <2>2 DEF LevelCall, Kin, Exists
  <1>12. Safe(Level)'
    <2>1. CASE Level = r.from
      <3>1. Owes(t, Level')
        BY <1>1, <1>5, <1>8, <2>1 DEF Owes, Kin
      <3> QED BY <3>1 DEF Safe
    <2>2. CASE Level # r.from
      <3>1. ~Owes(r, Level)
        BY <1>1, <2>2 DEF Owes
      <3>2. \A d \in Calls : Owes(call[d], Level) => Owes(call'[d], Level)
        BY <1>1, <3>1 DEF Moves
      <3>3. disk[Level]["main"] # {} => disk'[Level]["main"] # {}
        BY <1>1, <1>3, <1>4, <1>5, <2>2
      <3> QED BY <1>5, <1>6, <1>7, <3>2, <3>3, SafeStays DEF Exists
    <2> QED BY <2>1, <2>2
  <1> QED BY <1>1, <1>5, <1>6, <1>7, <1>11, <1>12, LevelMoves

\* A request that edits or backs up leaves every level where it was.
LEMMA EditLevels ==
  ASSUME IInv, LevelInv, NEW c \in Calls, EditPart(c) \/ Backup(c)
  PROVE  LevelInv'
  <1> DEFINE p == Part(call[c].todo)
             r == call[c]
             t == call'[c]
  <1>1. /\ Moves(c) /\ UNCHANGED <<scene, prop, env, box, unmade>>
        /\ r.pc \in {"edit", "backup"} /\ r.op \in Editors \cup {"reset", "install", "copy"}
        /\ t = Free \/ (t.op = r.op /\ t.env = r.env /\ t.from = r.from /\ (t.pc = "env" => r.pc = "env"))
    <2>1. CASE EditPart(c)
      <3>1. /\ Moves(c) /\ UNCHANGED <<scene, prop, env, box, unmade>>
            /\ r.pc = "edit" /\ r.op \in Editors
            /\ t = Free \/ GoesOn(c, p)
        BY <2>1, EditPartView
      <3> HIDE DEF p
      <3> QED BY <3>1 DEF GoesOn, Kin
    <2>2. CASE Backup(c)
      <3>1. /\ Moves(c) /\ UNCHANGED <<scene, prop, env, box, unmade>>
            /\ r.pc = "backup" /\ r.op \in {"reset", "chunks", "install", "copy"}
            /\ t.op = r.op /\ t.env = r.env /\ t.from = r.from
        BY <2>2, BackupView
      <3>2. t.pc = CASE r.op = "reset" -> "remove"
                     [] r.op = "chunks" -> "edit"
                     [] OTHER -> "extract"
        BY <2>2, BackupView
      <3>3. t.pc # "env"
        BY <3>2
      <3> QED BY <3>1, <3>3 DEF Editors
    <2> QED BY <2>1, <2>2
  <1>2. \A n \in Names : disk[n]["main"] # {} => disk'[n]["main"] # {}
    <2>1. CASE EditPart(c)
      <3>1. /\ p \in Parts /\ r.from \in Names
            /\ disk' = disk \/ Only(r.from, p, {next})
        BY <2>1, EditPartView, EditDisk
      <3> HIDE DEF p
      <3> QED BY <3>1 DEF Only, Parts
    <2>2. CASE Backup(c)
      BY <2>2 DEF Backup
    <2> QED BY <2>1, <2>2
  <1>3. Ages /\ Touches(Others(c))
    BY WorksGrows DEF Works
  <1>4. Level' = Level /\ LevelTold(Others(c)) /\ Level \in Names
    BY <1>1, LevelSame, LevelIs
  <1>5. Remade
    BY <1>1, RemadeSame
  <1>7. LevelCall(c)'
    <2>1. CASE t = Free
      BY <2>1, FreeLevel
    <2>2. CASE t # Free
      BY <1>1, <2>2 DEF LevelInv, LevelCall, Editors
    <2> QED BY <2>1, <2>2
  <1>8. Safe(Level)'
    <2>1. \A n \in Names : ~Owes(r, n)
      BY <1>1 DEF Owes, Editors
    <2>2. \A d \in Calls : Owes(call[d], Level) => Owes(call'[d], Level)
      BY <1>1, <1>4, <2>1 DEF Moves
    <2> QED BY <1>2, <1>3, <1>4, <1>5, <2>2, SafeStays DEF Exists
  <1> QED BY <1>1, <1>3, <1>4, <1>5, <1>7, <1>8, LevelMoves

\* The property is set: that is the level at once, or the row has LEVEL.
LEMMA LevelledLevel ==
  ASSUME IInv, LevelInv, NEW c \in Calls, NEW n \in Names, Levelled(c, n), Moves(c)
  PROVE  /\ env = NoName => Level' = n
         /\ env # NoName => Level' = Level
         /\ call[c].env = NoName => call'[c] = Free
         /\ call[c].env # NoName => Kin(call[c], call'[c]) /\ call'[c].pc = "env"
         /\ env' = env /\ Ages /\ Remade /\ Touches(Others(c)) /\ LevelTold(Others(c))
  <1>1. /\ prop' = n /\ raced' = raced \cup Shared({n}, Others(c))
        /\ UNCHANGED <<scene, env, box, disk, saved, next, unmade>>
        /\ IF call[c].env # NoName THEN Kin(call[c], call'[c]) /\ call'[c].pc = "env" ELSE call'[c] = Free
    BY DEF Levelled
  <1>2. /\ env = NoName => Level' = n
        /\ env # NoName => Level' = Level
    BY <1>1, LevelIs
  <1>3. Ages /\ Touches(Others(c))
    BY <1>1, StillGrows
  <1>4. Remade
    BY <1>1, RemadeSame
  <1>5. LevelTold(Others(c))
    BY <1>1, <1>2, SharedHas DEF LevelTold
  <1> QED BY <1>1, <1>2, <1>3, <1>4, <1>5

LEMMA ActivateLevel ==
  ASSUME IInv, LevelInv, NEW c \in Calls, ActivateGoes(c)
  PROVE  LevelInv'
  <1> DEFINE r == call[c]
             t == call'[c]
  <1>1. /\ Moves(c) /\ r.op = "activate" /\ r.pc = "look" /\ r.from \in Names /\ Exists(r.from)
        /\ Levelled(c, r.from)
    BY ActivateGoesView
  <1>2. /\ env = NoName => Level' = r.from
        /\ env # NoName => Level' = Level
        /\ r.env = NoName => t = Free
        /\ r.env # NoName => Kin(r, t) /\ t.pc = "env"
        /\ env' = env /\ Ages /\ Remade /\ Touches(Others(c)) /\ LevelTold(Others(c))
    BY <1>1, LevelledLevel
  <1>3. disk' = disk
    BY <1>1 DEF Levelled
  <1>4. LevelCall(c)'
    <2>1. CASE r.env = NoName
      BY <1>2, <2>1, FreeLevel
    <2>2. CASE r.env # NoName
      BY <1>1, <1>2, <1>3, <2>2 DEF LevelCall, Kin, Exists
    <2> QED BY <2>1, <2>2
  <1>5. Safe(Level)'
    <2>1. CASE env = NoName
      BY <1>1, <1>2, <1>3, <2>1 DEF Safe, Exists
    <2>2. CASE env # NoName
      <3>1. ~Owes(r, Level)
        BY <1>1 DEF Owes
      <3>2. \A d \in Calls : Owes(call[d], Level) => Owes(call'[d], Level)
        BY <1>1, <3>1 DEF Moves
      <3> QED BY <1>2, <1>3, <2>2, <3>2, SafeStays DEF Exists
    <2> QED BY <2>1, <2>2
  <1> QED BY <1>1, <1>2, <1>4, <1>5, LevelMoves

LEMMA SelectLevel ==
  ASSUME IInv, LevelInv, NEW c \in Calls, Select(c)
  PROVE  LevelInv'
  <1> DEFINE r == call[c]
             t == call'[c]
  <1>1. /\ Moves(c) /\ r.op = "rename" /\ r.pc = "select" /\ {r.from, r.to} \subseteq Names
        /\ IF r.from = ActiveLevel(r.env) THEN Levelled(c, r.to) ELSE t = Free /\ StandStill
    BY SelectView
  <1>2. LevelCall(c) /\ Level \in Names
    BY LevelIs DEF LevelInv
  <1>3. disk[r.to]["main"] # {} \/ r.to \in raced
    BY <1>1, <1>2 DEF LevelCall, Exists
  <1>4. CASE r.from = ActiveLevel(r.env)
    <2>0. Levelled(c, r.to) /\ r.to \in Names
      BY <1>1, <1>4
    <2>1. /\ env = NoName => Level' = r.to
          /\ env # NoName => Level' = Level
          /\ r.env = NoName => t = Free
          /\ r.env # NoName => Kin(r, t) /\ t.pc = "env"
          /\ env' = env /\ Ages /\ Remade /\ Touches(Others(c)) /\ LevelTold(Others(c))
      BY <1>1, <2>0, LevelledLevel
    <2>2. disk' = disk
      BY <2>0 DEF Levelled
    <2>3. disk'[r.to]["main"] # {} \/ r.to \in raced'
      BY <1>3, <2>1, <2>2 DEF Ages
    <2>4. LevelCall(c)'
      <3>1. CASE r.env = NoName
        BY <2>1, <3>1, FreeLevel
      <3>2. CASE r.env # NoName
        <4>1. r.from = r.env
          BY <1>4, <3>2 DEF ActiveLevel
        <4> QED BY <1>1, <2>1, <2>3, <3>2, <4>1 DEF LevelCall, Kin, Exists
      <3> QED BY <3>1, <3>2
    <2>5. Safe(Level)'
      <3>1. CASE env = NoName
        BY <2>1, <2>3, <3>1 DEF Safe, Exists, Spoken
      <3>2. CASE env # NoName
        <4>1. Owes(r, Level) => Owes(t, Level) \/ Level \in raced'
          <5>1. CASE r.env = NoName
            <6>1. r.from # NoName
              BY <1>1, NamesAssumption
            <6> QED BY <1>1, <1>2, <2>1, <3>2, <5>1, <6>1 DEF Owes, LevelCall, Ages
          <5>2. CASE r.env # NoName
            BY <1>1, <2>1, <5>2 DEF Owes, Kin
          <5> QED BY <5>1, <5>2
        <4>2. \A d \in Calls : Owes(call[d], Level) => Owes(call'[d], Level) \/ Level \in raced'
          BY <1>1, <4>1 DEF Moves
        <4> QED BY <2>1, <2>2, <3>2, <4>2, SafeStays DEF Exists
      <3> QED BY <3>1, <3>2
    <2> QED BY <1>1, <2>1, <2>4, <2>5, LevelMoves
  <1>5. CASE r.from # ActiveLevel(r.env)
    <2>1. t = Free /\ StandStill
      BY <1>1, <1>5
    <2>2. Ages /\ Touches(Others(c))
      BY <2>1, StillGrows DEF StandStill
    <2>3. Level' = Level /\ LevelTold(Others(c)) /\ Remade
      BY <2>1, LevelSame, RemadeSame DEF StandStill
    <2>5. LevelCall(c)'
      BY <2>1, FreeLevel
    <2>6. Owes(r, Level) => Level \in raced'
      <3> SUFFICES ASSUME Owes(r, Level) PROVE Level \in raced
        BY <2>2 DEF Ages
      <3>1. r.from = Level
        BY <1>1 DEF Owes
      <3>2. CASE r.from = r.env
        BY <1>1, <1>5, <3>2, NamesAssumption DEF ActiveLevel
      <3>3. CASE r.env = NoName /\ env = NoName
        BY <1>5, <3>1, <3>3, LevelIs DEF ActiveLevel
      <3> QED BY <1>1, <1>2, <3>1, <3>2, <3>3 DEF LevelCall
    <2>7. \A d \in Calls : Owes(call[d], Level) => Owes(call'[d], Level) \/ Level \in raced'
      BY <1>1, <2>6 DEF Moves
    <2>8. Safe(Level)'
      BY <2>1, <2>2, <2>3, <2>7, SafeStays DEF StandStill, Exists
    <2> QED BY <1>1, <2>2, <2>3, <2>5, <2>8, LevelMoves
  <1> QED BY <1>4, <1>5

LEMMA WriteEnvLevel ==
  ASSUME IInv, LevelInv, NEW c \in Calls, WriteEnv(c)
  PROVE  LevelInv'
  <1> DEFINE r == call[c]
             t == call'[c]
             told == {ActiveLevel(e) : e \in {env'} \ {env}}
  <1>1. /\ Moves(c) /\ t = Free /\ r.pc = "env" /\ r.op \in {"rename", "activate", "reset"}
        /\ env' \in Names \cup {NoName}
        /\ r.op = "rename" => env' = r.to
        /\ r.op = "activate" => env' = r.from
        /\ r.op = "reset" => env' = env \/ env' = r.env
        /\ raced' = raced \cup Shared(told, Others(c))
        /\ unmade' = unmade \cup {n \in {prop} : env' = NoName /\ env # NoName /\ ~Exists(n)}
        /\ UNCHANGED <<scene, live, plays, prop, box, disk, saved, next>>
    BY WriteEnvView
  <1>2. LevelCall(c) /\ Shape(r)
    BY CallFacts DEF LevelInv
  <1>3. Ages /\ Touches(Others(c))
    BY <1>1, StillGrows
  <1>4. Remade
    BY <1>1, RemadeSame
  <1>5. Level' = IF env' # NoName THEN env' ELSE prop
    BY <1>1, LevelIs
  <1>6. env' = env => Level' = Level
    BY <1>5, LevelIs
  <1>7. LevelTold(Others(c))
    <2>1. CASE env' = env
      BY <1>6, <2>1 DEF LevelTold
    <2>2. CASE env' # env
      <3>1. Level' \in told
        BY <1>5, <2>2 DEF ActiveLevel
      <3> HIDE DEF told
      <3> QED BY <1>1, <3>1, SharedHas DEF LevelTold
    <2> QED BY <2>1, <2>2
  <1>8. LevelCall(c)'
    BY <1>1, FreeLevel
  <1>9. Safe(Level)'
    <2>1. CASE r.op = "rename"
      <3>1. disk[r.to]["main"] # {} \/ r.to \in raced
        BY <1>1, <1>2, <2>1 DEF LevelCall, Exists
      <3>2. Level' = r.to
        BY <1>1, <1>2, <1>5, <2>1, NamesAssumption DEF Shape
      <3> QED BY <1>1, <1>3, <3>1, <3>2 DEF Safe, Exists, Spoken, Ages
    <2>2. CASE r.op = "activate"
      <3>1. disk[r.from]["main"] # {} \/ r.from \in raced
        BY <1>1, <1>2, <2>2 DEF LevelCall, Exists
      <3>2. Level' = r.from
        BY <1>1, <1>2, <1>5, <2>2, NamesAssumption DEF Shape
      <3> QED BY <1>1, <1>3, <3>1, <3>2 DEF Safe, Exists, Spoken, Ages
    <2>3. CASE r.op = "reset" /\ env' = env
      <3>1. ~Owes(r, Level)
        BY <2>3 DEF Owes
      <3>2. \A d \in Calls : Owes(call[d], Level) => Owes(call'[d], Level)
        BY <1>1, <3>1 DEF Moves
      <3> QED BY <1>1, <1>3, <1>4, <1>6, <2>3, <3>2, SafeStays DEF Exists
    <2>4. CASE r.op = "reset" /\ env' = r.env /\ r.env # NoName
      <3>1. r.from = r.env
        BY <1>1, <1>2, <2>4 DEF LevelCall
      <3>2. disk[r.from]["main"] # {} \/ r.from \in raced \cup unmade
        BY <1>1, <1>2, <2>4 DEF LevelCall, Exists, Spoken
      <3> QED BY <1>1, <1>3, <1>5, <2>4, <3>1, <3>2 DEF Safe, Exists, Spoken, Ages
    <2>5. CASE r.op = "reset" /\ env' = NoName /\ env # NoName
      <3>1. Level' = prop
        BY <1>5, <2>5
      <3>2. disk'[prop]["main"] # {} \/ prop \in unmade'
        BY <1>1, <2>5 DEF Exists
      <3> QED BY <3>1, <3>2 DEF Safe, Exists, Spoken
    <2> QED BY <1>1, <2>1, <2>2, <2>3, <2>4, <2>5
  <1> HIDE DEF told
  <1> QED BY <1>1, <1>3, <1>4, <1>7, <1>8, <1>9, LevelMoves

LEMMA FailsLevel ==
  ASSUME IInv, LevelInv, NEW c \in Calls, StepFails(c)
  PROVE  LevelInv'
  <1> DEFINE r == call[c]
  <1>1. /\ Moves(c) /\ call'[c] = Free
        /\ raced' = IF r.pc \in {"extract", "edit"} THEN raced ELSE raced \cup Footprint(c)
        /\ UNCHANGED <<scene, live, plays, prop, env, box, disk, saved, next, unmade>>
    BY StepFailsView
  <1>2. raced \subseteq raced'
    BY <1>1
  <1>3. Ages /\ Touches(Others(c))
    BY <1>1, <1>2, StillGrows
  <1>4. Level' = Level /\ LevelTold(Others(c)) /\ Remade /\ Level \in Names
    BY <1>1, LevelSame, RemadeSame, LevelIs
  <1>6. LevelCall(c)'
    BY <1>1, FreeLevel
  <1>7. Owes(r, Level) => Level \in raced'
    <2>1. Owes(r, Level) => Level \in Footprint(c) /\ r.pc \notin {"extract", "edit"}
      BY <1>4, UsesIs DEF Owes, Uses, Underway
    <2> QED BY <1>1, <2>1
  <1>8. \A d \in Calls : Owes(call[d], Level) => Owes(call'[d], Level) \/ Level \in raced'
    BY <1>1, <1>7 DEF Moves
  <1>9. Safe(Level)'
    BY <1>1, <1>3, <1>4, <1>8, SafeStays DEF Exists
  <1> QED BY <1>1, <1>3, <1>4, <1>6, <1>9, LevelMoves

\* The server comes up with the level it was created with.
LEMMA WakesLevel ==
  ASSUME IInv, LevelInv, NEW starting \in SUBSET Calls, NEW hows, Wakes(starting, hows),
         \A d \in starting : call[d].pc = "pull",
         NEW level \in Names \cup {NoName}, Boots(level, starting)
  PROVE  LevelInv'
  <1> DEFINE k == ActiveLevel(level)
  <1>1. \E missing \in SUBSET Parts :
          /\ Rises(k, missing)
          /\ raced' = raced \cup Shared({m \in {k} : missing # {} \/ m # prop}, Calls \ starting)
    BY ONLY IInv, level \in Names \cup {NoName}, Boots(level, starting), BootsView
  <1>2. PICK missing \in SUBSET Parts :
          /\ Rises(k, missing)
          /\ raced' = raced \cup Shared({m \in {k} : missing # {} \/ m # prop}, Calls \ starting)
    BY <1>1
  <1>3. k = IF level # NoName THEN level ELSE prop
    BY DEF ActiveLevel
  <1> HIDE DEF k
  <1>4. /\ k \in Names /\ (disk[k]["main"] = {} => "main" \in missing)
        /\ prop' = k /\ unmade' = unmade \ {k} /\ scene' = scene /\ env' = env
    BY <1>2 DEF Rises
  <1>5. \A m \in Names, q \in Parts :
           disk'[m][q] = IF m = k /\ q \in missing THEN {next} ELSE disk[m][q]
    BY <1>2, <1>4, BootsDisk
  <1>6. \A m \in Names : disk[m]["main"] # {} \/ m = k => disk'[m]["main"] # {}
    BY <1>4, <1>5 DEF Parts
  <1>7. Touches(Calls \ starting) /\ Ages
    BY ONLY IInv, level \in Names \cup {NoName}, Boots(level, starting), BootsGrows
  <1>8. Remade
    BY <1>4, <1>6 DEF Remade, Exists
  <1>9. ASSUME NEW d \in Calls PROVE IF d \in starting THEN call'[d] = Free ELSE Alike(call[d], call'[d])
    BY DEF Wakes, Alike
  <1>10. IF env = NoName THEN Level' = k /\ Level = prop ELSE Level' = Level
    BY <1>4, LevelIs
  <1>12. LevelTold(Calls \ starting)
    <2>1. CASE env = NoName /\ k # prop
      <3>1. k \in {m \in {k} : missing # {} \/ m # prop}
        BY <2>1
      <3> QED BY <1>2, <1>10, <2>1, <3>1, SharedHas DEF LevelTold
    <2>2. CASE env # NoName \/ k = prop
      BY <1>4, <1>10, <2>2 DEF LevelTold
    <2> QED BY <2>1, <2>2
  <1>13. Safe(Level)'
    <2>1. ASSUME NEW d \in Calls, Owes(call[d], Level) PROVE Owes(call'[d], Level)
      <3>1. Alike(call[d], call'[d])
        BY <1>9, <2>1 DEF Owes
      <3> QED BY <2>1, <3>1 DEF Owes, Alike, Kin
    <2>2. Level \in Names
      BY LevelIs
    <2>3. CASE env = NoName
      BY <1>4, <1>6, <1>10, <2>3 DEF Safe, Exists
    <2>4. CASE env # NoName
      BY <1>6, <1>7, <1>8, <1>10, <2>1, <2>2, <2>4, SafeStays DEF Exists
    <2> QED BY <2>3, <2>4
  <1>14. ASSUME NEW d \in Calls PROVE LevelCall(d)'
    <2>1. CASE d \in starting
      BY <1>9, <2>1, FreeLevel
    <2>2. CASE d \notin starting
      <3>1. d \in Calls \ starting /\ Alike(call[d], call'[d])
        BY <1>9, <2>2
      <3> QED BY <1>7, <1>8, <1>12, <3>1, LevelOthers
    <2> QED BY <2>1, <2>2
  <1> QED BY <1>13, <1>14 DEF LevelInv

\* No request moves.
LEMMA LevelUncalled ==
  ASSUME IInv, LevelInv, call' = call, Ages, Remade,
         Touches(Calls), LevelTold(Calls), Safe(Level)'
  PROVE  LevelInv'
  <1>1. ASSUME NEW d \in Calls PROVE LevelCall(d)'
    <2>1. Alike(call[d], call'[d])
      BY DEF Alike, Kin
    <2> QED BY <2>1, LevelOthers
  <1> QED BY <1>1 DEF LevelInv

LEMMA PlayLevel ==
  ASSUME IInv, LInv, LevelInv, Play
  PROVE  LevelInv'
  <1>1. plays \in Names /\ UNCHANGED <<scene, prop, env, box, call, unmade>>
    <2>1. live /\ UNCHANGED <<scene, prop, env, box, call, unmade>>
      BY DEF Play
    <2> QED BY <2>1 DEF LInv, LiveInv
  <1>2. /\ Touches(Calls) /\ Ages
        /\ \A m \in Names, q \in Parts :
             disk'[m][q] = IF m # plays \/ disk[m][q] = {} THEN disk[m][q] ELSE {next}
    BY <1>1, PlayGrows
  <1>3. Level' = Level /\ LevelTold(Calls) /\ Remade /\ Level \in Names
    BY <1>1, LevelSame, RemadeSame, LevelIs
  <1>5. Exists(Level) => disk'[Level]["main"] # {}
    BY <1>2, <1>3 DEF Exists, Parts
  <1>6. Safe(Level)'
    BY <1>1, <1>2, <1>3, <1>5, SafeStays
  <1> QED BY <1>1, <1>2, <1>3, <1>6, LevelUncalled

LEMMA ChosenLevel ==
  ASSUME IInv, LevelInv, Chosen
  PROVE  LevelInv'
  <1> DEFINE n == IF env' # NoName THEN env' ELSE prop'
  <1>1. /\ UNCHANGED <<scene, live, plays, box, disk, saved, next, call, asked>>
        /\ Chooses(n) \/ (env' = env /\ env # NoName /\ UNCHANGED <<raced, unmade>>)
        /\ raced \subseteq raced' /\ unmade \subseteq unmade'
    BY ChosenView
  <1>2. Touches(Calls) /\ Ages
    BY <1>1, StillGrows
  <1>3. Remade
    BY <1>1, RemadeSame
  <1>4. Level' = n
    BY LevelIs
  <1> HIDE DEF n
  <1>5. CASE Chooses(n)
    <2>1. /\ raced' = raced \cup Shared({n}, Calls)
          /\ unmade' = unmade \cup {m \in {n} : ~Exists(m)}
      BY <1>5 DEF Chooses
    <2>2. LevelTold(Calls)
      BY <1>4, <2>1, SharedHas DEF LevelTold
    <2>3. Safe(Level)'
      BY <1>1, <1>4, <2>1 DEF Safe, Spoken, Exists
    <2> QED BY <1>1, <1>2, <1>3, <2>2, <2>3, LevelUncalled
  <1>6. CASE env' = env /\ env # NoName /\ UNCHANGED <<raced, unmade>>
    <2>1. Level' = Level
      BY <1>6, LevelIs
    <2>2. LevelTold(Calls)
      BY <1>6, <2>1 DEF LevelTold
    <2>3. Safe(Level)'
      BY <1>1, <1>2, <1>3, <2>1, SafeStays DEF Exists
    <2> QED BY <1>1, <1>2, <1>3, <2>2, <2>3, LevelUncalled
  <1> QED BY <1>1, <1>5, <1>6

LEMMA LevelInit == Init => LevelInv
  <1> SUFFICES ASSUME Init PROVE LevelInv
    OBVIOUS
  <1>1. /\ scene \in Scenes /\ prop = First /\ env = scene.level /\ box = env
        /\ \A c \in Calls : call[c] = Free
        /\ raced = {} /\ unmade = IF Exists(First) THEN {} ELSE {First}
    BY DEF Init
  <1>2. scene.level \in {NoName, First}
    BY <1>1, ScenesAssumption
  <1>3. Level = First
    BY <1>1, <1>2 DEF Level, ActiveLevel
  <1>5. Safe(Level)
    BY <1>1, <1>3 DEF Safe, Spoken
  <1>6. ASSUME NEW c \in Calls PROVE LevelCall(c)
    BY <1>1, FreeIs DEF LevelCall
  <1> QED BY <1>5, <1>6 DEF LevelInv

LEMMA LevelNext == IInv /\ LInv /\ LevelInv /\ [Next]_worldVars => LevelInv'
  <1> SUFFICES ASSUME IInv, LInv, LevelInv, [Next]_worldVars PROVE LevelInv'
    OBVIOUS
  <1>1. CASE RouterStarts
    <2>1. Wakes({}, Woken) /\ box \in Names \cup {NoName} /\ Boots(box, {})
      BY <1>1, RouterView
    <2> QED BY <2>1, WakesLevel
  <1>2. ASSUME NEW c \in Calls, Launch(c) PROVE LevelInv'
    <2>1. /\ Wakes({c}, InFlight(c)) /\ call[c].env \in Names \cup {NoName} /\ Boots(call[c].env, {c})
          /\ call[c].pc = "pull"
      BY <1>2, LaunchView DEF Launch
    <2> QED BY <2>1, WakesLevel
  <1>3. CASE ContainerExits \/ UNCHANGED worldVars
    <2>1. UNCHANGED <<scene, prop, env, box, disk, saved, next, call, raced, unmade>>
      BY <1>3 DEF ContainerExits, worldVars
    <2>2. Touches(Calls) /\ Ages
      BY <2>1, StillGrows
    <2>3. Level' = Level /\ LevelTold(Calls) /\ Remade
      BY <2>1, LevelSame, RemadeSame
    <2>4. Safe(Level)'
      BY <2>1, <2>2, <2>3, SafeStays DEF Exists
    <2> QED BY <2>1, <2>2, <2>3, <2>4, LevelUncalled
  <1>4. CASE Play
    BY <1>4, PlayLevel
  <1>5. CASE Chosen
    BY <1>5, ChosenLevel
  <1>6. ASSUME NEW c \in Calls, StandsStill(c) PROVE LevelInv'
    BY <1>6, StandsStillLevel
  <1>7. ASSUME NEW c \in Calls, Works(c) PROVE LevelInv'
    <2>1. CASE EditPart(c) \/ Backup(c)
      BY <2>1, EditLevels
    <2>2. CASE RemovePart(c) \/ PlacePart(c) \/ MovePart(c)
      BY <2>2, RemoveLevel, PlaceLevel, MoveLevel
    <2>3. CASE ActivateGoes(c) \/ Select(c)
      BY <2>3, ActivateLevel, SelectLevel
    <2>4. CASE WriteEnv(c) \/ StepFails(c)
      BY <2>4, WriteEnvLevel, FailsLevel
    <2> QED BY <1>7, <2>1, <2>2, <2>3, <2>4 DEF Works
  <1> QED BY <1>1, <1>2, <1>3, <1>4, <1>5, <1>6, <1>7, NextIs

\* Whatever renames, activations, resets, deletions and edits of LEVEL meet,
\* the level that the server starts next has a world when they are done, but
\* where a reset just took it, or two of them worked on its name at once or
\* one failed.
THEOREM TheLevelHasAWorld == Spec => []LevelHasItsWorld
  <1>1. IInv /\ LevelInv => LevelHasItsWorld
    <2> SUFFICES ASSUME LevelInv, Quiet, ~Exists(Level) PROVE Level \in raced \cup unmade
      BY DEF LevelHasItsWorld
    <2>1. \A d \in Calls : ~Owes(call[d], Level)
      BY DEF Quiet, Owes
    <2> QED BY <2>1 DEF LevelInv, Safe, Spoken
  <1>2. Spec => [](IInv /\ LInv /\ LevelInv)
    BY InitTypes, NextTypes, LiveInit, LiveNext, LevelInit, LevelNext, PTL DEF Spec
  <1> QED BY <1>1, <1>2, PTL

-----------------------------------------------------------------------------
(* The refinement: starts, editors and installs implement ServerLocks,     *)
(* whose running calls are the starts and the editors inside their guarded *)
(* part and whose long operation is the install.                           *)

\* One at a time holds the guard, and one the long-operation lock.
OneHolder ==
  /\ \A c, d \in Calls : c \in Guarded /\ d \in Guarded => c = d
  /\ \A c, d \in Calls : c \in Installing /\ d \in Installing => c = d

\* A request keeps its operation until it ends, and an install begins with no
\* other in progress.
Turns(c) ==
  /\ call'[c].op = call[c].op \/ call[c].op = "none" \/ call'[c].op = "none"
  /\ call'[c].op = "install" => call[c].op = "install" \/ Installing = {}

LEMMA KeepsTurns ==
  ASSUME NEW c \in Calls, call'[c].op = call[c].op \/ call'[c] = Free
  PROVE  Turns(c)
  BY FreeIs DEF Turns

LEMMA FreshTurns ==
  ASSUME NEW c \in Calls, NEW op, NEW pc, Fresh(c, op, pc), op = "install" => Installing = {}
  PROVE  Turns(c)
  BY DEF Fresh, Turns

LEMMA StandsStillTurns ==
  ASSUME IInv, NEW c \in Calls, StandsStill(c)
  PROVE  Turns(c)
  <1>1. CASE LaunchEnds(c) \/ Refused(c) \/ BackupFails(c)
    BY <1>1, EndView, KeepsTurns
  <1>2. CASE StartServer(c) \/ (\E wanted \in BOOLEAN : ResetWorld(c, wanted))
    <2>1. \E op \in {"start", "reset"}, pc \in Steps : Fresh(c, op, pc)
      BY <1>2, StartView, ResetView DEF Steps
    <2> QED BY <2>1, FreshTurns
  <1>3. CASE \/ \E op \in {"install", "copy"} : Asks(c, op, Replace)
             \/ \E op \in {"install", "copy"}, n \in Names : Asks(c, op, Alongside(n))
    <2>1. \E op \in {"install", "copy"}, pc \in Steps :
            Fresh(c, op, pc) /\ (op = "install" => Installing = {})
      BY <1>3, ReplaceView, AlongsideView DEF Asks, Steps
    <2> QED BY <2>1, FreshTurns
  <1>4. CASE \/ \E n \in Names : ActivateWorld(c, n) \/ ShrinkWorld(c, n) \/ DeleteWorld(c, n)
             \/ \E n \in Names, wanted \in BOOLEAN : DeleteChunks(c, n, wanted)
             \/ \E n, m \in Names : RenameWorld(c, n, m) \/ DuplicateWorld(c, n, m)
    <2>1. \E op \in OpKinds \ {"install"}, pc \in Steps : Fresh(c, op, pc)
      BY <1>4, ActivateView, ShrinkView, DeleteView, ChunksView, RenameView, DuplicateView
         DEF Steps, OpKinds
    <2> QED BY <2>1, FreshTurns
  <1>5. CASE RenameGoes(c) \/ ResetGoes(c) \/ ReplaceGoes(c) \/ EditGoes(c)
    <2>1. call'[c].op = call[c].op
      BY <1>5, RenameGoesView, ResetGoesView, ReplaceGoesView, EditGoesView DEF Kin
    <2> QED BY <2>1, KeepsTurns
  <1>6. CASE AlongsideGoes(c) \/ EnterGuard(c) \/ Recheck(c) \/ Extract(c)
    <2>1. call'[c].op = call[c].op
      BY <1>6, AlongsideGoesView, EnterGuardView, RecheckView, ExtractView DEF Kin
    <2> QED BY <2>1, KeepsTurns
  <1> QED BY <1>1, <1>2, <1>3, <1>4, <1>5, <1>6 DEF StandsStill

LEMMA WorksTurns ==
  ASSUME IInv, NEW c \in Calls, Works(c)
  PROVE  Turns(c)
  <1> DEFINE p == Part(call[c].todo)
  <1>1. CASE EditPart(c) \/ PlacePart(c)
    <2>1. call'[c] = Free \/ GoesOn(c, p)
      BY <1>1, EditPartView, PlacePartView
    <2> QED BY <2>1, KeepsTurns DEF GoesOn, Kin
  <1>2. CASE Backup(c)
    BY <1>2, BackupView, KeepsTurns
  <1>3. CASE RemovePart(c)
    <2>1. GoesOn(c, p) \/ call'[c] = Free \/ Kin(call[c], call'[c])
      BY <1>3, RemovePartView
    <2> QED BY <2>1, KeepsTurns DEF GoesOn, Kin
  <1>4. CASE MovePart(c)
    <2>1. GoesOn(c, p) \/ Kin(call[c], call'[c])
      BY <1>4, MovePartView
    <2> QED BY <2>1, KeepsTurns DEF GoesOn, Kin
  <1>5. CASE ActivateGoes(c) \/ Select(c)
    <2>1. Levelled(c, call[c].from) \/ Levelled(c, call[c].to) \/ call'[c] = Free
      BY <1>5, ActivateGoesView, SelectView
    <2> QED BY <2>1, KeepsTurns DEF Levelled, Kin
  <1>6. CASE WriteEnv(c) \/ StepFails(c)
    BY <1>6, WriteEnvView, StepFailsView, KeepsTurns
  <1> QED BY <1>1, <1>2, <1>3, <1>4, <1>5, <1>6 DEF Works

\* The other requests are where they were.
Alone(c) == \A d \in Calls : d # c => call'[d].op = call[d].op /\ call'[d].pc = call[d].pc

\* What a step of one request does to the holders of the two locks.
LEMMA HoldersMove ==
  ASSUME NEW c \in Calls, Alone(c)
  PROVE  /\ \A d \in Calls : d # c => (d \in Guarded' <=> d \in Guarded)
         /\ \A d \in Calls : d # c => (d \in Installing' <=> d \in Installing)
         /\ \A d \in Calls : d # c => GuardOp(d)' = GuardOp(d)
         /\ Guarded \subseteq Calls /\ Guarded' \subseteq Calls
         /\ Installing \subseteq Calls /\ Installing' \subseteq Calls
  BY DEF Alone, Guarded, Installing, GuardOp, Starting, InBody

\* What it does to those of the request itself: it takes a lock only when
\* nobody has it, and never both.
LEMMA HolderTurns ==
  ASSUME NEW c \in Calls, LockStep(c), Turns(c)
  PROVE  /\ c \in Guarded' => c \in Guarded \/ Guarded = {}
         /\ c \in Installing' => c \in Installing \/ Installing = {}
         /\ c \in Guarded /\ c \in Guarded' => GuardOp(c)' = GuardOp(c)
         /\ c \in Guarded \/ c \in Guarded' => c \notin Installing /\ c \notin Installing'
         /\ c \in Guarded' => GuardOp(c)' \in {"start", "shrink", "chunk-edit"}
  <1>1. c \in Guarded <=> call[c].op = "start" \/ InBody(call[c])
    BY DEF Guarded, Starting
  <1>2. c \in Guarded' <=> call'[c].op = "start" \/ InBody(call'[c])
    BY DEF Guarded, Starting
  <1>3. /\ c \in Installing <=> call[c].op = "install"
        /\ c \in Installing' <=> call'[c].op = "install"
    BY DEF Installing
  <1>4. c \in Guarded' => c \in Guarded \/ Guarded = {}
    BY <1>1, <1>2 DEF LockStep
  <1>5. c \in Installing' => c \in Installing \/ Installing = {}
    BY <1>3 DEF Turns
  <1>6. /\ c \in Guarded => call[c].op \in {"start", "shrink", "chunks"}
        /\ c \in Guarded' => call'[c].op \in {"start", "shrink", "chunks"}
    BY <1>1, <1>2 DEF InBody, Editors
  <1>7. c \in Guarded /\ c \in Guarded' => call'[c].op = call[c].op
    BY <1>6 DEF Turns
  <1>8. c \in Guarded \/ c \in Guarded' => c \notin Installing /\ c \notin Installing'
    BY <1>3, <1>6 DEF Turns
  <1>9. c \in Guarded' => GuardOp(c)' \in {"start", "shrink", "chunk-edit"}
    BY <1>6 DEF GuardOp
  <1> QED BY <1>4, <1>5, <1>7, <1>8, <1>9 DEF GuardOp

LEMMA OneHolderMoves ==
  ASSUME OneHolder, NEW c \in Calls, Alone(c), LockStep(c), Turns(c)
  PROVE  OneHolder'
  <1>1. \A a, b \in Calls : a \in Guarded' /\ b \in Guarded' => a = b
    BY HoldersMove, HolderTurns DEF OneHolder
  <1>2. \A a, b \in Calls : a \in Installing' /\ b \in Installing' => a = b
    BY HoldersMove, HolderTurns DEF OneHolder
  <1> QED BY <1>1, <1>2 DEF OneHolder

LEMMA EntryIs ==
  ASSUME NEW c \in Calls
  PROVE  /\ OneHolder /\ c \in Guarded => GuardEntry = [op |-> GuardOp(c), owner |-> c]
         /\ OneHolder' /\ c \in Guarded' => GuardEntry' = [op |-> GuardOp(c)', owner |-> c]
  <1>1. \A x \in Guarded : x \in Calls
    BY DEF Guarded
  <1>2. \A x \in Guarded' : x \in Calls
    BY DEF Guarded
  <1>3. ASSUME OneHolder, c \in Guarded
        PROVE  GuardEntry = [op |-> GuardOp(c), owner |-> c]
    <2>1. (CHOOSE d \in Guarded : TRUE) = c
      BY <1>1, <1>3 DEF OneHolder
    <2> QED BY <1>3, <2>1 DEF GuardEntry
  <1>4. ASSUME OneHolder', c \in Guarded'
        PROVE  GuardEntry' = [op |-> GuardOp(c)', owner |-> c]
    <2>1. (CHOOSE d \in Guarded' : TRUE) = c
      BY <1>2, <1>4 DEF OneHolder
    <2> QED BY <1>4, <2>1 DEF GuardEntry
  <1> QED BY <1>3, <1>4

LEMMA NoEntry ==
  /\ Guarded = {} => GuardEntry = Locks!Free
  /\ Guarded' = {} => GuardEntry' = Locks!Free
  BY DEF GuardEntry, Locks!Free

\* A request that takes no lock and gives none back.
LEMMA HoldersStay ==
  ASSUME OneHolder, OneHolder', Guarded' = Guarded,
         \A c \in Calls : c \in Guarded => GuardOp(c)' = GuardOp(c)
  PROVE  UNCHANGED <<GuardEntry, LockPhase>>
  <1>1. LockPhase' = LockPhase
    BY DEF LockPhase
  <1>2. CASE Guarded = {}
    BY <1>1, <1>2, NoEntry
  <1>3. ASSUME NEW c \in Calls, c \in Guarded
        PROVE  UNCHANGED <<GuardEntry, LockPhase>>
    BY <1>1, <1>3, EntryIs
  <1> QED BY <1>2, <1>3 DEF Guarded

\* The step map: a request takes the guard, leaves it, begins or ends the long
\* operation, or stutters.
LEMMA MoveIsLockStep ==
  ASSUME OneHolder, OneHolder', NEW c \in Calls, Alone(c), LockStep(c), Turns(c)
  PROVE  Locks!Next \/ UNCHANGED <<GuardEntry, LockActive, LockPhase>>
  <1>1. /\ \A d \in Calls : d # c => (d \in Guarded' <=> d \in Guarded)
        /\ \A d \in Calls : d # c => (d \in Installing' <=> d \in Installing)
        /\ \A d \in Calls : d # c => GuardOp(d)' = GuardOp(d)
        /\ Guarded \subseteq Calls /\ Guarded' \subseteq Calls
        /\ Installing \subseteq Calls /\ Installing' \subseteq Calls
    BY HoldersMove
  <1>2. /\ c \in Guarded' => c \in Guarded \/ Guarded = {}
        /\ c \in Installing' => c \in Installing \/ Installing = {}
        /\ c \in Guarded /\ c \in Guarded' => GuardOp(c)' = GuardOp(c)
        /\ c \in Guarded \/ c \in Guarded' => c \notin Installing /\ c \notin Installing'
        /\ c \in Guarded' => GuardOp(c)' \in {"start", "shrink", "chunk-edit"}
    BY HolderTurns
  <1>3. c \in Guarded \/ c \in Guarded' => LockActive' = LockActive
    <2>1. c \in Guarded \/ c \in Guarded' => Installing' = Installing
      BY <1>1, <1>2
    <2> QED BY <2>1 DEF LockActive
  <1>4. CASE c \notin Guarded /\ c \in Guarded'
    <2>1. Guarded = {} /\ LockActive' = LockActive
      BY <1>2, <1>3, <1>4
    <2>2. GuardEntry = Locks!Free /\ GuardEntry' = [op |-> GuardOp(c)', owner |-> c]
      BY <1>4, <2>1, EntryIs, NoEntry
    <2>3. LockPhase[c] = "out"
      BY <2>1 DEF LockPhase
    <2>4. Guarded' = {c}
      BY <1>1, <1>4, <2>1
    <2>5. LockPhase' = [LockPhase EXCEPT ![c] = "running"]
      BY <2>1, <2>4 DEF LockPhase
    <2>6. GuardOp(c)' \in Locks!LifecycleOps
      BY <1>2, <1>4 DEF Locks!LifecycleOps
    <2>7. Locks!Enter(c, GuardOp(c)', TRUE)
      BY <2>1, <2>2, <2>3, <2>5 DEF Locks!Enter, Locks!NotBusy, Locks!GuardFree
    <2> QED BY <2>6, <2>7 DEF Locks!Next
  <1>5. CASE c \in Guarded /\ c \notin Guarded'
    <2>1. GuardEntry.owner = c
      BY <1>5, EntryIs
    <2>2. Guarded' = {} /\ Guarded = {c}
      BY <1>1, <1>5 DEF OneHolder
    <2>3. GuardEntry' = Locks!Free /\ LockActive' = LockActive
      BY <1>3, <1>5, <2>2, NoEntry
    <2>4. LockPhase[c] = "running" /\ \A d \in Calls : LockPhase'[d] = "out"
                                                        /\ (d # c => LockPhase[d] = "out")
      BY <2>2 DEF LockPhase
    <2>5. LockPhase' = [d \in Calls |-> LockPhase'[d]]
      BY DEF LockPhase
    <2>6. LockPhase' = [d \in Calls |->
            IF d = c \/ (GuardEntry.owner = c /\ LockPhase[d] = "joined") THEN "out" ELSE LockPhase[d]]
      BY <2>4, <2>5
    <2>7. Locks!Leave(c)
      BY <2>1, <2>3, <2>4, <2>6 DEF Locks!Leave
    <2> QED BY <2>7 DEF Locks!Next
  <1>6. CASE c \in Guarded <=> c \in Guarded'
    <2>1. Guarded' = Guarded /\ \A d \in Calls : d \in Guarded => GuardOp(d)' = GuardOp(d)
      BY <1>1, <1>2, <1>6
    <2>2. UNCHANGED <<GuardEntry, LockPhase>>
      BY <2>1, HoldersStay
    <2>3. CASE c \notin Installing /\ c \in Installing'
      <3>1. LockActive = "none" /\ LockActive' = "installing-world"
        BY <1>2, <2>3 DEF LockActive
      <3>2. Locks!BeginOperation("installing-world") /\ "installing-world" \in Locks!Kinds
        BY <2>2, <3>1 DEF Locks!BeginOperation, Locks!NotBusy, Locks!Kinds
      <3> QED BY <3>2 DEF Locks!Next
    <2>4. CASE c \in Installing /\ c \notin Installing'
      <3>1. Installing' = {}
        BY <1>1, <2>4 DEF OneHolder
      <3>2. LockActive = "installing-world" /\ LockActive' = "none"
        BY <2>4, <3>1 DEF LockActive
      <3>3. Locks!EndOperation
        BY <2>2, <3>2 DEF Locks!EndOperation
      <3> QED BY <3>3 DEF Locks!Next
    <2>5. CASE c \in Installing <=> c \in Installing'
      <3>1. Installing' = Installing
        BY <1>1, <2>5
      <3>2. LockActive' = LockActive
        BY <3>1 DEF LockActive
      <3> QED BY <2>2, <3>2
    <2> QED BY <2>3, <2>4, <2>5
  <1> QED BY <1>4, <1>5, <1>6

\* What the locks see of a step: one request at most goes on, or the requests
\* are all where they were.
LEMMA NextForLocks ==
  ASSUME IInv, [Next]_worldVars
  PROVE  \/ \E c \in Calls : Alone(c) /\ LockStep(c) /\ Turns(c)
         \/ \A d \in Calls : call'[d].op = call[d].op /\ call'[d].pc = call[d].pc
  <1>1. CASE RouterStarts
    <2>1. Wakes({}, Woken)
      BY <1>1, RouterView
    <2> QED BY <2>1 DEF Wakes, Kin
  <1>2. CASE ContainerExits \/ UNCHANGED worldVars \/ Play \/ Chosen
    BY <1>2, ChosenView DEF ContainerExits, worldVars, Play
  <1>3. ASSUME NEW c \in Calls, Launch(c)
        PROVE  Alone(c) /\ LockStep(c) /\ Turns(c)
    <2>1. Wakes({c}, InFlight(c))
      BY <1>3, LaunchView
    <2>2. call'[c] = Free /\ Alone(c)
      BY <2>1 DEF Wakes, Kin, Alone
    <2> QED BY <2>2, FreeSteps, KeepsTurns
  <1>4. ASSUME NEW c \in Calls, StandsStill(c) \/ Works(c)
        PROVE  Alone(c) /\ LockStep(c) /\ Turns(c)
    <2>1. Moves(c) /\ LockStep(c) /\ Turns(c)
      BY <1>4, StandsStillTypes, StandsStillSteps, StandsStillTurns, WorksSteps, WorksTurns
    <2> QED BY <2>1 DEF Moves, Alone
  <1> QED BY <1>1, <1>2, <1>3, <1>4, NextIs

LEMMA LocksUnmoved ==
  ASSUME OneHolder, \A d \in Calls : call'[d].op = call[d].op /\ call'[d].pc = call[d].pc
  PROVE  OneHolder' /\ UNCHANGED <<GuardEntry, LockActive, LockPhase>>
  <1>1. /\ Guarded' = Guarded /\ Installing' = Installing
        /\ \A c \in Calls : GuardOp(c)' = GuardOp(c)
    BY DEF Guarded, Installing, GuardOp, Starting, InBody
  <1>2. OneHolder'
    BY <1>1 DEF OneHolder
  <1>3. UNCHANGED <<GuardEntry, LockPhase>>
    BY <1>1, <1>2, HoldersStay
  <1> QED BY <1>1, <1>2, <1>3 DEF LockActive

LEMMA NextIsLockStep ==
  IInv /\ OneHolder /\ [Next]_worldVars => OneHolder' /\ [Locks!Next]_(Locks!lockVars)
  <1> SUFFICES ASSUME IInv, OneHolder, [Next]_worldVars
               PROVE  OneHolder' /\ (Locks!Next \/ UNCHANGED <<GuardEntry, LockActive, LockPhase>>)
    BY DEF Locks!lockVars
  <1>1. ASSUME NEW c \in Calls, Alone(c), LockStep(c), Turns(c)
        PROVE  OneHolder' /\ (Locks!Next \/ UNCHANGED <<GuardEntry, LockActive, LockPhase>>)
    BY <1>1, OneHolderMoves, MoveIsLockStep
  <1> QED BY <1>1, NextForLocks, LocksUnmoved

LEMMA LocksInit == Init => OneHolder /\ Locks!Init
  <1> SUFFICES ASSUME Init PROVE OneHolder /\ Locks!Init
    OBVIOUS
  <1>1. \A c \in Calls : call[c].op = "none"
    BY FreeIs DEF Init
  <1>2. Guarded = {} /\ Installing = {}
    BY <1>1 DEF Guarded, Installing, Starting, InBody, Editors
  <1>3. LockActive = "none" /\ LockPhase = [c \in Calls |-> "out"] /\ GuardEntry = Locks!Free
    BY <1>2, NoEntry DEF LockActive, LockPhase
  <1> QED BY <1>2, <1>3 DEF OneHolder, Locks!Init

\* Starts, the two editors and the installs from the library go through the
\* locks of ServerLocks: a start or an editor takes the guard when nobody has
\* it and gives back its own, and installs hold the long-operation lock one
\* at a time.
THEOREM WorldOpsImplementLocks == Spec => ImplementsLocks
  <1>1. IInv /\ OneHolder /\ [Next]_worldVars => OneHolder' /\ [Locks!Next]_(Locks!lockVars)
    BY NextIsLockStep
  <1>2. Spec => Locks!Spec
    BY <1>1, InitTypes, NextTypes, LocksInit, PTL DEF Spec, Locks!Spec
  <1> QED BY <1>2 DEF ImplementsLocks
=============================================================================

------------------------- MODULE CrashRestartProofs -------------------------
(***************************************************************************)
(* What CrashRestart's runs check on two exits holds for any number of     *)
(* them, any windows and any limit: the types, the watcher's one stream    *)
(* and the limit on restarts.                                              *)
(*                                                                         *)
(* The limit is about every window of time at once, and the code counts    *)
(* only the crashes before a new one.  The invariant that carries it says  *)
(* that no restart is younger than its crash window and not counted        *)
(* (Counted), so that the crashes a new restart shares a window with are   *)
(* among those that were just counted.                                     *)
(*                                                                         *)
(* That a seen crash is followed up is a liveness property and is checked  *)
(* by the crash_restart run only.                                          *)
(***************************************************************************)
EXTENDS CrashRestart, FiniteSetTheorems, TLAPS

-----------------------------------------------------------------------------
(* Types *)

Follows == [pc : {"none", "row", "query", "logs", "timer", "start", "joined"},
            code : Codes, auto : BOOLEAN, stop : BOOLEAN]
Ops == [kind : {"none", "start", "stop", "restart", "recreate"},
        pc : {"none", "launch", "stop", "down", "create"}, was : BOOLEAN]
Watches == [live : BOOLEAN, timer : BOOLEAN, connecting : BOOLEAN, late : BOOLEAN,
            listening : 0..2]

\* What the container's exit leaves behind has its type, whatever the code.
LEMMA DownTypes ==
  ASSUME TypeOK, NEW code \in Codes, Down(code)
  PROVE  /\ ctr' \in Codes
         /\ exits' \in 0..MaxExits
         /\ follow' \in [ExitIds -> Follows]
  <1>1. exits + 1 \in ExitIds /\ exits + 1 \in 0..MaxExits
    BY CrashAssumption DEF TypeOK, Down, ExitIds
  <1>2. [NoFollow EXCEPT !.pc = "row", !.code = code] \in Follows
    BY DEF NoFollow, Follows, Codes
  <1>3. follow \in [ExitIds -> Follows]
    BY DEF TypeOK, Follows
  <1> QED
    BY <1>1, <1>2, <1>3 DEF Down

\* A step of one follow-up's handler leaves the follow-ups their type.
LEMMA MoveTypes ==
  ASSUME TypeOK, NEW i \in ExitIds,
         NEW pc \in {"none", "row", "query", "logs", "timer", "start", "joined"}
  PROVE  /\ Move(i, pc) => follow' \in [ExitIds -> Follows]
         /\ Done(i) => follow' \in [ExitIds -> Follows]
  <1>1. [NoFollow EXCEPT !.pc = pc] \in Follows /\ NoFollow \in Follows
    BY DEF NoFollow, Follows, Codes
  <1>2. follow \in [ExitIds -> Follows]
    BY DEF TypeOK, Follows
  <1> QED
    BY <1>1, <1>2 DEF Move, Done

\* The starts that others share end with it, and the rest go on.
LEMMA SettledTypes ==
  ASSUME TypeOK
  PROVE  Settled \in [ExitIds -> Follows]
  BY DEF TypeOK, Settled, Follows, NoFollow, Codes

\* What is counted after a crash is crashes.
LEMMA RecentTypes ==
  ASSUME TypeOK, NEW i \in ExitIds
  PROVE  Recent(i) \subseteq Crashes
  BY DEF TypeOK, Recent, Crashes

LEMMA InitTypes == Init => TypeOK
  <1> SUFFICES ASSUME Init PROVE TypeOK
    OBVIOUS
  <1>1. StopWindow \in Times /\ 0 \in Times /\ 0 \in 0..MaxExits
    BY CrashAssumption DEF Times
  <1>2. NoOp \in Ops
    BY DEF NoOp, Ops
  <1>3. follow \in [ExitIds -> Follows]
    BY DEF Init, NoFollow, Follows, Codes
  <1>4. watch \in Watches /\ due \in BOOLEAN /\ auto \in BOOLEAN
    <2>1. NoWatch \in Watches
      BY DEF NoWatch, Watches
    <2>2. due \in BOOLEAN
      BY DEF Init
    <2> QED
      BY <2>1, <2>2 DEF Init
  <1>5. window = {} /\ armed = {} /\ ctr = "running"
    BY DEF Init
  <1> QED
    BY <1>1, <1>2, <1>3, <1>4, <1>5 DEF Init, TypeOK, Watches, Follows, Ops

\* The events stream changes nothing but the watch.
LEMMA StreamTypes ==
  ASSUME TypeOK, OneStream, watch.connecting => ~watch.live, Stream
  PROVE  TypeOK'
  <1>1. watch \in Watches
    BY DEF TypeOK, Watches
  <1>2. watch' \in Watches
    <2>1. CASE Connected
      <3>1. watch.listening + 1 \in 0..2
        BY <2>1 DEF Connected, OneStream
      <3> QED
        BY <1>1, <2>1, <3>1 DEF Watches, Connected
    <2>2. CASE ConnectFails
      BY <1>1, <2>2 DEF Watches, ConnectFails, RetryLater
    <2>3. CASE RetryFires
      BY <1>1, <2>3 DEF Watches, RetryFires
    <2>4. CASE Drops
      <3>1. watch' = [watch EXCEPT !.live = FALSE, !.listening = 0, !.late = TRUE,
                                   !.timer = TRUE]
        BY <1>1, <2>4 DEF Watches, Drops, RetryLater
      <3> QED
        <4>1. 0 \in 0..2 /\ TRUE \in BOOLEAN /\ FALSE \in BOOLEAN
          OBVIOUS
        <4>2. [watch EXCEPT !.live = FALSE] \in Watches
          BY <1>1 DEF Watches
        <4> DEFINE w == [watch EXCEPT !.live = FALSE]
        <4>3. watch' = [[[w EXCEPT !.listening = 0] EXCEPT !.late = TRUE] EXCEPT !.timer = TRUE]
          BY <1>1, <3>1 DEF Watches
        <4> HIDE DEF w
        <4>4. w \in Watches
          BY <4>2 DEF w
        <4>5. [w EXCEPT !.listening = 0] \in Watches
          BY <4>1, <4>4 DEF Watches
        <4>6. [[w EXCEPT !.listening = 0] EXCEPT !.late = TRUE] \in Watches
          BY <4>5 DEF Watches
        <4> QED
          BY <4>3, <4>6 DEF Watches
    <2>5. CASE DropsAgain
      BY <1>1, <2>5 DEF Watches, DropsAgain, LateDrop
    <2> QED
      BY <2>1, <2>2, <2>3, <2>4, <2>5 DEF Stream
  <1>3. UNCHANGED <<now, ctr, auto, requested, op, exits, follow, window, armed, due>>
    BY DEF Stream, Connected, ConnectFails, RetryFires, Drops, DropsAgain
  <1> QED
    BY <1>2, <1>3 DEF TypeOK, Watches, ExitIds, Times, Crashes

\* The container, the clock, the users and the guarded bodies.
LEMMA ServerTypes ==
  ASSUME TypeOK, Exits \/ Tick \/ Users \/ Bodies
  PROVE  TypeOK'
  <1>0. follow \in [ExitIds -> Follows] /\ op \in Ops /\ now \in Times
    BY DEF TypeOK, Follows, Ops
  <1>1. ASSUME NEW kind \in {"start", "stop", "restart", "recreate"},
               NEW pc \in {"launch", "stop", "down"},
               Enter(kind, pc), requested' \in Times
        PROVE  TypeOK'
    <2>1. op' \in Ops
      <3>1. (pc = "down" /\ ctr = "running") \in BOOLEAN
        OBVIOUS
      <3> QED
        BY <1>1, <3>1 DEF Enter, Ops
    <2> QED
      BY <1>1, <2>1 DEF TypeOK, Enter, Ops, Crashes
  <1>2. CASE Exits
    <2>1. PICK code \in Codes : Down(code)
      BY <1>2 DEF Exits, Codes
    <2>2. /\ ctr' \in Codes
          /\ exits' \in 0..MaxExits
          /\ follow' \in [ExitIds -> Follows]
      BY <2>1, DownTypes
    <2>3. due' \in BOOLEAN
      BY <1>2 DEF Exits
    <2> QED
      BY <1>2, <2>2, <2>3 DEF TypeOK, Exits, Follows, Crashes
  <1>3. CASE Tick
    <2>1. now' \in Times
      BY <1>0, <1>3, CrashAssumption DEF Tick, Times
    <2> QED
      BY <1>3, <2>1 DEF TypeOK, Tick, Crashes
  <1>4. CASE Users
    <2>1. CASE StartServer
      BY <1>1, <2>1 DEF StartServer, TypeOK
    <2>2. CASE StopServer
      BY <1>0, <1>1, <2>2 DEF StopServer
    <2>3. CASE RestartServer
      BY <1>0, <1>1, <2>3 DEF RestartServer
    <2>4. CASE RecreateServer
      BY <1>1, <2>4 DEF RecreateServer, TypeOK
    <2>5. CASE KillServer
      <3>1. /\ ctr' \in Codes \cup {"running", "none"}
            /\ exits' \in 0..MaxExits
            /\ follow' \in [ExitIds -> Follows]
        <4>1. CASE ctr = "running"
          BY <2>5, <4>1, DownTypes DEF KillServer, Codes
        <4>2. CASE ctr # "running"
          BY <1>0, <2>5, <4>2 DEF KillServer, TypeOK
        <4> QED
          BY <4>1, <4>2
      <3> QED
        BY <1>0, <2>5, <3>1 DEF TypeOK, KillServer, Follows, Crashes
    <2>6. ASSUME NEW on \in BOOLEAN, SetAutoRestart(on)
          PROVE  TypeOK'
      <3>1. auto' \in BOOLEAN /\ due' \in BOOLEAN
        BY <2>6 DEF SetAutoRestart
      <3> QED
        BY <2>6, <3>1 DEF TypeOK, SetAutoRestart, Crashes
    <2> QED
      BY <1>4, <2>1, <2>2, <2>3, <2>4, <2>5, <2>6 DEF Users
  <1>5. CASE Bodies
    <2>0. Settled \in [ExitIds -> Follows] /\ NoOp \in Ops
      BY SettledTypes DEF NoOp, Ops
    <2>1. CASE Launch
      BY <2>0, <2>1 DEF TypeOK, Launch, Follows, Ops, Crashes
    <2>2. CASE LaunchFails
      <3>1. due' \in BOOLEAN
        BY <2>2 DEF LaunchFails
      <3> QED
        BY <2>0, <2>2, <3>1 DEF TypeOK, LaunchFails, Follows, Ops, Crashes
    <2>3. ASSUME \/ \E code \in Codes : Down(code)
                 \/ UNCHANGED <<ctr, exits, follow>>
          PROVE  /\ ctr' \in Codes \cup {"running", "none"}
                 /\ exits' \in 0..MaxExits
                 /\ follow' \in [ExitIds -> Follows]
      <3>1. ASSUME NEW code \in Codes, Down(code)
            PROVE  /\ ctr' \in Codes \cup {"running", "none"}
                   /\ exits' \in 0..MaxExits
                   /\ follow' \in [ExitIds -> Follows]
        BY <3>1, DownTypes
      <3>2. CASE UNCHANGED <<ctr, exits, follow>>
        BY <1>0, <3>2 DEF TypeOK
      <3> QED
        BY <2>3, <3>1, <3>2
    <2>4. CASE StopEnds
      BY <2>0, <2>3, <2>4 DEF TypeOK, StopEnds, Follows, Ops, Crashes
    <2>5. CASE RecreateStops
      <3>1. op' \in Ops
        BY <1>0, <2>5 DEF RecreateStops, Ops
      <3> QED
        BY <2>3, <2>5, <3>1 DEF TypeOK, RecreateStops, Follows, Ops, Crashes
    <2>6. CASE RecreateCreates
      <3>1. op' \in Ops
        BY <1>0, <2>0, <2>6 DEF RecreateCreates, Ops
      <3>2. ctr' \in Codes \cup {"running", "none"}
        BY <2>6 DEF RecreateCreates, Codes
      <3> QED
        BY <2>6, <3>1, <3>2 DEF TypeOK, RecreateCreates, Ops, Crashes
    <2> QED
      BY <1>5, <2>1, <2>2, <2>4, <2>5, <2>6 DEF Bodies
  <1> QED
    BY <1>2, <1>3, <1>4, <1>5

\* The follow-up of one exit.
LEMMA FollowUpTypes ==
  ASSUME TypeOK, NEW i \in ExitIds, Handle(i) \/ Timer(i)
  PROVE  TypeOK'
  <1>0. /\ follow \in [ExitIds -> Follows]
        /\ op \in Ops
        /\ now \in Times
    BY DEF TypeOK, Follows, Ops
  <1>1. CASE ReadRow(i)
    <2>1. follow' \in [ExitIds -> Follows]
      BY <1>0, <1>1 DEF ReadRow, TypeOK, Follows
    <2> QED
      BY <1>1, <2>1 DEF TypeOK, ReadRow, Follows, Crashes
  <1>2. CASE QueryStop(i)
    <2>1. StopRequested \in BOOLEAN
      BY DEF StopRequested
    <2>2. follow' \in [ExitIds -> Follows]
      <3>1. CASE Intentional(follow[i].code)
        BY <1>2, <3>1, MoveTypes DEF QueryStop
      <3>2. CASE ~Intentional(follow[i].code)
        <4> HIDE DEF StopRequested
        <4> QED
          BY <1>0, <1>2, <2>1, <3>2 DEF QueryStop, Follows
      <3> QED
        BY <3>1, <3>2
    <2> QED
      BY <1>2, <2>2 DEF TypeOK, QueryStop, Follows, Crashes
  <1>3. CASE ReadLogs(i)
    <2>1. /\ follow' \in [ExitIds -> Follows]
          /\ due' \in BOOLEAN
          /\ window' \subseteq Crashes
          /\ armed' \subseteq Crashes
      <3>1. [exit |-> i, at |-> now] \in Crashes
        BY <1>0 DEF Crashes
      <3>2. window \subseteq Crashes /\ armed \subseteq Crashes /\ due \in BOOLEAN
        BY DEF TypeOK
      <3>3. PICK diagnosed \in BOOLEAN :
              IF diagnosed \/ ~Restartable(follow[i])
              THEN /\ Done(i)
                   /\ due' = FALSE
                   /\ UNCHANGED <<window, armed>>
              ELSE /\ window' = Recent(i)
                   /\ IF Cardinality(Recent(i)) > MaxRapid
                      THEN Done(i) /\ due' = FALSE /\ UNCHANGED armed
                      ELSE /\ Move(i, "timer")
                           /\ armed' = armed \cup {[exit |-> i, at |-> now]}
                           /\ UNCHANGED due
        BY <1>3 DEF ReadLogs
      <3>4. CASE diagnosed \/ ~Restartable(follow[i])
        BY <3>2, <3>3, <3>4, MoveTypes
      <3>5. CASE ~(diagnosed \/ ~Restartable(follow[i]))
        BY <3>1, <3>2, <3>3, <3>5, MoveTypes, RecentTypes
      <3> QED
        BY <3>4, <3>5
    <2> QED
      BY <1>3, <2>1 DEF TypeOK, ReadLogs, Follows
  <1>4. CASE TimerFires(i)
    <2>1. follow' \in [ExitIds -> Follows]
      BY <1>4, MoveTypes DEF TimerFires
    <2> QED
      BY <1>4, <2>1 DEF TypeOK, TimerFires, Follows, Crashes
  <1>5. CASE TimerFails(i)
    <2>1. follow' \in [ExitIds -> Follows]
      BY <1>5, MoveTypes DEF TimerFails
    <2>2. due' \in BOOLEAN
      BY <1>5 DEF TimerFails
    <2> QED
      BY <1>5, <2>1, <2>2 DEF TypeOK, TimerFails, Follows, Crashes
  <1>6. CASE AutoStart(i)
    <2>1. follow' \in [ExitIds -> Follows]
      BY <1>6, MoveTypes DEF AutoStart
    <2>2. op' \in Ops
      <3>1. [kind |-> "start", pc |-> "launch", was |-> FALSE] \in Ops
        BY DEF Ops
      <3> QED
        BY <1>0, <1>6, <3>1 DEF AutoStart
    <2>3. due' \in BOOLEAN
      BY <1>6 DEF AutoStart, TypeOK
    <2> QED
      BY <1>6, <2>1, <2>2, <2>3 DEF TypeOK, AutoStart, Follows, Ops, Crashes
  <1> QED
    BY <1>1, <1>2, <1>3, <1>4, <1>5, <1>6 DEF Handle, Timer

\* The panel comes up with nothing in memory.
LEMMA PanelTypes ==
  ASSUME TypeOK, PanelRestarts
  PROVE  TypeOK'
  <1>1. NoOp \in Ops /\ NoFollow \in Follows
    BY DEF NoOp, NoFollow, Ops, Follows, Codes
  <1>2. /\ watch' \in Watches
        /\ op' \in Ops
        /\ follow' \in [ExitIds -> Follows]
        /\ due' \in BOOLEAN
    <2>1. NoWatch \in Watches
      BY DEF NoWatch, Watches
    <2>2. due' \in BOOLEAN
      BY DEF PanelRestarts
    <2> QED
      BY <1>1, <2>1, <2>2 DEF PanelRestarts
  <1>3. UNCHANGED <<now, ctr, auto, requested, exits>> /\ window' = {} /\ armed' = {}
    BY DEF PanelRestarts
  <1> QED
    BY <1>2, <1>3 DEF TypeOK, Ops, Follows, Watches

-----------------------------------------------------------------------------
(* One stream *)

\* While a stream is being opened there is none.
StreamInv == OneStream /\ (watch.connecting => ~watch.live)

LEMMA StreamStep ==
  ASSUME TypeOK, StreamInv, [Next]_crashVars
  PROVE  StreamInv'
  <1>0. watch \in [live : BOOLEAN, timer : BOOLEAN, connecting : BOOLEAN,
                   late : BOOLEAN, listening : 0..2]
    BY DEF TypeOK
  <1>1. CASE Connected
    BY <1>0, <1>1 DEF Connected, StreamInv, OneStream
  <1>2. CASE ConnectFails
    BY <1>0, <1>2 DEF ConnectFails, RetryLater, StreamInv, OneStream
  <1>3. CASE RetryFires
    BY <1>0, <1>3 DEF RetryFires, StreamInv, OneStream
  <1>4. CASE Drops
    BY <1>0, <1>4 DEF Drops, RetryLater, StreamInv, OneStream
  <1>5. CASE DropsAgain
    BY <1>0, <1>5 DEF DropsAgain, LateDrop, StreamInv, OneStream
  <1>6. CASE PanelRestarts
    BY <1>6 DEF PanelRestarts, NoWatch, StreamInv, OneStream
  <1>7. CASE UNCHANGED watch
    BY <1>7 DEF StreamInv, OneStream
  <1>8. CASE Exits \/ Tick
    BY <1>7, <1>8 DEF Exits, Tick
  <1>9. CASE Users
    BY <1>7, <1>9 DEF Users, StartServer, StopServer, RestartServer, RecreateServer,
                      Enter, KillServer, SetAutoRestart
  <1>10. CASE Bodies
    BY <1>7, <1>10 DEF Bodies, Launch, LaunchFails, StopEnds, RecreateStops,
                       RecreateCreates
  <1>11. ASSUME NEW i \in ExitIds, Handle(i) \/ Timer(i)
         PROVE  StreamInv'
    BY <1>7, <1>11 DEF Handle, Timer, ReadRow, QueryStop, ReadLogs, TimerFires,
                       TimerFails, AutoStart
  <1> QED
    BY <1>1, <1>2, <1>3, <1>4, <1>5, <1>6, <1>7, <1>8, <1>9, <1>10, <1>11
       DEF Next, Stream, crashVars

LEMMA TypesStep ==
  ASSUME TypeOK, StreamInv, [Next]_crashVars
  PROVE  TypeOK'
  <1>1. CASE Stream
    BY <1>1, StreamTypes DEF StreamInv
  <1>2. CASE Exits \/ Tick \/ Users \/ Bodies
    BY <1>2, ServerTypes
  <1>3. CASE PanelRestarts
    BY <1>3, PanelTypes
  <1>4. ASSUME NEW i \in ExitIds, Handle(i) \/ Timer(i)
        PROVE  TypeOK'
    BY <1>4, FollowUpTypes
  <1>5. CASE UNCHANGED crashVars
    BY <1>5 DEF TypeOK, crashVars, Crashes
  <1> QED
    BY <1>1, <1>2, <1>3, <1>4, <1>5 DEF Next

LEMMA StreamInit == Init => StreamInv
  BY DEF Init, StreamInv, OneStream, NoWatch

\* Every count, follow-up, operation and connection keeps its type.
THEOREM CrashTypes == Spec => []TypeOK
  <1>1. Init => TypeOK /\ StreamInv
    BY InitTypes, StreamInit
  <1>2. TypeOK /\ StreamInv /\ [Next]_crashVars => (TypeOK /\ StreamInv)'
    BY TypesStep, StreamStep
  <1> QED
    BY <1>1, <1>2, PTL DEF Spec

\* The watcher listens to one stream at a time, and is always connected,
\* connecting or about to retry: the second of a broken stream's two events
\* never drops the stream that took its place.
THEOREM OneStreamAtATime == Spec => []OneStream
  <1>1. Init => TypeOK /\ StreamInv
    BY InitTypes, StreamInit
  <1>2. TypeOK /\ StreamInv /\ [Next]_crashVars => (TypeOK /\ StreamInv)'
    BY TypesStep, StreamStep
  <1>3. StreamInv => OneStream
    BY DEF StreamInv
  <1> QED
    BY <1>1, <1>2, <1>3, PTL DEF Spec

-----------------------------------------------------------------------------
(* The limit on restarts *)

\* The restarts armed within a crash window up to t.
Within(S, t) == {a \in S : a.at <= t /\ t - a.at < CrashWindow}

\* A restart is no younger than the clock, and counts for a whole window.
Counted == \A a \in armed : /\ a.at <= now
                            /\ now - a.at < CrashWindow => a \in window

LimitInv == Counted /\ RestartsAreLimited

\* Sets of crashes are finite, so that counting them means something.
LEMMA CrashesAreFinite ==
  ASSUME NEW S \in SUBSET Crashes
  PROVE  IsFiniteSet(S)
  <1>1. IsFiniteSet(ExitIds) /\ IsFiniteSet(Times)
    BY FS_Interval, CrashAssumption DEF ExitIds, Times
  <1>2. IsFiniteSet(ExitIds \X Times)
    BY <1>1, FS_Product
  <1> DEFINE f == [p \in ExitIds \X Times |-> [exit |-> p[1], at |-> p[2]]]
  <1>3. f \in Surjection(ExitIds \X Times, Crashes)
    <2>1. f \in [ExitIds \X Times -> Crashes]
      BY DEF Crashes
    <2>2. ASSUME NEW w \in Crashes
          PROVE  \E p \in ExitIds \X Times : f[p] = w
      <3>1. <<w.exit, w.at>> \in ExitIds \X Times
        BY DEF Crashes
      <3>2. f[<<w.exit, w.at>>] = w
        BY <3>1 DEF Crashes
      <3> QED
        BY <3>1, <3>2
    <2> QED
      BY <2>1, <2>2 DEF Surjection
  <1>4. IsFiniteSet(Crashes)
    BY <1>2, <1>3, FS_Surjection
  <1> QED
    BY <1>4, FS_Subset

\* A new restart shares its window with crashes that were just counted.
LEMMA ArmingIsLimited ==
  ASSUME TypeOK, Counted, RestartsAreLimited, NEW i \in ExitIds,
         ~(Cardinality(Recent(i)) > MaxRapid),
         armed' = armed \cup {[exit |-> i, at |-> now]}
  PROVE  RestartsAreLimited'
  <1> DEFINE new == [exit |-> i, at |-> now]
  <1>0. now \in Times /\ armed \subseteq Crashes /\ new \in Crashes
    BY DEF TypeOK, Crashes
  <1>1. SUFFICES ASSUME NEW t \in Times
                 PROVE  Cardinality(Within(armed', t)) <= MaxRapid
    BY DEF RestartsAreLimited, Within
  <1>2. new.at = now
    OBVIOUS
  <1> HIDE DEF new
  <1>3. \A a \in Crashes : a.at \in Int
    BY DEF Crashes, Times
  <1>4. now \in Int /\ t \in Int /\ CrashWindow \in Int
    BY <1>0, CrashAssumption DEF Times
  <1>5. CASE now > t
    <2>1. Within(armed', t) = Within(armed, t)
      BY <1>0, <1>2, <1>3, <1>4, <1>5 DEF Within, new
    <2>2. Cardinality(Within(armed, t)) <= MaxRapid
      BY DEF RestartsAreLimited, Within
    <2> QED
      BY <2>1, <2>2
  <1>6. CASE t >= now
    <2>1. Within(armed', t) \subseteq Recent(i)
      <3>1. ASSUME NEW a \in armed, t - a.at < CrashWindow
            PROVE  a \in Recent(i)
        <4>1. a.at \in Int
          BY <1>0, <1>3
        <4>2. now - a.at < CrashWindow
          BY <1>4, <1>6, <3>1, <4>1
        <4> QED
          BY <4>2 DEF Counted, Recent
      <3>2. new \in Recent(i)
        BY DEF Recent, new
      <3> QED
        BY <3>1, <3>2 DEF Within, new
    <2>2. IsFiniteSet(Recent(i))
      BY RecentTypes, CrashesAreFinite
    <2>3. Cardinality(Within(armed', t)) <= Cardinality(Recent(i))
      BY <2>1, <2>2, FS_Subset
    <2>4. Cardinality(Recent(i)) \in Nat /\ Cardinality(Within(armed', t)) \in Nat
      BY <2>1, <2>2, FS_Subset, FS_CardinalityType
    <2> QED
      BY <2>3, <2>4, CrashAssumption
  <1> QED
    BY <1>4, <1>5, <1>6

\* What is counted stays counted, and what is armed is.
LEMMA LimitStep ==
  ASSUME TypeOK, LimitInv, [Next]_crashVars
  PROVE  LimitInv'
  <1>0. /\ now \in Int /\ CrashWindow \in Int
        /\ armed \subseteq Crashes /\ window \subseteq Crashes
    BY CrashAssumption DEF TypeOK, Times
  <1>00. \A a \in Crashes : a.at \in Int
    BY DEF Crashes, Times
  <1>1. CASE UNCHANGED <<now, window, armed>>
    BY <1>1 DEF LimitInv, Counted, RestartsAreLimited
  <1>2. CASE Tick
    <2>1. now' = now + 1 /\ UNCHANGED <<window, armed>>
      BY <1>2 DEF Tick
    <2>2. ASSUME NEW a \in armed
          PROVE  /\ a.at <= now'
                 /\ now' - a.at < CrashWindow => a \in window
      <3>1. a.at \in Int
        BY <1>0, <1>00
      <3> QED
        BY <1>0, <2>1, <3>1 DEF LimitInv, Counted
    <2> QED
      BY <2>1, <2>2 DEF LimitInv, Counted, RestartsAreLimited
  <1>3. CASE PanelRestarts
    <2>1. armed' = {}
      BY <1>3 DEF PanelRestarts
    <2>2. \A t \in Times : {a \in armed' : a.at <= t /\ t - a.at < CrashWindow} = {}
      BY <2>1
    <2>3. Cardinality({}) = 0
      BY FS_EmptySet
    <2> QED
      BY <2>1, <2>2, <2>3, CrashAssumption DEF LimitInv, Counted, RestartsAreLimited
  <1>4. ASSUME NEW i \in ExitIds, ReadLogs(i)
        PROVE  LimitInv'
    <2>0. UNCHANGED now
      BY <1>4 DEF ReadLogs
    <2>1. \/ UNCHANGED <<window, armed>>
          \/ window' = Recent(i) /\ UNCHANGED armed
          \/ /\ window' = Recent(i)
             /\ ~(Cardinality(Recent(i)) > MaxRapid)
             /\ armed' = armed \cup {[exit |-> i, at |-> now]}
      BY <1>4 DEF ReadLogs
    <2>2. ASSUME NEW a \in armed, now - a.at < CrashWindow
          PROVE  a \in Recent(i)
      BY <2>2 DEF LimitInv, Counted, Recent
    <2>3. CASE UNCHANGED <<window, armed>>
      BY <1>1, <2>0, <2>3
    <2>4. CASE window' = Recent(i) /\ UNCHANGED armed
      BY <2>0, <2>2, <2>4 DEF LimitInv, Counted, RestartsAreLimited
    <2>5. CASE /\ window' = Recent(i)
               /\ ~(Cardinality(Recent(i)) > MaxRapid)
               /\ armed' = armed \cup {[exit |-> i, at |-> now]}
      <3>1. RestartsAreLimited'
        BY <2>5, ArmingIsLimited DEF LimitInv
      <3>2. [exit |-> i, at |-> now] \in Recent(i)
        BY DEF Recent
      <3>3. Counted'
        BY <1>0, <2>0, <2>2, <2>5, <3>2 DEF LimitInv, Counted
      <3> QED
        BY <3>1, <3>3 DEF LimitInv
    <2> QED
      BY <2>1, <2>3, <2>4, <2>5
  <1>5. CASE Stream \/ Exits
    BY <1>1, <1>5 DEF Stream, Connected, ConnectFails, RetryFires, Drops, DropsAgain, Exits
  <1>6. CASE Users
    BY <1>1, <1>6 DEF Users, StartServer, StopServer, RestartServer, RecreateServer,
                      Enter, KillServer, SetAutoRestart
  <1>7. CASE Bodies
    BY <1>1, <1>7 DEF Bodies, Launch, LaunchFails, StopEnds, RecreateStops,
                      RecreateCreates
  <1>8. ASSUME NEW i \in ExitIds, ReadRow(i) \/ QueryStop(i) \/ Timer(i)
        PROVE  LimitInv'
    BY <1>1, <1>8 DEF Timer, ReadRow, QueryStop, TimerFires, TimerFails, AutoStart
  <1>9. CASE UNCHANGED crashVars
    BY <1>1, <1>9 DEF crashVars
  <1> QED
    BY <1>2, <1>3, <1>4, <1>5, <1>6, <1>7, <1>8, <1>9 DEF Next, Handle

LEMMA LimitInit == Init => LimitInv
  <1> SUFFICES ASSUME Init PROVE LimitInv
    OBVIOUS
  <1>1. \A t \in Times : {a \in armed : a.at <= t /\ t - a.at < CrashWindow} = {}
    BY DEF Init
  <1> QED
    BY <1>1, FS_EmptySet, CrashAssumption DEF Init, LimitInv, Counted, RestartsAreLimited

\* One process of the panel never arms more than MAX_RAPID_CRASHES restarts of
\* a server within CRASH_WINDOW_MS, of whatever exits their handlers and timers
\* come and however they interleave.
THEOREM RestartLimit == Spec => []RestartsAreLimited
  <1>1. Init => TypeOK /\ StreamInv /\ LimitInv
    BY InitTypes, StreamInit, LimitInit
  <1>2. TypeOK /\ StreamInv /\ LimitInv /\ [Next]_crashVars
          => (TypeOK /\ StreamInv /\ LimitInv)'
    BY TypesStep, StreamStep, LimitStep
  <1>3. LimitInv => RestartsAreLimited
    BY DEF LimitInv
  <1> QED
    BY <1>1, <1>2, <1>3, PTL DEF Spec
=============================================================================

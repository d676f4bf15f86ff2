---------------------------- MODULE CrashRestart ----------------------------
(***************************************************************************)
(* DockerWatcherService on one server: the events stream with its          *)
(* reconnects, one handleEvent call per exit of the container, and the     *)
(* delayed restart it may end in, beside the lifecycle operations a user   *)
(* runs.  What start and healthy events write belongs to ServerStatus.     *)
(*                                                                         *)
(* Time is counted in minutes or longer, so the 5, 10 or 20 seconds of a   *)
(* restart's delay end before the clock ticks again.                       *)
(***************************************************************************)
EXTENDS Integers, FiniteSets

CONSTANTS MaxExits,     \* bound on the exits of one behaviour
          MaxTime,      \* bound on the clock
          DayLength,    \* ticks from one midnight (UTC) to the next
          StopWindow,   \* how long a stop counts as requested
          CrashWindow,  \* CRASH_WINDOW_MS
          MaxRapid      \* MAX_RAPID_CRASHES

ASSUME CrashAssumption == /\ MaxExits \in Nat
                          /\ MaxTime \in Nat
                          /\ DayLength \in Nat \ {0}
                          /\ StopWindow \in 1..MaxTime
                          /\ CrashWindow \in Nat \ {0}
                          /\ MaxRapid \in Nat

VARIABLES now,
          ctr,          \* "running", its exit code, or "none"
          auto,         \* servers.autoRestart
          requested,    \* when the last *-requested event was recorded, 0: never
          op,           \* the guarded lifecycle operation
          watch,        \* the watcher's connection
          exits,        \* how many exits there were
          follow,       \* the follow-up of each exit, a handleEvent call
          window,       \* crashWindows.get(serverId)
          armed,        \* history: when this process armed a restart
          due           \* history: a crash that was seen awaits its follow-up

crashVars == <<now, ctr, auto, requested, op, watch, exits, follow,
               window, armed, due>>

\* exit codes: 0, a signal's (143 and 130), SIGKILL's 137, an error's
Codes == {"zero", "signal", "killed", "error"}
ExitIds == 1..MaxExits
Times == 0..MaxTime

\* a crash as the counts have it: which exit, and when it was counted
Crashes == [exit : ExitIds, at : Times]

NoOp == [kind |-> "none", pc |-> "none", was |-> FALSE]
NoFollow == [pc |-> "none", code |-> "zero", auto |-> FALSE, stop |-> FALSE]

TypeOK ==
  /\ now \in Times
  /\ ctr \in Codes \cup {"running", "none"}
  /\ auto \in BOOLEAN
  /\ requested \in Times
  /\ op \in [kind : {"none", "start", "stop", "restart", "recreate"},
             pc : {"none", "launch", "stop", "down", "create"}, was : BOOLEAN]
  /\ watch \in [live : BOOLEAN, timer : BOOLEAN, connecting : BOOLEAN,
                late : BOOLEAN, listening : 0..2]
  /\ exits \in 0..MaxExits
  /\ follow \in [ExitIds -> [pc : {"none", "row", "query", "logs",
                                   "timer", "start", "joined"},
                             code : Codes, auto : BOOLEAN, stop : BOOLEAN]]
  /\ window \subseteq Crashes
  /\ armed \subseteq Crashes
  /\ due \in BOOLEAN

NoWatch == [live |-> FALSE, timer |-> FALSE, connecting |-> TRUE,
            late |-> FALSE, listening |-> 0]

\* a running server when the panel boots, with the stream being opened
Init == /\ now = StopWindow
        /\ ctr = "running"
        /\ auto \in BOOLEAN
        /\ requested = 0
        /\ op = NoOp
        /\ watch = NoWatch
        /\ exits = 0
        /\ follow = [i \in ExitIds |-> NoFollow]
        /\ window = {}
        /\ armed = {}
        /\ due = FALSE

-----------------------------------------------------------------------------
(* The events stream *)

\* retryLater: one timer at a time
RetryLater(w) == [w EXCEPT !.timer = TRUE]

\* getEvents answers, and the stream is listened to
Connected ==
  /\ watch.connecting
  /\ watch' = [watch EXCEPT !.connecting = FALSE, !.live = TRUE,
                            !.listening = @ + 1]
  /\ UNCHANGED <<now, ctr, auto, requested, op, exits, follow, window,
                 armed, due>>

ConnectFails ==
  /\ watch.connecting
  /\ watch' = RetryLater([watch EXCEPT !.connecting = FALSE])
  /\ UNCHANGED <<now, ctr, auto, requested, op, exits, follow, window,
                 armed, due>>

\* startWatcher, again: nothing to do when a stream is live
RetryFires ==
  /\ watch.timer
  /\ watch' = [watch EXCEPT !.timer = FALSE, !.connecting = ~watch.live]
  /\ UNCHANGED <<now, ctr, auto, requested, op, exits, follow, window,
                 armed, due>>

\* the live stream breaks: the first of its error and end events
Drops ==
  /\ watch.live
  /\ watch.listening = 1
  /\ watch' = RetryLater([watch EXCEPT !.live = FALSE, !.listening = 0,
                                       !.late = TRUE])
  /\ UNCHANGED <<now, ctr, auto, requested, op, exits, follow, window,
                 armed, due>>

\* Mutant: onDrop without its test for a stale stream
StaleDrop == RetryLater([watch EXCEPT !.live = FALSE, !.late = FALSE])

\* onDrop of a stream that is no longer this.stream
LateDrop == [watch EXCEPT !.late = FALSE]

\* the second of the error and end events of a broken stream
DropsAgain ==
  /\ watch.late
  /\ watch' = LateDrop
  /\ UNCHANGED <<now, ctr, auto, requested, op, exits, follow, window,
                 armed, due>>

-----------------------------------------------------------------------------
(* The container *)

\* the process ends; handleEvent is called for it when the stream is up
Down(code) ==
  /\ ctr = "running"
  /\ exits < MaxExits
  /\ ctr' = code
  /\ exits' = exits + 1
  /\ follow' = IF watch.listening = 0 THEN follow
               ELSE [follow EXCEPT ![exits + 1] =
                       [NoFollow EXCEPT !.pc = "row", !.code = code]]

Exits ==
  /\ \E code \in {"zero", "signal", "error"} :
       /\ Down(code)
       /\ due' = (code = "error" /\ auto /\ watch.listening # 0 /\ op = NoOp)
  /\ UNCHANGED <<now, auto, requested, op, watch, window, armed>>

\* a unit of time goes by; a restart's delay is shorter than that
Tick ==
  /\ now < MaxTime
  /\ \A i \in ExitIds : follow[i].pc # "timer"
  /\ now' = now + 1
  /\ UNCHANGED <<ctr, auto, requested, op, watch, exits, follow, window,
                 armed, due>>

-----------------------------------------------------------------------------
(* Lifecycle operations.  ServerLifecycle has their bodies: here they are    *)
(* what they record and what they do to the container.                       *)

Enter(kind, pc) ==
  /\ op = NoOp
  /\ op' = [kind |-> kind, pc |-> pc, was |-> pc = "down" /\ ctr = "running"]
  /\ due' = FALSE
  /\ UNCHANGED <<now, ctr, auto, watch, exits, follow, window, armed>>

StartServer == Enter("start", "launch") /\ UNCHANGED requested
StopServer == Enter("stop", "stop") /\ requested' = now
RestartServer == Enter("restart", "down") /\ requested' = now
RecreateServer == Enter("recreate", "down") /\ UNCHANGED requested

\* guard's finally: who shared the start returns, or sees it fail
Joined(i) == follow[i].pc = "joined"
Settled == [i \in ExitIds |-> IF Joined(i) THEN NoFollow ELSE follow[i]]

\* startContainer
Launch ==
  /\ op.pc = "launch"
  /\ ctr' = "running"
  /\ op' = NoOp
  /\ follow' = Settled
  /\ due' = FALSE
  /\ UNCHANGED <<now, auto, requested, watch, exits, window, armed>>

\* Docker refuses: the error reaches the timer, which records it
LaunchFails ==
  /\ op.pc = "launch"
  /\ op' = NoOp
  /\ follow' = Settled
  /\ due' = (due /\ ~\E i \in ExitIds : Joined(i))
  /\ UNCHANGED <<now, ctr, auto, requested, watch, exits, window, armed>>

\* stopContainer: rcon's stop, which may end in any code, or docker stop
StopEnds ==
  /\ op.pc = "stop"
  /\ IF ctr = "running" THEN \E code \in Codes : Down(code)
                        ELSE UNCHANGED <<ctr, exits, follow>>
  /\ op' = NoOp
  /\ UNCHANGED <<now, auto, requested, watch, window, armed, due>>

RecreateStops ==
  /\ op.pc = "down"
  /\ IF op.was /\ ctr = "running" THEN \E code \in Codes : Down(code)
                                 ELSE UNCHANGED <<ctr, exits, follow>>
  /\ op' = [op EXCEPT !.pc = "create"]
  /\ UNCHANGED <<now, auto, requested, watch, window, armed, due>>

\* remove, create, and launch what ran or what is restarted
RecreateCreates ==
  /\ op.pc = "create"
  /\ \/ /\ ctr' = "zero"
        /\ op' = IF op.was \/ op.kind = "restart" THEN [op EXCEPT !.pc = "launch", !.was = FALSE]
                                                  ELSE NoOp
     \/ ctr' = "none" /\ op' = NoOp
  /\ due' = FALSE
  /\ UNCHANGED <<now, auto, requested, watch, exits, follow, window,
                 armed>>

\* killServer takes no guard; docker kill answers at once
KillServer ==
  /\ IF ctr = "running" THEN Down("killed") ELSE UNCHANGED <<ctr, exits, follow>>
  /\ requested' = now
  /\ due' = FALSE
  /\ UNCHANGED <<now, auto, op, watch, window, armed>>

SetAutoRestart(on) ==
  /\ auto # on
  /\ auto' = on
  /\ due' = FALSE
  /\ UNCHANGED <<now, ctr, requested, op, watch, exits, follow, window,
                 armed>>

-----------------------------------------------------------------------------
(* handleEvent on a die, one step per await *)

At(i, pc) == i \in ExitIds /\ follow[i].pc = pc
Move(i, pc) == follow' = [follow EXCEPT ![i] = [NoFollow EXCEPT !.pc = pc]]
Done(i) == follow' = [follow EXCEPT ![i] = NoFollow]

\* the row is read once; its autoRestart is used awaits later
ReadRow(i) ==
  /\ At(i, "row")
  /\ follow' = [follow EXCEPT ![i].pc = "query", ![i].auto = auto]
  /\ UNCHANGED <<now, ctr, auto, requested, op, watch, exits, window,
                 armed, due>>

Day(t) == t \div DayLength

\* The event's created_at is SQLite's text 'YYYY-MM-DD HH:MM:SS' and the limit
\* an ISO text with a 'T' in the blank's place.  Compared as text, the blank
\* sorts first: of two times of one day the event is never the greater, and
\* only an event of a later day than the limit's is found.
StopRequested == requested # 0 /\ Day(requested) > Day(now - StopWindow)

\* 0, 143 and 130 are intentional, 137 is when a stop was requested
Intentional(code) ==
  code \in {"zero", "signal"} \/ (code = "killed" /\ StopRequested)

\* with the answer the status is written; an intentional exit ends here
QueryStop(i) ==
  /\ At(i, "query")
  /\ IF Intentional(follow[i].code) THEN Done(i)
     ELSE follow' = [follow EXCEPT ![i].pc = "logs", ![i].stop = StopRequested]
  /\ UNCHANGED <<now, ctr, auto, requested, op, watch, exits, window, armed, due>>

\* Mutant: the crash at hand is not counted
RecentBefore(i) == {w \in window : now - w.at < CrashWindow}

\* Mutant: a crash is dated by the restart that will follow
RecentLater(i) == {w \in window : now - w.at < CrashWindow}
                    \cup {[exit |-> i, at |-> now + 1]}

\* crashes of the last ten minutes, and this one.  The code's list of times is
\* only filtered and counted, so a set of crashes says as much.
Recent(i) == {w \in window : now - w.at < CrashWindow}
               \cup {[exit |-> i, at |-> now]}

\* not a config error the log explains, a requested stop, or an external kill
Restartable(f) == ~f.stop /\ f.code # "killed" /\ f.auto

\* the log is read, diagnosed and the crash recorded; then, in the same step,
\* the restart is armed, or given up
ReadLogs(i) ==
  /\ At(i, "logs")
  /\ \E diagnosed \in BOOLEAN :
       IF diagnosed \/ ~Restartable(follow[i])
       THEN /\ Done(i)
            /\ due' = FALSE
            /\ UNCHANGED <<window, armed>>
       ELSE /\ window' = Recent(i)
            /\ IF Cardinality(Recent(i)) > MaxRapid
               THEN Done(i) /\ due' = FALSE /\ UNCHANGED armed
               ELSE /\ Move(i, "timer")
                    /\ armed' = armed \cup {[exit |-> i, at |-> now]}
                    /\ UNCHANGED due
  /\ UNCHANGED <<now, ctr, auto, requested, op, watch, exits>>

\* inspectStatus: every exit code but 0 reads as crashed
LooksCrashed == ctr \in {"signal", "killed", "error"}

\* the timer inspects the container as it is by now
TimerFires(i) ==
  /\ At(i, "timer")
  /\ IF LooksCrashed THEN Move(i, "start") ELSE Done(i)
  /\ UNCHANGED <<now, ctr, auto, requested, op, watch, exits, window,
                 armed, due>>

\* Mutant: the failed restart is not recorded
TimerFailsSilent(i) ==
  /\ At(i, "timer")
  /\ Done(i)
  /\ UNCHANGED <<now, ctr, auto, requested, op, watch, exits, window, armed, due>>

\* the inspect fails: auto-restart-failed is recorded
TimerFails(i) ==
  /\ At(i, "timer")
  /\ Done(i)
  /\ due' = FALSE
  /\ UNCHANGED <<now, ctr, auto, requested, op, watch, exits, window,
                 armed>>

\* startServer: takes the guard, shares a start, or is refused and recorded
AutoStart(i) ==
  /\ At(i, "start")
  /\ \/ /\ op = NoOp
        /\ op' = [kind |-> "start", pc |-> "launch", was |-> FALSE]
        /\ Move(i, "joined")
        /\ UNCHANGED due
     \/ op.kind = "start" /\ Move(i, "joined") /\ UNCHANGED <<op, due>>
     \/ op.kind \notin {"none", "start"} /\ Done(i) /\ due' = FALSE /\ UNCHANGED op
  /\ UNCHANGED <<now, ctr, auto, requested, watch, exits, window, armed>>

\* the panel goes down and comes up: calls, timers and counts are in memory
PanelRestarts ==
  /\ op' = NoOp
  /\ watch' = NoWatch
  /\ follow' = [i \in ExitIds |-> NoFollow]
  /\ window' = {}
  /\ armed' = {}
  /\ due' = FALSE
  /\ UNCHANGED <<now, ctr, auto, requested, exits>>

-----------------------------------------------------------------------------
Stream == Connected \/ ConnectFails \/ RetryFires \/ Drops \/ DropsAgain
Handle(i) == ReadRow(i) \/ QueryStop(i) \/ ReadLogs(i)
Timer(i) == TimerFires(i) \/ TimerFails(i) \/ AutoStart(i)
Users == \/ StartServer \/ StopServer \/ RestartServer \/ RecreateServer
         \/ KillServer \/ \E on \in BOOLEAN : SetAutoRestart(on)
Bodies == \/ Launch \/ LaunchFails \/ StopEnds \/ RecreateStops
          \/ RecreateCreates

Next == \/ Stream \/ Exits \/ Tick \/ Users \/ Bodies \/ PanelRestarts
        \/ \E i \in ExitIds : Handle(i) \/ Timer(i)

Spec == Init /\ [][Next]_crashVars

\* awaits resume and timers fire
FairSpec == /\ Spec
            /\ WF_crashVars(Bodies)
            /\ \A i \in ExitIds : WF_crashVars(Handle(i) \/ Timer(i))

-----------------------------------------------------------------------------
(* Properties *)

(* One crashing server is restarted at most MAX_RAPID_CRASHES times in any *)
(* CRASH_WINDOW_MS, however its handlers and timers interleave.            *)
RestartsAreLimited ==
  \A t \in Times :
    Cardinality({a \in armed : a.at <= t /\ t - a.at < CrashWindow}) <= MaxRapid

(* The watcher listens to one stream at a time, so an exit is counted      *)
(* once, and is always connected, connecting or about to retry.            *)
OneStream == /\ watch.listening = IF watch.live THEN 1 ELSE 0
             /\ watch.live \/ watch.timer \/ watch.connecting

(* A crash of a server with auto-restart that the watcher saw is followed  *)
(* up: the server runs again, or an event says why it does not, or a user  *)
(* took over.                                                              *)
CrashIsFollowedUp == due ~> ~due

(* docker-watcher.service.ts: "A crash during a requested stop/restart     *)
(* must not fight the panel's own lifecycle handling with an auto-restart."*)
NoRestartAgainstStop ==
  [][~(armed' \subseteq armed)
       => requested = 0 \/ now - requested >= StopWindow]_crashVars
=============================================================================

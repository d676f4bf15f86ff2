---------------------------- MODULE ServerStatus ----------------------------
(***************************************************************************)
(* The cached status column of one server and the writers it has: the      *)
(* lifecycle operations, each with a record of its own after the container *)
(* step, and the handlers of the Docker events stream.  No writer reads    *)
(* the column, and nothing re-reads the container afterwards: the poll     *)
(* that would, refreshStatuses, is called by nothing in src/ and is no     *)
(* action here.                                                            *)
(*                                                                         *)
(* news is kept for the properties only: what became of the newest event   *)
(* of the container.                                                       *)
(***************************************************************************)
EXTENDS Naturals, FiniteSets

CONSTANTS Probed,       \* which containers have the mc-health probe
          Codes,        \* how the process may exit
          MaxHandlers   \* handleEvent calls in progress at once (a bound)

ASSUME StatusAssumption == /\ Probed \subseteq BOOLEAN
                           /\ Codes \subseteq {"zero", "signal", "killed", "error"}
                           /\ MaxHandlers \in Nat \ {0}

VARIABLES box,          \* the container, as Docker reports it
          status,       \* servers.status
          stream,       \* the events stream is connected
          handlers,     \* handleEvent calls in progress
          op,           \* the guarded lifecycle operation in progress
          kill,         \* killServer in progress: it takes no guard
          news          \* what became of the container's newest event

statusVars == <<box, status, stream, handlers, op, kill, news>>

\* exit codes: 0, a signal's (143 and 130), SIGKILL's 137, an error's
AllCodes == {"zero", "signal", "killed", "error"}
Statuses == {"stopped", "starting", "running", "crashed"}

Box == [made : BOOLEAN,         \* there is one
        on : BOOLEAN,
        probed : BOOLEAN,       \* it was created with the probe
        health : {"none", "starting", "healthy", "unhealthy"}]

\* old: the container changed again since the event, or since the step the
\* record is about
Handlers == [event : {"start", "healthy"} \cup AllCodes, old : BOOLEAN]
Records == {"start.record", "stop.record", "recreate.record", "kill.record"}
Operations == [at : {"none", "start", "stop", "recreate", "remove", "create", "kill"}
                      \cup Records,
               resume : BOOLEAN,        \* a start follows the recreate
               old : BOOLEAN]
None == [at |-> "none", resume |-> FALSE, old |-> FALSE]

\* told: the column was last written about it.  due: its handler is at work.
\* lost: it came while the stream was down, or its handler died with the panel.
\* overtaken, overruled: told, and then an older handler or an older record wrote.
News == {"told", "due", "lost", "overtaken", "overruled"}

TypeOK == /\ box \in Box
          /\ status \in Statuses
          /\ stream \in BOOLEAN
          /\ handlers \in SUBSET Handlers
          /\ op \in Operations
          /\ kill \in Operations
          /\ news \in News

Created == [made : {TRUE}, on : {FALSE}, probed : Probed, health : {"none"}]

Init == /\ box \in Created
        /\ status = "stopped"
        /\ stream = TRUE
        /\ handlers = {}
        /\ op = None
        /\ kill = None
        /\ news = "told"

-----------------------------------------------------------------------------
(* The events stream *)

\* handleEvent is called per line and not awaited.  An event while the stream
\* is down is lost: getEvents asks for no history.
Emit(event) ==
  /\ handlers' = {[h EXCEPT !.old = TRUE] : h \in handlers}
                   \cup (IF stream THEN {[event |-> event, old |-> FALSE]} ELSE {})
  /\ Cardinality(handlers') <= MaxHandlers
  /\ news' = IF stream THEN "due" ELSE "lost"

\* a record still to be written is about what the container was
Aged(call) == IF call.at \in Records THEN [call EXCEPT !.old = TRUE] ELSE call

BoxOn == [box EXCEPT !.on = TRUE, !.health = IF box.probed THEN "starting" ELSE "none"]
BoxOff == [box EXCEPT !.on = FALSE, !.health = "none"]

\* a change of the container that no call of the panel made
Happens(event) == /\ Emit(event)
                  /\ op' = Aged(op)
                  /\ kill' = Aged(kill)
                  /\ UNCHANGED <<status, stream>>

Exits == box.on /\ box' = BoxOff /\ \E c \in Codes : Happens(c)

\* a start outside the panel: mc-router, or the host's docker command
StartedOutside == box.made /\ ~box.on /\ box' = BoxOn /\ Happens("start")

\* the probe succeeds
Heals == /\ box.health \in {"starting", "unhealthy"}
         /\ box' = [box EXCEPT !.health = "healthy"]
         /\ Happens("healthy")

\* the probe fails: no event the watcher handles
Sickens == /\ box.health = "healthy"
           /\ box' = [box EXCEPT !.health = "unhealthy"]
           /\ UNCHANGED <<status, stream, handlers, op, kill, news>>

StreamBreaks == /\ stream
                /\ stream' = FALSE
                /\ UNCHANGED <<box, status, handlers, op, kill, news>>

StreamReconnects == /\ ~stream
                    /\ stream' = TRUE
                    /\ UNCHANGED <<box, status, handlers, op, kill, news>>

\* calls and handlers die with the panel, and its boot reads no container
PanelRestarts ==
  /\ stream' = FALSE
  /\ handlers' = {}
  /\ op' = None
  /\ kill' = None
  /\ news' = IF news = "due" THEN "lost" ELSE news
  /\ UNCHANGED <<box, status>>

-----------------------------------------------------------------------------
(* Writes of the column *)

\* by a writer that is old, about a container that has changed since
Write(new, old, excuse) ==
  /\ status' = new
  /\ news' = IF ~old THEN "told" ELSE IF news = "told" THEN excuse ELSE news

\* 0, 143 and 130 are intentional, 137 is when a stop was requested in the
\* last three minutes, and the rest is a crash
ExitStatuses(code) == CASE code \in {"zero", "signal"} -> {"stopped"}
                        [] code = "killed" -> {"stopped", "crashed"}
                        [] OTHER -> {"crashed"}

\* Mutant: Docker's word for a container that is down
EventStatusesRaw(event) == CASE event = "start" -> {"starting"}
                             [] event = "healthy" -> {"running"}
                             [] OTHER -> {"exited"}

EventStatuses(event) == CASE event = "start" -> {"starting"}
                          [] event = "healthy" -> {"running"}
                          [] OTHER -> ExitStatuses(event)

\* Mutant: a daemon that reports only Action is not understood
HandleEventByStatus(h) ==
  /\ h \in handlers
  /\ handlers' = handlers \ {h}
  /\ IF h.event = "error" THEN Write(status, h.old, "overtaken")
     ELSE \E new \in EventStatuses(h.event) : Write(new, h.old, "overtaken")
  /\ UNCHANGED <<box, stream, op, kill>>

\* the handler's reads, and the write they lead to
HandleEvent(h) ==
  /\ h \in handlers
  /\ handlers' = handlers \ {h}
  /\ \E new \in EventStatuses(h.event) : Write(new, h.old, "overtaken")
  /\ UNCHANGED <<box, stream, op, kill>>

-----------------------------------------------------------------------------
(* Lifecycle operations: one at a time behind the guard, and killServer *)

At(step) == [None EXCEPT !.at = step]

\* stopServer, startServer, recreateServer and restartServer.  The start of a
\* server without a container, or with one that is flagged, recreates first.
BeginOperation ==
  /\ op = None
  /\ \/ op' \in {At("stop"), At("recreate"), [At("recreate") EXCEPT !.resume = TRUE]}
     \/ box.made /\ op' = At("start")
  /\ UNCHANGED <<box, status, stream, handlers, kill, news>>

BeginKill ==
  /\ kill = None
  /\ kill' = At("kill")
  /\ UNCHANGED <<box, status, stream, handlers, op, news>>

\* startContainer of one that runs is an error (OperationFails)
StartContainer ==
  /\ op.at = "start"
  /\ box.made /\ ~box.on
  /\ box' = BoxOn
  /\ Emit("start")
  /\ op' = At("start.record")
  /\ kill' = Aged(kill)
  /\ UNCHANGED <<status, stream>>

\* the container is down when the call is past this step
Downs(codes) == IF box.on THEN box' = BoxOff /\ \E c \in codes : Emit(c)
                ELSE UNCHANGED <<box, handlers, news>>

StopContainer ==
  /\ op.at = "stop"
  /\ Downs(Codes)
  /\ op' = At("stop.record")
  /\ kill' = IF box.on THEN Aged(kill) ELSE kill
  /\ UNCHANGED <<status, stream>>

\* recreateServerImpl stops what it found running ...
RecreateStop ==
  /\ op.at = "recreate"
  /\ Downs(Codes)
  /\ op' = [op EXCEPT !.at = "remove", !.resume = @ \/ box.on]
  /\ kill' = IF box.on THEN Aged(kill) ELSE kill
  /\ UNCHANGED <<status, stream>>

\* ... removes the container, by force if it was started meanwhile ...
RecreateRemove ==
  /\ op.at = "remove"
  /\ box' = [BoxOff EXCEPT !.made = FALSE]
  /\ IF box.on THEN Emit("killed") ELSE UNCHANGED <<handlers, news>>
  /\ op' = [op EXCEPT !.at = "create"]
  /\ kill' = IF box.on THEN Aged(kill) ELSE kill
  /\ UNCHANGED <<status, stream>>

\* ... and creates another: started if it ran before, else the row keeps
\* its status
RecreateCreate ==
  /\ op.at = "create"
  /\ box' \in Created
  /\ op' = IF op.resume THEN At("start") ELSE None
  /\ UNCHANGED <<status, stream, handlers, kill, news>>

\* the pull or the creation fails: recorded as stopped
RecreateFail ==
  /\ op.at = "create"
  /\ op' = At("recreate.record")
  /\ UNCHANGED <<box, status, stream, handlers, kill, news>>

KillContainer ==
  /\ kill.at = "kill"
  /\ Downs({"killed"})
  /\ kill' = At("kill.record")
  /\ op' = IF box.on THEN Aged(op) ELSE op
  /\ UNCHANGED <<status, stream>>

\* Docker refuses: the call throws before its record
OperationFails ==
  /\ op.at \in {"start", "stop", "recreate", "remove"}
  /\ op' = None
  /\ UNCHANGED <<box, status, stream, handlers, kill, news>>

\* Mutant: a failed recreate leaves the status it had
RecordedStatusKept(call) == CASE call.at = "start.record" -> "starting"
                              [] call.at = "recreate.record" -> status
                              [] OTHER -> "stopped"

RecordedStatus(call) == IF call.at = "start.record" THEN "starting" ELSE "stopped"

Record ==
  /\ op.at \in Records
  /\ Write(RecordedStatus(op), op.old, "overruled")
  /\ op' = None
  /\ UNCHANGED <<box, stream, handlers, kill>>

KillRecord ==
  /\ kill.at = "kill.record"
  /\ Write(RecordedStatus(kill), kill.old, "overruled")
  /\ kill' = None
  /\ UNCHANGED <<box, stream, handlers, op>>

-----------------------------------------------------------------------------
Container == Exits \/ StartedOutside \/ Heals \/ Sickens
Outage == StreamBreaks \/ StreamReconnects \/ PanelRestarts
Resumes == \/ StartContainer \/ StopContainer \/ RecreateStop \/ RecreateRemove
           \/ RecreateCreate \/ RecreateFail \/ OperationFails \/ Record
KillResumes == KillContainer \/ KillRecord

Next == \/ Container \/ Outage \/ BeginOperation \/ BeginKill
        \/ Resumes \/ KillResumes
        \/ \E h \in handlers : HandleEvent(h)

Spec == Init /\ [][Next]_statusVars

\* awaits resume; nothing else has to happen
FairSpec == /\ Spec
            /\ WF_statusVars(Resumes)
            /\ WF_statusVars(KillResumes)
            /\ \A h \in Handlers : WF_statusVars(HandleEvent(h))

-----------------------------------------------------------------------------
(* Properties *)

AtRest == op = None /\ kill = None /\ handlers = {}
Untold == {"lost", "overtaken", "overruled"}

\* no event tells of a container without a probe, or of one whose probe fails
Shown == CASE ~box.on -> status \in {"stopped", "crashed"}
           [] box.health \in {"healthy", "unhealthy"} -> status = "running"
           [] OTHER -> status = "starting"

(* When nothing is in progress the column tells what the container last    *)
(* did, down, booting or booted, unless that very event was lost with the  *)
(* stream or the panel, or told and then overwritten by a slower handler   *)
(* of an older one or by the record of an operation the container had      *)
(* left behind.  What was missed before the newest event does no harm.     *)
RestingStatusIsTrue == AtRest => Shown \/ news \in Untold

(* Of a container that stays down the column eventually says so for good,  *)
(* with the same exceptions: handlers and records in progress in any order *)
(* come to an end, and none of them leaves a dead server as running.       *)
DownIsShown ==
  <>[](~box.on) => <>[](status \in {"stopped", "crashed"} \/ news \in Untold)
=============================================================================

----------------------------- MODULE Scheduler -----------------------------
(***************************************************************************)
(* SchedulerService: the schedules table, the in-memory map of armed cron  *)
(* jobs, and the requests that change both, with deleteServer, which       *)
(* deletes the schedules of its server twice over.  schedule() stops the   *)
(* job of the map, awaits the time zone and only then registers the new    *)
(* job, and it works from a row read earlier: two requests on one schedule *)
(* may arm two jobs of which the map knows one.                            *)
(*                                                                         *)
(* A step is a database call and the code up to the next one.  A schedule  *)
(* id is never used again; an expression is valid, or the row would not    *)
(* have been inserted; the database answers.  What a firing job runs is    *)
(* the component it calls.                                                 *)
(***************************************************************************)
EXTENDS Naturals, Callers

CONSTANTS Ids,          \* schedule ids
          Own,          \* those of the server that may be deleted
          MaxZones,     \* bound on the changes of the time zone
          MaxJobs       \* bound on the jobs armed in one behaviour

ASSUME SchedulerAssumption == /\ Own \subseteq Ids
                                /\ MaxZones \in Nat /\ MaxJobs \in Nat

VARIABLES row,          \* the schedules table
          there,        \* the server of Own is not deleted
          zone,         \* the time zone of the settings
          jobs,         \* SchedulerService.jobs
          live,         \* the jobs that have not been stopped
          made,         \* how many were armed since the boot
          call,         \* where each request stands
          raced,        \* history: ids that two requests worked on at once
          doubt,        \* history: what is odd about the last change of its job
          late          \* history: ids created after deleteServer's list

schedulerVars == <<row, there, zone, jobs, live, made, call, raced, doubt, late>>

Zones == 0..MaxZones
Job == [id : Ids, n : 0..MaxJobs, zone : Zones]
NoJob == [n |-> 0]

Idle == [op |-> "none", pc |-> "idle", now |-> {}, todo |-> {}]

\* `now` is the row being scheduled, `todo` the rows that are left: an id and
\* whether its row was enabled when it was read
Snapshot == [id : Ids, on : BOOLEAN]

TypeOK ==
  /\ row \in [Ids -> {"new", "on", "off", "gone"}]
  /\ zone \in Zones
  /\ jobs \in [Ids -> Job \cup {NoJob}]
  /\ live \subseteq Job
  /\ made \in 0..MaxJobs
  /\ call \in [Calls -> [op : {"none", "create", "toggle", "delete", "rearm", "remove"},
                         pc : {"idle", "select", "arm", "delete", "list", "next", "cascade"},
                         now : SUBSET Snapshot, todo : SUBSET Snapshot]]
  /\ there \in BOOLEAN
  /\ raced \subseteq Ids
  /\ doubt \in [Ids -> {"none", "old row", "being deleted"}]
  /\ late \subseteq Ids

\* startScheduler has armed the enabled rows before the panel takes requests
Init == /\ row \in [Ids -> {"new", "on", "off"}]
        /\ zone = 0
        /\ jobs = [i \in Ids |-> IF row[i] = "on"
                     THEN [id |-> i, n |-> 0, zone |-> 0] ELSE NoJob]
        /\ live = {jobs[i] : i \in Ids} \ {NoJob}
        /\ made = 0
        /\ call = [c \in Calls |-> Idle]
        /\ there = TRUE
        /\ raced = {}
        /\ doubt = [i \in Ids |-> "none"]
        /\ late = {}

-----------------------------------------------------------------------------
Exists(i) == row[i] \in {"on", "off"}

\* the ids a request works on, for the history
Touched(c) == {s.id : s \in call[c].now \cup call[c].todo}
Others(c) == UNION {Touched(d) : d \in Calls \ {c}}

\* Mutant: the job is forgotten and goes on firing
StopJobForgets(i) == /\ jobs' = [jobs EXCEPT ![i] = NoJob]
                     /\ UNCHANGED live

\* stopJob: the job the map knows
StopJob(i) == /\ live' = live \ {jobs[i]}
              /\ jobs' = [jobs EXCEPT ![i] = NoJob]

\* schedule(job), up to its await; the row may say something else by now
Schedule(c, s, todo) ==
  /\ StopJob(s.id)
  /\ call' = [call EXCEPT ![c].pc = IF s.on THEN "arm" ELSE "next",
                          ![c].now = IF s.on THEN {s} ELSE {},
                          ![c].todo = todo]
  /\ doubt' = [doubt EXCEPT ![s.id] =
                 IF row[s.id] = "on" /\ ~s.on THEN "old row" ELSE "none"]

\* i's job is stopped, i's row still to be deleted
BeingDeleted(i) ==
  \E d \in Calls : call[d].pc = "delete" /\ i \in {s.id : s \in call[d].now}

\* schedule(job), the rest: the time zone is read and the job registered
Arm(c) ==
  /\ call[c].pc = "arm"
  /\ made < MaxJobs
  /\ \E s \in call[c].now :
       LET job == [id |-> s.id, n |-> made + 1, zone |-> zone] IN
         /\ jobs' = [jobs EXCEPT ![s.id] = job]
         /\ live' = live \cup {job}
         /\ doubt' = [doubt EXCEPT ![s.id] =
              IF row[s.id] # "on" THEN "old row"
              ELSE IF BeingDeleted(s.id) THEN "being deleted" ELSE "none"]
  /\ made' = made + 1
  /\ call' = [call EXCEPT ![c].pc = "next", ![c].now = {}]
  /\ UNCHANGED <<row, there, zone, raced, late>>

\* the loop of rearmAll goes on, or the request is answered
GoOn(c) ==
  /\ call[c].pc = "next" /\ call[c].op # "remove"
  /\ IF call[c].todo = {}
     THEN call' = [call EXCEPT ![c] = Idle] /\ UNCHANGED <<jobs, live, doubt>>
     ELSE \E s \in call[c].todo : Schedule(c, s, call[c].todo \ {s})
  /\ UNCHANGED <<row, there, zone, made, raced, late>>

Begin(c, op, pc, i) ==
  /\ call[c].pc = "idle"
  /\ call' = [call EXCEPT ![c] = [Idle EXCEPT !.op = op, !.pc = pc,
                                    !.now = {[id |-> i, on |-> FALSE]}]]
  /\ raced' = raced \cup ({i} \cap Others(c))

-----------------------------------------------------------------------------
(* The requests *)

\* deleteServer has listed the schedules it will delete one by one
PastItsList(c) == call[c].op = "remove"

\* createSchedule: the row is inserted, read back, and scheduled
CreateSchedule(c, i) ==
  /\ row[i] = "new"
  /\ Begin(c, "create", "select", i)
  /\ \E enabled \in {"on", "off"} : row' = [row EXCEPT ![i] = enabled]
  /\ late' = IF i \in Own /\ \E d \in Calls : PastItsList(d) THEN late \cup {i} ELSE late
  /\ UNCHANGED <<there, zone, jobs, live, made, doubt>>

\* setEnabled: an id without a row updates nothing
SetEnabled(c, i, enabled) ==
  /\ row[i] # "new"
  /\ Begin(c, "toggle", "select", i)
  /\ row' = IF Exists(i) THEN [row EXCEPT ![i] = enabled] ELSE row
  /\ UNCHANGED <<there, zone, jobs, live, made, doubt, late>>

\* the row as it is by now, not as this request wrote it
SelectRow(c) ==
  /\ call[c].pc = "select"
  /\ \E s \in call[c].now :
       IF Exists(s.id)
       THEN Schedule(c, [s EXCEPT !.on = row[s.id] = "on"], {})
       ELSE call' = [call EXCEPT ![c] = Idle] /\ UNCHANGED <<jobs, live, doubt>>
  /\ UNCHANGED <<row, there, zone, made, raced, late>>

\* Mutant: only the row is deleted
DisarmNothing(i) == UNCHANGED <<jobs, live, doubt>>

\* deleteSchedule before it deletes the row
Disarm(i) == StopJob(i) /\ doubt' = [doubt EXCEPT ![i] = "none"]

\* deleteSchedule of a request: the row is read, the job stopped
DeleteSchedule(c, i) ==
  /\ row[i] # "new"
  /\ Begin(c, "delete", "delete", i)
  /\ Disarm(i)
  /\ UNCHANGED <<row, there, zone, made, late>>

\* the request is answered, or deleteServer goes on with its list
DeleteRow(c) ==
  /\ call[c].pc = "delete"
  /\ row' = [i \in Ids |-> IF i \in {s.id : s \in call[c].now} THEN "gone" ELSE row[i]]
  /\ call' = [call EXCEPT ![c] =
                IF @.op = "remove" THEN [@ EXCEPT !.pc = "next", !.now = {}] ELSE Idle]
  /\ UNCHANGED <<there, zone, jobs, live, made, raced, doubt, late>>

\* POST localization: the time zone is saved, then rearmAll
SetTimezone(c) ==
  /\ call[c].pc = "idle"
  /\ zone < MaxZones
  /\ zone' = zone + 1
  /\ call' = [call EXCEPT ![c] = [Idle EXCEPT !.op = "rearm", !.pc = "list"]]
  /\ UNCHANGED <<row, there, jobs, live, made, raced, doubt, late>>

RowsOf(S) == {[id |-> i, on |-> row[i] = "on"] : i \in {k \in S : Exists(k)}}

\* the rows are read at once and worked on one after the other
Lists(c, op, S) ==
  /\ call' = [call EXCEPT ![c] = [Idle EXCEPT !.op = op, !.pc = "next", !.todo = RowsOf(S)]]
  /\ raced' = raced \cup ({s.id : s \in RowsOf(S)} \cap Others(c))
  /\ UNCHANGED <<row, there, zone, jobs, live, made, doubt, late>>

RearmAll(c) == call[c].pc = "list" /\ Lists(c, "rearm", Ids)

\* deleteServer has stopped the container and lists the schedules
DeleteServer(c) == call[c].pc = "idle" /\ there /\ Lists(c, "remove", Own)

\* its loop: deleteSchedule of the next one, or on to the transaction
DeleteNext(c) ==
  /\ call[c].pc = "next" /\ call[c].op = "remove"
  /\ IF call[c].todo = {}
     THEN call' = [call EXCEPT ![c].pc = "cascade"] /\ UNCHANGED <<jobs, live, doubt>>
     ELSE \E s \in call[c].todo :
            /\ Disarm(s.id)
            /\ call' = [call EXCEPT ![c].pc = "delete", ![c].now = {s},
                                    ![c].todo = @ \ {s}]
  /\ UNCHANGED <<row, there, zone, made, raced, late>>

\* the transaction deletes every row of the server, and stops no job
Cascade(c) ==
  /\ call[c].pc = "cascade"
  /\ row' = [i \in Ids |-> IF i \in Own /\ Exists(i) THEN "gone" ELSE row[i]]
  /\ there' = FALSE
  /\ call' = [call EXCEPT ![c] = Idle]
  /\ UNCHANGED <<zone, jobs, live, made, raced, doubt, late>>

-----------------------------------------------------------------------------
Requests(c) ==
  \/ SetTimezone(c)
  \/ DeleteServer(c)
  \/ \E i \in Ids : \/ CreateSchedule(c, i) \/ DeleteSchedule(c, i)
                    \/ \E e \in {"on", "off"} : SetEnabled(c, i, e)
Resumes(c) == \/ Arm(c) \/ GoOn(c) \/ SelectRow(c) \/ DeleteRow(c) \/ RearmAll(c)
              \/ DeleteNext(c) \/ Cascade(c)

Next == \E c \in Calls : Requests(c) \/ Resumes(c)

Spec == Init /\ [][Next]_schedulerVars

-----------------------------------------------------------------------------
(* Properties *)

(* A job that fires though the map does not know it, which nothing can     *)
(* stop any more, comes from two overlapping requests on its schedule and  *)
(* from nothing else: neither from re-arming nor from a sequence of calls. *)
OrphansAreRaced == \A j \in live : jobs[j.id] = j \/ j.id \in raced

(* A schedule no request works on is armed exactly when its row is         *)
(* enabled, and in the zone of the settings once every change of the zone  *)
(* has read the table, overlapping requests or not.  What is excepted is   *)
(* named: its job was last armed, or left stopped, from a row that had     *)
(* changed meanwhile (rearmAll's list, schedule()'s await); it was armed   *)
(* between a deletion's stop and the end of its row; or it was created     *)
(* after deleteServer listed the schedules, whose transaction then took    *)
(* the row alone.  The first two need requests that overlap on it.         *)
QuietIsInStep ==
  \A i \in Ids \ late :
    /\ doubt[i] # "none" => i \in raced
    /\ doubt[i] = "none" /\ (\A c \in Calls : i \notin Touched(c))
         => /\ row[i] = "on" <=> jobs[i] # NoJob
            /\ jobs[i] \in live \/ jobs[i] = NoJob
            /\ \/ jobs[i] = NoJob
               \/ jobs[i].zone = zone
               \/ \E c \in Calls : call[c].pc = "list"
=============================================================================

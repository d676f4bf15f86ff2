-------------------------- MODULE SchedulerProofs --------------------------
(***************************************************************************)
(* The armed jobs and the table, for any number of requests, schedules and *)
(* time zones: the types, that a job nobody can stop comes from two        *)
(* overlapping requests on its schedule, and that a schedule at rest is    *)
(* armed exactly when its row is enabled, but for the named exceptions.    *)
(*                                                                         *)
(* Between a request's steps a schedule is out of step.  The invariant     *)
(* says that somebody then has it in hand: whoever wrote its row is about  *)
(* to read it again, whoever stopped its job is about to arm one or to     *)
(* delete the row, whoever changed the zone is about to list it.  What two *)
(* requests work on is raced, and where it is not the rows are as the      *)
(* request read them.                                                      *)
(***************************************************************************)
EXTENDS Scheduler, TLAPS

CallRecords == [op : {"none", "create", "toggle", "delete", "rearm", "remove"},
                pc : {"idle", "select", "arm", "delete", "list", "next", "cascade"},
                now : SUBSET Snapshot, todo : SUBSET Snapshot]

IdsOf(S) == {s.id : s \in S}

\* A request works on one schedule at a time; a re-arming and deleteServer have
\* more on their lists.
Shaped(r) ==
  /\ r.pc \in {"idle", "list", "next", "cascade"} => r.now = {}
  /\ r.pc \in {"idle", "list", "select", "cascade"} => r.todo = {}
  /\ r.pc \in {"select", "arm", "delete"} => \E s \in Snapshot : r.now = {s}
  /\ r.pc = "delete" /\ r.op # "remove" => r.todo = {}
  /\ r.op = "remove" => r.pc \in {"next", "delete", "cascade"}
  /\ r.pc = "cascade" => r.op = "remove"

Shapes == \A c \in Calls : Shaped(call[c])

\* What two requests work on is raced.
Apart == \A c, d \in Calls : c # d => Touched(c) \cap Touched(d) \subseteq raced

\* A job is registered under its own schedule, and fires.
Registered == \A i \in Ids : jobs[i] # NoJob => jobs[i].id = i /\ jobs[i] \in live

\* What a request has of a schedule that nobody else works on.
Current(c) ==
  /\ \A s \in call[c].now : call[c].pc = "arm" =>
       /\ s.id \notin raced => jobs[s.id] = NoJob
       /\ s.id \notin raced \cup late => row[s.id] = "on"
  /\ \A s \in call[c].todo :
       call[c].op # "remove" /\ s.id \notin raced \cup late => (s.on <=> row[s.id] = "on")

AllCurrent == \A c \in Calls : Current(c)

\* What deleteServer has not listed was created later.
Listed == \A c \in Calls : PastItsList(c) =>
            \A i \in Own : Exists(i) => i \in late \/ i \in Touched(c)

\* What is odd about a job comes from an overlap.
Doubted == \A i \in Ids \ late : doubt[i] # "none" => i \in raced

Holds(c, i, P) == call[c].pc \in P /\ i \in IdsOf(call[c].now)

\* Where the two do not agree somebody is about to see to it.
InHand(i) ==
  /\ row[i] = "on" /\ jobs[i] = NoJob
       => \E d \in Calls : Holds(d, i, {"select", "arm", "delete"})
  /\ row[i] # "on" /\ jobs[i] # NoJob
       => row[i] = "off" /\ \E d \in Calls : Holds(d, i, {"select"})
  /\ jobs[i] # NoJob /\ jobs[i].zone # zone
       => \E d \in Calls : \/ call[d].pc = "list"
                           \/ i \in IdsOf(call[d].todo)
                           \/ Holds(d, i, {"select"})
  /\ jobs[i] # NoJob => \A d \in Calls : ~Holds(d, i, {"delete"})

AllInHand == \A i \in Ids \ late : doubt[i] = "none" => InHand(i)

IInv == /\ TypeOK /\ Shapes /\ Apart /\ Registered /\ AllCurrent
        /\ OrphansAreRaced /\ Listed /\ Doubted /\ AllInHand

-----------------------------------------------------------------------------
(* Facts about one state *)

\* A job of the map is told from the mark of an empty place.
LEMMA NoJobIsNoJob == NoJob \notin Job
  BY DEF NoJob, Job

\* What a request touches are ids.
LEMMA TouchedIds ==
  ASSUME TypeOK, NEW c \in Calls
  PROVE  Touched(c) \subseteq Ids /\ Others(c) \subseteq Ids
  <1>1. \A d \in Calls : call[d].now \subseteq Snapshot /\ call[d].todo \subseteq Snapshot
    BY DEF TypeOK
  <1>2. \A d \in Calls : Touched(d) \subseteq Ids
    BY <1>1 DEF Touched, Snapshot
  <1>3. QED
    BY <1>2 DEF Others

\* What the others touch, written out.
LEMMA OthersTouch ==
  ASSUME NEW c \in Calls, NEW i
  PROVE  i \in Others(c) <=> \E d \in Calls : d # c /\ i \in Touched(d)
  BY DEF Others

\* What a request has in hand or on its list it touches.
LEMMA HeldIsTouched ==
  ASSUME NEW c \in Calls, NEW i
  PROVE  Touched(c) = IdsOf(call[c].now) \cup IdsOf(call[c].todo)
  BY DEF Touched, IdsOf

\* IInv is strong enough for the second property.
LEMMA RestIsQuiet == IInv => QuietIsInStep
  <1> SUFFICES ASSUME IInv, NEW i \in Ids \ late
               PROVE  /\ doubt[i] # "none" => i \in raced
                      /\ doubt[i] = "none" /\ (\A c \in Calls : i \notin Touched(c))
                           => /\ row[i] = "on" <=> jobs[i] # NoJob
                              /\ jobs[i] \in live \/ jobs[i] = NoJob
                              /\ \/ jobs[i] = NoJob
                                 \/ jobs[i].zone = zone
                                 \/ \E c \in Calls : call[c].pc = "list"
    BY DEF QuietIsInStep
  <1>1. doubt[i] # "none" => i \in raced
    BY DEF IInv, Doubted
  <1>2. ASSUME doubt[i] = "none", \A c \in Calls : i \notin Touched(c)
        PROVE  /\ row[i] = "on" <=> jobs[i] # NoJob
               /\ jobs[i] \in live \/ jobs[i] = NoJob
               /\ \/ jobs[i] = NoJob
                  \/ jobs[i].zone = zone
                  \/ \E c \in Calls : call[c].pc = "list"
    <2>1. InHand(i)
      BY <1>2 DEF IInv, AllInHand
    <2>2. \A c \in Calls : i \notin IdsOf(call[c].now) /\ i \notin IdsOf(call[c].todo)
      BY <1>2, HeldIsTouched
    <2>3. QED
      BY <2>1, <2>2 DEF InHand, Holds, IInv, Registered
  <1>3. QED
    BY <1>1, <1>2

-----------------------------------------------------------------------------
(* A step of one request that works on the ids W *)

\* Only the request c changes, and of the table and the map only what is in W,
\* with the rows deleteServer has not listed; who else is at work on W is raced.
Works(c, W) ==
  /\ \A d \in Calls \ {c} : call'[d] = call[d]
  /\ Touched(c)' \subseteq W
  /\ raced \subseteq raced' /\ late \subseteq late'
  /\ W \cap Others(c) \subseteq raced'
  /\ \A i \in Ids \ W : /\ jobs'[i] = jobs[i] /\ doubt'[i] = doubt[i]
                        /\ row'[i] = row[i] \/ i \in late'
  /\ \A i \in Own : Exists(i)' => \/ Exists(i)
                                  \/ i \in late'
                                  \/ \A d \in Calls : ~PastItsList(d)

\* The other requests touch what they touched.
LEMMA OthersStay ==
  ASSUME NEW c \in Calls, NEW W, Works(c, W), NEW d \in Calls, d # c
  PROVE  call'[d] = call[d] /\ Touched(d)' = Touched(d)
  BY DEF Works, Touched

\* Whoever shares an id with the request is still raced on it.
LEMMA StayApart ==
  ASSUME Apart, NEW c \in Calls, NEW W, Works(c, W)
  PROVE  Apart'
  <1> SUFFICES ASSUME NEW d \in Calls, NEW e \in Calls, d # e,
                      NEW i, i \in Touched(d)', i \in Touched(e)'
               PROVE  i \in raced'
    BY DEF Apart
  <1>1. CASE d # c /\ e # c
    <2>1. i \in Touched(d) /\ i \in Touched(e)
      BY <1>1, OthersStay
    <2>2. QED
      BY <2>1 DEF Apart, Works
  <1>2. CASE d = c
    <2>1. i \in W /\ i \in Touched(e)
      BY <1>2, OthersStay DEF Works
    <2>2. QED
      BY <2>1, <1>2, OthersTouch DEF Works
  <1>3. CASE e = c
    <2>1. i \in W /\ i \in Touched(d)
      BY <1>3, OthersStay DEF Works
    <2>2. QED
      BY <2>1, <1>3, OthersTouch DEF Works
  <1>4. QED
    BY <1>1, <1>2, <1>3

\* What the others know of a schedule is as current as it was.
LEMMA StayCurrent ==
  ASSUME TypeOK, AllCurrent, NEW c \in Calls, NEW W, Works(c, W), Current(c)'
  PROVE  AllCurrent'
  <1> SUFFICES ASSUME NEW d \in Calls, d # c
               PROVE  Current(d)'
    BY DEF AllCurrent
  <1>1. call'[d] = call[d]
    BY OthersStay
  <1>2. ASSUME NEW s \in call[d].now \cup call[d].todo, s.id \notin raced'
        PROVE  /\ s.id \notin raced /\ jobs'[s.id] = jobs[s.id]
               /\ s.id \notin late' => s.id \notin late /\ row'[s.id] = row[s.id]
    <2>1. s.id \in Touched(d)
      BY DEF Touched
    <2>2. s.id \in Ids
      BY <2>1, TouchedIds
    <2>3. s.id \notin W
      BY <1>2, <2>1, OthersTouch DEF Works
    <2>4. QED
      BY <1>2, <2>2, <2>3 DEF Works
  <1>3. Current(d)
    BY DEF AllCurrent
  <1>4. QED
    BY <1>1, <1>2, <1>3 DEF Current

\* The others' lists of the server's schedules are as complete as they were.
LEMMA StayListed ==
  ASSUME Listed, NEW c \in Calls, NEW W, Works(c, W),
         PastItsList(c)' => \A i \in Own : Exists(i)' => i \in late' \/ i \in Touched(c)'
  PROVE  Listed'
  <1> SUFFICES ASSUME NEW d \in Calls, d # c, PastItsList(d)',
                      NEW i \in Own, Exists(i)', i \notin late'
               PROVE  i \in Touched(d)'
    BY DEF Listed
  <1>1. PastItsList(d) /\ Touched(d)' = Touched(d)
    BY OthersStay DEF PastItsList
  <1>2. Exists(i) /\ i \notin late
    BY <1>1 DEF Works
  <1>3. QED
    BY <1>1, <1>2 DEF Listed

\* A schedule that is as it was is in hand as it was, if the request keeps what
\* it had of it and does not begin to delete it.
LEMMA HandStays ==
  ASSUME NEW c \in Calls, \A d \in Calls \ {c} : call'[d] = call[d],
         NEW i \in Ids, row'[i] = row[i], jobs'[i] = jobs[i], InHand(i),
         Holds(c, i, {"select", "arm", "delete"}) => Holds(c, i, {"select", "arm", "delete"})',
         Holds(c, i, {"select"}) => Holds(c, i, {"select"})',
         Holds(c, i, {"delete"})' => Holds(c, i, {"delete"}),
         i \in IdsOf(call[c].todo) => i \in IdsOf(call[c].todo)',
         \/ call'[c].pc = "list"
         \/ call[c].pc # "list" /\ zone' = zone
  PROVE  InHand(i)'
  <1>1. ASSUME NEW d \in Calls
        PROVE  /\ Holds(d, i, {"select", "arm", "delete"}) => Holds(d, i, {"select", "arm", "delete"})'
               /\ Holds(d, i, {"select"}) => Holds(d, i, {"select"})'
               /\ Holds(d, i, {"delete"})' => Holds(d, i, {"delete"})
               /\ i \in IdsOf(call[d].todo) => i \in IdsOf(call[d].todo)'
    <2>1. CASE d = c
      BY <2>1
    <2>2. CASE d # c
      BY <2>2 DEF Holds, IdsOf
    <2>3. QED
      BY <2>1, <2>2
  <1>2. row'[i] = "on" /\ jobs'[i] = NoJob
          => \E d \in Calls : Holds(d, i, {"select", "arm", "delete"})'
    BY <1>1 DEF InHand
  <1>3. row'[i] # "on" /\ jobs'[i] # NoJob
          => row'[i] = "off" /\ \E d \in Calls : Holds(d, i, {"select"})'
    BY <1>1 DEF InHand
  <1>4. jobs'[i] # NoJob /\ jobs'[i].zone # zone'
          => \E d \in Calls : \/ call'[d].pc = "list"
                              \/ i \in IdsOf(call[d].todo)'
                              \/ Holds(d, i, {"select"})'
    <2>1. CASE call'[c].pc = "list"
      BY <2>1
    <2>2. CASE call[c].pc # "list" /\ zone' = zone
      <3>1. \A d \in Calls : call[d].pc = "list" => call'[d].pc = "list"
        BY <2>2
      <3>2. QED
        BY <2>2, <3>1, <1>1 DEF InHand
    <2>3. QED
      BY <2>1, <2>2
  <1>5. jobs'[i] # NoJob => \A d \in Calls : ~Holds(d, i, {"delete"})'
    BY <1>1 DEF InHand
  <1>6. QED
    BY <1>2, <1>3, <1>4, <1>5 DEF InHand, Holds

\* So it is with every schedule outside W.
LEMMA OutsideInHand ==
  ASSUME AllInHand, NEW c \in Calls, NEW W, Works(c, W), Touched(c) \subseteq W,
         \/ call'[c].pc = "list"
         \/ call[c].pc # "list" /\ zone' = zone,
         NEW i \in Ids \ late', i \notin W, doubt'[i] = "none"
  PROVE  InHand(i)'
  <1>1. InHand(i) /\ row'[i] = row[i] /\ jobs'[i] = jobs[i]
    BY DEF AllInHand, Works
  <1>2. i \notin IdsOf(call[c].now) /\ i \notin IdsOf(call[c].todo)
    BY HeldIsTouched
  <1>3. i \notin IdsOf(call'[c].now)
    BY DEF Works, Touched, IdsOf
  <1>4. ~Holds(c, i, {"delete"})'
    BY <1>3 DEF Holds, IdsOf
  <1>5. \A d \in Calls \ {c} : call'[d] = call[d]
    BY DEF Works
  <1>6. QED
    BY <1>1, <1>2, <1>4, <1>5, HandStays DEF Holds

\* What is left to show of such a step: what it leaves on the ids it worked on.
LEMMA WorkKeepsInv ==
  ASSUME IInv, NEW c \in Calls, NEW W, Works(c, W), Touched(c) \subseteq W,
         \/ call'[c].pc = "list"
         \/ call[c].pc # "list" /\ zone' = zone,
         TypeOK', Shaped(call'[c]), Registered', OrphansAreRaced', Current(c)',
         PastItsList(c)' => \A i \in Own : Exists(i)' => i \in late' \/ i \in Touched(c)',
         \A i \in (Ids \ late') \cap W : doubt'[i] # "none" => i \in raced',
         \A i \in (Ids \ late') \cap W : doubt'[i] = "none" => InHand(i)'
  PROVE  IInv'
  <1>1. Shapes'
    BY OthersStay DEF IInv, Shapes
  <1>2. Apart'
    BY StayApart DEF IInv
  <1>3. AllCurrent'
    BY StayCurrent DEF IInv
  <1>4. Listed'
    BY StayListed DEF IInv
  <1>5. Doubted'
    BY DEF IInv, Doubted, Works
  <1>6. AllInHand'
    <2> SUFFICES ASSUME NEW i \in Ids \ late', doubt'[i] = "none"
                 PROVE  InHand(i)'
      BY DEF AllInHand
    <2>1. CASE i \in W
      BY <2>1
    <2>2. CASE i \notin W
      BY <2>2, OutsideInHand DEF IInv
    <2>3. QED
      BY <2>1, <2>2
  <1>7. QED
    BY <1>1, <1>2, <1>3, <1>4, <1>5, <1>6 DEF IInv

\* A request that is resumed works on what it touched.
LEMMA OwnWork ==
  ASSUME Apart, NEW c \in Calls
  PROVE  Touched(c) \cap Others(c) \subseteq raced
  BY OthersTouch DEF Apart

\* The record of a request that has nothing to do.
LEMMA IdleFacts ==
  Idle \in CallRecords /\ Shaped(Idle) /\ Idle.now = {} /\ Idle.todo = {} /\ Idle.pc = "idle"
    /\ Idle.op = "none"
  BY DEF Idle, CallRecords, Shaped

-----------------------------------------------------------------------------
(* Stopping and scheduling *)

\* A stopped job is in neither the map nor the jobs that fire.
LEMMA StopJobStops ==
  ASSUME TypeOK, Registered, OrphansAreRaced, NEW i \in Ids, StopJob(i), raced \subseteq raced'
  PROVE  /\ jobs' \in [Ids -> Job \cup {NoJob}] /\ live' \subseteq Job
         /\ Registered' /\ OrphansAreRaced'
         /\ jobs'[i] = NoJob
         /\ \A k \in Ids \ {i} : jobs'[k] = jobs[k]
  <1>1. /\ jobs' \in [Ids -> Job \cup {NoJob}] /\ live' \subseteq Job
        /\ jobs'[i] = NoJob
        /\ \A k \in Ids \ {i} : jobs'[k] = jobs[k]
    BY DEF StopJob, TypeOK
  <1>2. Registered'
    BY <1>1 DEF StopJob, Registered
  <1>3. ASSUME NEW j \in live'
        PROVE  jobs'[j.id] = j \/ j.id \in raced'
    <2>1. j \in live /\ j # jobs[i] /\ j.id \in Ids
      BY <1>3 DEF StopJob, TypeOK, Job
    <2>2. QED
      BY <2>1, <1>1 DEF OrphansAreRaced
  <1>4. QED
    BY <1>1, <1>2, <1>3 DEF OrphansAreRaced

\* Nothing is wrong with a schedule whose job was stopped, if its row is not
\* enabled or somebody is about to arm it or to delete it.
LEMMA StoppedIsInHand ==
  ASSUME NEW i \in Ids, jobs'[i] = NoJob,
         row'[i] = "on" => \E d \in Calls : Holds(d, i, {"select", "arm", "delete"})'
  PROVE  InHand(i)'
  BY DEF InHand, Holds, IdsOf

\* schedule() up to its await, of a row that is as the request read it.
LEMMA ScheduleKeepsInv ==
  ASSUME IInv, NEW c \in Calls, NEW s \in Snapshot, NEW todo \in SUBSET Snapshot,
         Schedule(c, s, todo), UNCHANGED <<row, there, zone, made, raced, late>>,
         call[c].pc # "list", call[c].op # "remove",
         Touched(c) = {t.id : t \in {s} \cup todo}, \A t \in call[c].now : t.id = s.id,
         \A t \in {s} \cup todo : t.id \notin raced \cup late => (t.on <=> row[t.id] = "on")
  PROVE  IInv'
  <1> DEFINE W == Touched(c)
  <1>1. s.id \in Ids /\ StopJob(s.id)
    BY DEF Snapshot, Schedule
  <1>2. /\ jobs' \in [Ids -> Job \cup {NoJob}] /\ live' \subseteq Job
        /\ Registered' /\ OrphansAreRaced'
        /\ jobs'[s.id] = NoJob
        /\ \A k \in Ids \ {s.id} : jobs'[k] = jobs[k]
    BY <1>1, StopJobStops DEF IInv
  <1>3. /\ call'[c] \in CallRecords
        /\ call'[c].pc = IF s.on THEN "arm" ELSE "next"
        /\ call'[c].now = IF s.on THEN {s} ELSE {}
        /\ call'[c].todo = todo
        /\ call'[c].op = call[c].op
        /\ \A d \in Calls \ {c} : call'[d] = call[d]
        /\ call' \in [Calls -> CallRecords]
    <2> DEFINE r == [call[c] EXCEPT !.pc = IF s.on THEN "arm" ELSE "next",
                                   !.now = IF s.on THEN {s} ELSE {},
                                   !.todo = todo]
    <2>1. call \in [Calls -> CallRecords]
      BY DEF IInv, TypeOK, CallRecords
    <2>2. call' = [call EXCEPT ![c] = r]
      BY <2>1 DEF Schedule
    <2>3. /\ r \in CallRecords
          /\ r.pc = IF s.on THEN "arm" ELSE "next"
          /\ r.now = IF s.on THEN {s} ELSE {}
          /\ r.todo = todo
          /\ r.op = call[c].op
      BY <2>1 DEF CallRecords
    <2> HIDE DEF r
    <2>4. QED
      BY <2>1, <2>2, <2>3
  <1>4. /\ doubt' \in [Ids -> {"none", "old row", "being deleted"}]
        /\ doubt'[s.id] = IF row[s.id] = "on" /\ ~s.on THEN "old row" ELSE "none"
        /\ \A k \in Ids \ {s.id} : doubt'[k] = doubt[k]
    BY <1>1 DEF IInv, TypeOK, Schedule
  <1>5. TypeOK'
    BY <1>2, <1>3, <1>4 DEF IInv, TypeOK, CallRecords
  <1>6. Works(c, W)
    <2>1. Touched(c)' \subseteq W
      BY <1>3 DEF Touched
    <2>2. s.id \in W
      OBVIOUS
    <2>3. W \cap Others(c) \subseteq raced
      BY OwnWork DEF IInv
    <2>4. QED
      BY <1>2, <1>3, <1>4, <2>1, <2>2, <2>3 DEF Works, Exists
  <1>7. Shaped(call'[c]) /\ ~PastItsList(c)'
    BY <1>3 DEF Shaped, PastItsList
  <1>8. Current(c)'
    BY <1>2, <1>3 DEF Current
  <1>9. ASSUME NEW i \in (Ids \ late') \cap W, doubt'[i] # "none"
        PROVE  i \in raced'
    BY <1>4, <1>9 DEF IInv, Doubted
  <1>10. ASSUME NEW i \in (Ids \ late') \cap W, doubt'[i] = "none"
         PROVE  InHand(i)'
    <2>1. CASE i = s.id
      <3>1. row'[i] = "on" => Holds(c, i, {"select", "arm", "delete"})'
        BY <2>1, <1>3, <1>4, <1>10 DEF Holds, IdsOf
      <3>2. QED
        BY <2>1, <3>1, <1>2, StoppedIsInHand
    <2>2. CASE i # s.id
      <3>1. InHand(i) /\ row'[i] = row[i] /\ jobs'[i] = jobs[i]
        BY <2>2, <1>2, <1>4, <1>10 DEF IInv, AllInHand
      <3>2. i \notin IdsOf(call[c].now) /\ i \notin IdsOf(call'[c].now)
        BY <2>2, <1>3 DEF IdsOf
      <3>3. i \in IdsOf(call'[c].todo)
        BY <2>2, <1>3 DEF IdsOf
      <3>4. ~Holds(c, i, {"delete"})' /\ i \in IdsOf(call[c].todo)'
        BY <3>2, <3>3 DEF Holds, IdsOf
      <3>5. QED
        BY <3>1, <3>2, <3>4, <1>3, HandStays DEF Holds
    <2>3. QED
      BY <2>1, <2>2
  <1>11. QED
    BY <1>2, <1>3, <1>5, <1>6, <1>7, <1>8, <1>9, <1>10, WorkKeepsInv

-----------------------------------------------------------------------------
(* One lemma per step of a request *)

\* The new job is the only one of its schedule: whoever has not raced finds the
\* place empty.
LEMMA ArmKeepsInv ==
  ASSUME IInv, NEW c \in Calls, Arm(c)
  PROVE  IInv'
  <1>1. call \in [Calls -> CallRecords] /\ Shaped(call[c]) /\ Current(c) /\ TypeOK
    BY DEF IInv, TypeOK, CallRecords, Shapes, AllCurrent
  <1>2. PICK s \in Snapshot : call[c].now = {s}
    BY <1>1 DEF Arm, Shaped
  <1> DEFINE job == [id |-> s.id, n |-> made + 1, zone |-> zone]
             odd == IF row[s.id] # "on" THEN "old row"
                    ELSE IF BeingDeleted(s.id) THEN "being deleted" ELSE "none"
             W == Touched(c)
  <1>3. s.id \in Ids /\ job \in Job /\ made + 1 \in 0..MaxJobs /\ job.id = s.id /\ job.zone = zone
    <2>1. s.id \in Ids /\ zone \in Zones
      BY <1>1 DEF Snapshot, TypeOK
    <2>2. made \in 0..MaxJobs /\ made < MaxJobs
      BY <1>1 DEF Arm, TypeOK
    <2>3. made + 1 \in 0..MaxJobs
      BY <2>2, SchedulerAssumption
    <2>4. QED
      BY <2>1, <2>3 DEF Job
  <1>4. /\ jobs' = [jobs EXCEPT ![s.id] = job]
        /\ live' = live \cup {job}
        /\ made' = made + 1
        /\ doubt' = [doubt EXCEPT ![s.id] = odd]
        /\ UNCHANGED <<row, there, zone, raced, late>>
    BY <1>2 DEF Arm
  <1>5. /\ call' \in [Calls -> CallRecords]
        /\ call'[c].pc = "next" /\ call'[c].now = {} /\ call'[c].todo = call[c].todo
        /\ call'[c].op = call[c].op
        /\ \A d \in Calls \ {c} : call'[d] = call[d]
    BY <1>1 DEF Arm, CallRecords
  <1>6. odd \in {"none", "old row", "being deleted"}
    OBVIOUS
  <1>7. /\ doubt' \in [Ids -> {"none", "old row", "being deleted"}]
        /\ doubt'[s.id] = odd
        /\ \A k \in Ids \ {s.id} : doubt'[k] = doubt[k] /\ jobs'[k] = jobs[k]
    BY <1>1, <1>3, <1>4, <1>6 DEF TypeOK
  <1>8. jobs'[s.id] = job
    BY <1>1, <1>3, <1>4 DEF TypeOK
  <1>9. s.id \in W /\ call[c].pc = "arm" /\ call[c].op # "remove"
    BY <1>1, <1>2 DEF Touched, Shaped, Arm
  <1>10. ASSUME s.id \notin late', odd # "none"
         PROVE  s.id \in raced'
    <2>1. CASE row[s.id] # "on"
      BY <2>1, <1>1, <1>2, <1>4, <1>9, <1>10 DEF Current
    <2>2. CASE BeingDeleted(s.id)
      <3>1. PICK d \in Calls : call[d].pc = "delete" /\ s.id \in {t.id : t \in call[d].now}
        BY <2>2 DEF BeingDeleted
      <3>2. d # c /\ s.id \in Touched(d)
        BY <3>1, <1>9 DEF Touched
      <3>3. QED
        BY <3>2, <1>4, <1>9 DEF IInv, Apart
    <2>3. QED
      BY <2>1, <2>2, <1>10
  <1>11. ASSUME odd = "none"
         PROVE  InHand(s.id)'
    <2>1. row'[s.id] = "on" /\ ~BeingDeleted(s.id)
      BY <1>4, <1>11
    <2>2. \A d \in Calls : ~Holds(d, s.id, {"delete"})'
      BY <2>1, <1>5 DEF BeingDeleted, Holds, IdsOf
    <2>3. QED
      BY <2>1, <2>2, <1>3, <1>4, <1>8, NoJobIsNoJob DEF InHand, Holds
  <1> HIDE DEF job, odd
  <1>12. TypeOK'
    BY <1>1, <1>3, <1>4, <1>5, <1>7 DEF TypeOK, CallRecords
  <1>13. Works(c, W)
    <2>1. Touched(c)' \subseteq W
      BY <1>5 DEF Touched
    <2>2. W \cap Others(c) \subseteq raced
      BY OwnWork DEF IInv
    <2>3. QED
      BY <1>4, <1>5, <1>7, <1>9, <2>1, <2>2 DEF Works, Exists
  <1>14. Shaped(call'[c]) /\ Current(c)' /\ ~PastItsList(c)'
    <2>1. Current(c)'
      BY <1>1, <1>4, <1>5 DEF Current
    <2>2. QED
      BY <2>1, <1>5, <1>9 DEF Shaped, PastItsList
  <1>15. Registered'
    BY <1>1, <1>3, <1>4 DEF IInv, Registered, TypeOK
  <1>16. OrphansAreRaced'
    <2> SUFFICES ASSUME NEW j \in live', j.id \notin raced
                 PROVE  jobs'[j.id] = j
      BY <1>4 DEF OrphansAreRaced
    <2>1. CASE j = job
      BY <2>1, <1>3, <1>8
    <2>2. CASE j \in live /\ j # job
      <3>1. jobs[j.id] = j /\ j \in Job /\ j.id \in Ids
        BY <2>2, <1>1 DEF IInv, OrphansAreRaced, TypeOK, Job
      <3>2. j.id # s.id
        BY <3>1, <1>1, <1>2, <1>9, NoJobIsNoJob DEF Current
      <3>3. QED
        BY <3>1, <3>2, <1>7
    <2>3. QED
      BY <2>1, <2>2, <1>4
  <1>17. ASSUME NEW i \in (Ids \ late') \cap W, doubt'[i] # "none"
         PROVE  i \in raced'
    BY <1>4, <1>7, <1>10, <1>17 DEF IInv, Doubted
  <1>18. ASSUME NEW i \in (Ids \ late') \cap W, doubt'[i] = "none"
         PROVE  InHand(i)'
    <2>1. CASE i = s.id
      BY <2>1, <1>7, <1>11, <1>18
    <2>2. CASE i # s.id
      <3>1. InHand(i) /\ row'[i] = row[i] /\ jobs'[i] = jobs[i]
        BY <2>2, <1>4, <1>7, <1>18 DEF IInv, AllInHand
      <3>2. i \notin IdsOf(call[c].now)
        BY <2>2, <1>2 DEF IdsOf
      <3>3. ~Holds(c, i, {"delete"})' /\ IdsOf(call[c].todo)' = IdsOf(call[c].todo)
        BY <1>5 DEF Holds, IdsOf
      <3>4. QED
        BY <3>1, <3>2, <3>3, <1>4, <1>5, <1>9, HandStays DEF Holds
    <2>3. QED
      BY <2>1, <2>2
  <1>19. call[c].pc # "list" /\ zone' = zone
    BY <1>4, <1>9
  <1>20. QED
    BY <1>12, <1>13, <1>14, <1>15, <1>16, <1>17, <1>18, <1>19, WorkKeepsInv

\* A request that lets go of everything it worked on changes nothing else.
LEMMA LetGoKeepsInv ==
  ASSUME IInv, NEW c \in Calls, call' = [call EXCEPT ![c] = Idle],
         UNCHANGED <<row, there, zone, jobs, live, made, raced, doubt, late>>,
         call[c].pc # "list",
         \A i \in Touched(c) \ late : doubt[i] = "none" => row[i] # "on" /\ jobs[i] = NoJob
  PROVE  IInv'
  <1>1. /\ call'[c] = Idle
        /\ \A d \in Calls \ {c} : call'[d] = call[d]
        /\ call' \in [Calls -> CallRecords]
    BY IdleFacts DEF IInv, TypeOK, CallRecords
  <1>2. TypeOK'
    BY <1>1 DEF IInv, TypeOK, CallRecords
  <1>3. Works(c, Touched(c))
    <2>1. Touched(c)' = {}
      BY <1>1, IdleFacts DEF Touched
    <2>2. QED
      BY <1>1, <2>1, OwnWork DEF Works, IInv, Exists
  <1>4. Shaped(call'[c]) /\ Current(c)' /\ ~PastItsList(c)'
    BY <1>1, IdleFacts DEF Current, PastItsList
  <1>5. Registered' /\ OrphansAreRaced'
    BY DEF IInv, Registered, OrphansAreRaced
  <1>6. \A i \in (Ids \ late') \cap Touched(c) : doubt'[i] # "none" => i \in raced'
    BY DEF IInv, Doubted
  <1>7. \A i \in (Ids \ late') \cap Touched(c) : doubt'[i] = "none" => InHand(i)'
    BY StoppedIsInHand
  <1>8. QED
    BY <1>2, <1>3, <1>4, <1>5, <1>6, <1>7, WorkKeepsInv

LEMMA GoOnKeepsInv ==
  ASSUME IInv, NEW c \in Calls, GoOn(c)
  PROVE  IInv'
  <1>1. call[c] \in CallRecords /\ call[c].pc = "next" /\ call[c].now = {} /\ Current(c)
          /\ call[c].op # "remove"
    BY DEF IInv, TypeOK, CallRecords, Shapes, Shaped, AllCurrent, GoOn
  <1>2. CASE call[c].todo = {}
    BY <1>1, <1>2, LetGoKeepsInv DEF GoOn, Touched
  <1>3. CASE call[c].todo # {}
    <2>1. PICK s \in call[c].todo : Schedule(c, s, call[c].todo \ {s})
      BY <1>3 DEF GoOn
    <2>2. s \in Snapshot /\ call[c].todo \ {s} \in SUBSET Snapshot
      BY <1>1 DEF CallRecords
    <2>3. Touched(c) = {t.id : t \in {s} \cup (call[c].todo \ {s})}
      BY <1>1 DEF Touched
    <2>4. \A t \in {s} \cup (call[c].todo \ {s}) :
            t.id \notin raced \cup late => (t.on <=> row[t.id] = "on")
      BY <1>1 DEF Current
    <2>5. QED
      BY <1>1, <2>1, <2>2, <2>3, <2>4, ScheduleKeepsInv DEF GoOn
  <1>4. QED
    BY <1>2, <1>3

LEMMA SelectRowKeepsInv ==
  ASSUME IInv, NEW c \in Calls, SelectRow(c)
  PROVE  IInv'
  <1>1. /\ call[c].pc = "select" /\ call[c].todo = {} /\ call[c].op # "remove"
        /\ \E s \in Snapshot : call[c].now = {s}
    BY DEF IInv, TypeOK, Shapes, Shaped, SelectRow
  <1>2. PICK s \in Snapshot : call[c].now = {s}
    BY <1>1
  <1>3. s.id \in Ids /\ Touched(c) = {s.id}
    BY <1>1, <1>2 DEF Snapshot, Touched
  <1>4. CASE ~Exists(s.id)
    <2>1. \A i \in Touched(c) \ late : doubt[i] = "none" => row[i] # "on" /\ jobs[i] = NoJob
      BY <1>3, <1>4 DEF Exists, IInv, AllInHand, InHand
    <2>2. QED
      BY <1>1, <1>2, <1>4, <2>1, LetGoKeepsInv DEF SelectRow
  <1>5. CASE Exists(s.id)
    <2> DEFINE t == [s EXCEPT !.on = row[s.id] = "on"]
    <2>1. t \in Snapshot /\ t.id = s.id /\ (t.on <=> row[s.id] = "on")
      BY DEF Snapshot
    <2>2. Schedule(c, t, {}) /\ UNCHANGED <<row, there, zone, made, raced, late>>
      BY <1>2, <1>5 DEF SelectRow
    <2> HIDE DEF t
    <2>3. Touched(c) = {u.id : u \in {t} \cup {}} /\ \A u \in call[c].now : u.id = t.id
      BY <1>2, <1>3, <2>1
    <2>4. QED
      BY <1>1, <2>1, <2>2, <2>3, ScheduleKeepsInv
  <1>6. QED
    BY <1>4, <1>5

\* The job was stopped before; whoever armed one since is named for it.
LEMMA DeleteRowKeepsInv ==
  ASSUME IInv, NEW c \in Calls, DeleteRow(c)
  PROVE  IInv'
  <1> DEFINE W == Touched(c)
  <1>1. /\ call[c].pc = "delete" /\ TypeOK /\ call \in [Calls -> CallRecords]
        /\ call[c].op # "remove" => call[c].todo = {}
        /\ \E s \in Snapshot : call[c].now = {s}
    BY DEF IInv, TypeOK, CallRecords, Shapes, Shaped, DeleteRow
  <1>2. PICK s \in Snapshot : call[c].now = {s}
    BY <1>1
  <1>3. s.id \in Ids /\ s.id \in W /\ IdsOf(call[c].now) = {s.id}
    BY <1>1, <1>2 DEF Snapshot, Touched, IdsOf
  <1>4. /\ row' \in [Ids -> {"new", "on", "off", "gone"}]
        /\ row'[s.id] = "gone"
        /\ \A i \in Ids \ {s.id} : row'[i] = row[i]
    BY <1>1, <1>2, <1>3 DEF DeleteRow, TypeOK
  <1>5. UNCHANGED <<there, zone, jobs, live, made, raced, doubt, late>>
    BY DEF DeleteRow
  <1>6. /\ call' \in [Calls -> CallRecords]
        /\ \A d \in Calls \ {c} : call'[d] = call[d]
        /\ call'[c].now = {} /\ call'[c].todo = call[c].todo
        /\ call'[c].pc # "delete" /\ call'[c].pc # "arm"
        /\ call[c].op = "remove" => call'[c].pc = "next" /\ call'[c].op = "remove"
        /\ call[c].op # "remove" => call'[c] = Idle
    <2> DEFINE r == IF call[c].op = "remove" THEN [call[c] EXCEPT !.pc = "next", !.now = {}]
                    ELSE Idle
    <2>1. call' = [call EXCEPT ![c] = r]
      BY DEF DeleteRow
    <2>2. r \in CallRecords /\ r.now = {} /\ r.pc # "delete" /\ r.pc # "arm"
      BY <1>1, IdleFacts DEF CallRecords
    <2>3. r.todo = call[c].todo
      BY <1>1, IdleFacts DEF CallRecords
    <2>4. /\ call[c].op = "remove" => r.pc = "next" /\ r.op = "remove"
          /\ call[c].op # "remove" => r = Idle
      BY <1>1 DEF CallRecords
    <2> HIDE DEF r
    <2>5. QED
      BY <1>1, <2>1, <2>2, <2>3, <2>4
  <1>7. TypeOK'
    BY <1>1, <1>4, <1>5, <1>6 DEF TypeOK, CallRecords
  <1>8. Works(c, W)
    <2>1. Touched(c)' \subseteq W
      BY <1>6 DEF Touched
    <2>2. W \cap Others(c) \subseteq raced
      BY OwnWork DEF IInv
    <2>3. \A i \in Own : Exists(i)' => Exists(i)
      BY <1>4, SchedulerAssumption DEF Exists
    <2>4. QED
      BY <1>3, <1>4, <1>5, <1>6, <2>1, <2>2, <2>3 DEF Works
  <1>9. Shaped(call'[c])
    <2>1. CASE call[c].op = "remove"
      BY <2>1, <1>6 DEF Shaped
    <2>2. CASE call[c].op # "remove"
      BY <2>2, <1>6, IdleFacts
    <2>3. QED
      BY <2>1, <2>2
  <1>10. Current(c)'
    BY <1>6, IdleFacts DEF Current
  <1>11. PastItsList(c)' => \A i \in Own : Exists(i)' => i \in late' \/ i \in Touched(c)'
    <2> SUFFICES ASSUME PastItsList(c)', NEW i \in Own, Exists(i)', i \notin late'
                 PROVE  i \in Touched(c)'
      OBVIOUS
    <2>1. PastItsList(c)
      BY <1>6, IdleFacts DEF PastItsList
    <2>2. i # s.id /\ Exists(i) /\ i \notin late
      BY <1>4, <1>5, SchedulerAssumption DEF Exists
    <2>3. i \in Touched(c)
      BY <2>1, <2>2 DEF IInv, Listed
    <2>4. i \in IdsOf(call'[c].todo)
      BY <1>3, <1>6, <2>2, <2>3, HeldIsTouched
    <2>5. QED
      BY <2>4 DEF Touched, IdsOf
  <1>12. Registered' /\ OrphansAreRaced'
    BY <1>5 DEF IInv, Registered, OrphansAreRaced
  <1>13. \A i \in (Ids \ late') \cap W : doubt'[i] # "none" => i \in raced'
    BY <1>5 DEF IInv, Doubted
  <1>14. ASSUME NEW i \in (Ids \ late') \cap W, doubt'[i] = "none"
         PROVE  InHand(i)'
    <2>1. InHand(i)
      BY <1>5, <1>14 DEF IInv, AllInHand
    <2>2. CASE i = s.id
      <3>1. jobs[i] = NoJob
        BY <2>1, <2>2, <1>1, <1>3 DEF InHand, Holds
      <3>2. QED
        BY <3>1, <2>2, <1>4, <1>5, StoppedIsInHand
    <2>3. CASE i # s.id
      <3>1. i \notin IdsOf(call[c].now)
        BY <2>3, <1>3
      <3>2. ~Holds(c, i, {"delete"})' /\ IdsOf(call[c].todo)' = IdsOf(call[c].todo)
        BY <1>6 DEF Holds, IdsOf
      <3>3. call[c].pc # "list" /\ row'[i] = row[i] /\ jobs'[i] = jobs[i] /\ zone' = zone
        BY <2>3, <1>1, <1>4, <1>5
      <3>4. QED
        BY <2>1, <3>1, <3>2, <3>3, <1>6, HandStays DEF Holds
    <2>4. QED
      BY <2>2, <2>3
  <1>15. call[c].pc # "list" /\ zone' = zone
    BY <1>1, <1>5
  <1>16. QED
    BY <1>7, <1>8, <1>9, <1>10, <1>11, <1>12, <1>13, <1>14, <1>15, WorkKeepsInv

\* A change of the zone is waited for from the moment it is made.
LEMMA SetTimezoneKeepsInv ==
  ASSUME IInv, NEW c \in Calls, SetTimezone(c)
  PROVE  IInv'
  <1>1. TypeOK /\ Shaped(call[c]) /\ call[c].pc = "idle" /\ Touched(c) = {}
    BY DEF IInv, Shapes, Shaped, SetTimezone, Touched
  <1>2. UNCHANGED <<row, there, jobs, live, made, raced, doubt, late>>
    BY DEF SetTimezone
  <1>3. /\ call'[c] \in CallRecords /\ call'[c].pc = "list" /\ call'[c].op = "rearm"
        /\ call'[c].now = {} /\ call'[c].todo = {}
        /\ \A d \in Calls \ {c} : call'[d] = call[d]
        /\ call' \in [Calls -> CallRecords]
    <2>1. [Idle EXCEPT !.op = "rearm", !.pc = "list"] \in CallRecords
      BY DEF Idle, CallRecords
    <2>2. QED
      BY <1>1, <2>1 DEF SetTimezone, TypeOK, CallRecords, Idle
  <1>4. TypeOK'
    <2>1. zone' \in Zones
      <3>1. zone \in 0..MaxZones /\ zone < MaxZones /\ zone' = zone + 1
        BY <1>1 DEF SetTimezone, TypeOK, Zones
      <3>2. QED
        BY <3>1, SchedulerAssumption DEF Zones
    <2>2. QED
      BY <1>1, <1>2, <1>3, <2>1 DEF TypeOK, CallRecords
  <1>5. Works(c, {})
    BY <1>2, <1>3 DEF Works, Touched, Exists
  <1>6. Shaped(call'[c]) /\ Current(c)' /\ ~PastItsList(c)'
    BY <1>3 DEF Shaped, Current, PastItsList
  <1>7. Registered' /\ OrphansAreRaced'
    BY <1>2 DEF IInv, Registered, OrphansAreRaced
  <1>8. QED
    BY <1>1, <1>3, <1>4, <1>5, <1>6, <1>7, WorkKeepsInv

\* What a listing holds: of every row that exists, whether it is enabled.
LEMMA RowsOfHolds ==
  ASSUME TypeOK, NEW S \in SUBSET Ids
  PROVE  /\ \A s \in RowsOf(S) : s \in Snapshot /\ Exists(s.id) /\ (s.on <=> row[s.id] = "on")
         /\ IdsOf(RowsOf(S)) = {i \in S : Exists(i)}
  <1>1. ASSUME NEW s \in RowsOf(S)
        PROVE  s \in Snapshot /\ Exists(s.id) /\ (s.on <=> row[s.id] = "on") /\ s.id \in S
    <2>1. PICK i \in S : Exists(i) /\ s = [id |-> i, on |-> row[i] = "on"]
      BY DEF RowsOf
    <2>2. (row[i] = "on") \in BOOLEAN /\ i \in Ids
      OBVIOUS
    <2>3. s.id = i /\ s.on = (row[i] = "on")
      BY <2>1
    <2>4. s \in Snapshot
      BY <2>1, <2>2 DEF Snapshot
    <2>5. QED
      BY <2>1, <2>3, <2>4
  <1>2. ASSUME NEW i \in S, Exists(i)
        PROVE  \E s \in RowsOf(S) : s.id = i
    <2>1. [id |-> i, on |-> row[i] = "on"] \in RowsOf(S)
      BY <1>2 DEF RowsOf
    <2>2. QED
      BY <2>1
  <1>3. QED
    BY <1>1, <1>2 DEF IdsOf

\* A request that has listed rows works on what it listed, as it is.
LEMMA ListsWorks ==
  ASSUME IInv, NEW c \in Calls, NEW theOp \in {"rearm", "remove"}, NEW S \in SUBSET Ids,
         Lists(c, theOp, S), call[c].now = {}, call[c].todo = {},
         theOp = "remove" => S = Own
  PROVE  /\ TypeOK' /\ Shaped(call'[c]) /\ Works(c, IdsOf(RowsOf(S))) /\ Current(c)'
         /\ Registered' /\ OrphansAreRaced'
         /\ PastItsList(c)' => \A i \in Own : Exists(i)' => i \in late' \/ i \in Touched(c)'
         /\ Touched(c) = {}
         /\ call'[c].pc = "next" /\ call'[c].now = {} /\ call'[c].todo = RowsOf(S)
         /\ UNCHANGED <<row, there, zone, jobs, live, made, doubt, late>>
         /\ raced \subseteq raced'
  <1> DEFINE L == IdsOf(RowsOf(S))
  <1>1. TypeOK /\ call \in [Calls -> CallRecords] /\ Touched(c) = {}
    BY DEF IInv, TypeOK, CallRecords, Touched
  <1>2. /\ UNCHANGED <<row, there, zone, jobs, live, made, doubt, late>>
        /\ raced' = raced \cup (L \cap Others(c))
    BY DEF Lists, IdsOf
  <1>3. RowsOf(S) \in SUBSET Snapshot /\ L = {i \in S : Exists(i)}
    BY <1>1, RowsOfHolds
  <1>4. /\ call' \in [Calls -> CallRecords] /\ call'[c].op = theOp
        /\ call'[c].pc = "next" /\ call'[c].now = {} /\ call'[c].todo = RowsOf(S)
        /\ \A d \in Calls \ {c} : call'[d] = call[d]
    <2> DEFINE r == [Idle EXCEPT !.op = theOp, !.pc = "next", !.todo = RowsOf(S)]
    <2>1. call' = [call EXCEPT ![c] = r]
      BY DEF Lists
    <2>2. /\ r \in CallRecords /\ r.op = theOp /\ r.pc = "next" /\ r.now = {}
          /\ r.todo = RowsOf(S)
      BY <1>3 DEF Idle, CallRecords
    <2> HIDE DEF r
    <2>3. QED
      BY <1>1, <2>1, <2>2
  <1>5. Touched(c)' = L
    BY <1>4 DEF Touched, IdsOf
  <1>6. TypeOK'
    BY <1>1, <1>2, <1>3, <1>4 DEF TypeOK, CallRecords
  <1>7. Works(c, L)
    BY <1>2, <1>4, <1>5 DEF Works, Exists
  <1>8. Shaped(call'[c])
    BY <1>4 DEF Shaped
  <1>9. Current(c)'
    <2>1. \A s \in RowsOf(S) : s.on <=> row[s.id] = "on"
      BY <1>1, RowsOfHolds
    <2>2. QED
      BY <1>2, <1>4, <2>1 DEF Current
  <1>10. Registered' /\ OrphansAreRaced'
    BY <1>2 DEF IInv, Registered, OrphansAreRaced
  <1>11. PastItsList(c)' => \A i \in Own : Exists(i)' => i \in late' \/ i \in Touched(c)'
    BY <1>2, <1>3, <1>4, <1>5 DEF PastItsList, Exists
  <1>12. QED
    BY <1>1, <1>2, <1>4, <1>6, <1>7, <1>8, <1>9, <1>10, <1>11

\* All rows are read at once, so whose job has an old zone is on the list, or
\* is about to be read again by whoever disabled it.
LEMMA RearmAllKeepsInv ==
  ASSUME IInv, NEW c \in Calls, RearmAll(c)
  PROVE  IInv'
  <1> DEFINE L == IdsOf(RowsOf(Ids))
  <1>1. /\ TypeOK /\ call[c].pc = "list" /\ call[c].now = {} /\ call[c].todo = {}
        /\ Lists(c, "rearm", Ids)
    BY DEF IInv, Shapes, Shaped, RearmAll
  <1>2. /\ TypeOK' /\ Shaped(call'[c]) /\ Works(c, L) /\ Current(c)'
        /\ Registered' /\ OrphansAreRaced'
        /\ PastItsList(c)' => \A i \in Own : Exists(i)' => i \in late' \/ i \in Touched(c)'
        /\ call'[c].pc = "next" /\ call'[c].now = {} /\ call'[c].todo = RowsOf(Ids)
        /\ UNCHANGED <<row, there, zone, jobs, live, made, doubt, late>>
        /\ raced \subseteq raced'
    BY <1>1, ListsWorks
  <1>3. L = {i \in Ids : Exists(i)} /\ L = IdsOf(call'[c].todo)
    BY <1>1, <1>2, RowsOfHolds
  <1> HIDE DEF L
  <1>4. Shapes'
    BY <1>2, OthersStay DEF IInv, Shapes
  <1>5. Apart' /\ AllCurrent' /\ Listed'
    BY <1>2, StayApart, StayCurrent, StayListed DEF IInv
  <1>6. Doubted'
    BY <1>2 DEF IInv, Doubted
  <1>7. AllInHand'
    <2> SUFFICES ASSUME NEW i \in Ids \ late', doubt'[i] = "none"
                 PROVE  InHand(i)'
      BY DEF AllInHand
    <2>1. InHand(i) /\ i \in Ids
      BY <1>2 DEF IInv, AllInHand
    <2>2. ASSUME NEW d \in Calls, NEW P \in {{"select", "arm", "delete"}, {"select"}, {"delete"}}
          PROVE  Holds(d, i, P) <=> Holds(d, i, P)'
      <3>1. CASE d = c
        BY <3>1, <1>1, <1>2 DEF Holds, IdsOf
      <3>2. CASE d # c
        <4>1. call'[d] = call[d]
          BY <3>2, <1>2, OthersStay
        <4>2. QED
          BY <4>1 DEF Holds, IdsOf
      <3>3. QED
        BY <3>1, <3>2
    <2>3. row'[i] = "on" /\ jobs'[i] = NoJob
            => \E d \in Calls : Holds(d, i, {"select", "arm", "delete"})'
      BY <2>1, <2>2, <1>2 DEF InHand
    <2>4. row'[i] # "on" /\ jobs'[i] # NoJob
            => row'[i] = "off" /\ \E d \in Calls : Holds(d, i, {"select"})'
      BY <2>1, <2>2, <1>2 DEF InHand
    <2>5. jobs'[i] # NoJob => \A d \in Calls : ~Holds(d, i, {"delete"})'
      BY <2>1, <2>2, <1>2 DEF InHand
    <2>6. jobs'[i] # NoJob /\ jobs'[i].zone # zone'
            => \E d \in Calls : \/ call'[d].pc = "list"
                                \/ i \in IdsOf(call[d].todo)'
                                \/ Holds(d, i, {"select"})'
      <3>1. CASE row[i] = "on"
        <4>1. i \in IdsOf(call[c].todo)'
          BY <3>1, <2>1, <1>3 DEF Exists, IdsOf
        <4>2. QED
          BY <4>1
      <3>2. CASE row[i] # "on"
        BY <3>2, <2>4, <1>2
      <3>3. QED
        BY <3>1, <3>2
    <2>7. QED
      BY <2>3, <2>4, <2>5, <2>6 DEF InHand, Holds
  <1>8. QED
    BY <1>2, <1>4, <1>5, <1>6, <1>7 DEF IInv

\* deleteServer's list changes nothing yet.
LEMMA DeleteServerKeepsInv ==
  ASSUME IInv, NEW c \in Calls, DeleteServer(c)
  PROVE  IInv'
  <1> DEFINE L == IdsOf(RowsOf(Own))
  <1>1. /\ call[c].pc = "idle" /\ call[c].now = {} /\ call[c].todo = {}
        /\ Lists(c, "remove", Own) /\ Own \in SUBSET Ids
    BY SchedulerAssumption DEF IInv, Shapes, Shaped, DeleteServer
  <1>2. /\ TypeOK' /\ Shaped(call'[c]) /\ Works(c, L) /\ Current(c)'
        /\ Registered' /\ OrphansAreRaced'
        /\ PastItsList(c)' => \A i \in Own : Exists(i)' => i \in late' \/ i \in Touched(c)'
        /\ Touched(c) = {}
        /\ call'[c].pc = "next" /\ call'[c].now = {} /\ call'[c].todo = RowsOf(Own)
        /\ UNCHANGED <<row, there, zone, jobs, live, made, doubt, late>>
        /\ raced \subseteq raced'
    BY <1>1, ListsWorks
  <1> HIDE DEF L
  <1>3. \A i \in (Ids \ late') \cap L : doubt'[i] # "none" => i \in raced'
    BY <1>2 DEF IInv, Doubted
  <1>4. ASSUME NEW i \in (Ids \ late') \cap L, doubt'[i] = "none"
        PROVE  InHand(i)'
    <2>1. InHand(i) /\ row'[i] = row[i] /\ jobs'[i] = jobs[i] /\ zone' = zone
      BY <1>2, <1>4 DEF IInv, AllInHand
    <2>2. i \notin IdsOf(call[c].now) /\ i \notin IdsOf(call[c].todo)
      BY <1>1 DEF IdsOf
    <2>3. ~Holds(c, i, {"delete"})'
      BY <1>2 DEF Holds, IdsOf
    <2>4. \A d \in Calls \ {c} : call'[d] = call[d]
      BY <1>2 DEF Works
    <2>5. QED
      BY <2>1, <2>2, <2>3, <2>4, <1>1, HandStays DEF Holds
  <1>5. Touched(c) \subseteq L /\ call[c].pc # "list" /\ zone' = zone
    BY <1>1, <1>2
  <1>6. QED
    BY <1>2, <1>3, <1>4, <1>5, WorkKeepsInv

\* The next of deleteServer's list, which is about to be deleted.
LEMMA DeleteNextKeepsInv ==
  ASSUME IInv, NEW c \in Calls, DeleteNext(c)
  PROVE  IInv'
  <1> DEFINE W == Touched(c)
  <1>1. /\ TypeOK /\ call \in [Calls -> CallRecords] /\ call[c].pc = "next"
        /\ call[c].op = "remove" /\ call[c].now = {}
    BY DEF IInv, TypeOK, CallRecords, Shapes, Shaped, DeleteNext
  <1>2. UNCHANGED <<row, there, zone, made, raced, late>>
    BY DEF DeleteNext
  <1>3. W \cap Others(c) \subseteq raced
    BY OwnWork DEF IInv
  <1>4. W = IdsOf(call[c].todo)
    BY <1>1 DEF Touched, IdsOf
  <1>5. CASE call[c].todo = {}
    <2>1. W = {}
      BY <1>4, <1>5 DEF IdsOf
    <2>2. UNCHANGED <<jobs, live, doubt>>
      BY <1>5 DEF DeleteNext
    <2>3. /\ call' \in [Calls -> CallRecords] /\ call'[c].pc = "cascade"
          /\ call'[c].op = "remove" /\ call'[c].now = {} /\ call'[c].todo = {}
          /\ \A d \in Calls \ {c} : call'[d] = call[d]
      BY <1>1, <1>5 DEF DeleteNext, CallRecords
    <2>4. TypeOK'
      BY <1>1, <1>2, <2>2, <2>3 DEF TypeOK, CallRecords
    <2>5. Touched(c)' = {}
      BY <2>3 DEF Touched
    <2>6. Works(c, W)
      BY <1>2, <2>1, <2>2, <2>3, <2>5 DEF Works, Exists
    <2>7. Shaped(call'[c]) /\ Current(c)'
      BY <2>3 DEF Shaped, Current
    <2>8. Registered' /\ OrphansAreRaced'
      BY <1>2, <2>2 DEF IInv, Registered, OrphansAreRaced
    <2>9. \A i \in Own : Exists(i)' => i \in late' \/ i \in Touched(c)'
      BY <1>1, <1>2, <2>1 DEF IInv, Listed, PastItsList, Exists
    <2>10. QED
      BY <1>1, <1>2, <2>1, <2>4, <2>6, <2>7, <2>8, <2>9, WorkKeepsInv
  <1>6. CASE call[c].todo # {}
    <2>1. PICK s \in call[c].todo :
            /\ Disarm(s.id)
            /\ call' = [call EXCEPT ![c].pc = "delete", ![c].now = {s},
                                    ![c].todo = @ \ {s}]
      BY <1>6 DEF DeleteNext
    <2>2. s \in Snapshot /\ s.id \in Ids /\ s.id \in W
      BY <1>1, <1>4 DEF CallRecords, Snapshot, IdsOf
    <2>3. /\ call' \in [Calls -> CallRecords] /\ call'[c].pc = "delete"
          /\ call'[c].op = "remove" /\ call'[c].now = {s}
          /\ call'[c].todo = call[c].todo \ {s}
          /\ \A d \in Calls \ {c} : call'[d] = call[d]
      BY <1>1, <2>1, <2>2 DEF CallRecords
    <2>4. /\ jobs' \in [Ids -> Job \cup {NoJob}] /\ live' \subseteq Job
          /\ Registered' /\ OrphansAreRaced'
          /\ jobs'[s.id] = NoJob
          /\ \A k \in Ids \ {s.id} : jobs'[k] = jobs[k]
      BY <1>2, <2>1, <2>2, StopJobStops DEF IInv, Disarm
    <2>5. /\ doubt' \in [Ids -> {"none", "old row", "being deleted"}]
          /\ doubt'[s.id] = "none"
          /\ \A k \in Ids \ {s.id} : doubt'[k] = doubt[k]
      BY <1>1, <2>1, <2>2 DEF Disarm, TypeOK
    <2>6. TypeOK'
      BY <1>1, <1>2, <2>3, <2>4, <2>5 DEF TypeOK, CallRecords
    <2>7. Touched(c)' = W
      <3>1. IdsOf({s} \cup (call[c].todo \ {s})) = IdsOf(call[c].todo)
        BY <2>1 DEF IdsOf
      <3>2. QED
        BY <1>4, <2>3, <3>1 DEF Touched, IdsOf
    <2>8. Works(c, W)
      BY <1>2, <1>3, <2>2, <2>3, <2>4, <2>5, <2>7 DEF Works, Exists
    <2>9. Shaped(call'[c]) /\ Current(c)'
      BY <2>2, <2>3 DEF Shaped, Current
    <2>10. \A i \in Own : Exists(i)' => i \in late' \/ i \in Touched(c)'
      BY <1>1, <1>2, <2>7 DEF IInv, Listed, PastItsList, Exists
    <2>11. \A i \in (Ids \ late') \cap W : doubt'[i] # "none" => i \in raced'
      BY <1>2, <2>5 DEF IInv, Doubted
    <2>12. ASSUME NEW i \in (Ids \ late') \cap W, doubt'[i] = "none"
           PROVE  InHand(i)'
      <3>1. CASE i = s.id
        <4>1. Holds(c, i, {"select", "arm", "delete"})'
          BY <2>3, <3>1 DEF Holds, IdsOf
        <4>2. QED
          BY <2>4, <3>1, <4>1, StoppedIsInHand
      <3>2. CASE i # s.id
        <4>1. InHand(i) /\ row'[i] = row[i] /\ jobs'[i] = jobs[i]
          BY <1>2, <2>4, <2>5, <2>12, <3>2 DEF IInv, AllInHand
        <4>2. i \notin IdsOf(call[c].now) /\ i \notin IdsOf(call'[c].now)
          BY <1>1, <2>3, <3>2 DEF IdsOf
        <4>3. i \in IdsOf(call'[c].todo)
          BY <1>4, <2>3, <3>2 DEF IdsOf
        <4>4. ~Holds(c, i, {"delete"})' /\ i \in IdsOf(call[c].todo)'
          BY <4>2, <4>3 DEF Holds, IdsOf
        <4>5. call[c].pc # "list" /\ zone' = zone
          BY <1>1, <1>2
        <4>6. QED
          BY <2>3, <4>1, <4>2, <4>4, <4>5, HandStays DEF Holds
      <3>3. QED
        BY <3>1, <3>2
    <2>13. call[c].pc # "list" /\ zone' = zone
      BY <1>1, <1>2
    <2>14. QED
      BY <2>4, <2>6, <2>8, <2>9, <2>10, <2>11, <2>12, <2>13, WorkKeepsInv
  <1>7. QED
    BY <1>5, <1>6

\* The transaction finds only rows that were created after the list.
LEMMA CascadeKeepsInv ==
  ASSUME IInv, NEW c \in Calls, Cascade(c)
  PROVE  IInv'
  <1>1. /\ TypeOK /\ call[c].pc = "cascade" /\ call[c].op = "remove" /\ Touched(c) = {}
    BY DEF IInv, Shapes, Shaped, Cascade, Touched
  <1>2. UNCHANGED <<zone, jobs, live, made, raced, doubt, late>> /\ there' \in BOOLEAN
    BY DEF Cascade
  <1>3. /\ row' \in [Ids -> {"new", "on", "off", "gone"}]
        /\ \A i \in Ids : row'[i] = row[i] \/ (i \in Own /\ Exists(i))
        /\ \A i \in Own : ~Exists(i)'
    BY <1>1, SchedulerAssumption DEF Cascade, TypeOK, Exists
  <1>4. /\ call'[c] = Idle
        /\ \A d \in Calls \ {c} : call'[d] = call[d]
        /\ call' \in [Calls -> CallRecords]
    BY IdleFacts DEF IInv, TypeOK, CallRecords, Cascade
  <1>5. TypeOK'
    BY <1>1, <1>2, <1>3, <1>4 DEF TypeOK, CallRecords
  <1>6. \A i \in Ids : row'[i] = row[i] \/ i \in late'
    BY <1>1, <1>2, <1>3 DEF IInv, Listed, PastItsList
  <1>7. Works(c, {})
    <2>1. Touched(c)' = {}
      BY <1>4, IdleFacts DEF Touched
    <2>2. QED
      BY <1>2, <1>3, <1>4, <1>6, <2>1 DEF Works
  <1>8. Shaped(call'[c]) /\ Current(c)' /\ ~PastItsList(c)'
    BY <1>4, IdleFacts DEF Current, PastItsList
  <1>9. Registered' /\ OrphansAreRaced'
    BY <1>2 DEF IInv, Registered, OrphansAreRaced
  <1>10. QED
    BY <1>1, <1>2, <1>5, <1>7, <1>8, <1>9, WorkKeepsInv

\* The first step of a request on one schedule.
LEMMA BeginWorks ==
  ASSUME IInv, NEW c \in Calls, NEW i \in Ids,
         NEW theOp \in {"create", "toggle", "delete"}, NEW pc \in {"select", "delete"},
         Begin(c, theOp, pc, i)
  PROVE  /\ call' \in [Calls -> CallRecords] /\ Shaped(call'[c])
         /\ call[c].pc = "idle" /\ call'[c].pc = pc /\ ~PastItsList(c)'
         /\ call'[c].now = {[id |-> i, on |-> FALSE]} /\ call'[c].todo = {}
         /\ \A d \in Calls \ {c} : call'[d] = call[d]
         /\ Touched(c) = {} /\ Touched(c)' = {i}
         /\ raced \subseteq raced' /\ raced' \subseteq Ids /\ {i} \cap Others(c) \subseteq raced'
  <1>1. /\ call \in [Calls -> CallRecords] /\ raced \subseteq Ids /\ call[c].pc = "idle"
        /\ Touched(c) = {}
    BY DEF IInv, TypeOK, CallRecords, Shapes, Shaped, Begin, Touched
  <1>2. /\ call' \in [Calls -> CallRecords] /\ call'[c].pc = pc /\ call'[c].op = theOp
        /\ call'[c].now = {[id |-> i, on |-> FALSE]} /\ call'[c].todo = {}
        /\ \A d \in Calls \ {c} : call'[d] = call[d]
    <2> DEFINE r == [Idle EXCEPT !.op = theOp, !.pc = pc, !.now = {[id |-> i, on |-> FALSE]}]
    <2>1. /\ r \in CallRecords /\ r.pc = pc /\ r.op = theOp
          /\ r.now = {[id |-> i, on |-> FALSE]} /\ r.todo = {}
      <3>1. {[id |-> i, on |-> FALSE]} \in SUBSET Snapshot
        BY DEF Snapshot
      <3>2. QED
        BY <3>1 DEF Idle, CallRecords
    <2>2. call' = [call EXCEPT ![c] = r]
      BY DEF Begin
    <2> HIDE DEF r
    <2>3. QED
      BY <1>1, <2>1, <2>2
  <1>3. Touched(c)' = {i}
    BY <1>2 DEF Touched
  <1>4. Shaped(call'[c]) /\ ~PastItsList(c)'
    BY <1>2 DEF Shaped, Snapshot, PastItsList
  <1>5. raced' = raced \cup ({i} \cap Others(c))
    BY DEF Begin
  <1>6. QED
    BY <1>1, <1>2, <1>3, <1>4, <1>5

\* A request that writes the row leaves the jobs alone, and has the row in hand.
LEMMA WriteRowKeepsInv ==
  ASSUME IInv, NEW c \in Calls, NEW i \in Ids, NEW theOp \in {"create", "toggle"},
         Begin(c, theOp, "select", i), UNCHANGED <<there, zone, jobs, live, made, doubt>>,
         row' \in [Ids -> {"new", "on", "off", "gone"}],
         \A k \in Ids \ {i} : row'[k] = row[k],
         row'[i] \in {"on", "off"} \/ row'[i] = row[i],
         late' \subseteq Ids, late \subseteq late',
         i \in Own /\ Exists(i)' => Exists(i) \/ i \in late' \/ \A d \in Calls : ~PastItsList(d)
  PROVE  IInv'
  <1>1. /\ call' \in [Calls -> CallRecords] /\ Shaped(call'[c])
        /\ call[c].pc = "idle" /\ call'[c].pc = "select" /\ ~PastItsList(c)'
        /\ call'[c].now = {[id |-> i, on |-> FALSE]} /\ call'[c].todo = {}
        /\ \A d \in Calls \ {c} : call'[d] = call[d]
        /\ Touched(c) = {} /\ Touched(c)' = {i}
        /\ raced \subseteq raced' /\ raced' \subseteq Ids /\ {i} \cap Others(c) \subseteq raced'
    BY BeginWorks
  <1>2. TypeOK'
    BY <1>1 DEF IInv, TypeOK, CallRecords
  <1>3. Works(c, {i})
    <2>1. \A k \in Own \ {i} : Exists(k)' => Exists(k)
      BY SchedulerAssumption DEF Exists
    <2>2. QED
      BY <1>1, <2>1 DEF Works
  <1>4. Current(c)'
    BY <1>1 DEF Current
  <1>5. Registered' /\ OrphansAreRaced'
    BY <1>1 DEF IInv, Registered, OrphansAreRaced
  <1>6. i \notin late' /\ doubt'[i] # "none" => i \in raced'
    BY <1>1 DEF IInv, Doubted
  <1>7. ASSUME i \notin late', doubt'[i] = "none"
        PROVE  InHand(i)'
    <2>1. InHand(i)
      BY <1>7 DEF IInv, AllInHand
    <2>2. Holds(c, i, {"select", "arm", "delete"})' /\ Holds(c, i, {"select"})'
      BY <1>1 DEF Holds, IdsOf
    <2>3. \A d \in Calls : Holds(d, i, {"delete"})' => Holds(d, i, {"delete"})
      <3>1. ~Holds(c, i, {"delete"})'
        BY <1>1 DEF Holds, IdsOf
      <3>2. ASSUME NEW d \in Calls, d # c
            PROVE  Holds(d, i, {"delete"})' => Holds(d, i, {"delete"})
        BY <1>1, <3>2 DEF Holds, IdsOf
      <3>3. QED
        BY <3>1, <3>2
    <2>4. row'[i] # "on" /\ jobs'[i] # NoJob => row'[i] = "off"
      BY <2>1 DEF InHand
    <2>5. jobs'[i] # NoJob => \A d \in Calls : ~Holds(d, i, {"delete"})'
      BY <2>1, <2>3 DEF InHand
    <2>6. QED
      BY <2>2, <2>4, <2>5 DEF InHand, Holds
  <1>8. Touched(c) \subseteq {i} /\ call[c].pc # "list" /\ zone' = zone
    BY <1>1
  <1>9. QED
    BY <1>1, <1>2, <1>3, <1>4, <1>5, <1>6, <1>7, <1>8, WorkKeepsInv

LEMMA CreateScheduleKeepsInv ==
  ASSUME IInv, NEW c \in Calls, NEW i \in Ids, CreateSchedule(c, i)
  PROVE  IInv'
  <1>1. PICK enabled \in {"on", "off"} : row' = [row EXCEPT ![i] = enabled]
    BY DEF CreateSchedule
  <1>2. /\ row' \in [Ids -> {"new", "on", "off", "gone"}]
        /\ \A k \in Ids \ {i} : row'[k] = row[k]
        /\ row'[i] \in {"on", "off"}
    BY <1>1 DEF IInv, TypeOK
  <1>3. /\ late' \subseteq Ids /\ late \subseteq late'
        /\ i \in Own => i \in late' \/ \A d \in Calls : ~PastItsList(d)
    BY DEF CreateSchedule, IInv, TypeOK
  <1>4. QED
    BY <1>2, <1>3, WriteRowKeepsInv DEF CreateSchedule

LEMMA SetEnabledKeepsInv ==
  ASSUME IInv, NEW c \in Calls, NEW i \in Ids, NEW enabled \in {"on", "off"},
         SetEnabled(c, i, enabled)
  PROVE  IInv'
  <1>1. /\ row' \in [Ids -> {"new", "on", "off", "gone"}]
        /\ \A k \in Ids \ {i} : row'[k] = row[k]
        /\ row'[i] \in {"on", "off"} \/ row'[i] = row[i]
        /\ Exists(i)' => Exists(i)
    <2>1. CASE Exists(i)
      BY <2>1 DEF SetEnabled, IInv, TypeOK, Exists
    <2>2. CASE ~Exists(i)
      BY <2>2 DEF SetEnabled, IInv, TypeOK, Exists
    <2>3. QED
      BY <2>1, <2>2
  <1>2. late' = late /\ late \subseteq Ids
    BY DEF SetEnabled, IInv, TypeOK
  <1>3. QED
    BY <1>1, <1>2, WriteRowKeepsInv DEF SetEnabled

LEMMA DeleteScheduleKeepsInv ==
  ASSUME IInv, NEW c \in Calls, NEW i \in Ids, DeleteSchedule(c, i)
  PROVE  IInv'
  <1>1. /\ call' \in [Calls -> CallRecords] /\ Shaped(call'[c])
        /\ call[c].pc = "idle" /\ call'[c].pc = "delete" /\ ~PastItsList(c)'
        /\ call'[c].now = {[id |-> i, on |-> FALSE]} /\ call'[c].todo = {}
        /\ \A d \in Calls \ {c} : call'[d] = call[d]
        /\ Touched(c) = {} /\ Touched(c)' = {i}
        /\ raced \subseteq raced' /\ raced' \subseteq Ids /\ {i} \cap Others(c) \subseteq raced'
    BY BeginWorks DEF DeleteSchedule
  <1>2. UNCHANGED <<row, there, zone, made, late>> /\ Disarm(i)
    BY DEF DeleteSchedule
  <1>3. /\ jobs' \in [Ids -> Job \cup {NoJob}] /\ live' \subseteq Job
        /\ Registered' /\ OrphansAreRaced'
        /\ jobs'[i] = NoJob
        /\ \A k \in Ids \ {i} : jobs'[k] = jobs[k]
    BY <1>1, <1>2, StopJobStops DEF IInv, Disarm
  <1>4. /\ doubt' \in [Ids -> {"none", "old row", "being deleted"}]
        /\ doubt'[i] = "none"
        /\ \A k \in Ids \ {i} : doubt'[k] = doubt[k]
    BY <1>2 DEF Disarm, IInv, TypeOK
  <1>5. TypeOK'
    BY <1>1, <1>2, <1>3, <1>4 DEF IInv, TypeOK, CallRecords
  <1>6. Works(c, {i})
    BY <1>1, <1>2, <1>3, <1>4 DEF Works, Exists
  <1>7. Current(c)'
    BY <1>1 DEF Current
  <1>8. InHand(i)'
    <2>1. Holds(c, i, {"select", "arm", "delete"})'
      BY <1>1 DEF Holds, IdsOf
    <2>2. QED
      BY <1>3, <2>1, StoppedIsInHand
  <1>9. Touched(c) \subseteq {i} /\ call[c].pc # "list" /\ zone' = zone
    BY <1>1, <1>2
  <1>10. QED
    BY <1>1, <1>3, <1>4, <1>5, <1>6, <1>7, <1>8, <1>9, WorkKeepsInv

-----------------------------------------------------------------------------
(* The theorems *)

LEMMA InitInv == Init => IInv
  <1> SUFFICES ASSUME Init
               PROVE  IInv
    OBVIOUS
  <1>1. \A c \in Calls : call[c] = Idle /\ Touched(c) = {}
    BY IdleFacts DEF Init, Touched
  <1>2. \A i \in Ids : IF row[i] = "on" THEN jobs[i] = [id |-> i, n |-> 0, zone |-> 0] /\ jobs[i] \in Job
                       ELSE jobs[i] = NoJob
    BY SchedulerAssumption DEF Init, Job, Zones
  <1>3. TypeOK
    <2>1. /\ jobs \in [Ids -> Job \cup {NoJob}] /\ live \subseteq Job
      BY <1>2 DEF Init
    <2>2. call \in [Calls -> CallRecords]
      BY IdleFacts DEF Init
    <2>3. row \in [Ids -> {"new", "on", "off", "gone"}] /\ zone \in Zones /\ made \in 0..MaxJobs
      BY SchedulerAssumption DEF Init, Zones
    <2>4. QED
      BY <2>1, <2>2, <2>3 DEF Init, TypeOK, CallRecords
  <1>4. Shapes /\ Apart /\ AllCurrent /\ Listed
    BY <1>1, IdleFacts DEF Shapes, Apart, AllCurrent, Current, Listed, PastItsList
  <1>5. Registered
    BY <1>2 DEF Registered, Init
  <1>6. OrphansAreRaced
    <2> SUFFICES ASSUME NEW j \in live
                 PROVE  jobs[j.id] = j
      BY DEF OrphansAreRaced
    <2>1. PICK i \in Ids : j = jobs[i] /\ j # NoJob
      BY DEF Init
    <2>2. j = [id |-> i, n |-> 0, zone |-> 0]
      BY <2>1, <1>2
    <2>3. j.id = i
      BY <2>2
    <2>4. QED
      BY <2>1, <2>3
  <1>7. Doubted
    BY DEF Init, Doubted
  <1>8. AllInHand
    <2>1. \A i \in Ids : /\ row[i] = "on" <=> jobs[i] # NoJob
                         /\ jobs[i] = NoJob \/ jobs[i].zone = zone
      BY <1>2, NoJobIsNoJob DEF Init
    <2>2. \A d \in Calls, i \in Ids : ~Holds(d, i, {"delete"})
      BY <1>1, IdleFacts DEF Holds
    <2>3. QED
      BY <2>1, <2>2 DEF AllInHand, InHand
  <1>9. QED
    BY <1>3, <1>4, <1>5, <1>6, <1>7, <1>8 DEF IInv

LEMMA StepInv == IInv /\ [Next]_schedulerVars => IInv'
  <1> SUFFICES ASSUME IInv, [Next]_schedulerVars
               PROVE  IInv'
    OBVIOUS
  <1>1. CASE UNCHANGED schedulerVars
    <2>1. TypeOK' /\ Shapes' /\ Apart' /\ Registered'
      BY <1>1 DEF IInv, TypeOK, Shapes, Apart, Touched, Registered, schedulerVars
    <2>2. AllCurrent' /\ OrphansAreRaced' /\ Listed' /\ Doubted'
      BY <1>1 DEF IInv, AllCurrent, Current, OrphansAreRaced, Listed, PastItsList, Touched, Exists,
                  Doubted, schedulerVars
    <2>3. AllInHand'
      BY <1>1 DEF IInv, AllInHand, InHand, Holds, IdsOf, schedulerVars
    <2>4. QED
      BY <2>1, <2>2, <2>3 DEF IInv
  <1>2. ASSUME NEW c \in Calls, Requests(c)
        PROVE  IInv'
    BY <1>2, SetTimezoneKeepsInv, DeleteServerKeepsInv, CreateScheduleKeepsInv,
       DeleteScheduleKeepsInv, SetEnabledKeepsInv DEF Requests
  <1>3. ASSUME NEW c \in Calls, Resumes(c)
        PROVE  IInv'
    BY <1>3, ArmKeepsInv, GoOnKeepsInv, SelectRowKeepsInv, DeleteRowKeepsInv, RearmAllKeepsInv,
       DeleteNextKeepsInv, CascadeKeepsInv DEF Resumes
  <1>4. QED
    BY <1>1, <1>2, <1>3 DEF Next

THEOREM SchedulerInv == Spec => []IInv
  BY InitInv, StepInv, PTL DEF Spec

\* The types hold.
THEOREM SchedulerTypes == Spec => []TypeOK
  <1>1. IInv => TypeOK
    BY DEF IInv
  <1>2. QED
    BY <1>1, SchedulerInv, PTL

\* A job that nothing can stop any more comes from two overlapping requests on
\* its schedule, whatever is re-armed meanwhile.
THEOREM OrphansComeFromRaces == Spec => []OrphansAreRaced
  <1>1. IInv => OrphansAreRaced
    BY DEF IInv
  <1>2. QED
    BY <1>1, SchedulerInv, PTL

\* A schedule no request works on is armed exactly when its row is enabled, in
\* the zone of the settings, whatever overlapped on it before: except where its
\* last job came from an old row or during its deletion, which takes an overlap,
\* or where it was created after deleteServer's list.
THEOREM RestingSchedulesAreInStep == Spec => []QuietIsInStep
  BY SchedulerInv, RestIsQuiet, PTL
=============================================================================

------------------------- MODULE ServerBackupsProofs -------------------------
(* For any callers, retention settings, ceilings and faults: retention     *)
(* never drops the newest backup nor, under no ceiling, the safety backup  *)
(* of a restore, and nothing without a reason that holds when it is        *)
(* dropped; the save lock is handed on, nobody's save-on falls into        *)
(* another's copy, and saves come back.                                    *)
EXTENDS ServerBackups, FiniteSetTheorems, TLAPS

-----------------------------------------------------------------------------
(* The record of a call, field by field.                                   *)

LEMMA IdleType ==
  /\ Idle \in Operations
  /\ Idle.pc = "idle" /\ Idle.id = {} /\ Idle.left = {} /\ Idle.lock = "none"
  /\ Idle.torn = {}
  BY BackupsAssumption DEF Idle, Operations, Reasons

LEMMA RestoreType ==
  ASSUME NEW i \in Ids, NEW safety \in BOOLEAN, NEW o,
         o = [Idle EXCEPT !.pc = "stop", !.kind = "restore", !.reason = "pre-restore",
                          !.target = {i}, !.safety = safety]
  PROVE  /\ o \in Operations
         /\ o.pc = "stop" /\ o.id = {} /\ o.left = {} /\ o.lock = "none"
         /\ o.torn = {}
  BY IdleType DEF Operations, Reasons

LEMMA DeleteType ==
  ASSUME NEW r \in Rows, NEW o,
         o = [Idle EXCEPT !.pc = "drop", !.kind = "delete", !.left = {r}]
  PROVE  /\ o \in Operations
         /\ o.pc = "drop" /\ o.id = {} /\ o.left = {r} /\ o.lock = "none"
         /\ o.torn = {}
  BY IdleType DEF Operations, Reasons

LEMMA ZipType ==
  ASSUME NEW q \in Operations, NEW o, o = [q EXCEPT !.pc = "zip", !.lock = "paused"]
  PROVE  /\ o \in Operations
         /\ o.pc = "zip" /\ o.id = q.id /\ o.left = q.left /\ o.lock = "paused"
         /\ o.torn = q.torn
  BY DEF Operations

LEMMA RecordType ==
  ASSUME NEW q \in Operations, NEW o,
         o = [q EXCEPT !.pc = "record", !.lock = "none", !.torn = {}]
  PROVE  /\ o \in Operations
         /\ o.pc = "record" /\ o.id = q.id /\ o.left = q.left /\ o.lock = "none"
         /\ o.torn = {}
  BY DEF Operations

LEMMA GoesType ==
  ASSUME NEW q \in Operations, NEW o,
         NEW pc \in {"zip", "resume", "fail", "prune", "dropRow", "safety", "wipe"},
         o = [q EXCEPT !.pc = pc]
  PROVE  /\ o \in Operations
         /\ o.pc = pc /\ o.id = q.id /\ o.left = q.left /\ o.lock = q.lock
         /\ o.torn = q.torn
  BY DEF Operations

LEMMA TornType ==
  ASSUME NEW q \in Operations, NEW d \in Disturbances, NEW o,
         o = [q EXCEPT !.torn = @ \cup {d}]
  PROVE  /\ o \in Operations
         /\ o.pc = q.pc /\ o.id = q.id /\ o.left = q.left /\ o.lock = q.lock
         /\ o.torn = q.torn \cup {d}
  BY DEF Operations

LEMMA AfterType ==
  ASSUME NEW q \in Operations, NEW d \in Disturbances, NEW o,
         o = [q EXCEPT !.after = @ \cup {d}]
  PROVE  /\ o \in Operations
         /\ o.pc = q.pc /\ o.id = q.id /\ o.left = q.left /\ o.lock = q.lock
         /\ o.torn = q.torn
  BY DEF Operations

-----------------------------------------------------------------------------
(* What the retention passes choose.                                       *)

LEMMA PassesValue == \A p \in 1..6 : Passes[p] \in Reasons \cup {"age", "size"}
  BY DEF Passes, Reasons

LEMMA MinRest ==
  ASSUME NEW p \in 1..6, Rest(p) # {}
  PROVE  Min(Rest(p)) \in 1..6
<1>1. Rest(p) \subseteq 2..6
  BY DEF Rest
<1>2. \E x \in Rest(p) : \A y \in Rest(p) : x =< y
  BY <1>1
<1>3. Min(Rest(p)) \in Rest(p)
  BY <1>2 DEF Min
<1> QED BY <1>1, <1>3

\* A pass chooses among the rows it read, and never the newest of them.
LEMMA NewestIsSpared ==
  ASSUME NEW pass \in Reasons \cup {"age", "size"}
  PROVE  /\ Candidates(pass) \subseteq rows
         /\ \A b \in Newest(rows) : b \notin Candidates(pass)
<1>1. CASE pass = "age"
  BY <1>1 DEF Candidates, TooOld
<1>2. CASE pass = "size"
  BY <1>2 DEF Candidates, TooBig
<1>3. CASE pass \in Reasons
  <2> DEFINE bucket == {r \in rows : r.reason = pass}
  <2>1. Candidates(pass) = Stale(bucket, Keep[pass])
    BY <1>3 DEF Candidates, Reasons
  <2>2. Keep[pass] \in Nat \ {0}
    BY <1>3, BackupsAssumption
  <2>3. ASSUME NEW b \in Newest(rows), b \in Stale(bucket, Keep[pass])
        PROVE  FALSE
    <3>1. {s \in bucket : Newer(s, b)} = {}
      BY <2>3 DEF Newest
    <3>2. Cardinality({s \in bucket : Newer(s, b)}) = 0
      BY <3>1, FS_EmptySet
    <3>3. Cardinality({s \in bucket : Newer(s, b)}) >= Keep[pass]
      BY <2>3 DEF Stale
    <3> QED BY <3>2, <3>3, <2>2
  <2>4. Stale(bucket, Keep[pass]) \subseteq rows
    BY DEF Stale
  <2> HIDE DEF bucket
  <2> QED BY <2>1, <2>3, <2>4
<1> QED BY <1>1, <1>2, <1>3

-----------------------------------------------------------------------------
(* Steps, seen through the fields the invariants speak of.                 *)

\* d's call stands where it stood
Same(d) == /\ call'[d].pc = call[d].pc /\ call'[d].id = call[d].id
           /\ call'[d].left = call[d].left /\ call'[d].lock = call[d].lock

LEMMA OneMoves ==
  ASSUME call \in [Calls -> Operations], NEW c \in Calls, NEW o \in Operations,
         call' = [call EXCEPT ![c] = o]
  PROVE  /\ call' \in [Calls -> Operations]
         /\ call'[c] = o
         /\ \A d \in Calls : d # c => Same(d) /\ call'[d].torn = call[d].torn
  BY DEF Same

LEMMA DisturbedMoves ==
  ASSUME call \in [Calls -> Operations], NEW d \in Disturbances, NEW f, f = Disturbed(d)
  PROVE  /\ f \in [Calls -> Operations]
         /\ \A c \in Calls :
              /\ f[c].pc = call[c].pc /\ f[c].id = call[c].id
              /\ f[c].left = call[c].left /\ f[c].lock = call[c].lock
              /\ f[c].torn = IF call[c].pc = "zip" THEN call[c].torn \cup {d}
                             ELSE call[c].torn
<1>1. ASSUME NEW c \in Calls
      PROVE  /\ f[c] \in Operations
             /\ f[c].pc = call[c].pc /\ f[c].id = call[c].id
             /\ f[c].left = call[c].left /\ f[c].lock = call[c].lock
             /\ f[c].torn = IF call[c].pc = "zip" THEN call[c].torn \cup {d}
                            ELSE call[c].torn
  <2>1. CASE call[c].pc = "zip"
    <3>1. f[c] = [call[c] EXCEPT !.torn = @ \cup {d}]
      BY <2>1 DEF Disturbed
    <3> QED BY <2>1, <3>1, TornType
  <2>2. CASE call[c].pc # "zip" /\ CopiedAlready(c)
    <3>1. f[c] = [call[c] EXCEPT !.after = @ \cup {d}]
      BY <2>2 DEF Disturbed
    <3> QED BY <2>2, <3>1, AfterType
  <2>3. CASE call[c].pc # "zip" /\ ~CopiedAlready(c)
    BY <2>3 DEF Disturbed
  <2> QED BY <2>1, <2>2, <2>3
<1>2. f = [c \in Calls |-> f[c]]
  BY DEF Disturbed
<1> QED BY <1>1, <1>2

LEMMA CopiedType ==
  ASSUME call \in [Calls -> Operations], NEW c \in Calls, NEW ok \in BOOLEAN,
         NEW o, o = Copied(c, ok)
  PROVE  /\ o \in Operations
         /\ o.left \in {{}, call[c].left} /\ o.lock = "none" /\ o.torn = {}
         /\ ok => o.pc = "record" /\ o.id = call[c].id
         /\ ~ok => o.pc = "idle" /\ o.id = {}
<1>1. CASE ok
  BY <1>1, RecordType DEF Copied
<1>2. CASE ~ok
  BY <1>2, IdleType DEF Copied
<1> QED BY <1>1, <1>2

LEMMA PassedOnType ==
  ASSUME call \in [Calls -> Operations], NEW c \in Calls, NEW o, o = PassedOn(c)
  PROVE  /\ o \in Operations
         /\ o.pc \in {"prune", "wipe", "idle"} /\ o.left = {}
         /\ o.id \in {{}, call[c].id} /\ o.lock \in {"none", call[c].lock}
<1> DEFINE q == call[c]
<1>0. q \in Operations /\ q.pass \in 1..6
  BY DEF Operations
<1> HIDE DEF q
<1>1. CASE call[c].kind # "delete" /\ Rest(call[c].pass) # {}
  <2> DEFINE p == Min(Rest(q.pass))
  <2>2. p \in 1..6
    BY <1>0, <1>1, MinRest DEF q
  <2> HIDE DEF p
  <2>1. o = [q EXCEPT !.pc = "prune", !.left = {}, !.pass = p]
    BY <1>1 DEF PassedOn, q, p
  <2>3. /\ o \in Operations /\ o.pc = "prune" /\ o.id = q.id /\ o.left = {}
        /\ o.lock = q.lock
    BY <2>1, <2>2, <1>0 DEF Operations
  <2> QED BY <2>3 DEF q
<1>2. CASE ~(call[c].kind # "delete" /\ Rest(call[c].pass) # {}) /\ call[c].kind = "restore"
  <2> DEFINE p == 1
  <2>0. p \in 1..6
    OBVIOUS
  <2>1. o = [q EXCEPT !.pc = "wipe", !.left = {}, !.pass = p]
    BY <1>2 DEF PassedOn, q
  <2> HIDE DEF p
  <2>2. o \in Operations
    BY <2>0, <2>1, <1>0 DEF Operations
  <2>3. o.pc = "wipe" /\ o.id = q.id /\ o.left = {} /\ o.lock = q.lock
    BY <2>1, <1>0 DEF Operations
  <2> QED BY <2>2, <2>3 DEF q
<1>3. CASE ~(call[c].kind # "delete" /\ Rest(call[c].pass) # {}) /\ call[c].kind # "restore"
  BY <1>3, IdleType DEF PassedOn, q
<1> QED BY <1>1, <1>2, <1>3

LEMMA DroppedType ==
  ASSUME call \in [Calls -> Operations], NEW c \in Calls, NEW r, NEW o, o = Dropped(c, r)
  PROVE  /\ o \in Operations
         /\ o.pc \in {"prune", "wipe", "idle", "drop"} /\ o.left \subseteq call[c].left
         /\ o.id \in {{}, call[c].id} /\ o.lock \in {"none", call[c].lock}
<1> DEFINE q == call[c]
<1>0. q \in Operations /\ q.left \in SUBSET Rows
  BY DEF Operations
<1> HIDE DEF q
<1>1. CASE call[c].left = {r}
  BY <1>1, PassedOnType DEF Dropped, q
<1>2. CASE call[c].left # {r}
  <2> DEFINE S == q.left \ {r}
  <2>0. S \in SUBSET Rows
    BY <1>0
  <2>1. o = [q EXCEPT !.pc = "drop", !.left = S]
    BY <1>2 DEF Dropped, q
  <2> HIDE DEF S
  <2>2. /\ o \in Operations /\ o.pc = "drop" /\ o.id = q.id
        /\ o.left = S /\ o.lock = q.lock
    BY <2>0, <2>1, <1>0 DEF Operations
  <2> QED BY <2>2 DEF q, S
<1> QED BY <1>1, <1>2

-----------------------------------------------------------------------------
(* Where each action leaves its caller; the other calls stand still.       *)

Alone(c) == \A d \in Calls : d # c => Same(d) /\ call'[d].torn = call[d].torn

LEMMA BeginMoves ==
  ASSUME TypeOK, NEW c \in Calls, NEW kind \in {"backup", "restore"},
         NEW reason \in Reasons, NEW target \in SUBSET Ids, NEW safety \in BOOLEAN,
         BeginCopy(c, kind, reason, target, safety)
  PROVE  /\ call' \in [Calls -> Operations] /\ Alone(c)
         /\ \E i \in FreshId : call'[c].id = {i}
         /\ call'[c].left = {} /\ call'[c].torn = {}
         /\ live => /\ call'[c].pc = "queued" /\ call'[c].lock = "locked"
                    /\ tail' = Append(tail, c)
         /\ ~live => call'[c].pc = "zip" /\ call'[c].lock = "none" /\ tail' = tail
<1>0. call \in [Calls -> Operations]
  BY DEF TypeOK
<1>1. PICK i \in FreshId :
        /\ call' = [call EXCEPT ![c] =
             [Idle EXCEPT !.pc = IF live THEN "queued" ELSE "zip", !.kind = kind,
                          !.reason = reason, !.id = {i}, !.target = target,
                          !.safety = safety, !.lock = IF live THEN "locked" ELSE "none"]]
        /\ tail' = IF live THEN Append(tail, c) ELSE tail
  BY DEF BeginCopy
<1> DEFINE pc == IF live THEN "queued" ELSE "zip"
           lock == IF live THEN "locked" ELSE "none"
           o == [Idle EXCEPT !.pc = pc, !.kind = kind, !.reason = reason, !.id = {i},
                             !.target = target, !.safety = safety, !.lock = lock]
<1>2. call' = [call EXCEPT ![c] = o]
  BY <1>1
<1>3. i \in Ids
  BY ScenesAssumption DEF FreshId, TypeOK, Scene
<1>4. pc \in {"queued", "zip"} /\ lock \in {"none", "locked"}
  OBVIOUS
<1> HIDE DEF pc, lock
<1>5. /\ o \in Operations
      /\ o.pc = pc /\ o.id = {i} /\ o.left = {} /\ o.lock = lock /\ o.torn = {}
  BY <1>3, <1>4, IdleType DEF Operations
<1> HIDE DEF o
<1>6. call' \in [Calls -> Operations] /\ call'[c] = o /\ Alone(c)
  BY <1>0, <1>2, <1>5, OneMoves DEF Alone
<1>7. \E j \in FreshId : call'[c].id = {j}
  BY <1>5, <1>6
<1> QED BY <1>1, <1>5, <1>6, <1>7 DEF pc, lock

LEMMA DeleteMoves ==
  ASSUME TypeOK, NEW c \in Calls, NEW r \in rows, AskDelete(c, r)
  PROVE  /\ call' \in [Calls -> Operations] /\ Alone(c)
         /\ call'[c].pc = "drop" /\ call'[c].id = {} /\ call'[c].left = {r}
         /\ call'[c].lock = "none"
<1>0. call \in [Calls -> Operations] /\ r \in Rows
  BY DEF TypeOK
<1> DEFINE o == [Idle EXCEPT !.pc = "drop", !.kind = "delete", !.left = {r}]
<1>1. call' = [call EXCEPT ![c] = o]
  BY DEF AskDelete
<1>2. /\ o \in Operations
      /\ o.pc = "drop" /\ o.id = {} /\ o.left = {r} /\ o.lock = "none"
  BY <1>0, DeleteType
<1> HIDE DEF o
<1>3. call' \in [Calls -> Operations] /\ call'[c] = o /\ Alone(c)
  BY <1>0, <1>1, <1>2, OneMoves DEF Alone
<1> QED BY <1>2, <1>3

LEMMA RestoreMoves ==
  ASSUME TypeOK, NEW c \in Calls, NEW r \in rows, AskRestore(c, r)
  PROVE  /\ call' \in [Calls -> Operations] /\ Alone(c)
         /\ call'[c].pc = "stop" /\ call'[c].id = {} /\ call'[c].left = {}
         /\ call'[c].lock = "none"
<1>0. call \in [Calls -> Operations] /\ r.id \in Ids
  BY DEF TypeOK, Rows
<1>1. PICK safety \in BOOLEAN :
        call' = [call EXCEPT ![c] = [Idle EXCEPT !.pc = "stop", !.kind = "restore",
                   !.reason = "pre-restore", !.target = {r.id}, !.safety = safety]]
  BY DEF AskRestore
<1> DEFINE o == [Idle EXCEPT !.pc = "stop", !.kind = "restore",
                   !.reason = "pre-restore", !.target = {r.id}, !.safety = safety]
<1>2. call' = [call EXCEPT ![c] = o]
  BY <1>1
<1>3. o \in Operations /\ o.pc = "stop" /\ o.id = {} /\ o.left = {} /\ o.lock = "none"
  BY <1>0, RestoreType
<1> HIDE DEF o
<1>4. call' \in [Calls -> Operations] /\ call'[c] = o /\ Alone(c)
  BY <1>0, <1>2, <1>3, OneMoves DEF Alone
<1> QED BY <1>3, <1>4

LEMMA PauseMoves ==
  ASSUME TypeOK, NEW c \in Calls, PauseSaves(c)
  PROVE  /\ call' \in [Calls -> Operations] /\ Alone(c)
         /\ call'[c].pc = "zip" /\ call'[c].id = call[c].id
         /\ call'[c].left = call[c].left /\ call'[c].torn = call[c].torn
         /\ \/ live /\ ~saving' /\ call'[c].lock = "paused"
            \/ saving' = saving /\ call'[c].lock = call[c].lock
<1> DEFINE q == call[c]
<1>0. call \in [Calls -> Operations] /\ q \in Operations
  BY DEF TypeOK
<1>1. CASE live /\ saving' = FALSE /\ call' = [call EXCEPT ![c].pc = "zip", ![c].lock = "paused"]
  <2> DEFINE o == [q EXCEPT !.pc = "zip", !.lock = "paused"]
  <2>1. call' = [call EXCEPT ![c] = o]
    BY <1>1, <1>0
  <2> HIDE DEF q
  <2>2. /\ o \in Operations
        /\ o.pc = "zip" /\ o.id = q.id /\ o.left = q.left /\ o.lock = "paused" /\ o.torn = q.torn
    BY <1>0, ZipType
  <2> HIDE DEF o
  <2>3. call' \in [Calls -> Operations] /\ call'[c] = o /\ Alone(c)
    BY <1>0, <2>1, <2>2, OneMoves DEF Alone
  <2> QED BY <1>1, <2>2, <2>3 DEF q
<1>2. CASE saving' = saving /\ Goes(c, "zip")
  <2> DEFINE o == [q EXCEPT !.pc = "zip"]
  <2>1. call' = [call EXCEPT ![c] = o]
    BY <1>2, <1>0 DEF Goes
  <2> HIDE DEF q
  <2>2. /\ o \in Operations
        /\ o.pc = "zip" /\ o.id = q.id /\ o.left = q.left /\ o.lock = q.lock /\ o.torn = q.torn
    BY <1>0, GoesType
  <2> HIDE DEF o
  <2>3. call' \in [Calls -> Operations] /\ call'[c] = o /\ Alone(c)
    BY <1>0, <2>1, <2>2, OneMoves DEF Alone
  <2> QED BY <1>2, <2>2, <2>3 DEF q
<1> QED BY <1>1, <1>2 DEF PauseSaves

LEMMA ZipMoves ==
  ASSUME TypeOK, NEW c \in Calls, FinishZip(c)
  PROVE  /\ call' \in [Calls -> Operations] /\ Alone(c)
         /\ call'[c].left \in {{}, call[c].left} /\ call'[c].id \in {{}, call[c].id}
         /\ call'[c].pc \in {"resume", "fail", "record", "idle"}
         /\ call'[c].pc \in {"resume", "record"} =>
              files' = files \cup {[id |-> i, world |-> world] : i \in call[c].id}
         /\ call'[c].pc \in {"fail", "idle"} => files' = files
         /\ IF call[c].lock # "none" THEN /\ call'[c].pc \in {"resume", "fail"}
                                         /\ call'[c].lock = call[c].lock
            ELSE call'[c].lock = "none"
<1> DEFINE q == call[c]
<1>0. call \in [Calls -> Operations] /\ q \in Operations
  BY DEF TypeOK
<1>1. PICK ok \in BOOLEAN :
        /\ call' = [call EXCEPT ![c] = IF @.lock # "none"
                                       THEN [@ EXCEPT !.pc = IF ok THEN "resume" ELSE "fail"]
                                       ELSE Copied(c, ok)]
        /\ files' = files \cup {[id |-> i, world |-> world] : i \in {j \in call[c].id : ok}}
  BY DEF FinishZip
<1>2. /\ ok => files' = files \cup {[id |-> i, world |-> world] : i \in call[c].id}
      /\ ~ok => files' = files
  BY <1>1
<1>3. CASE q.lock # "none"
  <2> DEFINE pc == IF ok THEN "resume" ELSE "fail"
             o == [q EXCEPT !.pc = pc]
  <2>1. call' = [call EXCEPT ![c] = o]
    BY <1>1, <1>3, <1>0
  <2>2. pc \in {"resume", "fail"}
    OBVIOUS
  <2> HIDE DEF q, pc
  <2>3. /\ o \in Operations
        /\ o.pc = pc /\ o.id = q.id /\ o.left = q.left /\ o.lock = q.lock
    BY <1>0, <2>2 DEF Operations
  <2> HIDE DEF o
  <2>4. call' \in [Calls -> Operations] /\ call'[c] = o /\ Alone(c)
    BY <1>0, <2>1, <2>3, OneMoves DEF Alone
  <2> QED BY <1>2, <1>3, <2>3, <2>4 DEF q, pc
<1>4. CASE q.lock = "none"
  <2> DEFINE o == Copied(c, ok)
  <2>1. call' = [call EXCEPT ![c] = o]
    BY <1>1, <1>4
  <2>2. /\ o \in Operations
        /\ o.left \in {{}, q.left} /\ o.lock = "none"
        /\ ok => o.pc = "record" /\ o.id = q.id
        /\ ~ok => o.pc = "idle" /\ o.id = {}
    BY <1>0, CopiedType
  <2> HIDE DEF o
  <2>3. call' \in [Calls -> Operations] /\ call'[c] = o /\ Alone(c)
    BY <1>0, <2>1, <2>2, OneMoves DEF Alone
  <2> QED BY <1>2, <1>4, <2>2, <2>3
<1> QED BY <1>3, <1>4

LEMMA ResumeMoves ==
  ASSUME TypeOK, NEW c \in Calls, ResumeSaves(c)
  PROVE  /\ call' \in [Calls -> Operations] /\ Alone(c)
         /\ call'[c].left \in {{}, call[c].left} /\ call'[c].lock = "none"
         /\ call'[c].torn = {}
         /\ \/ call[c].pc = "resume" /\ call'[c].pc = "record" /\ call'[c].id = call[c].id
            \/ call'[c].pc = "idle" /\ call'[c].id = {}
<1> DEFINE ok == call[c].pc = "resume"
           o == Copied(c, ok)
<1>0. call \in [Calls -> Operations]
  BY DEF TypeOK
<1>1. call' = [call EXCEPT ![c] = o]
  BY <1>0 DEF ResumeSaves
<1>2. CASE call[c].pc = "resume"
  <2>1. o = Copied(c, TRUE)
    BY <1>2
  <2>2. /\ o \in Operations
        /\ o.left \in {{}, call[c].left} /\ o.lock = "none" /\ o.torn = {}
        /\ o.pc = "record" /\ o.id = call[c].id
    BY <2>1, <1>0, CopiedType
  <2> HIDE DEF o
  <2>3. call' \in [Calls -> Operations] /\ call'[c] = o /\ Alone(c)
    BY <1>0, <1>1, <2>2, OneMoves DEF Alone
  <2> QED BY <1>2, <2>2, <2>3
<1>3. CASE call[c].pc # "resume"
  <2>1. o = Idle
    BY <1>3 DEF Copied
  <2>2. call' \in [Calls -> Operations] /\ call'[c] = Idle /\ Alone(c)
    BY <1>0, <1>1, <2>1, OneMoves, IdleType DEF Alone
  <2> QED BY <2>2, IdleType
<1> QED BY <1>2, <1>3

LEMMA RecordMoves ==
  ASSUME TypeOK, NEW c \in Calls, Record(c)
  PROVE  /\ call' \in [Calls -> Operations] /\ Alone(c)
         /\ \/ /\ call'[c].pc = "prune" /\ call'[c].id = call[c].id
               /\ call'[c].left = call[c].left /\ call'[c].lock = call[c].lock
               /\ files' = files
               /\ \E r \in Rows : /\ r.id \in call[c].id
                                  /\ rows' = rows \cup {r} /\ made' = made \cup {r}
            \/ /\ call'[c].pc = "idle" /\ call'[c].id = {} /\ call'[c].left = {}
               /\ call'[c].lock = "none" /\ rows' = rows /\ made' = made
               /\ files' \in {files, {f \in files : f.id \notin call[c].id}}
<1> DEFINE q == call[c]
<1>0. /\ call \in [Calls -> Operations] /\ q \in Operations
      /\ q.id \subseteq Ids /\ q.reason \in Reasons /\ now \in 0..MaxNow
  BY DEF TypeOK, Operations
<1>1. CASE \E i \in call[c].id, s \in Sizes :
             /\ rows' = rows \cup {RowOf(c, i, s)} /\ made' = made \cup {RowOf(c, i, s)}
             /\ call' = [call EXCEPT ![c].pc = "prune"] /\ files' = files
  <2>1. PICK i \in q.id, s \in Sizes :
             /\ rows' = rows \cup {RowOf(c, i, s)} /\ made' = made \cup {RowOf(c, i, s)}
    BY <1>1
  <2>2. RowOf(c, i, s) \in Rows /\ RowOf(c, i, s).id = i
    BY <1>0 DEF RowOf, Rows
  <2> DEFINE o == [q EXCEPT !.pc = "prune"]
  <2>3. call' = [call EXCEPT ![c] = o]
    BY <1>1, <1>0
  <2> HIDE DEF q
  <2>4. o \in Operations /\ o.pc = "prune" /\ o.id = q.id /\ o.left = q.left /\ o.lock = q.lock
    BY <1>0 DEF Operations
  <2> HIDE DEF o
  <2>5. call' \in [Calls -> Operations] /\ call'[c] = o /\ Alone(c)
    BY <1>0, <2>3, <2>4, OneMoves DEF Alone
  <2>6. \E r \in Rows : r.id \in q.id /\ rows' = rows \cup {r} /\ made' = made \cup {r}
    BY <2>1, <2>2
  <2> QED BY <1>1, <2>4, <2>5, <2>6 DEF q
<1>2. CASE /\ files' \in {files, {f \in files : f.id \notin call[c].id}}
           /\ call' = [call EXCEPT ![c] = Idle]
           /\ UNCHANGED <<rows, made>>
  <2>1. call' \in [Calls -> Operations] /\ call'[c] = Idle /\ Alone(c)
    BY <1>0, <1>2, OneMoves, IdleType DEF Alone
  <2> QED BY <1>2, <2>1, IdleType
<1> QED BY <1>1, <1>2 DEF Record

LEMMA PruneMoves ==
  ASSUME TypeOK, NEW c \in Calls, Prune(c)
  PROVE  /\ call' \in [Calls -> Operations] /\ Alone(c)
         /\ call'[c].pc \in {"prune", "wipe", "idle", "drop"}
         /\ call'[c].id \in {{}, call[c].id} /\ call'[c].lock \in {"none", call[c].lock}
         /\ call'[c].left \subseteq rows
         /\ \A b \in Newest(rows) : b \notin call'[c].left
         /\ call'[c].left \subseteq Candidates(Passes[call[c].pass])
<1> DEFINE q == call[c]
           drops == Candidates(Passes[q.pass])
<1>0. /\ call \in [Calls -> Operations] /\ q \in Operations
      /\ q.pass \in 1..6 /\ rows \subseteq Rows
  BY DEF TypeOK, Operations
<1>1. drops \subseteq rows /\ \A b \in Newest(rows) : b \notin drops
  <2>1. Passes[q.pass] \in Reasons \cup {"age", "size"}
    BY <1>0, PassesValue
  <2> QED BY <2>1, NewestIsSpared
<1>2. CASE drops = {}
  <2> DEFINE o == PassedOn(c)
  <2>1. call' = [call EXCEPT ![c] = o]
    BY <1>2 DEF Prune
  <2>2. /\ o \in Operations
        /\ o.pc \in {"prune", "wipe", "idle"} /\ o.left = {}
        /\ o.id \in {{}, call[c].id} /\ o.lock \in {"none", call[c].lock}
    BY <1>0, PassedOnType
  <2> HIDE DEF o
  <2>3. call' \in [Calls -> Operations] /\ call'[c] = o /\ Alone(c)
    BY <1>0, <2>1, <2>2, OneMoves DEF Alone
  <2> QED BY <2>2, <2>3
<1>3. CASE drops # {}
  <2> DEFINE o == [q EXCEPT !.pc = "drop", !.left = drops]
  <2>1. call' = [call EXCEPT ![c] = o]
    BY <1>3 DEF Prune
  <2>2. drops \in SUBSET Rows
    BY <1>0, <1>1
  <2> HIDE DEF q, drops
  <2>3. /\ o \in Operations
        /\ o.pc = "drop" /\ o.id = q.id /\ o.left = drops /\ o.lock = q.lock
    BY <1>0, <2>2 DEF Operations
  <2> HIDE DEF o
  <2>4. call' \in [Calls -> Operations] /\ call'[c] = o /\ Alone(c)
    BY <1>0, <2>1, <2>3, OneMoves DEF Alone
  <2>5. drops = Candidates(Passes[call[c].pass])
    BY DEF drops, q
  <2> QED BY <1>1, <2>3, <2>4, <2>5 DEF q
<1> QED BY <1>2, <1>3

\* What a caller that drops backups does to its call, step by step.
Drops(c, r) == /\ call' \in [Calls -> Operations] /\ Alone(c)
               /\ call'[c].pc \in {"prune", "wipe", "idle", "drop", "dropRow"}
               /\ call'[c].id \in {{}, call[c].id}
               /\ call'[c].lock \in {"none", call[c].lock}
               /\ call'[c].left \subseteq call[c].left

LEMMA DroppedMoves ==
  ASSUME TypeOK, NEW c \in Calls, NEW r, call' = [call EXCEPT ![c] = Dropped(c, r)]
  PROVE  Drops(c, r)
<1> DEFINE o == Dropped(c, r)
<1>0. call \in [Calls -> Operations]
  BY DEF TypeOK
<1>1. call' = [call EXCEPT ![c] = o]
  OBVIOUS
<1>2. /\ o \in Operations
      /\ o.pc \in {"prune", "wipe", "idle", "drop"} /\ o.left \subseteq call[c].left
      /\ o.id \in {{}, call[c].id} /\ o.lock \in {"none", call[c].lock}
  BY <1>0, DroppedType
<1> HIDE DEF o
<1>3. call' \in [Calls -> Operations] /\ call'[c] = o /\ Alone(c)
  BY <1>0, <1>1, <1>2, OneMoves DEF Alone
<1> QED BY <1>2, <1>3 DEF Drops

LEMMA DropFileMoves ==
  ASSUME TypeOK, NEW c \in Calls, NEW r \in call[c].left, DropFile(c, r)
  PROVE  Drops(c, r) /\ files' \in {files, {f \in files : f.id # r.id}}
<1> DEFINE q == call[c]
<1>0. call \in [Calls -> Operations] /\ q \in Operations
  BY DEF TypeOK
<1>1. CASE files' = {f \in files : f.id # r.id} /\ Goes(c, "dropRow")
  <2> DEFINE o == [q EXCEPT !.pc = "dropRow"]
  <2>1. call' = [call EXCEPT ![c] = o]
    BY <1>1, <1>0 DEF Goes
  <2> HIDE DEF q
  <2>2. /\ o \in Operations
        /\ o.pc = "dropRow" /\ o.id = q.id /\ o.left = q.left /\ o.lock = q.lock
    BY <1>0 DEF Operations
  <2> HIDE DEF o
  <2>3. call' \in [Calls -> Operations] /\ call'[c] = o /\ Alone(c)
    BY <1>0, <2>1, <2>2, OneMoves DEF Alone
  <2> QED BY <1>1, <2>2, <2>3 DEF Drops, q
<1>2. CASE files' = files /\ call' = [call EXCEPT ![c] = Dropped(c, r)]
  BY <1>2, DroppedMoves
<1> QED BY <1>1, <1>2 DEF DropFile

LEMMA StopMoves ==
  ASSUME TypeOK, NEW c \in Calls, StopForRestore(c)
  PROVE  \/ live /\ ~live' /\ call' = Disturbed("restart") /\ tail' = tail
         \/ live' = live /\ call' = [call EXCEPT ![c] = Idle] /\ tail' = tail
         \/ \E pc \in {"safety", "wipe"} :
              live' = live /\ call' = [call EXCEPT ![c].pc = pc] /\ tail' = tail
  BY DEF StopForRestore, Goes

LEMMA StoppedMoves ==
  ASSUME TypeOK, NEW c \in Calls, NEW pc \in {"safety", "wipe"},
         call' = [call EXCEPT ![c].pc = pc]
  PROVE  /\ call' \in [Calls -> Operations] /\ Alone(c)
         /\ call'[c].pc = pc /\ call'[c].id = call[c].id
         /\ call'[c].left = call[c].left /\ call'[c].lock = call[c].lock
<1> DEFINE q == call[c]
           o == [q EXCEPT !.pc = pc]
<1>0. call \in [Calls -> Operations] /\ q \in Operations
  BY DEF TypeOK
<1>1. call' = [call EXCEPT ![c] = o]
  BY <1>0
<1> HIDE DEF q
<1>2. /\ o \in Operations
      /\ o.pc = pc /\ o.id = q.id /\ o.left = q.left /\ o.lock = q.lock
  BY <1>0 DEF Operations
<1> HIDE DEF o
<1>3. call' \in [Calls -> Operations] /\ call'[c] = o /\ Alone(c)
  BY <1>0, <1>1, <1>2, OneMoves DEF Alone
<1> QED BY <1>2, <1>3 DEF q

LEMMA SafetyMoves ==
  ASSUME TypeOK, NEW c \in Calls, BeginSafety(c)
  PROVE  /\ BeginCopy(c, "restore", "pre-restore", call[c].target, TRUE)
         /\ call[c].target \in SUBSET Ids
         /\ "restore" \in {"backup", "restore"} /\ "pre-restore" \in Reasons
         /\ TRUE \in BOOLEAN
  BY DEF BeginSafety, TypeOK, Operations, Reasons

\* A restore's own steps on the directory disturb the others' copies.
LEMMA DirectoryMoves ==
  ASSUME TypeOK, NEW c \in Calls, Wipe(c) \/ Extract(c)
  PROVE  /\ call' \in [Calls -> Operations]
         /\ call'[c].pc \in {"extract", "idle"} /\ call'[c].id \in {{}, call[c].id}
         /\ call'[c].left \in {{}, call[c].left} /\ call'[c].lock \in {"none", call[c].lock}
         /\ \A d \in Calls : d # c =>
              Same(d) /\ call'[d].torn = IF call[d].pc = "zip" THEN call[d].torn \cup {"restore"}
                                         ELSE call[d].torn
<1> DEFINE f == Disturbed("restore")
           q == call[c]
<1>0. call \in [Calls -> Operations] /\ world \in 0..MaxWrites /\ "restore" \in Disturbances
  BY DEF TypeOK, Disturbances
<1>1. /\ f \in [Calls -> Operations]
      /\ \A d \in Calls :
           /\ f[d].pc = call[d].pc /\ f[d].id = call[d].id
           /\ f[d].left = call[d].left /\ f[d].lock = call[d].lock
           /\ f[d].torn = IF call[d].pc = "zip" THEN call[d].torn \cup {"restore"}
                          ELSE call[d].torn
  BY <1>0, DisturbedMoves
<1>2. q \in Operations
  BY <1>0
<1>3. CASE Wipe(c)
  <2> DEFINE o == [q EXCEPT !.pc = "extract", !.before = world]
  <2>1. call' = [f EXCEPT ![c] = o]
    BY <1>1, <1>3 DEF Wipe
  <2> HIDE DEF f, q
  <2>2. /\ o \in Operations
        /\ o.pc = "extract" /\ o.id = q.id /\ o.left = q.left /\ o.lock = q.lock
    BY <1>0, <1>2 DEF Operations
  <2> HIDE DEF o
  <2>3. call' \in [Calls -> Operations] /\ call'[c] = o
    BY <1>1, <2>1, <2>2
  <2>4. \A d \in Calls : d # c => call'[d] = f[d]
    BY <1>1, <2>1
  <2> QED BY <1>1, <2>2, <2>3, <2>4 DEF Same, q
<1>4. CASE Extract(c)
  <2>1. call' = [f EXCEPT ![c] = Idle]
    BY <1>4 DEF Extract
  <2> HIDE DEF f
  <2>2. call' \in [Calls -> Operations] /\ call'[c] = Idle
    BY <1>1, <2>1, IdleType
  <2>3. \A d \in Calls : d # c => call'[d] = f[d]
    BY <1>1, <2>1
  <2> QED BY <1>1, <2>2, <2>3, IdleType DEF Same
<1> QED BY <1>3, <1>4

-----------------------------------------------------------------------------
(* The save lock.  A call in its section heads the queue; while it copies  *)
(* with saves paused and nothing else disturbs it, they stay paused.       *)

Upheavals == {"restart", "restore"}

QueueInv ==
  /\ tail \in Seq(Calls)
  /\ \A i, j \in DOMAIN tail : tail[i] = tail[j] => i = j
  /\ \A i \in DOMAIN tail : call[tail[i]].lock # "none"
  /\ \A i \in DOMAIN tail :
       /\ call[tail[i]].pc \in {"queued", "zip", "resume", "fail"}
       /\ i # 1 => call[tail[i]].pc = "queued"
  /\ \A c \in Calls : call[c].lock # "none" => \E i \in DOMAIN tail : tail[i] = c
  /\ \A c \in Calls : call[c].pc \in {"queued", "resume", "fail"} => call[c].lock # "none"

PauseInv ==
  \A c \in Calls :
    /\ call[c].pc = "queued" => call[c].torn = {} /\ call[c].lock = "locked"
    /\ call[c].pc = "zip" /\ call[c].lock = "paused" /\ call[c].torn \cap Upheavals = {}
         => "write" \notin call[c].torn /\ ~(live /\ saving)

LockInv == QueueInv /\ PauseInv

\* Whoever is neither waiting nor in a section has no part in the lock.
LEMMA Outside ==
  ASSUME LockInv, NEW c \in Calls, call[c].pc \notin {"queued", "zip", "resume", "fail"}
  PROVE  call[c].lock = "none"
  BY DEF LockInv, QueueInv

\* Whoever is in a section heads the queue.
LEMMA HolderHeads ==
  ASSUME LockInv, NEW c \in Calls, call[c].lock # "none",
         call[c].pc \in {"zip", "resume", "fail"}
  PROVE  1 \in DOMAIN tail /\ tail[1] = c
<1>1. PICK i \in DOMAIN tail : tail[i] = c
  BY DEF LockInv, QueueInv
<1>2. i = 1
  BY <1>1 DEF LockInv, QueueInv
<1> QED BY <1>1, <1>2

\* A step outside the lock, of a call that has no part in it.
LEMMA UnlockedStep ==
  ASSUME LockInv, NEW c \in Calls, Alone(c), call[c].lock = "none",
         call'[c].lock = "none", call'[c].pc \notin {"queued", "resume", "fail"},
         tail' = tail, live' = live, saving' = saving
  PROVE  LockInv'
<1>1. QueueInv'
  <2>1. \A i \in DOMAIN tail : tail[i] # c /\ tail[i] \in Calls
    BY DEF LockInv, QueueInv
  <2>2. \A i \in DOMAIN tail : /\ call'[tail[i]].lock = call[tail[i]].lock
                               /\ call'[tail[i]].pc = call[tail[i]].pc
    BY <2>1 DEF Alone, Same
  <2>3. \A d \in Calls : call'[d].lock # "none" => d # c /\ call[d].lock # "none"
    BY DEF Alone, Same
  <2>4. \A d \in Calls : call'[d].pc \in {"queued", "resume", "fail"}
                           => d # c /\ call'[d].lock # "none"
    BY DEF Alone, Same, LockInv, QueueInv
  <2> QED BY <2>2, <2>3, <2>4 DEF LockInv, QueueInv
<1>2. PauseInv'
  <2> SUFFICES ASSUME NEW d \in Calls
               PROVE  /\ call'[d].pc = "queued" => call'[d].torn = {} /\ call'[d].lock = "locked"
                      /\ call'[d].pc = "zip" /\ call'[d].lock = "paused"
                         /\ call'[d].torn \cap Upheavals = {}
                           => "write" \notin call'[d].torn /\ ~(live' /\ saving')
    BY DEF PauseInv
  <2>1. CASE d = c
    BY <2>1
  <2>2. CASE d # c
    BY <2>2 DEF Alone, Same, LockInv, PauseInv
  <2> QED BY <2>1, <2>2
<1> QED BY <1>1, <1>2 DEF LockInv

\* A step that moves nobody in the queue.
LEMMA QueueStands ==
  ASSUME LockInv, tail' = tail,
         \A d \in Calls : /\ call'[d].lock = call[d].lock
                          /\ call'[d].pc = call[d].pc
                            \/ /\ call[d].lock = "none"
                               /\ call'[d].pc \notin {"queued", "resume", "fail"}
  PROVE  QueueInv'
<1>1. \A i \in DOMAIN tail : tail[i] \in Calls
  BY DEF LockInv, QueueInv
<1>2. \A i \in DOMAIN tail : /\ call'[tail[i]].lock = call[tail[i]].lock
                             /\ call'[tail[i]].pc = call[tail[i]].pc
  BY <1>1 DEF LockInv, QueueInv
<1> QED BY <1>1, <1>2 DEF LockInv, QueueInv

\* Appending a newcomer, and letting the head go.
LEMMA AppendFacts ==
  ASSUME NEW q \in Seq(Calls), NEW c \in Calls
  PROVE  /\ Append(q, c) \in Seq(Calls)
         /\ DOMAIN Append(q, c) = 1..Len(q) + 1 /\ DOMAIN q = 1..Len(q) /\ Len(q) \in Nat
         /\ \A i \in 1..Len(q) : Append(q, c)[i] = q[i]
         /\ Append(q, c)[Len(q) + 1] = c
  OBVIOUS

LEMMA TailFacts ==
  ASSUME NEW q \in Seq(Calls), q # <<>>
  PROVE  /\ Tail(q) \in Seq(Calls)
         /\ DOMAIN Tail(q) = 1..Len(q) - 1 /\ DOMAIN q = 1..Len(q) /\ Len(q) \in Nat \ {0}
         /\ \A i \in 1..Len(q) - 1 : Tail(q)[i] = q[i + 1]
         /\ Head(q) = q[1]
  OBVIOUS

\* A copy of a running server queues up.
LEMMA QueuedUp ==
  ASSUME TypeOK, LockInv, NEW c \in Calls, call[c].lock = "none", Alone(c),
         call'[c].pc = "queued", call'[c].lock = "locked", call'[c].torn = {},
         tail' = Append(tail, c), live' = live, saving' = saving
  PROVE  LockInv'
<1> DEFINE n == Len(tail)
<1>0. tail \in Seq(Calls)
  BY DEF TypeOK
<1>1. /\ tail' \in Seq(Calls) /\ DOMAIN tail' = 1..n + 1 /\ DOMAIN tail = 1..n /\ n \in Nat
      /\ \A i \in 1..n : tail'[i] = tail[i]
      /\ tail'[n + 1] = c
  BY <1>0, AppendFacts
<1>2. \A i \in 1..n : tail[i] \in Calls /\ tail[i] # c
  BY <1>0, <1>1 DEF LockInv, QueueInv
<1> HIDE DEF n
<1>3. \A i \in 1..n : /\ call'[tail[i]].lock = call[tail[i]].lock
                     /\ call'[tail[i]].pc = call[tail[i]].pc
  BY <1>2 DEF Alone, Same
<1>4. QueueInv'
  <2>1. \A i, j \in DOMAIN tail' : tail'[i] = tail'[j] => i = j
    <3>1. \A i, j \in 1..n : tail[i] = tail[j] => i = j
      BY <1>1 DEF LockInv, QueueInv
    <3>2. \A i \in 1..n + 1 : i \in 1..n \/ i = n + 1
      BY <1>1
    <3> QED BY <1>1, <1>2, <3>1, <3>2
  <2>2. \A i \in DOMAIN tail' :
          /\ call'[tail'[i]].lock # "none"
          /\ call'[tail'[i]].pc \in {"queued", "zip", "resume", "fail"}
          /\ i # 1 => call'[tail'[i]].pc = "queued"
    <3> SUFFICES ASSUME NEW i \in 1..n + 1
                 PROVE  /\ call'[tail'[i]].lock # "none"
                        /\ call'[tail'[i]].pc \in {"queued", "zip", "resume", "fail"}
                        /\ i # 1 => call'[tail'[i]].pc = "queued"
      BY <1>1
    <3>1. CASE i \in 1..n
      BY <1>1, <1>3, <3>1 DEF LockInv, QueueInv
    <3>2. CASE i = n + 1
      BY <1>1, <3>2
    <3> QED BY <1>1, <3>1, <3>2
  <2>3. \A d \in Calls : call'[d].lock # "none" => \E i \in DOMAIN tail' : tail'[i] = d
    <3> SUFFICES ASSUME NEW d \in Calls, call'[d].lock # "none"
                 PROVE  \E i \in 1..n + 1 : tail'[i] = d
      BY <1>1
    <3>1. CASE d = c
      BY <1>1, <3>1
    <3>2. CASE d # c
      <4>1. PICK i \in 1..n : tail[i] = d
        BY <1>1, <3>2 DEF LockInv, QueueInv, Alone, Same
      <4> QED BY <1>1, <4>1
    <3> QED BY <3>1, <3>2
  <2>4. \A d \in Calls : call'[d].pc \in {"queued", "resume", "fail"} => call'[d].lock # "none"
    BY DEF Alone, Same, LockInv, QueueInv
  <2> QED BY <1>1, <2>1, <2>2, <2>3, <2>4 DEF QueueInv
<1>5. PauseInv'
  <2> SUFFICES ASSUME NEW d \in Calls
               PROVE  /\ call'[d].pc = "queued" => call'[d].torn = {} /\ call'[d].lock = "locked"
                      /\ call'[d].pc = "zip" /\ call'[d].lock = "paused"
                         /\ call'[d].torn \cap Upheavals = {}
                           => "write" \notin call'[d].torn /\ ~(live' /\ saving')
    BY DEF PauseInv
  <2>1. CASE d = c
    BY <2>1
  <2>2. CASE d # c
    BY <2>2 DEF Alone, Same, LockInv, PauseInv
  <2> QED BY <2>1, <2>2
<1> QED BY <1>4, <1>5 DEF LockInv

\* The holder goes on in its section, with saves paused or as they were.
LEMMA HolderGoesOn ==
  ASSUME LockInv, NEW c \in Calls, Alone(c), tail' = tail, live' = live,
         1 \in DOMAIN tail, tail[1] = c, call[c].lock # "none", call'[c].lock # "none",
         \/ call'[c].pc \in {"resume", "fail"}
         \/ call'[c].pc = "zip" /\ call'[c].torn = {} /\ call'[c].lock = "locked"
         \/ call'[c].pc = "zip" /\ call'[c].torn = {} /\ ~saving',
         saving' = saving \/ ~saving'
  PROVE  LockInv'
<1>1. QueueInv'
  <2>1. \A i \in DOMAIN tail : i # 1 => tail[i] # c /\ tail[i] \in Calls
    BY DEF LockInv, QueueInv
  <2>2. \A i \in DOMAIN tail : i # 1 => /\ call'[tail[i]].lock = call[tail[i]].lock
                                       /\ call'[tail[i]].pc = call[tail[i]].pc
    BY <2>1 DEF Alone, Same
  <2>3. \A d \in Calls : call'[d].lock # "none" => call[d].lock # "none"
    BY DEF Alone, Same
  <2>4. \A d \in Calls : call'[d].pc \in {"queued", "resume", "fail"} => call'[d].lock # "none"
    BY DEF Alone, Same, LockInv, QueueInv
  <2> QED BY <2>2, <2>3, <2>4 DEF LockInv, QueueInv
<1>2. PauseInv'
  <2> SUFFICES ASSUME NEW d \in Calls
               PROVE  /\ call'[d].pc = "queued" => call'[d].torn = {} /\ call'[d].lock = "locked"
                      /\ call'[d].pc = "zip" /\ call'[d].lock = "paused"
                         /\ call'[d].torn \cap Upheavals = {}
                           => "write" \notin call'[d].torn /\ ~(live' /\ saving')
    BY DEF PauseInv
  <2>1. CASE d = c
    BY <2>1
  <2>2. CASE d # c
    BY <2>2 DEF Alone, Same, LockInv, PauseInv
  <2> QED BY <2>1, <2>2
<1> QED BY <1>1, <1>2 DEF LockInv

\* The holder leaves: its successor has not begun, so nobody copies.
LEMMA HolderLeaves ==
  ASSUME TypeOK, LockInv, NEW c \in Calls, Alone(c), 1 \in DOMAIN tail, tail[1] = c,
         tail' = Tail(tail), call'[c].lock = "none",
         call'[c].pc \notin {"queued", "zip", "resume", "fail"}
  PROVE  LockInv'
<1> DEFINE n == Len(tail) - 1
<1>0. tail \in Seq(Calls) /\ tail # <<>>
  BY DEF TypeOK
<1>1. /\ tail' \in Seq(Calls) /\ DOMAIN tail' = 1..n /\ DOMAIN tail = 1..n + 1 /\ n \in Nat
      /\ \A i \in 1..n : tail'[i] = tail[i + 1]
  BY <1>0, TailFacts
<1> HIDE DEF n
<1>2. \A i \in 1..n : i + 1 \in DOMAIN tail /\ i + 1 # 1
  BY <1>1
<1>3. \A i \in 1..n : /\ tail[i + 1] \in Calls /\ tail[i + 1] # c
                     /\ call[tail[i + 1]].pc = "queued" /\ call[tail[i + 1]].lock # "none"
  BY <1>2 DEF LockInv, QueueInv
<1>4. \A i \in 1..n : call'[tail[i + 1]].pc = "queued" /\ call'[tail[i + 1]].lock # "none"
  BY <1>3 DEF Alone, Same
<1>5. QueueInv'
  <2>1. \A i, j \in DOMAIN tail' : tail'[i] = tail'[j] => i = j
    <3> SUFFICES ASSUME NEW i \in DOMAIN tail', NEW j \in DOMAIN tail', tail'[i] = tail'[j]
                 PROVE  i = j
      OBVIOUS
    <3>1. i \in 1..n /\ j \in 1..n /\ tail[i + 1] = tail[j + 1]
      BY <1>1
    <3>2. i + 1 = j + 1
      BY <1>2, <3>1 DEF LockInv, QueueInv
    <3> QED BY <1>1, <3>1, <3>2
  <2>2. \A d \in Calls : call'[d].lock # "none" => \E i \in DOMAIN tail' : tail'[i] = d
    <3> SUFFICES ASSUME NEW d \in Calls, call'[d].lock # "none"
                 PROVE  \E i \in 1..n : tail'[i] = d
      BY <1>1
    <3>1. d # c /\ call[d].lock # "none"
      BY DEF Alone, Same
    <3>2. PICK j \in 1..n + 1 : tail[j] = d
      BY <1>1, <3>1 DEF LockInv, QueueInv
    <3>3. j # 1 /\ j - 1 \in 1..n /\ (j - 1) + 1 = j
      BY <1>1, <3>1, <3>2
    <3>4. tail'[j - 1] = d
      BY <1>1, <3>2, <3>3
    <3> QED BY <3>3, <3>4
  <2>3. \A d \in Calls : call'[d].pc \in {"queued", "resume", "fail"} => call'[d].lock # "none"
    BY DEF Alone, Same, LockInv, QueueInv
  <2> QED BY <1>1, <1>4, <2>1, <2>2, <2>3 DEF QueueInv
<1>6. PauseInv'
  <2> SUFFICES ASSUME NEW d \in Calls
               PROVE  /\ call'[d].pc = "queued" => call'[d].torn = {} /\ call'[d].lock = "locked"
                      /\ ~(call'[d].pc = "zip" /\ call'[d].lock = "paused")
    BY DEF PauseInv
  <2>1. CASE d = c
    BY <2>1
  <2>2. CASE d # c
    <3>1. call[d].pc = "zip" => call[d].lock = "none"
      BY <2>2, HolderHeads
    <3> QED BY <2>2, <3>1 DEF Alone, Same, LockInv, PauseInv
  <2> QED BY <2>1, <2>2
<1> QED BY <1>5, <1>6 DEF LockInv

\* A new copy, of a call that had no part in the lock.
LEMMA BeginKeepsLock ==
  ASSUME TypeOK, LockInv, NEW c \in Calls, call[c].lock = "none",
         NEW kind \in {"backup", "restore"}, NEW reason \in Reasons,
         NEW target \in SUBSET Ids, NEW safety \in BOOLEAN,
         BeginCopy(c, kind, reason, target, safety), live' = live, saving' = saving
  PROVE  LockInv'
<1>1. /\ Alone(c) /\ call'[c].torn = {}
      /\ live => /\ call'[c].pc = "queued" /\ call'[c].lock = "locked"
                 /\ tail' = Append(tail, c)
      /\ ~live => call'[c].pc = "zip" /\ call'[c].lock = "none" /\ tail' = tail
  BY BeginMoves
<1>2. CASE live
  BY <1>1, <1>2, QueuedUp
<1>3. CASE ~live
  BY <1>1, <1>3, UnlockedStep
<1> QED BY <1>2, <1>3

\* Whoever comes, goes, or fills the directory anew: every copy is disturbed.
LEMMA UpheavalKeepsLock ==
  ASSUME TypeOK, LockInv, NEW d \in Upheavals, call' = Disturbed(d), tail' = tail
  PROVE  LockInv'
<1>1. call \in [Calls -> Operations] /\ d \in Disturbances
  BY DEF TypeOK, Upheavals, Disturbances
<1> DEFINE f == Disturbed(d)
<1>2. \A c \in Calls :
        /\ f[c].pc = call[c].pc /\ f[c].id = call[c].id
        /\ f[c].left = call[c].left /\ f[c].lock = call[c].lock
        /\ f[c].torn = IF call[c].pc = "zip" THEN call[c].torn \cup {d} ELSE call[c].torn
  BY <1>1, DisturbedMoves
<1> HIDE DEF f
<1>3. call' = f
  BY DEF f
<1>4. QueueInv'
  BY <1>2, <1>3, QueueStands
<1>5. PauseInv'
  <2> SUFFICES ASSUME NEW c \in Calls
               PROVE  /\ call'[c].pc = "queued" => call'[c].torn = {} /\ call'[c].lock = "locked"
                      /\ call'[c].pc = "zip" => call'[c].torn \cap Upheavals # {}
    BY DEF PauseInv
  <2>1. CASE call[c].pc = "zip"
    <3>1. d \in call'[c].torn /\ call'[c].pc = "zip"
      BY <1>2, <1>3, <2>1
    <3> QED BY <3>1
  <2>2. CASE call[c].pc # "zip"
    BY <1>2, <1>3, <2>2 DEF LockInv, PauseInv
  <2> QED BY <2>1, <2>2
<1> QED BY <1>4, <1>5 DEF LockInv

LEMMA LockStep ==
  ASSUME TypeOK, LockInv, [Next]_vars
  PROVE  LockInv'
<1>0. live \in BOOLEAN /\ saving \in BOOLEAN /\ rows \subseteq Rows
      /\ call \in [Calls -> Operations]
  BY DEF TypeOK
<1>1. ASSUME NEW c \in Calls, AskBackup(c)
      PROVE  LockInv'
  <2>1. PICK reason \in scene.taken : BeginCopy(c, "backup", reason, {}, FALSE)
    BY <1>1 DEF AskBackup
  <2>2. reason \in Reasons
    BY ScenesAssumption DEF TypeOK, Scene
  <2>3. call[c].lock = "none" /\ live' = live /\ saving' = saving
    BY <1>1, Outside DEF AskBackup
  <2> QED BY <2>1, <2>2, <2>3, BeginKeepsLock
<1>2. ASSUME NEW c \in Calls, NEW r \in rows, AskDelete(c, r)
      PROVE  LockInv'
  BY <1>2, DeleteMoves, Outside, UnlockedStep DEF AskDelete
<1>3. ASSUME NEW c \in Calls, NEW r \in rows, AskRestore(c, r)
      PROVE  LockInv'
  BY <1>3, RestoreMoves, Outside, UnlockedStep DEF AskRestore
<1>4. ASSUME NEW c \in Calls, PauseSaves(c)
      PROVE  LockInv'
  <2>1. call[c].pc = "queued" /\ tail # <<>> /\ Head(tail) = c
        /\ tail' = tail /\ live' = live
    BY <1>4 DEF PauseSaves, Turn
  <2>2. 1 \in DOMAIN tail /\ tail[1] = c
    BY <2>1 DEF LockInv, QueueInv
  <2>3. call[c].torn = {} /\ call[c].lock = "locked"
    BY <2>1 DEF LockInv, PauseInv
  <2> QED BY <1>4, <2>1, <2>2, <2>3, PauseMoves, HolderGoesOn
<1>5. ASSUME NEW c \in Calls, FinishZip(c)
      PROVE  LockInv'
  <2>1. call[c].pc = "zip" /\ tail' = tail /\ live' = live /\ saving' = saving
    BY <1>5 DEF FinishZip
  <2>2. CASE call[c].lock = "none"
    <3>1. Alone(c) /\ call'[c].lock = "none"
      BY <1>5, <2>2, ZipMoves
    <3>2. call'[c].pc \notin {"queued", "resume", "fail"}
      BY <1>0, <1>5, <2>2, CopiedType DEF FinishZip
    <3> QED BY <2>1, <2>2, <3>1, <3>2, UnlockedStep
  <2>3. CASE call[c].lock # "none"
    BY <1>5, <2>1, <2>3, ZipMoves, HolderHeads, HolderGoesOn
  <2> QED BY <2>2, <2>3
<1>6. ASSUME NEW c \in Calls, ResumeSaves(c)
      PROVE  LockInv'
  <2>1. call[c].pc \in {"resume", "fail"} /\ tail' = Tail(tail)
    BY <1>6 DEF ResumeSaves
  <2>2. call[c].lock # "none"
    BY <2>1 DEF LockInv, QueueInv
  <2>3. 1 \in DOMAIN tail /\ tail[1] = c
    BY <2>1, <2>2, HolderHeads
  <2>4. Alone(c) /\ call'[c].lock = "none" /\ call'[c].pc \in {"record", "idle"}
    BY <1>6, ResumeMoves
  <2> QED BY <2>1, <2>3, <2>4, HolderLeaves
<1>7. ASSUME NEW c \in Calls, Record(c)
      PROVE  LockInv'
  <2>1. call[c].lock = "none" /\ tail' = tail /\ live' = live /\ saving' = saving
    BY <1>7, Outside DEF Record
  <2>2. Alone(c) /\ call'[c].lock = "none" /\ call'[c].pc \in {"prune", "idle"}
    BY <1>7, <2>1, RecordMoves
  <2> QED BY <2>1, <2>2, UnlockedStep
<1>8. ASSUME NEW c \in Calls, Prune(c)
      PROVE  LockInv'
  <2>1. call[c].lock = "none" /\ tail' = tail /\ live' = live /\ saving' = saving
    BY <1>8, Outside DEF Prune
  <2>2. Alone(c) /\ call'[c].lock = "none" /\ call'[c].pc \in {"prune", "wipe", "idle", "drop"}
    BY <1>8, <2>1, PruneMoves
  <2> QED BY <2>1, <2>2, UnlockedStep
<1>9. ASSUME NEW c \in Calls, NEW r \in call[c].left, DropFile(c, r) \/ DropRow(c, r)
      PROVE  LockInv'
  <2>1. call[c].lock = "none" /\ tail' = tail /\ live' = live /\ saving' = saving
    BY <1>9, Outside DEF DropFile, DropRow
  <2>2. Drops(c, r)
    BY <1>9, DropFileMoves, DroppedMoves DEF DropRow
  <2> QED BY <2>1, <2>2, UnlockedStep DEF Drops
<1>10. ASSUME NEW c \in Calls, StopForRestore(c)
       PROVE  LockInv'
  <2>1. call[c].pc = "stop" /\ call[c].lock = "none" /\ saving' = saving
    BY <1>10, Outside DEF StopForRestore
  <2>2. CASE call' = Disturbed("restart") /\ tail' = tail
    BY <2>2, UpheavalKeepsLock DEF Upheavals
  <2>3. CASE live' = live /\ call' = [call EXCEPT ![c] = Idle] /\ tail' = tail
    <3>1. call'[c] = Idle /\ Alone(c)
      BY <1>0, <2>3, OneMoves, IdleType DEF Alone
    <3> QED BY <2>1, <2>3, <3>1, IdleType, UnlockedStep
  <2>4. ASSUME NEW pc \in {"safety", "wipe"},
               live' = live, call' = [call EXCEPT ![c].pc = pc], tail' = tail
        PROVE  LockInv'
    <3>1. Alone(c) /\ call'[c].pc = pc /\ call'[c].lock = "none"
      BY <2>1, <2>4, StoppedMoves
    <3> QED BY <2>1, <2>4, <3>1, UnlockedStep
  <2> QED BY <1>10, <2>2, <2>3, <2>4, StopMoves
<1>16. ASSUME NEW c \in Calls, BeginSafety(c)
       PROVE  LockInv'
  <2>1. call[c].lock = "none" /\ live' = live /\ saving' = saving
    BY <1>16, Outside DEF BeginSafety
  <2> QED BY <1>16, <2>1, SafetyMoves, BeginKeepsLock
<1>11. ASSUME NEW c \in Calls, Wipe(c) \/ Extract(c)
       PROVE  LockInv'
  <2>1. call[c].lock = "none" /\ tail' = tail /\ live' = live /\ saving' = saving
    BY <1>11, Outside DEF Wipe, Extract
  <2>2. /\ call'[c].pc \in {"extract", "idle"} /\ call'[c].lock = "none"
        /\ \A d \in Calls : d # c =>
             Same(d) /\ call'[d].torn = IF call[d].pc = "zip" THEN call[d].torn \cup {"restore"}
                                        ELSE call[d].torn
    BY <1>11, <2>1, DirectoryMoves
  <2>3. QueueInv'
    BY <2>1, <2>2, QueueStands DEF Same
  <2>4. PauseInv'
    BY <2>1, <2>2 DEF LockInv, PauseInv, Same, Upheavals
  <2> QED BY <2>3, <2>4 DEF LockInv
<1>12. CASE StartServer \/ StopServer
  BY <1>12, UpheavalKeepsLock DEF StartServer, StopServer, Upheavals
<1>13. CASE WriteWorld
  <2>1. live /\ saving /\ tail' = tail /\ "write" \in Disturbances
    BY <1>13 DEF WriteWorld, Disturbances
  <2> DEFINE f == Disturbed("write")
  <2>2. \A c \in Calls :
          /\ f[c].pc = call[c].pc /\ f[c].id = call[c].id
          /\ f[c].left = call[c].left /\ f[c].lock = call[c].lock
          /\ f[c].torn = IF call[c].pc = "zip" THEN call[c].torn \cup {"write"}
                         ELSE call[c].torn
    BY <1>0, <2>1, DisturbedMoves
  <2>3. call' = f
    BY <1>13 DEF WriteWorld
  <2> HIDE DEF f
  <2>4. QueueInv'
    BY <2>1, <2>2, <2>3, QueueStands
  <2>5. PauseInv'
    BY <2>1, <2>2, <2>3 DEF LockInv, PauseInv
  <2> QED BY <2>4, <2>5 DEF LockInv
<1>14. CASE Crash
  <2>1. tail' = <<>> /\ \A c \in Calls : call'[c] = Idle
    BY <1>14 DEF Crash
  <2>2. tail' \in Seq(Calls) /\ DOMAIN tail' = {}
    BY <2>1
  <2> QED BY <2>1, <2>2, IdleType DEF LockInv, QueueInv, PauseInv
<1>15. CASE Tick \/ UNCHANGED vars
  <2>1. call' = call /\ tail' = tail /\ live' = live /\ saving' = saving
    BY <1>15 DEF Tick, vars
  <2> QED BY <2>1 DEF LockInv, QueueInv, PauseInv
<1> QED
  BY <1>1, <1>2, <1>3, <1>4, <1>5, <1>6, <1>7, <1>8, <1>9, <1>10, <1>11, <1>12, <1>13,
     <1>14, <1>15, <1>16 DEF Next, CallStep, CopyStep, DropStep, RestoreStep

-----------------------------------------------------------------------------
(* Types.  The lock's invariant is needed where a section ends: the queue  *)
(* it leaves is not empty.                                                 *)

LEMMA TypeInit == Init => TypeOK
<1> SUFFICES ASSUME Init PROVE TypeOK
  OBVIOUS
<1>1. scene \in Scene
  BY ScenesAssumption DEF Init
<1>2. live \in BOOLEAN
  BY <1>1 DEF Init, Scene
<1>3. world \in 0..MaxWrites /\ writes \in 1..MaxWrites /\ now \in 0..MaxNow
  BY BackupsAssumption DEF Init
<1>4. call \in [Calls -> Operations]
  BY IdleType DEF Init
<1>5. tail \in Seq(Calls)
  BY DEF Init
<1> QED BY <1>2, <1>3, <1>4, <1>5 DEF Init, TypeOK

\* The table, the archives and the users' deletions stay in their sets.
StoreOK == /\ rows \subseteq Rows /\ files \subseteq Archives
           /\ made \subseteq Rows /\ discarded \subseteq Ids

LEMMA StoreStep ==
  ASSUME TypeOK, [Next]_vars
  PROVE  StoreOK'
<1>0. /\ rows \subseteq Rows /\ files \subseteq Archives /\ made \subseteq Rows
      /\ discarded \subseteq Ids /\ call \in [Calls -> Operations] /\ world \in 0..MaxWrites
  BY DEF TypeOK
<1>1. ASSUME UNCHANGED <<rows, files, made, discarded>>
      PROVE  StoreOK'
  BY <1>0, <1>1 DEF StoreOK
<1>2. ASSUME NEW c \in Calls, NEW r \in rows, AskDelete(c, r)
      PROVE  StoreOK'
  BY <1>0, <1>2 DEF AskDelete, StoreOK, Rows
<1>3. ASSUME NEW c \in Calls, FinishZip(c)
      PROVE  StoreOK'
  <2>1. call[c].id \subseteq Ids
    BY <1>0 DEF Operations
  <2>2. {[id |-> i, world |-> world] : i \in call[c].id} \subseteq Archives
    BY <1>0, <2>1 DEF Archives
  <2>3. files' \subseteq files \cup {[id |-> i, world |-> world] : i \in call[c].id}
    BY <1>3, ZipMoves
  <2>4. UNCHANGED <<rows, made, discarded>>
    BY <1>3 DEF FinishZip
  <2> QED BY <1>0, <2>2, <2>3, <2>4 DEF StoreOK
<1>4. ASSUME NEW c \in Calls, Record(c)
      PROVE  StoreOK'
  <2>1. /\ \/ files' = files
           \/ files' = {f \in files : f.id \notin call[c].id}
        /\ \/ rows' = rows /\ made' = made
           \/ \E r \in Rows : rows' = rows \cup {r} /\ made' = made \cup {r}
    BY <1>4, RecordMoves
  <2>2. discarded' = discarded
    BY <1>4 DEF Record
  <2> QED BY <1>0, <2>1, <2>2 DEF StoreOK
<1>5. ASSUME NEW c \in Calls, NEW r \in call[c].left, DropFile(c, r) \/ DropRow(c, r)
      PROVE  StoreOK'
  BY <1>0, <1>5 DEF DropFile, DropRow, StoreOK
<1> QED
  BY <1>1, <1>2, <1>3, <1>4, <1>5
  DEF Next, CallStep, CopyStep, DropStep, RestoreStep, AskBackup, AskRestore, PauseSaves,
      ResumeSaves, Prune, StopForRestore, BeginSafety, Wipe, Extract, StartServer, StopServer,
      WriteWorld, Tick, Crash, vars

\* The calls and their queue.
LEMMA CallsStep ==
  ASSUME TypeOK, LockInv, [Next]_vars
  PROVE  call' \in [Calls -> Operations]
<1>0. call \in [Calls -> Operations]
  BY DEF TypeOK
<1>1. ASSUME NEW c \in Calls, NEW kind \in {"backup", "restore"}, NEW reason \in Reasons,
             NEW target \in SUBSET Ids, NEW safety \in BOOLEAN,
             BeginCopy(c, kind, reason, target, safety)
      PROVE  call' \in [Calls -> Operations]
  BY <1>1, BeginMoves
<1>2. ASSUME NEW c \in Calls, AskBackup(c)
      PROVE  call' \in [Calls -> Operations]
  <2>1. PICK reason \in scene.taken : BeginCopy(c, "backup", reason, {}, FALSE)
    BY <1>2 DEF AskBackup
  <2>2. reason \in Reasons
    BY ScenesAssumption DEF TypeOK, Scene
  <2> QED BY <1>1, <2>1, <2>2
<1>3. ASSUME NEW c \in Calls, NEW r \in rows, AskDelete(c, r) \/ AskRestore(c, r)
      PROVE  call' \in [Calls -> Operations]
  BY <1>3, DeleteMoves, RestoreMoves
<1>4. ASSUME NEW c \in Calls, CopyStep(c)
      PROVE  call' \in [Calls -> Operations]
  BY <1>4, PauseMoves, ZipMoves, ResumeMoves, RecordMoves DEF CopyStep
<1>5. ASSUME NEW c \in Calls, NEW r \in call[c].left, DropFile(c, r) \/ DropRow(c, r)
      PROVE  call' \in [Calls -> Operations]
  BY <1>5, DropFileMoves, DroppedMoves DEF DropRow, Drops
<1>6. ASSUME NEW c \in Calls, Prune(c)
      PROVE  call' \in [Calls -> Operations]
  BY <1>6, PruneMoves
<1>7. ASSUME NEW c \in Calls, StopForRestore(c)
      PROVE  call' \in [Calls -> Operations]
  <2>2. ASSUME call' = Disturbed("restart")
        PROVE  call' \in [Calls -> Operations]
    BY <1>0, <2>2, DisturbedMoves DEF Disturbances
  <2>3. ASSUME call' = [call EXCEPT ![c] = Idle]
        PROVE  call' \in [Calls -> Operations]
    BY <1>0, <2>3, IdleType
  <2>4. ASSUME NEW pc \in {"safety", "wipe"}, call' = [call EXCEPT ![c].pc = pc]
        PROVE  call' \in [Calls -> Operations]
    BY <2>4, StoppedMoves
  <2> QED BY <1>7, <2>2, <2>3, <2>4, StopMoves
<1>12. ASSUME NEW c \in Calls, BeginSafety(c)
       PROVE  call' \in [Calls -> Operations]
  BY <1>1, <1>12, SafetyMoves
<1>8. ASSUME NEW c \in Calls, Wipe(c) \/ Extract(c)
      PROVE  call' \in [Calls -> Operations]
  BY <1>8, DirectoryMoves
<1>9. CASE StartServer \/ StopServer \/ WriteWorld
  <2>1. ASSUME NEW d \in Disturbances, call' = Disturbed(d)
        PROVE  call' \in [Calls -> Operations]
    BY <1>0, <2>1, DisturbedMoves
  <2> QED BY <1>9, <2>1 DEF StartServer, StopServer, WriteWorld, Disturbances
<1>10. CASE Crash
  BY <1>10, IdleType DEF Crash
<1>11. CASE Tick \/ UNCHANGED vars
  BY <1>0, <1>11 DEF Tick, vars
<1> QED
  BY <1>2, <1>3, <1>4, <1>5, <1>6, <1>7, <1>8, <1>9, <1>10, <1>11, <1>12
  DEF Next, CallStep, DropStep, RestoreStep

\* The server, its world, the clock and the bounds.
ServerOK == /\ scene \in Scenes /\ now \in 0..MaxNow
            /\ live \in BOOLEAN /\ saving \in BOOLEAN /\ stuck \in BOOLEAN
            /\ world \in 0..MaxWrites /\ writes \in 1..MaxWrites

LEMMA ServerStep ==
  ASSUME TypeOK, [Next]_vars
  PROVE  ServerOK'
<1>0. ServerOK /\ files \subseteq Archives
  BY DEF TypeOK, ServerOK
<1>1. scene.ticks \in 0..MaxNow /\ scene.writes \in 1..MaxWrites
  BY <1>0, ScenesAssumption DEF ServerOK, Scene
<1>2. ASSUME UNCHANGED <<scene, now, live, saving, stuck, world, writes>>
      PROVE  ServerOK'
  BY <1>0, <1>2 DEF ServerOK
<1>3. ASSUME NEW c \in Calls, PauseSaves(c) \/ ResumeSaves(c)
      PROVE  ServerOK'
  BY <1>0, <1>3 DEF PauseSaves, ResumeSaves, ServerOK
<1>4. ASSUME NEW c \in Calls, StopForRestore(c)
      PROVE  ServerOK'
  BY <1>0, <1>4 DEF StopForRestore, ServerOK
<1>5. ASSUME NEW c \in Calls, Wipe(c)
      PROVE  ServerOK'
  BY <1>0, <1>5, BackupsAssumption DEF Wipe, ServerOK
<1>6. ASSUME NEW c \in Calls, Extract(c)
      PROVE  ServerOK'
  <2>1. world' = world \/ \E f \in files : world' = f.world
    BY <1>6 DEF Extract
  <2>2. world' \in 0..MaxWrites
    BY <1>0, <2>1 DEF Archives, ServerOK
  <2> QED BY <1>0, <1>6, <2>2 DEF Extract, ServerOK
<1>7. CASE StartServer \/ StopServer
  BY <1>0, <1>7 DEF StartServer, StopServer, ServerOK
<1>8. CASE WriteWorld
  <2>1. writes + 1 \in 1..MaxWrites /\ writes + 1 \in 0..MaxWrites
    BY <1>0, <1>1, <1>8, BackupsAssumption DEF WriteWorld, ServerOK
  <2> QED BY <1>0, <1>8, <2>1 DEF WriteWorld, ServerOK
<1>9. CASE Tick
  <2>1. now + 1 \in 0..MaxNow
    BY <1>0, <1>1, <1>9, BackupsAssumption DEF Tick, ServerOK
  <2> QED BY <1>0, <1>9, <2>1 DEF Tick, ServerOK
<1>10. CASE Crash
  BY <1>0, <1>10 DEF Crash, ServerOK
<1> QED
  BY <1>2, <1>3, <1>4, <1>5, <1>6, <1>7, <1>8, <1>9, <1>10
  DEF Next, CallStep, CopyStep, DropStep, RestoreStep, AskBackup, AskDelete, AskRestore,
      FinishZip, Record, Prune, DropFile, DropRow, BeginSafety, vars

LEMMA TypeStep == TypeOK /\ LockInv /\ [Next]_vars => TypeOK'
<1> SUFFICES ASSUME TypeOK, LockInv, [Next]_vars PROVE TypeOK'
  OBVIOUS
<1>1. tail' \in Seq(Calls)
  BY LockStep DEF LockInv, QueueInv
<1> QED BY <1>1, StoreStep, CallsStep, ServerStep DEF TypeOK, StoreOK, ServerOK

LEMMA LockInit == Init => LockInv
<1> SUFFICES ASSUME Init PROVE LockInv
  OBVIOUS
<1>1. tail = <<>> /\ \A c \in Calls : call[c] = Idle
  BY DEF Init
<1>2. tail \in Seq(Calls) /\ DOMAIN tail = {}
  BY <1>1
<1> QED BY <1>1, <1>2, IdleType DEF LockInv, QueueInv, PauseInv

LEMMA Inductive == Spec => [](TypeOK /\ LockInv)
<1>1. Init => TypeOK /\ LockInv
  BY TypeInit, LockInit
<1>2. TypeOK /\ LockInv /\ [Next]_vars => (TypeOK /\ LockInv)'
  BY TypeStep, LockStep
<1> QED BY <1>1, <1>2, PTL DEF Spec

(* The rows, archives, calls and queue of the backups service keep their   *)
(* shapes (BackupsService, WorldSaveLockService).                          *)
THEOREM BackupsTypes == Spec => []TypeOK
BY Inductive, PTL

(* However many callers meet on WorldSaveLockService, and whatever fails   *)
(* inside a section, the lock has one holder, the rest wait behind it, and *)
(* nobody is forgotten.                                                    *)
THEOREM LockHandedOn == Spec => []LockIsHandedOn
<1>1. TypeOK /\ LockInv => LockIsHandedOn
  BY DEF LockInv, QueueInv, LockIsHandedOn
<1> QED BY <1>1, Inductive, PTL

(* A copy that createBackup made with saves paused sees none of the        *)
(* server's writes unless the server went down or up, or a restore passed: *)
(* the save-on of another's copy cannot fall into it.                      *)
THEOREM PausedCopies == Spec => []PausedCopiesAreWhole
<1>1. TypeOK /\ LockInv => PausedCopiesAreWhole
  <2> SUFFICES ASSUME LockInv, NEW c \in Calls, call[c].pc = "zip",
                      call[c].lock = "paused", call[c].torn = {"write"}
               PROVE  FALSE
    BY DEF PausedCopiesAreWhole
  <2>1. call[c].torn \cap Upheavals = {}
    BY DEF Upheavals
  <2> QED BY <2>1 DEF LockInv, PauseInv
<1> QED BY <1>1, Inductive, PTL

-----------------------------------------------------------------------------
(* The newest backup.  Nobody who has read the rows a while ago means to   *)
(* drop it: it was the newest of the rows then too, or it was not there.   *)

Copying == {"queued", "zip", "resume", "fail", "record"}

RowsMade == rows \subseteq made
IdsUnique == \A a, b \in made : a.id = b.id => a = b
LeftMade == \A c \in Calls : call[c].left \subseteq made
IdsApart == \A c, d \in Calls : c # d => call[c].id \cap call[d].id = {}
NotYetMade == \A c \in Calls : call[c].pc \in Copying => \A r \in made : r.id \notin call[c].id
ArchiveThere == \A c \in Calls : call[c].pc \in {"resume", "record"} =>
                  \A i \in call[c].id : \E f \in files : f.id = i
NewestKept == \A b \in Newest(made) : b.id \notin discarded =>
                /\ b \in rows
                /\ \E f \in files : f.id = b.id
                /\ \A c \in Calls : b \notin call[c].left

BooksInv == /\ RowsMade /\ IdsUnique /\ LeftMade /\ IdsApart /\ NotYetMade
            /\ ArchiveThere /\ NewestKept

\* A step that inserts and removes nothing, and gives nobody an id or a drop.
LEMMA BooksStand ==
  ASSUME BooksInv, UNCHANGED <<rows, made, discarded>>, files \subseteq files',
         \A d \in Calls :
           /\ call'[d].id \subseteq call[d].id /\ call'[d].left \subseteq call[d].left
           /\ call'[d].pc \in Copying => call[d].pc \in Copying \/ call'[d].id = {}
           /\ call'[d].pc \in {"resume", "record"} =>
                \/ call[d].pc \in {"resume", "record"}
                \/ \A i \in call'[d].id : \E f \in files' : f.id = i
  PROVE  BooksInv'
<1>1. RowsMade' /\ IdsUnique' /\ LeftMade' /\ IdsApart'
  BY DEF BooksInv, RowsMade, IdsUnique, LeftMade, IdsApart
<1>2. NotYetMade'
  BY DEF BooksInv, NotYetMade
<1>3. ArchiveThere'
  BY DEF BooksInv, ArchiveThere
<1>4. NewestKept'
  BY DEF BooksInv, NewestKept, Newest, Newer
<1> QED BY <1>1, <1>2, <1>3, <1>4 DEF BooksInv

LEMMA BeginKeepsBooks ==
  ASSUME TypeOK, BooksInv, NEW c \in Calls, NEW kind \in {"backup", "restore"},
         NEW reason \in Reasons, NEW target \in SUBSET Ids, NEW safety \in BOOLEAN,
         BeginCopy(c, kind, reason, target, safety),
         UNCHANGED <<rows, files, made, discarded>>
  PROVE  BooksInv'
<1>0. /\ call' \in [Calls -> Operations] /\ Alone(c)
      /\ \E i \in FreshId : call'[c].id = {i}
      /\ call'[c].left = {} /\ call'[c].torn = {}
      /\ live => /\ call'[c].pc = "queued" /\ call'[c].lock = "locked"
                 /\ tail' = Append(tail, c)
      /\ ~live => call'[c].pc = "zip" /\ call'[c].lock = "none" /\ tail' = tail
  BY BeginMoves, Zenon
<1>1. Alone(c) /\ call'[c].left = {} /\ call'[c].pc \in {"queued", "zip"}
  BY <1>0
<1>2. PICK i \in FreshId : call'[c].id = {i}
  BY <1>0
<1>3. (\A r \in made : r.id # i) /\ \A d \in Calls : i \notin call[d].id
  BY DEF FreshId
<1>4. RowsMade' /\ IdsUnique' /\ LeftMade'
  BY <1>1 DEF BooksInv, RowsMade, IdsUnique, LeftMade, Alone, Same
<1>5. IdsApart'
  BY <1>1, <1>2, <1>3 DEF BooksInv, IdsApart, Alone, Same
<1>6. NotYetMade'
  BY <1>1, <1>2, <1>3 DEF BooksInv, NotYetMade, Alone, Same
<1>7. ArchiveThere'
  BY <1>1 DEF BooksInv, ArchiveThere, Alone, Same
<1>8. NewestKept'
  BY <1>1 DEF BooksInv, NewestKept, Newest, Newer, Alone, Same
<1> QED BY <1>4, <1>5, <1>6, <1>7, <1>8 DEF BooksInv

LEMMA RecordKeepsBooks ==
  ASSUME TypeOK, BooksInv, NEW c \in Calls, Record(c)
  PROVE  BooksInv'
<1>0. call[c].pc = "record" /\ discarded' = discarded /\ Alone(c)
  BY RecordMoves DEF Record
<1>1. /\ \A r \in made : r.id \notin call[c].id
      /\ \A i \in call[c].id : \E f \in files : f.id = i
  BY <1>0 DEF BooksInv, NotYetMade, ArchiveThere, Copying
<1>2. CASE /\ call'[c].pc = "prune" /\ call'[c].id = call[c].id
           /\ call'[c].left = call[c].left /\ files' = files
           /\ \E r \in Rows : /\ r.id \in call[c].id
                              /\ rows' = rows \cup {r} /\ made' = made \cup {r}
  <2>1. PICK r \in Rows : /\ r.id \in call[c].id
                          /\ rows' = rows \cup {r} /\ made' = made \cup {r}
    BY <1>2
  <2>2. \A b \in made : b.id # r.id
    BY <1>1, <2>1
  <2>3. \A d \in Calls : /\ call'[d].id = call[d].id /\ call'[d].left = call[d].left
                         /\ d # c => call'[d].pc = call[d].pc
    BY <1>0, <1>2 DEF Alone, Same
  <2>4. RowsMade' /\ IdsUnique'
    BY <2>1, <2>2 DEF BooksInv, RowsMade, IdsUnique
  <2>5. LeftMade' /\ IdsApart'
    BY <2>1, <2>3 DEF BooksInv, LeftMade, IdsApart
  <2>6. NotYetMade'
    <3> SUFFICES ASSUME NEW d \in Calls, call'[d].pc \in Copying, NEW b \in made'
                 PROVE  b.id \notin call'[d].id
      BY DEF NotYetMade
    <3>1. d # c
      BY <1>2 DEF Copying
    <3>2. CASE b \in made
      BY <2>3, <3>1, <3>2 DEF BooksInv, NotYetMade
    <3>3. CASE b = r
      BY <2>1, <2>3, <3>1, <3>3 DEF BooksInv, IdsApart
    <3> QED BY <2>1, <3>2, <3>3
  <2>7. ArchiveThere'
    BY <1>2, <2>3 DEF BooksInv, ArchiveThere
  <2>8. NewestKept'
    <3> SUFFICES ASSUME NEW b \in Newest(made)', b.id \notin discarded'
                 PROVE  /\ b \in rows' /\ \E f \in files' : f.id = b.id
                        /\ \A d \in Calls : b \notin call'[d].left
      BY DEF NewestKept
    <3>1. CASE b = r
      <4>1. \A d \in Calls : b \notin call[d].left
        BY <2>2, <3>1 DEF BooksInv, LeftMade
      <4> QED BY <1>1, <1>2, <2>1, <2>3, <3>1, <4>1
    <3>2. CASE b # r
      <4>1. b \in Newest(made)
        BY <2>1, <3>2 DEF Newest, Newer
      <4> QED BY <1>0, <1>2, <2>1, <2>3, <4>1 DEF BooksInv, NewestKept
    <3> QED BY <3>1, <3>2
  <2> QED BY <2>4, <2>5, <2>6, <2>7, <2>8 DEF BooksInv
<1>3. CASE /\ call'[c].pc = "idle" /\ call'[c].id = {} /\ call'[c].left = {}
           /\ rows' = rows /\ made' = made
           /\ files' \in {files, {f \in files : f.id \notin call[c].id}}
  <2>1. \A d \in Calls : d # c => call'[d].id = call[d].id /\ call'[d].left = call[d].left
                                 /\ call'[d].pc = call[d].pc
    BY <1>0 DEF Alone, Same
  <2>2. RowsMade' /\ IdsUnique'
    BY <1>3 DEF BooksInv, RowsMade, IdsUnique
  <2>3. LeftMade' /\ IdsApart' /\ NotYetMade'
    BY <1>3, <2>1 DEF BooksInv, LeftMade, IdsApart, NotYetMade, Copying
  <2>4. ArchiveThere'
    <3> SUFFICES ASSUME NEW d \in Calls, call'[d].pc \in {"resume", "record"}, NEW i \in call'[d].id
                 PROVE  \E f \in files' : f.id = i
      BY DEF ArchiveThere
    <3>1. d # c /\ i \in call[d].id
      BY <1>3, <2>1
    <3>2. PICK f \in files : f.id = i
      BY <2>1, <3>1 DEF BooksInv, ArchiveThere
    <3>3. f.id \notin call[c].id
      BY <3>1, <3>2 DEF BooksInv, IdsApart
    <3> QED BY <1>3, <3>2, <3>3
  <2>5. NewestKept'
    <3> SUFFICES ASSUME NEW b \in Newest(made), b.id \notin discarded
                 PROVE  /\ b \in rows' /\ \E f \in files' : f.id = b.id
                        /\ \A d \in Calls : b \notin call'[d].left
      BY <1>0, <1>3 DEF NewestKept, Newest, Newer
    <3>1. /\ b \in rows /\ \A d \in Calls : b \notin call[d].left
          /\ \E f \in files : f.id = b.id
      BY DEF BooksInv, NewestKept
    <3>2. b.id \notin call[c].id
      BY <1>1 DEF Newest
    <3> QED BY <1>3, <2>1, <3>1, <3>2
  <2> QED BY <2>2, <2>3, <2>4, <2>5 DEF BooksInv
<1> QED BY <1>2, <1>3, RecordMoves

LEMMA DropKeepsBooks ==
  ASSUME TypeOK, BooksInv, NEW c \in Calls, NEW r \in call[c].left,
         DropFile(c, r) \/ DropRow(c, r)
  PROVE  BooksInv'
<1>1. /\ made' = made /\ discarded' = discarded
      /\ rows' \in {rows, rows \ {r}} /\ files' \in {files, {f \in files : f.id # r.id}}
  BY DropFileMoves DEF DropFile, DropRow
<1>2. Drops(c, r)
  BY DropFileMoves, DroppedMoves DEF DropRow
<1>3. \A d \in Calls : /\ call'[d].id \subseteq call[d].id /\ call'[d].left \subseteq call[d].left
                       /\ d # c => call'[d].pc = call[d].pc
                       /\ call'[c].pc \notin Copying
  BY <1>2 DEF Drops, Alone, Same, Copying
<1>4. r \in made
  BY DEF BooksInv, LeftMade
<1>5. RowsMade' /\ IdsUnique'
  BY <1>1 DEF BooksInv, RowsMade, IdsUnique
<1>6. LeftMade' /\ IdsApart'
  BY <1>1, <1>3 DEF BooksInv, LeftMade, IdsApart
<1>7. NotYetMade'
  BY <1>1, <1>3 DEF BooksInv, NotYetMade
<1>8. ArchiveThere'
  <2> SUFFICES ASSUME NEW d \in Calls, call'[d].pc \in {"resume", "record"}, NEW i \in call'[d].id
               PROVE  \E f \in files' : f.id = i
    BY DEF ArchiveThere
  <2>1. d # c /\ call[d].pc \in {"resume", "record"} /\ i \in call[d].id
    BY <1>3 DEF Copying
  <2>2. PICK f \in files : f.id = i
    BY <2>1 DEF BooksInv, ArchiveThere
  <2>3. i # r.id
    BY <1>4, <2>1 DEF BooksInv, NotYetMade, Copying
  <2> QED BY <1>1, <2>2, <2>3
<1>9. NewestKept'
  <2> SUFFICES ASSUME NEW b \in Newest(made), b.id \notin discarded
               PROVE  /\ b \in rows' /\ \E f \in files' : f.id = b.id
                      /\ \A d \in Calls : b \notin call'[d].left
    BY <1>1 DEF NewestKept, Newest, Newer
  <2>1. /\ b \in rows /\ \A d \in Calls : b \notin call[d].left
        /\ \E f \in files : f.id = b.id
    BY DEF BooksInv, NewestKept
  <2>2. b # r /\ b.id # r.id
    BY <1>4, <2>1 DEF BooksInv, IdsUnique, Newest
  <2> QED BY <1>1, <1>3, <2>1, <2>2
<1> QED BY <1>5, <1>6, <1>7, <1>8, <1>9 DEF BooksInv

LEMMA DisturbanceKeepsBooks ==
  ASSUME TypeOK, BooksInv, NEW d \in Disturbances, call' = Disturbed(d),
         UNCHANGED <<rows, files, made, discarded>>
  PROVE  BooksInv'
<1> DEFINE f == Disturbed(d)
<1>1. \A c \in Calls : f[c].pc = call[c].pc /\ f[c].id = call[c].id /\ f[c].left = call[c].left
  BY DisturbedMoves DEF TypeOK
<1>2. call' = f
  OBVIOUS
<1> HIDE DEF f
<1>3. \A c \in Calls : call'[c].pc = call[c].pc /\ call'[c].id = call[c].id
                       /\ call'[c].left = call[c].left
  BY <1>1, <1>2
<1> QED BY <1>3, BooksStand

LEMMA BooksStep ==
  ASSUME TypeOK, LockInv, BooksInv, [Next]_vars
  PROVE  BooksInv'
<1>0. call \in [Calls -> Operations] /\ rows \subseteq Rows
  BY DEF TypeOK
<1>1. ASSUME NEW c \in Calls, AskBackup(c)
      PROVE  BooksInv'
  <2>1. PICK reason \in scene.taken : BeginCopy(c, "backup", reason, {}, FALSE)
    BY <1>1 DEF AskBackup
  <2>2. reason \in Reasons
    BY ScenesAssumption DEF TypeOK, Scene
  <2>3. UNCHANGED <<rows, files, made, discarded>>
    BY <1>1 DEF AskBackup
  <2> QED BY <2>1, <2>2, <2>3, BeginKeepsBooks
<1>2. ASSUME NEW c \in Calls, NEW r \in rows, AskDelete(c, r)
      PROVE  BooksInv'
  <2>1. /\ Alone(c) /\ call'[c].pc = "drop" /\ call'[c].id = {} /\ call'[c].left = {r}
        /\ rows' = rows /\ files' = files /\ made' = made
        /\ discarded' = discarded \cup {r.id}
    BY <1>2, DeleteMoves DEF AskDelete
  <2>2. RowsMade' /\ IdsUnique'
    BY <2>1 DEF BooksInv, RowsMade, IdsUnique
  <2>3. LeftMade' /\ IdsApart' /\ NotYetMade' /\ ArchiveThere'
    BY <2>1 DEF BooksInv, RowsMade, LeftMade, IdsApart, NotYetMade, ArchiveThere, Copying,
                Alone, Same
  <2>4. NewestKept'
    <3> SUFFICES ASSUME NEW b \in Newest(made), b.id \notin discarded'
                 PROVE  /\ b \in rows' /\ \E f \in files' : f.id = b.id
                        /\ \A d \in Calls : b \notin call'[d].left
      BY <2>1 DEF NewestKept, Newest, Newer
    <3>1. /\ b \in rows /\ \A d \in Calls : b \notin call[d].left
          /\ \E f \in files : f.id = b.id /\ b # r
      BY <2>1 DEF BooksInv, NewestKept
    <3> QED BY <2>1, <3>1 DEF Alone, Same
  <2> QED BY <2>2, <2>3, <2>4 DEF BooksInv
<1>3. ASSUME NEW c \in Calls, NEW r \in rows, AskRestore(c, r)
      PROVE  BooksInv'
  BY <1>3, RestoreMoves, BooksStand DEF AskRestore, Alone, Same, Copying
<1>4. ASSUME NEW c \in Calls, PauseSaves(c)
      PROVE  BooksInv'
  BY <1>4, PauseMoves, BooksStand DEF PauseSaves, Alone, Same, Copying
<1>5. ASSUME NEW c \in Calls, FinishZip(c)
      PROVE  BooksInv'
  <2>1. /\ call[c].pc = "zip" /\ UNCHANGED <<rows, made, discarded>> /\ files \subseteq files'
    BY <1>5 DEF FinishZip
  <2>2. /\ Alone(c)
        /\ call'[c].left \subseteq call[c].left /\ call'[c].id \subseteq call[c].id
        /\ call'[c].pc \in {"resume", "record"} =>
             files' = files \cup {[id |-> i, world |-> world] : i \in call[c].id}
    BY <1>5, ZipMoves
  <2>3. call'[c].pc \in {"resume", "record"} =>
          \A i \in call'[c].id : \E f \in files' : f.id = i
    <3> SUFFICES ASSUME call'[c].pc \in {"resume", "record"}, NEW i \in call'[c].id
                 PROVE  \E f \in files' : f.id = i
      OBVIOUS
    <3> DEFINE f == [id |-> i, world |-> world]
    <3>1. f \in files' /\ f.id = i
      BY <2>2
    <3> QED BY <3>1
  <2> QED BY <2>1, <2>2, <2>3, BooksStand DEF Alone, Same, Copying
<1>6. ASSUME NEW c \in Calls, ResumeSaves(c)
      PROVE  BooksInv'
  <2>1. /\ call[c].pc \in {"resume", "fail"} /\ UNCHANGED <<rows, files, made, discarded>>
    BY <1>6 DEF ResumeSaves
  <2>2. /\ Alone(c) /\ call'[c].left \subseteq call[c].left
        /\ \/ call[c].pc = "resume" /\ call'[c].pc = "record" /\ call'[c].id = call[c].id
           \/ call'[c].pc = "idle" /\ call'[c].id = {}
    BY <1>6, ResumeMoves
  <2> QED BY <2>1, <2>2, BooksStand DEF Alone, Same, Copying
<1>7. ASSUME NEW c \in Calls, Prune(c)
      PROVE  BooksInv'
  <2>1. /\ call[c].pc = "prune" /\ UNCHANGED <<rows, files, made, discarded>>
    BY <1>7 DEF Prune
  <2>2. /\ Alone(c)
        /\ call'[c].pc \in {"prune", "wipe", "idle", "drop"} /\ call'[c].id \subseteq call[c].id
        /\ call'[c].left \subseteq rows /\ \A b \in Newest(rows) : b \notin call'[c].left
    BY <1>7, PruneMoves
  <2>3. RowsMade' /\ IdsUnique'
    BY <2>1 DEF BooksInv, RowsMade, IdsUnique
  <2>4. LeftMade' /\ IdsApart' /\ NotYetMade' /\ ArchiveThere'
    BY <2>1, <2>2 DEF BooksInv, RowsMade, LeftMade, IdsApart, NotYetMade, ArchiveThere,
                      Copying, Alone, Same
  <2>5. NewestKept'
    <3> SUFFICES ASSUME NEW b \in Newest(made), b.id \notin discarded
                 PROVE  /\ b \in rows /\ \E f \in files : f.id = b.id
                        /\ \A d \in Calls : b \notin call'[d].left
      BY <2>1 DEF NewestKept, Newest, Newer
    <3>1. /\ b \in rows /\ \A d \in Calls : b \notin call[d].left
          /\ \E f \in files : f.id = b.id
      BY DEF BooksInv, NewestKept
    <3>2. b \in Newest(rows)
      BY <3>1 DEF BooksInv, RowsMade, Newest
    <3> QED BY <2>2, <3>1, <3>2 DEF Alone, Same
  <2> QED BY <2>3, <2>4, <2>5 DEF BooksInv
<1>8. ASSUME NEW c \in Calls, StopForRestore(c)
      PROVE  BooksInv'
  <2>1. UNCHANGED <<rows, files, made, discarded>>
    BY <1>8 DEF StopForRestore
  <2>3. CASE call' = Disturbed("restart")
    BY <2>1, <2>3, DisturbanceKeepsBooks DEF Disturbances
  <2>4. CASE call' = [call EXCEPT ![c] = Idle]
    <3>1. call'[c] = Idle /\ Alone(c)
      BY <1>0, <2>4, OneMoves, IdleType DEF Alone
    <3> QED BY <2>1, <3>1, IdleType, BooksStand DEF Alone, Same, Copying
  <2>5. ASSUME NEW pc \in {"safety", "wipe"}, call' = [call EXCEPT ![c].pc = pc]
        PROVE  BooksInv'
    BY <2>1, <2>5, StoppedMoves, BooksStand DEF Alone, Same, Copying
  <2> QED BY <1>8, <2>3, <2>4, <2>5, StopMoves
<1>13. ASSUME NEW c \in Calls, BeginSafety(c)
       PROVE  BooksInv'
  <2>1. UNCHANGED <<rows, files, made, discarded>>
    BY <1>13 DEF BeginSafety
  <2> QED BY <1>13, <2>1, SafetyMoves, BeginKeepsBooks
<1>9. ASSUME NEW c \in Calls, Wipe(c) \/ Extract(c)
      PROVE  BooksInv'
  <2>1. UNCHANGED <<rows, files, made, discarded>>
    BY <1>9 DEF Wipe, Extract
  <2>2. /\ call'[c].pc \in {"extract", "idle"} /\ call'[c].id \subseteq call[c].id
        /\ call'[c].left \subseteq call[c].left
        /\ \A d \in Calls : d # c => Same(d)
    BY <1>9, DirectoryMoves
  <2> QED BY <2>1, <2>2, BooksStand DEF Same, Copying
<1>10. CASE StartServer \/ StopServer \/ WriteWorld
  <2>1. UNCHANGED <<rows, files, made, discarded>>
    BY <1>10 DEF StartServer, StopServer, WriteWorld
  <2>2. ASSUME NEW d \in Disturbances, call' = Disturbed(d)
        PROVE  BooksInv'
    BY <2>1, <2>2, DisturbanceKeepsBooks
  <2> QED BY <1>10, <2>2 DEF StartServer, StopServer, WriteWorld, Disturbances
<1>11. CASE Crash
  <2>1. UNCHANGED <<rows, files, made, discarded>> /\ \A d \in Calls : call'[d] = Idle
    BY <1>11 DEF Crash
  <2> QED BY <2>1, IdleType, BooksStand DEF Copying
<1>12. CASE Tick \/ UNCHANGED vars
  <2>1. UNCHANGED <<rows, files, made, discarded, call>>
    BY <1>12 DEF Tick, vars
  <2> QED BY <2>1, BooksStand DEF Copying
<1> QED
  BY <1>1, <1>2, <1>3, <1>4, <1>5, <1>6, <1>7, <1>8, <1>9, <1>10, <1>11, <1>12, <1>13,
     RecordKeepsBooks, DropKeepsBooks
  DEF Next, CallStep, CopyStep, DropStep, RestoreStep

LEMMA BooksInit == Init => BooksInv
<1> SUFFICES ASSUME Init PROVE BooksInv
  OBVIOUS
<1>1. made = {} /\ rows = {} /\ \A c \in Calls : call[c] = Idle
  BY DEF Init
<1> QED BY <1>1, IdleType DEF BooksInv, RowsMade, IdsUnique, LeftMade, IdsApart, NotYetMade,
                              ArchiveThere, NewestKept, Newest

LEMMA BooksHold == Spec => []BooksInv
<1>1. TypeOK /\ LockInv /\ BooksInv /\ [Next]_vars => BooksInv'
  BY BooksStep
<1> QED BY <1>1, BooksInit, Inductive, PTL DEF Spec

(* pruneRetention never takes the newest backup, although it drops rows    *)
(* one by one after reading them, and backups of other callers come in and *)
(* prune meanwhile.                                                        *)
THEOREM NewestIsKept == Spec => []NewestSurvives
<1>1. BooksInv => NewestSurvives
  BY DEF BooksInv, NewestKept, NewestSurvives
<1> QED BY <1>1, BooksHold, PTL

-----------------------------------------------------------------------------
(* Saves come back.  Whoever paused them, or found them paused while it    *)
(* waited for the lock, is still in its section, or has sent its save-on.  *)

InSection(c) == call[c].pc \in {"zip", "resume", "fail"} /\ call[c].lock # "none"

\* A step that leaves the saves as they are and lets nobody out of its section.
LEMMA SavesStand ==
  ASSUME SavesComeBack, saving' = saving, live' => live, stuck => stuck',
         \A d \in Calls : InSection(d) => InSection(d)'
  PROVE  SavesComeBack'
  BY DEF SavesComeBack, InSection

\* The same, when c is the only call that moves and is outside.
LEMMA OutsiderKeepsSaves ==
  ASSUME SavesComeBack, saving' = saving, live' = live, stuck' = stuck,
         NEW c \in Calls, Alone(c), ~InSection(c)
  PROVE  SavesComeBack'
<1>1. ASSUME NEW d \in Calls, InSection(d)
      PROVE  InSection(d)'
  <2>1. d # c
    BY <1>1
  <2> QED BY <1>1, <2>1 DEF Alone, Same, InSection
<1> QED BY <1>1, SavesStand

LEMMA DisturbanceKeepsSaves ==
  ASSUME TypeOK, SavesComeBack, NEW d \in Disturbances, call' = Disturbed(d),
         saving' = saving, live' => live, stuck' = stuck
  PROVE  SavesComeBack'
<1> DEFINE f == Disturbed(d)
<1>1. \A c \in Calls : f[c].pc = call[c].pc /\ f[c].lock = call[c].lock
  BY DisturbedMoves DEF TypeOK
<1>2. call' = f
  OBVIOUS
<1> HIDE DEF f
<1>3. \A c \in Calls : InSection(c) => InSection(c)'
  BY <1>1, <1>2 DEF InSection
<1> QED BY <1>3, SavesStand

LEMMA SavesStep ==
  ASSUME TypeOK, LockInv, SavesComeBack, [Next]_vars
  PROVE  SavesComeBack'
<1>0. /\ call \in [Calls -> Operations]
      /\ live \in BOOLEAN /\ saving \in BOOLEAN /\ stuck \in BOOLEAN
  BY DEF TypeOK
<1>1. ASSUME NEW c \in Calls, AskBackup(c)
      PROVE  SavesComeBack'
  <2>1. PICK reason \in scene.taken : BeginCopy(c, "backup", reason, {}, FALSE)
    BY <1>1 DEF AskBackup
  <2>2. reason \in Reasons
    BY ScenesAssumption DEF TypeOK, Scene
  <2>3. Alone(c)
    BY <2>1, <2>2, BeginMoves
  <2> QED BY <1>1, <2>3, OutsiderKeepsSaves DEF AskBackup, InSection
<1>2. ASSUME NEW c \in Calls, NEW r \in rows, AskDelete(c, r) \/ AskRestore(c, r)
      PROVE  SavesComeBack'
  <2>1. Alone(c)
    BY <1>2, DeleteMoves, RestoreMoves
  <2> QED BY <1>2, <2>1, OutsiderKeepsSaves DEF AskDelete, AskRestore, InSection
<1>3. ASSUME NEW c \in Calls, PauseSaves(c)
      PROVE  SavesComeBack'
  <2>1. call[c].pc = "queued" /\ live' = live /\ stuck' = stuck
    BY <1>3 DEF PauseSaves
  <2>2. /\ Alone(c) /\ call'[c].pc = "zip"
        /\ \/ live /\ ~saving' /\ call'[c].lock = "paused"
           \/ saving' = saving /\ call'[c].lock = call[c].lock
    BY <1>3, PauseMoves
  <2>3. CASE call'[c].lock = "paused"
    BY <2>2, <2>3 DEF SavesComeBack
  <2>4. CASE saving' = saving
    BY <2>1, <2>2, <2>4, OutsiderKeepsSaves DEF InSection
  <2> QED BY <2>2, <2>3, <2>4
<1>4. ASSUME NEW c \in Calls, FinishZip(c)
      PROVE  SavesComeBack'
  <2>1. saving' = saving /\ live' = live /\ stuck' = stuck
    BY <1>4 DEF FinishZip
  <2>2. Alone(c) /\ (InSection(c) => InSection(c)')
    BY <1>4, ZipMoves DEF InSection
  <2>3. \A d \in Calls : InSection(d) => InSection(d)'
    BY <2>2 DEF Alone, Same, InSection
  <2> QED BY <2>1, <2>3, SavesStand
<1>5. ASSUME NEW c \in Calls, ResumeSaves(c)
      PROVE  SavesComeBack'
  <2>1. saving' = TRUE \/ (saving' = saving /\ stuck' = (stuck \/ ~saving))
    BY <1>5 DEF ResumeSaves
  <2>2. saving' \/ stuck'
    BY <1>0, <2>1
  <2> QED BY <2>2 DEF SavesComeBack
<1>6. ASSUME NEW c \in Calls, Record(c) \/ Prune(c)
      PROVE  SavesComeBack'
  <2>1. Alone(c)
    BY <1>6, RecordMoves, PruneMoves
  <2> QED BY <1>6, <2>1, OutsiderKeepsSaves DEF Record, Prune, InSection
<1>7. ASSUME NEW c \in Calls, NEW r \in call[c].left, DropFile(c, r) \/ DropRow(c, r)
      PROVE  SavesComeBack'
  <2>1. Alone(c)
    BY <1>7, DropFileMoves, DroppedMoves DEF DropRow, Drops
  <2> QED BY <1>7, <2>1, OutsiderKeepsSaves DEF DropFile, DropRow, InSection
<1>8. ASSUME NEW c \in Calls, StopForRestore(c)
      PROVE  SavesComeBack'
  <2>1. saving' = saving /\ stuck' = stuck /\ ~InSection(c)
    BY <1>8 DEF StopForRestore, InSection
  <2>2. CASE ~live' /\ call' = Disturbed("restart")
    BY <2>2 DEF SavesComeBack
  <2>3. CASE live' = live /\ call' = [call EXCEPT ![c] = Idle]
    <3>1. Alone(c)
      BY <1>0, <2>3, OneMoves, IdleType DEF Alone
    <3> QED BY <2>1, <2>3, <3>1, OutsiderKeepsSaves
  <2>4. ASSUME NEW pc \in {"safety", "wipe"},
               live' = live, call' = [call EXCEPT ![c].pc = pc]
        PROVE  SavesComeBack'
    BY <2>1, <2>4, StoppedMoves, OutsiderKeepsSaves
  <2> QED BY <1>8, <2>2, <2>3, <2>4, StopMoves
<1>14. ASSUME NEW c \in Calls, BeginSafety(c)
       PROVE  SavesComeBack'
  <2>1. Alone(c)
    BY <1>14, SafetyMoves, BeginMoves
  <2> QED BY <1>14, <2>1, OutsiderKeepsSaves DEF BeginSafety, InSection
<1>9. ASSUME NEW c \in Calls, Wipe(c) \/ Extract(c)
      PROVE  SavesComeBack'
  <2>1. saving' = saving /\ live' = live /\ stuck' = stuck /\ ~InSection(c)
    BY <1>9 DEF Wipe, Extract, InSection
  <2>2. \A d \in Calls : d # c => Same(d)
    BY <1>9, DirectoryMoves
  <2>3. ASSUME NEW d \in Calls, InSection(d)
        PROVE  InSection(d)'
    <3>1. d # c
      BY <2>1, <2>3
    <3> QED BY <2>2, <2>3, <3>1 DEF Same, InSection
  <2> QED BY <2>1, <2>3, SavesStand
<1>10. CASE StartServer \/ StopServer
  BY <1>0, <1>10 DEF StartServer, StopServer, SavesComeBack
<1>11. CASE WriteWorld
  BY <1>11, DisturbanceKeepsSaves DEF WriteWorld, Disturbances
<1>12. CASE Crash
  BY <1>0, <1>12 DEF Crash, SavesComeBack
<1>13. CASE Tick \/ UNCHANGED vars
  BY <1>13, SavesStand DEF Tick, vars, InSection
<1> QED
  BY <1>1, <1>2, <1>3, <1>4, <1>5, <1>6, <1>7, <1>8, <1>9, <1>10, <1>11, <1>12, <1>13,
     <1>14
  DEF Next, CallStep, CopyStep, DropStep, RestoreStep

(* However the copies of several callers fail or interleave, a running     *)
(* server that does not save has somebody in the save lock's section, who  *)
(* will send save-on, or a save-on that RCON or the panel's end lost       *)
(* (WorldSaveLockService, runInSaveLock's finally).                        *)
THEOREM SavesReturn == Spec => []SavesComeBack
<1>1. Init => SavesComeBack
  BY DEF Init, SavesComeBack
<1>2. TypeOK /\ LockInv /\ SavesComeBack /\ [Next]_vars => SavesComeBack'
  BY SavesStep
<1> QED BY <1>1, <1>2, Inductive, PTL DEF Spec

-----------------------------------------------------------------------------
(* A restore's safety backup.  The restore knows of every change of the    *)
(* world between its copy and the wipe, and no pass of anybody's retention *)
(* means to drop the copy.                                                 *)

\* o is the call q further on, about the same backup
Kin(o, q) == /\ o.kind = q.kind /\ o.safety = q.safety
             /\ o.id = q.id /\ o.before = q.before /\ q.after \subseteq o.after

\* c's call goes on or ends, the others are what they were
GoesOn(c) == /\ call'[c] = Idle \/ Kin(call'[c], call[c])
             /\ \A d \in Calls : d # c => Kin(call'[d], call[d])

LEMMA OneGoesOn ==
  ASSUME call \in [Calls -> Operations], NEW c \in Calls, NEW o,
         call' = [call EXCEPT ![c] = o], o = Idle \/ Kin(o, call[c])
  PROVE  call'[c] = o /\ GoesOn(c)
<1>1. call'[c] = o /\ \A d \in Calls : d # c => call'[d] = call[d]
  OBVIOUS
<1> QED BY <1>1 DEF GoesOn, Kin

LEMMA CopiedKin ==
  ASSUME call \in [Calls -> Operations], NEW c \in Calls, NEW ok \in BOOLEAN,
         NEW o, o = Copied(c, ok)
  PROVE  o = Idle \/ Kin(o, call[c])
<1> DEFINE q == call[c]
<1>1. q \in Operations
  OBVIOUS
<1>2. CASE ok
  <2>1. o = [q EXCEPT !.pc = "record", !.lock = "none", !.torn = {}]
    BY <1>2 DEF Copied
  <2> HIDE DEF q
  <2>2. Kin(o, q)
    BY <1>1, <2>1 DEF Kin, Operations
  <2> QED BY <2>2 DEF q
<1>3. CASE ~ok
  BY <1>3 DEF Copied
<1> QED BY <1>2, <1>3

LEMMA PassedOnKin ==
  ASSUME call \in [Calls -> Operations], NEW c \in Calls, NEW o, o = PassedOn(c)
  PROVE  /\ o = Idle \/ Kin(o, call[c])
         /\ o.pc = "wipe" => call[c].kind = "restore"
<1> DEFINE q == call[c]
           p == Min(Rest(q.pass))
<1>1. q \in Operations
  OBVIOUS
<1>2. CASE q.kind # "delete" /\ Rest(q.pass) # {}
  <2>1. o = [q EXCEPT !.pc = "prune", !.left = {}, !.pass = p]
    BY <1>2 DEF PassedOn
  <2> HIDE DEF q, p
  <2>2. Kin(o, q) /\ o.pc = "prune"
    BY <1>1, <2>1 DEF Kin, Operations
  <2> QED BY <2>2 DEF q
<1>3. CASE ~(q.kind # "delete" /\ Rest(q.pass) # {}) /\ q.kind = "restore"
  <2>1. o = [q EXCEPT !.pc = "wipe", !.left = {}, !.pass = 1]
    BY <1>3 DEF PassedOn
  <2> HIDE DEF q
  <2>2. Kin(o, q)
    BY <1>1, <2>1 DEF Kin, Operations
  <2> QED BY <1>3, <2>2 DEF q
<1>4. CASE ~(q.kind # "delete" /\ Rest(q.pass) # {}) /\ q.kind # "restore"
  BY <1>4, IdleType DEF PassedOn
<1> QED BY <1>2, <1>3, <1>4

LEMMA DroppedKin ==
  ASSUME call \in [Calls -> Operations], NEW c \in Calls, NEW r, NEW o, o = Dropped(c, r)
  PROVE  /\ o = Idle \/ Kin(o, call[c])
         /\ o.pc = "wipe" => call[c].kind = "restore"
<1> DEFINE q == call[c]
           S == q.left \ {r}
<1>1. q \in Operations
  OBVIOUS
<1>2. CASE q.left = {r}
  BY <1>2, PassedOnKin DEF Dropped
<1>3. CASE q.left # {r}
  <2>1. o = [q EXCEPT !.pc = "drop", !.left = S]
    BY <1>3 DEF Dropped
  <2> HIDE DEF q, S
  <2>2. Kin(o, q) /\ o.pc = "drop"
    BY <1>1, <2>1 DEF Kin, Operations
  <2> QED BY <2>2 DEF q
<1> QED BY <1>2, <1>3

\* [q EXCEPT !.pc = x] is about q's backup.
LEMMA GoesKin ==
  ASSUME NEW q \in Operations, NEW x
  PROVE  /\ Kin([q EXCEPT !.pc = x], q) /\ Kin([q EXCEPT !.pc = x, !.lock = "paused"], q)
         /\ [q EXCEPT !.pc = x].pc = x
  BY DEF Kin, Operations

LEMMA CopyGoesOn ==
  ASSUME TypeOK, NEW c \in Calls, CopyStep(c)
  PROVE  GoesOn(c)
<1> DEFINE q == call[c]
<1>0. call \in [Calls -> Operations] /\ q \in Operations
  BY DEF TypeOK
<1>1. ASSUME NEW x, call' = [call EXCEPT ![c].pc = x]
      PROVE  GoesOn(c)
  BY <1>0, <1>1, GoesKin, OneGoesOn
<1>2. CASE PauseSaves(c)
  <2>1. CASE call' = [call EXCEPT ![c].pc = "zip", ![c].lock = "paused"]
    <3> DEFINE o == [q EXCEPT !.pc = "zip", !.lock = "paused"]
    <3>1. call' = [call EXCEPT ![c] = o]
      BY <2>1, <1>0
    <3>2. Kin(o, call[c])
      BY <1>0, GoesKin
    <3> QED BY <1>0, <3>1, <3>2, OneGoesOn
  <2> QED BY <1>1, <1>2, <2>1 DEF PauseSaves, Goes
<1>3. CASE FinishZip(c)
  <2>1. PICK ok \in BOOLEAN :
          call' = [call EXCEPT ![c] = IF @.lock # "none"
                                      THEN [@ EXCEPT !.pc = IF ok THEN "resume" ELSE "fail"]
                                      ELSE Copied(c, ok)]
    BY <1>3 DEF FinishZip
  <2> DEFINE x == IF ok THEN "resume" ELSE "fail"
             o == [q EXCEPT !.pc = x]
  <2>2. CASE q.lock # "none"
    <3>1. call' = [call EXCEPT ![c] = o]
      BY <2>1, <2>2, <1>0
    <3>2. Kin(o, call[c])
      BY <1>0, GoesKin
    <3> QED BY <1>0, <3>1, <3>2, OneGoesOn
  <2>3. CASE q.lock = "none"
    BY <1>0, <2>1, <2>3, CopiedKin, OneGoesOn
  <2> QED BY <2>2, <2>3
<1>4. CASE ResumeSaves(c)
  <2> DEFINE ok == call[c].pc = "resume"
  <2>1. call' = [call EXCEPT ![c] = Copied(c, ok)]
    BY <1>0, <1>4 DEF ResumeSaves
  <2>2. ok \in BOOLEAN
    OBVIOUS
  <2> QED BY <1>0, <2>1, <2>2, CopiedKin, OneGoesOn
<1>5. CASE Record(c)
  <2>1. CASE call' = [call EXCEPT ![c] = Idle]
    BY <1>0, <2>1, OneGoesOn
  <2> QED BY <1>1, <1>5, <2>1 DEF Record
<1> QED BY <1>2, <1>3, <1>4, <1>5 DEF CopyStep

LEMMA DropGoesOn ==
  ASSUME TypeOK, NEW c \in Calls, DropStep(c)
  PROVE  /\ GoesOn(c)
         /\ call'[c].pc = "wipe" => call[c].kind = "restore"
<1> DEFINE q == call[c]
<1>0. call \in [Calls -> Operations] /\ q \in Operations
  BY DEF TypeOK
<1>1. ASSUME NEW o, call' = [call EXCEPT ![c] = o], o = Idle \/ Kin(o, call[c]),
             o.pc = "wipe" => call[c].kind = "restore"
      PROVE  /\ GoesOn(c)
             /\ call'[c].pc = "wipe" => call[c].kind = "restore"
  BY <1>0, <1>1, OneGoesOn
<1>2. CASE Prune(c)
  <2> DEFINE drops == Candidates(Passes[q.pass])
             o == [q EXCEPT !.pc = "drop", !.left = drops]
  <2>1. CASE drops = {}
    <3>1. call' = [call EXCEPT ![c] = PassedOn(c)]
      BY <1>2, <2>1 DEF Prune
    <3> QED BY <1>0, <1>1, <3>1, PassedOnKin
  <2>2. CASE drops # {}
    <3>1. call' = [call EXCEPT ![c] = o]
      BY <1>2, <2>2 DEF Prune
    <3> HIDE DEF q, drops
    <3>2. Kin(o, q) /\ o.pc = "drop"
      BY <1>0 DEF Kin, Operations
    <3> HIDE DEF o
    <3> QED BY <1>1, <3>1, <3>2 DEF q
  <2> QED BY <2>1, <2>2
<1>3. ASSUME NEW r, call' = [call EXCEPT ![c] = Dropped(c, r)]
      PROVE  /\ GoesOn(c)
             /\ call'[c].pc = "wipe" => call[c].kind = "restore"
  BY <1>0, <1>1, <1>3, DroppedKin
<1>4. CASE Goes(c, "dropRow")
  <2> DEFINE o == [q EXCEPT !.pc = "dropRow"]
  <2>1. call' = [call EXCEPT ![c] = o]
    BY <1>0, <1>4 DEF Goes
  <2>2. Kin(o, call[c]) /\ o.pc = "dropRow"
    BY <1>0, GoesKin
  <2> HIDE DEF o
  <2> QED BY <1>1, <2>1, <2>2
<1> QED BY <1>2, <1>3, <1>4 DEF DropStep, DropFile, DropRow

LEMMA DisturbedKin ==
  ASSUME TypeOK, NEW d \in Disturbances, NEW c \in Calls
  PROVE  /\ Kin(Disturbed(d)[c], call[c])
         /\ CopiedAlready(c) => d \in Disturbed(d)[c].after
<1> DEFINE q == call[c]
           S == q.torn \cup {d}
           A == q.after \cup {d}
<1>1. q \in Operations
  BY DEF TypeOK
<1>2. Disturbed(d)[c] = IF q.pc = "zip" THEN [q EXCEPT !.torn = S]
                        ELSE IF CopiedAlready(c) THEN [q EXCEPT !.after = A] ELSE q
  BY DEF Disturbed
<1>3. CopiedAlready(c) => q.pc # "zip"
  BY DEF CopiedAlready
<1>4. q.after \subseteq A /\ d \in A
  OBVIOUS
<1> HIDE DEF q, S, A
<1>5. Kin([q EXCEPT !.torn = S], q) /\ Kin(q, q)
  BY <1>1 DEF Kin, Operations
<1>6. Kin([q EXCEPT !.after = A], q) /\ d \in [q EXCEPT !.after = A].after
  BY <1>1, <1>4 DEF Kin, Operations
<1> QED BY <1>2, <1>3, <1>5, <1>6 DEF q

\* What a restore's own step on the directory leaves of it.
LEMMA DirectoryKin ==
  ASSUME TypeOK, NEW c \in Calls, Wipe(c) \/ Extract(c)
  PROVE  /\ \A d \in Calls : d # c => /\ Kin(call'[d], call[d])
                                      /\ CopiedAlready(d) => "restore" \in call'[d].after
         /\ Extract(c) => call'[c] = Idle
         /\ Wipe(c) => /\ call'[c].safety = call[c].safety /\ call'[c].id = call[c].id
                       /\ call'[c].after = call[c].after /\ call'[c].pc = "extract"
                       /\ call'[c].before = world
<1> DEFINE f == Disturbed("restore")
           q == call[c]
<1>0. /\ call \in [Calls -> Operations] /\ "restore" \in Disturbances
      /\ f \in [Calls -> Operations] /\ q \in Operations
  BY DisturbedMoves DEF TypeOK, Disturbances
<1>1. \A d \in Calls : /\ Kin(f[d], call[d])
                       /\ CopiedAlready(d) => "restore" \in f[d].after
  BY <1>0, DisturbedKin
<1>3. CASE Wipe(c)
  <2> DEFINE o == [q EXCEPT !.pc = "extract", !.before = world]
  <2>1. call' = [f EXCEPT ![c] = o]
    BY <1>0, <1>3 DEF Wipe
  <2> HIDE DEF f, q
  <2>2. /\ o.safety = q.safety /\ o.id = q.id /\ o.after = q.after
        /\ o.pc = "extract" /\ o.before = world
    BY <1>0 DEF Operations
  <2> HIDE DEF o
  <2>3. call'[c] = o /\ \A d \in Calls : d # c => call'[d] = f[d]
    BY <1>0, <2>1
  <2>4. ~Extract(c)
    BY <1>3 DEF Wipe, Extract
  <2>5. \A d \in Calls : d # c => /\ Kin(call'[d], call[d])
                                  /\ CopiedAlready(d) => "restore" \in call'[d].after
    BY <1>1, <2>3
  <2> QED BY <2>2, <2>3, <2>4, <2>5 DEF q
<1>4. CASE Extract(c)
  <2>1. call' = [f EXCEPT ![c] = Idle]
    BY <1>4 DEF Extract
  <2> HIDE DEF f
  <2>2. call'[c] = Idle /\ \A d \in Calls : d # c => call'[d] = f[d]
    BY <1>0, <2>1
  <2>3. ~Wipe(c)
    BY <1>4 DEF Wipe, Extract
  <2>4. \A d \in Calls : d # c => /\ Kin(call'[d], call[d])
                                  /\ CopiedAlready(d) => "restore" \in call'[d].after
    BY <1>1, <2>2
  <2> QED BY <2>2, <2>3, <2>4
<1> QED BY <1>3, <1>4

LEMMA BeginKin ==
  ASSUME TypeOK, NEW c \in Calls, NEW kind, NEW reason, NEW target, NEW safety,
         BeginCopy(c, kind, reason, target, safety)
  PROVE  /\ \A d \in Calls : d # c => Kin(call'[d], call[d])
         /\ call'[c].kind = kind /\ call'[c].safety = safety
<1>1. PICK i \in FreshId :
        call' = [call EXCEPT ![c] =
             [Idle EXCEPT !.pc = IF live THEN "queued" ELSE "zip", !.kind = kind,
                          !.reason = reason, !.id = {i}, !.target = target,
                          !.safety = safety, !.lock = IF live THEN "locked" ELSE "none"]]
  BY DEF BeginCopy
<1> DEFINE pc == IF live THEN "queued" ELSE "zip"
           lock == IF live THEN "locked" ELSE "none"
           o == [Idle EXCEPT !.pc = pc, !.kind = kind, !.reason = reason, !.id = {i},
                             !.target = target, !.safety = safety, !.lock = lock]
<1>2. call' = [call EXCEPT ![c] = o]
  BY <1>1
<1>3. o.kind = kind /\ o.safety = safety
  BY DEF Idle
<1> HIDE DEF o
<1>4. call'[c] = o /\ \A d \in Calls : d # c => call'[d] = call[d]
  BY <1>2 DEF TypeOK
<1> QED BY <1>3, <1>4 DEF Kin

LEMMA AskKin ==
  ASSUME TypeOK, NEW c \in Calls, NEW r \in rows, AskDelete(c, r) \/ AskRestore(c, r)
  PROVE  /\ \A d \in Calls : d # c => Kin(call'[d], call[d])
         /\ AskDelete(c, r) => ~call'[c].safety
<1>0. call \in [Calls -> Operations]
  BY DEF TypeOK
<1>1. ASSUME NEW o, call' = [call EXCEPT ![c] = o]
      PROVE  call'[c] = o /\ \A d \in Calls : d # c => Kin(call'[d], call[d])
  BY <1>0, <1>1 DEF Kin
<1>2. CASE AskDelete(c, r)
  <2> DEFINE o == [Idle EXCEPT !.pc = "drop", !.kind = "delete", !.left = {r}]
  <2>1. call' = [call EXCEPT ![c] = o]
    BY <1>2 DEF AskDelete
  <2>2. ~o.safety /\ o.pc = "drop"
    BY DEF Idle
  <2> HIDE DEF o
  <2>3. call'[c] = o /\ \A d \in Calls : d # c => Kin(call'[d], call[d])
    BY <1>1, <2>1
  <2>4. ~AskRestore(c, r)
    BY <1>2, <2>2, <2>3, RestoreMoves
  <2> QED BY <2>2, <2>3, <2>4
<1>3. CASE AskRestore(c, r)
  <2>1. PICK safety \in BOOLEAN :
          call' = [call EXCEPT ![c] = [Idle EXCEPT !.pc = "stop", !.kind = "restore",
                     !.reason = "pre-restore", !.target = {r.id}, !.safety = safety]]
    BY <1>3 DEF AskRestore
  <2> DEFINE o == [Idle EXCEPT !.pc = "stop", !.kind = "restore",
                     !.reason = "pre-restore", !.target = {r.id}, !.safety = safety]
  <2>2. call' = [call EXCEPT ![c] = o]
    BY <2>1
  <2>3. o.pc = "stop"
    BY DEF Idle
  <2> HIDE DEF o
  <2>4. call'[c] = o /\ \A d \in Calls : d # c => Kin(call'[d], call[d])
    BY <1>1, <2>2
  <2>5. ~AskDelete(c, r)
    BY <2>3, <2>4, DeleteMoves
  <2> QED BY <2>4, <2>5
<1> QED BY <1>2, <1>3

\* a copy has a name to be archived under
CopiesNamed == \A c \in Calls : call[c].pc \in {"queued", "zip"} => call[c].id # {}

\* A step of c's that leaves no copy of its own under way, and moves nobody else.
LEMMA NoNewCopy ==
  ASSUME CopiesNamed, NEW c \in Calls, call'[c].pc \notin {"queued", "zip"},
         \A d \in Calls : d # c => Same(d)
  PROVE  CopiesNamed'
  BY DEF CopiesNamed, Same

LEMMA BeginNamesCopy ==
  ASSUME TypeOK, CopiesNamed, NEW c \in Calls, NEW kind \in {"backup", "restore"},
         NEW reason \in Reasons, NEW target \in SUBSET Ids, NEW safety \in BOOLEAN,
         BeginCopy(c, kind, reason, target, safety)
  PROVE  CopiesNamed'
<1>0. /\ call' \in [Calls -> Operations] /\ Alone(c)
      /\ \E i \in FreshId : call'[c].id = {i}
      /\ call'[c].left = {} /\ call'[c].torn = {}
      /\ live => /\ call'[c].pc = "queued" /\ call'[c].lock = "locked"
                 /\ tail' = Append(tail, c)
      /\ ~live => call'[c].pc = "zip" /\ call'[c].lock = "none" /\ tail' = tail
  BY BeginMoves, Zenon
<1>2. \E i \in FreshId : call'[c].id = {i}
  BY <1>0
<1> QED BY <1>0, <1>2 DEF CopiesNamed, Alone, Same

LEMMA DisturbanceKeepsNames ==
  ASSUME TypeOK, CopiesNamed, NEW x \in Disturbances, call' = Disturbed(x)
  PROVE  CopiesNamed'
<1> DEFINE f == Disturbed(x)
<1>1. \A d \in Calls : f[d].pc = call[d].pc /\ f[d].id = call[d].id
  BY DisturbedMoves DEF TypeOK
<1>2. call' = f
  OBVIOUS
<1> HIDE DEF f
<1> QED BY <1>1, <1>2 DEF CopiesNamed

LEMMA NamesStep ==
  ASSUME TypeOK, CopiesNamed, [Next]_vars
  PROVE  CopiesNamed'
<1>0. call \in [Calls -> Operations]
  BY DEF TypeOK
<1>1. ASSUME NEW c \in Calls, AskBackup(c)
      PROVE  CopiesNamed'
  <2>1. PICK reason \in scene.taken : BeginCopy(c, "backup", reason, {}, FALSE)
    BY <1>1 DEF AskBackup
  <2>2. reason \in Reasons
    BY ScenesAssumption DEF TypeOK, Scene
  <2> QED BY <2>1, <2>2, BeginNamesCopy
<1>2. ASSUME NEW c \in Calls, NEW r \in rows, AskDelete(c, r) \/ AskRestore(c, r)
      PROVE  CopiesNamed'
  BY <1>2, DeleteMoves, RestoreMoves, NoNewCopy DEF Alone
<1>3. ASSUME NEW c \in Calls, PauseSaves(c)
      PROVE  CopiesNamed'
  <2>1. call[c].pc = "queued" /\ Alone(c) /\ call'[c].id = call[c].id
    BY <1>3, PauseMoves DEF PauseSaves
  <2> QED BY <2>1 DEF CopiesNamed, Alone, Same
<1>4. ASSUME NEW c \in Calls, FinishZip(c) \/ ResumeSaves(c) \/ Record(c) \/ Prune(c)
      PROVE  CopiesNamed'
  <2>1. Alone(c) /\ call'[c].pc \notin {"queued", "zip"}
    BY <1>4, ZipMoves, ResumeMoves, RecordMoves, PruneMoves
  <2> QED BY <2>1, NoNewCopy DEF Alone
<1>5. ASSUME NEW c \in Calls, NEW r \in call[c].left, DropFile(c, r) \/ DropRow(c, r)
      PROVE  CopiesNamed'
  <2>1. Drops(c, r)
    BY <1>5, DropFileMoves, DroppedMoves DEF DropRow
  <2> QED BY <2>1, NoNewCopy DEF Drops, Alone
<1>6. ASSUME NEW c \in Calls, StopForRestore(c)
      PROVE  CopiesNamed'
  <2>1. CASE call' = Disturbed("restart")
    BY <2>1, DisturbanceKeepsNames DEF Disturbances
  <2>2. CASE call' = [call EXCEPT ![c] = Idle]
    <3>1. Alone(c) /\ call'[c] = Idle
      BY <1>0, <2>2, OneMoves, IdleType DEF Alone
    <3> QED BY <3>1, IdleType, NoNewCopy DEF Alone
  <2>3. ASSUME NEW pc \in {"safety", "wipe"}, call' = [call EXCEPT ![c].pc = pc]
        PROVE  CopiesNamed'
    BY <2>3, StoppedMoves, NoNewCopy DEF Alone
  <2> QED BY <1>6, <2>1, <2>2, <2>3, StopMoves
<1>7. ASSUME NEW c \in Calls, BeginSafety(c)
      PROVE  CopiesNamed'
  BY <1>7, SafetyMoves, BeginNamesCopy
<1>8. ASSUME NEW c \in Calls, Wipe(c) \/ Extract(c)
      PROVE  CopiesNamed'
  BY <1>8, DirectoryMoves, NoNewCopy
<1>9. CASE StartServer \/ StopServer \/ WriteWorld
  BY <1>9, DisturbanceKeepsNames DEF StartServer, StopServer, WriteWorld, Disturbances
<1>10. CASE Crash
  BY <1>10, IdleType DEF Crash, CopiesNamed
<1>11. CASE Tick \/ UNCHANGED vars
  BY <1>11 DEF Tick, vars, CopiesNamed
<1> QED
  BY <1>1, <1>2, <1>3, <1>4, <1>5, <1>6, <1>7, <1>8, <1>9, <1>10, <1>11
  DEF Next, CallStep, CopyStep, DropStep, RestoreStep

Settled == {"resume", "record", "prune", "drop", "dropRow", "wipe", "extract"}
Changes == {"write", "restore"}

\* c is a restore that has made its safety backup, which nothing may drop
Protected(c) ==
  /\ call[c].safety /\ call[c].pc \in Settled
  /\ scene.age = 0 /\ scene.size = 0
  /\ call[c].id \cap discarded = {}
  /\ FitsItsBucket(c)

\* the archive holds the world as it was before the wipe, unless the restore
\* knows of a change since the copy, ...
Covered(c) ==
  \E f \in files : /\ f.id \in call[c].id
                   /\ \/ f.world = IF call[c].pc = "extract" THEN call[c].before ELSE world
                      \/ call[c].after \cap Changes # {}
\* ... and no call has it among what it will drop
Spared(c) == \A d \in Calls : \A r \in call[d].left : r.id \notin call[c].id

SafetyInv == /\ IsFiniteSet(made)
             /\ \A c \in Calls : Protected(c) => Covered(c) /\ Spared(c)

LEMMA MadeInts ==
  ASSUME TypeOK
  PROVE  \A s \in made : s.at \in Int /\ s.id \in Int
<1> SUFFICES ASSUME NEW s \in made PROVE s.at \in Int /\ s.id \in Int
  OBVIOUS
<1>1. s.at \in 0..MaxNow /\ s.id \in Ids
  BY DEF TypeOK, Rows
<1>2. Ids \subseteq Nat /\ MaxNow \in Nat
  BY BackupsAssumption
<1>3. \A i \in Ids : i \in Int
  BY <1>2
<1>4. \A t \in 0..MaxNow : t \in Int
  BY <1>2
<1> QED BY <1>1, <1>3, <1>4

LEMMA ProtectedIsSpared ==
  ASSUME TypeOK, BooksInv, SafetyInv, NEW c \in Calls, Protected(c),
         NEW pass \in Reasons \cup {"age", "size"}, NEW r \in Candidates(pass)
  PROVE  r.id \notin call[c].id
<1> SUFFICES ASSUME r.id \in call[c].id PROVE FALSE
  OBVIOUS
<1>1. scene.age = 0 /\ scene.size = 0 /\ FitsItsBucket(c)
  BY DEF Protected
<1>2. pass \in Reasons
  <2>1. \A n \in Nat : n = 0 => ~(n > 0)
    OBVIOUS
  <2> QED BY <1>1, <2>1 DEF Candidates
<1>3. pass \notin {"age", "size"}
  BY <1>2 DEF Reasons
<1> DEFINE bucket == {b \in rows : b.reason = pass}
           newer == {s \in bucket : Newer(s, r)}
           since == {a \in made : a.reason = r.reason /\ a.at >= r.at}
<1>4. r \in Stale(bucket, Keep[pass])
  BY <1>3 DEF Candidates
<1>5. r \in rows /\ r.reason = pass /\ Cardinality(newer) >= Keep[pass]
  BY <1>4 DEF Stale
<1>6. rows \subseteq made /\ made \subseteq Rows /\ IsFiniteSet(made)
  BY DEF BooksInv, RowsMade, SafetyInv, TypeOK
<1>7. r \in made /\ r.at \in Int /\ r.id \in Int /\ \A s \in made : s.at \in Int
  <2>1. r \in made
    BY <1>5, <1>6
  <2> QED BY <2>1, MadeInts
<1>8. Cardinality(since) <= Keep[pass]
  BY <1>1, <1>5, <1>7 DEF FitsItsBucket
<1>9. r \in since /\ IsFiniteSet(since)
  BY <1>6, <1>7, FS_Subset
<1>10. newer \subseteq since \ {r}
  BY <1>5, <1>6, <1>7 DEF Newer
<1>11. /\ IsFiniteSet(since \ {r}) /\ Cardinality(since \ {r}) = Cardinality(since) - 1
       /\ Cardinality(since) \in Nat
  BY <1>9, FS_RemoveElement, FS_CardinalityType
<1>12. Cardinality(newer) <= Cardinality(since \ {r}) /\ Cardinality(newer) \in Nat
  BY <1>10, <1>11, FS_Subset, FS_CardinalityType
<1>13. Keep[pass] \in Nat
  BY <1>2, BackupsAssumption
<1> HIDE DEF newer, since
<1> QED BY <1>5, <1>8, <1>11, <1>12, <1>13

\* Being protected is not gained by what others make or discard.
LEMMA WasProtected ==
  ASSUME TypeOK, SafetyInv, NEW c \in Calls, Protected(c)',
         call'[c].safety = call[c].safety, call'[c].id = call[c].id, call[c].pc \in Settled,
         IsFiniteSet(made'), made \subseteq made', discarded \subseteq discarded', scene' = scene
  PROVE  Protected(c) /\ Covered(c) /\ Spared(c)
<1>1. FitsItsBucket(c)
  <2> SUFFICES ASSUME NEW b \in made, b.id \in call[c].id
               PROVE  Cardinality({a \in made : a.reason = b.reason /\ a.at >= b.at})
                        <= Keep[b.reason]
    BY DEF FitsItsBucket
  <2> DEFINE S == {a \in made : a.reason = b.reason /\ a.at >= b.at}
             T == {a \in made' : a.reason = b.reason /\ a.at >= b.at}
  <2>1. Cardinality(T) <= Keep[b.reason]
    BY DEF Protected, FitsItsBucket
  <2>2. S \subseteq T /\ IsFiniteSet(T)
    BY FS_Subset
  <2>3. Cardinality(S) <= Cardinality(T) /\ Cardinality(S) \in Nat /\ Cardinality(T) \in Nat
    BY <2>2, FS_Subset, FS_CardinalityType
  <2> HIDE DEF S, T
  <2>4. Keep[b.reason] \in Nat
    BY BackupsAssumption DEF TypeOK, Rows
  <2>5. Cardinality(S) <= Keep[b.reason]
    BY <2>1, <2>3, <2>4
  <2> QED BY <2>5 DEF S
<1>2. Protected(c)
  BY <1>1 DEF Protected
<1> QED BY <1>2 DEF SafetyInv

LEMMA MadeStaysFinite ==
  ASSUME TypeOK, SafetyInv, [Next]_vars
  PROVE  IsFiniteSet(made') /\ made \subseteq made'
<1>1. IsFiniteSet(made)
  BY DEF SafetyInv
<1>2. ASSUME NEW c \in Calls, Record(c)
      PROVE  IsFiniteSet(made') /\ made \subseteq made'
  <2>1. made' = made \/ \E r \in Rows : made' = made \cup {r}
    BY <1>2, RecordMoves
  <2>2. ASSUME NEW r \in Rows
        PROVE  IsFiniteSet(made \cup {r})
    BY <1>1, FS_AddElement
  <2> QED BY <1>1, <2>1, <2>2
<1>3. made' = made \/ \E c \in Calls : Record(c)
  BY DEF Next, CallStep, CopyStep, DropStep, RestoreStep, vars, AskBackup, AskDelete, AskRestore,
         PauseSaves, FinishZip, ResumeSaves, Prune, DropFile, DropRow, StopForRestore,
         BeginSafety, Wipe, Extract, StartServer, StopServer, WriteWorld, Tick, Crash
<1> QED BY <1>1, <1>2, <1>3

LEMMA HistoryGrows ==
  ASSUME [Next]_vars
  PROVE  scene' = scene /\ discarded \subseteq discarded'
  BY DEF Next, CallStep, CopyStep, DropStep, RestoreStep, vars, AskBackup, AskDelete, AskRestore,
         PauseSaves, FinishZip, ResumeSaves, Record, Prune, DropFile, DropRow, StopForRestore,
         BeginSafety, Wipe, Extract, StartServer, StopServer, WriteWorld, Tick, Crash

\* A step that is not d's wipe, and spares its archive, keeps d covered.
LEMMA CoverStands ==
  ASSUME TypeOK, SafetyInv, [Next]_vars, NEW d \in Calls, Protected(d)',
         Kin(call'[d], call[d]), call[d].pc \in Settled,
         call'[d].pc = "extract" <=> call[d].pc = "extract",
         world' = world \/ call[d].pc = "extract" \/ call'[d].after \cap Changes # {},
         \A f \in files : f.id \in call[d].id => f \in files',
         \A e \in Calls : \A r \in call'[e].left : r \in call[e].left \/ r.id \notin call[d].id
  PROVE  Covered(d)' /\ Spared(d)'
<1>1. Covered(d) /\ Spared(d)
  BY HistoryGrows, MadeStaysFinite, WasProtected DEF Kin
<1>2. /\ call'[d].id = call[d].id /\ call'[d].before = call[d].before
      /\ call[d].after \subseteq call'[d].after
  BY DEF Kin
<1>3. Covered(d)'
  BY <1>1, <1>2 DEF Covered
<1>4. Spared(d)'
  BY <1>1, <1>2 DEF Spared
<1> QED BY <1>3, <1>4

\* The steps of others that touch neither the world nor the archives.
LEMMA OthersStandBy ==
  ASSUME TypeOK, SafetyInv, [Next]_vars, NEW c \in Calls, NEW d \in Calls, d # c, Protected(d)',
         Kin(call'[d], call[d]), \A e \in Calls : e # c => Same(e),
         \A r \in call'[c].left : r \in call[c].left \/ r.id \notin call[d].id,
         world' = world, \A f \in files : f.id \in call[d].id => f \in files'
  PROVE  Covered(d)' /\ Spared(d)'
<1>1. call'[d].pc = call[d].pc /\ call[d].pc \in Settled
  BY DEF Same, Protected
<1>2. \A e \in Calls : \A r \in call'[e].left : r \in call[e].left \/ r.id \notin call[d].id
  BY DEF Same
<1> QED BY <1>1, <1>2, CoverStands

LEMMA DisturbanceKeepsCover ==
  ASSUME TypeOK, SafetyInv, [Next]_vars, NEW d \in Calls, Protected(d)',
         NEW x \in Disturbances, call' = Disturbed(x), files' = files,
         world' = world \/ x \in Changes
  PROVE  Covered(d)' /\ Spared(d)'
<1> DEFINE f == Disturbed(x)
<1>1. \A e \in Calls : /\ Kin(f[e], call[e])
                       /\ CopiedAlready(e) => x \in f[e].after
                       /\ f[e].pc = call[e].pc /\ f[e].left = call[e].left
  BY DisturbedKin, DisturbedMoves DEF TypeOK
<1>2. call' = f
  OBVIOUS
<1> HIDE DEF f
<1>3. \A e \in Calls : /\ Kin(call'[e], call[e])
                       /\ CopiedAlready(e) => x \in call'[e].after
                       /\ call'[e].pc = call[e].pc /\ call'[e].left = call[e].left
  BY <1>1, <1>2
<1>4. call[d].pc \in Settled /\ call[d].safety
  BY <1>3 DEF Protected, Kin
<1>5. world' = world \/ call[d].pc = "extract" \/ call'[d].after \cap Changes # {}
  BY <1>3, <1>4 DEF CopiedAlready, Settled
<1> QED BY <1>3, <1>4, <1>5, CoverStands

LEMMA SafetyStep ==
  ASSUME TypeOK, LockInv, BooksInv, CopiesNamed, SafetyInv, [Next]_vars
  PROVE  SafetyInv'
<1> SUFFICES ASSUME NEW d \in Calls, Protected(d)'
             PROVE  Covered(d)' /\ Spared(d)'
  BY MadeStaysFinite DEF SafetyInv
<1>0. /\ call \in [Calls -> Operations]
      /\ call'[d].safety /\ call'[d].pc \in Settled
      /\ call'[d].id \cap discarded' = {}
  BY DEF TypeOK, Protected
<1>1. ASSUME NEW c \in Calls, AskBackup(c)
      PROVE  Covered(d)' /\ Spared(d)'
  <2>1. PICK reason \in scene.taken : BeginCopy(c, "backup", reason, {}, FALSE)
    BY <1>1 DEF AskBackup
  <2>2. reason \in Reasons
    BY ScenesAssumption DEF TypeOK, Scene
  <2>3. Alone(c) /\ call'[c].left = {}
    BY <2>1, <2>2, BeginMoves
  <2>4. ~call'[c].safety /\ \A e \in Calls : e # c => Kin(call'[e], call[e])
    BY <2>1, BeginKin
  <2>5. d # c
    BY <1>0, <2>4
  <2> QED BY <1>1, <2>3, <2>4, <2>5, OthersStandBy DEF AskBackup, Alone
<1>2. ASSUME NEW c \in Calls, NEW r \in rows, AskDelete(c, r) \/ AskRestore(c, r)
      PROVE  Covered(d)' /\ Spared(d)'
  <2>1. Alone(c) /\ \A e \in Calls : e # c => Kin(call'[e], call[e])
    BY <1>2, DeleteMoves, RestoreMoves, AskKin
  <2>2. world' = world /\ files' = files
    BY <1>2 DEF AskDelete, AskRestore
  <2>3. d # c
    BY <1>0, <1>2, AskKin, RestoreMoves DEF Settled
  <2>4. CASE AskDelete(c, r)
    <3>1. call'[c].left = {r} /\ r.id \in discarded'
      BY <2>4, DeleteMoves DEF AskDelete
    <3>2. call'[d].id = call[d].id
      BY <2>1, <2>3 DEF Kin
    <3> QED BY <1>0, <2>1, <2>2, <2>3, <3>1, <3>2, OthersStandBy DEF Alone
  <2>5. CASE AskRestore(c, r)
    <3>1. call'[c].left = {}
      BY <2>5, RestoreMoves
    <3> QED BY <2>1, <2>2, <2>3, <3>1, OthersStandBy DEF Alone
  <2> QED BY <1>2, <2>4, <2>5
<1>3. ASSUME NEW c \in Calls, PauseSaves(c)
      PROVE  Covered(d)' /\ Spared(d)'
  <2>1. GoesOn(c) /\ Alone(c) /\ call'[c].left = call[c].left /\ call'[c].pc = "zip"
    BY <1>3, PauseMoves, CopyGoesOn DEF CopyStep
  <2>2. world' = world /\ files' = files
    BY <1>3 DEF PauseSaves
  <2>3. d # c
    BY <1>0, <2>1 DEF Settled
  <2> QED BY <2>1, <2>2, <2>3, OthersStandBy DEF GoesOn, Alone
<1>4. ASSUME NEW c \in Calls, FinishZip(c)
      PROVE  Covered(d)' /\ Spared(d)'
  <2>1. /\ GoesOn(c) /\ Alone(c) /\ call'[c].left \subseteq call[c].left
        /\ call'[c].pc \in {"resume", "record"} =>
             files' = files \cup {[id |-> i, world |-> world] : i \in call[c].id}
    BY <1>4, ZipMoves, CopyGoesOn DEF CopyStep
  <2>2. /\ world' = world /\ files \subseteq files' /\ call[c].pc = "zip"
        /\ UNCHANGED <<rows, made>>
    BY <1>4 DEF FinishZip
  <2>3. CASE d # c
    BY <2>1, <2>2, <2>3, OthersStandBy DEF GoesOn, Alone
  <2>4. CASE d = c
    <3>1. call'[c] # Idle
      BY <1>0, <2>4 DEF Idle
    <3>2. call'[c].id = call[c].id
      BY <1>0, <2>1, <2>4, <3>1 DEF GoesOn, Kin
    <3>3. call'[c].pc \in {"resume", "record"}
      <4>1. call'[c].pc \in {"resume", "fail", "record", "idle"}
        BY <1>4, ZipMoves
      <4> QED BY <1>0, <2>4, <4>1 DEF Settled
    <3>4. PICK i : i \in call[c].id
      BY <2>2 DEF CopiesNamed
    <3>5. Covered(c)'
      <4> DEFINE f == [id |-> i, world |-> world]
      <4>1. f \in files' /\ f.id \in call'[c].id /\ f.world = world'
        BY <2>1, <2>2, <3>2, <3>3, <3>4
      <4> HIDE DEF f
      <4> QED BY <3>3, <4>1 DEF Covered
    <3>6. \A e \in Calls : call'[e].left \subseteq made
      BY <2>1 DEF Alone, Same, BooksInv, LeftMade
    <3>7. \A r \in made : r.id \notin call[c].id
      BY <2>2 DEF BooksInv, NotYetMade, Copying
    <3>8. Spared(c)'
      BY <3>2, <3>6, <3>7 DEF Spared
    <3> QED BY <2>4, <3>5, <3>8
  <2> QED BY <2>3, <2>4
<1>5. ASSUME NEW c \in Calls, ResumeSaves(c)
      PROVE  Covered(d)' /\ Spared(d)'
  <2>1. /\ GoesOn(c) /\ Alone(c) /\ call'[c].left \subseteq call[c].left
        /\ \/ call[c].pc = "resume" /\ call'[c].pc = "record"
           \/ call'[c].pc = "idle"
    BY <1>5, ResumeMoves, CopyGoesOn DEF CopyStep
  <2>2. world' = world /\ files' = files
    BY <1>5 DEF ResumeSaves
  <2>3. CASE d # c
    BY <2>1, <2>2, <2>3, OthersStandBy DEF GoesOn, Alone
  <2>4. CASE d = c
    <3>1. call[c].pc = "resume" /\ call'[c].pc = "record"
      BY <1>0, <2>1, <2>4 DEF Settled
    <3>2. Kin(call'[d], call[d])
      BY <2>1, <2>4, <3>1 DEF GoesOn, Idle
    <3>3. call[d].pc \in Settled /\ (call'[d].pc = "extract" <=> call[d].pc = "extract")
      BY <2>4, <3>1 DEF Settled
    <3>4. \A e \in Calls : call'[e].left \subseteq call[e].left
      BY <2>1 DEF Alone, Same
    <3> QED BY <2>2, <3>2, <3>3, <3>4, CoverStands
  <2> QED BY <2>3, <2>4
<1>6. ASSUME NEW c \in Calls, Record(c)
      PROVE  Covered(d)' /\ Spared(d)'
  <2>1. GoesOn(c) /\ Alone(c)
    BY <1>6, RecordMoves, CopyGoesOn DEF CopyStep
  <2>2. world' = world /\ call[c].pc = "record"
    BY <1>6 DEF Record
  <2>3. CASE /\ call'[c].pc = "prune" /\ call'[c].left = call[c].left /\ files' = files
    <3>1. Kin(call'[d], call[d])
      BY <2>1, <2>3 DEF GoesOn, Idle
    <3>2. \A e \in Calls : call'[e].left = call[e].left
      BY <2>1, <2>3 DEF Alone, Same
    <3>3. call[d].pc \in Settled /\ (call'[d].pc = "extract" <=> call[d].pc = "extract")
      BY <1>0, <2>1, <2>2, <2>3 DEF Settled, Alone, Same
    <3> QED BY <2>2, <2>3, <3>1, <3>2, <3>3, CoverStands
  <2>4. CASE /\ call'[c].pc = "idle" /\ call'[c].left = {}
             /\ files' \in {files, {f \in files : f.id \notin call[c].id}}
    <3>1. d # c
      BY <1>0, <2>4 DEF Settled
    <3>2. \A f \in files : f.id \in call[d].id => f \in files'
      BY <2>4, <3>1 DEF BooksInv, IdsApart
    <3> QED BY <2>1, <2>2, <2>4, <3>1, <3>2, OthersStandBy DEF GoesOn, Alone
  <2> QED BY <1>6, <2>3, <2>4, RecordMoves
<1>7. ASSUME NEW c \in Calls, DropStep(c), Alone(c), call'[c].pc # "extract",
             call[c].pc \in {"prune", "drop", "dropRow"}, world' = world,
             \A r \in call'[c].left : r \in call[c].left \/ r.id \notin call[d].id,
             \A f \in files : f.id \in call[d].id => f \in files'
      PROVE  Covered(d)' /\ Spared(d)'
  <2>1. GoesOn(c)
    BY <1>7, DropGoesOn
  <2>2. CASE d # c
    BY <1>7, <2>1, <2>2, OthersStandBy DEF GoesOn, Alone
  <2>3. CASE d = c
    <3>1. Kin(call'[d], call[d])
      BY <1>0, <2>1, <2>3 DEF GoesOn, Idle
    <3>2. call[d].pc \in Settled /\ (call'[d].pc = "extract" <=> call[d].pc = "extract")
      BY <1>7, <2>3 DEF Settled
    <3>3. \A e \in Calls : \A r \in call'[e].left : r \in call[e].left \/ r.id \notin call[d].id
      BY <1>7 DEF Alone, Same
    <3> QED BY <1>7, <3>1, <3>2, <3>3, CoverStands
  <2> QED BY <2>2, <2>3
<1>8. ASSUME NEW c \in Calls, Prune(c)
      PROVE  Covered(d)' /\ Spared(d)'
  <2>1. /\ Alone(c) /\ call'[c].pc \in {"prune", "wipe", "idle", "drop"}
        /\ call[c].pc = "prune" /\ DropStep(c)
    BY <1>8, PruneMoves DEF Prune, DropStep
  <2>2. UNCHANGED <<rows, files, scene, world, made, discarded>>
    BY <1>8 DEF Prune
  <2> DEFINE p == Passes[call[c].pass]
  <2>3. \A r \in call'[c].left : r \in Candidates(p)
    <3>1. CASE Candidates(p) = {}
      <4>1. call' = [call EXCEPT ![c] = PassedOn(c)]
        BY <1>8, <3>1 DEF Prune
      <4>2. PassedOn(c).left = {}
        BY <1>0, PassedOnType
      <4> QED BY <1>0, <4>1, <4>2
    <3>2. CASE Candidates(p) # {}
      <4>1. call' = [call EXCEPT ![c] = [call[c] EXCEPT !.pc = "drop", !.left = Candidates(p)]]
        BY <1>8, <3>2 DEF Prune
      <4>2. [call[c] EXCEPT !.pc = "drop", !.left = Candidates(p)].left = Candidates(p)
        BY <1>0 DEF Operations
      <4> QED BY <1>0, <4>1, <4>2
    <3> QED BY <3>1, <3>2
  <2>4. p \in Reasons \cup {"age", "size"}
    BY <1>0, PassesValue DEF Operations
  <2> HIDE DEF p
  <2>5. Protected(d)
    <3>1. Kin(call'[d], call[d])
      BY <1>0, <2>1, DropGoesOn DEF GoesOn, Idle
    <3>2. call[d].pc \in Settled
      BY <1>0, <2>1 DEF Settled, Alone, Same
    <3> QED BY <3>1, <3>2, HistoryGrows, MadeStaysFinite, WasProtected DEF Kin
  <2>6. \A r \in call'[c].left : r.id \notin call[d].id
    BY <2>3, <2>4, <2>5, ProtectedIsSpared
  <2> QED BY <1>7, <2>1, <2>2, <2>6
<1>9. ASSUME NEW c \in Calls, NEW r \in call[c].left, DropFile(c, r) \/ DropRow(c, r)
      PROVE  Covered(d)' /\ Spared(d)'
  <2>1. Drops(c, r) /\ DropStep(c) /\ files' \in {files, {f \in files : f.id # r.id}}
    BY <1>9, DropFileMoves, DroppedMoves DEF DropRow, DropStep
  <2>2. world' = world /\ call[c].pc \in {"drop", "dropRow"}
    BY <1>9 DEF DropFile, DropRow
  <2>3. Kin(call'[d], call[d])
    BY <1>0, <2>1, DropGoesOn DEF GoesOn, Idle
  <2>4. call[d].pc \in Settled
    BY <1>0, <2>1, <2>2 DEF Settled, Drops, Alone, Same
  <2>5. Spared(d)
    BY <2>3, <2>4, HistoryGrows, MadeStaysFinite, WasProtected DEF Kin
  <2>6. \A f \in files : f.id \in call[d].id => f \in files'
    BY <2>1, <2>5 DEF Spared
  <2> QED BY <1>7, <2>1, <2>2, <2>6 DEF Drops
<1>10. ASSUME NEW c \in Calls, StopForRestore(c)
       PROVE  Covered(d)' /\ Spared(d)'
  <2>1. world' = world /\ files' = files
    BY <1>10 DEF StopForRestore
  <2>3. CASE call' = Disturbed("restart")
    BY <2>1, <2>3, DisturbanceKeepsCover DEF Disturbances
  <2>4. CASE call' = [call EXCEPT ![c] = Idle]
    <3>1. Alone(c) /\ GoesOn(c) /\ call'[c] = Idle
      BY <1>0, <2>4, OneMoves, IdleType, OneGoesOn DEF Alone
    <3>2. d # c /\ call'[c].left = {}
      BY <1>0, <3>1 DEF Idle
    <3> QED BY <2>1, <3>1, <3>2, OthersStandBy DEF GoesOn, Alone
  <2>5. ASSUME NEW pc \in {"safety", "wipe"}, call' = [call EXCEPT ![c].pc = pc],
               pc = "safety" \/ ~call[c].safety
        PROVE  Covered(d)' /\ Spared(d)'
    <3>1. Alone(c) /\ call'[c].left = call[c].left /\ call'[c].pc = pc
      BY <2>5, StoppedMoves
    <3>2. Kin([call[c] EXCEPT !.pc = pc], call[c]) /\ call' = [call EXCEPT ![c] = [call[c] EXCEPT !.pc = pc]]
      BY <1>0, <2>5, GoesKin
    <3>3. GoesOn(c) /\ Kin(call'[c], call[c])
      BY <1>0, <3>2, OneGoesOn
    <3>4. d # c
      BY <1>0, <2>5, <3>1, <3>3 DEF Kin, Settled
    <3> QED BY <2>1, <3>1, <3>3, <3>4, OthersStandBy DEF GoesOn, Alone
  <2>6. CASE call' = [call EXCEPT ![c].pc = IF call[c].safety THEN "safety" ELSE "wipe"]
    BY <2>5, <2>6
  <2> QED BY <1>10, <2>3, <2>4, <2>6 DEF StopForRestore, Goes
<1>11. ASSUME NEW c \in Calls, BeginSafety(c)
       PROVE  Covered(d)' /\ Spared(d)'
  <2>1. world' = world /\ files' = files
    BY <1>11 DEF BeginSafety
  <2>2. Alone(c) /\ call'[c].pc \in {"queued", "zip"} /\ call'[c].left = {}
    BY <1>11, SafetyMoves, BeginMoves
  <2>3. \A e \in Calls : e # c => Kin(call'[e], call[e])
    BY <1>11, SafetyMoves, BeginKin
  <2>4. d # c
    BY <1>0, <2>2 DEF Settled
  <2> QED BY <2>1, <2>2, <2>3, <2>4, OthersStandBy DEF Alone
<1>12. ASSUME NEW c \in Calls, Wipe(c) \/ Extract(c)
       PROVE  Covered(d)' /\ Spared(d)'
  <2>1. files' = files
    BY <1>12 DEF Wipe, Extract
  <2>2. /\ \A e \in Calls : call'[e].left \subseteq call[e].left
        /\ \A e \in Calls : e # c => Same(e)
    BY <1>12, DirectoryMoves DEF Same
  <2>3. CASE d = c
    <3>1. Wipe(c)
      BY <1>0, <1>12, <2>3, DirectoryKin DEF Idle
    <3>2. /\ call'[c].safety = call[c].safety /\ call'[c].id = call[c].id
          /\ call'[c].after = call[c].after /\ call'[c].pc = "extract"
          /\ call'[c].before = world
      BY <3>1, DirectoryKin
    <3>3. call[c].pc = "wipe" /\ call[c].pc \in Settled
      BY <3>1 DEF Wipe, Settled
    <3>4. Covered(c) /\ Spared(c)
      BY <2>3, <3>2, <3>3, HistoryGrows, MadeStaysFinite, WasProtected
    <3>5. Covered(c)'
      BY <2>1, <3>2, <3>3, <3>4 DEF Covered
    <3>6. Spared(c)'
      BY <2>2, <3>2, <3>4 DEF Spared
    <3> QED BY <2>3, <3>5, <3>6
  <2>4. CASE d # c
    <3>1. /\ Kin(call'[d], call[d])
          /\ CopiedAlready(d) => "restore" \in call'[d].after
      BY <1>12, <2>4, DirectoryKin
    <3>2. call'[d].pc = call[d].pc /\ call[d].pc \in Settled /\ call[d].safety
      BY <1>0, <2>2, <2>4, <3>1 DEF Same, Kin
    <3>3. call[d].pc = "extract" \/ call'[d].after \cap Changes # {}
      BY <3>1, <3>2 DEF CopiedAlready, Settled, Changes
    <3> QED BY <2>1, <2>2, <3>1, <3>2, <3>3, CoverStands
  <2> QED BY <2>3, <2>4
<1>13. CASE StartServer \/ StopServer \/ WriteWorld
  BY <1>13, DisturbanceKeepsCover DEF StartServer, StopServer, WriteWorld, Disturbances, Changes
<1>14. CASE Crash
  BY <1>0, <1>14 DEF Crash, Idle
<1>15. CASE Tick \/ UNCHANGED vars
  <2>1. UNCHANGED <<call, world, files>>
    BY <1>15 DEF Tick, vars
  <2>2. Kin(call'[d], call[d]) /\ call[d].pc \in Settled
    BY <1>0, <2>1 DEF Kin
  <2> QED BY <2>1, <2>2, CoverStands
<1> QED
  BY <1>1, <1>2, <1>3, <1>4, <1>5, <1>6, <1>8, <1>9, <1>10, <1>11, <1>12, <1>13, <1>14, <1>15
  DEF Next, CallStep, CopyStep, DropStep, RestoreStep

LEMMA SafetyHolds == Spec => [](CopiesNamed /\ SafetyInv)
<1>1. Init => CopiesNamed /\ SafetyInv
  <2> SUFFICES ASSUME Init PROVE CopiesNamed /\ SafetyInv
    OBVIOUS
  <2>1. made = {} /\ \A c \in Calls : call[c] = Idle
    BY DEF Init
  <2>2. IsFiniteSet(made)
    BY <2>1, FS_EmptySet
  <2> QED BY <2>1, <2>2 DEF CopiesNamed, SafetyInv, Protected, Idle
<1>2. TypeOK /\ LockInv /\ BooksInv /\ CopiesNamed /\ SafetyInv /\ [Next]_vars
        => CopiesNamed' /\ SafetyInv'
  BY NamesStep, SafetyStep
<1> QED BY <1>1, <1>2, Inductive, BooksHold, PTL DEF Spec

(* A restore that has emptied the server directory can be taken back: its  *)
(* safety backup is still on disk after its own retention passes, those of *)
(* other callers and their deletions, and holds the very world that was    *)
(* there, save for what a server started meanwhile or a rollback's restore *)
(* changed after the copy (BackupsService.restoreBackup, pruneRetention).  *)
THEOREM RestoresAreReversible == Spec => []RestoreIsReversible
<1>1. CopiesNamed /\ SafetyInv => RestoreIsReversible
  <2> SUFFICES ASSUME SafetyInv, NEW c \in Calls,
                      call[c].pc = "extract", call[c].safety,
                      scene.age = 0, scene.size = 0,
                      call[c].id \cap discarded = {}, FitsItsBucket(c)
               PROVE  \E f \in files :
                        /\ f.id \in call[c].id
                        /\ f.world = call[c].before \/ call[c].after \cap {"write", "restore"} # {}
    BY DEF RestoreIsReversible
  <2>1. Protected(c)
    BY DEF Protected, Settled
  <2> QED BY <2>1 DEF SafetyInv, Covered, Changes
<1> QED BY <1>1, SafetyHolds, PTL

-----------------------------------------------------------------------------
(* The reasons of retention.  Whoever has a row among what it will drop    *)
(* had a reason when it read the rows, and no reason ever goes away: the   *)
(* clock, the history and what users discarded only grow.                  *)

LEMMA UnitsFinite ==
  ASSUME NEW S \in SUBSET Rows, IsFiniteSet(S)
  PROVE  IsFiniteSet(Units(S))
<1> DEFINE boxes == {{r} \X (1..r.size) : r \in S}
           f == [r \in S |-> {r} \X (1..r.size)]
<1>1. f \in Surjection(S, boxes)
  BY DEF Surjection
<1>2. IsFiniteSet(boxes)
  BY <1>1, FS_Surjection
<1>3. ASSUME NEW r \in S
      PROVE  IsFiniteSet({r} \X (1..r.size))
  <2>1. r.size \in Int
    <3>1. r.size \in Sizes
      BY DEF Rows
    <3>2. Sizes \subseteq Nat
      BY BackupsAssumption
    <3>3. \A n \in Sizes : n \in Int
      BY <3>2
    <3> QED BY <3>1, <3>3
  <2>2. IsFiniteSet(1..r.size)
    BY <2>1, FS_Interval
  <2>3. IsFiniteSet({r})
    BY FS_Singleton
  <2> QED BY <2>2, <2>3, FS_Product
<1>4. \A T \in boxes : IsFiniteSet(T)
  BY <1>3
<1> HIDE DEF boxes
<1>5. IsFiniteSet(UNION boxes)
  BY <1>2, <1>4, FS_UNION
<1> QED BY <1>5 DEF Units, boxes

\* More archives are never smaller, and archives taken away count for what
\* they are.
LEMMA TotalGrows ==
  ASSUME NEW S \in SUBSET Rows, IsFiniteSet(S), NEW T \in SUBSET S
  PROVE  /\ Total(S) \in Int /\ Total(T) \in Int
         /\ Total(T) <= Total(S)
         /\ Total(S) - Total(T) = Total(S \ T)
<1>1. IsFiniteSet(T) /\ T \in SUBSET Rows
  BY FS_Subset
<1>2. IsFiniteSet(Units(S)) /\ IsFiniteSet(Units(T))
  BY <1>1, UnitsFinite
<1>3. Units(T) \subseteq Units(S)
  BY DEF Units
<1>4. Cardinality(Units(S)) \in Nat /\ Cardinality(Units(T)) \in Nat
      /\ Cardinality(Units(T)) <= Cardinality(Units(S))
  BY <1>2, <1>3, FS_CardinalityType, FS_Subset
<1>5. Units(S) \ Units(T) = Units(S \ T)
  BY DEF Units
<1>6. Units(S) \cap Units(T) = Units(T)
  BY <1>3
<1>7. Cardinality(Units(S) \ Units(T)) = Cardinality(Units(S)) - Cardinality(Units(S) \cap Units(T))
  BY <1>2, FS_Difference
<1>8. Total(S) = Cardinality(Units(S)) /\ Total(T) = Cardinality(Units(T))
      /\ Total(S \ T) = Cardinality(Units(S \ T))
  BY DEF Total
<1>9. Total(S) - Total(T) = Total(S \ T)
  BY <1>5, <1>6, <1>7, <1>8
<1> QED BY <1>4, <1>8, <1>9

\* A reason stays.
LEMMA ReasonStays ==
  ASSUME TypeOK, TypeOK', SafetyInv, IsFiniteSet(made'), made \subseteq made',
         discarded \subseteq discarded', scene' = scene, now <= now',
         NEW b \in made, Deserved(b)
  PROVE  Deserved(b)'
<1>0. made \subseteq Rows /\ made' \subseteq Rows /\ IsFiniteSet(made)
  BY DEF TypeOK, SafetyInv
<1>1. CASE b.id \in discarded
  BY <1>1 DEF Deserved
<1>2. CASE Cardinality(NewerInBucket(b)) >= Keep[b.reason]
  <2> DEFINE S == {a \in made : a.reason = b.reason /\ Newer(a, b)}
             T == {a \in made' : a.reason = b.reason /\ Newer(a, b)}
  <2>1. S \subseteq T /\ IsFiniteSet(T)
    BY FS_Subset
  <2>2. Cardinality(S) <= Cardinality(T) /\ Cardinality(S) \in Nat /\ Cardinality(T) \in Nat
    BY <2>1, FS_Subset, FS_CardinalityType
  <2>3. Keep[b.reason] \in Nat
    BY <1>0, BackupsAssumption DEF Rows
  <2>4. Cardinality(S) >= Keep[b.reason]
    BY <1>2 DEF NewerInBucket
  <2> HIDE DEF S, T
  <2>5. Cardinality(T) >= Keep[b.reason]
    BY <2>2, <2>3, <2>4
  <2>6. Cardinality(NewerInBucket(b)') >= Keep[b.reason]
    BY <2>5 DEF T, NewerInBucket, Newer
  <2> QED BY <2>6 DEF Deserved
<1>3. CASE scene.age > 0 /\ b.at + scene.age < now
  <2>1. b.at \in Int /\ now \in Int /\ now' \in Int
    BY <1>0, BackupsAssumption DEF Rows, TypeOK
  <2>2. scene.age \in Int
    BY ScenesAssumption DEF TypeOK, Scene
  <2>3. b.at + scene.age < now'
    BY <1>3, <2>1, <2>2
  <2> QED BY <1>3, <2>3 DEF Deserved
<1>4. CASE scene.size > 0 /\ \E a \in made : Total({a} \cup {x \in made : ~Sooner(x, b)}) > scene.size
  <2>1. PICK a \in made : Total({a} \cup {x \in made : ~Sooner(x, b)}) > scene.size
    BY <1>4
  <2> DEFINE S == {a} \cup {x \in made : ~Sooner(x, b)}
             T == {a} \cup {x \in made' : ~Sooner(x, b)}
  <2>2. T \in SUBSET made' /\ S \in SUBSET T
    BY <2>1
  <2>3. IsFiniteSet(T) /\ T \in SUBSET Rows
    BY <1>0, <2>2, FS_Subset
  <2>4. Total(S) > scene.size
    BY <2>1
  <2> HIDE DEF S, T
  <2>5. Total(S) \in Int /\ Total(T) \in Int /\ Total(S) <= Total(T)
    BY <2>2, <2>3, TotalGrows
  <2>6. scene.size \in Int
    BY ScenesAssumption DEF TypeOK, Scene
  <2>7. Total(T) > scene.size
    BY <2>4, <2>5, <2>6
  <2>8. a \in made' /\ Total({a} \cup {x \in made' : ~Sooner(x, b)}) > scene.size
    BY <2>1, <2>7 DEF T
  <2>9. scene'.size > 0 /\ (\E e \in made : Total({e} \cup {x \in made : ~Sooner(x, b)}) > scene.size)'
    BY <1>4, <2>8 DEF Total, Units, Sooner, Rank
  <2> QED BY <2>9 DEF Deserved
<1> QED BY <1>1, <1>2, <1>3, <1>4 DEF Deserved

\* Of two different backups one is the newer.
LEMMA OneNewest ==
  ASSUME TypeOK, BooksInv, NEW a \in Newest(rows), NEW b \in Newest(rows)
  PROVE  a = b
<1>1. a \in made /\ b \in made
  BY DEF Newest, BooksInv, RowsMade
<1>2. a.at \in Int /\ a.id \in Int /\ b.at \in Int /\ b.id \in Int
  BY <1>1, MadeInts
<1>3. ~Newer(a, b) /\ ~Newer(b, a)
  BY DEF Newest
<1>4. a.id = b.id
  BY <1>2, <1>3 DEF Newer
<1> QED BY <1>1, <1>4 DEF BooksInv, IdsUnique

\* What a pass chooses among the rows has a reason in the whole history.
LEMMA CandidatesDeserve ==
  ASSUME TypeOK, BooksInv, SafetyInv, NEW pass \in Reasons \cup {"age", "size"},
         NEW b \in Candidates(pass)
  PROVE  Deserved(b)
<1>0. rows \subseteq made /\ made \subseteq Rows /\ IsFiniteSet(made) /\ IsFiniteSet(rows)
  <2>1. rows \subseteq made /\ made \subseteq Rows /\ IsFiniteSet(made)
    BY DEF BooksInv, RowsMade, SafetyInv, TypeOK
  <2> QED BY <2>1, FS_Subset
<1>1. CASE pass = "age"
  <2>1. scene.age > 0 /\ b \in TooOld(rows)
    BY <1>1 DEF Candidates
  <2> QED BY <2>1 DEF TooOld, Deserved
<1>2. CASE pass = "size"
  <2> DEFINE spare == rows \ Newest(rows)
             sooner == {s \in spare : Sooner(s, b)}
  <2>1. scene.size > 0 /\ b \in spare /\ Total(rows) - Total(sooner) > scene.size
    BY <1>2 DEF Candidates, TooBig
  <2>2. PICK a \in rows : rows \ sooner \subseteq {a} \cup {x \in made : ~Sooner(x, b)}
    <3>1. CASE Newest(rows) = {}
      BY <1>0, <2>1, <3>1
    <3>2. CASE Newest(rows) # {}
      <4>1. PICK a \in Newest(rows) : TRUE
        BY <3>2
      <4>2. a \in rows /\ Newest(rows) \subseteq {a}
        BY <4>1, OneNewest DEF Newest
      <4> QED BY <1>0, <4>2
    <3> QED BY <3>1, <3>2
  <2> DEFINE T == {a} \cup {x \in made : ~Sooner(x, b)}
  <2>3. T \in SUBSET made /\ rows \ sooner \in SUBSET T /\ sooner \in SUBSET rows /\ a \in made
    BY <1>0, <2>2
  <2>4. IsFiniteSet(T) /\ T \in SUBSET Rows
    BY <1>0, <2>3, FS_Subset
  <2> HIDE DEF sooner, T
  <2>5. Total(rows) - Total(sooner) = Total(rows \ sooner)
    BY <1>0, <2>3, TotalGrows
  <2>6. Total(rows \ sooner) \in Int /\ Total(T) \in Int /\ Total(rows \ sooner) <= Total(T)
    BY <2>3, <2>4, TotalGrows
  <2>7. scene.size \in Int
    BY ScenesAssumption DEF TypeOK, Scene
  <2>8. Total(T) > scene.size
    BY <2>1, <2>5, <2>6, <2>7
  <2> QED BY <2>1, <2>3, <2>8 DEF Deserved, T
<1>3. CASE pass \in Reasons
  <2> DEFINE bucket == {r \in rows : r.reason = pass}
             newer == {s \in bucket : Newer(s, b)}
             S == {s \in made : s.reason = b.reason /\ Newer(s, b)}
  <2>1. b \in Stale(bucket, Keep[pass])
    BY <1>3 DEF Candidates, Reasons
  <2>2. b.reason = pass /\ Cardinality(newer) >= Keep[pass]
    BY <2>1 DEF Stale
  <2>3. newer \subseteq S /\ IsFiniteSet(S)
    BY <1>0, <2>2, FS_Subset
  <2>4. Cardinality(newer) <= Cardinality(S) /\ Cardinality(newer) \in Nat /\ Cardinality(S) \in Nat
    BY <2>3, FS_Subset, FS_CardinalityType
  <2>5. Keep[pass] \in Nat
    BY <1>3, BackupsAssumption
  <2> HIDE DEF newer, S
  <2>6. Cardinality(S) >= Keep[b.reason]
    BY <2>2, <2>4, <2>5
  <2> QED BY <2>6 DEF Deserved, NewerInBucket, S
<1> QED BY <1>1, <1>2, <1>3

LeftDeserved == \A c \in Calls : \A b \in call[c].left : Deserved(b)
ReasonInv == DropsAreDeserved /\ LeftDeserved

LEMMA ClockGoesOn == TypeOK /\ [Next]_vars => now <= now'
<1> SUFFICES ASSUME TypeOK, [Next]_vars PROVE now <= now'
  OBVIOUS
<1>1. now \in Int
  BY BackupsAssumption DEF TypeOK
<1>2. now' = now \/ now' = now + 1
  BY DEF Next, CallStep, CopyStep, DropStep, RestoreStep, vars, AskBackup, AskDelete, AskRestore,
         PauseSaves, FinishZip, ResumeSaves, Record, Prune, DropFile, DropRow, StopForRestore,
         BeginSafety, Wipe, Extract, StartServer, StopServer, WriteWorld, Tick, Crash
<1> QED BY <1>1, <1>2

\* A step that loses only what deserves it, and means to drop only such.
LEMMA ReasonsStand ==
  ASSUME TypeOK, TypeOK', BooksInv, BooksInv', SafetyInv, ReasonInv, [Next]_vars,
         \A b \in made' : b \in made \/ (b \in rows' /\ \E f \in files' : f.id = b.id),
         \A b \in rows : b \in rows' \/ Deserved(b),
         \A b \in made : (\E f \in files : f.id = b.id) =>
                           (\E f \in files' : f.id = b.id) \/ Deserved(b),
         \A c \in Calls : \A b \in call'[c].left : (b \in made /\ Deserved(b)) \/ b.id \in discarded'
  PROVE  ReasonInv'
<1>1. ASSUME NEW b \in made, Deserved(b)
      PROVE  Deserved(b)'
  BY <1>1, ReasonStays, MadeStaysFinite, HistoryGrows, ClockGoesOn
<1>2. ASSUME NEW b \in made', b \notin rows' \/ (\A f \in files' : f.id # b.id)
      PROVE  Deserved(b)'
  <2>1. b \in made
    BY <1>2
  <2>2. Deserved(b)
    BY <1>2, <2>1 DEF ReasonInv, DropsAreDeserved
  <2> QED BY <1>1, <2>1, <2>2
<1>3. ASSUME NEW c \in Calls, NEW b \in call'[c].left
      PROVE  Deserved(b)'
  <2>1. CASE b \in made /\ Deserved(b)
    BY <1>1, <2>1
  <2>2. CASE b.id \in discarded'
    BY <2>2 DEF Deserved
  <2> QED BY <2>1, <2>2
<1> QED BY <1>2, <1>3 DEF ReasonInv, DropsAreDeserved, LeftDeserved

LEMMA DisturbanceKeepsReasons ==
  ASSUME TypeOK, TypeOK', BooksInv, BooksInv', SafetyInv, ReasonInv, [Next]_vars,
         NEW d \in Disturbances, call' = Disturbed(d), UNCHANGED <<rows, files, made>>
  PROVE  ReasonInv'
<1> DEFINE f == Disturbed(d)
<1>1. \A c \in Calls : f[c].left = call[c].left
  BY DisturbedMoves DEF TypeOK
<1>2. call' = f
  OBVIOUS
<1> HIDE DEF f
<1>3. \A c \in Calls : call'[c].left = call[c].left
  BY <1>1, <1>2
<1> QED BY <1>3, ReasonsStand DEF ReasonInv, LeftDeserved, BooksInv, LeftMade

LEMMA ReasonsStep ==
  ASSUME TypeOK, TypeOK', BooksInv, BooksInv', SafetyInv, ReasonInv, [Next]_vars
  PROVE  ReasonInv'
<1>0. call \in [Calls -> Operations] /\ rows \subseteq Rows
  BY DEF TypeOK
<1>a. \A c \in Calls : \A b \in call[c].left : b \in made /\ Deserved(b)
  BY DEF ReasonInv, LeftDeserved, BooksInv, LeftMade
<1>b. ASSUME NEW c \in Calls, UNCHANGED <<rows, made>>, files \subseteq files', Alone(c),
             \A b \in call'[c].left : (b \in made /\ Deserved(b)) \/ b.id \in discarded'
      PROVE  ReasonInv'
  <2>1. \A d \in Calls : \A b \in call'[d].left : (b \in made /\ Deserved(b)) \/ b.id \in discarded'
    BY <1>a, <1>b DEF Alone, Same
  <2> QED BY <1>b, <2>1, ReasonsStand
<1>1. ASSUME NEW c \in Calls, AskBackup(c)
      PROVE  ReasonInv'
  <2>1. PICK reason \in scene.taken : BeginCopy(c, "backup", reason, {}, FALSE)
    BY <1>1 DEF AskBackup
  <2>2. reason \in Reasons
    BY ScenesAssumption DEF TypeOK, Scene
  <2>3. UNCHANGED <<rows, files, made>>
    BY <1>1 DEF AskBackup
  <2>4. Alone(c) /\ call'[c].left = {}
    BY <2>1, <2>2, BeginMoves, Zenon
  <2> QED BY <1>b, <2>3, <2>4
<1>2. ASSUME NEW c \in Calls, NEW r \in rows, AskDelete(c, r)
      PROVE  ReasonInv'
  <2>1. /\ Alone(c) /\ call'[c].left = {r} /\ UNCHANGED <<rows, files, made>>
        /\ discarded' = discarded \cup {r.id}
    BY <1>2, DeleteMoves DEF AskDelete
  <2> QED BY <1>b, <2>1
<1>3. ASSUME NEW c \in Calls, NEW r \in rows, AskRestore(c, r)
      PROVE  ReasonInv'
  <2>1. Alone(c) /\ call'[c].left = {} /\ UNCHANGED <<rows, files, made>>
    BY <1>3, RestoreMoves DEF AskRestore
  <2> QED BY <1>b, <2>1
<1>4. ASSUME NEW c \in Calls, PauseSaves(c)
      PROVE  ReasonInv'
  <2>1. Alone(c) /\ call'[c].left \subseteq call[c].left /\ UNCHANGED <<rows, files, made>>
    BY <1>4, PauseMoves DEF PauseSaves
  <2> QED BY <1>a, <1>b, <2>1
<1>5. ASSUME NEW c \in Calls, FinishZip(c)
      PROVE  ReasonInv'
  <2>1. UNCHANGED <<rows, made>> /\ files \subseteq files'
    BY <1>5 DEF FinishZip
  <2>2. Alone(c) /\ call'[c].left \subseteq call[c].left
    BY <1>5, ZipMoves
  <2> QED BY <1>a, <1>b, <2>1, <2>2
<1>6. ASSUME NEW c \in Calls, ResumeSaves(c)
      PROVE  ReasonInv'
  <2>1. UNCHANGED <<rows, files, made>>
    BY <1>6 DEF ResumeSaves
  <2>2. Alone(c) /\ call'[c].left \subseteq call[c].left
    BY <1>6, ResumeMoves
  <2> QED BY <1>a, <1>b, <2>1, <2>2
<1>7. ASSUME NEW c \in Calls, Record(c)
      PROVE  ReasonInv'
  <2>0. call[c].pc = "record" /\ Alone(c)
    BY <1>7, RecordMoves DEF Record
  <2>1. /\ \A r \in made : r.id \notin call[c].id
        /\ \A i \in call[c].id : \E f \in files : f.id = i
    BY <2>0 DEF BooksInv, NotYetMade, ArchiveThere, Copying
  <2>2. CASE /\ call'[c].left = call[c].left /\ files' = files
             /\ \E r \in Rows : /\ r.id \in call[c].id
                                /\ rows' = rows \cup {r} /\ made' = made \cup {r}
    <3>1. PICK r \in Rows : /\ r.id \in call[c].id
                            /\ rows' = rows \cup {r} /\ made' = made \cup {r}
      BY <2>2
    <3>2. \A d \in Calls : \A b \in call'[d].left : b \in made /\ Deserved(b)
      BY <1>a, <2>0, <2>2 DEF Alone, Same
    <3>3. \A b \in made' : b \in made \/ (b \in rows' /\ \E f \in files' : f.id = b.id)
      BY <2>1, <2>2, <3>1
    <3>4. rows \subseteq rows' /\ files' = files
      BY <2>2, <3>1
    <3> QED BY <3>2, <3>3, <3>4, ReasonsStand
  <2>3. CASE /\ call'[c].left = {} /\ rows' = rows /\ made' = made
             /\ files' \in {files, {f \in files : f.id \notin call[c].id}}
    <3>1. \A d \in Calls : \A b \in call'[d].left : b \in made /\ Deserved(b)
      BY <1>a, <2>0, <2>3 DEF Alone, Same
    <3>2. \A b \in made : (\E f \in files : f.id = b.id) => \E f \in files' : f.id = b.id
      BY <2>1, <2>3
    <3> QED BY <2>3, <3>1, <3>2, ReasonsStand
  <2> QED BY <1>7, <2>2, <2>3, RecordMoves
<1>8. ASSUME NEW c \in Calls, Prune(c)
      PROVE  ReasonInv'
  <2>1. UNCHANGED <<rows, files, made>>
    BY <1>8 DEF Prune
  <2>2. /\ Alone(c) /\ call'[c].left \subseteq rows
        /\ call'[c].left \subseteq Candidates(Passes[call[c].pass])
    BY <1>8, PruneMoves
  <2>3. Passes[call[c].pass] \in Reasons \cup {"age", "size"}
    <3>1. call[c].pass \in 1..6
      BY <1>0 DEF Operations
    <3> QED BY <3>1, PassesValue
  <2>4. \A b \in Candidates(Passes[call[c].pass]) : Deserved(b)
    BY <2>3, CandidatesDeserve
  <2>5. \A b \in call'[c].left : b \in made /\ Deserved(b)
    BY <2>2, <2>4 DEF BooksInv, RowsMade
  <2> QED BY <1>b, <2>1, <2>2, <2>5
<1>9. ASSUME NEW c \in Calls, NEW r \in call[c].left, DropFile(c, r) \/ DropRow(c, r)
      PROVE  ReasonInv'
  <2>1. /\ made' = made
        /\ rows' \in {rows, rows \ {r}} /\ files' \in {files, {f \in files : f.id # r.id}}
    BY <1>9, DropFileMoves DEF DropFile, DropRow
  <2>2. Drops(c, r)
    BY <1>9, DropFileMoves, DroppedMoves DEF DropRow
  <2>3. r \in made /\ Deserved(r)
    BY <1>a
  <2>4. \A d \in Calls : \A b \in call'[d].left : b \in made /\ Deserved(b)
    BY <1>a, <2>2 DEF Drops, Alone, Same
  <2>5. \A b \in rows : b \in rows' \/ Deserved(b)
    BY <2>1, <2>3
  <2>6. \A b \in made : (\E f \in files : f.id = b.id) =>
                          (\E f \in files' : f.id = b.id) \/ Deserved(b)
    <3> SUFFICES ASSUME NEW b \in made, NEW f \in files, f.id = b.id, b # r
                 PROVE  \E g \in files' : g.id = b.id
      BY <2>3
    <3>1. b.id # r.id
      BY <2>3 DEF BooksInv, IdsUnique
    <3> QED BY <2>1, <3>1
  <2> QED BY <2>1, <2>4, <2>5, <2>6, ReasonsStand
<1>10. ASSUME NEW c \in Calls, StopForRestore(c)
       PROVE  ReasonInv'
  <2>1. UNCHANGED <<rows, files, made>>
    BY <1>10 DEF StopForRestore
  <2>3. CASE call' = Disturbed("restart")
    BY <2>1, <2>3, DisturbanceKeepsReasons DEF Disturbances
  <2>4. CASE call' = [call EXCEPT ![c] = Idle]
    <3>1. call'[c] = Idle /\ Alone(c)
      BY <1>0, <2>4, OneMoves, IdleType DEF Alone
    <3>2. call'[c].left = {}
      BY <3>1, IdleType
    <3> QED BY <1>b, <2>1, <3>1, <3>2
  <2>5. ASSUME NEW pc \in {"safety", "wipe"}, call' = [call EXCEPT ![c].pc = pc]
        PROVE  ReasonInv'
    <3>1. Alone(c) /\ call'[c].left = call[c].left
      BY <1>0, <2>5, StoppedMoves
    <3> QED BY <1>a, <1>b, <2>1, <3>1
  <2> QED BY <1>10, <2>3, <2>4, <2>5, StopMoves
<1>15. ASSUME NEW c \in Calls, BeginSafety(c)
       PROVE  ReasonInv'
  <2>1. UNCHANGED <<rows, files, made>>
    BY <1>15 DEF BeginSafety
  <2>2. Alone(c) /\ call'[c].left = {}
    BY <1>15, SafetyMoves, BeginMoves, Zenon
  <2> QED BY <1>b, <2>1, <2>2
<1>11. ASSUME NEW c \in Calls, Wipe(c) \/ Extract(c)
       PROVE  ReasonInv'
  <2>1. UNCHANGED <<rows, files, made>>
    BY <1>11 DEF Wipe, Extract
  <2>2. /\ call'[c].left \subseteq call[c].left
        /\ \A d \in Calls : d # c => Same(d)
    BY <1>11, DirectoryMoves
  <2>3. \A d \in Calls : \A b \in call'[d].left : b \in made /\ Deserved(b)
    BY <1>a, <2>2 DEF Same
  <2> QED BY <2>1, <2>3, ReasonsStand
<1>12. CASE StartServer \/ StopServer \/ WriteWorld
  <2>1. UNCHANGED <<rows, files, made>>
    BY <1>12 DEF StartServer, StopServer, WriteWorld
  <2>2. ASSUME NEW d \in Disturbances, call' = Disturbed(d)
        PROVE  ReasonInv'
    BY <2>1, <2>2, DisturbanceKeepsReasons
  <2> QED BY <1>12, <2>2 DEF StartServer, StopServer, WriteWorld, Disturbances
<1>13. CASE Crash
  <2>1. UNCHANGED <<rows, files, made>> /\ \A d \in Calls : call'[d] = Idle
    BY <1>13 DEF Crash
  <2>2. \A d \in Calls : call'[d].left = {}
    BY <2>1, IdleType
  <2> QED BY <2>1, <2>2, ReasonsStand
<1>14. CASE Tick \/ UNCHANGED vars
  <2>1. UNCHANGED <<rows, files, made, call>>
    BY <1>14 DEF Tick, vars
  <2> QED BY <1>a, <2>1, ReasonsStand
<1> QED
  BY <1>1, <1>2, <1>3, <1>4, <1>5, <1>6, <1>7, <1>8, <1>9, <1>10, <1>11, <1>12, <1>13, <1>14, <1>15
  DEF Next, CallStep, CopyStep, DropStep, RestoreStep

LEMMA ReasonsInit == Init => ReasonInv
<1> SUFFICES ASSUME Init PROVE ReasonInv
  OBVIOUS
<1>1. made = {} /\ \A c \in Calls : call[c] = Idle
  BY DEF Init
<1> QED BY <1>1, IdleType DEF ReasonInv, DropsAreDeserved, LeftDeserved

(* Whatever callers back up, delete, restore and prune at the same time,   *)
(* each on rows it read some awaits ago: retention takes no backup but for *)
(* its bucket's Keep newer ones, the age ceiling, or the size ceiling that *)
(* what remains after its inferiors still exceeds.                         *)
THEOREM DropsHaveReasons == Spec => []DropsAreDeserved
<1>1. TypeOK /\ TypeOK' /\ BooksInv /\ BooksInv' /\ SafetyInv /\ ReasonInv /\ [Next]_vars => ReasonInv'
  BY ReasonsStep
<1>2. ReasonInv => DropsAreDeserved
  BY DEF ReasonInv
<1> QED BY <1>1, <1>2, ReasonsInit, BackupsTypes, BooksHold, SafetyHolds, PTL DEF Spec
=============================================================================

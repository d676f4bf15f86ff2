----------------------------- MODULE ServerLocks -----------------------------
(***************************************************************************)
(* The two locks that stand in front of one server's lifecycle:            *)
(*                                                                         *)
(*  - inFlightOps of ServerLocksService.guard, an entry per server that    *)
(*    admits one lifecycle operation, lets a second "start" share the      *)
(*    promise of the first and answers 409 to everything else;             *)
(*  - active of ServerOperationsService, the long operation (a restore or  *)
(*    a world install) in progress on the server.  It refuses every caller *)
(*    except the operation's own body, which AsyncLocalStorage recognises. *)
(*                                                                         *)
(* Both maps are keyed by server id and no call touches two ids, so the    *)
(* module describes one key.  A call's body is opaque here: it runs from   *)
(* Enter to Leave and takes any time.  ServerLifecycle gives the bodies of *)
(* the lifecycle and WorldOps those of the world operations; both are      *)
(* shown to implement this module.                                         *)
(***************************************************************************)
EXTENDS Callers

\* LifecycleOp
LifecycleOps == {"start", "stop", "restart", "recreate", "shrink", "chunk-edit"}

\* ServerOperationKind, or none
Kinds == {"restoring", "installing-world"}

VARIABLES inFlight,     \* [op, owner]: the entry, owner = NoCall when absent
          active,       \* the long operation's kind, or "none"
          phase         \* for each call: "out", "running" or "joined"

lockVars == <<inFlight, active, phase>>

Free == [op |-> "none", owner |-> NoCall]

Entries == [op : LifecycleOps, owner : Calls] \cup {Free}

TypeOK == /\ inFlight \in Entries
          /\ active \in Kinds \cup {"none"}
          /\ phase \in [Calls -> {"out", "running", "joined"}]

Init == /\ inFlight = Free
        /\ active = "none"
        /\ phase = [c \in Calls |-> "out"]

\* assertNotBusy: `inside` holds for the body of the long operation itself
NotBusy(inside) == active = "none" \/ inside

\* the guard's test
GuardFree(op) == inFlight = Free

\* guard with no entry: the body starts and the entry names it
Enter(c, op, inside) ==
  /\ phase[c] = "out"
  /\ NotBusy(inside)
  /\ GuardFree(op)
  /\ inFlight' = [op |-> op, owner |-> c]
  /\ phase' = [phase EXCEPT ![c] = "running"]
  /\ UNCHANGED active

\* guard with a "start" entry, called for a start: share its promise
Join(c, inside) ==
  /\ phase[c] = "out"
  /\ NotBusy(inside)
  /\ inFlight.op = "start"
  /\ phase' = [phase EXCEPT ![c] = "joined"]
  /\ UNCHANGED <<inFlight, active>>

\* the body's promise settles: guard's finally drops the entry if it is still
\* this call's, and the calls that shared the promise return with it
Leave(c) ==
  /\ phase[c] = "running"
  /\ inFlight' = IF inFlight.owner = c THEN Free ELSE inFlight
  /\ phase' = [d \in Calls |->
                 IF d = c \/ (inFlight.owner = c /\ phase[d] = "joined")
                 THEN "out" ELSE phase[d]]
  /\ UNCHANGED active

\* ServerOperationsService.start takes its lock synchronously
BeginOperation(kind) ==
  /\ NotBusy(FALSE)
  /\ active' = kind
  /\ UNCHANGED <<inFlight, phase>>

\* ... and its finally releases it however the body ended
EndOperation ==
  /\ active # "none"
  /\ active' = "none"
  /\ UNCHANGED <<inFlight, phase>>

Next == \/ \E c \in Calls, inside \in BOOLEAN :
             \/ \E op \in LifecycleOps : Enter(c, op, inside)
             \/ Join(c, inside)
        \/ \E c \in Calls : Leave(c)
        \/ \E kind \in Kinds : BeginOperation(kind)
        \/ EndOperation

Spec == Init /\ [][Next]_lockVars

-----------------------------------------------------------------------------
(* guard never lets two lifecycle bodies of a server run at once ("any     *)
(* other overlapping lifecycle op is rejected with 409 instead of racing   *)
(* into container-name collisions").                                       *)
MutualExclusion ==
  \A c, d \in Calls : phase[c] = "running" /\ phase[d] = "running" => c = d

(* A call that shares another's promise always shares a live start: no     *)
(* caller is left waiting on a promise whose entry is gone, and none joins *)
(* an operation of another kind.                                           *)
JoinedToAStart ==
  \A c \in Calls : phase[c] = "joined" =>
     inFlight.op = "start" /\ inFlight.owner \in Calls \ {c}

(* The entry is exactly the running body: it is never leaked by a finally  *)
(* that misses it nor dropped while its operation still runs.              *)
EntryIsTheRunningCall ==
  \A c \in Calls : phase[c] = "running" <=> inFlight.owner = c
=============================================================================

----------------------------- MODULE ServerPorts -----------------------------
(***************************************************************************)
(* Host ports: PortsService, the serialized creation of servers, and the   *)
(* two other places that claim ports, the settings form's extra mappings   *)
(* and BlueMap's web server.  A port is free when no row, no enabled map   *)
(* and nothing outside the panel has it; every check reads that afresh and *)
(* the claim is written some awaits later.                                 *)
(*                                                                         *)
(* Port numbers only matter as names: a suggestion is any free member of   *)
(* Asks (a game port with the RCON port its offset gives, and a Bedrock    *)
(* port when asked), where the code takes the first free one.              *)
(***************************************************************************)
EXTENDS Naturals, Sequences

CONSTANTS Servers,      \* the ids createServer draws
          Edits,        \* PATCH requests, one settings change each
          Ports,
          Foreign,      \* ports of other programs, and the panel's own
          Asks,         \* the own ports a create asks for or is given
          Extras,       \* the extra mappings an admin may type
          MapRange      \* the 500 ports freePort looks through

ASSUME PortsAssumption == /\ Foreign \subseteq Ports
                          /\ Asks \subseteq SUBSET Ports
                          /\ Extras \subseteq SUBSET Ports
                          /\ MapRange \subseteq Ports

VARIABLES row,          \* the servers rows and their integrations
          chain,        \* createChain
          create,       \* for each server, its creation
          edit,         \* for each edit, where it stands
          enable,       \* for each server, the port an enableMap holds
          raced         \* history: ports two checks passed at once

portVars == <<row, chain, create, edit, enable, raced>>

Absent == [live |-> FALSE, built |-> FALSE, own |-> {}, extra |-> {},
           map |-> {}, mapped |-> FALSE]

Rows == [live : BOOLEAN, built : BOOLEAN, own : SUBSET Ports,
         extra : SUBSET Ports, map : SUBSET Ports, mapped : BOOLEAN]

NoCreate == [pc |-> "none", suggest |-> FALSE, own |-> {}, extra |-> {}, left |-> {}]

Creates == [pc : {"none", "queued", "check", "build", "rollback", "done"},
            suggest : BOOLEAN, own : SUBSET Ports, extra : SUBSET Ports,
            left : SUBSET Ports]

NoEdit == [pc |-> "idle", server |-> {}, extra |-> {}, left |-> {}]

TypeOK == /\ row \in [Servers -> Rows]
          /\ chain \in Seq(Servers)
          /\ create \in [Servers -> Creates]
          /\ edit \in [Edits -> [pc : {"idle", "check", "done"}, server : SUBSET Servers,
                                 extra : SUBSET Ports, left : SUBSET Ports]]
          /\ enable \in [Servers -> SUBSET Ports]
          /\ raced \in SUBSET Ports

Init == /\ row = [s \in Servers |-> Absent]
        /\ chain = <<>>
        /\ create = [s \in Servers |-> NoCreate]
        /\ edit = [e \in Edits |-> NoEdit]
        /\ enable = [s \in Servers |-> {}]
        /\ raced = {}

-----------------------------------------------------------------------------
\* Mutant: the rows' extra mappings are not counted
UsedOwnOnly == Foreign \cup UNION {row[s].own : s \in {t \in Servers : row[t].live}}

\* allPortsInUse, with the probe for what is bound outside the panel
Used == Foreign \cup UNION
  ({row[s].own \cup row[s].extra : s \in {t \in Servers : row[t].live}}
     \cup {row[s].map : s \in {t \in Servers : row[t].mapped}})

\* ports a creation or an edit has found free and not yet written
Held(c) == IF c.pc = "check" THEN (c.own \cup c.extra) \ c.left ELSE {}
HeldByCreates(except) == UNION {Held(create[s]) : s \in Servers \ except}
HeldByEdits(except) ==
  UNION {edit[e].extra \ edit[e].left :
           e \in {f \in Edits \ except : edit[f].pc = "check"}}

-----------------------------------------------------------------------------
(* createServer *)

\* Mutant: a creation starts at once
TurnAlways(s) == TRUE

\* runSerializedCreate: the creation at the head of the chain runs
Turn(s) == chain # <<>> /\ Head(chain) = s

AskCreate(s) ==
  /\ create[s].pc = "none"
  /\ \E suggest \in BOOLEAN, own \in Asks, extra \in Extras :
       create' = [create EXCEPT ![s] =
         [pc |-> "queued", suggest |-> suggest,
          own |-> IF suggest THEN {} ELSE own, extra |-> extra, left |-> {}]]
  /\ chain' = Append(chain, s)
  /\ UNCHANGED <<row, edit, enable, raced>>

\* explicit ports are to be checked one by one, then the extra mappings
BeginExplicit(s) ==
  /\ create[s].pc = "queued"
  /\ Turn(s)
  /\ ~create[s].suggest
  /\ create' = [create EXCEPT ![s].pc = "check",
                              ![s].left = create[s].own \cup create[s].extra]
  /\ UNCHANGED <<row, chain, edit, enable, raced>>

\* suggestPorts reads what is used once
BeginSuggested(s) ==
  /\ create[s].pc = "queued"
  /\ Turn(s)
  /\ create[s].suggest
  /\ \E own \in Asks :
       /\ own \cap Used = {}
       /\ create' = [create EXCEPT ![s].pc = "check", ![s].own = own,
                                   ![s].left = create[s].extra]
       /\ raced' = raced \cup (own \cap HeldByEdits({}))
  /\ UNCHANGED <<row, chain, edit, enable>>

\* Mutant: the chain is left as it was by a creation that throws
EndCreateStuck(s) ==
  /\ create' = [create EXCEPT ![s] = [NoCreate EXCEPT !.pc = "done"]]
  /\ chain' = IF row[s].live THEN Tail(chain) ELSE chain

\* the creation's promise settles, either way, and the chain goes on
EndCreate(s) ==
  /\ create' = [create EXCEPT ![s] = [NoCreate EXCEPT !.pc = "done"]]
  /\ chain' = Tail(chain)

\* "No free game ports available"
NoneToSuggest(s) ==
  /\ create[s].pc = "queued"
  /\ Turn(s)
  /\ create[s].suggest
  /\ \A own \in Asks : own \cap Used # {}
  /\ EndCreate(s)
  /\ UNCHANGED <<row, edit, enable, raced>>

\* isPortFree of the next port
CheckPort(s) ==
  /\ create[s].pc = "check"
  /\ \E p \in create[s].left :
       \/ /\ p \notin Used
          /\ create' = [create EXCEPT ![s].left = @ \ {p}]
          /\ raced' = raced \cup ({p} \cap HeldByEdits({}))
          /\ UNCHANGED chain
       \/ /\ p \in Used
          /\ EndCreate(s)
          /\ UNCHANGED raced
  /\ UNCHANGED <<row, edit, enable>>

\* the row, before the image is pulled and the container created
InsertRow(s) ==
  /\ create[s].pc = "check"
  /\ create[s].left = {}
  /\ row' = [row EXCEPT ![s] = [Absent EXCEPT !.live = TRUE,
                 !.own = create[s].own, !.extra = create[s].extra]]
  /\ create' = [create EXCEPT ![s] = [NoCreate EXCEPT !.pc = "build"]]
  /\ UNCHANGED <<chain, edit, enable, raced>>

Build(s) ==
  /\ create[s].pc = "build"
  /\ row' = [row EXCEPT ![s].built = TRUE]
  /\ EndCreate(s)
  /\ UNCHANGED <<edit, enable, raced>>

BuildFails(s) ==
  /\ create[s].pc = "build"
  /\ create' = [create EXCEPT ![s].pc = "rollback"]
  /\ UNCHANGED <<row, chain, edit, enable, raced>>

\* Mutant: the row stays for the user to retry
RollbackKeepsRow(s) ==
  /\ create[s].pc = "rollback"
  /\ EndCreate(s)
  /\ UNCHANGED <<row, edit, enable, raced>>

\* the partial container, then the row
Rollback(s) ==
  /\ create[s].pc = "rollback"
  /\ row' = [row EXCEPT ![s] = Absent]
  /\ EndCreate(s)
  /\ UNCHANGED <<edit, enable, raced>>

-----------------------------------------------------------------------------
(* PATCH /servers/:id with extraPorts *)

\* ports the row already had are not checked again
AskEdit(e, s) ==
  /\ edit[e].pc = "idle"
  /\ row[s].live
  /\ \E extra \in Extras :
       edit' = [edit EXCEPT ![e] = [pc |-> "check", server |-> {s},
                  extra |-> extra, left |-> extra \ row[s].extra]]
  /\ UNCHANGED <<row, chain, create, enable, raced>>

CheckExtra(e) ==
  /\ edit[e].pc = "check"
  /\ \E p \in edit[e].left :
       \/ /\ p \notin Used
          /\ edit' = [edit EXCEPT ![e].left = @ \ {p}]
          /\ raced' = raced \cup
               ({p} \cap (HeldByCreates({}) \cup HeldByEdits({e})))
       \/ /\ p \in Used
          /\ edit' = [edit EXCEPT ![e] = [NoEdit EXCEPT !.pc = "done"]]
          /\ UNCHANGED raced
  /\ UNCHANGED <<row, chain, create, enable>>

\* updateServer's write
WriteExtra(e) ==
  /\ edit[e].pc = "check"
  /\ edit[e].left = {}
  /\ row' = [s \in Servers |-> IF s \in edit[e].server
               THEN [row[s] EXCEPT !.extra = edit[e].extra] ELSE row[s]]
  /\ edit' = [edit EXCEPT ![e] = [NoEdit EXCEPT !.pc = "done"]]
  /\ UNCHANGED <<chain, create, enable, raced>>

-----------------------------------------------------------------------------
(* MapService, and deletion *)

\* freePort avoids the ports of other maps, enabled or not, and what is bound;
\* whether another server's port is bound depends on whether it is up
PickMapPort(s) ==
  /\ row[s].live
  /\ enable[s] = {}
  /\ \E p \in MapRange \ (Foreign \cup UNION {row[t].map : t \in Servers}) :
       enable' = [enable EXCEPT ![s] = {p}]
  /\ UNCHANGED <<row, chain, create, edit, raced>>

\* BlueMap is installed from Modrinth, then the port is written
WriteMapPort(s) ==
  /\ enable[s] # {}
  /\ row' = [row EXCEPT ![s].map = enable[s], ![s].mapped = TRUE]
  /\ enable' = [enable EXCEPT ![s] = {}]
  /\ UNCHANGED <<chain, create, edit, raced>>

InstallFails(s) ==
  /\ enable[s] # {}
  /\ enable' = [enable EXCEPT ![s] = {}]
  /\ UNCHANGED <<row, chain, create, edit, raced>>

DisableMap(s) ==
  /\ row[s].live
  /\ row[s].mapped
  /\ row' = [row EXCEPT ![s].mapped = FALSE]
  /\ UNCHANGED <<chain, create, edit, enable, raced>>

\* deletedAt is set and the integrations go, in one transaction
DeleteServer(s) ==
  /\ row[s].live
  /\ row' = [row EXCEPT ![s].live = FALSE, ![s].map = {}, ![s].mapped = FALSE]
  /\ UNCHANGED <<chain, create, edit, enable, raced>>

-----------------------------------------------------------------------------
CreateStep(s) == \/ BeginExplicit(s) \/ BeginSuggested(s) \/ NoneToSuggest(s)
                 \/ CheckPort(s) \/ InsertRow(s)
                 \/ Build(s) \/ BuildFails(s) \/ Rollback(s)

Next == \/ \E s \in Servers : \/ AskCreate(s) \/ CreateStep(s)
                              \/ PickMapPort(s) \/ WriteMapPort(s)
                              \/ InstallFails(s) \/ DisableMap(s)
                              \/ DeleteServer(s) \/ \E e \in Edits : AskEdit(e, s)
        \/ \E e \in Edits : CheckExtra(e) \/ WriteExtra(e)

Spec == Init /\ [][Next]_portVars

\* every await of a creation settles
FairSpec == Spec /\ \A s \in Servers : WF_portVars(CreateStep(s))

-----------------------------------------------------------------------------
(* The own ports (game, RCON, Bedrock) of two servers never meet: "creates *)
(* are serialized through one chain so two concurrent creates can't both   *)
(* probe the same free port before either has inserted its row".           *)
OwnPortsDisjoint ==
  \A s, t \in Servers : s # t /\ row[s].live /\ row[t].live
    => row[s].own \cap row[t].own = {}

(* Two servers share a port, own or extra, only if a settings change was   *)
(* between its check and its write while the other claim was checked:      *)
(* whatever was written before a check began is respected.                 *)
OnlyRacedPortsShared ==
  \A s, t \in Servers : s # t /\ row[s].live /\ row[t].live
    => (row[s].own \cup row[s].extra) \cap (row[t].own \cup row[t].extra)
         \subseteq raced

(* createServer: a failed creation is rolled back "so no ghost server      *)
(* holds ports": a row without a container belongs to a running creation.  *)
NoGhostServer ==
  \A s \in Servers : row[s].live /\ ~row[s].built
    => create[s].pc \in {"build", "rollback"}

(* runSerializedCreate: "a failed create must not break the chain".        *)
CreatesFinish ==
  \A s \in Servers : create[s].pc = "queued" ~> create[s].pc = "done"
=============================================================================

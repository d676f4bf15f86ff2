-------------------------- MODULE ServerPortsProofs --------------------------
(***************************************************************************)
(* Proofs about ServerPorts for any number of servers, edits and ports.    *)
(*                                                                         *)
(* Serialized creations never share an own port.  Two facts make it        *)
(* inductive: only the head of the chain is past its queue, and what it    *)
(* has found free is still free, since no other creation can write a row   *)
(* and no edit writes own ports.                                           *)
(*                                                                         *)
(* Ports in general are shared only after a race.  For that one the row,   *)
(* the creation's checks and the edits' checks are all holders of a        *)
(* server's ports (Has): a step moves claims between them or claims what   *)
(* it just found unused.                                                   *)
(***************************************************************************)
EXTENDS ServerPorts, TLAPS

HeadRuns ==
  \A s \in Servers : create[s].pc \in {"check", "build", "rollback"}
    => chain # <<>> /\ Head(chain) = s

ChosenFree ==
  \A s, t \in Servers : s # t /\ create[s].pc = "check" /\ row[t].live
    => (create[s].own \ create[s].left) \cap row[t].own = {}

PortInv == TypeOK /\ HeadRuns /\ ChosenFree /\ OwnPortsDisjoint

\* Appending leaves the head of a queue where it is.
LEMMA AppendHead ==
  ASSUME NEW q \in Seq(Servers), NEW s \in Servers
  PROVE  /\ Append(q, s) \in Seq(Servers)
         /\ q # <<>> => Append(q, s) # <<>> /\ Head(Append(q, s)) = Head(q)
  OBVIOUS

LEMMA TailType ==
  ASSUME NEW q \in Seq(Servers), q # <<>>
  PROVE  Tail(q) \in Seq(Servers)
  OBVIOUS

\* What is used covers the own ports of every row.
LEMMA OwnIsUsed ==
  ASSUME NEW t \in Servers, row[t].live
  PROVE  row[t].own \subseteq Used
<1> DEFINE claims == {row[s].own \cup row[s].extra : s \in {u \in Servers : row[u].live}}
<1>1. row[t].own \cup row[t].extra \in claims
  OBVIOUS
<1> HIDE DEF claims
<1>2. UNION claims \subseteq Used
  BY DEF Used, claims
<1> QED BY <1>1, <1>2

LEMMA NoCreateType == NoCreate \in Creates /\ [NoCreate EXCEPT !.pc = "done"] \in Creates
                        /\ [NoCreate EXCEPT !.pc = "build"] \in Creates
  BY DEF NoCreate, Creates

\* A step that only moves one creation, and leaves it unable to be past its
\* queue unless it heads the chain.
LEMMA EndCreateKeeps ==
  ASSUME PortInv, NEW s \in Servers, EndCreate(s),
         create[s].pc \in {"check", "build", "rollback"} \/ Turn(s),
         chain # <<>>, Head(chain) = s
  PROVE  /\ create' \in [Servers -> Creates]
         /\ chain' \in Seq(Servers)
         /\ \A t \in Servers : create'[t].pc \notin {"check", "build", "rollback"}
<1>1. create' = [create EXCEPT ![s] = [NoCreate EXCEPT !.pc = "done"]]
  BY DEF EndCreate
<1>2. create' \in [Servers -> Creates]
  BY <1>1, NoCreateType DEF PortInv, TypeOK
<1>3. chain' \in Seq(Servers)
  BY TailType DEF EndCreate, PortInv, TypeOK
<1>4. ASSUME NEW t \in Servers
      PROVE  create'[t].pc \notin {"check", "build", "rollback"}
  <2>1. CASE t = s
    BY <2>1, <1>1 DEF PortInv, TypeOK, NoCreate
  <2>2. CASE t # s
    BY <2>2, <1>1 DEF PortInv, TypeOK, HeadRuns
  <2> QED BY <2>1, <2>2
<1> QED BY <1>2, <1>3, <1>4

LEMMA PortInit == Init => PortInv
  <1> SUFFICES ASSUME Init PROVE PortInv
    OBVIOUS
  <1>1. TypeOK
    <2>1. row \in [Servers -> Rows]
      BY DEF Init, Absent, Rows
    <2>2. create \in [Servers -> Creates]
      BY NoCreateType DEF Init
    <2>3. edit \in [Edits -> [pc : {"idle", "check", "done"}, server : SUBSET Servers,
                              extra : SUBSET Ports, left : SUBSET Ports]]
      BY DEF Init, NoEdit
    <2> QED BY <2>1, <2>2, <2>3 DEF Init, TypeOK
  <1>2. \A s \in Servers : create[s].pc = "none" /\ ~row[s].live
    BY DEF Init, NoCreate, Absent
  <1> QED BY <1>1, <1>2 DEF PortInv, HeadRuns, ChosenFree, OwnPortsDisjoint

\* Rewriting a row's map, flags or extra ports leaves its own ports alone.
LEMMA RowUpdate ==
  ASSUME NEW r \in Rows, NEW b \in BOOLEAN, NEW ps \in SUBSET Ports
  PROVE  /\ [r EXCEPT !.built = b] \in Rows
         /\ [r EXCEPT !.map = ps, !.mapped = b] \in Rows
         /\ [r EXCEPT !.mapped = b] \in Rows
         /\ [r EXCEPT !.live = b, !.map = ps, !.mapped = b] \in Rows
         /\ [r EXCEPT !.extra = ps] \in Rows
<1>1. [r EXCEPT !.built = b] \in Rows
  BY DEF Rows
<1>2. [r EXCEPT !.map = ps, !.mapped = b] \in Rows
  BY DEF Rows
<1>3. [r EXCEPT !.mapped = b] \in Rows
  BY DEF Rows
<1>4. [r EXCEPT !.live = b, !.map = ps, !.mapped = b] \in Rows
  BY DEF Rows
<1>5. [r EXCEPT !.extra = ps] \in Rows
  BY DEF Rows
<1> QED BY <1>1, <1>2, <1>3, <1>4, <1>5

\* Steps that touch neither rows nor creations keep the three facts.
LEMMA Elsewhere ==
  ASSUME PortInv, UNCHANGED <<chain, create>>,
         \A t \in Servers : row'[t].own = row[t].own /\ (row'[t].live => row[t].live)
  PROVE  HeadRuns' /\ ChosenFree' /\ OwnPortsDisjoint'
  BY DEF PortInv, HeadRuns, ChosenFree, OwnPortsDisjoint

\* Creation steps keep the invariant: the head is the only one that acts.
LEMMA CreateKeeps ==
  ASSUME PortInv, NEW s \in Servers, CreateStep(s)
  PROVE  PortInv'
<1> USE PortsAssumption
<1>0. /\ row \in [Servers -> Rows] /\ create \in [Servers -> Creates]
      /\ chain \in Seq(Servers) /\ create[s] \in Creates
  BY DEF PortInv, TypeOK
<1>1. CASE BeginExplicit(s)
  <2>1. create' \in [Servers -> Creates]
    <3> DEFINE c == [create[s] EXCEPT !.pc = "check",
                                      !.left = create[s].own \cup create[s].extra]
    <3>1. create' = [create EXCEPT ![s] = c]
      BY <1>0, <1>1 DEF BeginExplicit
    <3>2. c \in Creates
      BY <1>0 DEF Creates
    <3> QED BY <3>1, <3>2, <1>0
  <2>2. TypeOK'
    BY <2>1, <1>1 DEF BeginExplicit, PortInv, TypeOK
  <2>3. create'[s].own \ create'[s].left = {} /\ create'[s].pc = "check"
    BY <1>0, <1>1 DEF BeginExplicit, Creates
  <2>4. \A t \in Servers : t # s => create'[t] = create[t]
    BY <1>0, <1>1 DEF BeginExplicit
  <2>5. HeadRuns'
    BY <2>3, <2>4, <1>1 DEF BeginExplicit, Turn, PortInv, HeadRuns
  <2>6. ChosenFree' /\ OwnPortsDisjoint'
    BY <2>3, <2>4, <1>1 DEF BeginExplicit, PortInv, ChosenFree, OwnPortsDisjoint
  <2> QED BY <2>2, <2>5, <2>6 DEF PortInv
<1>2. CASE BeginSuggested(s)
  <2>1. PICK own \in Asks :
          /\ own \cap Used = {}
          /\ create' = [create EXCEPT ![s].pc = "check", ![s].own = own,
                                      ![s].left = create[s].extra]
          /\ raced' = raced \cup (own \cap HeldByEdits({}))
    BY <1>2 DEF BeginSuggested
  <2>2. create' \in [Servers -> Creates]
    <3> DEFINE c == [create[s] EXCEPT !.pc = "check", !.own = own,
                                      !.left = create[s].extra]
    <3>1. create' = [create EXCEPT ![s] = c]
      BY <1>0, <2>1
    <3>2. c \in Creates
      BY <1>0 DEF Creates
    <3> QED BY <3>1, <3>2, <1>0
  <2>3. TypeOK'
    BY <2>1, <2>2, <1>2 DEF BeginSuggested, PortInv, TypeOK
  <2>4. create'[s].own = own /\ create'[s].pc = "check"
    BY <1>0, <2>1 DEF Creates
  <2>5. \A t \in Servers : t # s => create'[t] = create[t]
    BY <1>0, <2>1
  <2>6. HeadRuns'
    BY <2>4, <2>5, <1>2 DEF BeginSuggested, Turn, PortInv, HeadRuns
  <2>7. \A t \in Servers : row[t].live => own \cap row[t].own = {}
    BY <2>1, OwnIsUsed
  <2>8. ChosenFree' /\ OwnPortsDisjoint'
    BY <2>4, <2>5, <2>7, <1>2 DEF BeginSuggested, PortInv, ChosenFree, OwnPortsDisjoint
  <2> QED BY <2>3, <2>6, <2>8 DEF PortInv
<1>3. CASE EndCreate(s) /\ chain # <<>> /\ Head(chain) = s
             /\ UNCHANGED <<row, edit, enable, raced>>
  <2>1. /\ create' \in [Servers -> Creates]
        /\ chain' \in Seq(Servers)
        /\ \A t \in Servers : create'[t].pc \notin {"check", "build", "rollback"}
    BY <1>3, EndCreateKeeps DEF Turn
  <2>2. TypeOK'
    BY <2>1, <1>3 DEF PortInv, TypeOK
  <2> QED BY <2>1, <2>2, <1>3 DEF PortInv, HeadRuns, ChosenFree, OwnPortsDisjoint
<1>4. CASE NoneToSuggest(s)
  BY <1>3, <1>4 DEF NoneToSuggest, Turn
<1>5. CASE CheckPort(s)
  <2>1. chain # <<>> /\ Head(chain) = s /\ create[s].pc = "check"
    BY <1>5 DEF CheckPort, PortInv, HeadRuns
  <2>2. PICK p \in create[s].left :
          \/ /\ p \notin Used
             /\ create' = [create EXCEPT ![s].left = @ \ {p}]
             /\ raced' = raced \cup ({p} \cap HeldByEdits({}))
             /\ UNCHANGED chain
          \/ /\ p \in Used
             /\ EndCreate(s)
             /\ UNCHANGED raced
    BY <1>5 DEF CheckPort
  <2>3. UNCHANGED <<row, edit, enable>>
    BY <1>5 DEF CheckPort
  <2>4. CASE p \in Used /\ EndCreate(s) /\ UNCHANGED raced
    BY <2>1, <2>3, <2>4, <1>3
  <2>5. CASE /\ p \notin Used
             /\ create' = [create EXCEPT ![s].left = @ \ {p}]
             /\ raced' = raced \cup ({p} \cap HeldByEdits({}))
             /\ UNCHANGED chain
    <3> DEFINE c == [create[s] EXCEPT !.left = create[s].left \ {p}]
    <3>1. create' = [create EXCEPT ![s] = c]
      BY <1>0, <2>5
    <3>2. c \in Creates /\ c.own = create[s].own /\ c.left = create[s].left \ {p}
            /\ c.pc = create[s].pc
      BY <1>0 DEF Creates
    <3>3. create' \in [Servers -> Creates]
      BY <3>1, <3>2, <1>0
    <3>4. p \in Ports
      BY <1>0 DEF Creates
    <3>5. TypeOK'
      BY <3>3, <3>4, <2>3, <2>5 DEF PortInv, TypeOK
    <3>6. \A t \in Servers : t # s => create'[t] = create[t]
      BY <3>1, <1>0
    <3>7. create'[s] = c
      BY <3>1, <1>0
    <3> HIDE DEF c
    <3>8. HeadRuns'
      BY <3>2, <3>6, <3>7, <2>5 DEF PortInv, HeadRuns
    <3>9. ASSUME NEW u \in Servers, NEW t \in Servers, u # t,
                 create'[u].pc = "check", row'[t].live
          PROVE  (create'[u].own \ create'[u].left) \cap row'[t].own = {}
      <4>1. CASE u = s
        <5>1. (create[s].own \ create[s].left) \cap row[t].own = {}
          BY <4>1, <3>9, <2>1, <2>3 DEF PortInv, ChosenFree
        <5>2. p \notin row[t].own
          BY <2>5, <2>3, <3>9, OwnIsUsed
        <5> QED BY <5>1, <5>2, <4>1, <3>7, <3>2, <2>3
      <4>2. CASE u # s
        BY <4>2, <3>6, <3>9, <2>3 DEF PortInv, ChosenFree
      <4> QED BY <4>1, <4>2
    <3>10. OwnPortsDisjoint'
      BY <2>3 DEF PortInv, OwnPortsDisjoint
    <3> QED BY <3>5, <3>8, <3>9, <3>10 DEF PortInv, ChosenFree
  <2> QED BY <2>2, <2>4, <2>5
<1>6. CASE InsertRow(s)
  <2> DEFINE r == [Absent EXCEPT !.live = TRUE, !.own = create[s].own,
                                 !.extra = create[s].extra]
  <2>1. row' = [row EXCEPT ![s] = r] /\ r \in Rows /\ r.own = create[s].own
    BY <1>0, <1>6 DEF InsertRow, Absent, Rows, Creates
  <2>2. create' = [create EXCEPT ![s] = [NoCreate EXCEPT !.pc = "build"]]
    BY <1>6 DEF InsertRow
  <2>3. row' \in [Servers -> Rows] /\ create' \in [Servers -> Creates]
    BY <2>1, <2>2, <1>0, NoCreateType
  <2>4. TypeOK'
    BY <2>3, <1>6 DEF InsertRow, PortInv, TypeOK
  <2>5. chain # <<>> /\ Head(chain) = s /\ create[s].left = {} /\ create[s].pc = "check"
    BY <1>6 DEF InsertRow, PortInv, HeadRuns
  <2>6. \A t \in Servers : create'[t].pc # "check"
    <3>1. create'[s].pc = "build"
      BY <2>2, <1>0 DEF NoCreate
    <3>2. \A t \in Servers : t # s => create'[t] = create[t] /\ create[t].pc # "check"
      BY <2>2, <2>5, <1>0 DEF PortInv, HeadRuns
    <3> QED BY <3>1, <3>2
  <2>7. HeadRuns'
    BY <2>2, <2>5, <1>0, <1>6 DEF InsertRow, PortInv, HeadRuns
  <2>8. row'[s].own = create[s].own /\ \A t \in Servers : t # s => row'[t] = row[t]
    BY <2>1, <1>0
  <2>9. \A t \in Servers : t # s /\ row[t].live => create[s].own \cap row[t].own = {}
    BY <2>5 DEF PortInv, ChosenFree
  <2>10. OwnPortsDisjoint'
    BY <2>8, <2>9 DEF PortInv, OwnPortsDisjoint
  <2> QED BY <2>4, <2>6, <2>7, <2>10 DEF PortInv, ChosenFree
<1>7. CASE Build(s)
  <2>1. chain # <<>> /\ Head(chain) = s
    BY <1>7 DEF Build, PortInv, HeadRuns
  <2>2. /\ create' \in [Servers -> Creates]
        /\ chain' \in Seq(Servers)
        /\ \A t \in Servers : create'[t].pc \notin {"check", "build", "rollback"}
    BY <1>7, <2>1, EndCreateKeeps DEF Build
  <2>3. /\ row' \in [Servers -> Rows]
        /\ \A t \in Servers : row'[t].own = row[t].own /\ row'[t].live = row[t].live
    <3> DEFINE r == [row[s] EXCEPT !.built = TRUE]
    <3>1. row' = [row EXCEPT ![s] = r]
      BY <1>0, <1>7 DEF Build
    <3>2. r \in Rows
      BY <1>0, RowUpdate
    <3>3. r.own = row[s].own /\ r.live = row[s].live
      BY <1>0 DEF Rows
    <3> HIDE DEF r
    <3> QED BY <1>0, <3>1, <3>2, <3>3
  <2>4. TypeOK'
    BY <2>2, <2>3, <1>7 DEF Build, PortInv, TypeOK
  <2> QED BY <2>2, <2>3, <2>4 DEF PortInv, HeadRuns, ChosenFree, OwnPortsDisjoint
<1>8. CASE BuildFails(s)
  <2>1. create' \in [Servers -> Creates]
    BY <1>0, <1>8 DEF BuildFails, Creates
  <2>2. TypeOK'
    BY <2>1, <1>8 DEF BuildFails, PortInv, TypeOK
  <2>3. create'[s].pc = "rollback" /\ \A t \in Servers : t # s => create'[t] = create[t]
    BY <1>0, <1>8 DEF BuildFails, Creates
  <2>4. HeadRuns'
    BY <2>3, <1>8 DEF BuildFails, PortInv, HeadRuns
  <2>5. ChosenFree' /\ OwnPortsDisjoint'
    BY <2>3, <1>8 DEF BuildFails, PortInv, ChosenFree, OwnPortsDisjoint
  <2> QED BY <2>2, <2>4, <2>5 DEF PortInv
<1>9. CASE Rollback(s)
  <2>1. chain # <<>> /\ Head(chain) = s
    BY <1>9 DEF Rollback, PortInv, HeadRuns
  <2>2. /\ create' \in [Servers -> Creates]
        /\ chain' \in Seq(Servers)
        /\ \A t \in Servers : create'[t].pc \notin {"check", "build", "rollback"}
    BY <1>9, <2>1, EndCreateKeeps DEF Rollback
  <2>3. Absent \in Rows /\ ~Absent.live
    BY DEF Absent, Rows
  <2>4. /\ row' \in [Servers -> Rows]
        /\ ~row'[s].live
        /\ \A t \in Servers : t # s => row'[t] = row[t]
    BY <1>0, <1>9, <2>3 DEF Rollback
  <2>5. TypeOK'
    BY <2>2, <2>4, <1>9 DEF Rollback, PortInv, TypeOK
  <2>6. OwnPortsDisjoint'
    BY <2>4 DEF PortInv, OwnPortsDisjoint
  <2> QED BY <2>2, <2>5, <2>6 DEF PortInv, HeadRuns, ChosenFree
<1> QED BY <1>1, <1>2, <1>4, <1>5, <1>6, <1>7, <1>8, <1>9 DEF CreateStep

\* The other steps write no own port, revive no row and move no creation.
LEMMA OthersKeep ==
  ASSUME PortInv,
         \/ \E s \in Servers : \/ PickMapPort(s) \/ WriteMapPort(s)
                              \/ InstallFails(s) \/ DisableMap(s)
                              \/ DeleteServer(s) \/ \E e \in Edits : AskEdit(e, s)
         \/ \E e \in Edits : CheckExtra(e) \/ WriteExtra(e)
  PROVE  PortInv'
<1> USE PortsAssumption
<1> DEFINE EditType == [pc : {"idle", "check", "done"}, server : SUBSET Servers,
                        extra : SUBSET Ports, left : SUBSET Ports]
<1>0. row \in [Servers -> Rows] /\ edit \in [Edits -> EditType]
  BY DEF PortInv, TypeOK
<1>1. ASSUME NEW s \in Servers, PickMapPort(s) PROVE PortInv'
  <2>1. UNCHANGED <<row, chain, create, edit, raced>> /\ enable' \in [Servers -> SUBSET Ports]
    BY <1>1 DEF PickMapPort, PortInv, TypeOK
  <2>2. TypeOK'
    BY <2>1 DEF PortInv, TypeOK
  <2> QED BY <2>1, <2>2, Elsewhere DEF PortInv
<1>2. ASSUME NEW s \in Servers, WriteMapPort(s) PROVE PortInv'
  <2> DEFINE r == [row[s] EXCEPT !.map = enable[s], !.mapped = TRUE]
  <2>1. row' = [row EXCEPT ![s] = r]
    BY <1>0, <1>2 DEF WriteMapPort
  <2>2. r \in Rows
    BY <1>0, RowUpdate DEF PortInv, TypeOK
  <2>5. r.own = row[s].own /\ r.live = row[s].live
    BY <1>0 DEF Rows
  <2> HIDE DEF r
  <2>3. /\ row' \in [Servers -> Rows]
        /\ \A t \in Servers : row'[t].own = row[t].own /\ row'[t].live = row[t].live
    BY <1>0, <2>1, <2>2, <2>5
  <2>4. TypeOK'
    BY <2>3, <1>2 DEF WriteMapPort, PortInv, TypeOK
  <2> QED BY <2>3, <2>4, <1>2, Elsewhere DEF WriteMapPort, PortInv
<1>3. ASSUME NEW s \in Servers, InstallFails(s) PROVE PortInv'
  <2>1. TypeOK'
    BY <1>3 DEF InstallFails, PortInv, TypeOK
  <2> QED BY <2>1, <1>3, Elsewhere DEF InstallFails, PortInv
<1>4. ASSUME NEW s \in Servers, DisableMap(s) PROVE PortInv'
  <2> DEFINE r == [row[s] EXCEPT !.mapped = FALSE]
  <2>1. row' = [row EXCEPT ![s] = r]
    BY <1>0, <1>4 DEF DisableMap
  <2>2. r \in Rows
    BY <1>0, RowUpdate
  <2>5. r.own = row[s].own /\ r.live = row[s].live
    BY <1>0 DEF Rows
  <2> HIDE DEF r
  <2>3. /\ row' \in [Servers -> Rows]
        /\ \A t \in Servers : row'[t].own = row[t].own /\ row'[t].live = row[t].live
    BY <1>0, <2>1, <2>2, <2>5
  <2>4. TypeOK'
    BY <2>3, <1>4 DEF DisableMap, PortInv, TypeOK
  <2> QED BY <2>3, <2>4, <1>4, Elsewhere DEF DisableMap, PortInv
<1>5. ASSUME NEW s \in Servers, DeleteServer(s) PROVE PortInv'
  <2> DEFINE r == [row[s] EXCEPT !.live = FALSE, !.map = {}, !.mapped = FALSE]
  <2>1. row' = [row EXCEPT ![s] = r]
    BY <1>0, <1>5 DEF DeleteServer
  <2>2. r \in Rows
    BY <1>0, RowUpdate
  <2>5. r.own = row[s].own /\ ~r.live
    BY <1>0 DEF Rows
  <2> HIDE DEF r
  <2>3. /\ row' \in [Servers -> Rows]
        /\ \A t \in Servers : row'[t].own = row[t].own /\ (row'[t].live => row[t].live)
    BY <1>0, <2>1, <2>2, <2>5
  <2>4. TypeOK'
    BY <2>3, <1>5 DEF DeleteServer, PortInv, TypeOK
  <2> QED BY <2>3, <2>4, <1>5, Elsewhere DEF DeleteServer, PortInv
<1>6. ASSUME NEW e \in Edits, NEW s \in Servers, AskEdit(e, s) PROVE PortInv'
  <2>1. PICK extra \in Extras :
          edit' = [edit EXCEPT ![e] = [pc |-> "check", server |-> {s},
                     extra |-> extra, left |-> extra \ row[s].extra]]
    BY <1>6 DEF AskEdit
  <2>2. [pc |-> "check", server |-> {s}, extra |-> extra,
         left |-> extra \ row[s].extra] \in EditType
    OBVIOUS
  <2>3. edit' \in [Edits -> EditType]
    BY <1>0, <2>1, <2>2
  <2>4. TypeOK'
    BY <2>3, <1>6 DEF AskEdit, PortInv, TypeOK
  <2> QED BY <2>4, <1>6, Elsewhere DEF AskEdit, PortInv
<1>7. NoEdit \in EditType /\ [NoEdit EXCEPT !.pc = "done"] \in EditType
  BY DEF NoEdit
<1>8. ASSUME NEW e \in Edits, CheckExtra(e) PROVE PortInv'
  <2>1. UNCHANGED <<row, chain, create, enable>>
    BY <1>8 DEF CheckExtra
  <2>2. edit' \in [Edits -> EditType] /\ raced' \in SUBSET Ports
    <3>1. PICK p \in edit[e].left :
       \/ /\ edit' = [edit EXCEPT ![e].left = @ \ {p}]
          /\ raced' = raced \cup
               ({p} \cap (HeldByCreates({}) \cup HeldByEdits({e})))
       \/ /\ edit' = [edit EXCEPT ![e] = [NoEdit EXCEPT !.pc = "done"]]
          /\ UNCHANGED raced
      BY <1>8 DEF CheckExtra
    <3>2. [edit[e] EXCEPT !.left = @ \ {p}] \in EditType /\ p \in Ports
      BY <1>0
    <3>3. edit' \in [Edits -> EditType]
      BY <1>0, <1>7, <3>1, <3>2
    <3> HIDE DEF EditType
    <3> QED BY <3>1, <3>2, <3>3 DEF PortInv, TypeOK
  <2>3. TypeOK'
    BY <2>1, <2>2 DEF PortInv, TypeOK
  <2> QED BY <2>1, <2>3, Elsewhere DEF PortInv
<1>9. ASSUME NEW e \in Edits, WriteExtra(e) PROVE PortInv'
  <2>1. ASSUME NEW s \in Servers
        PROVE  /\ row'[s] \in Rows
               /\ row'[s].own = row[s].own
               /\ row'[s].live = row[s].live
    <3> DEFINE r == [row[s] EXCEPT !.extra = edit[e].extra]
    <3>1. row'[s] = IF s \in edit[e].server THEN r ELSE row[s]
      BY <1>9 DEF WriteExtra
    <3>2. r \in Rows /\ r.own = row[s].own /\ r.live = row[s].live
      BY <1>0 DEF Rows
    <3> HIDE DEF r
    <3> QED BY <1>0, <3>1, <3>2
  <2>2. row' \in [Servers -> Rows]
    BY <2>1, <1>9 DEF WriteExtra
  <2>3. edit' \in [Edits -> EditType]
    BY <1>0, <1>7, <1>9 DEF WriteExtra
  <2>4. TypeOK'
    BY <2>2, <2>3, <1>9 DEF WriteExtra, PortInv, TypeOK
  <2> QED BY <2>1, <2>4, <1>9, Elsewhere DEF WriteExtra, PortInv
<1> QED BY <1>1, <1>2, <1>3, <1>4, <1>5, <1>6, <1>8, <1>9

LEMMA PortNext == PortInv /\ [Next]_portVars => PortInv'
<1> SUFFICES ASSUME PortInv, [Next]_portVars PROVE PortInv'
  OBVIOUS
<1>1. ASSUME NEW s \in Servers, AskCreate(s) PROVE PortInv'
  <2>1. PICK c \in Creates : create' = [create EXCEPT ![s] = c] /\ c.pc = "queued"
    <3>1. PICK suggest \in BOOLEAN, own \in Asks, extra \in Extras :
       create' = [create EXCEPT ![s] =
         [pc |-> "queued", suggest |-> suggest,
          own |-> IF suggest THEN {} ELSE own, extra |-> extra, left |-> {}]]
      BY <1>1 DEF AskCreate
    <3>2. [pc |-> "queued", suggest |-> suggest,
           own |-> IF suggest THEN {} ELSE own, extra |-> extra, left |-> {}]
             \in Creates
      BY PortsAssumption DEF Creates
    <3> QED BY <3>1, <3>2
  <2>2. create \in [Servers -> Creates] /\ chain \in Seq(Servers)
    BY DEF PortInv, TypeOK
  <2>3. create' \in [Servers -> Creates] /\ chain' \in Seq(Servers)
    BY <2>1, <2>2, <1>1, AppendHead DEF AskCreate
  <2>4. TypeOK'
    BY <2>3, <1>1 DEF AskCreate, PortInv, TypeOK
  <2>5. create'[s].pc = "queued" /\ \A t \in Servers : t # s => create'[t] = create[t]
    BY <2>1, <2>2
  <2>6. chain # <<>> => chain' # <<>> /\ Head(chain') = Head(chain)
    BY <2>2, <1>1, AppendHead DEF AskCreate
  <2>7. HeadRuns'
    BY <2>5, <2>6 DEF PortInv, HeadRuns
  <2>8. ChosenFree' /\ OwnPortsDisjoint'
    BY <2>5, <1>1 DEF AskCreate, PortInv, ChosenFree, OwnPortsDisjoint
  <2> QED BY <2>4, <2>7, <2>8 DEF PortInv
<1>2. CASE UNCHANGED portVars
  BY <1>2 DEF portVars, PortInv, TypeOK, HeadRuns, ChosenFree, OwnPortsDisjoint
<1>3. CASE Next
  BY <1>1, <1>3, CreateKeeps, OthersKeep DEF Next
<1> QED BY <1>2, <1>3

\* The invariant and its two conjuncts that the run checks.
THEOREM PortsInvariant == Spec => []PortInv
BY PortInit, PortNext, PTL DEF Spec

\* createServer and settings changes keep the state well typed.
THEOREM PortTypes == Spec => []TypeOK
<1>1. PortInv => TypeOK
  BY DEF PortInv
<1> QED BY <1>1, PortsInvariant, PTL

\* Serialized creations never give two live servers the same game, RCON or
\* Bedrock port, for any number of servers, ports and settings changes.
THEOREM CreatesNeverShareAPort == Spec => []OwnPortsDisjoint
<1>1. PortInv => OwnPortsDisjoint
  BY DEF PortInv
<1> QED BY <1>1, PortsInvariant, PTL

-----------------------------------------------------------------------------
(* Sharing.  Whoever claims a port for a server - its row, its creation's  *)
(* checks or an edit's - is one holder; a port with holders for two        *)
(* servers has been raced.  A step either moves claims between the holders *)
(* of one server or claims ports it has just found unused.                 *)

Claims(s) == row[s].own \cup row[s].extra

RowHas(s, p) == row[s].live /\ p \in Claims(s)
CreateHas(s, p) == create[s].pc = "check" /\ p \in (create[s].own \cup create[s].extra) \ create[s].left
EditHas(e, s, p) == edit[e].pc = "check" /\ s \in edit[e].server /\ p \in edit[e].extra \ edit[e].left

Has(s, p) == RowHas(s, p) \/ CreateHas(s, p) \/ \E e \in Edits : EditHas(e, s, p)

Apart ==
  \A s, t \in Servers : s # t => \A p \in Ports : Has(s, p) /\ Has(t, p) => p \in raced

\* an edit is of one server
OneServer == \A e \in Edits : edit[e].pc = "check" => \E s \in Servers : edit[e].server = {s}

ShareInv == OneServer /\ Apart /\ NoGhostServer

\* What is used covers every port of every row.
LEMMA ClaimsAreUsed ==
  ASSUME NEW t \in Servers, NEW p, RowHas(t, p)
  PROVE  p \in Used
<1> DEFINE claims == {row[s].own \cup row[s].extra : s \in {u \in Servers : row[u].live}}
<1>1. row[t].own \cup row[t].extra \in claims
  BY DEF RowHas
<1> HIDE DEF claims
<1>2. UNION claims \subseteq Used
  BY DEF Used, claims
<1> QED BY <1>1, <1>2 DEF RowHas, Claims

\* What the checks of other creations and edits have found free is counted.
LEMMA HeldIsCounted ==
  ASSUME NEW t \in Servers, NEW p
  PROVE  /\ CreateHas(t, p) => p \in HeldByCreates({})
         /\ \A e \in Edits, except \in SUBSET Edits :
              EditHas(e, t, p) /\ e \notin except => p \in HeldByEdits(except)
<1>1. ASSUME CreateHas(t, p)
      PROVE  p \in HeldByCreates({})
  <2> DEFINE helds == {Held(create[s]) : s \in Servers \ {}}
  <2>1. Held(create[t]) \in helds
    OBVIOUS
  <2>2. p \in Held(create[t])
    BY <1>1 DEF CreateHas, Held
  <2> HIDE DEF helds
  <2>3. p \in UNION helds
    BY <2>1, <2>2
  <2> QED BY <2>3 DEF HeldByCreates, helds
<1>2. ASSUME NEW e \in Edits, NEW except \in SUBSET Edits, EditHas(e, t, p), e \notin except
      PROVE  p \in HeldByEdits(except)
  <2> DEFINE helds == {edit[f].extra \ edit[f].left : f \in {g \in Edits \ except : edit[g].pc = "check"}}
  <2>1. edit[e].extra \ edit[e].left \in helds
    BY <1>2 DEF EditHas
  <2>2. p \in edit[e].extra \ edit[e].left
    BY <1>2 DEF EditHas
  <2> HIDE DEF helds
  <2>3. p \in UNION helds
    BY <2>1, <2>2
  <2> QED BY <2>3 DEF HeldByEdits, helds
<1> QED BY <1>1, <1>2

\* A step that moves claims between the holders of one server.
Shifts == /\ \A s \in Servers, p \in Ports : Has(s, p)' => Has(s, p)
          /\ raced \subseteq raced'

\* A step that claims the ports `ps` for the server s, where any other holder
\* of one has raced it.
Grows(s, ps) ==
  /\ \A t \in Servers, p \in Ports : Has(t, p)' => Has(t, p) \/ (t = s /\ p \in ps)
  /\ \A t \in Servers \ {s}, p \in ps : Has(t, p) => p \in raced'
  /\ raced \subseteq raced'

LEMMA ShiftKeeps == ASSUME Apart, Shifts PROVE Apart'
  BY DEF Apart, Shifts

LEMMA GrowKeeps == ASSUME Apart, NEW s \in Servers, NEW ps, Grows(s, ps) PROVE Apart'
<1> SUFFICES ASSUME NEW a \in Servers, NEW b \in Servers, a # b, NEW p \in Ports,
                    Has(a, p)', Has(b, p)'
             PROVE  p \in raced'
  BY DEF Apart
<1>1. /\ Has(a, p) \/ (a = s /\ p \in ps)
      /\ Has(b, p) \/ (b = s /\ p \in ps)
  BY DEF Grows
<1>2. CASE Has(a, p) /\ Has(b, p)
  BY <1>2 DEF Apart, Grows
<1>3. CASE a = s /\ p \in ps /\ Has(b, p)
  BY <1>3 DEF Grows
<1>4. CASE b = s /\ p \in ps /\ Has(a, p)
  BY <1>4 DEF Grows
<1> QED BY <1>1, <1>2, <1>3, <1>4

\* Nobody else holds what a creation's check finds unused but an edit.
LEMMA UnusedByCreate ==
  ASSUME PortInv, NEW s \in Servers, chain # <<>>, Head(chain) = s,
         NEW t \in Servers \ {s}, NEW p, Has(t, p), p \notin Used
  PROVE  p \in HeldByEdits({})
<1>1. ~RowHas(t, p)
  BY ClaimsAreUsed
<1>2. ~CreateHas(t, p)
  BY DEF CreateHas, PortInv, HeadRuns
<1> QED BY <1>1, <1>2, HeldIsCounted DEF Has

\* A step on the creation of s and its row alone, which shifts its claims.
LEMMA CreateShifts ==
  ASSUME NEW s \in Servers, \A t \in Servers \ {s} : row'[t] = row[t] /\ create'[t] = create[t],
         edit' = edit, raced \subseteq raced',
         \A p \in Ports : RowHas(s, p)' \/ CreateHas(s, p)' => RowHas(s, p) \/ CreateHas(s, p)
  PROVE  Shifts
<1> SUFFICES ASSUME NEW t \in Servers, NEW p \in Ports, Has(t, p)'
             PROVE  Has(t, p)
  BY DEF Shifts
<1>1. (\E e \in Edits : EditHas(e, t, p))' => \E e \in Edits : EditHas(e, t, p)
  BY DEF EditHas
<1>2. CASE t = s
  BY <1>1, <1>2 DEF Has
<1>3. CASE t # s
  <2>1. /\ RowHas(t, p)' => RowHas(t, p)
        /\ CreateHas(t, p)' => CreateHas(t, p)
    BY <1>3 DEF RowHas, CreateHas, Claims
  <2> QED BY <1>1, <2>1 DEF Has
<1> QED BY <1>2, <1>3

\* A creation that ends holds nothing any more.
LEMMA EndShifts ==
  ASSUME TypeOK, NEW s \in Servers, EndCreate(s), edit' = edit, raced' = raced,
         \A t \in Servers \ {s} : row'[t] = row[t],
         \A p \in Ports : RowHas(s, p)' => RowHas(s, p)
  PROVE  Shifts
<1>1. \A t \in Servers \ {s} : create'[t] = create[t]
  BY DEF EndCreate, TypeOK
<1>2. create'[s].pc = "done"
  BY DEF EndCreate, TypeOK, NoCreate
<1> QED BY <1>1, <1>2, CreateShifts DEF CreateHas

LEMMA CreateApart ==
  ASSUME PortInv, PortInv', ShareInv, NEW s \in Servers, CreateStep(s)
  PROVE  Apart'
<1>0. /\ row \in [Servers -> Rows] /\ create \in [Servers -> Creates]
      /\ create[s] \in Creates /\ row[s] \in Rows /\ TypeOK /\ Apart
  BY DEF PortInv, TypeOK, ShareInv
<1>1. CASE BeginExplicit(s)
  <2> DEFINE c == [create[s] EXCEPT !.pc = "check", !.left = create[s].own \cup create[s].extra]
  <2>1. create' = [create EXCEPT ![s] = c]
    BY <1>0, <1>1 DEF BeginExplicit
  <2>2. c.own = create[s].own /\ c.extra = create[s].extra /\ c.left = create[s].own \cup create[s].extra
    BY <1>0 DEF Creates
  <2> HIDE DEF c
  <2>3. /\ UNCHANGED <<row, edit, raced>> /\ create'[s] = c
        /\ \A t \in Servers \ {s} : create'[t] = create[t]
    BY <1>0, <1>1, <2>1 DEF BeginExplicit
  <2>4. \A p \in Ports : ~CreateHas(s, p)'
    BY <2>2, <2>3 DEF CreateHas
  <2>5. \A p \in Ports : RowHas(s, p)' => RowHas(s, p)
    BY <2>3 DEF RowHas, Claims
  <2>6. Shifts
    BY <2>3, <2>4, <2>5, CreateShifts
  <2> QED BY <1>0, <2>6, ShiftKeeps
<1>2. CASE BeginSuggested(s)
  <2>1. PICK own \in Asks :
          /\ own \cap Used = {}
          /\ create' = [create EXCEPT ![s].pc = "check", ![s].own = own,
                                      ![s].left = create[s].extra]
          /\ raced' = raced \cup (own \cap HeldByEdits({}))
    BY <1>2 DEF BeginSuggested
  <2> DEFINE c == [create[s] EXCEPT !.pc = "check", !.own = own, !.left = create[s].extra]
  <2>2. create' = [create EXCEPT ![s] = c]
    BY <1>0, <2>1
  <2>3. c.own = own /\ c.extra = create[s].extra /\ c.left = create[s].extra
    BY <1>0 DEF Creates
  <2> HIDE DEF c
  <2>4. /\ UNCHANGED <<row, edit, chain>> /\ create'[s] = c /\ chain # <<>> /\ Head(chain) = s
        /\ \A t \in Servers \ {s} : create'[t] = create[t]
    BY <1>0, <1>2, <2>2 DEF BeginSuggested, Turn
  <2>5. ASSUME NEW t \in Servers, NEW p \in Ports, Has(t, p)'
        PROVE  Has(t, p) \/ (t = s /\ p \in own)
    <3>1. RowHas(t, p)' => RowHas(t, p)
      BY <2>4 DEF RowHas, Claims
    <3>2. (\E e \in Edits : EditHas(e, t, p))' => \E e \in Edits : EditHas(e, t, p)
      BY <2>4 DEF EditHas
    <3>3. CreateHas(t, p)' => CreateHas(t, p) \/ (t = s /\ p \in own)
      BY <2>3, <2>4 DEF CreateHas
    <3> QED BY <2>5, <3>1, <3>2, <3>3 DEF Has
  <2>6. ASSUME NEW t \in Servers \ {s}, NEW p \in own, Has(t, p)
        PROVE  p \in raced'
    BY <2>1, <2>4, <2>6, UnusedByCreate
  <2>7. Grows(s, own)
    BY <2>1, <2>5, <2>6 DEF Grows
  <2> QED BY <1>0, <2>7, GrowKeeps
<1>3. CASE NoneToSuggest(s)
  <2>1. EndCreate(s) /\ UNCHANGED <<row, edit, raced>>
    BY <1>3 DEF NoneToSuggest
  <2>2. Shifts
    BY <1>0, <2>1, EndShifts DEF RowHas, Claims
  <2> QED BY <1>0, <2>2, ShiftKeeps
<1>4. CASE CheckPort(s)
  <2>1. chain # <<>> /\ Head(chain) = s /\ create[s].pc = "check" /\ UNCHANGED <<row, edit>>
    BY <1>4 DEF CheckPort, PortInv, HeadRuns
  <2>2. PICK p \in create[s].left :
          \/ /\ p \notin Used
             /\ create' = [create EXCEPT ![s].left = @ \ {p}]
             /\ raced' = raced \cup ({p} \cap HeldByEdits({}))
          \/ /\ EndCreate(s)
             /\ UNCHANGED raced
    BY <1>4 DEF CheckPort
  <2>3. CASE EndCreate(s) /\ UNCHANGED raced
    <3>1. Shifts
      BY <1>0, <2>1, <2>3, EndShifts DEF RowHas, Claims
    <3> QED BY <1>0, <3>1, ShiftKeeps
  <2>4. CASE /\ p \notin Used
             /\ create' = [create EXCEPT ![s].left = @ \ {p}]
             /\ raced' = raced \cup ({p} \cap HeldByEdits({}))
    <3> DEFINE c == [create[s] EXCEPT !.left = create[s].left \ {p}]
    <3>1. create' = [create EXCEPT ![s] = c]
      BY <1>0, <2>4
    <3>2. /\ c.own = create[s].own /\ c.left = create[s].left \ {p}
          /\ c.pc = create[s].pc /\ c.extra = create[s].extra
      BY <1>0 DEF Creates
    <3>3. create'[s] = c /\ \A t \in Servers \ {s} : create'[t] = create[t]
      BY <1>0, <3>1
    <3> HIDE DEF c
    <3>4. ASSUME NEW t \in Servers, NEW q \in Ports, Has(t, q)'
          PROVE  Has(t, q) \/ (t = s /\ q \in {p})
      <4>1. RowHas(t, q)' => RowHas(t, q)
        BY <2>1 DEF RowHas, Claims
      <4>2. (\E e \in Edits : EditHas(e, t, q))' => \E e \in Edits : EditHas(e, t, q)
        BY <2>1 DEF EditHas
      <4>3. CreateHas(t, q)' => CreateHas(t, q) \/ (t = s /\ q \in {p})
        BY <3>2, <3>3 DEF CreateHas
      <4> QED BY <3>4, <4>1, <4>2, <4>3 DEF Has
    <3>5. ASSUME NEW t \in Servers \ {s}, NEW q \in {p}, Has(t, q)
          PROVE  q \in raced'
      BY <2>1, <2>4, <3>5, UnusedByCreate
    <3>6. Grows(s, {p})
      BY <2>4, <3>4, <3>5 DEF Grows
    <3> QED BY <1>0, <3>6, GrowKeeps
  <2> QED BY <2>2, <2>3, <2>4
<1>5. CASE InsertRow(s)
  <2> DEFINE r == [Absent EXCEPT !.live = TRUE, !.own = create[s].own, !.extra = create[s].extra]
  <2>1. row' = [row EXCEPT ![s] = r] /\ r.own = create[s].own /\ r.extra = create[s].extra
    BY <1>5 DEF InsertRow, Absent
  <2> HIDE DEF r
  <2>2. /\ row'[s] = r /\ \A t \in Servers \ {s} : row'[t] = row[t]
        /\ edit' = edit /\ raced' = raced /\ create[s].pc = "check" /\ create[s].left = {}
    BY <1>0, <1>5, <2>1 DEF InsertRow
  <2>3. create'[s].pc = "build" /\ \A t \in Servers \ {s} : create'[t] = create[t]
    BY <1>0, <1>5 DEF InsertRow, NoCreate
  <2>4. \A p \in Ports : RowHas(s, p)' \/ CreateHas(s, p)' => CreateHas(s, p)
    BY <2>1, <2>2, <2>3 DEF RowHas, CreateHas, Claims
  <2>5. Shifts
    BY <2>2, <2>3, <2>4, CreateShifts
  <2> QED BY <1>0, <2>5, ShiftKeeps
<1>6. CASE Build(s)
  <2> DEFINE r == [row[s] EXCEPT !.built = TRUE]
  <2>1. r.own = row[s].own /\ r.extra = row[s].extra /\ r.live = row[s].live
    BY <1>0 DEF Rows
  <2>2. row' = [row EXCEPT ![s] = r] /\ EndCreate(s) /\ edit' = edit /\ raced' = raced
    BY <1>0, <1>6 DEF Build
  <2> HIDE DEF r
  <2>3. row'[s] = r /\ \A t \in Servers \ {s} : row'[t] = row[t]
    BY <1>0, <2>2
  <2>4. \A p \in Ports : RowHas(s, p)' => RowHas(s, p)
    BY <2>1, <2>3 DEF RowHas, Claims
  <2>5. Shifts
    BY <1>0, <2>2, <2>3, <2>4, EndShifts
  <2> QED BY <1>0, <2>5, ShiftKeeps
<1>7. CASE BuildFails(s)
  <2>1. /\ UNCHANGED <<row, edit, raced>> /\ create'[s].pc = "rollback"
        /\ \A t \in Servers \ {s} : create'[t] = create[t]
    BY <1>0, <1>7 DEF BuildFails, Creates
  <2>2. Shifts
    BY <2>1, CreateShifts DEF RowHas, CreateHas, Claims
  <2> QED BY <1>0, <2>2, ShiftKeeps
<1>8. CASE Rollback(s)
  <2>1. /\ EndCreate(s) /\ edit' = edit /\ raced' = raced /\ ~row'[s].live
        /\ \A t \in Servers \ {s} : row'[t] = row[t]
    BY <1>0, <1>8 DEF Rollback, Absent
  <2>2. Shifts
    BY <1>0, <2>1, EndShifts DEF RowHas
  <2> QED BY <1>0, <2>2, ShiftKeeps
<1> QED BY <1>1, <1>2, <1>3, <1>4, <1>5, <1>6, <1>7, <1>8 DEF CreateStep

\* A row without a container has a creation that builds it or takes it back.
LEMMA CreateNoGhost ==
  ASSUME TypeOK, NoGhostServer, NEW s \in Servers, CreateStep(s)
  PROVE  NoGhostServer'
<1>0. row \in [Servers -> Rows] /\ create \in [Servers -> Creates] /\ create[s] \in Creates
  BY DEF TypeOK
<1>1. \A t \in Servers \ {s} : create'[t] = create[t] /\ row'[t] = row[t]
  BY <1>0 DEF CreateStep, BeginExplicit, BeginSuggested, NoneToSuggest, CheckPort, InsertRow,
              Build, BuildFails, Rollback, EndCreate
<1>2. CASE row' = row /\ create[s].pc \notin {"build", "rollback"}
  <2>1. ~(row'[s].live /\ ~row'[s].built)
    BY <1>2 DEF NoGhostServer
  <2> QED BY <1>1, <2>1 DEF NoGhostServer
<1>3. CASE InsertRow(s) \/ BuildFails(s)
  <2>1. create'[s].pc \in {"build", "rollback"}
    BY <1>0, <1>3 DEF InsertRow, BuildFails, NoCreate, Creates
  <2> QED BY <1>1, <2>1 DEF NoGhostServer
<1>4. CASE Build(s) \/ Rollback(s)
  <2>1. row'[s].built \/ ~row'[s].live
    BY <1>0, <1>4 DEF Build, Rollback, Absent, Rows
  <2> QED BY <1>1, <2>1 DEF NoGhostServer
<1>5. BeginExplicit(s) \/ BeginSuggested(s) \/ NoneToSuggest(s) \/ CheckPort(s)
        => row' = row /\ create[s].pc \notin {"build", "rollback"}
  BY DEF BeginExplicit, BeginSuggested, NoneToSuggest, CheckPort
<1> QED BY <1>2, <1>3, <1>4, <1>5 DEF CreateStep

\* The map, a deletion and a failed install shift nothing between holders.
LEMMA RowStepShares ==
  ASSUME TypeOK, ShareInv, UNCHANGED <<create, edit, raced>>,
         \A t \in Servers : /\ row'[t].own = row[t].own /\ row'[t].extra = row[t].extra
                            /\ row'[t].built = row[t].built
                            /\ row'[t].live => row[t].live
  PROVE  ShareInv'
<1>1. ASSUME NEW t \in Servers, NEW p \in Ports, Has(t, p)'
      PROVE  Has(t, p)
  BY <1>1 DEF Has, RowHas, CreateHas, EditHas, Claims
<1>2. Shifts
  BY <1>1 DEF Shifts
<1>3. NoGhostServer'
  BY DEF ShareInv, NoGhostServer
<1> QED BY <1>2, <1>3, ShiftKeeps DEF ShareInv, OneServer

LEMMA MapAndDeleteShare ==
  ASSUME TypeOK, ShareInv, NEW s \in Servers,
         PickMapPort(s) \/ WriteMapPort(s) \/ InstallFails(s) \/ DisableMap(s) \/ DeleteServer(s)
  PROVE  ShareInv'
<1>0. row \in [Servers -> Rows] /\ UNCHANGED <<create, edit, raced>>
  BY DEF TypeOK, PickMapPort, WriteMapPort, InstallFails, DisableMap, DeleteServer
<1>1. ASSUME NEW r, row' = [row EXCEPT ![s] = r],
             r.own = row[s].own, r.extra = row[s].extra, r.built = row[s].built, r.live => row[s].live
      PROVE  ShareInv'
  BY <1>0, <1>1, RowStepShares
<1>2. CASE PickMapPort(s) \/ InstallFails(s)
  BY <1>0, <1>2, RowStepShares DEF PickMapPort, InstallFails
<1>3. CASE WriteMapPort(s)
  <2> DEFINE r == [row[s] EXCEPT !.map = enable[s], !.mapped = TRUE]
  <2>1. /\ r.own = row[s].own /\ r.extra = row[s].extra /\ r.built = row[s].built
        /\ r.live = row[s].live /\ row' = [row EXCEPT ![s] = r]
    BY <1>0, <1>3 DEF WriteMapPort, Rows
  <2> HIDE DEF r
  <2> QED BY <1>1, <2>1
<1>4. CASE DisableMap(s)
  <2> DEFINE r == [row[s] EXCEPT !.mapped = FALSE]
  <2>1. /\ r.own = row[s].own /\ r.extra = row[s].extra /\ r.built = row[s].built
        /\ r.live = row[s].live /\ row' = [row EXCEPT ![s] = r]
    BY <1>0, <1>4 DEF DisableMap, Rows
  <2> HIDE DEF r
  <2> QED BY <1>1, <2>1
<1>5. CASE DeleteServer(s)
  <2> DEFINE r == [row[s] EXCEPT !.live = FALSE, !.map = {}, !.mapped = FALSE]
  <2>1. /\ r.own = row[s].own /\ r.extra = row[s].extra /\ r.built = row[s].built
        /\ ~r.live /\ row' = [row EXCEPT ![s] = r]
    BY <1>0, <1>5 DEF DeleteServer, Rows
  <2> HIDE DEF r
  <2> QED BY <1>1, <2>1
<1> QED BY <1>2, <1>3, <1>4, <1>5

\* A new creation waits its turn and holds nothing.
LEMMA AskCreateShares ==
  ASSUME TypeOK, ShareInv, NEW s \in Servers, AskCreate(s)
  PROVE  ShareInv'
<1>1. /\ UNCHANGED <<row, edit, raced>> /\ create[s].pc = "none" /\ create'[s].pc = "queued"
      /\ \A t \in Servers \ {s} : create'[t] = create[t]
  BY DEF AskCreate, TypeOK
<1>2. Shifts
  BY <1>1, CreateShifts DEF RowHas, CreateHas, Claims
<1>3. NoGhostServer'
  BY <1>1 DEF ShareInv, NoGhostServer
<1> QED BY <1>1, <1>2, <1>3, ShiftKeeps DEF ShareInv, OneServer

\* An edit begins with the ports its row has and need not check.
LEMMA AskEditShares ==
  ASSUME TypeOK, ShareInv, NEW e \in Edits, NEW s \in Servers, AskEdit(e, s)
  PROVE  ShareInv'
<1>1. PICK extra \in Extras :
        edit' = [edit EXCEPT ![e] = [pc |-> "check", server |-> {s},
                   extra |-> extra, left |-> extra \ row[s].extra]]
  BY DEF AskEdit
<1>2. /\ UNCHANGED <<row, create, raced>> /\ row[s].live
      /\ \A f \in Edits \ {e} : edit'[f] = edit[f]
      /\ edit'[e].pc = "check" /\ edit'[e].server = {s} /\ edit'[e].extra = extra
      /\ edit'[e].left = extra \ row[s].extra
  BY <1>1 DEF AskEdit, TypeOK
<1>3. ASSUME NEW t \in Servers, NEW p \in Ports, Has(t, p)'
      PROVE  Has(t, p)
  <2>1. CASE RowHas(t, p)' \/ CreateHas(t, p)'
    BY <1>2, <2>1 DEF Has, RowHas, CreateHas, Claims
  <2>2. ASSUME NEW f \in Edits, EditHas(f, t, p)'
        PROVE  Has(t, p)
    <3>1. CASE f = e
      <4>1. t = s /\ p \in row[s].extra
        BY <1>2, <2>2, <3>1 DEF EditHas
      <4> QED BY <1>2, <4>1 DEF Has, RowHas, Claims
    <3>2. CASE f # e
      BY <1>2, <2>2, <3>2 DEF Has, EditHas
    <3> QED BY <3>1, <3>2
  <2>3. (\E f \in Edits : EditHas(f, t, p))' => \E f \in Edits : EditHas(f, t, p)'
    OBVIOUS
  <2> QED BY <1>3, <2>1, <2>2, <2>3 DEF Has
<1>4. Shifts
  BY <1>2, <1>3 DEF Shifts
<1>5. OneServer' /\ NoGhostServer'
  BY <1>2 DEF ShareInv, OneServer, NoGhostServer
<1> QED BY <1>4, <1>5, ShiftKeeps DEF ShareInv

\* An edit that ends holds nothing any more.
LEMMA EditEnds ==
  ASSUME TypeOK, NEW e \in Edits, edit' = [edit EXCEPT ![e] = [NoEdit EXCEPT !.pc = "done"]]
  PROVE  \A f \in Edits : edit'[f].pc = "check" => edit'[f] = edit[f] /\ f # e
  BY DEF TypeOK, NoEdit

LEMMA CheckExtraShares ==
  ASSUME TypeOK, ShareInv, NEW e \in Edits, CheckExtra(e)
  PROVE  ShareInv'
<1>1. edit[e].pc = "check" /\ UNCHANGED <<row, create>>
  BY DEF CheckExtra
<1>2. NoGhostServer'
  BY <1>1 DEF ShareInv, NoGhostServer
<1>3. PICK p \in edit[e].left :
       \/ /\ p \notin Used
          /\ edit' = [edit EXCEPT ![e].left = @ \ {p}]
          /\ raced' = raced \cup ({p} \cap (HeldByCreates({}) \cup HeldByEdits({e})))
       \/ /\ edit' = [edit EXCEPT ![e] = [NoEdit EXCEPT !.pc = "done"]]
          /\ UNCHANGED raced
  BY DEF CheckExtra
<1>4. CASE edit' = [edit EXCEPT ![e] = [NoEdit EXCEPT !.pc = "done"]] /\ UNCHANGED raced
  <2>1. \A f \in Edits : edit'[f].pc = "check" => edit'[f] = edit[f]
    BY <1>4, EditEnds
  <2>2. Shifts
    BY <1>1, <1>4, <2>1 DEF Shifts, Has, RowHas, CreateHas, EditHas, Claims
  <2> QED BY <1>2, <2>1, <2>2, ShiftKeeps DEF ShareInv, OneServer
<1>5. CASE /\ p \notin Used
           /\ edit' = [edit EXCEPT ![e].left = @ \ {p}]
           /\ raced' = raced \cup ({p} \cap (HeldByCreates({}) \cup HeldByEdits({e})))
  <2>1. PICK s \in Servers : edit[e].server = {s}
    BY <1>1 DEF ShareInv, OneServer
  <2>2. /\ edit'[e].pc = "check" /\ edit'[e].server = {s} /\ edit'[e].extra = edit[e].extra
        /\ edit'[e].left = edit[e].left \ {p}
        /\ \A f \in Edits \ {e} : edit'[f] = edit[f]
    BY <1>1, <1>5, <2>1 DEF TypeOK
  <2>3. ASSUME NEW t \in Servers, NEW q \in Ports, Has(t, q)'
        PROVE  Has(t, q) \/ (t = s /\ q \in {p})
    <3>1. CASE RowHas(t, q)' \/ CreateHas(t, q)'
      BY <1>1, <3>1 DEF Has, RowHas, CreateHas, Claims
    <3>2. ASSUME NEW f \in Edits, EditHas(f, t, q)'
          PROVE  Has(t, q) \/ (t = s /\ q \in {p})
      <4>1. CASE f = e
        <5>1. t = s /\ q \in edit[e].extra \ (edit[e].left \ {p})
          BY <2>2, <3>2, <4>1 DEF EditHas
        <5> QED BY <1>1, <2>1, <5>1 DEF Has, EditHas
      <4>2. CASE f # e
        BY <2>2, <3>2, <4>2 DEF Has, EditHas
      <4> QED BY <4>1, <4>2
    <3> QED BY <2>3, <3>1, <3>2 DEF Has
  <2>4. ASSUME NEW t \in Servers \ {s}, NEW q \in {p}, Has(t, q)
        PROVE  q \in raced'
    <3>1. ~RowHas(t, q)
      BY <1>5, ClaimsAreUsed
    <3>2. CASE CreateHas(t, q)
      BY <1>5, <3>2, HeldIsCounted
    <3>3. ASSUME NEW f \in Edits, EditHas(f, t, q)
          PROVE  q \in raced'
      <4>1. f # e
        BY <2>1, <3>3 DEF EditHas
      <4> QED BY <1>5, <3>3, <4>1, HeldIsCounted
    <3> QED BY <2>4, <3>1, <3>2, <3>3 DEF Has
  <2>5. Grows(s, {p})
    BY <1>5, <2>3, <2>4 DEF Grows
  <2>6. OneServer'
    BY <2>2 DEF ShareInv, OneServer
  <2> QED BY <1>2, <2>5, <2>6, GrowKeeps DEF ShareInv
<1> QED BY <1>3, <1>4, <1>5

\* The write turns the edit's ports into the row's.
LEMMA WriteExtraShares ==
  ASSUME TypeOK, ShareInv, NEW e \in Edits, WriteExtra(e)
  PROVE  ShareInv'
<1>1. /\ edit[e].pc = "check" /\ edit[e].left = {} /\ UNCHANGED <<create, raced>>
      /\ edit' = [edit EXCEPT ![e] = [NoEdit EXCEPT !.pc = "done"]]
  BY DEF WriteExtra
<1>2. \A f \in Edits : edit'[f].pc = "check" => edit'[f] = edit[f]
  BY <1>1, EditEnds
<1>3. ASSUME NEW t \in Servers
      PROVE  /\ row'[t].own = row[t].own /\ row'[t].live = row[t].live /\ row'[t].built = row[t].built
             /\ row'[t].extra = IF t \in edit[e].server THEN edit[e].extra ELSE row[t].extra
  <2> DEFINE r == [row[t] EXCEPT !.extra = edit[e].extra]
  <2>1. row'[t] = IF t \in edit[e].server THEN r ELSE row[t]
    BY DEF WriteExtra
  <2>2. r.own = row[t].own /\ r.live = row[t].live /\ r.built = row[t].built /\ r.extra = edit[e].extra
    BY DEF TypeOK, Rows
  <2> HIDE DEF r
  <2> QED BY <2>1, <2>2
<1>4. ASSUME NEW t \in Servers, NEW p \in Ports, Has(t, p)'
      PROVE  Has(t, p)
  <2>1. CASE RowHas(t, p)'
    <3>1. RowHas(t, p) \/ EditHas(e, t, p)
      BY <1>1, <1>3, <2>1 DEF RowHas, EditHas, Claims
    <3> QED BY <3>1 DEF Has
  <2>2. CASE CreateHas(t, p)'
    BY <1>1, <2>2 DEF Has, CreateHas
  <2>3. ASSUME NEW f \in Edits, EditHas(f, t, p)'
        PROVE  Has(t, p)
    BY <1>2, <2>3 DEF Has, EditHas
  <2> QED BY <1>4, <2>1, <2>2, <2>3 DEF Has
<1>5. Shifts
  BY <1>1, <1>4 DEF Shifts
<1>6. OneServer' /\ NoGhostServer'
  BY <1>1, <1>2, <1>3 DEF ShareInv, OneServer, NoGhostServer
<1> QED BY <1>5, <1>6, ShiftKeeps DEF ShareInv

LEMMA ShareNext == PortInv /\ ShareInv /\ [Next]_portVars => ShareInv'
<1> SUFFICES ASSUME PortInv, ShareInv, [Next]_portVars PROVE ShareInv'
  OBVIOUS
<1>1. TypeOK /\ PortInv'
  BY PortNext DEF PortInv
<1>2. ASSUME NEW s \in Servers, CreateStep(s) PROVE ShareInv'
  <2>1. OneServer'
    BY <1>2 DEF ShareInv, OneServer, CreateStep, BeginExplicit, BeginSuggested, NoneToSuggest,
                CheckPort, InsertRow, Build, BuildFails, Rollback
  <2> QED BY <1>1, <1>2, <2>1, CreateApart, CreateNoGhost DEF ShareInv
<1>3. CASE UNCHANGED portVars
  <2>1. Shifts
    BY <1>3 DEF portVars, Shifts, Has, RowHas, CreateHas, EditHas, Claims
  <2> QED BY <1>3, <2>1, ShiftKeeps DEF portVars, ShareInv, OneServer, NoGhostServer
<1>4. CASE Next
  BY <1>1, <1>2, <1>4, AskCreateShares, MapAndDeleteShare, AskEditShares, CheckExtraShares,
     WriteExtraShares DEF Next
<1> QED BY <1>3, <1>4

LEMMA ShareInit == Init => ShareInv
<1> SUFFICES ASSUME Init PROVE ShareInv
  OBVIOUS
<1>1. /\ \A s \in Servers : create[s].pc = "none" /\ ~row[s].live
      /\ \A e \in Edits : edit[e].pc = "idle"
  BY DEF Init, NoCreate, Absent, NoEdit
<1>2. \A s \in Servers, p \in Ports : ~Has(s, p)
  BY <1>1 DEF Has, RowHas, CreateHas, EditHas
<1> QED BY <1>1, <1>2 DEF ShareInv, OneServer, Apart, NoGhostServer

\* A port claimed for two servers, in a row or by a check, has been raced.
THEOREM SharingInvariant == Spec => []ShareInv
BY PortsInvariant, ShareInit, ShareNext, PTL DEF Spec

\* Two live servers share a port, own or extra, only if a settings change was
\* between its check and its write while the other claim was checked.
THEOREM OnlyARaceSharesAPort == Spec => []OnlyRacedPortsShared
<1>1. PortInv /\ ShareInv => OnlyRacedPortsShared
  <2> SUFFICES ASSUME TypeOK, Apart, NEW s \in Servers, NEW t \in Servers, s # t,
                      row[s].live, row[t].live,
                      NEW p \in (row[s].own \cup row[s].extra) \cap (row[t].own \cup row[t].extra)
               PROVE  p \in raced
    BY DEF PortInv, ShareInv, OnlyRacedPortsShared
  <2>1. p \in Ports
    BY DEF TypeOK, Rows
  <2>2. Has(s, p) /\ Has(t, p)
    BY DEF Has, RowHas, Claims
  <2> QED BY <2>1, <2>2 DEF Apart
<1> QED BY <1>1, PortsInvariant, SharingInvariant, PTL

\* A row without a container belongs to a creation that is still building it
\* or taking it back.
THEOREM NoServerIsAGhost == Spec => []NoGhostServer
BY SharingInvariant, PTL DEF ShareInv
=============================================================================

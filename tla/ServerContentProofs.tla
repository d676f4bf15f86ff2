------------------------ MODULE ServerContentProofs ------------------------
(***************************************************************************)
(* Mods and library of a server, for any number of requests, mods and      *)
(* names: the types, that a listed library file is on disk, that an        *)
(* installed mod keeps the library row it can be restored from, and that   *)
(* the rows and the files of the mods agree.                               *)
(*                                                                         *)
(* The library's two are inductive together with what the requests in      *)
(* progress have: one that has stored bytes and not yet listed them has    *)
(* them on disk, unless a cleanup frayed those bytes or sheared them with  *)
(* another category's; one that has looked its library row up still finds  *)
(* it, unless a cleanup frayed those bytes; and what a cleanup is removing *)
(* was unused when it listed it, so that a use it meets has come since.    *)
(*                                                                         *)
(* The mods' is inductive together with what a request that nobody         *)
(* disturbed has seen of its name (Seen), and with what it leaves there    *)
(* between two of its writes (Midway).                                     *)
(***************************************************************************)
EXTENDS ServerContent, TLAPS

CallRecords == [kind : Kinds \cup {"none"}, pc : Steps, file : Names \cup {Nothing},
                content : Files, lib : Nat, row : Nat, on : BOOLEAN,
                todo : SUBSET Entries, alone : BOOLEAN]

Rows == [n : Nat, there : BOOLEAN, content : Files, lib : Nat, on : BOOLEAN]

Doubts == SUBSET {"raced", "overlaid", "torn", "lost", "strange"}

Linking == {"clear", "link", "upsert"}

\* A request at work names a file and, on the library, bytes.
Aimed(r) ==
  /\ r.pc \in {"look", "move", "insert", "pick", "check", "clear", "link", "upsert", "rmFile", "rmLib"}
       \/ r.kind = "update" => r.content \in Contents
  /\ r.pc \notin {"idle", "list", "next", "rmFile", "rmLib"} => r.file \in Names
  /\ r.pc = "upsert" \/ (r.pc \in {"check", "clear", "link"} /\ r.kind # "reapply") => r.lib # 0

\* A cleanup removes what was unused when it listed it.
Careful(r) ==
  /\ r.pc \in {"rmFile", "rmLib"} => r.on
  /\ r.kind = "cleanup" => \A e \in r.todo : e.on

\* What a request has stored or looked up is there, frayed or shorn.
Sourced(r) ==
  /\ r.pc = "insert" => FileOf[r.content] \in stored \/ r.content \in frayed \cup shorn
  /\ r.pc \in Linking => Listed(r.content, r.lib) \/ r.content \in frayed

\* Library rows that are there have a number.
Numbered == \A c \in Contents : lib[c].there => lib[c].n # 0

CallsInv == \A c \in Calls : Aimed(call[c]) /\ Careful(call[c]) /\ Sourced(call[c])

IInv == TypeOK /\ Numbered /\ CallsInv /\ ListedIsStored /\ ModsKeepTheirSource

\* The step of c leaves it at r; of the others it can only note a disturbance.
Turned(c, r) ==
  /\ call' \in [Calls -> CallRecords] /\ call'[c] = r
  /\ \A d \in Calls \ {c} : call'[d] = call[d] \/ call'[d] = [call[d] EXCEPT !.alone = FALSE]

-----------------------------------------------------------------------------
(* Steps *)

LEMMA Typed ==
  ASSUME IInv
  PROVE  /\ call \in [Calls -> CallRecords] /\ row \in [Names -> Rows]
         /\ doubts \in [Names -> Doubts] /\ dir \in [Names -> Files] /\ off \in [Names -> Files]
  BY DEF IInv, TypeOK, CallRecords, Rows, Doubts

\* What a step of a request may use of it.
LEMMA CallFacts ==
  ASSUME IInv, NEW c \in Calls
  PROVE  call[c] \in CallRecords /\ Aimed(call[c]) /\ Careful(call[c]) /\ Sourced(call[c])
  BY Typed DEF IInv, CallsInv

LEMMA GoTurns ==
  ASSUME IInv, NEW c \in Calls, NEW r \in CallRecords, Go(c, r)
  PROVE  Turned(c, r)
  BY Typed DEF Go, Turned

LEMMA WriteTurns ==
  ASSUME IInv, NEW c \in Calls, NEW r \in CallRecords, NEW f \in Names, NEW ds \in Doubts,
         Write(c, f, r, ds)
  PROVE  Turned(c, r) /\ doubts' \in [Names -> Doubts]
  <1> DEFINE others == {d \in Calls \ {c} : Working(d, f)}
  <1>1. /\ call' = [d \in Calls |-> IF d = c THEN r
                                    ELSE IF d \in others THEN [call[d] EXCEPT !.alone = FALSE]
                                    ELSE call[d]]
        /\ doubts' = [doubts EXCEPT ![f] = ds \cup {x \in {"raced"} : others # {}}]
    BY DEF Write
  <1> HIDE DEF others
  <1>2. \A d \in Calls : [call[d] EXCEPT !.alone = FALSE] \in CallRecords
    BY Typed DEF CallRecords
  <1>3. Turned(c, r)
    BY <1>1, <1>2, Typed DEF Turned
  <1>4. ds \cup {x \in {"raced"} : others # {}} \in Doubts
    BY DEF Doubts
  <1>5. doubts' \in [Names -> Doubts]
    BY <1>1, <1>4, Typed
  <1> QED BY <1>3, <1>5

\* Noting a disturbance leaves what a request has as it is.
LEMMA Disturbed ==
  ASSUME NEW q \in CallRecords
  PROVE  LET p == [q EXCEPT !.alone = FALSE]
         IN /\ Aimed(q) => Aimed(p)
            /\ Careful(q) => Careful(p)
            /\ p.pc = q.pc /\ p.content = q.content /\ p.lib = q.lib /\ p.kind = q.kind
  BY DEF CallRecords, Aimed, Careful

\* A step that leaves the library alone keeps the invariant, when what it leaves
\* its request at is in order and no row comes to refer to what is not there.
LEMMA LibraryStays ==
  ASSUME IInv, NEW c \in Calls, NEW r \in CallRecords, Turned(c, r), LibraryStill,
         Aimed(r), Careful(r), Sourced(r), call[c].pc # "rmLib",
         \A f \in Names : row'[f].there =>
           \/ row[f].there /\ row'[f].content = row[f].content /\ row'[f].lib = row[f].lib
           \/ row'[f].content \in frayed \/ Listed(row'[f].content, row'[f].lib)
  PROVE  Numbered' /\ CallsInv' /\ ListedIsStored' /\ ModsKeepTheirSource'
  <1> USE DEF LibraryStill
  <1>1. Numbered'
    BY DEF IInv, Numbered
  <1>2. \A d \in Calls \ {c} : /\ Aimed(call'[d]) /\ Careful(call'[d])
                               /\ call'[d].pc = call[d].pc /\ call'[d].content = call[d].content
                               /\ call'[d].lib = call[d].lib
    BY CallFacts, Disturbed DEF Turned
  <1>3. CallsInv'
    <2>1. ASSUME NEW d \in Calls, d # c PROVE (Aimed(call[d]) /\ Careful(call[d]) /\ Sourced(call[d]))'
      BY <1>2, <2>1, CallFacts DEF Sourced, Listed, Aimed, Careful
    <2>2. (Aimed(call[c]) /\ Careful(call[c]) /\ Sourced(call[c]))'
      BY DEF Turned, Sourced, Listed, Aimed, Careful
    <2> QED BY <2>1, <2>2 DEF CallsInv
  <1>4. ListedIsStored'
    <2>1. \A d \in Calls : call[d].pc = "rmLib" => call'[d].pc = "rmLib" /\ call'[d].content = call[d].content
      BY <1>2
    <2> QED BY <2>1 DEF IInv, ListedIsStored
  <1>5. ModsKeepTheirSource'
    BY DEF IInv, ModsKeepTheirSource, Listed
  <1> QED BY <1>1, <1>3, <1>4, <1>5

\* The whole of it, where rows and files keep their types.
LEMMA Stays ==
  ASSUME IInv, NEW c \in Calls, NEW r \in CallRecords, Turned(c, r), LibraryStill,
         Aimed(r), Careful(r), Sourced(r), call[c].pc # "rmLib",
         scene' = scene, asked' \in 0..scene.asks, doubts' \in [Names -> Doubts],
         dir' \in [Names -> Files], off' \in [Names -> Files], row' \in [Names -> Rows],
         \A f \in Names : row'[f].there =>
           /\ row'[f].content \in Contents /\ row'[f].lib # 0
           /\ \/ row[f].there /\ row'[f].content = row[f].content /\ row'[f].lib = row[f].lib
              \/ row'[f].content \in frayed \/ Listed(row'[f].content, row'[f].lib)
  PROVE  IInv'
  <1>1. Numbered' /\ CallsInv' /\ ListedIsStored' /\ ModsKeepTheirSource'
    BY LibraryStays
  <1>2. call' \in [Calls -> CallRecords]
    BY DEF Turned
  <1>3. TypeOK'
    BY <1>2 DEF IInv, TypeOK, LibraryStill, CallRecords, Rows, Doubts, Files, Entries
  <1> QED BY <1>1, <1>3 DEF IInv

\* Steps that only move their request on.
LEMMA Passes ==
  ASSUME IInv, NEW c \in Calls, NEW r \in CallRecords, Go(c, r), LibraryStill, ModsStill,
         Aimed(r), Careful(r), Sourced(r), call[c].pc # "rmLib", scene' = scene,
         asked' \in 0..scene.asks
  PROVE  IInv'
  <1>1. Turned(c, r) /\ UNCHANGED <<row, dir, off, doubts>>
    BY GoTurns DEF ModsStill
  <1>2. \A f \in Names : row[f].there => row[f].content \in Contents /\ row[f].lib # 0
    BY DEF IInv, TypeOK
  <1>3. doubts' \in [Names -> Doubts] /\ dir' \in [Names -> Files] /\ off' \in [Names -> Files]
        /\ row' \in [Names -> Rows]
    BY <1>1, Typed
  <1> QED BY <1>1, <1>2, <1>3, Stays

\* Steps that write under a name, files and perhaps its row.
LEMMA Writes ==
  ASSUME IInv, NEW c \in Calls, NEW r \in CallRecords, NEW f \in Names, NEW ds \in Doubts,
         Write(c, f, r, ds), LibraryStill, Same,
         Aimed(r), Careful(r), Sourced(r), call[c].pc # "rmLib",
         dir' \in [Names -> Files], off' \in [Names -> Files], row' \in [Names -> Rows],
         \A g \in Names : row'[g].there =>
           /\ row'[g].content \in Contents /\ row'[g].lib # 0
           /\ \/ row[g].there /\ row'[g].content = row[g].content /\ row'[g].lib = row[g].lib
              \/ row'[g].content \in frayed \/ Listed(row'[g].content, row'[g].lib)
  PROVE  IInv'
  <1>1. Turned(c, r) /\ doubts' \in [Names -> Doubts]
    BY WriteTurns
  <1>2. scene' = scene /\ asked' \in 0..scene.asks
    BY DEF Same, IInv, TypeOK
  <1> QED BY <1>1, <1>2, Stays

LEMMA AskedType == ASSUME IInv PROVE asked \in 0..scene.asks /\ scene.asks \in Nat
  BY ContentAssumption DEF IInv, TypeOK

LEMMA FreeGood == Free \in CallRecords /\ Aimed(Free) /\ Careful(Free) /\ Sourced(Free)
  BY DEF Free, CallRecords, Kinds, Steps, Files, Aimed, Careful, Sourced, Linking

LEMMA BeginKeeps ==
  ASSUME IInv, NEW c \in Calls, NEW r \in CallRecords, Begin(c, r), Aimed(r), Careful(r), Sourced(r)
  PROVE  IInv'
  <1>1. asked' \in 0..scene.asks
    BY AskedType DEF Begin
  <1> QED BY <1>1, Passes DEF Begin

LEMMA AddKeeps == ASSUME IInv, NEW c \in Calls, NEW b \in Contents, AddMod(c, b) PROVE IInv'
  <1> DEFINE r == [Free EXCEPT !.kind = "add", !.pc = "look", !.content = b, !.file = NameOf[b]]
  <1>1. r \in CallRecords
    BY FreeGood, ContentAssumption DEF CallRecords, Kinds, Steps, Files
  <1>2. Aimed(r) /\ Careful(r) /\ Sourced(r)
    BY ContentAssumption DEF Free, Aimed, Careful, Sourced, Linking
  <1> QED BY <1>1, <1>2, BeginKeeps DEF AddMod

LEMMA UpdateKeeps ==
  ASSUME IInv, NEW c \in Calls, NEW f \in Names, NEW b \in Contents, UpdateMod(c, f, b)
  PROVE  IInv'
  <1> DEFINE r == [Free EXCEPT !.kind = "update", !.pc = "readToRemove", !.content = b, !.file = f,
                               !.on = row[f].on]
  <1>0. row[f].on \in BOOLEAN
    BY Typed DEF Rows
  <1>1. r \in CallRecords
    <2>1. ASSUME NEW x \in BOOLEAN
          PROVE  [Free EXCEPT !.kind = "update", !.pc = "readToRemove", !.content = b, !.file = f,
                              !.on = x] \in CallRecords
      BY FreeGood DEF CallRecords, Kinds, Steps, Files
    <2> QED BY <1>0, <2>1
  <1>2. Aimed(r) /\ Careful(r) /\ Sourced(r)
    BY DEF Free, Aimed, Careful, Sourced, Linking
  <1> QED BY <1>1, <1>2, BeginKeeps DEF UpdateMod

LEMMA RemoveKeeps == ASSUME IInv, NEW c \in Calls, NEW f \in Names, RemoveMod(c, f) PROVE IInv'
  <1> DEFINE r == [Free EXCEPT !.kind = "remove", !.pc = "readToRemove", !.file = f]
  <1>1. r \in CallRecords
    BY FreeGood DEF CallRecords, Kinds, Steps
  <1>2. Aimed(r) /\ Careful(r) /\ Sourced(r)
    BY DEF Free, Aimed, Careful, Sourced, Linking
  <1> QED BY <1>1, <1>2, BeginKeeps DEF RemoveMod

LEMMA ToggleKeeps ==
  ASSUME IInv, NEW c \in Calls, NEW f \in Names, NEW enabled \in BOOLEAN, ToggleMod(c, f, enabled)
  PROVE  IInv'
  <1> DEFINE r == [Free EXCEPT !.kind = "toggle", !.pc = "readToToggle", !.file = f, !.on = enabled]
  <1>1. r \in CallRecords
    BY FreeGood DEF CallRecords, Kinds, Steps
  <1>2. Aimed(r) /\ Careful(r) /\ Sourced(r)
    BY DEF Free, Aimed, Careful, Sourced, Linking
  <1> QED BY <1>1, <1>2, BeginKeeps DEF ToggleMod

LEMMA WorkKeeps == ASSUME IInv, NEW c \in Calls, Reapply(c) \/ Cleanup(c) PROVE IInv'
  <1>1. ASSUME NEW k \in {"reapply", "cleanup"}
        PROVE  LET r == [Free EXCEPT !.kind = k, !.pc = "list"]
               IN r \in CallRecords /\ Aimed(r) /\ Careful(r) /\ Sourced(r)
    BY FreeGood DEF Free, CallRecords, Kinds, Steps, Aimed, Careful, Sourced, Linking
  <1> QED BY <1>1, BeginKeeps DEF Reapply, Cleanup

LEMMA SameType == ASSUME IInv, Same PROVE scene' = scene /\ asked' \in 0..scene.asks
  BY AskedType DEF Same

LEMMA AtType ==
  ASSUME NEW r \in CallRecords, NEW s \in Steps
  PROVE  /\ At(r, s) \in CallRecords
         /\ At(r, s).pc = s /\ At(r, s).kind = r.kind /\ At(r, s).file = r.file /\ At(r, s).on = r.on
         /\ At(r, s).content = r.content /\ At(r, s).lib = r.lib /\ At(r, s).todo = r.todo
  BY DEF At, CallRecords

\* A request takes up a library row that is there.
LEMMA LooksUp ==
  ASSUME IInv, NEW r \in CallRecords, Aimed(r), Careful(r), r.pc \in {"look", "pick"},
         lib[r.content].there
  PROVE  LET q == [At(r, "check") EXCEPT !.lib = lib[r.content].n]
         IN q \in CallRecords /\ Aimed(q) /\ Careful(q) /\ Sourced(q)
  <1>1. r.content \in Contents /\ r.file \in Names
    BY DEF Aimed
  <1>2. lib[r.content].n \in Nat \ {0}
    BY <1>1 DEF IInv, TypeOK, Numbered
  <1>3. ASSUME NEW n \in Nat \ {0}
        PROVE  LET q == [At(r, "check") EXCEPT !.lib = n]
               IN q \in CallRecords /\ Aimed(q) /\ Careful(q) /\ Sourced(q)
    BY <1>1 DEF At, CallRecords, Steps, Aimed, Careful, Sourced, Linking
  <1> QED BY <1>2, <1>3

LEMMA LookKeeps == ASSUME IInv, NEW c \in Calls, Look(c) PROVE IInv'
  <1> USE DEF Look
  <1> DEFINE r == call[c]
             q == IF lib[r.content].there THEN [At(r, "check") EXCEPT !.lib = lib[r.content].n]
                  ELSE At(r, "move")
  <1>1. r \in CallRecords /\ Aimed(r) /\ Careful(r) /\ r.pc = "look"
    BY CallFacts
  <1>2. q \in CallRecords /\ Aimed(q) /\ Careful(q) /\ Sourced(q)
    <2>1. CASE lib[r.content].there
      BY <1>1, <2>1, LooksUp
    <2>2. CASE ~lib[r.content].there
      BY <1>1, <2>2, AtType DEF Steps, Aimed, Careful, Sourced, Linking
    <2> QED BY <2>1, <2>2
  <1>3. Go(c, q)
    OBVIOUS
  <1> HIDE DEF q
  <1> QED BY <1>1, <1>2, <1>3, Passes, SameType

LEMMA PickKeeps == ASSUME IInv, NEW c \in Calls, Pick(c) PROVE IInv'
  <1> USE DEF Pick
  <1> DEFINE r == call[c]
             q == IF lib[r.content].there THEN [At(r, "check") EXCEPT !.lib = lib[r.content].n]
                  ELSE Free
  <1>1. r \in CallRecords /\ Aimed(r) /\ Careful(r) /\ r.pc = "pick"
    BY CallFacts
  <1>2. q \in CallRecords /\ Aimed(q) /\ Careful(q) /\ Sourced(q)
    BY <1>1, LooksUp, FreeGood
  <1>3. Go(c, q)
    OBVIOUS
  <1> HIDE DEF q
  <1> QED BY <1>1, <1>2, <1>3, Passes, SameType

LEMMA CheckKeeps == ASSUME IInv, NEW c \in Calls, Check(c) PROVE IInv'
  <1> USE DEF Check
  <1> DEFINE r == call[c]
             q == IF Listed(r.content, r.lib) THEN At(r, "clear") ELSE Free
  <1>1. r \in CallRecords /\ Aimed(r) /\ Careful(r) /\ r.pc = "check"
    BY CallFacts
  <1>2. q \in CallRecords /\ Aimed(q) /\ Careful(q) /\ Sourced(q)
    BY <1>1, AtType, FreeGood DEF Steps, Aimed, Careful, Sourced, Linking
  <1>3. Go(c, q)
    OBVIOUS
  <1> HIDE DEF q
  <1> QED BY <1>1, <1>2, <1>3, Passes, SameType

LEMMA ReadKeeps == ASSUME IInv, NEW c \in Calls, Read(c) PROVE IInv'
  <1> USE DEF Read
  <1> DEFINE r == call[c]
             q == [r EXCEPT !.pc = IF @ = "readToRemove" THEN "rmOn" ELSE "rename",
                            !.row = IF row[r.file].there THEN row[r.file].n ELSE 0]
  <1>0. CASE Excluded(r)
    <2>1. Go(c, Free) /\ call[c].pc # "rmLib"
      BY <1>0
    <2> QED BY <2>1, FreeGood, Passes, SameType
  <1> SUFFICES ASSUME ~Excluded(r) PROVE IInv'
    BY <1>0
  <1>1. r \in CallRecords /\ Aimed(r) /\ Careful(r) /\ r.pc \in {"readToRemove", "readToToggle"}
    BY CallFacts
  <1>2. (IF row[r.file].there THEN row[r.file].n ELSE 0) \in Nat
    BY <1>1, Typed DEF Rows, Aimed
  <1>3. q \in CallRecords /\ Aimed(q) /\ Careful(q) /\ Sourced(q)
    <2>1. ASSUME NEW n \in Nat, NEW s \in {"rmOn", "rename"}
          PROVE  LET p == [r EXCEPT !.pc = s, !.row = n]
                 IN p \in CallRecords /\ Aimed(p) /\ Careful(p) /\ Sourced(p)
      BY <1>1 DEF CallRecords, Steps, Aimed, Careful, Sourced, Linking
    <2> QED BY <1>1, <1>2, <2>1
  <1>4. Go(c, q)
    OBVIOUS
  <1> HIDE DEF q
  <1> QED BY <1>1, <1>3, <1>4, Passes, SameType

LEMMA FinishKeeps == ASSUME IInv, NEW c \in Calls, Finish(c) PROVE IInv'
  BY FreeGood, Passes, SameType DEF Finish

\* What is listed is an entry, and a cleanup's was unused.
LEMMA ListKeeps == ASSUME IInv, NEW c \in Calls, List(c) PROVE IInv'
  <1> USE DEF List
  <1> DEFINE r == call[c]
             orphans == {Entry(NameOf[b], b, lib[b].n, Unused(b)) : b \in Orphans}
             mods == {Entry(f, row[f].content, row[f].lib, row[f].on) :
                        f \in {g \in scene.packed : row[g].there}}
             todo == IF r.kind = "cleanup" THEN orphans ELSE mods
             q == [At(r, "next") EXCEPT !.todo = todo]
  <1>0. scene.packed \subseteq Names
    BY ContentAssumption DEF IInv, TypeOK
  <1>1. r \in CallRecords /\ Aimed(r) /\ r.pc = "list"
    BY CallFacts
  <1>2. orphans \subseteq Entries /\ \A e \in orphans : e.on
    <2>1. ASSUME NEW b \in Orphans
          PROVE  /\ Entry(NameOf[b], b, lib[b].n, Unused(b)) \in Entries
                 /\ Entry(NameOf[b], b, lib[b].n, Unused(b)).on
      <3>1. NameOf[b] \in Names /\ b \in Contents /\ lib[b].n \in Nat /\ Unused(b) = TRUE
        BY ContentAssumption DEF Orphans, IInv, TypeOK, Unused
      <3> QED BY <3>1 DEF Entry, Entries
    <2> QED BY <2>1
  <1>3. mods \subseteq Entries
    <2>1. ASSUME NEW f \in Names, row[f].there
          PROVE  Entry(f, row[f].content, row[f].lib, row[f].on) \in Entries
      <3>1. row[f].content \in Contents /\ row[f].lib \in Nat /\ row[f].on \in BOOLEAN
        BY <2>1, Typed DEF IInv, TypeOK, Rows
      <3> QED BY <3>1 DEF Entry, Entries
    <2> QED BY <1>0, <2>1
  <1>4. todo \subseteq Entries /\ (r.kind = "cleanup" => \A e \in todo : e.on)
    BY <1>2, <1>3
  <1>5. Go(c, q)
    OBVIOUS
  <1> HIDE DEF todo, orphans, mods
  <1>6. q \in CallRecords /\ Aimed(q) /\ Careful(q) /\ Sourced(q)
    <2>1. q \in CallRecords
      BY <1>1, <1>4 DEF At, CallRecords, Steps
    <2>2. q.pc = "next" /\ q.kind = r.kind /\ q.todo = todo /\ q.content = r.content
      BY <1>1 DEF At, CallRecords
    <2> QED BY <1>1, <1>4, <2>1, <2>2 DEF Aimed, Careful, Sourced, Linking
  <1> HIDE DEF q
  <1> QED BY <1>1, <1>5, <1>6, Passes, SameType

\* A request takes the next of what it has listed.
LEMMA TakeType ==
  ASSUME NEW r \in CallRecords, NEW e \in r.todo, NEW s \in {"check", "rmFile"}
  PROVE  LET q == Take(r, e, s)
             p == [r EXCEPT !.todo = @ \ {e}]
         IN /\ q \in CallRecords /\ q.pc = s /\ q.kind = r.kind /\ q.file \in Names
            /\ q.content \in Contents /\ q.on = e.on /\ q.todo = r.todo \ {e}
            /\ p \in CallRecords /\ p.pc = r.pc /\ p.kind = r.kind /\ p.file = r.file
            /\ p.content = r.content /\ p.todo = r.todo \ {e}
  <1>1. e \in Entries
    BY DEF CallRecords
  <1>2. e.file \in Names /\ e.content \in Contents /\ e.content \in Files /\ e.lib \in Nat /\ e.on \in BOOLEAN
    BY <1>1 DEF Entries, Files
  <1>3. r.todo \ {e} \in SUBSET Entries
    BY DEF CallRecords
  <1> DEFINE Q(on, todo) == [r EXCEPT !.pc = s, !.todo = todo, !.file = e.file,
                                      !.content = e.content, !.lib = e.lib, !.on = on]
             P(todo) == [r EXCEPT !.todo = todo]
  <1>4. ASSUME NEW on \in BOOLEAN, NEW todo \in SUBSET Entries
        PROVE  /\ Q(on, todo) \in CallRecords /\ Q(on, todo).pc = s /\ Q(on, todo).kind = r.kind
               /\ Q(on, todo).file = e.file /\ Q(on, todo).content = e.content
               /\ Q(on, todo).on = on /\ Q(on, todo).todo = todo
               /\ P(todo) \in CallRecords /\ P(todo).pc = r.pc /\ P(todo).kind = r.kind
               /\ P(todo).file = r.file /\ P(todo).content = r.content /\ P(todo).todo = todo
    BY <1>2 DEF CallRecords, Steps
  <1>5. Take(r, e, s) = Q(e.on, r.todo \ {e})
    BY DEF Take, CallRecords
  <1>6. [r EXCEPT !.todo = @ \ {e}] = P(r.todo \ {e})
    BY DEF CallRecords
  <1> HIDE DEF Q, P
  <1> QED BY <1>2, <1>3, <1>4, <1>5, <1>6

LEMMA NextModKeeps ==
  ASSUME IInv, NEW c \in Calls, NEW e \in call[c].todo, NextMod(c, e)
  PROVE  IInv'
  <1> USE DEF NextMod
  <1> DEFINE r == call[c]
             q == IF Present(e) THEN [r EXCEPT !.todo = @ \ {e}] ELSE Take(r, e, "check")
  <1>1. r \in CallRecords /\ Aimed(r) /\ r.pc = "next" /\ r.kind = "reapply"
    BY CallFacts
  <1>2. q \in CallRecords /\ Aimed(q) /\ Careful(q) /\ Sourced(q)
    BY <1>1, TakeType DEF Aimed, Careful, Sourced, Linking
  <1>3. Go(c, q)
    OBVIOUS
  <1> HIDE DEF q
  <1> QED BY <1>1, <1>2, <1>3, Passes, SameType

LEMMA NextOrphanKeeps ==
  ASSUME IInv, NEW c \in Calls, NEW e \in call[c].todo, NextOrphan(c, e)
  PROVE  IInv'
  <1> USE DEF NextOrphan
  <1> DEFINE r == call[c]
             q == IF Listed(e.content, e.lib) THEN Take(r, e, "rmFile") ELSE [r EXCEPT !.todo = @ \ {e}]
  <1>1. r \in CallRecords /\ Aimed(r) /\ r.pc = "next" /\ r.kind = "cleanup" /\ \A x \in r.todo : x.on
    BY CallFacts DEF Careful
  <1>2. q \in CallRecords /\ Aimed(q) /\ Careful(q) /\ Sourced(q)
    BY <1>1, TakeType DEF Aimed, Careful, Sourced, Linking
  <1>3. Go(c, q)
    OBVIOUS
  <1> HIDE DEF q
  <1> QED BY <1>1, <1>2, <1>3, Passes, SameType

-----------------------------------------------------------------------------
(* The steps that change the library *)

\* Each leaves the rest of the types alone.
LEMMA LibraryType ==
  ASSUME IInv, NEW c \in Calls, NEW r \in CallRecords, Go(c, r), ModsStill, Same,
         lib' \in [Contents -> [n : Nat, there : BOOLEAN]], stored' \subseteq Paths,
         frayed' \subseteq Contents, shorn' \subseteq Contents
  PROVE  TypeOK' /\ Turned(c, r)
  <1>1. Turned(c, r)
    BY GoTurns
  <1>2. TypeOK'
    BY <1>1 DEF IInv, TypeOK, Turned, ModsStill, Same, CallRecords, Files, Entries
  <1> QED BY <1>1, <1>2

LEMMA MoveKeeps == ASSUME IInv, NEW c \in Calls, Move(c) PROVE IInv'
  <1> USE DEF Move
  <1> DEFINE r == At(call[c], "insert")
  <1>1. call[c] \in CallRecords /\ Aimed(call[c]) /\ Careful(call[c]) /\ call[c].pc = "move"
    BY CallFacts
  <1>2. r \in CallRecords /\ Aimed(r) /\ Careful(r) /\ r.content = call[c].content /\ r.pc = "insert"
    BY <1>1, AtType DEF Steps, Aimed, Careful
  <1>3. r.content \in Contents
    BY <1>1, <1>2 DEF Aimed
  <1>4. Go(c, r)
    OBVIOUS
  <1> HIDE DEF r
  <1>0. \A b \in Contents : FileOf[b] \in stored \/ b \in shorn => FileOf[b] \in stored' \/ b \in shorn'
    BY <1>2
  <1>5. TypeOK' /\ Turned(c, r)
    <2>1. lib' \in [Contents -> [n : Nat, there : BOOLEAN]] /\ stored' \subseteq Paths
          /\ frayed' \subseteq Contents /\ shorn' \subseteq Contents
      BY <1>2, <1>3, ContentAssumption DEF IInv, TypeOK
    <2> QED BY <1>2, <1>4, <2>1, LibraryType
  <1>6. CallsInv'
    <2>1. ASSUME NEW d \in Calls, d # c PROVE (Aimed(call[d]) /\ Careful(call[d]) /\ Sourced(call[d]))'
      <3>1. /\ Aimed(call'[d]) /\ Careful(call'[d]) /\ call'[d].pc = call[d].pc
            /\ call'[d].content = call[d].content /\ call'[d].lib = call[d].lib
        BY <1>4, <2>1, CallFacts, Typed DEF Go
      <3>2. call[d].pc = "insert" => call[d].content \in Contents
        BY CallFacts DEF Aimed
      <3> QED BY <1>0, <3>1, <3>2, CallFacts DEF Sourced, Listed, Aimed, Careful
    <2>2. (Aimed(call[c]) /\ Careful(call[c]) /\ Sourced(call[c]))'
      BY <1>2, <1>5 DEF Turned, Sourced, Listed, Aimed, Careful, Linking
    <2> QED BY <2>1, <2>2 DEF CallsInv
  <1>7. ListedIsStored'
    <2>1. \A d \in Calls : call[d].pc = "rmLib" => call'[d] = call[d]
      BY <1>1, <1>4, Typed DEF Go
    <2> QED BY <1>0, <2>1 DEF IInv, ListedIsStored
  <1>8. Numbered' /\ ModsKeepTheirSource'
    BY DEF IInv, Numbered, ModsKeepTheirSource, Listed, ModsStill
  <1> QED BY <1>5, <1>6, <1>7, <1>8 DEF IInv

LEMMA InsertKeeps == ASSUME IInv, NEW c \in Calls, Insert(c) PROVE IInv'
  <1> USE DEF Insert
  <1> DEFINE b == call[c].content
             r == At(call[c], "pick")
  <1>1. call[c] \in CallRecords /\ Aimed(call[c]) /\ Careful(call[c]) /\ Sourced(call[c])
        /\ call[c].pc = "insert" /\ b \in Contents
        /\ (FileOf[b] \in stored \/ b \in frayed \cup shorn)
    BY CallFacts DEF Aimed, Sourced
  <1>2. r \in CallRecords /\ Aimed(r) /\ Careful(r) /\ r.pc = "pick"
    BY <1>1, AtType DEF Steps, Aimed, Careful
  <1>3. Go(c, r) /\ lib' = IF lib[b].there THEN lib ELSE [lib EXCEPT ![b] = [n |-> @.n + 1, there |-> TRUE]]
    OBVIOUS
  <1>4. lib \in [Contents -> [n : Nat, there : BOOLEAN]]
    BY DEF IInv, TypeOK
  <1> HIDE DEF r, b
  <1>5. /\ lib' \in [Contents -> [n : Nat, there : BOOLEAN]]
        /\ \A x \in Contents : lib[x].there => lib'[x] = lib[x]
        /\ \A x \in Contents : x # b => lib'[x] = lib[x]
        /\ lib'[b].there /\ (~lib[b].there => lib'[b].n # 0)
    <2>1. CASE lib[b].there
      BY <1>1, <1>3, <1>4, <2>1
    <2>2. CASE ~lib[b].there
      <3> DEFINE new == [n |-> lib[b].n + 1, there |-> TRUE]
      <3>1. lib' = [lib EXCEPT ![b] = new]
        BY <1>3, <2>2
      <3>2. new \in [n : Nat, there : BOOLEAN] /\ new.there /\ new.n # 0
        BY <1>1, <1>4
      <3> HIDE DEF new
      <3> QED BY <1>1, <1>4, <2>2, <3>1, <3>2
    <2> QED BY <2>1, <2>2
  <1>6. TypeOK' /\ Turned(c, r)
    <2>1. stored' \subseteq Paths /\ frayed' \subseteq Contents /\ shorn' \subseteq Contents
      BY DEF IInv, TypeOK
    <2> QED BY <1>2, <1>3, <1>5, <2>1, LibraryType
  <1>7. CallsInv'
    <2>1. ASSUME NEW d \in Calls, d # c PROVE (Aimed(call[d]) /\ Careful(call[d]) /\ Sourced(call[d]))'
      <3>1. call'[d] = call[d]
        BY <1>3, <2>1, Typed DEF Go
      <3>2. call[d].pc \in Linking => call[d].content \in Contents
        BY CallFacts DEF Aimed, Linking
      <3> QED BY <1>5, <3>1, <3>2, CallFacts DEF Sourced, Listed, Aimed, Careful
    <2>2. (Aimed(call[c]) /\ Careful(call[c]) /\ Sourced(call[c]))'
      BY <1>2, <1>6 DEF Turned, Sourced, Listed, Aimed, Careful, Linking
    <2> QED BY <2>1, <2>2 DEF CallsInv
  <1>8. ListedIsStored'
    <2>1. \A d \in Calls : call[d].pc = "rmLib" => call'[d] = call[d]
      BY <1>1, <1>3, Typed DEF Go
    <2> QED BY <1>1, <1>5, <2>1 DEF IInv, ListedIsStored
  <1>9. Numbered'
    BY <1>5 DEF IInv, Numbered
  <1>10. ModsKeepTheirSource'
    BY <1>5 DEF IInv, TypeOK, ModsKeepTheirSource, Listed, ModsStill
  <1> QED BY <1>6, <1>7, <1>8, <1>9, <1>10 DEF IInv

-----------------------------------------------------------------------------
(* The steps that write under a name *)

\* Those that leave its row alone.
LEMMA WritesFiles ==
  ASSUME IInv, NEW c \in Calls, NEW r \in CallRecords, NEW f \in Names, NEW ds \in Doubts,
         Write(c, f, r, ds), LibraryStill, Same, UNCHANGED row,
         Aimed(r), Careful(r), Sourced(r), call[c].pc # "rmLib",
         dir' \in [Names -> Files], off' \in [Names -> Files]
  PROVE  IInv'
  <1>1. row' \in [Names -> Rows]
    BY Typed
  <1>2. \A g \in Names : row[g].there => row[g].content \in Contents /\ row[g].lib # 0
    BY DEF IInv, TypeOK
  <1> QED BY <1>1, <1>2, Writes

LEMMA ClearKeeps == ASSUME IInv, NEW c \in Calls, Clear(c) PROVE IInv'
  <1> USE DEF Clear
  <1> DEFINE r == call[c]
             q == At(r, "link")
  <1>1. r \in CallRecords /\ Aimed(r) /\ Careful(r) /\ Sourced(r) /\ r.pc = "clear" /\ r.file \in Names
    BY CallFacts DEF Aimed
  <1>2. q \in CallRecords /\ Aimed(q) /\ Careful(q) /\ Sourced(q)
    BY <1>1, AtType DEF Steps, Aimed, Careful, Sourced, Linking
  <1>3. dir' \in [Names -> Files] /\ off' \in [Names -> Files] /\ doubts[r.file] \in Doubts
    BY <1>1, Typed DEF Files
  <1>4. Write(c, r.file, q, doubts[r.file])
    OBVIOUS
  <1> HIDE DEF q
  <1> QED BY <1>1, <1>2, <1>3, <1>4, WritesFiles

LEMMA MendedType == ASSUME IInv, NEW r, r.file \in Names PROVE Mended(r) \in Doubts
  BY Typed DEF Mended, Doubts

LEMMA LinkKeeps == ASSUME IInv, NEW c \in Calls, Link(c) PROVE IInv'
  <1> USE DEF Link
  <1> DEFINE r == call[c]
             q == AfterLink(r)
             ds == IF r.kind = "reapply" /\ r.on THEN Mended(r) ELSE doubts[r.file]
  <1>1. r \in CallRecords /\ Aimed(r) /\ Careful(r) /\ Sourced(r) /\ r.pc = "link"
        /\ r.file \in Names /\ r.content \in Contents
    BY CallFacts DEF Aimed
  <1>2. q \in CallRecords /\ Aimed(q) /\ Careful(q) /\ Sourced(q)
    <2>1. CASE r.kind # "reapply"
      <3>1. q = At(r, "upsert")
        BY <2>1 DEF AfterLink
      <3> QED BY <1>1, <2>1, <3>1, AtType DEF Steps, Aimed, Careful, Sourced, Linking
    <2>2. CASE r.kind = "reapply"
      <3>1. ASSUME NEW s \in {"next", "tuck"}
            PROVE  At(r, s) \in CallRecords /\ Aimed(At(r, s)) /\ Careful(At(r, s)) /\ Sourced(At(r, s))
        BY <1>1, <2>2, AtType DEF Steps, Aimed, Careful, Sourced, Linking
      <3>2. q = At(r, "next") \/ q = At(r, "tuck")
        BY <2>2 DEF AfterLink
      <3> QED BY <3>1, <3>2
    <2> QED BY <2>1, <2>2
  <1>3. ds \in Doubts
    BY <1>1, MendedType, Typed
  <1>4. dir' \in [Names -> Files] /\ off' \in [Names -> Files]
    BY <1>1, Typed DEF Files
  <1>5. Write(c, r.file, q, ds)
    OBVIOUS
  <1> HIDE DEF q, ds
  <1> QED BY <1>1, <1>2, <1>3, <1>4, <1>5, WritesFiles

\* Giving up half-way.
LEMMA TornType == ASSUME IInv, NEW f \in Names PROVE doubts[f] \cup {"torn"} \in Doubts
  BY Typed DEF Doubts

LEMMA NoLinkKeeps == ASSUME IInv, NEW c \in Calls, NoLink(c) PROVE IInv'
  <1> USE DEF NoLink
  <1>1. call[c].pc = "link" /\ call[c].file \in Names
    BY CallFacts DEF Aimed
  <1>2. dir' \in [Names -> Files] /\ off' \in [Names -> Files]
    BY Typed
  <1>3. Write(c, call[c].file, Free, doubts[call[c].file] \cup {"torn"})
    OBVIOUS
  <1> QED BY <1>1, <1>2, <1>3, FreeGood, TornType, WritesFiles

LEMMA RemoveOnKeeps == ASSUME IInv, NEW c \in Calls, RemoveOn(c) PROVE IInv'
  <1> USE DEF RemoveOn
  <1> DEFINE r == call[c]
             q == At(r, "rmOff")
  <1>1. r \in CallRecords /\ Aimed(r) /\ Careful(r) /\ r.pc = "rmOn" /\ r.file \in Names
    BY CallFacts DEF Aimed
  <1>2. q \in CallRecords /\ Aimed(q) /\ Careful(q) /\ Sourced(q)
    BY <1>1, AtType DEF Steps, Aimed, Careful, Sourced, Linking
  <1>3. dir' \in [Names -> Files] /\ off' \in [Names -> Files] /\ doubts[r.file] \in Doubts
    BY <1>1, Typed DEF Files
  <1>4. Write(c, r.file, q, doubts[r.file])
    OBVIOUS
  <1> HIDE DEF q
  <1> QED BY <1>1, <1>2, <1>3, <1>4, WritesFiles

LEMMA RemoveOffKeeps == ASSUME IInv, NEW c \in Calls, RemoveOff(c) PROVE IInv'
  <1> USE DEF RemoveOff
  <1> DEFINE r == call[c]
             q == At(r, "rmRow")
  <1>1. r \in CallRecords /\ Aimed(r) /\ Careful(r) /\ r.pc = "rmOff" /\ r.file \in Names
    BY CallFacts DEF Aimed
  <1>2. q \in CallRecords /\ Aimed(q) /\ Careful(q) /\ Sourced(q)
    BY <1>1, AtType DEF Steps, Aimed, Careful, Sourced, Linking
  <1>3. dir' \in [Names -> Files] /\ off' \in [Names -> Files] /\ doubts[r.file] \in Doubts
    BY <1>1, Typed DEF Files
  <1>4. Write(c, r.file, q, doubts[r.file])
    OBVIOUS
  <1> HIDE DEF q
  <1> QED BY <1>1, <1>2, <1>3, <1>4, WritesFiles

LEMMA RenameKeeps == ASSUME IInv, NEW c \in Calls, Rename(c) PROVE IInv'
  <1> USE DEF Rename
  <1> DEFINE r == call[c]
             q == At(r, "flag")
  <1>1. r \in CallRecords /\ Aimed(r) /\ Careful(r) /\ r.pc = "rename" /\ r.file \in Names
    BY CallFacts DEF Aimed
  <1>2. q \in CallRecords /\ Aimed(q) /\ Careful(q) /\ Sourced(q)
    BY <1>1, AtType DEF Steps, Aimed, Careful, Sourced, Linking
  <1>3. dir' \in [Names -> Files] /\ off' \in [Names -> Files] /\ doubts[r.file] \in Doubts
    BY <1>1, Typed DEF Files
  <1>4. Write(c, r.file, q, doubts[r.file])
    OBVIOUS
  <1> HIDE DEF q
  <1> QED BY <1>1, <1>2, <1>3, <1>4, WritesFiles

LEMMA TuckKeeps == ASSUME IInv, NEW c \in Calls, Tuck(c) PROVE IInv'
  <1> USE DEF Tuck
  <1> DEFINE r == call[c]
             q == At(r, "next")
  <1>1. r \in CallRecords /\ Aimed(r) /\ Careful(r) /\ r.pc = "tuck" /\ r.file \in Names
    BY CallFacts DEF Aimed
  <1>2. q \in CallRecords /\ Aimed(q) /\ Careful(q) /\ Sourced(q)
    BY <1>1, AtType DEF Steps, Aimed, Careful, Sourced, Linking
  <1>3. dir' \in [Names -> Files] /\ off' \in [Names -> Files]
    BY <1>1, Typed DEF Files
  <1>4. Mended(r) \in Doubts /\ doubts[r.file] \in Doubts
    BY <1>1, MendedType, Typed
  <1>5. Write(c, r.file, Free, doubts[r.file]) \/ Write(c, r.file, q, Mended(r))
    OBVIOUS
  <1> HIDE DEF q
  <1> QED BY <1>1, <1>2, <1>3, <1>4, <1>5, FreeGood, WritesFiles

\* A row that is marked gone, or given a flag, refers to what it did.
LEMMA RowMarked ==
  ASSUME IInv, NEW f \in Names, NEW b \in BOOLEAN,
         \/ row' = row \/ row' = [row EXCEPT ![f].there = FALSE] \/ row' = [row EXCEPT ![f].on = b]
  PROVE  /\ row' \in [Names -> Rows]
         /\ \A g \in Names : row'[g].there =>
              /\ row'[g].content \in Contents /\ row'[g].lib # 0
              /\ row[g].there /\ row'[g].content = row[g].content /\ row'[g].lib = row[g].lib
  <1>1. row \in [Names -> Rows]
    BY Typed
  <1>2. \A g \in Names : row[g].there => row[g].content \in Contents /\ row[g].lib # 0
    BY DEF IInv, TypeOK
  <1>3. CASE row' = row
    BY <1>1, <1>2, <1>3
  <1>4. CASE row' = [row EXCEPT ![f].there = FALSE]
    <2>1. row' \in [Names -> Rows]
      BY <1>1, <1>4 DEF Rows
    <2>2. \A g \in Names : row'[g].there => row'[g] = row[g]
      BY <1>1, <1>4 DEF Rows
    <2> QED BY <1>2, <2>1, <2>2
  <1>5. CASE row' = [row EXCEPT ![f].on = b]
    <2>1. row' \in [Names -> Rows]
      BY <1>1, <1>5 DEF Rows
    <2>2. \A g \in Names : /\ row'[g].there = row[g].there /\ row'[g].content = row[g].content
                           /\ row'[g].lib = row[g].lib
      BY <1>1, <1>5 DEF Rows
    <2> QED BY <1>2, <2>1, <2>2
  <1> QED BY <1>3, <1>4, <1>5

LEMMA RemoveRowKeeps == ASSUME IInv, NEW c \in Calls, RemoveRow(c) PROVE IInv'
  <1> USE DEF RemoveRow
  <1> DEFINE r == call[c]
             q == AfterRemoval(r)
             ds == IF r.alone THEN {} ELSE doubts[r.file]
  <1>1. r \in CallRecords /\ Aimed(r) /\ Careful(r) /\ r.pc = "rmRow" /\ r.file \in Names
    BY CallFacts DEF Aimed
  <1>2. q \in CallRecords /\ Aimed(q) /\ Careful(q) /\ Sourced(q)
    <2>1. CASE r.kind = "update"
      <3>1. r.content \in Contents /\ NameOf[r.content] \in Names
        BY <1>1, <2>1, ContentAssumption DEF Aimed
      <3>2. q = [r EXCEPT !.pc = "look", !.file = NameOf[r.content], !.alone = TRUE]
        BY <2>1 DEF AfterRemoval
      <3>3. q \in CallRecords /\ q.pc = "look" /\ q.file \in Names /\ q.content \in Contents
            /\ q.kind = "update"
        BY <1>1, <2>1, <3>1, <3>2 DEF CallRecords, Steps
      <3> QED BY <2>1, <3>3 DEF Aimed, Careful, Sourced, Linking
    <2>2. CASE r.kind # "update"
      BY <2>2, FreeGood DEF AfterRemoval
    <2> QED BY <2>1, <2>2
  <1>3. dir' \in [Names -> Files] /\ off' \in [Names -> Files] /\ ds \in Doubts
    BY <1>1, Typed DEF Doubts
  <1>4. Write(c, r.file, q, ds)
    OBVIOUS
  <1>5. row' = row \/ row' = [row EXCEPT ![r.file].there = FALSE]
    OBVIOUS
  <1> HIDE DEF q, ds
  <1> QED BY <1>1, <1>2, <1>3, <1>4, <1>5, RowMarked, Writes

LEMMA FlagKeeps == ASSUME IInv, NEW c \in Calls, Flag(c) PROVE IInv'
  <1> USE DEF Flag
  <1> DEFINE r == call[c]
  <1>1. r \in CallRecords /\ r.pc = "flag" /\ r.file \in Names
    BY CallFacts DEF Aimed
  <1>2. dir' \in [Names -> Files] /\ off' \in [Names -> Files] /\ doubts[r.file] \in Doubts
        /\ r.on \in BOOLEAN
    BY <1>1, Typed DEF CallRecords
  <1>3. Write(c, r.file, Free, doubts[r.file])
    OBVIOUS
  <1>4. row' = row \/ row' = [row EXCEPT ![r.file].on = r.on]
    OBVIOUS
  <1> QED BY <1>1, <1>2, <1>3, <1>4, FreeGood, RowMarked, Writes

\* The row comes to refer to what the request still finds, or frayed.
LEMMA UpsertKeeps == ASSUME IInv, NEW c \in Calls, Upsert(c) PROVE IInv'
  <1> USE DEF Upsert
  <1> DEFINE r == call[c]
             new == Upserted(r)
             q == IF r.kind = "update" /\ ~r.on
                  THEN [At(r, "readToToggle") EXCEPT !.alone = TRUE] ELSE Free
             ds == {x \in doubts[r.file] : ~r.alone} \cup {x \in {"overlaid"} : Overlaid(r.file)}
  <1>1. r \in CallRecords /\ Aimed(r) /\ Careful(r) /\ Sourced(r) /\ r.pc = "upsert"
        /\ r.file \in Names /\ r.content \in Contents /\ r.lib # 0
        /\ (Listed(r.content, r.lib) \/ r.content \in frayed)
    BY CallFacts DEF Aimed, Sourced, Linking
  <1>2. new \in Rows /\ new.content = r.content /\ new.lib = r.lib
    <2>1. row[r.file] \in Rows /\ r.lib \in Nat /\ r.content \in Files
      BY <1>1, Typed DEF CallRecords
    <2>2. CASE row[r.file].there
      <3>1. new = [row[r.file] EXCEPT !.content = r.content, !.lib = r.lib]
        BY <2>2 DEF Upserted
      <3> QED BY <2>1, <3>1 DEF Rows
    <2>3. CASE ~row[r.file].there
      <3>1. new = [n |-> row[r.file].n + 1, there |-> TRUE, content |-> r.content, lib |-> r.lib,
                   on |-> TRUE]
        BY <2>3 DEF Upserted
      <3>2. row[r.file].n + 1 \in Nat
        BY <2>1 DEF Rows
      <3> QED BY <2>1, <3>1, <3>2 DEF Rows
    <2> QED BY <2>2, <2>3
  <1>3. q \in CallRecords /\ Aimed(q) /\ Careful(q) /\ Sourced(q)
    <2>1. CASE r.kind = "update"
      <3> DEFINE p == [At(r, "readToToggle") EXCEPT !.alone = TRUE]
      <3>1. p \in CallRecords /\ p.pc = "readToToggle" /\ p.kind = r.kind /\ p.file = r.file
            /\ p.content = r.content /\ p.todo = r.todo
        BY <1>1 DEF At, CallRecords, Steps
      <3>2. Aimed(p) /\ Careful(p) /\ Sourced(p)
        BY <1>1, <2>1, <3>1 DEF Aimed, Careful, Sourced, Linking
      <3>3. q = p \/ q = Free
        OBVIOUS
      <3> HIDE DEF p, q
      <3> QED BY <3>1, <3>2, <3>3, FreeGood
    <2>2. CASE r.kind # "update"
      BY <2>2, FreeGood
    <2> QED BY <2>1, <2>2
  <1>4. dir' \in [Names -> Files] /\ off' \in [Names -> Files]
    BY <1>1, Typed
  <1>5. ds \in Doubts
    BY <1>1, Typed DEF Doubts
  <1>6. Write(c, r.file, q, ds) /\ row' = [row EXCEPT ![r.file] = new]
    OBVIOUS
  <1> HIDE DEF q, ds, new
  <1>7. row' \in [Names -> Rows]
    BY <1>1, <1>2, <1>6, Typed
  <1>8. ASSUME NEW g \in Names, row'[g].there
        PROVE  /\ row'[g].content \in Contents /\ row'[g].lib # 0
               /\ \/ row[g].there /\ row'[g].content = row[g].content /\ row'[g].lib = row[g].lib
                  \/ row'[g].content \in frayed \/ Listed(row'[g].content, row'[g].lib)
    <2>1. CASE g = r.file
      BY <1>1, <1>2, <1>6, <2>1, Typed
    <2>2. CASE g # r.file
      BY <1>1, <1>6, <1>8, <2>2, Typed DEF IInv, TypeOK
    <2> QED BY <2>1, <2>2
  <1> QED BY <1>1, <1>3, <1>4, <1>5, <1>6, <1>7, <1>8, Writes

-----------------------------------------------------------------------------
(* A cleanup that removes a file or its row *)

\* What it removes is in use only where it frayed it.
LEMMA RemoveFileKeeps == ASSUME IInv, NEW c \in Calls, RemoveFile(c) PROVE IInv'
  <1> USE DEF RemoveFile
  <1> DEFINE r == call[c]
             q == At(r, "rmLib")
  <1>1. r \in CallRecords /\ Aimed(r) /\ Careful(r) /\ r.pc = "rmFile" /\ r.content \in Contents /\ r.on
    BY CallFacts DEF Aimed, Careful
  <1>2. q \in CallRecords /\ Aimed(q) /\ Careful(q) /\ Sourced(q) /\ q.pc = "rmLib" /\ q.content = r.content
    BY <1>1, AtType DEF Steps, Aimed, Careful, Sourced, Linking
  <1>3. Go(c, q)
    OBVIOUS
  <1> HIDE DEF q
  <1>0. /\ \A x \in Contents : FileOf[x] \in stored =>
             FileOf[x] \in stored' \/ FileOf[x] = FileOf[r.content]
        /\ \A x \in Contents \ {r.content} :
             FileOf[x] = FileOf[r.content] /\ (lib[x].there \/ \E d \in Calls : Holding(d, x))
               => x \in shorn'
        /\ shorn \subseteq shorn' /\ shorn' \subseteq Contents
    BY DEF Sharing, IInv, TypeOK
  <1>4. TypeOK' /\ Turned(c, q)
    <2>1. lib' \in [Contents -> [n : Nat, there : BOOLEAN]] /\ stored' \subseteq Paths
          /\ frayed' \subseteq Contents
      BY <1>1 DEF IInv, TypeOK
    <2> QED BY <1>0, <1>2, <1>3, <2>1, LibraryType
  <1>5. CallsInv'
    <2>1. ASSUME NEW d \in Calls, d # c PROVE (Aimed(call[d]) /\ Careful(call[d]) /\ Sourced(call[d]))'
      <3>1. call'[d] = call[d]
        BY <1>3, <2>1, Typed DEF Go
      <3>2. call[d].pc = "insert" /\ call[d].content = r.content => r.content \in frayed'
        BY <1>1, <2>1 DEF Needed, Holding
      <3>3. call[d].pc = "insert" => call[d].content \in Contents /\ Holding(d, call[d].content)
        BY CallFacts DEF Aimed, Holding
      <3>4. Aimed(call[d]) /\ Careful(call[d]) /\ Sourced(call[d])
        BY CallFacts
      <3>5. call[d].pc = "insert" =>
              FileOf[call[d].content] \in stored' \/ call[d].content \in frayed' \cup shorn'
        BY <1>0, <3>2, <3>3, <3>4 DEF Sourced
      <3> QED BY <3>1, <3>4, <3>5 DEF Sourced, Listed, Aimed, Careful
    <2>2. (Aimed(call[c]) /\ Careful(call[c]) /\ Sourced(call[c]))'
      BY <1>2, <1>4 DEF Turned, Sourced, Listed, Aimed, Careful, Linking
    <2> QED BY <2>1, <2>2 DEF CallsInv
  <1>6. ListedIsStored'
    <2>1. \A d \in Calls : call[d].pc = "rmLib" => call'[d] = call[d]
      BY <1>1, <1>3, Typed DEF Go
    <2>2. call'[c].pc = "rmLib" /\ call'[c].content = r.content
      BY <1>2, <1>4 DEF Turned
    <2> QED BY <1>0, <2>1, <2>2 DEF IInv, ListedIsStored
  <1>7. Numbered' /\ ModsKeepTheirSource'
    BY DEF IInv, Numbered, ModsKeepTheirSource, Listed, ModsStill
  <1> QED BY <1>4, <1>5, <1>6, <1>7 DEF IInv

LEMMA RemoveLibKeeps == ASSUME IInv, NEW c \in Calls, RemoveLib(c) PROVE IInv'
  <1> USE DEF RemoveLib
  <1> DEFINE r == call[c]
             b == call[c].content
             q == At(r, "next")
  <1>1. r \in CallRecords /\ Aimed(r) /\ Careful(r) /\ r.pc = "rmLib" /\ b \in Contents /\ r.on
    BY CallFacts DEF Aimed, Careful
  <1>2. q \in CallRecords /\ Aimed(q) /\ Careful(q) /\ Sourced(q) /\ q.pc = "next"
    BY <1>1, AtType DEF Steps, Aimed, Careful, Sourced, Linking
  <1>3. Go(c, q)
    OBVIOUS
  <1>4. lib \in [Contents -> [n : Nat, there : BOOLEAN]]
    BY DEF IInv, TypeOK
  <1>5. /\ lib' \in [Contents -> [n : Nat, there : BOOLEAN]]
        /\ \A x \in Contents : lib'[x].n = lib[x].n /\ (lib'[x].there => lib[x].there)
        /\ \A x \in Contents : x # b => lib'[x] = lib[x]
        /\ ~Listed(b, r.lib) => lib' = lib
        /\ Listed(b, r.lib) => ~lib'[b].there
    BY <1>1, <1>4 DEF Unlisted
  <1>6. frayed \subseteq frayed' /\ (Needed(r) => b \in frayed') /\ frayed' \subseteq Contents
    BY <1>1 DEF IInv, TypeOK
  <1>7. stored' = stored /\ shorn' = shorn /\ ModsStill /\ Same
    OBVIOUS
  <1> HIDE DEF q, RemoveLib
  <1>8. TypeOK' /\ Turned(c, q)
    <2>1. stored' \subseteq Paths /\ shorn' \subseteq Contents
      BY <1>7 DEF IInv, TypeOK
    <2> QED BY <1>2, <1>3, <1>5, <1>6, <1>7, <2>1, LibraryType
  <1>9. CallsInv'
    <2>1. ASSUME NEW d \in Calls, d # c PROVE (Aimed(call[d]) /\ Careful(call[d]) /\ Sourced(call[d]))'
      <3>1. call'[d] = call[d]
        BY <1>3, <2>1, Typed DEF Go
      <3>2. Aimed(call[d]) /\ Careful(call[d]) /\ Sourced(call[d])
        BY CallFacts
      <3>3. call[d].pc \in Linking =>
              Listed(call[d].content, call[d].lib)' \/ call[d].content \in frayed'
        <4>1. call[d].pc \in Linking /\ call[d].content = b => b \in frayed'
          BY <1>1, <1>6, <2>1 DEF Needed, Holding, Linking
        <4>2. call[d].pc \in Linking => call[d].content \in Contents
          BY <3>2 DEF Aimed, Linking
        <4> QED BY <1>5, <1>6, <3>1, <3>2, <4>1, <4>2 DEF Sourced, Listed
      <3> QED BY <1>6, <1>7, <3>1, <3>2, <3>3 DEF Sourced, Listed, Aimed, Careful
    <2>2. (Aimed(call[c]) /\ Careful(call[c]) /\ Sourced(call[c]))'
      BY <1>2, <1>8 DEF Turned, Sourced, Listed, Aimed, Careful, Linking
    <2> QED BY <2>1, <2>2 DEF CallsInv
  <1>10. Numbered'
    BY <1>5 DEF IInv, Numbered
  <1>11. ModsKeepTheirSource'
    <2>1. ASSUME NEW f \in Names, row[f].there, row[f].content \notin frayed'
          PROVE  Listed(row[f].content, row[f].lib)'
      <3>1. Listed(row[f].content, row[f].lib) /\ row[f].content \in Contents
        BY <1>6, <2>1 DEF IInv, TypeOK, ModsKeepTheirSource
      <3>2. row[f].content # b
        BY <1>1, <1>6, <2>1, <3>1 DEF Needed, Unused, Refers, Listed
      <3> QED BY <1>5, <1>7, <3>1, <3>2 DEF Listed, ModsStill
    <2> QED BY <1>7, <2>1 DEF ModsKeepTheirSource, ModsStill
  <1>12. ListedIsStored'
    <2>1. ASSUME NEW x \in Contents, lib'[x].there, x \notin frayed' \cup shorn
          PROVE  FileOf[x] \in stored \/ \E d \in Calls : call'[d].pc = "rmLib" /\ call'[d].content = x
      <3>1. lib[x].there /\ x \notin frayed \cup shorn
        BY <1>5, <1>6, <2>1
      <3>2. CASE FileOf[x] \in stored
        BY <3>2
      <3>3. CASE FileOf[x] \notin stored
        <4>1. PICK d \in Calls : call[d].pc = "rmLib" /\ call[d].content = x
          BY <3>1, <3>3 DEF IInv, ListedIsStored
        <4>2. x # b
          <5>1. ~Listed(b, r.lib) /\ lib[b].there => Needed(r)
            BY <1>1, <1>4 DEF Needed, Listed
          <5> QED BY <1>5, <1>6, <2>1, <3>1, <5>1
        <4>3. call'[d] = call[d]
          BY <1>3, <4>1, <4>2, Typed DEF Go
        <4> QED BY <4>1, <4>3
      <3> QED BY <3>2, <3>3
    <2> QED BY <1>7, <2>1 DEF ListedIsStored
  <1> QED BY <1>8, <1>9, <1>10, <1>11, <1>12 DEF IInv

-----------------------------------------------------------------------------
(* What else happens *)

\* Other hands write no row and no library file.
LEMMA MeddledKeeps ==
  ASSUME IInv, NEW f \in Names, NEW x \in {"lost", "strange"}, Meddled(f, x),
         dir' \in [Names -> Files], off' \in [Names -> Files]
  PROVE  IInv'
  <1>1. \A d \in Calls : call'[d] = call[d] \/ call'[d] = [call[d] EXCEPT !.alone = FALSE]
    BY DEF Meddled
  <1>2. \A d \in Calls : [call[d] EXCEPT !.alone = FALSE] \in CallRecords
    BY Typed DEF CallRecords
  <1>3. call' \in [Calls -> CallRecords]
    BY <1>2, Typed DEF Meddled
  <1>4. doubts' \in [Names -> Doubts]
    BY Typed DEF Meddled, Doubts
  <1>5. TypeOK'
    BY <1>3, <1>4 DEF Meddled, IInv, TypeOK, LibraryStill, Same, CallRecords, Doubts, Files, Entries
  <1>6. \A d \in Calls : /\ Aimed(call'[d]) /\ Careful(call'[d])
                         /\ call'[d].pc = call[d].pc /\ call'[d].content = call[d].content
                         /\ call'[d].lib = call[d].lib
    BY <1>1, CallFacts, Disturbed
  <1>7. LibraryStill /\ row' = row
    BY DEF Meddled
  <1>8. CallsInv'
    <2>1. ASSUME NEW d \in Calls PROVE (Aimed(call[d]) /\ Careful(call[d]) /\ Sourced(call[d]))'
      BY <1>6, <1>7, CallFacts DEF Sourced, Listed, Aimed, Careful, LibraryStill
    <2> QED BY <2>1 DEF CallsInv
  <1>9. Numbered' /\ ListedIsStored' /\ ModsKeepTheirSource'
    BY <1>6, <1>7 DEF IInv, Numbered, ListedIsStored, ModsKeepTheirSource, Listed, LibraryStill
  <1> QED BY <1>5, <1>8, <1>9 DEF IInv

LEMMA DroppedKeeps == ASSUME IInv, NEW f \in Names, Dropped(f) PROVE IInv'
  <1>1. dir' \in [Names -> Files] /\ off' \in [Names -> Files] /\ Meddled(f, "lost")
    BY Typed DEF Dropped, Files
  <1> QED BY <1>1, MeddledKeeps

LEMMA PlacedKeeps ==
  ASSUME IInv, NEW b \in Contents, NEW enabled \in BOOLEAN, Placed(b, enabled)
  PROVE  IInv'
  <1>1. NameOf[b] \in Names
    BY ContentAssumption
  <1>2. dir' \in [Names -> Files] /\ off' \in [Names -> Files] /\ Meddled(NameOf[b], "strange")
    BY <1>1, Typed DEF Placed, Files
  <1> QED BY <1>1, <1>2, MeddledKeeps

\* A cleanup that fails at the row frays what it leaves without its file.
LEMMA StepFailsKeeps == ASSUME IInv, NEW c \in Calls, StepFails(c) PROVE IInv'
  <1> USE DEF StepFails
  <1> DEFINE r == call[c]
  <1>1. r \in CallRecords /\ Aimed(r) /\ Careful(r)
    BY CallFacts
  <1>2. CASE r.pc \in Changes
    <2>1. r.file \in Names /\ r.pc # "rmLib" /\ frayed' = frayed
      BY <1>1, <1>2 DEF Changes, Aimed
    <2>2. Write(c, r.file, Free, doubts[r.file] \cup {"torn"}) /\ LibraryStill
      BY <1>2, <2>1 DEF LibraryStill
    <2>3. dir' \in [Names -> Files] /\ off' \in [Names -> Files]
      BY Typed
    <2> QED BY <2>1, <2>2, <2>3, FreeGood, TornType, WritesFiles
  <1>3. CASE r.pc \notin Changes /\ r.pc # "rmLib"
    <2> DEFINE q == IF r.pc \in {"rmFile", "rmLib"} THEN At(r, "next") ELSE Free
    <2>1. Go(c, q) /\ LibraryStill /\ ModsStill
      BY <1>3 DEF LibraryStill, ModsStill
    <2>2. q \in CallRecords /\ Aimed(q) /\ Careful(q) /\ Sourced(q)
      BY <1>1, AtType, FreeGood DEF Steps, Aimed, Careful, Sourced, Linking
    <2> HIDE DEF q
    <2> QED BY <1>3, <2>1, <2>2, Passes, SameType
  <1>4. CASE r.pc = "rmLib"
    <2> DEFINE q == At(r, "next")
    <2>1. Go(c, q) /\ ModsStill /\ frayed' = frayed \cup {r.content}
      BY <1>4 DEF Changes, ModsStill
    <2>2. q \in CallRecords /\ Aimed(q) /\ Careful(q) /\ Sourced(q)
      BY <1>1, <1>4, AtType DEF Steps, Aimed, Careful, Sourced, Linking
    <2>3. lib' = lib /\ stored' = stored /\ shorn' = shorn /\ row' = row
      OBVIOUS
    <2> HIDE DEF q
    <2>4. TypeOK' /\ Turned(c, q)
      <3>1. lib' \in [Contents -> [n : Nat, there : BOOLEAN]] /\ stored' \subseteq Paths
            /\ frayed' \subseteq Contents /\ shorn' \subseteq Contents
        BY <1>1, <1>4, <2>1, <2>3 DEF IInv, TypeOK, Aimed
      <3> QED BY <2>1, <2>2, <3>1, LibraryType
    <2>5. CallsInv'
      <3>1. ASSUME NEW d \in Calls, d # c PROVE (Aimed(call[d]) /\ Careful(call[d]) /\ Sourced(call[d]))'
        <4>1. call'[d] = call[d]
          BY <2>1, <3>1, Typed DEF Go
        <4> QED BY <2>1, <2>3, <4>1, CallFacts DEF Sourced, Listed, Aimed, Careful
      <3>2. (Aimed(call[c]) /\ Careful(call[c]) /\ Sourced(call[c]))'
        BY <2>1, <2>2, <2>3, <2>4 DEF Turned, Sourced, Listed, Aimed, Careful, Linking
      <3> QED BY <3>1, <3>2 DEF CallsInv
    <2>6. ListedIsStored'
      <3>1. \A d \in Calls : d # c => call'[d] = call[d]
        BY <2>1, Typed DEF Go
      <3> QED BY <2>1, <2>3, <3>1 DEF IInv, ListedIsStored
    <2>7. Numbered' /\ ModsKeepTheirSource'
      BY <2>1, <2>3 DEF IInv, Numbered, ModsKeepTheirSource, Listed
    <2> QED BY <2>4, <2>5, <2>6, <2>7 DEF IInv
  <1> QED BY <1>2, <1>3, <1>4

-----------------------------------------------------------------------------
(* The invariant *)

LEMMA InitIInv == ASSUME Init PROVE IInv
  <1> USE DEF Init
  <1>0. scene \in Scenes /\ scene.uses \subseteq Contents
    BY ContentAssumption
  <1>1. PICK mod, spare, stray \in scene.uses \cup {Nothing}, enabled, strayOn \in BOOLEAN :
       LET has(f) == mod # Nothing /\ NameOf[mod] = f
           found(f) == stray # Nothing /\ NameOf[stray] = f /\ ~has(f)
           kept == {mod, spare} \ {Nothing}
       IN /\ stored = {FileOf[c] : c \in kept}
          /\ lib = [c \in Contents |-> [n |-> IF c \in kept THEN 1 ELSE 0, there |-> c \in kept]]
          /\ row = [f \in Names |->
               IF has(f) THEN [n |-> 1, there |-> TRUE, content |-> mod, lib |-> 1, on |-> enabled]
               ELSE [n |-> 0, there |-> FALSE, content |-> Nothing, lib |-> 0, on |-> TRUE]]
          /\ dir = [f \in Names |-> IF has(f) /\ enabled THEN mod
                                    ELSE IF found(f) /\ strayOn THEN stray ELSE Nothing]
          /\ off = [f \in Names |-> IF has(f) /\ ~enabled THEN mod
                                    ELSE IF found(f) /\ ~strayOn THEN stray ELSE Nothing]
          /\ doubts = [f \in Names |-> {x \in {"strange"} : found(f)}]
    BY Zenon
  <1> DEFINE kept == {mod, spare} \ {Nothing}
  <1>11. kept \subseteq Contents /\ mod \in Files /\ stray \in Files
    BY <1>0 DEF Files
  <1>12. stored = {FileOf[c] : c \in kept}
    BY <1>1
  <1>2. lib \in [Contents -> [n : Nat, there : BOOLEAN]]
        /\ \A c \in Contents : /\ lib[c].there = (c \in kept)
                               /\ lib[c].n = IF c \in kept THEN 1 ELSE 0
    <2> DEFINE New(x) == [n |-> IF x THEN 1 ELSE 0, there |-> x]
    <2>1. \A x \in BOOLEAN : /\ New(x) \in [n : Nat, there : BOOLEAN]
                             /\ New(x).there = x /\ New(x).n = IF x THEN 1 ELSE 0
      OBVIOUS
    <2>3. lib = [c \in Contents |-> New(c \in kept)]
      BY <1>1
    <2> HIDE DEF New
    <2>4. \A c \in Contents : lib[c] = New(c \in kept)
      BY <2>3, Zenon
    <2>5. ASSUME NEW c \in Contents
          PROVE  /\ lib[c] \in [n : Nat, there : BOOLEAN]
                 /\ lib[c].there = (c \in kept) /\ lib[c].n = IF c \in kept THEN 1 ELSE 0
      <3> DEFINE x == c \in kept
      <3>1. x \in BOOLEAN /\ lib[c] = New(x)
        BY <2>4
      <3> HIDE DEF x
      <3>2. lib[c] \in [n : Nat, there : BOOLEAN] /\ lib[c].there = x /\ lib[c].n = IF x THEN 1 ELSE 0
        BY <2>1, <3>1, Zenon
      <3> QED BY <3>2 DEF x
    <2> QED BY <2>3, <2>5, Zenon
  <1>3. stored \subseteq Paths
    BY <1>11, <1>12, ContentAssumption
  <1>4. row \in [Names -> Rows] /\ dir \in [Names -> Files] /\ off \in [Names -> Files]
    BY <1>1, <1>11 DEF Rows, Files
  <1>5. \A f \in Names : row[f].there =>
          /\ row[f].content = mod /\ mod \in kept /\ row[f].lib = 1
          /\ row[f].content \in Contents
    BY <1>1, <1>11 DEF Files
  <1>6. call \in [Calls -> CallRecords]
    BY FreeGood
  <1>7. scene \in Scenes /\ asked \in 0..scene.asks
    BY ContentAssumption
  <1>8. TypeOK
    <2>1. doubts \in [Names -> SUBSET {"raced", "overlaid", "torn", "lost", "strange"}]
          /\ frayed \subseteq Contents /\ shorn \subseteq Contents
      BY <1>1
    <2>2. \A f \in Names : row[f].there => row[f].content \in Contents /\ row[f].lib # 0
      BY <1>5
    <2> HIDE DEF Init
    <2> QED BY <1>2, <1>3, <1>4, <1>6, <1>7, <2>1, <2>2 DEF TypeOK, CallRecords, Rows
  <1>9. CallsInv
    BY FreeGood DEF CallsInv
  <1> HIDE DEF Init, kept
  <1>10. Numbered /\ ListedIsStored /\ ModsKeepTheirSource
    <2>1. Numbered
      BY <1>2 DEF Numbered
    <2>2. ListedIsStored
      BY <1>2, <1>12 DEF ListedIsStored
    <2>3. ModsKeepTheirSource
      BY <1>2, <1>5 DEF ModsKeepTheirSource, Listed
    <2> QED BY <2>1, <2>2, <2>3
  <1> QED BY <1>8, <1>9, <1>10 DEF IInv

LEMMA NextIInv == ASSUME IInv, [Next]_contentVars PROVE IInv'
  <1>1. CASE UNCHANGED contentVars
    BY <1>1 DEF contentVars, IInv, TypeOK, Numbered, CallsInv, Aimed, Careful, Sourced, Listed,
                ListedIsStored, ModsKeepTheirSource
  <1>2. ASSUME NEW c \in Calls, Step(c) PROVE IInv'
    BY <1>2, LookKeeps, MoveKeeps, InsertKeeps, PickKeeps, CheckKeeps, ClearKeeps, LinkKeeps,
       NoLinkKeeps, UpsertKeeps, ReadKeeps, RemoveOnKeeps, RemoveOffKeeps, RemoveRowKeeps,
       RenameKeeps, FlagKeeps, ListKeeps, FinishKeeps, TuckKeeps, RemoveFileKeeps, RemoveLibKeeps,
       StepFailsKeeps, NextModKeeps, NextOrphanKeeps DEF Step
  <1>3. ASSUME NEW c \in Calls, Reapply(c) \/ Cleanup(c) PROVE IInv'
    BY <1>3, WorkKeeps
  <1>4. ASSUME NEW c \in Calls, NEW b \in Contents, AddMod(c, b) \/ \E f \in Names : UpdateMod(c, f, b)
        PROVE  IInv'
    BY <1>4, AddKeeps, UpdateKeeps
  <1>5. ASSUME NEW c \in Calls, NEW f \in Names,
               RemoveMod(c, f) \/ \E enabled \in BOOLEAN : ToggleMod(c, f, enabled)
        PROVE  IInv'
    BY <1>5, RemoveKeeps, ToggleKeeps
  <1>6. ASSUME NEW f \in Names, Dropped(f) PROVE IInv'
    BY <1>6, DroppedKeeps
  <1>7. ASSUME NEW b \in Contents, NEW enabled \in BOOLEAN, Placed(b, enabled) PROVE IInv'
    BY <1>7, PlacedKeeps
  <1> QED BY <1>1, <1>2, <1>3, <1>4, <1>5, <1>6, <1>7 DEF Next

\* The types of the mods, the library and the requests.
THEOREM ContentTypes == Spec => []TypeOK
  <1>1. IInv => TypeOK
    BY DEF IInv
  <1> QED BY <1>1, InitIInv, NextIInv, PTL DEF Spec

\* However many requests and cleanups run beside each other, a listed library
\* file is on disk, but while a cleanup is between the two, where it took it
\* from a request that was using it, and where it removed the same bytes as of
\* another category: what orphans and the return of whoever's row
\* (library.service.ts) are to ensure.
THEOREM ListedFilesAreStored == Spec => []ListedIsStored
  <1>1. IInv => ListedIsStored
    BY DEF IInv
  <1> QED BY <1>1, InitIInv, NextIInv, PTL DEF Spec

\* However many requests and cleanups run beside each other, an installed mod
\* keeps the library row that a reapply restores it from, unless a cleanup took
\* it from a request that had come to use it.
THEOREM ModsKeepTheirLibraryRow == Spec => []ModsKeepTheirSource
  <1>1. IInv => ModsKeepTheirSource
    BY DEF IInv
  <1> QED BY <1>1, InitIInv, NextIInv, PTL DEF Spec

-----------------------------------------------------------------------------
(* Rows and files agree *)

\* A request that has written under its name and not finished there.
DirtySteps == {"link", "upsert", "tuck", "rmOff", "rmRow", "flag"}
Dirty(r, f) == r.file = f /\ r.pc \in DirtySteps

\* What is found of a name with row x, d in the mods directory, o disabled.
IfOn(x, on) == IF x.there /\ on THEN x.content ELSE Nothing
IfOff(x, on) == IF x.there /\ ~on THEN x.content ELSE Nothing
Matches(x, d, o) == d = IfOn(x, x.on) /\ o = IfOff(x, x.on)

ReadSteps == {"rmOn", "rmOff", "rmRow", "rename", "flag"}
TakenSteps == {"check", "clear", "link", "tuck"}

\* What a request that nobody disturbed may rely on: the row it has read is the
\* one there is, what it has removed is gone, what it has listed is as listed.
Seen(r, f, x, d, o) ==
  /\ r.file = f /\ r.pc \in ReadSteps /\ x.there => r.row = x.n
  /\ r.file = f /\ r.pc \in {"rmOff", "rmRow"} => d = Nothing
  /\ r.file = f /\ r.pc = "rmRow" => o = Nothing
  /\ r.kind = "reapply" => \A e \in r.todo : e.file = f =>
       x.there /\ x.content = e.content /\ (x.on <=> e.on)
  /\ r.kind = "reapply" /\ r.file = f /\ r.pc \in TakenSteps =>
       x.there /\ x.content = r.content /\ (x.on <=> r.on) /\ o = Nothing
  /\ r.file = f /\ r.pc \in {"tuck", "upsert"} => d = r.content

\* What a request leaves between two writes under a name that is not in doubt.
Midway(r, x, d, o) ==
  /\ r.pc = "link" /\ r.kind # "reapply" => o = IfOff(x, x.on)
  /\ r.pc = "upsert" => d = r.content /\ o = IfOff(x, x.on)
  /\ r.pc = "flag" => d = IfOn(x, r.on) /\ o = IfOff(x, r.on)

\* A reapply has one entry of a name, and none of the one it works on.
Listing(r) ==
  /\ r.kind = "reapply" =>
       /\ r.pc \in {"list", "next"} \cup TakenSteps
       /\ \A e, g \in r.todo : e.file = g.file => e = g
       /\ r.pc \in TakenSteps => \A e \in r.todo : e.file # r.file
  /\ r.pc = "tuck" => r.kind = "reapply" /\ ~r.on

RowNumbers == \A f \in Names : row[f].there => row[f].n # 0
Listings == \A d \in Calls : Listing(call[d])
Sights == \A d \in Calls, f \in Names :
            call[d].alone \/ doubts[f] = {} => Seen(call[d], f, row[f], dir[f], off[f])
Settled(f) ==
  /\ (\A d \in Calls : ~Dirty(call[d], f)) => Matches(row[f], dir[f], off[f])
  /\ \A d \in Calls : Dirty(call[d], f) => Midway(call[d], row[f], dir[f], off[f])
Undoubted == \A f \in Names : doubts[f] = {} => Settled(f)

MatchInv == RowNumbers /\ Listings /\ Sights /\ Undoubted

\* Who does not work on a name relies on nothing of it, whatever is there.
LEMMA IdleSees ==
  ASSUME NEW d \in Calls, NEW f \in Names, ~Working(d, f), NEW x, NEW y, NEW o
  PROVE  Seen(call[d], f, x, y, o) /\ ~Dirty(call[d], f)
  BY DEF Working, Seen, Dirty, DirtySteps, ReadSteps, TakenSteps

\* Nor does a request that neither reapplies nor has read a row.
LEMMA NothingSeen ==
  ASSUME NEW r, r.kind # "reapply", r.pc \notin ReadSteps \cup {"tuck", "upsert"},
         NEW f, NEW x, NEW d, NEW o
  PROVE  Seen(r, f, x, d, o)
  BY DEF Seen, ReadSteps

\* Noting a disturbance takes away from what a request may rely on.
LEMMA DisturbedSees ==
  ASSUME NEW q \in CallRecords
  PROVE  LET p == [q EXCEPT !.alone = FALSE]
         IN /\ p.alone = FALSE
            /\ Listing(q) => Listing(p)
            /\ \A f : Dirty(p, f) <=> Dirty(q, f)
            /\ \A f, x, d, o : Seen(q, f, x, d, o) => Seen(p, f, x, d, o)
            /\ \A x, d, o : Midway(q, x, d, o) => Midway(p, x, d, o)
  <1> DEFINE p == [q EXCEPT !.alone = FALSE]
  <1>1. /\ p.alone = FALSE /\ p.file = q.file /\ p.pc = q.pc /\ p.kind = q.kind /\ p.row = q.row
        /\ p.todo = q.todo /\ p.content = q.content /\ p.on = q.on
    BY DEF CallRecords
  <1> HIDE DEF p
  <1>2. Listing(q) => Listing(p)
    BY <1>1 DEF Listing
  <1>3. \A f : Dirty(p, f) <=> Dirty(q, f)
    BY <1>1 DEF Dirty
  <1>4. \A f, x, d, o : Seen(q, f, x, d, o) => Seen(p, f, x, d, o)
    BY <1>1 DEF Seen
  <1>5. \A x, d, o : Midway(q, x, d, o) => Midway(p, x, d, o)
    BY <1>1 DEF Midway
  <1> QED BY <1>1, <1>2, <1>3, <1>4, <1>5 DEF p

\* Steps that change neither rows nor files, between such that do.
LEMMA PassesMatch ==
  ASSUME IInv, MatchInv, NEW c \in Calls, NEW r \in CallRecords, Go(c, r), ModsStill,
         Listing(r), call[c].pc \notin DirtySteps, r.pc \notin DirtySteps,
         \A g \in Names : r.alone \/ doubts[g] = {} => Seen(r, g, row[g], dir[g], off[g])
  PROVE  MatchInv'
  <1>1. UNCHANGED <<row, dir, off, doubts>>
    BY DEF ModsStill
  <1>2. call'[c] = r /\ \A d \in Calls \ {c} : call'[d] = call[d]
    BY Typed DEF Go
  <1>3. RowNumbers' /\ Listings'
    BY <1>1, <1>2 DEF MatchInv, RowNumbers, Listings
  <1>4. Sights'
    BY <1>1, <1>2 DEF MatchInv, Sights
  <1>5. Undoubted'
    <2>1. \A d \in Calls, f \in Names : Dirty(call'[d], f) <=> Dirty(call[d], f) /\ d # c
      BY <1>2 DEF Dirty
    <2>2. \A f \in Names : ~Dirty(call[c], f)
      BY DEF Dirty
    <2>3. ASSUME NEW f \in Names, Settled(f) PROVE Settled(f)'
      BY <1>1, <1>2, <2>1, <2>2, <2>3 DEF Settled
    <2> QED BY <1>1, <2>3 DEF MatchInv, Undoubted
  <1> QED BY <1>3, <1>4, <1>5 DEF MatchInv

\* Steps that write under a name: what they leave is in order, if it is not in
\* doubt and nobody else works on it.
LEMMA WritesMatch ==
  ASSUME IInv, MatchInv, NEW c \in Calls, NEW r \in CallRecords, NEW f \in Names, NEW ds \in Doubts,
         Write(c, f, r, ds), call[c].file = f, r.file = f \/ r.pc \in {"idle", "look"},
         r.kind = "reapply" =>
           call[c].kind = "reapply" /\ r.todo = call[c].todo /\ r.alone = call[c].alone,
         \A g \in Names \ {f} : row'[g] = row[g] /\ dir'[g] = dir[g] /\ off'[g] = off[g],
         row'[f].there => row'[f].n # 0,
         Listing(r),
         r.alone \/ ds = {} => Seen(r, f, row'[f], dir'[f], off'[f]),
         ds = {} /\ (\A d \in Calls \ {c} : ~Working(d, f)) =>
           /\ r.pc \in DirtySteps => Midway(r, row'[f], dir'[f], off'[f])
           /\ r.pc \notin DirtySteps => Matches(row'[f], dir'[f], off'[f])
  PROVE  MatchInv'
  <1> DEFINE others == {d \in Calls \ {c} : Working(d, f)}
  <1>1. /\ call' = [d \in Calls |-> IF d = c THEN r
                                    ELSE IF d \in others THEN [call[d] EXCEPT !.alone = FALSE]
                                    ELSE call[d]]
        /\ doubts' = [doubts EXCEPT ![f] = ds \cup {x \in {"raced"} : others # {}}]
    BY DEF Write
  <1>2. /\ call'[c] = r
        /\ \A d \in others : call'[d] = [call[d] EXCEPT !.alone = FALSE]
        /\ \A d \in Calls \ {c} : d \notin others => call'[d] = call[d]
    BY <1>1
  <1>3. /\ \A g \in Names \ {f} : doubts'[g] = doubts[g]
        /\ doubts'[f] = {} => ds = {} /\ others = {}
    BY <1>1, Typed
  <1>4. ASSUME NEW d \in Calls \ {c}
        PROVE  /\ call'[d].alone => call[d].alone
               /\ d \in others => ~call'[d].alone
               /\ Listing(call[d]) => Listing(call'[d])
               /\ \A g : Dirty(call'[d], g) <=> Dirty(call[d], g)
               /\ \A g, x, y, o : Seen(call[d], g, x, y, o) => Seen(call'[d], g, x, y, o)
               /\ \A x, y, o : Midway(call[d], x, y, o) => Midway(call'[d], x, y, o)
    <2>1. call[d] \in CallRecords
      BY Typed
    <2>2. CASE d \in others
      <3> DEFINE p == [call[d] EXCEPT !.alone = FALSE]
      <3>1. /\ p.alone = FALSE
            /\ Listing(call[d]) => Listing(p)
            /\ \A g : Dirty(p, g) <=> Dirty(call[d], g)
            /\ \A g, x, y, o : Seen(call[d], g, x, y, o) => Seen(p, g, x, y, o)
            /\ \A x, y, o : Midway(call[d], x, y, o) => Midway(p, x, y, o)
        BY <2>1, DisturbedSees
      <3>2. call'[d] = p
        BY <1>2, <2>2
      <3> HIDE DEF p
      <3> QED BY <3>1, <3>2
    <2>3. CASE d \notin others
      BY <1>2, <2>3
    <2> QED BY <2>2, <2>3
  <1>5. RowNumbers'
    BY DEF MatchInv, RowNumbers
  <1>6. Listings'
    BY <1>2, <1>4 DEF MatchInv, Listings
  <1>7. Sights'
    <2>1. ASSUME NEW d \in Calls, NEW g \in Names, call'[d].alone \/ doubts'[g] = {}
          PROVE  Seen(call'[d], g, row'[g], dir'[g], off'[g])
      <3>1. CASE d = c /\ g = f
        BY <1>2, <1>3, <2>1, <3>1
      <3>2. CASE d = c /\ g # f
        <4>1. CASE r.kind # "reapply"
          BY <1>2, <3>2, <4>1 DEF Seen, ReadSteps
        <4>2. CASE r.kind = "reapply"
          <5>1. Seen(call[c], g, row[g], dir[g], off[g])
            BY <1>2, <1>3, <2>1, <3>2, <4>2 DEF MatchInv, Sights
          <5>2. Seen(r, g, row[g], dir[g], off[g])
            BY <3>2, <4>2, <5>1 DEF Seen, ReadSteps, TakenSteps
          <5> QED BY <1>2, <3>2, <5>2
        <4> QED BY <4>1, <4>2
      <3>3. CASE d # c /\ g # f
        <4>1. Seen(call[d], g, row[g], dir[g], off[g])
          BY <1>3, <1>4, <2>1, <3>3 DEF MatchInv, Sights
        <4> QED BY <1>4, <3>3, <4>1
      <3>4. CASE d # c /\ g = f
        <4>1. d \notin others
          BY <1>3, <1>4, <2>1, <3>4
        <4>2. ~Working(d, f)
          BY <3>4, <4>1
        <4>3. Seen(call[d], f, row'[f], dir'[f], off'[f])
          BY <4>2, IdleSees
        <4> QED BY <1>4, <3>4, <4>3
      <3> QED BY <3>1, <3>2, <3>3, <3>4
    <2> QED BY <2>1 DEF Sights
  <1>8. Undoubted'
    <2>1. ASSUME NEW g \in Names, g # f, doubts'[g] = {} PROVE Settled(g)'
      <3>1. Settled(g)
        BY <1>3, <2>1 DEF MatchInv, Undoubted
      <3>2. ~Dirty(call[c], g) /\ ~Dirty(call'[c], g)
        BY <1>2, <2>1 DEF Dirty, DirtySteps
      <3>3. \A d \in Calls : Dirty(call'[d], g) <=> Dirty(call[d], g)
        BY <1>4, <3>2
      <3>4. row'[g] = row[g] /\ dir'[g] = dir[g] /\ off'[g] = off[g]
        BY <2>1
      <3>5. ASSUME NEW d \in Calls, Dirty(call[d], g)
            PROVE  Midway(call'[d], row[g], dir[g], off[g])
        BY <1>4, <3>1, <3>2, <3>5 DEF Settled
      <3> QED BY <3>1, <3>3, <3>4, <3>5 DEF Settled
    <2>2. ASSUME doubts'[f] = {} PROVE Settled(f)'
      <3>1. ds = {} /\ \A d \in Calls \ {c} : ~Working(d, f)
        BY <1>3, <2>2
      <3>2. \A d \in Calls \ {c} : ~Dirty(call[d], f)
        BY <3>1, IdleSees
      <3>3. \A d \in Calls \ {c} : ~Dirty(call'[d], f)
        BY <1>4, <3>2
      <3>4. CASE r.pc \in DirtySteps
        <4>1. Dirty(call'[c], f)
          BY <1>2, <3>4 DEF Dirty, DirtySteps
        <4>2. Midway(call'[c], row'[f], dir'[f], off'[f])
          BY <1>2, <3>1, <3>4
        <4> QED BY <3>3, <4>1, <4>2 DEF Settled
      <3>5. CASE r.pc \notin DirtySteps
        <4>1. ~Dirty(call'[c], f)
          BY <1>2, <3>5 DEF Dirty
        <4> QED BY <3>1, <3>3, <3>5, <4>1 DEF Settled
      <3> QED BY <3>4, <3>5
    <2> QED BY <2>1, <2>2 DEF Undoubted
  <1> QED BY <1>5, <1>6, <1>7, <1>8 DEF MatchInv

\* A name nobody works on, or nobody but one who has not written yet, matches.
LEMMA LoneMatch ==
  ASSUME MatchInv, NEW c \in Calls, NEW f \in Names, doubts[f] = {},
         \A d \in Calls \ {c} : ~Working(d, f), ~Dirty(call[c], f)
  PROVE  Matches(row[f], dir[f], off[f])
  BY IdleSees DEF MatchInv, Undoubted, Settled

\* What a request that writes has of its name.
LEMMA OwnSight ==
  ASSUME IInv, MatchInv, NEW c \in Calls, call[c].file \in Names
  PROVE  LET f == call[c].file
         IN /\ call[c].alone \/ doubts[f] = {} => Seen(call[c], f, row[f], dir[f], off[f])
            /\ doubts[f] = {} /\ call[c].pc \in DirtySteps => Midway(call[c], row[f], dir[f], off[f])
            /\ row[f].there => row[f].n # 0 /\ row[f].content # Nothing
            /\ Listing(call[c]) /\ row[f] \in Rows /\ doubts[f] \in Doubts
  BY Typed, ContentAssumption
     DEF MatchInv, Sights, Undoubted, Settled, Dirty, RowNumbers, Listings, IInv, TypeOK, Nothing

LEMMA AtKeeps ==
  ASSUME NEW r \in CallRecords, NEW s \in Steps
  PROVE  At(r, s).row = r.row /\ At(r, s).alone = r.alone
  BY DEF At, CallRecords

LEMMA FreeSees == /\ \A f, x, d, o : Seen(Free, f, x, d, o)
                  /\ Listing(Free) /\ Free.pc = "idle" /\ Free.kind = "none"
  BY DEF Free, Seen, Listing, ReadSteps

LEMMA BeginMatch ==
  ASSUME IInv, MatchInv, NEW c \in Calls, NEW r \in CallRecords, Begin(c, r),
         r.pc \notin DirtySteps \cup ReadSteps \cup TakenSteps, r.todo = {},
         r.kind = "reapply" => r.pc = "list"
  PROVE  MatchInv'
  <1>1. Listing(r)
    BY DEF Listing, DirtySteps
  <1>2. \A f, x, d, o : Seen(r, f, x, d, o)
    BY DEF Seen, DirtySteps
  <1>3. call[c].pc \notin DirtySteps /\ Go(c, r) /\ ModsStill
    BY DEF Begin, DirtySteps
  <1> QED BY <1>1, <1>2, <1>3, PassesMatch

LEMMA AddMatch ==
  ASSUME IInv, MatchInv, NEW c \in Calls, NEW b \in Contents, AddMod(c, b)
  PROVE  MatchInv'
  <1> DEFINE r == [Free EXCEPT !.kind = "add", !.pc = "look", !.content = b, !.file = NameOf[b]]
  <1>1. r \in CallRecords
    BY FreeGood, ContentAssumption DEF CallRecords, Kinds, Steps, Files
  <1>2. r.pc = "look" /\ r.todo = {} /\ r.kind = "add"
    BY DEF Free
  <1> HIDE DEF r
  <1>3. r.pc \notin DirtySteps \cup ReadSteps \cup TakenSteps
    BY <1>2 DEF DirtySteps, ReadSteps, TakenSteps
  <1>4. Begin(c, r)
    BY DEF AddMod, r
  <1> QED BY <1>1, <1>2, <1>3, <1>4, BeginMatch

LEMMA UpdateMatch ==
  ASSUME IInv, MatchInv, NEW c \in Calls, NEW f \in Names, NEW b \in Contents, UpdateMod(c, f, b)
  PROVE  MatchInv'
  <1> DEFINE r == [Free EXCEPT !.kind = "update", !.pc = "readToRemove", !.content = b, !.file = f,
                               !.on = row[f].on]
  <1>0. row[f].on \in BOOLEAN
    BY Typed DEF Rows
  <1>1. r \in CallRecords
    <2>1. ASSUME NEW x \in BOOLEAN
          PROVE  [Free EXCEPT !.kind = "update", !.pc = "readToRemove", !.content = b, !.file = f,
                              !.on = x] \in CallRecords
      BY FreeGood DEF CallRecords, Kinds, Steps, Files
    <2> QED BY <1>0, <2>1
  <1>2. r.pc = "readToRemove" /\ r.todo = {} /\ r.kind = "update"
    BY DEF Free
  <1> HIDE DEF r
  <1>3. r.pc \notin DirtySteps \cup ReadSteps \cup TakenSteps
    BY <1>2 DEF DirtySteps, ReadSteps, TakenSteps
  <1>4. Begin(c, r)
    BY DEF UpdateMod, r
  <1> QED BY <1>1, <1>2, <1>3, <1>4, BeginMatch

LEMMA RemoveMatch ==
  ASSUME IInv, MatchInv, NEW c \in Calls, NEW f \in Names, RemoveMod(c, f)
  PROVE  MatchInv'
  <1> DEFINE r == [Free EXCEPT !.kind = "remove", !.pc = "readToRemove", !.file = f]
  <1>1. r \in CallRecords
    BY FreeGood DEF CallRecords, Kinds, Steps
  <1>2. r.pc = "readToRemove" /\ r.todo = {} /\ r.kind = "remove"
    BY DEF Free
  <1> HIDE DEF r
  <1>3. r.pc \notin DirtySteps \cup ReadSteps \cup TakenSteps
    BY <1>2 DEF DirtySteps, ReadSteps, TakenSteps
  <1>4. Begin(c, r)
    BY DEF RemoveMod, r
  <1> QED BY <1>1, <1>2, <1>3, <1>4, BeginMatch

LEMMA ToggleMatch ==
  ASSUME IInv, MatchInv, NEW c \in Calls, NEW f \in Names, NEW enabled \in BOOLEAN,
         ToggleMod(c, f, enabled)
  PROVE  MatchInv'
  <1> DEFINE r == [Free EXCEPT !.kind = "toggle", !.pc = "readToToggle", !.file = f, !.on = enabled]
  <1>1. r \in CallRecords
    BY FreeGood DEF CallRecords, Kinds, Steps
  <1>2. r.pc = "readToToggle" /\ r.todo = {} /\ r.kind = "toggle"
    BY DEF Free
  <1> HIDE DEF r
  <1>3. r.pc \notin DirtySteps \cup ReadSteps \cup TakenSteps
    BY <1>2 DEF DirtySteps, ReadSteps, TakenSteps
  <1>4. Begin(c, r)
    BY DEF ToggleMod, r
  <1> QED BY <1>1, <1>2, <1>3, <1>4, BeginMatch

LEMMA WorkMatch ==
  ASSUME IInv, MatchInv, NEW c \in Calls, Reapply(c) \/ Cleanup(c)
  PROVE  MatchInv'
  <1>1. ASSUME NEW k \in {"reapply", "cleanup"}, Begin(c, [Free EXCEPT !.kind = k, !.pc = "list"])
        PROVE  MatchInv'
    <2> DEFINE r == [Free EXCEPT !.kind = k, !.pc = "list"]
    <2>1. r \in CallRecords
      BY FreeGood DEF CallRecords, Kinds, Steps
    <2>2. r.pc = "list" /\ r.todo = {}
      BY DEF Free
    <2>3. Begin(c, r)
      BY <1>1
    <2> HIDE DEF r
    <2>4. r.pc \notin DirtySteps \cup ReadSteps \cup TakenSteps
      BY <2>2 DEF DirtySteps, ReadSteps, TakenSteps
    <2> QED BY <2>1, <2>2, <2>3, <2>4, BeginMatch
  <1> QED BY <1>1 DEF Reapply, Cleanup

\* The steps on the library, with their request before and after.
LEMMA PassesOn ==
  ASSUME IInv, MatchInv, NEW c \in Calls, NEW r \in CallRecords, Go(c, r), ModsStill,
         call[c].pc \notin DirtySteps,
         r.kind # "reapply", r.pc \notin DirtySteps \cup ReadSteps
  PROVE  MatchInv'
  <1>1. Listing(r)
    BY DEF Listing, DirtySteps
  <1>2. r.pc \notin ReadSteps \cup {"tuck", "upsert"}
    BY DEF DirtySteps
  <1>3. \A g \in Names : Seen(r, g, row[g], dir[g], off[g])
    BY <1>2, NothingSeen
  <1> QED BY <1>1, <1>3, PassesMatch

LEMMA LibraryMatch ==
  ASSUME IInv, MatchInv, NEW c \in Calls,
         Look(c) \/ Move(c) \/ Insert(c) \/ Pick(c) \/ Finish(c) \/ RemoveFile(c) \/ RemoveLib(c)
  PROVE  MatchInv'
  <1> DEFINE r == call[c]
             Q == {Free, At(r, "move"), At(r, "insert"), At(r, "pick"), At(r, "rmLib"), At(r, "next"),
                   [At(r, "check") EXCEPT !.lib = lib[r.content].n]}
  <1>1. r \in CallRecords /\ Aimed(r) /\ Careful(r) /\ Listing(r)
    BY CallFacts DEF MatchInv, Listings
  <1>2. ModsStill
    BY DEF Look, Move, Insert, Pick, Finish, RemoveFile, RemoveLib
  <1>3. CASE Finish(c)
    <2>1. Go(c, Free) /\ r.pc = "next"
      BY <1>3 DEF Finish
    <2> QED BY <1>2, <2>1, FreeGood, FreeSees, PassesOn DEF DirtySteps, ReadSteps
  <1>4. CASE ~Finish(c)
    <2>1. r.pc \in {"look", "move", "insert", "pick", "rmFile", "rmLib"}
      BY <1>4 DEF Look, Move, Insert, Pick, RemoveFile, RemoveLib
    <2>2. r.kind # "reapply" /\ r.pc \notin DirtySteps
      BY <1>1, <2>1 DEF Listing, TakenSteps, DirtySteps
    <2>3. PICK q \in {Free, At(r, "move"), At(r, "insert"), At(r, "pick"), At(r, "rmLib"), At(r, "next")}
                 \cup {p \in {[At(r, "check") EXCEPT !.lib = lib[r.content].n]} :
                         r.pc \in {"look", "pick"} /\ lib[r.content].there} : Go(c, q)
      BY <1>4 DEF Look, Move, Insert, Pick, RemoveFile, RemoveLib
    <2>4. /\ q \in CallRecords /\ q.kind # "reapply"
          /\ q.pc \in {"idle", "move", "insert", "pick", "rmLib", "next", "check"}
      <3>1. CASE q = Free
        BY <3>1, FreeGood, FreeSees
      <3>2. ASSUME NEW s \in {"move", "insert", "pick", "rmLib", "next"}
            PROVE  LET p == At(r, s)
                   IN p \in CallRecords /\ p.kind # "reapply"
                      /\ p.pc \in {"idle", "move", "insert", "pick", "rmLib", "next", "check"}
        <4>1. s \in Steps
          BY DEF Steps
        <4> QED BY <1>1, <2>2, <4>1, AtType
      <3>3. ASSUME r.pc \in {"look", "pick"}, lib[r.content].there
            PROVE  LET p == [At(r, "check") EXCEPT !.lib = lib[r.content].n]
                   IN p \in CallRecords /\ p.kind # "reapply"
                      /\ p.pc \in {"idle", "move", "insert", "pick", "rmLib", "next", "check"}
        <4>1. "check" \in Steps
          BY DEF Steps
        <4>2. At(r, "check") \in CallRecords /\ At(r, "check").kind # "reapply"
              /\ At(r, "check").pc = "check"
          BY <1>1, <2>2, <4>1, AtType
        <4>3. [At(r, "check") EXCEPT !.lib = lib[r.content].n] \in CallRecords
          BY <1>1, <3>3, LooksUp
        <4> QED BY <4>2, <4>3 DEF CallRecords
      <3> QED BY <2>3, <3>1, <3>2, <3>3
    <2>5. q.pc \notin DirtySteps \cup ReadSteps
      BY <2>4 DEF DirtySteps, ReadSteps
    <2> HIDE DEF r
    <2> QED BY <1>2, <2>2, <2>3, <2>4, <2>5, PassesOn DEF r
  <1> QED BY <1>3, <1>4

LEMMA CheckMatch == ASSUME IInv, MatchInv, NEW c \in Calls, Check(c) PROVE MatchInv'
  <1> DEFINE r == call[c]
             q == At(r, "clear")
  <1>1. r \in CallRecords /\ Aimed(r) /\ r.pc = "check" /\ ModsStill /\ r.file \in Names
    BY CallFacts DEF Check, Aimed
  <1>2. "clear" \in Steps
    BY DEF Steps
  <1>3. q \in CallRecords /\ q.pc = "clear" /\ q.kind = r.kind /\ q.file = r.file /\ q.on = r.on
        /\ q.content = r.content /\ q.todo = r.todo /\ q.alone = r.alone
    BY <1>1, <1>2, AtType, AtKeeps
  <1> HIDE DEF q
  <1>4. Go(c, Free) \/ Go(c, q)
    BY DEF Check, q
  <1>5. CASE Go(c, Free)
    BY <1>1, <1>5, FreeGood, FreeSees, PassesOn DEF DirtySteps, ReadSteps
  <1>6. CASE Go(c, q)
    <2>1. Listing(r) /\ \A g \in Names :
            r.alone \/ doubts[g] = {} => Seen(r, g, row[g], dir[g], off[g])
      BY DEF MatchInv, Listings, Sights
    <2>2. Listing(q)
      BY <1>1, <1>3, <2>1 DEF Listing, TakenSteps
    <2>3. \A g, x, d, o : Seen(r, g, x, d, o) => Seen(q, g, x, d, o)
      BY <1>1, <1>3 DEF Seen, TakenSteps, ReadSteps
    <2>4. q.pc \notin DirtySteps /\ r.pc \notin DirtySteps
      BY <1>1, <1>3 DEF DirtySteps
    <2> QED BY <1>1, <1>3, <1>6, <2>1, <2>2, <2>3, <2>4, PassesMatch
  <1> QED BY <1>4, <1>5, <1>6

\* The row that a removal or a toggle reads is the one there is.
LEMMA ReadMatch == ASSUME IInv, MatchInv, NEW c \in Calls, Read(c) PROVE MatchInv'
  <1> USE DEF Read
  <1> DEFINE r == call[c]
             q == [r EXCEPT !.pc = IF @ = "readToRemove" THEN "rmOn" ELSE "rename",
                            !.row = IF row[r.file].there THEN row[r.file].n ELSE 0]
  <1>0. CASE Excluded(r)
    <2>1. Go(c, Free) /\ ModsStill /\ r.pc \notin DirtySteps
      BY <1>0 DEF DirtySteps
    <2> QED BY <2>1, FreeGood, FreeSees, PassesOn DEF DirtySteps, ReadSteps
  <1> SUFFICES ASSUME ~Excluded(r) PROVE MatchInv'
    BY <1>0
  <1>1. r \in CallRecords /\ Aimed(r) /\ Listing(r) /\ r.pc \in {"readToRemove", "readToToggle"}
    BY CallFacts DEF MatchInv, Listings
  <1>2. r.file \in Names /\ r.kind # "reapply"
    BY <1>1 DEF Aimed, Listing, TakenSteps
  <1>3. (IF row[r.file].there THEN row[r.file].n ELSE 0) \in Nat
    BY <1>2, Typed DEF Rows
  <1>4. q \in CallRecords /\ q.pc \in {"rmOn", "rename"} /\ q.kind = r.kind /\ q.file = r.file
        /\ (row[r.file].there => q.row = row[r.file].n)
    <2> DEFINE m == IF row[r.file].there THEN row[r.file].n ELSE 0
               P(s, n) == [r EXCEPT !.pc = s, !.row = n]
    <2>1. ASSUME NEW n \in Nat, NEW s \in {"rmOn", "rename"}
          PROVE  /\ P(s, n) \in CallRecords /\ P(s, n).pc = s /\ P(s, n).kind = r.kind
                 /\ P(s, n).file = r.file /\ P(s, n).row = n
      BY <1>1 DEF CallRecords, Steps
    <2>2. q = P(IF r.pc = "readToRemove" THEN "rmOn" ELSE "rename", m)
      BY <1>1 DEF CallRecords
    <2>3. row[r.file].there => m = row[r.file].n
      OBVIOUS
    <2>4. m \in Nat
      BY <1>3
    <2> HIDE DEF P, m, q
    <2> QED BY <2>1, <2>2, <2>3, <2>4
  <1>5. Go(c, q) /\ ModsStill
    OBVIOUS
  <1> HIDE DEF q
  <1>6. Listing(q)
    BY <1>2, <1>4 DEF Listing
  <1>7. \A g \in Names : Seen(q, g, row[g], dir[g], off[g])
    BY <1>2, <1>4 DEF Seen, ReadSteps, TakenSteps
  <1>8. q.pc \notin DirtySteps /\ r.pc \notin DirtySteps
    BY <1>1, <1>4 DEF DirtySteps
  <1> QED BY <1>4, <1>5, <1>6, <1>7, <1>8, PassesMatch

\* What a reapply lists is as the rows are, one entry for each name.
LEMMA ListMatch == ASSUME IInv, MatchInv, NEW c \in Calls, List(c) PROVE MatchInv'
  <1> USE DEF List
  <1> DEFINE r == call[c]
             orphans == {Entry(NameOf[b], b, lib[b].n, Unused(b)) : b \in Orphans}
             mods == {Entry(f, row[f].content, row[f].lib, row[f].on) :
                        f \in {g \in scene.packed : row[g].there}}
             todo == IF r.kind = "cleanup" THEN orphans ELSE mods
             q == [At(r, "next") EXCEPT !.todo = todo]
  <1>0. scene.packed \subseteq Names
    BY ContentAssumption DEF IInv, TypeOK
  <1>1. r \in CallRecords /\ r.pc = "list" /\ ModsStill /\ Go(c, q)
    BY CallFacts
  <1>2. orphans \subseteq Entries
    <2>1. ASSUME NEW b \in Orphans
          PROVE  Entry(NameOf[b], b, lib[b].n, Unused(b)) \in Entries
      <3>1. NameOf[b] \in Names /\ b \in Contents /\ lib[b].n \in Nat /\ Unused(b) = TRUE
        BY ContentAssumption DEF Orphans, IInv, TypeOK, Unused
      <3> QED BY <3>1 DEF Entry, Entries
    <2> QED BY <2>1
  <1>3. /\ mods \subseteq Entries
        /\ \A e \in mods : /\ row[e.file].there /\ row[e.file].content = e.content
                           /\ row[e.file].on <=> e.on
                           /\ e = Entry(e.file, row[e.file].content, row[e.file].lib, row[e.file].on)
    <2>1. ASSUME NEW f \in Names, row[f].there
          PROVE  LET e == Entry(f, row[f].content, row[f].lib, row[f].on)
                 IN e \in Entries /\ e.file = f /\ e.content = row[f].content /\ (row[f].on <=> e.on)
      <3>1. row[f].content \in Contents /\ row[f].lib \in Nat /\ row[f].on \in BOOLEAN
        BY <2>1, Typed DEF IInv, TypeOK, Rows
      <3> QED BY <3>1 DEF Entry, Entries
    <2> QED BY <1>0, <2>1
  <1>4. todo \subseteq Entries
    BY <1>2, <1>3
  <1>5. r.kind = "reapply" => todo = mods
    OBVIOUS
  <1> HIDE DEF todo, orphans
  <1>6. q \in CallRecords /\ q.pc = "next" /\ q.kind = r.kind /\ q.todo = todo
    BY <1>1, <1>4 DEF At, CallRecords, Steps
  <1> HIDE DEF q
  <1>7. q.pc \notin DirtySteps \cup ReadSteps \cup TakenSteps /\ r.pc \notin DirtySteps
    BY <1>1, <1>6 DEF DirtySteps, ReadSteps, TakenSteps
  <1>8. Listing(q)
    <2> HIDE DEF mods
    <2>1. \A e, g \in mods : e.file = g.file => e = g
      BY <1>3
    <2> QED BY <1>5, <1>6, <1>7, <2>1 DEF Listing, TakenSteps
  <1>9. \A g \in Names : Seen(q, g, row[g], dir[g], off[g])
    <2> HIDE DEF mods
    <2> QED BY <1>3, <1>5, <1>6, <1>7 DEF Seen, TakenSteps
  <1> QED BY <1>1, <1>6, <1>7, <1>8, <1>9, PassesMatch

\* A reapply takes up a mod of which it has found no file.
LEMMA NextModMatch ==
  ASSUME IInv, MatchInv, NEW c \in Calls, NEW e \in call[c].todo, NextMod(c, e)
  PROVE  MatchInv'
  <1> USE DEF NextMod
  <1> DEFINE r == call[c]
             p == [r EXCEPT !.todo = @ \ {e}]
             q == Take(r, e, "check")
  <1>1. r \in CallRecords /\ r.pc = "next" /\ r.kind = "reapply" /\ ModsStill
    BY CallFacts
  <1>2. /\ q \in CallRecords /\ q.pc = "check" /\ q.kind = r.kind /\ q.on = e.on
        /\ q.todo = r.todo \ {e}
        /\ p \in CallRecords /\ p.pc = r.pc /\ p.kind = r.kind /\ p.file = r.file
        /\ p.todo = r.todo \ {e}
    BY <1>1, TakeType
  <1>3. q.file = e.file /\ q.content = e.content /\ q.alone = r.alone /\ p.alone = r.alone
    BY <1>1 DEF Take, CallRecords
  <1>4. Go(c, IF Present(e) THEN p ELSE q)
    OBVIOUS
  <1> HIDE DEF p, q
  <1>9. \/ Go(c, p) /\ Present(e)
        \/ Go(c, q) /\ ~Present(e)
    BY <1>4
  <1>5. Listing(r) /\ \A g \in Names :
          r.alone \/ doubts[g] = {} => Seen(r, g, row[g], dir[g], off[g])
    BY DEF MatchInv, Listings, Sights
  <1>6. r.pc \notin DirtySteps /\ p.pc \notin DirtySteps /\ q.pc \notin DirtySteps
    BY <1>1, <1>2 DEF DirtySteps
  <1>7. CASE Go(c, p)
    <2>1. Listing(p)
      BY <1>1, <1>2, <1>5 DEF Listing, TakenSteps
    <2>2. \A g, x, d, o : Seen(r, g, x, d, o) => Seen(p, g, x, d, o)
      BY <1>1, <1>2 DEF Seen, TakenSteps, ReadSteps
    <2> QED BY <1>1, <1>2, <1>3, <1>5, <1>6, <1>7, <2>1, <2>2, PassesMatch
  <1>8. CASE Go(c, q) /\ ~Present(e)
    <2>1. Listing(q)
      BY <1>1, <1>2, <1>3, <1>5 DEF Listing, TakenSteps
    <2>2. off[e.file] = Nothing
      BY <1>8 DEF Present
    <2>3. ASSUME NEW g \in Names, q.alone \/ doubts[g] = {}
          PROVE  Seen(q, g, row[g], dir[g], off[g])
      <3>1. Seen(r, g, row[g], dir[g], off[g])
        BY <1>3, <1>5, <2>3
      <3> QED BY <1>1, <1>2, <1>3, <2>2, <3>1 DEF Seen, TakenSteps, ReadSteps
    <2> QED BY <1>1, <1>2, <1>6, <1>8, <2>1, <2>3, PassesMatch
  <1> QED BY <1>7, <1>8, <1>9

LEMMA NextOrphanMatch ==
  ASSUME IInv, MatchInv, NEW c \in Calls, NEW e \in call[c].todo, NextOrphan(c, e)
  PROVE  MatchInv'
  <1> USE DEF NextOrphan
  <1> DEFINE r == call[c]
             p == [r EXCEPT !.todo = @ \ {e}]
             q == Take(r, e, "rmFile")
  <1>1. r \in CallRecords /\ r.pc = "next" /\ r.kind = "cleanup" /\ ModsStill
    BY CallFacts
  <1>2. /\ q \in CallRecords /\ q.pc = "rmFile" /\ q.kind = r.kind
        /\ p \in CallRecords /\ p.pc = r.pc /\ p.kind = r.kind
    BY <1>1, TakeType
  <1>3. Go(c, p) \/ Go(c, q)
    OBVIOUS
  <1> HIDE DEF p, q
  <1>4. r.pc \notin DirtySteps /\ p.pc \notin DirtySteps \cup ReadSteps /\ q.pc \notin DirtySteps \cup ReadSteps
    BY <1>1, <1>2 DEF DirtySteps, ReadSteps
  <1> QED BY <1>1, <1>2, <1>3, <1>4, PassesOn

\* The name is cleared, and only what is disabled still has its file.
LEMMA ClearMatch == ASSUME IInv, MatchInv, NEW c \in Calls, Clear(c) PROVE MatchInv'
  <1> DEFINE r == call[c]
             f == r.file
             q == At(r, "link")
  <1>1. r \in CallRecords /\ Aimed(r) /\ r.pc = "clear" /\ f \in Names
    BY CallFacts DEF Clear, Aimed
  <1>2. "link" \in Steps
    BY DEF Steps
  <1>3. q \in CallRecords /\ q.pc = "link" /\ q.kind = r.kind /\ q.file = f /\ q.on = r.on
        /\ q.content = r.content /\ q.todo = r.todo /\ q.alone = r.alone
    BY <1>1, <1>2, AtType, AtKeeps
  <1>4. Write(c, f, q, doubts[f]) /\ UNCHANGED <<row, off>> /\ dir' = [dir EXCEPT ![f] = Nothing]
    BY DEF Clear
  <1> HIDE DEF q
  <1>5. /\ r.alone \/ doubts[f] = {} => Seen(r, f, row[f], dir[f], off[f])
        /\ row[f].there => row[f].n # 0
        /\ Listing(r) /\ doubts[f] \in Doubts
    BY <1>1, OwnSight
  <1>6. dir'[f] = Nothing /\ \A g \in Names \ {f} : dir'[g] = dir[g]
    BY <1>1, <1>4, Typed
  <1>7. Listing(q)
    BY <1>1, <1>3, <1>5 DEF Listing, TakenSteps
  <1>8. Seen(r, f, row[f], dir[f], off[f]) => Seen(q, f, row'[f], dir'[f], off'[f])
    BY <1>1, <1>3, <1>4 DEF Seen, TakenSteps, ReadSteps
  <1>9. ASSUME doubts[f] = {}, \A d \in Calls \ {c} : ~Working(d, f)
        PROVE  Midway(q, row'[f], dir'[f], off'[f])
    <2>1. ~Dirty(r, f)
      BY <1>1 DEF Dirty, DirtySteps
    <2>2. Matches(row[f], dir[f], off[f])
      BY <1>1, <1>9, <2>1, LoneMatch
    <2> QED BY <1>3, <1>4, <2>2 DEF Midway, Matches
  <1>10. q.pc \in DirtySteps
    BY <1>3 DEF DirtySteps
  <1> HIDE DEF f
  <1> QED BY <1>1, <1>3, <1>4, <1>5, <1>6, <1>7, <1>8, <1>9, <1>10, WritesMatch DEF f

\* A link of a reapply gives an enabled mod its file back; that of an install
\* leaves the row to be written.
LEMMA LinkMatch == ASSUME IInv, MatchInv, NEW c \in Calls, Link(c) PROVE MatchInv'
  <1> DEFINE r == call[c]
             f == r.file
             ds == IF r.kind = "reapply" /\ r.on THEN Mended(r) ELSE doubts[f]
  <1>1. r \in CallRecords /\ Aimed(r) /\ r.pc = "link" /\ f \in Names
    BY CallFacts DEF Link, Aimed
  <1>2. /\ Write(c, f, AfterLink(r), ds) /\ UNCHANGED <<row, off>>
        /\ dir' = [dir EXCEPT ![f] = r.content]
    BY DEF Link
  <1>3. /\ r.alone \/ doubts[f] = {} => Seen(r, f, row[f], dir[f], off[f])
        /\ doubts[f] = {} => Midway(r, row[f], dir[f], off[f])
        /\ row[f].there => row[f].n # 0
        /\ Listing(r) /\ doubts[f] \in Doubts
    BY <1>1, OwnSight DEF DirtySteps
  <1>4. dir'[f] = r.content /\ \A g \in Names \ {f} : dir'[g] = dir[g]
    BY <1>1, <1>2, Typed
  <1>5. PICK s \in {"upsert", "next", "tuck"} :
           /\ AfterLink(r) = At(r, s)
           /\ s = "upsert" <=> r.kind # "reapply"
           /\ s = "next" => r.kind = "reapply" /\ r.on
           /\ s = "tuck" => r.kind = "reapply" /\ ~r.on
    BY DEF AfterLink
  <1> DEFINE q == At(r, s)
  <1>6. s \in Steps
    BY DEF Steps
  <1>7. q \in CallRecords /\ q.pc = s /\ q.kind = r.kind /\ q.file = f /\ q.on = r.on
        /\ q.content = r.content /\ q.todo = r.todo /\ q.alone = r.alone
    BY <1>1, <1>6, AtType, AtKeeps
  <1>8. ds \in Doubts /\ (ds = {} => doubts[f] = {} \/ (r.alone /\ s # "upsert"))
    BY <1>3, <1>5 DEF Mended, Doubts
  <1>9. Write(c, f, q, ds)
    BY <1>2, <1>5
  <1> HIDE DEF q, ds
  <1>10. Listing(q)
    BY <1>1, <1>3, <1>5, <1>7 DEF Listing, TakenSteps
  <1>11. Seen(r, f, row[f], dir[f], off[f]) => Seen(q, f, row'[f], dir'[f], off'[f])
    BY <1>1, <1>2, <1>3, <1>4, <1>5, <1>7 DEF Seen, Listing, TakenSteps, ReadSteps
  <1>12. ASSUME ds = {}
         PROVE  /\ q.pc \in DirtySteps => Midway(q, row'[f], dir'[f], off'[f])
                /\ q.pc \notin DirtySteps => Matches(row'[f], dir'[f], off'[f])
    <2>1. CASE s = "upsert"
      <3>1. doubts[f] = {}
        BY <1>8, <1>12, <2>1
      <3> QED BY <1>1, <1>2, <1>3, <1>4, <1>5, <1>7, <2>1, <3>1 DEF Midway, DirtySteps
    <2>2. CASE s = "tuck"
      BY <1>7, <2>2 DEF Midway, DirtySteps
    <2>3. CASE s = "next"
      <3>1. Seen(r, f, row[f], dir[f], off[f])
        BY <1>3, <1>8, <1>12
      <3>2. row[f].there /\ row[f].content = r.content /\ row[f].on /\ off[f] = Nothing
        BY <1>1, <1>5, <2>3, <3>1 DEF Seen, TakenSteps
      <3>3. Matches(row'[f], dir'[f], off'[f])
        BY <1>2, <1>4, <3>2 DEF Matches, IfOn, IfOff
      <3> QED BY <1>7, <2>3, <3>3 DEF DirtySteps
    <2> QED BY <2>1, <2>2, <2>3
  <1>13. r.kind = "reapply" => q.todo = r.todo /\ q.alone = r.alone
    BY <1>7
  <1>14. q.alone \/ ds = {} => Seen(q, f, row'[f], dir'[f], off'[f])
    BY <1>3, <1>7, <1>8, <1>11
  <1> HIDE DEF f
  <1> QED BY <1>1, <1>2, <1>3, <1>4, <1>7, <1>8, <1>9, <1>10, <1>12, <1>14, WritesMatch DEF f

\* What leaves a name in doubt has nothing to keep there.
LEMMA DoubtfulMatch ==
  ASSUME IInv, MatchInv, NEW c \in Calls, NEW ds \in Doubts, ds # {}, call[c].file \in Names,
         Write(c, call[c].file, Free, ds), UNCHANGED <<row, dir, off>>
  PROVE  MatchInv'
  <1>1. row[call[c].file].there => row[call[c].file].n # 0
    BY OwnSight
  <1> QED BY <1>1, FreeGood, FreeSees, WritesMatch

LEMMA NoLinkMatch == ASSUME IInv, MatchInv, NEW c \in Calls, NoLink(c) PROVE MatchInv'
  <1>1. call[c].file \in Names /\ Write(c, call[c].file, Free, doubts[call[c].file] \cup {"torn"})
        /\ UNCHANGED <<row, dir, off>>
    BY CallFacts DEF NoLink, Aimed
  <1>2. doubts[call[c].file] \cup {"torn"} \in Doubts
    BY <1>1, Typed DEF Doubts
  <1> QED BY <1>1, <1>2, DoubtfulMatch

LEMMA FailsMatch == ASSUME IInv, MatchInv, NEW c \in Calls, StepFails(c) PROVE MatchInv'
  <1> DEFINE r == call[c]
  <1>1. r \in CallRecords /\ Aimed(r) /\ Listing(r) /\ UNCHANGED <<row, dir, off>>
    BY CallFacts DEF StepFails, MatchInv, Listings
  <1>2. CASE r.pc \in Changes
    <2>1. r.file \in Names /\ Write(c, r.file, Free, doubts[r.file] \cup {"torn"})
      BY <1>1, <1>2 DEF StepFails, Aimed, Changes
    <2>2. doubts[r.file] \cup {"torn"} \in Doubts
      BY <2>1, Typed DEF Doubts
    <2> QED BY <1>1, <2>1, <2>2, DoubtfulMatch
  <1>3. CASE r.pc \notin Changes
    <2>1. ModsStill /\ r.pc \notin DirtySteps
      BY <1>1, <1>3 DEF StepFails, ModsStill, Changes, DirtySteps
    <2>2. \/ Go(c, Free)
          \/ r.pc \in {"rmFile", "rmLib"} /\ Go(c, At(r, "next"))
      BY <1>3 DEF StepFails
    <2>3. CASE Go(c, Free)
      BY <2>1, <2>3, FreeGood, FreeSees, PassesOn DEF DirtySteps, ReadSteps
    <2>4. CASE r.pc \in {"rmFile", "rmLib"} /\ Go(c, At(r, "next"))
      <3>1. "next" \in Steps /\ r.kind # "reapply"
        BY <1>1, <2>4 DEF Steps, Listing, TakenSteps
      <3>2. At(r, "next") \in CallRecords /\ At(r, "next").pc = "next" /\ At(r, "next").kind = r.kind
        BY <1>1, <3>1, AtType
      <3>3. "next" \notin DirtySteps \cup ReadSteps
        BY DEF DirtySteps, ReadSteps
      <3> QED BY <2>1, <2>4, <3>1, <3>2, <3>3, PassesOn
    <2> QED BY <2>2, <2>3, <2>4
  <1> QED BY <1>2, <1>3

\* The row that is written refers to the file that was linked.
LEMMA UpsertMatch == ASSUME IInv, MatchInv, NEW c \in Calls, Upsert(c) PROVE MatchInv'
  <1> DEFINE r == call[c]
             f == r.file
             old == row[f]
             ds == {x \in doubts[f] : ~r.alone} \cup {x \in {"overlaid"} : Overlaid(f)}
             again == [At(r, "readToToggle") EXCEPT !.alone = TRUE]
             q == IF r.kind = "update" /\ ~r.on THEN again ELSE Free
  <1>1. r \in CallRecords /\ Aimed(r) /\ r.pc = "upsert" /\ f \in Names
    BY CallFacts DEF Upsert, Aimed
  <1>2. /\ Write(c, f, q, ds) /\ UNCHANGED <<dir, off>>
        /\ row' = [row EXCEPT ![f] = Upserted(r)]
    BY DEF Upsert
  <1>3. /\ r.alone \/ doubts[f] = {} => Seen(r, f, row[f], dir[f], off[f])
        /\ row[f].there => row[f].n # 0
        /\ Listing(r) /\ doubts[f] \in Doubts /\ old \in Rows
    BY <1>1, OwnSight DEF DirtySteps
  <1>4. row'[f] = Upserted(r) /\ \A g \in Names \ {f} : row'[g] = row[g]
    BY <1>1, <1>2, Typed
  <1>5. /\ Upserted(r).there /\ Upserted(r).content = r.content /\ Upserted(r).n # 0
        /\ old.there => (Upserted(r).on <=> old.on)
        /\ ~old.there => Upserted(r).on
    <2>1. CASE old.there
      BY <1>3, <2>1 DEF Upserted, Rows
    <2>2. CASE ~old.there
      BY <1>3, <2>2 DEF Upserted, Rows
    <2> QED BY <2>1, <2>2
  <1>6. again \in CallRecords /\ again.pc = "readToToggle" /\ again.kind = r.kind /\ again.file = f
    <2>1. "readToToggle" \in Steps
      BY DEF Steps
    <2>2. At(r, "readToToggle") \in CallRecords /\ At(r, "readToToggle").pc = "readToToggle"
          /\ At(r, "readToToggle").kind = r.kind /\ At(r, "readToToggle").file = f
      BY <1>1, <2>1, AtType
    <2> QED BY <2>2 DEF CallRecords
  <1>7. q \in CallRecords /\ q.pc \in {"readToToggle", "idle"} /\ q.kind # "reapply"
        /\ (q.file = f \/ q.pc = "idle")
    BY <1>1, <1>3, <1>6, FreeGood, FreeSees DEF Listing, TakenSteps
  <1> HIDE DEF q
  <1>8. q.pc \notin DirtySteps \cup ReadSteps \cup {"tuck", "upsert"}
    BY <1>7 DEF DirtySteps, ReadSteps
  <1>9. Listing(q) /\ Seen(q, f, row'[f], dir'[f], off'[f])
    BY <1>7, <1>8, NothingSeen DEF Listing
  <1>10. ds \in Doubts
    BY <1>3 DEF Doubts
  <1>11. ASSUME ds = {}
         PROVE  Matches(row'[f], dir'[f], off'[f])
    <2>1. (r.alone \/ doubts[f] = {}) /\ off[f] = Nothing /\ ~(old.there /\ ~old.on)
      BY <1>11 DEF Overlaid
    <2>2. dir[f] = r.content
      BY <1>1, <1>3, <2>1 DEF Seen
    <2>3. Upserted(r).on
      BY <1>5, <2>1
    <2> QED BY <1>2, <1>4, <1>5, <2>1, <2>2, <2>3 DEF Matches, IfOn, IfOff
  <1> HIDE DEF ds, old, f
  <1> QED BY <1>1, <1>2, <1>4, <1>5, <1>7, <1>8, <1>9, <1>10, <1>11, WritesMatch DEF f

\* Whatever a removal takes, it may rely on what it has read and removed.
LEMMA RemoveFilesMatch ==
  ASSUME IInv, MatchInv, NEW c \in Calls, RemoveOn(c) \/ RemoveOff(c)
  PROVE  MatchInv'
  <1> DEFINE r == call[c]
             f == r.file
             s == IF r.pc = "rmOn" THEN "rmOff" ELSE "rmRow"
             q == At(r, s)
  <1>1. r \in CallRecords /\ Aimed(r) /\ r.pc \in {"rmOn", "rmOff"} /\ f \in Names
    BY CallFacts DEF RemoveOn, RemoveOff, Aimed
  <1>2. Write(c, f, q, doubts[f]) /\ UNCHANGED row
    BY DEF RemoveOn, RemoveOff
  <1>3. /\ r.alone \/ doubts[f] = {} => Seen(r, f, row[f], dir[f], off[f])
        /\ row[f].there => row[f].n # 0
        /\ Listing(r) /\ doubts[f] \in Doubts
    BY <1>1, OwnSight
  <1>4. /\ \A g \in Names \ {f} : dir'[g] = dir[g] /\ off'[g] = off[g]
        /\ r.pc = "rmOn" => dir'[f] = Nothing
        /\ r.pc = "rmOff" => off'[f] = Nothing /\ dir'[f] = dir[f]
    BY <1>1, Typed DEF RemoveOn, RemoveOff
  <1>5. s \in Steps /\ s \in {"rmOff", "rmRow"} /\ (s = "rmRow" <=> r.pc = "rmOff")
    BY <1>1 DEF Steps
  <1>6. q \in CallRecords /\ q.pc = s /\ q.kind = r.kind /\ q.file = f /\ q.row = r.row
        /\ q.todo = r.todo /\ q.alone = r.alone
    BY <1>1, <1>5, AtType, AtKeeps
  <1> HIDE DEF q, s
  <1>7. r.kind # "reapply"
    BY <1>1, <1>3 DEF Listing, TakenSteps
  <1>8. Listing(q)
    BY <1>5, <1>6, <1>7 DEF Listing
  <1>9. Seen(r, f, row[f], dir[f], off[f]) => Seen(q, f, row'[f], dir'[f], off'[f])
    BY <1>1, <1>2, <1>4, <1>5, <1>6, <1>7 DEF Seen, ReadSteps
  <1>10. q.pc \in DirtySteps /\ Midway(q, row'[f], dir'[f], off'[f])
    BY <1>5, <1>6 DEF DirtySteps, Midway
  <1> HIDE DEF f
  <1> QED BY <1>1, <1>2, <1>3, <1>4, <1>6, <1>7, <1>8, <1>9, <1>10, WritesMatch DEF f

\* A removal that nobody disturbed, or of a name in no doubt, leaves nothing.
LEMMA RemoveRowMatch == ASSUME IInv, MatchInv, NEW c \in Calls, RemoveRow(c) PROVE MatchInv'
  <1> DEFINE r == call[c]
             f == r.file
             ds == IF r.alone THEN {} ELSE doubts[f]
             q == AfterRemoval(r)
             less == [row EXCEPT ![f].there = FALSE]
  <1>1. r \in CallRecords /\ Aimed(r) /\ Careful(r) /\ r.pc = "rmRow" /\ f \in Names
    BY CallFacts DEF RemoveRow, Aimed
  <1>2. Write(c, f, q, ds) /\ UNCHANGED <<dir, off>> /\ row' = IF Still(r) THEN less ELSE row
    BY DEF RemoveRow
  <1>3. /\ r.alone \/ doubts[f] = {} => Seen(r, f, row[f], dir[f], off[f])
        /\ row[f].there => row[f].n # 0
        /\ Listing(r) /\ doubts[f] \in Doubts /\ row[f] \in Rows
    BY <1>1, OwnSight
  <1>4. (less[f]).there = FALSE /\ \A g \in Names \ {f} : less[g] = row[g]
    BY <1>1, <1>3, Typed DEF Rows
  <1> HIDE DEF less
  <1>5. /\ \A g \in Names \ {f} : row'[g] = row[g]
        /\ row'[f].there => row[f].there /\ row'[f] = row[f] /\ ~Still(r)
    BY <1>2, <1>4
  <1>6. q \in CallRecords /\ q.pc \in {"look", "idle"} /\ q.kind # "reapply"
    <2>1. CASE r.kind = "update"
      <3>1. NameOf[r.content] \in Names
        BY <1>1, <2>1, ContentAssumption DEF Aimed
      <3> QED BY <1>1, <2>1, <3>1 DEF AfterRemoval, CallRecords, Steps
    <2>2. CASE r.kind # "update"
      BY <2>2, FreeGood, FreeSees DEF AfterRemoval
    <2> QED BY <2>1, <2>2
  <1> HIDE DEF q
  <1>7. q.pc \notin DirtySteps \cup ReadSteps \cup {"tuck", "upsert"}
    BY <1>6 DEF DirtySteps, ReadSteps
  <1>8. Listing(q) /\ Seen(q, f, row'[f], dir'[f], off'[f])
    BY <1>6, <1>7, NothingSeen DEF Listing
  <1>9. ds \in Doubts
    BY <1>3 DEF Doubts
  <1>10. ASSUME ds = {}
         PROVE  Matches(row'[f], dir'[f], off'[f])
    <2>1. Seen(r, f, row[f], dir[f], off[f])
      BY <1>3, <1>10
    <2>2. dir[f] = Nothing /\ off[f] = Nothing /\ (row[f].there => r.row = row[f].n)
      BY <1>1, <2>1 DEF Seen, ReadSteps
    <2>3. ~row'[f].there
      BY <1>3, <1>5, <2>2 DEF Still
    <2> QED BY <1>2, <2>2, <2>3 DEF Matches, IfOn, IfOff
  <1> HIDE DEF ds, f
  <1>11. row'[f].there => row'[f].n # 0
    BY <1>3, <1>5 DEF f
  <1> QED BY <1>1, <1>2, <1>5, <1>6, <1>7, <1>8, <1>9, <1>10, <1>11, WritesMatch DEF f

\* The file goes where the flag that will be written has it.
LEMMA RenameMatch == ASSUME IInv, MatchInv, NEW c \in Calls, Rename(c) PROVE MatchInv'
  <1> DEFINE r == call[c]
             f == r.file
             q == At(r, "flag")
  <1>1. r \in CallRecords /\ Aimed(r) /\ r.pc = "rename" /\ f \in Names
    BY CallFacts DEF Rename, Aimed
  <1>2. Write(c, f, q, doubts[f]) /\ UNCHANGED row
    BY DEF Rename
  <1>3. /\ r.alone \/ doubts[f] = {} => Seen(r, f, row[f], dir[f], off[f])
        /\ row[f].there => row[f].n # 0 /\ row[f].content # Nothing
        /\ Listing(r) /\ doubts[f] \in Doubts
    BY <1>1, OwnSight
  <1>4. /\ \A g \in Names \ {f} : dir'[g] = dir[g] /\ off'[g] = off[g]
        /\ r.on /\ off[f] # Nothing => dir'[f] = off[f] /\ off'[f] = Nothing
        /\ ~r.on /\ dir[f] # Nothing => off'[f] = dir[f] /\ dir'[f] = Nothing
        /\ ~(r.on /\ off[f] # Nothing) /\ ~(~r.on /\ dir[f] # Nothing)
             => dir'[f] = dir[f] /\ off'[f] = off[f]
    BY <1>1, Typed DEF Rename
  <1>5. "flag" \in Steps
    BY DEF Steps
  <1>6. q \in CallRecords /\ q.pc = "flag" /\ q.kind = r.kind /\ q.file = f /\ q.row = r.row
        /\ q.todo = r.todo /\ q.alone = r.alone /\ q.on = r.on
    BY <1>1, <1>5, AtType, AtKeeps
  <1> HIDE DEF q
  <1>7. r.kind # "reapply"
    BY <1>1, <1>3 DEF Listing, TakenSteps
  <1>8. Listing(q)
    BY <1>6, <1>7 DEF Listing
  <1>9. Seen(r, f, row[f], dir[f], off[f]) => Seen(q, f, row'[f], dir'[f], off'[f])
    BY <1>1, <1>2, <1>6, <1>7 DEF Seen, ReadSteps
  <1>10. ASSUME doubts[f] = {}, \A d \in Calls \ {c} : ~Working(d, f)
         PROVE  Midway(q, row'[f], dir'[f], off'[f])
    <2>1. ~Dirty(r, f)
      BY <1>1 DEF Dirty, DirtySteps
    <2>2. Matches(row[f], dir[f], off[f])
      BY <1>1, <1>10, <2>1, LoneMatch
    <2>3. dir'[f] = IfOn(row[f], r.on) /\ off'[f] = IfOff(row[f], r.on)
      <3>1. CASE ~row[f].there
        BY <1>4, <2>2, <3>1 DEF Matches, IfOn, IfOff
      <3>2. CASE row[f].there
        BY <1>3, <1>4, <2>2, <3>2 DEF Matches, IfOn, IfOff
      <3> QED BY <3>1, <3>2
    <2> QED BY <1>2, <1>6, <2>3 DEF Midway
  <1>11. q.pc \in DirtySteps
    BY <1>6 DEF DirtySteps
  <1> HIDE DEF f
  <1> QED BY <1>1, <1>2, <1>3, <1>4, <1>6, <1>7, <1>8, <1>9, <1>10, <1>11, WritesMatch DEF f

\* And the flag follows.
LEMMA FlagMatch == ASSUME IInv, MatchInv, NEW c \in Calls, Flag(c) PROVE MatchInv'
  <1> DEFINE r == call[c]
             f == r.file
             set == [row EXCEPT ![f].on = r.on]
  <1>1. r \in CallRecords /\ Aimed(r) /\ r.pc = "flag" /\ f \in Names
    BY CallFacts DEF Flag, Aimed
  <1>2. Write(c, f, Free, doubts[f]) /\ UNCHANGED <<dir, off>> /\ row' = IF Still(r) THEN set ELSE row
    BY DEF Flag
  <1>3. /\ doubts[f] = {} => /\ Seen(r, f, row[f], dir[f], off[f])
                             /\ Midway(r, row[f], dir[f], off[f])
        /\ row[f].there => row[f].n # 0
        /\ doubts[f] \in Doubts /\ row[f] \in Rows
    BY <1>1, OwnSight DEF DirtySteps
  <1>4. /\ \A g \in Names \ {f} : set[g] = row[g]
        /\ set[f].there = row[f].there /\ set[f].content = row[f].content /\ set[f].n = row[f].n
        /\ set[f].on <=> r.on
    <2>1. ASSUME NEW x \in BOOLEAN
          PROVE  LET s == [row EXCEPT ![f].on = x]
                 IN /\ \A g \in Names \ {f} : s[g] = row[g]
                    /\ s[f].there = row[f].there /\ s[f].content = row[f].content /\ s[f].n = row[f].n
                    /\ s[f].on = x
      BY <1>1, <1>3, Typed DEF Rows
    <2>2. r.on \in BOOLEAN
      BY <1>1 DEF CallRecords
    <2> QED BY <2>1, <2>2
  <1> HIDE DEF set
  <1>5. /\ \A g \in Names \ {f} : row'[g] = row[g]
        /\ row'[f].there <=> row[f].there
        /\ row'[f].content = row[f].content /\ row'[f].n = row[f].n
        /\ Still(r) => (row'[f].on <=> r.on)
    BY <1>2, <1>4
  <1>6. ASSUME doubts[f] = {}
        PROVE  Matches(row'[f], dir'[f], off'[f])
    <2>1. dir[f] = IfOn(row[f], r.on) /\ off[f] = IfOff(row[f], r.on)
      BY <1>1, <1>3, <1>6 DEF Midway
    <2>2. row[f].there => Still(r)
      BY <1>1, <1>3, <1>6 DEF Seen, ReadSteps, Still
    <2> QED BY <1>2, <1>5, <2>1, <2>2 DEF Matches, IfOn, IfOff
  <1> HIDE DEF f
  <1>7. row'[f].there => row'[f].n # 0
    BY <1>3, <1>5 DEF f
  <1>8. /\ Seen(Free, f, row'[f], dir'[f], off'[f]) /\ Listing(Free)
        /\ Free.pc = "idle" /\ Free.kind # "reapply" /\ Free.pc \notin DirtySteps
    BY FreeSees DEF DirtySteps
  <1>9. /\ \A g \in Names \ {f} : row'[g] = row[g] /\ dir'[g] = dir[g] /\ off'[g] = off[g]
        /\ call[c].file = f /\ f \in Names /\ doubts[f] \in Doubts
    BY <1>1, <1>2, <1>3, <1>5 DEF f
  <1> QED BY <1>2, <1>6, <1>7, <1>8, <1>9, FreeGood, WritesMatch

\* A disabled mod is put back under its other name.
LEMMA TuckMatch == ASSUME IInv, MatchInv, NEW c \in Calls, Tuck(c) PROVE MatchInv'
  <1> DEFINE r == call[c]
             f == r.file
             q == At(r, "next")
  <1>1. r \in CallRecords /\ Aimed(r) /\ r.pc = "tuck" /\ f \in Names
    BY CallFacts DEF Tuck, Aimed
  <1>2. UNCHANGED row /\ dir' = [dir EXCEPT ![f] = Nothing]
    BY DEF Tuck
  <1>3. /\ r.alone \/ doubts[f] = {} => Seen(r, f, row[f], dir[f], off[f])
        /\ row[f].there => row[f].n # 0 /\ row[f].content # Nothing
        /\ Listing(r) /\ doubts[f] \in Doubts
    BY <1>1, OwnSight
  <1>4. dir'[f] = Nothing /\ \A g \in Names \ {f} : dir'[g] = dir[g]
    BY <1>1, <1>2, Typed
  <1>5. Seen(r, f, row[f], dir[f], off[f]) =>
          row[f].there /\ row[f].content = r.content /\ ~row[f].on /\ dir[f] = r.content
    BY <1>1, <1>3 DEF Seen, Listing, TakenSteps
  <1>6. CASE dir[f] = Nothing
    <2>1. UNCHANGED off /\ Write(c, f, Free, doubts[f])
      BY <1>6 DEF Tuck
    <2>2. doubts[f] # {}
      BY <1>3, <1>5, <1>6
    <2> HIDE DEF f
    <2> QED BY <1>1, <1>2, <1>3, <1>4, <2>1, <2>2, FreeGood, FreeSees, WritesMatch DEF f
  <1>7. CASE dir[f] # Nothing
    <2>1. off' = [off EXCEPT ![f] = dir[f]] /\ Write(c, f, q, Mended(r))
      BY <1>7 DEF Tuck
    <2>2. off'[f] = dir[f] /\ \A g \in Names \ {f} : off'[g] = off[g]
      BY <1>1, <2>1, Typed
    <2>3. "next" \in Steps
      BY DEF Steps
    <2>4. q \in CallRecords /\ q.pc = "next" /\ q.kind = r.kind /\ q.file = f
          /\ q.todo = r.todo /\ q.alone = r.alone
      BY <1>1, <2>3, AtType, AtKeeps
    <2>5. Mended(r) \in Doubts /\ (Mended(r) = {} => doubts[f] = {} \/ r.alone)
      BY <1>3 DEF Mended, Doubts
    <2> HIDE DEF q
    <2>6. Listing(q)
      BY <1>1, <1>3, <2>4 DEF Listing, TakenSteps
    <2>7. Seen(q, f, row'[f], dir'[f], off'[f])
      BY <1>1, <1>3, <2>4 DEF Seen, Listing, TakenSteps, ReadSteps
    <2>8. ASSUME Mended(r) = {}
          PROVE  Matches(row'[f], dir'[f], off'[f])
      BY <1>2, <1>3, <1>4, <1>5, <2>2, <2>5, <2>8 DEF Matches, IfOn, IfOff
    <2>9. q.pc \notin DirtySteps /\ (r.kind = "reapply")
      BY <1>1, <1>3, <2>4 DEF DirtySteps, Listing
    <2> HIDE DEF f
    <2> QED BY <1>1, <1>2, <1>3, <1>4, <2>1, <2>2, <2>4, <2>5, <2>6, <2>7, <2>8, <2>9, WritesMatch DEF f
  <1> QED BY <1>6, <1>7

\* Other hands cast doubt on the name, and disturb who works on it.
LEMMA MeddledMatch ==
  ASSUME IInv, MatchInv, NEW f \in Names, NEW x \in {"lost", "strange"}, Meddled(f, x),
         \A g \in Names \ {f} : dir'[g] = dir[g] /\ off'[g] = off[g]
  PROVE  MatchInv'
  <1>1. /\ call' = [d \in Calls |-> IF Working(d, f) THEN [call[d] EXCEPT !.alone = FALSE] ELSE call[d]]
        /\ doubts' = [doubts EXCEPT ![f] = @ \cup {x}] /\ row' = row
    BY DEF Meddled
  <1>2. /\ doubts'[f] # {}
        /\ \A g \in Names \ {f} : doubts'[g] = doubts[g] /\ dir'[g] = dir[g] /\ off'[g] = off[g]
    BY <1>1, Typed
  <1>3. ASSUME NEW d \in Calls
        PROVE  /\ call'[d].alone => call[d].alone
               /\ Working(d, f) => ~call'[d].alone
               /\ Listing(call[d]) => Listing(call'[d])
               /\ \A g : Dirty(call'[d], g) <=> Dirty(call[d], g)
               /\ \A g, z, y, o : Seen(call[d], g, z, y, o) => Seen(call'[d], g, z, y, o)
               /\ \A z, y, o : Midway(call[d], z, y, o) => Midway(call'[d], z, y, o)
    <2>1. call[d] \in CallRecords
      BY Typed
    <2>2. CASE Working(d, f)
      <3> DEFINE p == [call[d] EXCEPT !.alone = FALSE]
      <3>1. /\ p.alone = FALSE
            /\ Listing(call[d]) => Listing(p)
            /\ \A g : Dirty(p, g) <=> Dirty(call[d], g)
            /\ \A g, z, y, o : Seen(call[d], g, z, y, o) => Seen(p, g, z, y, o)
            /\ \A z, y, o : Midway(call[d], z, y, o) => Midway(p, z, y, o)
        BY <2>1, DisturbedSees
      <3>2. call'[d] = p
        BY <1>1, <2>2
      <3> HIDE DEF p
      <3> QED BY <3>1, <3>2
    <2>3. CASE ~Working(d, f)
      BY <1>1, <2>3
    <2> QED BY <2>2, <2>3
  <1>4. RowNumbers' /\ Listings'
    BY <1>1, <1>3 DEF MatchInv, RowNumbers, Listings
  <1>5. ASSUME NEW d \in Calls, NEW g \in Names, call'[d].alone \/ doubts'[g] = {}
        PROVE  Seen(call'[d], g, row'[g], dir'[g], off'[g])
    <2>1. CASE g = f
      <3>1. ~Working(d, f)
        BY <1>2, <1>3, <1>5, <2>1
      <3>2. Seen(call[d], f, row'[f], dir'[f], off'[f])
        BY <3>1, IdleSees
      <3> QED BY <1>3, <2>1, <3>2
    <2>2. CASE g # f
      <3>1. Seen(call[d], g, row[g], dir[g], off[g])
        BY <1>2, <1>3, <1>5, <2>2 DEF MatchInv, Sights
      <3> QED BY <1>1, <1>2, <1>3, <2>2, <3>1
    <2> QED BY <2>1, <2>2
  <1>6. ASSUME NEW g \in Names, doubts'[g] = {}
        PROVE  Settled(g)'
    <2>1. g # f /\ Settled(g)
      BY <1>2, <1>6 DEF MatchInv, Undoubted
    <2> QED BY <1>1, <1>2, <1>3, <2>1 DEF Settled
  <1> QED BY <1>4, <1>5, <1>6 DEF MatchInv, Sights, Undoubted

LEMMA DroppedMatch == ASSUME IInv, MatchInv, NEW f \in Names, Dropped(f) PROVE MatchInv'
  <1>1. /\ Meddled(f, "lost")
        /\ \A g \in Names \ {f} : dir'[g] = dir[g] /\ off'[g] = off[g]
    BY Typed DEF Dropped
  <1> QED BY <1>1, MeddledMatch

LEMMA PlacedMatch ==
  ASSUME IInv, MatchInv, NEW b \in Contents, NEW enabled \in BOOLEAN, Placed(b, enabled)
  PROVE  MatchInv'
  <1>1. NameOf[b] \in Names
    BY ContentAssumption
  <1>2. /\ Meddled(NameOf[b], "strange")
        /\ \A g \in Names \ {NameOf[b]} : dir'[g] = dir[g] /\ off'[g] = off[g]
    BY <1>1, Typed DEF Placed
  <1> QED BY <1>1, <1>2, MeddledMatch

LEMMA InitMatch == Init => MatchInv
  <1> SUFFICES ASSUME Init PROVE MatchInv
    OBVIOUS
  <1>1. \A d \in Calls : call[d] = Free
    BY DEF Init
  <1>2. ASSUME NEW f \in Names
        PROVE  /\ doubts[f] = {} => Matches(row[f], dir[f], off[f])
               /\ row[f].there => row[f].n # 0
    <2> USE DEF Init
    <2>1. PICK mod, spare, stray \in scene.uses \cup {Nothing}, enabled, strayOn \in BOOLEAN :
            LET has(g) == mod # Nothing /\ NameOf[mod] = g
                found(g) == stray # Nothing /\ NameOf[stray] = g /\ ~has(g)
                kept == {mod, spare} \ {Nothing}
            IN /\ stored = {FileOf[c] : c \in kept}
               /\ lib = [c \in Contents |-> [n |-> IF c \in kept THEN 1 ELSE 0, there |-> c \in kept]]
               /\ row = [g \in Names |->
                    IF has(g) THEN [n |-> 1, there |-> TRUE, content |-> mod, lib |-> 1, on |-> enabled]
                    ELSE [n |-> 0, there |-> FALSE, content |-> Nothing, lib |-> 0, on |-> TRUE]]
               /\ dir = [g \in Names |-> IF has(g) /\ enabled THEN mod
                                         ELSE IF found(g) /\ strayOn THEN stray ELSE Nothing]
               /\ off = [g \in Names |-> IF has(g) /\ ~enabled THEN mod
                                         ELSE IF found(g) /\ ~strayOn THEN stray ELSE Nothing]
               /\ doubts = [g \in Names |-> {x \in {"strange"} : found(g)}]
      BY Zenon
    <2> HIDE DEF Init
    <2> DEFINE found == stray # Nothing /\ NameOf[stray] = f /\ ~(mod # Nothing /\ NameOf[mod] = f)
    <2>2. CASE mod # Nothing /\ NameOf[mod] = f
      <3>1. row[f] = [n |-> 1, there |-> TRUE, content |-> mod, lib |-> 1, on |-> enabled]
        BY <2>1, <2>2
      <3>2. dir[f] = (IF enabled THEN mod ELSE Nothing) /\ off[f] = (IF ~enabled THEN mod ELSE Nothing)
        BY <2>1, <2>2
      <3>3. row[f].there /\ row[f].n = 1 /\ row[f].content = mod /\ row[f].on = enabled
        BY <3>1
      <3> QED BY <3>2, <3>3 DEF Matches, IfOn, IfOff
    <2>3. CASE ~(mod # Nothing /\ NameOf[mod] = f)
      <3>1. row[f] = [n |-> 0, there |-> FALSE, content |-> Nothing, lib |-> 0, on |-> TRUE]
        BY <2>1, <2>3
      <3>2. doubts[f] = {x \in {"strange"} : found}
        BY <2>1
      <3>3. found => doubts[f] # {}
        BY <3>2
      <3>4. ~found => dir[f] = Nothing /\ off[f] = Nothing
        BY <2>1, <2>3
      <3> QED BY <3>1, <3>3, <3>4 DEF Matches, IfOn, IfOff
    <2> QED BY <2>2, <2>3
  <1>3. \A d \in Calls, f \in Names : ~Dirty(call[d], f)
    BY <1>1, FreeSees DEF Dirty, DirtySteps
  <1> QED BY <1>1, <1>2, <1>3, FreeSees DEF MatchInv, RowNumbers, Listings, Sights, Undoubted, Settled

LEMMA NextMatch == ASSUME IInv, MatchInv, [Next]_contentVars PROVE MatchInv'
  <1>1. CASE UNCHANGED contentVars
    BY <1>1 DEF contentVars, MatchInv, RowNumbers, Listings, Sights, Undoubted, Settled
  <1>2. ASSUME NEW c \in Calls, Step(c) PROVE MatchInv'
    BY <1>2, LibraryMatch, CheckMatch, ClearMatch, LinkMatch, NoLinkMatch, UpsertMatch, ReadMatch,
       RemoveFilesMatch, RemoveRowMatch, RenameMatch, FlagMatch, ListMatch, TuckMatch, FailsMatch,
       NextModMatch, NextOrphanMatch DEF Step
  <1>3. ASSUME NEW c \in Calls, Reapply(c) \/ Cleanup(c) PROVE MatchInv'
    BY <1>3, WorkMatch
  <1>4. ASSUME NEW c \in Calls, NEW b \in Contents, AddMod(c, b) \/ \E f \in Names : UpdateMod(c, f, b)
        PROVE  MatchInv'
    BY <1>4, AddMatch, UpdateMatch
  <1>5. ASSUME NEW c \in Calls, NEW f \in Names,
               RemoveMod(c, f) \/ \E enabled \in BOOLEAN : ToggleMod(c, f, enabled)
        PROVE  MatchInv'
    BY <1>5, RemoveMatch, ToggleMatch
  <1>6. ASSUME NEW f \in Names, Dropped(f) PROVE MatchInv'
    BY <1>6, DroppedMatch
  <1>7. ASSUME NEW b \in Contents, NEW enabled \in BOOLEAN, Placed(b, enabled) PROVE MatchInv'
    BY <1>7, PlacedMatch
  <1> QED BY <1>1, <1>2, <1>3, <1>4, <1>5, <1>6, <1>7 DEF Next

\* However many requests work on the mods, and whatever other hands do beside
\* them, a name has, between requests, the one file that its row says, or none
\* where it has no row, if no two of them wrote it at once, none was left
\* half-way and none went over a disabled file since the last removal or
\* addition that nobody disturbed, and no other hand took or put a file there.
THEOREM RowsAndFilesAgree == Spec => []RowsMatchFiles
  <1>1. MatchInv => RowsMatchFiles
    <2> SUFFICES ASSUME MatchInv, NEW f \in Names, AtRest(f), doubts[f] = {}
                 PROVE  Matches(row[f], dir[f], off[f])
      BY DEF RowsMatchFiles, Matches, IfOn, IfOff
    <2>1. \A d \in Calls : ~Dirty(call[d], f)
      BY IdleSees DEF AtRest
    <2> QED BY <2>1 DEF MatchInv, Undoubted, Settled
  <1>2. Init => IInv /\ MatchInv
    BY InitIInv, InitMatch
  <1>3. IInv /\ MatchInv /\ [Next]_contentVars => (IInv /\ MatchInv)'
    BY NextIInv, NextMatch
  <1> QED BY <1>1, <1>2, <1>3, PTL DEF Spec
=============================================================================

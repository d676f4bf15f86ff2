--------------------------- MODULE ServerContent ---------------------------
(***************************************************************************)
(* The mods of servers and the library they come from (ModsService,        *)
(* LibraryService, StorageCleanupService): adding, updating, removing and  *)
(* toggling a mod, restoring the mods after a pack operation, and the      *)
(* cleanup of the library.                                                 *)
(*                                                                         *)
(* A mod is four things that no transaction joins: a row of                *)
(* server_content, a file in the mods directory under its name or its name *)
(* with .disabled, a row of library_files and that row's file.  No request *)
(* excludes another, and each awaits between any two of them.  The mods    *)
(* directory also holds files of which no row knows: the pack's, the       *)
(* user's.  A library row is of bytes and a category; its file's path is   *)
(* made of the bytes only, so that rows of two categories may share it.    *)
(***************************************************************************)
EXTENDS Naturals, FiniteSets

CONSTANTS Calls,     \* the requests in progress
          Names,     \* filenames of mods, each on one server
          Contents,  \* bytes of mods, as of a category
          NameOf,    \* the filename that each is published under
          Paths,     \* of library files
          FileOf,    \* the path that each has in the library
          Scenes     \* the situations a behaviour may be in

Kinds == {"add", "update", "remove", "toggle", "reapply", "cleanup"}

\* fields of a scene: the requests made, the bytes that come up, the names on
\* servers with a pack, whether other hands (the pack's installer, the user's
\* file manager) change the mods directory, whether disk and database fail, and
\* a bound on the requests
ASSUME ContentAssumption ==
  /\ NameOf \in [Contents -> Names]
  /\ FileOf \in [Contents -> Paths]
  /\ "nothing" \notin Contents
  /\ Scenes \subseteq [kinds : SUBSET Kinds, uses : SUBSET Contents, packed : SUBSET Names,
                       hands : BOOLEAN, faults : BOOLEAN, asks : Nat]

VARIABLES scene,
          lib,     \* library_files, by bytes: how many rows there were, and is one there
          stored,  \* the paths of the library files on disk
          row,     \* server_content, by name
          dir,     \* what the mods directory holds under a name
          off,     \* and under the name with .disabled
          call,    \* the requests
          asked,   \* how many there were
          doubts,  \* history, by name: what came between the row and the files
          frayed,  \* history: bytes whose library row or file a cleanup took from a user
          shorn    \* history: bytes whose file went with those of another category

contentVars == <<scene, lib, stored, row, dir, off, call, asked, doubts, frayed, shorn>>

Nothing == "nothing"
Files == Contents \cup {Nothing}

Steps == {"idle", "look", "move", "insert", "pick", "check", "clear", "link", "upsert",
          "tuck", "readToRemove", "rmOn", "rmOff", "rmRow", "readToToggle", "rename",
          "flag", "list", "next", "rmFile", "rmLib"}

\* a library row is named by its bytes and how many came before it; entries are
\* the rows a request has listed
Entries == [file : Names, content : Contents, lib : Nat, on : BOOLEAN]
Entry(f, c, n, enabled) == [file |-> f, content |-> c, lib |-> n, on |-> enabled]

\* file, content and lib are what the request works on, row the row of the name
\* it has read, 0 for none, on the flag it sets or found (in a cleanup: that no
\* mod referred to what it lists), alone that nobody else wrote the name meanwhile
Free == [kind |-> "none", pc |-> "idle", file |-> Nothing, content |-> Nothing, lib |-> 0,
         row |-> 0, on |-> TRUE, todo |-> {}, alone |-> TRUE]

TypeOK ==
  /\ scene \in Scenes
  /\ lib \in [Contents -> [n : Nat, there : BOOLEAN]]
  /\ stored \subseteq Paths
  /\ row \in [Names -> [n : Nat, there : BOOLEAN, content : Files, lib : Nat, on : BOOLEAN]]
  /\ \A f \in Names : row[f].there => row[f].content \in Contents /\ row[f].lib # 0
  /\ dir \in [Names -> Files] /\ off \in [Names -> Files]
  /\ asked \in 0..scene.asks
  /\ call \in [Calls -> [kind : Kinds \cup {"none"}, pc : Steps, file : Names \cup {Nothing},
                         content : Files, lib : Nat, row : Nat, on : BOOLEAN,
                         todo : SUBSET Entries, alone : BOOLEAN]]
  /\ doubts \in [Names -> SUBSET {"raced", "overlaid", "torn", "lost", "strange"}]
  /\ frayed \subseteq Contents /\ shorn \subseteq Contents

-----------------------------------------------------------------------------
(* Rows, files and who works on them *)

\* the library row n of the bytes is there
Listed(c, n) == lib[c].there /\ lib[c].n = n
\* a mod refers to that library row
Refers(f, c, n) == row[f].there /\ row[f].content = c /\ row[f].lib = n

\* from its first look at a name to its last write of it
Working(d, f) ==
  \/ call[d].file = f /\ call[d].pc \in {"link", "upsert", "tuck", "rmOn", "rmOff", "rmRow", "rename", "flag"}
  \/ /\ call[d].kind = "reapply"
     /\ \/ \E e \in call[d].todo : e.file = f
        \/ call[d].file = f /\ call[d].pc \in {"check", "clear"}

\* from its finding or storing the bytes to its row that refers to them
Holding(d, c) ==
  /\ call[d].content = c
  /\ call[d].pc \in {"insert", "pick", "check", "clear", "link", "upsert"}

At(r, step) == [r EXCEPT !.pc = step]
Go(c, r) == call' = [call EXCEPT ![c] = r]

\* c writes under the name f and goes on; ds is what is in doubt about f then
Write(c, f, r, ds) ==
  LET others == {d \in Calls \ {c} : Working(d, f)}
  IN /\ call' = [d \in Calls |-> IF d = c THEN r
                                 ELSE IF d \in others THEN [call[d] EXCEPT !.alone = FALSE]
                                 ELSE call[d]]
     /\ doubts' = [doubts EXCEPT ![f] = ds \cup {x \in {"raced"} : others # {}}]

LibraryStill == UNCHANGED <<lib, stored, frayed, shorn>>
ModsStill == UNCHANGED <<row, dir, off, doubts>>
Same == UNCHANGED <<scene, asked>>

\* a server has one mod, enabled or not, or none; the library has a spare one,
\* and a mods directory perhaps a file without a row
Init ==
  /\ scene \in Scenes
  /\ \E mod, spare, stray \in scene.uses \cup {Nothing}, enabled, strayOn \in BOOLEAN :
       LET has(f) == mod # Nothing /\ NameOf[mod] = f
           found(f) == stray # Nothing /\ NameOf[stray] = f /\ ~has(f)
           kept == {mod, spare} \ {Nothing}
       IN /\ stored = {FileOf[c] : c \in kept}
          /\ lib = [c \in Contents |-> [n |-> IF c \in kept THEN 1 ELSE 0, there |-> c \in kept]]
          /\ row = [f \in Names |->
               IF has(f) THEN [n |-> 1, there |-> TRUE, content |-> mod, lib |-> 1, on |-> enabled]
               ELSE [n |-> 0, there |-> FALSE, content |-> Nothing, lib |-> 0, on |-> TRUE]]
          /\ dir = [f \in Names |-> IF has(f) /\ enabled THEN mod
                                    ELSE IF found(f) /\ strayOn THEN stray ELSE Nothing]
          /\ off = [f \in Names |-> IF has(f) /\ ~enabled THEN mod
                                    ELSE IF found(f) /\ ~strayOn THEN stray ELSE Nothing]
          /\ doubts = [f \in Names |-> {x \in {"strange"} : found(f)}]
  /\ call = [c \in Calls |-> Free]
  /\ asked = 0
  /\ frayed = {} /\ shorn = {}
-----------------------------------------------------------------------------
(* Adding and updating a mod *)

Begin(c, r) ==
  /\ call[c].pc = "idle"
  /\ r.kind \in scene.kinds
  /\ asked < scene.asks
  /\ asked' = asked + 1
  /\ Go(c, r)
  /\ LibraryStill /\ ModsStill /\ UNCHANGED scene

\* installFromUrl, importUploadedMod: the file is fetched and hashed
AddMod(c, b) ==
  /\ b \in scene.uses
  /\ Begin(c, [Free EXCEPT !.kind = "add", !.pc = "look", !.content = b, !.file = NameOf[b]])

\* the update of a mod: a newer file that can be had, then removal and install
UpdateMod(c, f, b) ==
  /\ row[f].there
  /\ Listed(row[f].content, row[f].lib)
  /\ b \in scene.uses \ {row[f].content}
  /\ Begin(c, [Free EXCEPT !.kind = "update", !.pc = "readToRemove", !.content = b, !.file = f,
                          !.on = row[f].on])

\* an update goes on with its new file, everyone else is done
AfterRemoval(r) ==
  IF r.kind = "update" THEN [r EXCEPT !.pc = "look", !.file = NameOf[r.content], !.alone = TRUE]
  ELSE Free

\* a listed file with these bytes is taken as it is
Look(c) ==
  LET r == call[c]
  IN /\ r.pc = "look"
     /\ Go(c, IF lib[r.content].there THEN [At(r, "check") EXCEPT !.lib = lib[r.content].n]
              ELSE At(r, "move"))
     /\ LibraryStill /\ ModsStill /\ Same

Move(c) ==
  LET r == call[c]
  IN /\ r.pc = "move"
     /\ stored' = stored \cup {FileOf[r.content]}
     /\ shorn' = {b \in shorn : FileOf[b] # FileOf[r.content]}
     /\ Go(c, At(r, "insert"))
     /\ UNCHANGED <<lib, frayed>> /\ ModsStill /\ Same

\* unique by bytes and category: an insert beside another's does nothing
Insert(c) ==
  LET b == call[c].content
  IN /\ call[c].pc = "insert"
     /\ lib' = IF lib[b].there THEN lib ELSE [lib EXCEPT ![b] = [n |-> @.n + 1, there |-> TRUE]]
     /\ Go(c, At(call[c], "pick"))
     /\ UNCHANGED <<stored, frayed, shorn>> /\ ModsStill /\ Same

\* whoever's row it is, it is returned; without one the request fails
Pick(c) ==
  LET r == call[c]
  IN /\ r.pc = "pick"
     /\ Go(c, IF lib[r.content].there THEN [At(r, "check") EXCEPT !.lib = lib[r.content].n] ELSE Free)
     /\ LibraryStill /\ ModsStill /\ Same

\* installToServer reads the library row again, after the quota
Check(c) ==
  LET r == call[c]
  IN /\ r.pc = "check"
     /\ Go(c, IF Listed(r.content, r.lib) THEN At(r, "clear") ELSE Free)
     /\ LibraryStill /\ ModsStill /\ Same

\* removes what has the name
Clear(c) ==
  LET r == call[c]
  IN /\ r.pc = "clear"
     /\ dir' = [dir EXCEPT ![r.file] = Nothing]
     /\ Write(c, r.file, At(r, "link"), doubts[r.file])
     /\ LibraryStill /\ UNCHANGED <<row, off>> /\ Same

AfterLink(r) ==
  IF r.kind # "reapply" THEN At(r, "upsert") ELSE At(r, IF r.on THEN "next" ELSE "tuck")

\* a reapply that ran undisturbed has mended what the installer dropped
Mended(r) == doubts[r.file] \ {x \in {"lost"} : r.alone}

\* and links the library file there
Link(c) ==
  LET r == call[c]
  IN /\ r.pc = "link"
     /\ FileOf[r.content] \in stored
     /\ dir' = [dir EXCEPT ![r.file] = r.content]
     /\ Write(c, r.file, AfterLink(r),
              IF r.kind = "reapply" /\ r.on THEN Mended(r) ELSE doubts[r.file])
     /\ LibraryStill /\ UNCHANGED <<row, off>> /\ Same

\* the name has lost its file when there is none to link
NoLink(c) ==
  LET r == call[c]
  IN /\ r.pc = "link"
     /\ FileOf[r.content] \notin stored
     /\ Write(c, r.file, Free, doubts[r.file] \cup {"torn"})
     /\ LibraryStill /\ UNCHANGED <<row, dir, off>> /\ Same

\* Mutant: a row that is there keeps its library file
KeptRow(r) == IF row[r.file].there THEN row[r.file]
              ELSE [n |-> row[r.file].n + 1, there |-> TRUE, content |-> r.content,
                    lib |-> r.lib, on |-> TRUE]

\* unique by name: a row that is there refers to the new file and keeps its flag
Upserted(r) ==
  IF row[r.file].there THEN [row[r.file] EXCEPT !.content = r.content, !.lib = r.lib]
  ELSE [n |-> row[r.file].n + 1, there |-> TRUE, content |-> r.content, lib |-> r.lib, on |-> TRUE]

\* a disabled copy is left beside the new file, or the row stays disabled
Overlaid(f) == off[f] # Nothing \/ (row[f].there /\ ~row[f].on)

\* the install ends here, and nobody having disturbed it there is one file with
\* its row; an update of a disabled mod disables the new one
Upsert(c) ==
  LET r == call[c]
  IN /\ r.pc = "upsert"
     /\ row' = [row EXCEPT ![r.file] = Upserted(r)]
     /\ Write(c, r.file, IF r.kind = "update" /\ ~r.on
                         THEN [At(r, "readToToggle") EXCEPT !.alone = TRUE] ELSE Free,
              {x \in doubts[r.file] : ~r.alone} \cup {x \in {"overlaid"} : Overlaid(r.file)})
     /\ LibraryStill /\ UNCHANGED <<dir, off>> /\ Same

-----------------------------------------------------------------------------
(* Removing and toggling a mod *)

RemoveMod(c, f) ==
  Begin(c, [Free EXCEPT !.kind = "remove", !.pc = "readToRemove", !.file = f])

ToggleMod(c, f, enabled) ==
  Begin(c, [Free EXCEPT !.kind = "toggle", !.pc = "readToToggle", !.file = f, !.on = enabled])

\* a file without a row is the pack's, where there is one, and not to be renamed:
\* the server's environment excludes it
Excluded(r) == r.pc = "readToToggle" /\ ~row[r.file].there /\ r.file \in scene.packed

\* both read the row first
Read(c) ==
  LET r == call[c]
  IN /\ r.pc \in {"readToRemove", "readToToggle"}
     /\ Go(c, IF Excluded(r) THEN Free
              ELSE [r EXCEPT !.pc = IF @ = "readToRemove" THEN "rmOn" ELSE "rename",
                             !.row = IF row[r.file].there THEN row[r.file].n ELSE 0])
     /\ LibraryStill /\ ModsStill /\ Same

RemoveOn(c) ==
  LET r == call[c]
  IN /\ r.pc = "rmOn"
     /\ dir' = [dir EXCEPT ![r.file] = Nothing]
     /\ Write(c, r.file, At(r, "rmOff"), doubts[r.file])
     /\ LibraryStill /\ UNCHANGED <<row, off>> /\ Same

RemoveOff(c) ==
  LET r == call[c]
  IN /\ r.pc = "rmOff"
     /\ off' = [off EXCEPT ![r.file] = Nothing]
     /\ Write(c, r.file, At(r, "rmRow"), doubts[r.file])
     /\ LibraryStill /\ UNCHANGED <<row, dir>> /\ Same

\* the row that was read is still there
Still(r) == r.row # 0 /\ row[r.file].there /\ row[r.file].n = r.row

\* a removal nobody disturbed leaves nothing of the name
RemoveRow(c) ==
  LET r == call[c]
  IN /\ r.pc = "rmRow"
     /\ row' = IF Still(r) THEN [row EXCEPT ![r.file].there = FALSE] ELSE row
     /\ Write(c, r.file, AfterRemoval(r), IF r.alone THEN {} ELSE doubts[r.file])
     /\ LibraryStill /\ UNCHANGED <<dir, off>> /\ Same

\* the file with the other name, if there is one, replaces what has this one
Rename(c) ==
  LET r == call[c]
      f == r.file
  IN /\ r.pc = "rename"
     /\ IF r.on /\ off[f] # Nothing
        THEN dir' = [dir EXCEPT ![f] = off[f]] /\ off' = [off EXCEPT ![f] = Nothing]
        ELSE IF ~r.on /\ dir[f] # Nothing
        THEN off' = [off EXCEPT ![f] = dir[f]] /\ dir' = [dir EXCEPT ![f] = Nothing]
        ELSE UNCHANGED <<dir, off>>
     /\ Write(c, f, At(r, "flag"), doubts[f])
     /\ LibraryStill /\ UNCHANGED row /\ Same

\* an update that kept a mod disabled disables it; the flag it found is r.on
Flag(c) ==
  LET r == call[c]
  IN /\ r.pc = "flag"
     /\ row' = IF Still(r) THEN [row EXCEPT ![r.file].on = r.on] ELSE row
     /\ Write(c, r.file, Free, doubts[r.file])
     /\ LibraryStill /\ UNCHANGED <<dir, off>> /\ Same

-----------------------------------------------------------------------------
(* Restoring the mods, and cleaning the library *)

Reapply(c) == Begin(c, [Free EXCEPT !.kind = "reapply", !.pc = "list"])
Cleanup(c) == Begin(c, [Free EXCEPT !.kind = "cleanup", !.pc = "list"])

\* Mutant: every listed file is an orphan
AnyLibraryFile == {c \in Contents : lib[c].there}

Unused(c) == ~ \E f \in Names : Refers(f, c, lib[c].n)
\* no mod refers to its library row
Orphans == {c \in Contents : lib[c].there /\ Unused(c)}

\* both work through rows they list once
List(c) ==
  LET r == call[c]
  IN /\ r.pc = "list"
     /\ Go(c, [At(r, "next") EXCEPT !.todo =
          IF r.kind = "cleanup" THEN {Entry(NameOf[b], b, lib[b].n, Unused(b)) : b \in Orphans}
          ELSE {Entry(f, row[f].content, row[f].lib, row[f].on) :
                  f \in {g \in scene.packed : row[g].there}}])
     /\ LibraryStill /\ ModsStill /\ Same

\* a reapply skips a mod of which a file is there
Present(e) == off[e.file] # Nothing \/ (e.on /\ dir[e.file] # Nothing)

Take(r, e, step) ==
  [r EXCEPT !.pc = step, !.todo = @ \ {e}, !.file = e.file, !.content = e.content,
            !.lib = e.lib, !.on = e.on]

NextMod(c, e) ==
  LET r == call[c]
  IN /\ r.pc = "next" /\ r.kind = "reapply"
     /\ Go(c, IF Present(e) THEN [r EXCEPT !.todo = @ \ {e}] ELSE Take(r, e, "check"))
     /\ LibraryStill /\ ModsStill /\ Same

\* deleteLibraryFile reads the row and, forced, asks nothing
NextOrphan(c, e) ==
  LET r == call[c]
  IN /\ r.pc = "next" /\ r.kind = "cleanup"
     /\ Go(c, IF Listed(e.content, e.lib) THEN Take(r, e, "rmFile") ELSE [r EXCEPT !.todo = @ \ {e}])
     /\ LibraryStill /\ ModsStill /\ Same

Finish(c) ==
  /\ call[c].pc = "next" /\ call[c].todo = {}
  /\ Go(c, Free)
  /\ LibraryStill /\ ModsStill /\ Same

\* a disabled mod is linked under its name and renamed
Tuck(c) ==
  LET r == call[c]
      f == r.file
  IN /\ r.pc = "tuck"
     /\ IF dir[f] = Nothing
        THEN UNCHANGED off /\ Write(c, f, Free, doubts[f])
        ELSE off' = [off EXCEPT ![f] = dir[f]] /\ Write(c, f, At(r, "next"), Mended(r))
     /\ dir' = [dir EXCEPT ![f] = Nothing]
     /\ LibraryStill /\ UNCHANGED row /\ Same

\* since it was listed somebody has come to use it, or it is a later row's
Needed(r) ==
  /\ r.on
  /\ \/ ~Unused(r.content)
     \/ \E d \in Calls : Holding(d, r.content)
     \/ lib[r.content].n # r.lib

\* listed or about to be, and of the same path
Sharing(b) ==
  {x \in Contents \ {b} : /\ FileOf[x] = FileOf[b]
                          /\ lib[x].there \/ \E d \in Calls : Holding(d, x)}

RemoveFile(c) ==
  LET r == call[c]
  IN /\ r.pc = "rmFile"
     /\ stored' = stored \ {FileOf[r.content]}
     /\ shorn' = shorn \cup Sharing(r.content)
     /\ frayed' = frayed \cup {b \in {r.content} : Needed(r)}
     /\ Go(c, At(r, "rmLib"))
     /\ UNCHANGED lib /\ ModsStill /\ Same

\* Mutant: the row of a file that is gone already is left
LeftRow(r) == [lib EXCEPT ![r.content].there = @ /\ FileOf[r.content] \notin stored]

\* the library row goes by its id
Unlisted(r) == IF Listed(r.content, r.lib) THEN [lib EXCEPT ![r.content].there = FALSE] ELSE lib

RemoveLib(c) ==
  LET r == call[c]
  IN /\ r.pc = "rmLib"
     /\ lib' = Unlisted(r)
     /\ frayed' = frayed \cup {b \in {r.content} : Needed(r)}
     /\ Go(c, At(r, "next"))
     /\ UNCHANGED <<stored, shorn>> /\ ModsStill /\ Same

-----------------------------------------------------------------------------
(* What else happens *)

\* other hands have changed the files of a name
Meddled(f, x) ==
  /\ scene.hands
  /\ doubts' = [doubts EXCEPT ![f] = @ \cup {x}]
  /\ call' = [d \in Calls |-> IF Working(d, f) THEN [call[d] EXCEPT !.alone = FALSE] ELSE call[d]]
  /\ LibraryStill /\ UNCHANGED row /\ Same

\* the pack's installer drops a file that is not the pack's, the user deletes it
Dropped(f) ==
  /\ <<dir[f], off[f]>> # <<Nothing, Nothing>>
  /\ dir' = [dir EXCEPT ![f] = Nothing]
  /\ off' = [off EXCEPT ![f] = Nothing]
  /\ Meddled(f, "lost")

\* the pack's installer or the user puts a file there, or the user one to keep
Placed(b, enabled) ==
  /\ b \in scene.uses
  /\ dir' = IF enabled THEN [dir EXCEPT ![NameOf[b]] = b] ELSE dir
  /\ off' = IF enabled THEN off ELSE [off EXCEPT ![NameOf[b]] = b]
  /\ Meddled(NameOf[b], "strange")

\* the disk, the database or the network fails; a cleanup goes on
Changes == {"link", "upsert", "tuck", "rmOff", "rmRow", "flag"}
StepFails(c) ==
  LET r == call[c]
  IN /\ scene.faults
     /\ r.pc # "idle"
     /\ IF r.pc \in Changes THEN Write(c, r.file, Free, doubts[r.file] \cup {"torn"})
        ELSE Go(c, IF r.pc \in {"rmFile", "rmLib"} THEN At(r, "next") ELSE Free) /\ UNCHANGED doubts
     /\ frayed' = frayed \cup {b \in {r.content} : r.pc = "rmLib"}
     /\ UNCHANGED <<lib, stored, shorn, row, dir, off>> /\ Same

Step(c) ==
  \/ Look(c) \/ Move(c) \/ Insert(c) \/ Pick(c) \/ Check(c) \/ Clear(c) \/ Link(c) \/ NoLink(c)
  \/ Upsert(c) \/ Read(c) \/ RemoveOn(c) \/ RemoveOff(c) \/ RemoveRow(c) \/ Rename(c) \/ Flag(c)
  \/ List(c) \/ Finish(c) \/ Tuck(c) \/ RemoveFile(c) \/ RemoveLib(c) \/ StepFails(c)
  \/ \E e \in call[c].todo : NextMod(c, e) \/ NextOrphan(c, e)

Next ==
  \/ \E c \in Calls :
       \/ Step(c) \/ Reapply(c) \/ Cleanup(c)
       \/ \E b \in Contents : AddMod(c, b) \/ \E f \in Names : UpdateMod(c, f, b)
       \/ \E f \in Names : RemoveMod(c, f) \/ \E enabled \in BOOLEAN : ToggleMod(c, f, enabled)
  \/ \E f \in Names : Dropped(f)
  \/ \E b \in Contents, enabled \in BOOLEAN : Placed(b, enabled)

Spec == Init /\ [][Next]_contentVars

-----------------------------------------------------------------------------
(* Properties *)

AtRest(f) == ~ \E d \in Calls : Working(d, f)

\* What the panel lists is what the game loads: a mod with a row has one file,
\* its library file's bytes, under the name its flag says, and a name without a
\* row has none; but for a name that two requests wrote at once (raced), that
\* one left half-way (torn), where a file was deleted by other hands (lost) or
\* put (strange: the pack's, the user's), or where a mod was added over a
\* disabled one, with a row or without (overlaid).  A removal or an addition
\* that nobody disturbed ends every such doubt, a reapply the lost.
RowsMatchFiles ==
  \A f \in Names : AtRest(f) /\ doubts[f] = {} =>
    /\ dir[f] = (IF row[f].there /\ row[f].on THEN row[f].content ELSE Nothing)
    /\ off[f] = (IF row[f].there /\ ~row[f].on THEN row[f].content ELSE Nothing)

\* orphans: no cleanup takes the library row of an installed mod, from which it
\* is restored, but where the mod was being installed or was installed after
\* the cleanup had listed it.
ModsKeepTheirSource ==
  \A f \in Names : row[f].there /\ row[f].content \notin frayed => Listed(row[f].content, row[f].lib)

\* A listed library file is on disk, so that an install that finds its bytes
\* listed can link it; but while a cleanup is between file and row, or failed
\* there, or took it from a request that was using it, or removed those bytes
\* as of another category, whose row has the same path.
ListedIsStored ==
  \A b \in Contents : lib[b].there /\ b \notin frayed \cup shorn =>
    FileOf[b] \in stored \/ \E d \in Calls : call[d].pc = "rmLib" /\ call[d].content = b
=============================================================================

----------------------------- MODULE DiscImport -----------------------------
(* The disc on a phone: runtime/android.c's disc, stored_disc, take_disc,     *)
(* place, copy_disc and tidy, over runtime/import.c.                          *)
(*                                                                            *)
(* The disc the player picks is read in place, through a permission the app   *)
(* keeps, or copied into copy/ under a name its content gives; disc.txt names *)
(* it for the next launch.  The process may be killed between any two of the  *)
(* calls that change the disk or the permissions.                             *)
EXTENDS Naturals

CONSTANTS
    Files,           \* the files the player may pick, each known by its URI
    Discs,           \* those of them that are the disc this port plays
    CopyName,        \* import_copy_name, by a file's content
    KilledAtRelease  \* FALSE leaves out kills between the release of a permission
                     \* and the disc.txt that no longer needs it (stored_disc)

None == "none"
Part == "part"                      \* a copy that stopped part of the way
Fd == "fd"                          \* the disc read in place, through a descriptor
Names == {CopyName[f] : f \in Files}
NoDisc == [uri |-> None, copy |-> None]

VARIABLES
    stored,            \* disc.txt, NoDisc with none
    copies,            \* what is in copy/, by name
    tmp,               \* the .tmp being copied
    grants,            \* the permissions the app keeps
    pend, picker,      \* pending_disc; whether the system's picker is open
    local,             \* the files on the phone's own storage, a descriptor each
    pc, forced,        \* where disc() is, "off" with no process; asked to pick again
    st, held,          \* disc()'s Stored, and the path it works by, None when it does not
    pick, copied,      \* the URI being taken, and whether it was copied
    path,              \* what the run reads
    unwritten          \* whether a disc.txt could not be written

disk == <<stored, copies, tmp, grants, pend, local>>
run == <<forced, st, held, pick, copied, path>>
vars == <<disk, picker, pc, run, unwritten>>

Stored == [uri : Files \cup {None}, copy : Names \cup {None}]

TypeOK ==
    /\ stored \in Stored /\ st \in Stored
    /\ copies \in [Names -> Discs \cup {None}] /\ tmp \in Files \cup {None, Part}
    /\ grants \subseteq Files /\ local \subseteq Files
    /\ pend \in Files \cup {None} /\ pick \in Files \cup {None}
    /\ {held, path} \subseteq Names \cup {None, Fd}
    /\ {picker, forced, copied, unwritten} \subseteq BOOLEAN
    /\ pc \in {"off", "disc", "ask", "picking", "take", "copying", "place", "write", "relnew",
               "relold", "unlink", "clear", "refused", "tidy", "sweep", "run", "damaged",
               "storedcopy", "storedplace", "storedrel", "storedwrite"}

Init ==
    /\ stored = NoDisc /\ copies = [n \in Names |-> None] /\ tmp = None /\ grants = {}
    /\ pend = None /\ local \in SUBSET Files /\ picker = FALSE /\ unwritten = FALSE
    /\ pc = "off" /\ forced = FALSE /\ st = NoDisc /\ held = None
    /\ pick = None /\ copied = FALSE /\ path = None

At(p) == pc = p
Goes(p) == pc' = p
InPlace(f) == f \in local /\ f \in grants       \* import_in_place

-----------------------------------------------------------------------------
(* A launch, and the disc accepted before. *)

\* SDL_main: what a stopped copy left is swept, and disc() reads disc.txt.
Launch(f) ==
    /\ At("off") /\ Goes("disc")
    /\ tmp' = None /\ forced' = f /\ st' = stored
    /\ held' = None /\ pick' = None /\ copied' = FALSE /\ path' = None
    /\ UNCHANGED <<stored, copies, grants, pend, local, picker, unwritten>>

\* stored_disc is not asked with no disc.txt, or with a pick waiting.
AsksAtOnce ==
    /\ At("disc") /\ (st = NoDisc \/ pend # None)
    /\ Goes("ask")
    /\ UNCHANGED <<disk, picker, run, unwritten>>

Chosen == At("disc") /\ st # NoDisc /\ pend = None
CopyThere == st.copy # None /\ copies[st.copy] # None

\* Its copy, or its file read in place: played, or, when the run was told to ask,
\* kept to offer.
StoredWorks ==
    /\ Chosen
    /\ held' = IF CopyThere THEN st.copy ELSE Fd
    /\ CopyThere \/ InPlace(st.uri)
    /\ Goes(IF ~CopyThere /\ st.copy # None THEN "storedwrite" ELSE IF forced THEN "ask" ELSE "tidy")
    /\ path' = IF forced THEN path ELSE held'
    /\ st' = IF CopyThere THEN st ELSE [st EXCEPT !.copy = None]
    /\ pick' = st.uri
    /\ UNCHANGED <<disk, picker, forced, copied, unwritten>>

\* Its file may not be read in place any more: it is copied, its permission
\* released, and disc.txt written to say so.
StoredCopies ==
    /\ Chosen /\ ~CopyThere /\ st.uri \in grants /\ ~InPlace(st.uri) /\ ~forced
    /\ tmp' = Part /\ pick' = st.uri
    /\ Goes("storedcopy")
    /\ UNCHANGED <<stored, copies, grants, pend, local, picker, forced, st, held, copied, path, unwritten>>

StoredCopied ==
    /\ At("storedcopy")
    /\ \/ tmp' = pick /\ Goes("storedplace") /\ UNCHANGED pick
       \/ tmp' = None /\ Goes("ask") /\ pick' = None
    /\ UNCHANGED <<stored, copies, grants, pend, local, picker, forced, st, held, copied, path, unwritten>>

StoredPlaced ==
    /\ At("storedplace")
    /\ copies' = [copies EXCEPT ![CopyName[pick]] = tmp] /\ tmp' = None
    /\ path' = CopyName[pick] /\ st' = [st EXCEPT !.copy = CopyName[pick]]
    /\ Goes("storedrel")
    /\ UNCHANGED <<stored, grants, pend, local, picker, forced, held, pick, copied, unwritten>>

StoredReleases ==
    /\ At("storedrel") /\ Goes("storedwrite")
    /\ grants' = grants \ {st.uri}
    /\ UNCHANGED <<stored, copies, tmp, pend, local, picker, run, unwritten>>

\* disc.txt, whole or as it was.
StoredRewrites ==
    /\ At("storedwrite") /\ Goes(IF forced THEN "ask" ELSE "tidy")
    /\ \/ stored' = st /\ UNCHANGED unwritten
       \/ unwritten' = TRUE /\ UNCHANGED stored
    /\ UNCHANGED <<copies, tmp, grants, pend, local, picker, run>>

\* Not readable now, not the disc it was, or its copy gone and its permission with
\* it: said in the box.
StoredFails ==
    /\ Chosen
    /\ Goes("ask")
    /\ UNCHANGED <<disk, picker, run, unwritten>>

-----------------------------------------------------------------------------
(* The box, and the picker behind it. *)

TakesPending ==
    /\ At("ask") /\ pend # None
    /\ pick' = pend /\ Goes("take")
    /\ UNCHANGED <<disk, picker, forced, st, held, copied, path, unwritten>>

KeepsThis ==
    /\ At("ask") /\ pend = None /\ forced /\ held # None
    /\ path' = held /\ pick' = st.uri /\ Goes("tidy")
    /\ UNCHANGED <<disk, picker, forced, st, held, copied, unwritten>>

OpensPicker_First ==
    /\ At("ask") /\ ~picker
    /\ picker' = TRUE /\ Goes("picking")
    /\ UNCHANGED <<disk, run, unwritten>>

OpensPicker ==
    /\ At("ask") /\ pend = None /\ ~picker
    /\ picker' = TRUE /\ Goes("picking")
    /\ UNCHANGED <<disk, run, unwritten>>

\* onActivityResult: the permission kept, then the pick written down, then the
\* waiter told, in whichever process it finds.
Answers(f) ==
    /\ picker /\ pc # "off"
    /\ picker' = FALSE
    /\ IF f = None THEN UNCHANGED <<grants, pend>> ELSE pend' = f /\ grants' \in {grants, grants \cup {f}}
    /\ IF At("picking") THEN Goes(IF f = None THEN "ask" ELSE "take") /\ pick' = f
                        ELSE UNCHANGED <<pc, pick>>
    /\ UNCHANGED <<stored, copies, tmp, local, forced, st, held, copied, path, unwritten>>

-----------------------------------------------------------------------------
(* take_disc: one pick, from its descriptor to disc.txt. *)

\* Not opened, cancelled, or refused through its descriptor.
TakeRefuses ==
    /\ At("take") /\ Goes("refused")
    /\ UNCHANGED <<disk, picker, run, unwritten>>

TakeInPlace ==
    /\ At("take") /\ pick \in Discs /\ InPlace(pick)
    /\ path' = Fd /\ copied' = FALSE /\ Goes("write")
    /\ UNCHANGED <<disk, picker, forced, st, held, pick, unwritten>>

TakeCopies ==
    /\ At("take") /\ ~InPlace(pick)
    /\ tmp' = Part /\ copied' = TRUE /\ Goes("copying")
    /\ UNCHANGED <<stored, copies, grants, pend, local, picker, forced, st, held, pick, path, unwritten>>

\* import_copy, and the copy checked before it takes the place of another.
CopyEnds ==
    /\ At("copying")
    /\ \/ tmp' = pick /\ pick \in Discs /\ Goes("place")
       \/ tmp' = None /\ Goes("refused")
    /\ UNCHANGED <<stored, copies, grants, pend, local, picker, run, unwritten>>

Place ==
    /\ At("place")
    /\ copies' = [copies EXCEPT ![CopyName[pick]] = tmp] /\ tmp' = None
    /\ path' = CopyName[pick] /\ Goes("write")
    /\ UNCHANGED <<stored, grants, pend, local, picker, forced, st, held, pick, copied, unwritten>>

\* disc.txt, written for an accepted disc alone; where it cannot be, the run plays on.
Write ==
    /\ At("write") /\ Goes("relnew")
    /\ \/ stored' = [uri |-> pick, copy |-> IF copied THEN path ELSE None] /\ UNCHANGED unwritten
       \/ unwritten' = TRUE /\ UNCHANGED stored
    /\ UNCHANGED <<copies, tmp, grants, pend, local, picker, run>>

ReleaseNew ==
    /\ At("relnew") /\ Goes("relold")
    /\ grants' = IF copied THEN grants \ {pick} ELSE grants
    /\ UNCHANGED <<stored, copies, tmp, pend, local, picker, run, unwritten>>

ReleaseOld ==
    /\ At("relold") /\ Goes("unlink")
    /\ grants' = IF st.uri # pick THEN grants \ {st.uri} ELSE grants
    /\ UNCHANGED <<stored, copies, tmp, pend, local, picker, run, unwritten>>

\* The copy of the disc before goes, unless this one took its name.
UnlinkOld_SameName ==
    /\ At("unlink") /\ Goes("clear")
    /\ copies' = IF st.copy # None THEN [copies EXCEPT ![st.copy] = None] ELSE copies
    /\ UNCHANGED <<stored, tmp, grants, pend, local, picker, run, unwritten>>

UnlinkOld ==
    /\ At("unlink") /\ Goes("clear")
    /\ copies' = IF st.copy # None /\ ~(copied /\ st.copy = path)
                 THEN [copies EXCEPT ![st.copy] = None] ELSE copies
    /\ UNCHANGED <<stored, tmp, grants, pend, local, picker, run, unwritten>>

ClearPending ==
    /\ At("clear") /\ Goes("tidy")
    /\ pend' = None
    /\ UNCHANGED <<stored, copies, tmp, grants, local, picker, run, unwritten>>

\* drop: a refused pick's permission, unless the disc accepted before is that file,
\* and its pending file.
Refused_Released ==
    /\ At("refused") /\ Goes("ask")
    /\ grants' = grants \ {pick}
    /\ pend' = None
    /\ pick' = None /\ copied' = FALSE
    /\ UNCHANGED <<stored, copies, tmp, local, picker, forced, st, held, path, unwritten>>

Refused ==
    /\ At("refused") /\ Goes("ask")
    /\ grants' = IF st.uri # pick THEN grants \ {pick} ELSE grants
    /\ pend' = None
    /\ pick' = None /\ copied' = FALSE
    /\ UNCHANGED <<stored, copies, tmp, local, picker, forced, st, held, path, unwritten>>

-----------------------------------------------------------------------------
(* The run. *)

\* tidy: the permissions nothing names, then the copies nothing names.
TidyGrants ==
    /\ At("tidy") /\ Goes("sweep")
    /\ grants' = grants \cap {pick, stored.uri, pend}
    /\ UNCHANGED <<stored, copies, tmp, pend, local, picker, run, unwritten>>

TidyCopies ==
    /\ At("sweep") /\ Goes("run")
    /\ copies' = [n \in Names |-> IF n \in {path, stored.copy} THEN copies[n] ELSE None]
    /\ UNCHANGED <<stored, tmp, grants, pend, local, picker, run, unwritten>>

\* stopped_box: a block that is damaged; disc.txt goes, then the app's copy.
Damaged ==
    /\ At("run") /\ Goes("damaged")
    /\ stored' = NoDisc
    /\ UNCHANGED <<copies, tmp, grants, pend, local, picker, run, unwritten>>

DamagedCopy ==
    /\ At("damaged") /\ Goes("off")
    /\ copies' = IF path \in Names THEN [copies EXCEPT ![path] = None] ELSE copies
    /\ UNCHANGED <<stored, tmp, grants, pend, local, picker, run, unwritten>>

\* The run ends, the player quits at the box, or the system ends the process.
Ends ==
    /\ pc # "off" /\ Goes("off")
    /\ KilledAtRelease \/ ~At("storedwrite")
    /\ UNCHANGED <<disk, picker, run, unwritten>>

\* A file leaves the phone's own storage: its provider serves it another way.
Moves(f) ==
    /\ At("off") /\ f \in local
    /\ local' = local \ {f}
    /\ UNCHANGED <<stored, copies, tmp, grants, pend, picker, pc, run, unwritten>>

-----------------------------------------------------------------------------

Next ==
    \/ \E f \in BOOLEAN : Launch(f)
    \/ AsksAtOnce \/ StoredWorks \/ StoredCopies \/ StoredCopied \/ StoredPlaced
    \/ StoredReleases \/ StoredRewrites \/ StoredFails
    \/ TakesPending \/ KeepsThis \/ OpensPicker
    \/ \E f \in Files \cup {None} : Answers(f)
    \/ TakeRefuses \/ TakeInPlace \/ TakeCopies \/ CopyEnds \/ Place \/ Write
    \/ ReleaseNew \/ ReleaseOld \/ UnlinkOld \/ ClearPending \/ Refused
    \/ TidyGrants \/ TidyCopies \/ Damaged \/ DamagedCopy \/ Ends
    \/ \E f \in Files : Moves(f)

Spec == Init /\ [][Next]_vars

-----------------------------------------------------------------------------

\* DiscStays: with no process, disc.txt names a disc the next launch can read, by its
\* copy or its permission, wherever the process was killed (a disc.txt that could not
\* be written names what it named before); and in a run the copy it plays stays.
DiscStays ==
    /\ pc = "off" /\ stored # NoDisc /\ ~unwritten
       => (stored.copy # None /\ copies[stored.copy] # None) \/ stored.uri \in grants
    /\ pc \in {"tidy", "sweep", "run"} => path = Fd \/ copies[path] # None

\* PickStays: a pick written down is removed once it has itself been decided, never on
\* another's account.
PickStays == [][pend # None /\ pend' # pend => pick = pend]_vars
=============================================================================

---------------------------- MODULE GameLibrary ----------------------------
(* The game library on a phone: runtime/android.c's library and take_library, *)
(* over runtime/import.c's copy, place and sweep and runtime/game.c's load.   *)
(*                                                                            *)
(* The player picks a file; it is copied beside the library in use as a .tmp, *)
(* loaded or checked, and renamed into place, the one before it kept as .old  *)
(* when the process has loaded one already and cannot try the new one.  The   *)
(* process may be killed between any two of the calls that change the disk,   *)
(* and the system's picker outlives it.                                       *)

EXTENDS Naturals

CONSTANTS
    Libs,         \* the files the player may pick
    Kinds,        \* [Libs -> {"loads", "checks", "refused"}]: "checks" passes
                  \* elf_check and is refused once dlopen has been called
    Installed,    \* what the first launch may find as libsoa_game.so
    Untried       \* TRUE to let a launch start at a pick with a library the launch
                  \* before put in place still untried

None == "none"
Part == "part"                     \* a copy that stopped part of the way

VARIABLES
    game, old, tmp,    \* libsoa_game.so, its .old and its .tmp
    pend,              \* pending_library: the pick SoaActivity wrote down
    picker,            \* whether the system's picker is open
    pc,                \* where library() is, "off" with no process
    forced, keep,      \* asked to pick again; "Keep this one" on offer
    loaded, dlopened,  \* g.loaded, g_dlopened
    pick,              \* the URI being taken
    now,               \* take_library's now
    ok,                \* whether the pick being dropped was taken
    had                \* whether a library that loads has been in place and loaded

disk == <<game, old, tmp>>
run == <<forced, keep, loaded, dlopened, pick, now, ok>>
vars == <<disk, pend, picker, pc, run, had>>

TypeOK ==
    /\ game \in Libs \cup {None} /\ old \in Libs \cup {None} /\ tmp \in Libs \cup {None, Part}
    /\ pend \in Libs \cup {None} /\ pick \in Libs \cup {None}
    /\ pc \in {"off", "putback", "open", "loaded", "ask", "picking", "take", "copying",
               "copied", "keep", "put", "drop", "disc"}
    /\ {picker, forced, keep, loaded, dlopened, now, ok, had} \subseteq BOOLEAN

Init ==
    /\ game \in Installed /\ old = None /\ tmp = None /\ pend = None /\ picker = FALSE
    /\ pc = "off" /\ forced = FALSE /\ keep = FALSE /\ loaded = FALSE /\ dlopened = FALSE
    /\ pick = None /\ now = FALSE /\ ok = FALSE /\ had = FALSE

Loads(f) == f # None /\ Kinds[f] = "loads"

\* soa_load_game: one dlopen in a process, and only of a file elf_check passes.
Load(f) ==
    /\ dlopened' = (dlopened \/ Kinds[f] # "refused")
    /\ loaded' = (~dlopened /\ Loads(f))

-----------------------------------------------------------------------------
(* A launch. *)

\* SDL_main: what a stopped copy left is swept, and library() is called.
Launch(f) ==
    /\ pc = "off"
    /\ tmp' = None
    /\ forced' = f /\ pc' = "putback"
    /\ keep' = FALSE /\ loaded' = FALSE /\ dlopened' = FALSE
    /\ pick' = None /\ now' = FALSE /\ ok' = FALSE
    /\ UNCHANGED <<game, old, pend, picker, had>>

\* A library kept as .old comes back where the one to replace it never arrived.
PutBack ==
    /\ pc = "putback" /\ pc' = "open"
    /\ IF game = None /\ old # None
       THEN game' = old /\ old' = None
       ELSE UNCHANGED <<game, old>>
    /\ UNCHANGED <<tmp, pend, picker, run, had>>

\* Asked to pick again, with a pick waiting or with nothing installed: the box.
OpenAsks ==
    /\ pc = "open" /\ (forced \/ pend # None \/ game = None)
    /\ Untried \/ old = None
    /\ keep' = (forced /\ game # None)
    /\ pc' = "ask"
    /\ UNCHANGED <<disk, pend, picker, forced, loaded, dlopened, pick, now, ok, had>>

\* The library installed is loaded; the one before it goes in a step of its own.
OpenLoads ==
    /\ pc = "open" /\ ~forced /\ pend = None /\ game # None /\ Loads(game)
    /\ Load(game)
    /\ had' = TRUE
    /\ pc' = "loaded"
    /\ UNCHANGED <<disk, pend, picker, forced, keep, pick, now, ok>>

UnlinkOld ==
    /\ pc = "loaded" /\ pc' = "disc"
    /\ old' = None
    /\ UNCHANGED <<game, tmp, pend, picker, run, had>>

\* The library installed will not load: the one before it comes back, and is
\* loaded where the process has not called dlopen yet, and otherwise by the next.
OpenFails ==
    /\ pc = "open" /\ ~forced /\ pend = None /\ game # None /\ ~Loads(game)
    /\ IF old # None
       THEN /\ game' = old /\ old' = None
            /\ LET called == Kinds[game] = "checks" IN
               /\ dlopened' = (called \/ Kinds[old] # "refused")
               /\ loaded' = (~called /\ Loads(old))
               /\ pc' = CASE loaded' -> "disc" [] ~loaded' /\ dlopened' -> "off" [] OTHER -> "ask"
               /\ had' = (had \/ loaded')
       ELSE /\ Load(game) /\ pc' = "ask"
            /\ UNCHANGED <<game, old, had>>
    /\ UNCHANGED <<tmp, pend, picker, forced, keep, pick, now, ok>>

-----------------------------------------------------------------------------
(* The box, and the picker behind it. *)

TakesPending ==
    /\ pc = "ask" /\ pend # None
    /\ pick' = pend /\ pc' = "take"
    /\ UNCHANGED <<disk, pend, picker, forced, keep, loaded, dlopened, now, ok, had>>

\* Quit; or the picker, which no other covers.
Quits ==
    /\ pc \in {"ask", "disc"} /\ (pc = "ask" => pend = None)
    /\ pc' = "off"
    /\ UNCHANGED <<disk, pend, picker, run, had>>

OpensPicker ==
    /\ pc = "ask" /\ pend = None /\ ~picker
    /\ picker' = TRUE /\ pc' = "picking"
    /\ UNCHANGED <<disk, pend, run, had>>

\* "Keep this one": the library loaded already, or the one installed, if it loads.
Keeps ==
    /\ pc = "ask" /\ pend = None /\ keep
    /\ IF loaded
       THEN pc' = "disc" /\ UNCHANGED <<loaded, dlopened, keep, had>>
       ELSE /\ Load(game)
            /\ pc' = IF loaded' THEN "disc" ELSE "ask"
            /\ keep' = loaded'
            /\ had' = (had \/ loaded')
    /\ UNCHANGED <<disk, pend, picker, forced, pick, now, ok>>

\* onActivityResult: the pick is written down before the waiter is told, and a
\* process started since the picker opened finds it there.
Answers(f) ==
    /\ picker /\ pc # "off"
    /\ picker' = FALSE
    /\ pend' = IF f = None THEN pend ELSE f
    /\ IF pc = "picking"
       THEN pc' = (IF f = None THEN "ask" ELSE "take") /\ pick' = f
       ELSE UNCHANGED <<pc, pick>>
    /\ UNCHANGED <<disk, forced, keep, loaded, dlopened, now, ok, had>>

\* The disc's box: "Pick another library" calls library() with one loaded.
PickAnother ==
    /\ pc = "disc"
    /\ pc' = "ask" /\ keep' = TRUE /\ forced' = TRUE
    /\ UNCHANGED <<disk, pend, picker, loaded, dlopened, pick, now, ok, had>>

-----------------------------------------------------------------------------
(* take_library: one pick, from its descriptor to the library in place. *)

Drops(taken) == pc' = "drop" /\ ok' = taken

\* Not opened, cancelled, or refused through its descriptor before a byte is copied.
TakeRefuses ==
    /\ pc = "take"
    /\ Drops(FALSE)
    /\ UNCHANGED <<disk, pend, picker, forced, keep, loaded, dlopened, pick, now, had>>

TakeCopies ==
    /\ pc = "take"
    /\ tmp' = Part /\ pc' = "copying"
    /\ UNCHANGED <<game, old, pend, picker, run, had>>

\* import_copy: the whole file, or, on any refusal or Cancel, nothing.
CopyEnds ==
    /\ pc = "copying"
    /\ \/ tmp' = pick /\ pc' = "copied" /\ UNCHANGED ok
       \/ tmp' = None /\ Drops(FALSE)
    /\ UNCHANGED <<game, old, pend, picker, forced, keep, loaded, dlopened, pick, now, had>>

\* Loaded from the copy by a process that has not called dlopen, and only checked
\* as a file by one that has; put in place when that went well.
Copied ==
    /\ pc = "copied"
    /\ now' = ~dlopened
    /\ IF ~dlopened
       THEN Load(tmp) /\ IF loaded' THEN pc' = "put" /\ UNCHANGED <<tmp, ok>>
                                    ELSE tmp' = None /\ Drops(FALSE)
       ELSE /\ IF Kinds[tmp] # "refused" THEN pc' = "keep" /\ UNCHANGED <<tmp, ok>>
                                         ELSE tmp' = None /\ Drops(FALSE)
            /\ UNCHANGED <<loaded, dlopened>>
    /\ UNCHANGED <<game, old, pend, picker, forced, keep, pick, had>>

\* import_place's first rename, of the library in use.
KeepOld_Removed ==
    /\ pc = "keep" /\ pc' = "put"
    /\ game' = None
    /\ UNCHANGED <<old, tmp, pend, picker, run, had>>

KeepOld ==
    /\ pc = "keep" /\ pc' = "put"
    /\ IF game # None THEN old' = game /\ game' = None ELSE UNCHANGED <<game, old>>
    /\ UNCHANGED <<tmp, pend, picker, run, had>>

\* Its second, of the copy; the library before it put back where that fails.
Put ==
    /\ pc = "put"
    /\ \/ game' = tmp /\ tmp' = None /\ Drops(TRUE) /\ had' = (had \/ now) /\ UNCHANGED old
       \/ /\ IF now \/ game # None \/ old = None
             THEN UNCHANGED <<game, old>>
             ELSE game' = old /\ old' = None
          /\ tmp' = IF now THEN tmp ELSE None
          /\ Drops(now)
          /\ UNCHANGED had
    /\ UNCHANGED <<pend, picker, forced, keep, loaded, dlopened, pick, now>>

\* drop: the pick's pending file goes, whichever way it went.
Drop ==
    /\ pc = "drop"
    /\ pend' = None
    /\ pc' = CASE ok /\ now -> "disc" [] ok /\ ~now -> "off" [] OTHER -> "ask"
    /\ pick' = None /\ now' = FALSE /\ ok' = FALSE
    /\ UNCHANGED <<disk, picker, forced, keep, loaded, dlopened, had>>

\* The system ends the process, at any point.
Kill ==
    /\ pc # "off" /\ pc' = "off"
    /\ UNCHANGED <<disk, pend, picker, run, had>>
-----------------------------------------------------------------------------

Next ==
    \/ \E f \in BOOLEAN : Launch(f)
    \/ PutBack \/ OpenAsks \/ OpenLoads \/ UnlinkOld \/ OpenFails
    \/ TakesPending \/ Quits \/ OpensPicker \/ Keeps \/ PickAnother
    \/ \E f \in Libs \cup {None} : Answers(f)
    \/ TakeRefuses \/ TakeCopies \/ CopyEnds \/ Copied \/ KeepOld \/ Put \/ Drop \/ Kill

Spec == Init /\ [][Next]_vars

-----------------------------------------------------------------------------

\* LibraryStays: docs/specs/android.md: "a pick that will not load never costs the player
\* the library they had".  Once a library has been in place and loaded, one that loads is
\* on the disk, in use or as .old, whatever is picked and wherever the process is killed.
LibraryStays == had => Loads(game) \/ Loads(old)
=============================================================================

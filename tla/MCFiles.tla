------------------------------ MODULE MCFiles ------------------------------
(* The components that keep something on disk from one start to the next, for *)
(* TLC: the saves' extension, the recording and its replay, the mods folder   *)
(* with mods.lock, the memory card, and a phone's game library and disc.      *)
(* They share no state, so a behaviour runs one of them, chosen at the start, *)
(* and leaves the others as they are.                                         *)
EXTENDS MCSaveExtension, ModFolders

VARIABLES
    which,        \* "save", "track", "mods", "card", "library" or "disc"
    \* EventTrack's
    play, t_phase, frame, safe, reads, t_file, last, recDone, latch, host, padFrame, armed,
    asked, sched, saveSet, ui, asks, closing, replaying, taken, lived, replayed,
    \* ModLoad's
    installed, modLoad, plan, pos, scanned, loaded, patches, hooks, claims, lock, tmp,
    inUse, starts,
    \* MemoryCard's
    c_file, array, channel, cmd, c_line, dirty, sram, script, job, told, writes, c_starts,
    \* GameLibrary's
    game_so, old, l_tmp, l_pend, l_picker, l_pc, l_forced, keep, l_loaded, dlopened, l_pick,
    now, ok, had,
    \* DiscImport's
    stored, copies, d_tmp, grants, d_pend, d_picker, local, d_pc, d_forced, st, d_held,
    d_pick, copied, path, unwritten

CONSTANTS
    ModInstalls, FlagLast, MaxStarts,     \* ModLoad's, the first its Installs
    NPages, Sector, Values, MaxWrites,    \* MemoryCard's, its pages counted from 1
    Libs, LibKind, LibInstalls,           \* GameLibrary's, the last its Installed
    Files, Discs, CopyName, OnPhone       \* DiscImport's, and the files it finds on the phone

trackVars ==
    <<play, t_phase, frame, safe, reads, t_file, last, recDone, latch, host, padFrame, armed,
      asked, sched, saveSet, ui, asks, closing, replaying, taken, lived, replayed>>
folderVars ==
    <<installed, modLoad, plan, pos, scanned, loaded, patches, hooks, claims, lock, tmp,
      inUse, starts>>
cardVars ==
    <<c_file, array, channel, cmd, c_line, dirty, sram, script, job, told, writes, c_starts>>
libraryVars ==
    <<game_so, old, l_tmp, l_pend, l_picker, l_pc, l_forced, keep, l_loaded, dlopened, l_pick,
      now, ok, had>>
discVars ==
    <<stored, copies, d_tmp, grants, d_pend, d_picker, local, d_pc, d_forced, st, d_held,
      d_pick, copied, path, unwritten>>

-----------------------------------------------------------------------------
(* What goes on around the recorded runs and their replays. *)

None == -1
Quiet == [pads |-> {}, pads2 |-> {}, hosts |-> {}, asks |-> {}, schedule |-> <<>>, saveAt |-> None,
          stops |-> {"kill"}, same |-> TRUE, does |-> {"pad", "safe"},
          lastFrame |-> 1, extra |-> 0, maxReads |-> 1, maxAsks |-> 0]

\* Both ports and the host buttons, and both ways to stop.
Ports == [Quiet EXCEPT !.pads = {"a"}, !.pads2 = {"-", "b"}, !.hosts = {"lb"},
                       !.stops = {"kill", "report"}, !.does = {"pad", "pad2"}]

\* The menu, the chord, SOA_ACTION=warp@1,encounters@1 and SOA_SAVE_NOW=1.
Knobs == [Quiet EXCEPT !.hosts = {"view+rs"}, !.asks = {"turbo", "savenow", "warp"},
                       !.schedule = <<[value |-> "warp", frame |-> 1], [value |-> "encounters", frame |-> 1]>>,
                       !.saveAt = 1, !.lastFrame = 2, !.maxAsks = 1]

\* A replayed game that reads at other times than the recorded one, stopped either way.
Polls == [Quiet EXCEPT !.pads = {"a", "b"}, !.same = FALSE, !.stops = {"kill", "report"}, !.does = {"pad"},
                       !.lastFrame = 2, !.maxReads = 2]

AllPlays == {Ports, Knobs, Polls}

\* A library that loads, another, one that is seen not to load only once it is opened,
\* and one that is no library.
FourLibs == {"good", "good2", "spoilt", "wrong"}
FirstLibs == {"none", "good", "wrong"}
LibKinds == [f \in FourLibs |-> CASE f = "spoilt" -> "checks" [] f = "wrong" -> "refused" [] OTHER -> "loads"]

\* Two discs whose copies have one name, and one whose copy has another.
DiscFiles == {"a", "b", "c"}
DiscNames == [f \in DiscFiles |-> IF f = "c" THEN "disc.iso" ELSE "disc.soadisc"]
OnStorage == {"a", "c"}

Track == INSTANCE EventTrack WITH Plays <- AllPlays, phase <- t_phase, file <- t_file
Folders == INSTANCE ModLoad WITH Names <- FolderNames, Installs <- ModInstalls, KilledInSwap <- FALSE
CardPages == 1 .. NPages
Card == INSTANCE MemoryCard WITH Pages <- CardPages, file <- c_file, line <- c_line, starts <- c_starts
Library == INSTANCE GameLibrary
    WITH Kinds <- LibKind, Installed <- LibInstalls, Untried <- FALSE,
         game <- game_so, tmp <- l_tmp, pend <- l_pend, picker <- l_picker, pc <- l_pc,
         forced <- l_forced, loaded <- l_loaded, pick <- l_pick
Disc == INSTANCE DiscImport
    WITH KilledAtRelease <- FALSE,
         tmp <- d_tmp, pend <- d_pend, picker <- d_picker, pc <- d_pc, forced <- d_forced,
         held <- d_held, pick <- d_pick

\* A card has pages, and a sector is made of whole ones.
ASSUME CardAssumption == NPages \in Nat \ {0} /\ Sector \in Nat \ {0}

\* The folders have numbers, SOA_MOD_ORDER gives no two one place, and a mod claims a list
\* of names.
ASSUME FoldersAssumption ==
    \A inst \in ModInstalls :
        /\ IsFiniteSet(DOMAIN inst) /\ DOMAIN inst \subseteq Nat
        /\ \A f \in DOMAIN inst : inst[f].rank \in Nat /\ inst[f].claims \in Seq(STRING)
        /\ \A f, g \in DOMAIN inst : inst[f].rank = inst[g].rank /\ inst[f].rank > 0 => f = g

\* The files the player picks and the names import_copy_name gives are neither of the
\* words that stand for no file and for the disc read in place.
ASSUME FilesAssumption ==
    /\ Discs \subseteq Files
    /\ Disc!None \notin Files \cup Disc!Names
    /\ Disc!Fd \notin Disc!Names

-----------------------------------------------------------------------------

FilesInit ==
    /\ which \in {"save", "track", "mods", "card", "library", "disc"}
    /\ Init /\ Track!Init /\ Folders!Init /\ Card!Init /\ Library!Init /\ Disc!Init
    /\ which # "save" => savers = {} /\ map = 1
    /\ which # "track" => play = Ports
    /\ which # "mods" => installed = CHOOSE i \in ModInstalls : TRUE
    /\ which # "card" => c_file = Card!NoFile
    /\ which # "library" => game_so = "none"
    /\ local \in IF which = "disc" THEN {{}, OnPhone} ELSE {{}}

FilesNext ==
    \/ which = "save" /\ Next
       /\ UNCHANGED <<which, trackVars, folderVars, cardVars, libraryVars, discVars>>
    \/ which = "track" /\ Track!Next
       /\ UNCHANGED <<which, vars, folderVars, cardVars, libraryVars, discVars>>
    \/ which = "mods" /\ Folders!Next
       /\ UNCHANGED <<which, vars, trackVars, cardVars, libraryVars, discVars>>
    \/ which = "card" /\ Card!Next
       /\ UNCHANGED <<which, vars, trackVars, folderVars, libraryVars, discVars>>
    \/ which = "library" /\ Library!Next
       /\ UNCHANGED <<which, vars, trackVars, folderVars, cardVars, discVars>>
    \/ which = "disc" /\ Disc!Next
       /\ UNCHANGED <<which, vars, trackVars, folderVars, cardVars, libraryVars>>

filesVars == <<which, vars, trackVars, folderVars, cardVars, libraryVars, discVars>>
FilesSpec == FilesInit /\ [][FilesNext]_filesVars

-----------------------------------------------------------------------------
(* The components' properties, each of its own behaviours. *)

\* LandsWhereMade (SaveExtension): a Continue lands where a save-now save was made.
Landing == [][which = "save" /\ Continue => map' = file.made /\ (lands' = "here" <=> file.now)]_vars

\* ReplayIsRecording (EventTrack): a replayed game is given what the recorded one was.
ReplayIsRecording == which = "track" => Track!ReplayIsRecording

\* NoStateLost (EventTrack): no pad state, toggle or action the recorded game was given is missing
\* from the file, and a replay that reads at other times is given port 1's in order, none lost.
NoStateLost == which = "track" => Track!NoStateLost

\* LastWord (ModLoad): where two loaded mods write one place, the later one's stands.
LastWord == which = "mods" => Folders!LastWord

\* RefusedWhole (ModLoad): nothing of a mod refused at any step stays behind.
RefusedWhole == which = "mods" => Folders!RefusedWhole

\* ClaimsStand (ModLoad): a number claimed in one start is that mod's in every later one.
ClaimsStand == which = "mods" => Folders!ClaimsStand

\* ToldStays (MemoryCard): what the game was told is written is in the array and the file.
ToldStays == which = "card" => Card!ToldStays

\* LineRises (MemoryCard): a framed write raises the line the game waits for.
LineRises == which = "card" => Card!LineRises

\* LibraryStays (GameLibrary): a pick that will not load never costs the library in use.
LibraryStays == which = "library" => Library!LibraryStays

\* DiscStays (DiscImport): disc.txt names a disc the next launch can read, a run keeps its own.
DiscStays == which = "disc" => Disc!DiscStays

\* PickStays (DiscImport): a pick is forgotten once it is decided, never with another.
PickStays == [][which = "disc" /\ d_pend # "none" /\ d_pend' # d_pend => d_pick = d_pend]_discVars
=============================================================================

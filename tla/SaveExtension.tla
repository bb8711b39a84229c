--------------------------- MODULE SaveExtension ---------------------------
(***************************************************************************)
(* What the port adds to the game's save file (runtime/savext.c): a chunk  *)
(* for each mod that saves, the chunks of the mods not there carried on,   *)
(* and save now's chunk (runtime/savenow.c), with which a save made off a  *)
(* save point lands where it was made in the port and on the last save     *)
(* point's map in the game alone.                                          *)
(*                                                                         *)
(* The snapshot puts whole chunks into the block's gap and holds the rest; *)
(* the image takes them into the file's tail, under the gap's id.  The     *)
(* game writes the image over several frames, and the process may stop at  *)
(* any time.  The claims' chunk, damaged gaps and the log are left out.    *)
(***************************************************************************)
EXTENDS Integers, Sequences, SequencesExt

CONSTANTS
    NMods,        \* the mods are 1 .. NMods, in the order they load
    MaxVal,       \* the largest value of a mod's data (a bound of the model)
    MaxSaves,     \* the most snapshots (a bound of the model)
    Bytes(_, _),  \* the size of a mod's chunk of some data
    GapRoom,      \* GAP_LEN - GAP_HEAD
    TailRoom,     \* TAIL_LEN - TAIL_HEAD
    AllRoom,      \* KEPT_MAX
    Maps,         \* the maps, not 0
    SavePoints    \* those whose script has a save point (savenow_is_save_point)

ASSUME SaveAssumption ==
    /\ NMods \in Nat /\ MaxVal \in Nat /\ MaxSaves \in Nat
    /\ \A m \in 1 .. NMods, v \in 1 .. MaxVal : Bytes(m, v) \in Nat \ {0}
    /\ GapRoom \in Nat \ {0} /\ TailRoom \in Nat /\ AllRoom \in Nat
    /\ GapRoom + TailRoom <= AllRoom
    /\ SavePoints \subseteq Maps /\ 0 \notin Maps

Mods == 1 .. NMods
NOW == 0                       \* SAVENOW_ID
Data == [Mods -> 0 .. MaxVal]  \* 0 for nothing to keep
NoGap == [id |-> 0, chunks |-> <<>>, inTail |-> 0]
NoTail == [id |-> 0, chunks |-> <<>>]

VARIABLES
    phase,        \* the game: "title", "field", "asked" (save.request is 1), "menu"
                  \* (the block is filled), "yes" (the image is made), "half" written
    savers,       \* the mods with on_save, and on_load, in this run
    data,         \* what each mod keeps
    map,          \* the map word the field runs on
    lands,        \* sys15 at the last Continue: "point" (20000) or "here" (0)
    quiet,        \* field_not_quiet says NULL
    pending,      \* g_pending
    opened,       \* g_opened
    lastSp,       \* g_last_sp, 0 for none
    kept,         \* g_kept
    id,           \* g_id, as the count of snapshots
    held,         \* g_tail, g_tail_armed: <<>> when not armed
    block,        \* the game's block, and then its image
    file,         \* the file on the card, NoFile before there is one
    line          \* each mod's data in the save this game last loaded or made
                  \* (nowhere in the code)

game == <<phase, map, lands, quiet>>
port == <<pending, opened, lastSp, kept, id, held>>
vars == <<game, port, savers, data, block, file, line>>

NoBlock == [map |-> 0, gap |-> NoGap, tail |-> NoTail, made |-> 0, now |-> FALSE,
            mods |-> [m \in Mods |-> 0]]
NoFile == NoBlock

\* A chunk: whose, its data, its size, and for save now's the map it was made on
\* and the one in the map word instead, 0 for none.
Chunk(m, v) == [of |-> m, val |-> v, size |-> Bytes(m, v), made |-> 0, instead |-> 0]
NowChunk(mp, inst) == [of |-> NOW, val |-> 0, size |-> 1, made |-> mp, instead |-> inst]

Total(chunks) == FoldLeft(LAMBDA t, c : t + c.size, 0, chunks)

\* The places of m's chunks; the last of them counts.
At(chunks, m) == {i \in DOMAIN chunks : chunks[i].of = m}
LastOf(chunks, m) == chunks[Max(At(chunks, m))]
ValueOf(chunks, m) == IF At(chunks, m) = {} THEN 0 ELSE LastOf(chunks, m).val

-----------------------------------------------------------------------------
(* savenow.c.                                                              *)

\* savenow_request, by the menu's thread.
Request ==
    /\ ~pending
    /\ pending' = TRUE
    /\ UNCHANGED <<game, opened, lastSp, kept, id, held, savers, data, block, file, line>>

\* savenow_safe_point: the last save point's map, and the request asked or refused.
SafePoint ==
    /\ phase = "field"
    /\ lastSp' = IF map \in SavePoints THEN map ELSE lastSp
    /\ pending' = FALSE
    /\ IF pending /\ quiet
       THEN phase' = "asked" /\ opened' = TRUE
       ELSE UNCHANGED <<phase, opened>>
    /\ UNCHANGED <<map, lands, quiet, kept, id, held, savers, data, block, file, line>>

\* savenow_snapshot, of a save this port opened: the map word takes the last
\* save point's map if the save is made off one.
Instead == IF map \notin SavePoints THEN lastSp ELSE 0

-----------------------------------------------------------------------------
(* savext_snapshot.                                                        *)

\* Each mod's own chunk, or the kept one when its own does not fit.
AddOwn(chunks, m) ==
    LET room == AllRoom - Total(chunks)
        was == At(kept, m)
    IN  IF m \notin savers \/ data[m] = 0 THEN chunks
        ELSE IF Bytes(m, data[m]) <= room THEN Append(chunks, Chunk(m, data[m]))
        ELSE IF was # {} /\ kept[Min(was)].size <= room THEN Append(chunks, kept[Min(was)])
        ELSE chunks

Carries_Never(chunks, c) == FALSE
Carries(chunks, c) == c.of \notin savers /\ Total(chunks) + c.size <= AllRoom
AddKept(chunks, c) == IF Carries(chunks, c) THEN Append(chunks, c) ELSE chunks

Gathered ==
    LET now == IF opened THEN <<NowChunk(map, Instead)>> ELSE <<>>
        own == FoldLeft(AddOwn, now, [m \in Mods |-> m])
    IN  FoldLeft(AddKept, own, kept)

\* Whole chunks go into the gap in order while they fit; of the rest, each that
\* still fits goes to the tail.
InGap(all) == CHOOSE n \in 0 .. Len(all) :
                 /\ Total(SubSeq(all, 1, n)) <= GapRoom
                 /\ n < Len(all) => Total(SubSeq(all, 1, n + 1)) > GapRoom
ToTail(all) ==
    FoldLeft(LAMBDA t, c : IF Total(t) + c.size <= TailRoom THEN Append(t, c) ELSE t,
             <<>>, SubSeq(all, InGap(all) + 1, Len(all)))

AfterNow_Kept == opened
AfterNow == FALSE

\* fn_801A456C, as the menu opens: the block filled, and the chunks into it.
Snapshot ==
    /\ phase = "asked" /\ id < MaxSaves
    /\ phase' = "menu" /\ id' = id + 1
    /\ LET all == Gathered
           mods == [m \in Mods |->
                      IF m \notin savers THEN line[m]
                      ELSE IF data[m] # 0 /\ Bytes(m, data[m]) > AllRoom THEN line[m]
                      ELSE data[m]]
           filled == [NoBlock EXCEPT !.made = map, !.now = opened, !.mods = mods,
                          !.map = IF opened /\ Instead # 0 THEN Instead ELSE map]
       IN  IF all = <<>>
           THEN block' = filled /\ held' = <<>>
           ELSE /\ block' = [filled EXCEPT !.gap = [id |-> id + 1, inTail |-> Len(ToTail(all)),
                                 chunks |-> SubSeq(all, 1, InGap(all))]]
                /\ held' = ToTail(all)
    /\ opened' = AfterNow
    /\ UNCHANGED <<map, lands, quiet, pending, lastSp, kept, savers, data, file, line>>

\* The menu is cancelled: the block is let go, what is held waits.
Cancel ==
    /\ phase = "menu"
    /\ phase' = "field" /\ block' = NoBlock
    /\ UNCHANGED <<map, lands, quiet, port, savers, data, file, line>>

\* savext_image, on "Yes": the tail, under the gap's id.
Image ==
    /\ phase = "menu"
    /\ phase' = "yes" /\ held' = <<>>
    /\ block' = IF held = <<>> THEN block
                ELSE [block EXCEPT !.tail = [id |-> id, chunks |-> held]]
    /\ line' = block.mods
    /\ UNCHANGED <<map, lands, quiet, pending, opened, lastSp, kept, id, savers, data, file>>

-----------------------------------------------------------------------------
(* savext_load_pre and savext_load, around the game's own load.            *)

TailBelongs_Any(f) == TRUE
TailBelongs(f) == f.tail.id = f.gap.id

Got(f) ==
    f.gap.chunks \o IF f.gap.inTail > 0 /\ TailBelongs(f) THEN f.tail.chunks ELSE <<>>

\* savenow_load_pre: is it a save-now save, and not one saved again elsewhere.
IsNow(f) ==
    /\ At(Got(f), NOW) # {}
    /\ LastOf(Got(f), NOW).instead = 0 \/ f.map = LastOf(Got(f), NOW).instead

MapOf(f) ==
    IF IsNow(f) /\ LastOf(Got(f), NOW).instead # 0 THEN LastOf(Got(f), NOW).made ELSE f.map

\* What is kept for the next save: the chunks no mod of this run saves itself,
\* and none of the port's own.
IsKept_PortsToo(c) == c.of \notin savers
IsKept(c) == c.of # NOW /\ c.of \notin savers
KeptOf(chunks) == FoldLeft(LAMBDA t, c : IF IsKept(c) THEN Append(t, c) ELSE t, <<>>, chunks)

Continue ==
    /\ phase = "title" /\ file # NoFile
    /\ phase' = "field" /\ quiet' = TRUE
    /\ map' = MapOf(file)
    /\ lands' = IF IsNow(file) THEN "here" ELSE "point"
    /\ data' = [m \in Mods |-> IF m \in savers THEN ValueOf(Got(file), m) ELSE data[m]]
    /\ kept' = KeptOf(Got(file))
    /\ line' = [m \in Mods |-> ValueOf(Got(file), m)]
    /\ UNCHANGED <<pending, opened, lastSp, id, held, savers, block, file>>

\* savext_new_game, at New Game; the mods start over.
NewGame ==
    /\ phase = "title"
    /\ phase' = "field" /\ quiet' = TRUE
    /\ map' \in SavePoints
    /\ kept' = <<>>
    /\ data' = [m \in Mods |-> 0] /\ line' = [m \in Mods |-> 0]
    /\ UNCHANGED <<lands, pending, opened, lastSp, id, held, savers, block, file>>

-----------------------------------------------------------------------------
(* The game and the person at it.                                          *)

\* A field is played: the map, an event, a mod's data.
Walk ==
    /\ phase = "field"
    /\ map' \in Maps /\ quiet' \in BOOLEAN
    /\ UNCHANGED <<phase, lands, port, savers, data, block, file, line>>

Play(m) ==
    /\ phase = "field" /\ m \in savers /\ data[m] < MaxVal
    /\ data' = [data EXCEPT ![m] = @ + 1]
    /\ UNCHANGED <<game, port, savers, block, file, line>>

\* A save point: the game writes the request itself.
AtSavePoint ==
    /\ phase = "field" /\ map \in SavePoints
    /\ phase' = "asked"
    /\ UNCHANGED <<map, lands, quiet, port, savers, data, block, file, line>>

\* The game's writer: the block first, its old tail there still or erased.
WriteBlock ==
    /\ phase = "yes"
    /\ phase' = "half"
    /\ \E old \in {file.tail, NoTail} : file' = [block EXCEPT !.tail = old]
    /\ UNCHANGED <<map, lands, quiet, port, savers, data, block, line>>

WriteTail ==
    /\ phase = "half"
    /\ phase' = "field"
    /\ file' = block /\ block' = NoBlock
    /\ UNCHANGED <<map, lands, quiet, port, savers, data, line>>

ToTitle ==
    /\ phase = "field"
    /\ phase' = "title"
    /\ UNCHANGED <<map, lands, quiet, port, savers, data, block, file, line>>

\* The process ends or stops anywhere, and another run has other mods.
Restart ==
    /\ phase' = "title" /\ savers' \in SUBSET Mods
    /\ pending' = FALSE /\ opened' = FALSE /\ lastSp' = 0
    /\ kept' = <<>> /\ held' = <<>> /\ block' = NoBlock
    /\ data' = [m \in Mods |-> 0] /\ line' = [m \in Mods |-> 0]
    /\ UNCHANGED <<map, lands, quiet, id, file>>

-----------------------------------------------------------------------------

Init ==
    /\ phase = "title" /\ map \in SavePoints /\ lands = "point" /\ quiet = TRUE
    /\ pending = FALSE /\ opened = FALSE /\ lastSp = 0
    /\ kept = <<>> /\ id = 0 /\ held = <<>>
    /\ savers \in SUBSET Mods /\ data = [m \in Mods |-> 0]
    /\ block = NoBlock /\ file = NoFile /\ line = [m \in Mods |-> 0]

Next ==
    \/ Request \/ SafePoint \/ Snapshot \/ Cancel \/ Image \/ Continue \/ NewGame
    \/ Walk \/ (\E m \in Mods : Play(m)) \/ AtSavePoint
    \/ WriteBlock \/ WriteTail \/ ToTitle \/ Restart

Spec == Init /\ [][Next]_vars

-----------------------------------------------------------------------------

\* The file is written to its end.
Whole == file.gap.inTail > 0 => file.tail.id = file.gap.id

\* A save holds for each mod what the mod last had saved in this game: its own
\* when it is there, what came with the game when it is not, whatever runs
\* without it, cancelled menus and saves by others lie between.
ChunksCarried == Whole => \A m \in Mods : ValueOf(Got(file), m) = file.mods[m]

\* A load takes no chunk from another save's tail, though the file was left
\* half written.
OneSave ==
    \A m \in Mods : ValueOf(Got(file), m) \in {0, file.mods[m]}

\* A Continue lands where a save-now save was made, and at its save point after
\* any other.
LandsWhereMade ==
    [][Continue => map' = file.made /\ (lands' = "here" <=> file.now)]_vars

=============================================================================

--------------------------- MODULE OverlayFrames ---------------------------
(***************************************************************************)
(* What mods draw over the picture (runtime/overlay.c): the guest thread   *)
(* adds mods' draws to the frame it builds and hands it over at each frame *)
(* end (mod.c mod_frame); the window thread takes the newest at a present. *)
(*                                                                         *)
(* A draw is whose it is and its bytes of text, none for a rectangle.  A   *)
(* slot has the draws of its frame; g_shared is the middle slot and FRESH. *)
(***************************************************************************)
EXTENDS Integers, Sequences

CONSTANTS
    Mods,         \* the mods loaded (g_cur_mod)
    TextSizes,    \* the lengths of text a mod draws, 0 for a rectangle
    Cmds,         \* OVERLAY_CMDS, every mod's draws a frame
    Text,         \* OVERLAY_TEXT
    ModCmds,      \* OVERLAY_MOD_CMDS, a mod's draws a frame
    ModText       \* OVERLAY_MOD_TEXT

ASSUME OverlayAssumption ==
    /\ TextSizes \subseteq Nat
    /\ Cmds \in Nat /\ Text \in Nat /\ ModCmds \in Nat /\ ModText \in Nat

Slots == 0 .. 2
Draw == [mod : Mods, text : TextSizes]

VARIABLES
    draws,        \* g_frame[s].cmd
    used,         \* g_frame[s].used, bytes of text
    modCmds,      \* g_mod_cmds
    modText,      \* g_mod_text
    shared,       \* g_shared: a slot, and is it newer than the window thread's
    back,         \* g_back
    front,        \* g_front
    lastN,        \* g_last_n
    ended,        \* the draws of the frame that ended last (nowhere in the code)
    tpc           \* is the window thread between overlay_take's look and its swap

vars == <<draws, used, modCmds, modText, shared, back, front, lastN, ended, tpc>>

-----------------------------------------------------------------------------
(* The guest thread.                                                       *)

Room_Reset(m, len) == Len(draws[back]) < Cmds /\ used[back] + len <= Text
Room(m, len) ==
    /\ Len(draws[back]) < Cmds /\ modCmds[m] < ModCmds
    /\ used[back] + len <= Text /\ modText[m] + len <= ModText

\* overlay_rect and overlay_text; one past the room is refused and changes
\* nothing.
Add(m, len) ==
    /\ Room(m, len)
    /\ draws' = [draws EXCEPT ![back] = Append(@, [mod |-> m, text |-> len])]
    /\ used' = [used EXCEPT ![back] = @ + len]
    /\ modCmds' = [modCmds EXCEPT ![m] = @ + 1]
    /\ modText' = [modText EXCEPT ![m] = @ + len]
    /\ UNCHANGED <<shared, back, front, lastN, ended, tpc>>

NothingNew_OnlyNow == draws[back] = <<>>
NothingNew == draws[back] = <<>> /\ lastN = 0

\* plat_xchg64: the slot that was between the threads is the next to build.
Displaced == shared.slot

\* overlay_publish, at each frame end.
Publish ==
    /\ ended' = draws[back]
    /\ IF NothingNew
       THEN UNCHANGED <<draws, used, modCmds, modText, shared, back, lastN>>
       ELSE /\ lastN' = Len(draws[back])
            /\ shared' = [slot |-> back, fresh |-> TRUE]
            /\ back' = Displaced
            /\ draws' = [draws EXCEPT ![Displaced] = <<>>]
            /\ used' = [used EXCEPT ![Displaced] = 0]
            /\ modCmds' = [m \in Mods |-> 0]
            /\ modText' = [m \in Mods |-> 0]
    /\ UNCHANGED <<front, tpc>>

-----------------------------------------------------------------------------
(* The window thread.                                                      *)

TakeLook ==
    /\ ~tpc /\ shared.fresh
    /\ tpc' = TRUE
    /\ UNCHANGED <<draws, used, modCmds, modText, shared, back, front, lastN, ended>>

TakeSwap ==
    /\ tpc
    /\ front' = shared.slot
    /\ shared' = [slot |-> front, fresh |-> FALSE]
    /\ tpc' = FALSE
    /\ UNCHANGED <<draws, used, modCmds, modText, back, lastN, ended>>

-----------------------------------------------------------------------------

Init ==
    /\ draws = [s \in Slots |-> <<>>]
    /\ used = [s \in Slots |-> 0]
    /\ modCmds = [m \in Mods |-> 0] /\ modText = [m \in Mods |-> 0]
    /\ shared = [slot |-> 1, fresh |-> FALSE]
    /\ back = 0 /\ front = 2
    /\ lastN = 0 /\ ended = <<>> /\ tpc = FALSE

Next ==
    \/ \E m \in Mods, len \in TextSizes : Add(m, len)
    \/ Publish \/ TakeLook \/ TakeSwap

Spec == Init /\ [][Next]_vars

-----------------------------------------------------------------------------

TypeOK ==
    /\ draws \in [Slots -> Seq(Draw)]
    /\ used \in [Slots -> Nat]
    /\ modCmds \in [Mods -> Nat] /\ modText \in [Mods -> Nat]
    /\ shared \in [slot : Slots, fresh : BOOLEAN]
    /\ back \in Slots /\ front \in Slots
    /\ lastN \in Nat /\ ended \in Seq(Draw) /\ tpc \in BOOLEAN

\* Each thread has a slot of its own and the third is between them.
Roles == back # front /\ back # shared.slot /\ front # shared.slot

\* What the window thread shows, or is about to take, is what the frame that
\* ended last drew: nothing once mods stop drawing, although an empty frame
\* after an empty one is not handed over.
InStep == ended = draws[IF shared.fresh THEN shared.slot ELSE front]

OverlayInv ==
    /\ TypeOK /\ Roles /\ InStep
    /\ lastN = Len(ended)
    /\ tpc => shared.fresh

\* No frame is past the room its buffers have.
RoomHolds == \A s \in Slots : Len(draws[s]) <= Cmds /\ used[s] <= Text

\* No mod's draws crowd out another's past what each is promised a frame: a
\* mod's count is of its draws in the frame being built, and of no other's.
FairShares ==
    \A m \in Mods :
        /\ modCmds[m] = Len(SelectSeq(draws[back], LAMBDA d : d.mod = m))
        /\ modCmds[m] <= ModCmds /\ modText[m] <= ModText

\* "Each side owns its frame outright between swaps."
ShownKeeps == [][front' = front => draws'[front] = draws[front] /\ used'[front] = used[front]]_vars

\* The hand-over is a box with the newest frame in it.
Box == INSTANCE FrameBox WITH
           Pictures <- Seq(Draw), First <- <<>>, offered <- ended,
           isNew <- shared.fresh, shown <- draws[front]
ImplementsBox == Box!Spec
=============================================================================

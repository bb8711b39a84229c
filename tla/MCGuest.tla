------------------------------ MODULE MCGuest ------------------------------
(* What makes a frame, for TLC: the guest's clock, the mods' callbacks with   *)
(* the calls they make into the game, the mods' patches, the frames of what   *)
(* mods draw, the Vulkan backend's two frames in flight and its compiler      *)
(* thread, the game's ARAM requests, and the file table built before it all.  *)
(* They share no state here, so a behaviour runs one of them, chosen at the   *)
(* start.                                                                     *)
EXTENDS OverlayFrames, ClockConstants, AramConstants, BackendConstants, TLC

CONSTANTS Registered, Scenes, MaxDepth    \* ModCallbacks'

VARIABLES
    which,        \* "overlay", "clock", "calls", "patches", "gpu", "aram", "pipes" or "table"
    \* Clock's
    host, started, origin, last, guest, speed, excluded, req, paused, pc, call, old, asked,
    worth, satOut,
    \* ModCallbacks'
    stack, cur, atSafe, inRenderer, regs, field, told, drew,
    \* ModPatches'
    mem, disc, pointer, map, state, lastMap, reload, fired, p_slots, settled,
    \* GpuSlots'
    seq, g, window, pair, exact,
    \* AramQueue's
    queue, pending, callback, chunk, a_req, dma, raised, inCallback, fetch, moved, a_told,
    posts,
    \* PipeCompiler's
    mode, pipes, head, tail, job, draw, thread, stop, running, drawn, p_draws,
    \* FileTable's
    stage, ops, refused, pos, t_table, claims, extents, cursor, t_mem, offset, out

clockVars ==
    <<host, started, origin, last, guest, speed, excluded, req, paused, pc, call, old, asked,
      worth, satOut>>
callVars == <<stack, cur, atSafe, inRenderer, regs, field, told, drew>>
patchVars == <<mem, disc, pointer, map, state, lastMap, reload, fired, p_slots, settled>>
gpuVars == <<seq, g, window, pair, exact>>
aramVars ==
    <<queue, pending, callback, chunk, a_req, dma, raised, inCallback, fetch, moved, a_told,
      posts>>
pipeVars == <<mode, pipes, head, tail, job, draw, thread, stop, running, drawn, p_draws>>
tableVars ==
    <<stage, ops, refused, pos, t_table, claims, extents, cursor, t_mem, offset, out>>
guestVars ==
    <<which, vars, clockVars, callVars, patchVars, gpuVars, aramVars, pipeVars, tableVars>>

Clk == INSTANCE Clock

\* Two mods, each with the hooks the other lacks and some of the same.
Both == {"safe", "effect", "texture"}
Second == {"scene", "frame", "event"}
Hooks == [k \in Both \cup Second \cup {"map", "pad", "projection"} |->
            IF k \in Both THEN <<"m1", "m2">> ELSE IF k \in Second THEN <<"m2">> ELSE <<"m1">>]
Calls == INSTANCE ModCallbacks

\* A factor over a run of targets, a word kept at a value, one set once, and a
\* factor on a word of no table.
Patch(t, cs) == [trigger |-> t, ptr |-> TRUE, cells |-> cs, mul |-> FALSE,
                 num |-> 3, den |-> 1, map |-> "none", enc |-> FALSE]
Factor(cs, n, d) == [Patch("load", cs) EXCEPT !.mul = TRUE, !.num = n, !.den = d]
Patched == <<[Factor({0, 1}, 1, 2) EXCEPT !.enc = TRUE],
             [Patch("every", {1}) EXCEPT !.map = "b"],
             [Patch("once", {5}) EXCEPT !.ptr = FALSE],
             [Factor({5}, 5, 2) EXCEPT !.ptr = FALSE]>>
\* A table of two words, one whose last word lies past RAM, a map without a
\* table, and map 099 with one beside the game's code.
FourMaps == ("a" :> [base |-> 3, words |-> (0 :> 4 @@ 1 :> 6)])
            @@ ("b" :> [base |-> 6, words |-> (0 :> 4)])
            @@ ("c" :> [base |-> 0, words |-> (0 :> 4)])
            @@ ("w" :> [base |-> 1, words |-> (0 :> 8)])
Patches == INSTANCE ModPatches WITH
              Patches <- Patched, Maps <- FourMaps, WorldMap <- "w", RamTop <- 6,
              Text <- {2}, MaxValue <- 9, slots <- p_slots

\* A copy of two cells that writes the first, and one of the second alone.
Copies == {[span |-> {1, 2}, writes |-> {1}, image |-> TRUE],
           [span |-> {2}, writes |-> {2}, image |-> FALSE]}
Gpu == INSTANCE GpuSlots

\* One high request, two low ones of more than a chunk, and the package cache's.
Blocks == [h |-> [priority |-> "hi", length |-> 2], l |-> [priority |-> "lo", length |-> 4],
           k |-> [priority |-> "lo", length |-> 3], f |-> [priority |-> "lo", length |-> 2]]
Aram == INSTANCE AramQueue WITH req <- a_req, told <- a_told

Pipes == INSTANCE PipeCompiler WITH table <- pipes, draws <- p_draws

\* x, d/y, d/e/z and w on the disc; the lines two mods may have of it, the
\* first up to two and the second one.
OnDisc(name, at, size) == [dir |-> FALSE, name |-> name, a |-> at, b |-> size]
Directory(name, parent, end) == [dir |-> TRUE, name |-> name, a |-> parent, b |-> end]
SmallDisc == 0 :> Directory("", 0, 7) @@ 1 :> OnDisc("x", 2, 2) @@ 2 :> Directory("d", 0, 6)
             @@ 3 :> OnDisc("y", 6, 1) @@ 4 :> Directory("e", 2, 6) @@ 5 :> OnDisc("z", 4, 2)
             @@ 6 :> OnDisc("w", 8, 0)
FileLine(verb, path, target, size) ==
    [verb |-> verb, path |-> path, target |-> target, size |-> size]
FileLines ==
    {FileLine("replace", <<"x">>, <<>>, 1), FileLine("replace", <<"d", "y">>, <<>>, 3),
     FileLine("replace", <<"d">>, <<>>, 1), FileLine("add", <<"d", "n">>, <<>>, 1),
     FileLine("add", <<"d", "e", "n">>, <<>>, 2), FileLine("add", <<"q", "n">>, <<>>, 1),
     FileLine("add", <<"x">>, <<>>, 1), FileLine("add", <<"n">>, <<>>, 4),
     FileLine("add", <<>>, <<>>, 1), FileLine("alias", <<"d", "e", "m">>, <<"x">>, 0),
     FileLine("alias", <<"m">>, <<"d", "n">>, 0),
     FileLine("alias", <<"p">>, <<"d", "e", "m">>, 0),
     FileLine("alias", <<"x">>, <<"d", "y">>, 0)}
LinesUpTo(n) == UNION {[1 .. k -> FileLines] : k \in 0 .. n}
Of(mod, lines) == [i \in DOMAIN lines |-> lines[i] @@ ("mod" :> mod)]
TwoMods == {Of(1, one) \o Of(2, other) : one \in LinesUpTo(2), other \in LinesUpTo(1)}
Table == INSTANCE FileTable WITH
            Base <- SmallDisc, Lines <- TwoMods, SourceCap <- 3, MemCap <- 5, Covered <- 12,
            OverlayBase <- 14, OverlayEnd <- 22, Align <- 2, table <- t_table, mem <- t_mem

\* Of the components that are not the behaviour's, one initial state.
GuestInit ==
    /\ which \in {"overlay", "clock", "calls", "patches", "gpu", "aram", "pipes", "table"}
    /\ Init /\ Clk!Init /\ Calls!Init /\ Patches!Init /\ Gpu!Init /\ Aram!Init
    /\ Pipes!Init /\ (which # "pipes" => mode = "off")
    /\ (which # "table" => ops = <<>>) /\ Table!Init
    /\ which # "patches" => map = "a"

\* The components but for one.
Beside(w) ==
    /\ which = w /\ UNCHANGED which
    /\ w # "overlay" => UNCHANGED vars
    /\ w # "clock" => UNCHANGED clockVars
    /\ w # "calls" => UNCHANGED callVars
    /\ w # "patches" => UNCHANGED patchVars
    /\ w # "gpu" => UNCHANGED gpuVars
    /\ w # "aram" => UNCHANGED aramVars
    /\ w # "pipes" => UNCHANGED pipeVars
    /\ w # "table" => UNCHANGED tableVars

\* The game started or not, the backend shut down, no more to ask for: the
\* rest stands still.
Over ==
    \/ which = "table" /\ stage \in {"run", "stopped"}
    \/ which = "pipes" /\ draw.at = "gone"
    \/ which = "aram" /\ posts >= MaxPosts /\ fetch.at = "out" /\ dma = {} /\ ~raised
       /\ inCallback = "none"

GuestNext ==
    \/ Beside("overlay") /\ Next
    \/ Beside("clock") /\ Clk!Next
    \/ Beside("calls") /\ Calls!Next
    \/ Beside("patches") /\ Patches!Next
    \/ Beside("gpu") /\ Gpu!Next
    \/ Beside("aram") /\ Aram!Next
    \/ Beside("pipes") /\ Pipes!Next
    \/ Beside("table") /\ Table!Next
    \/ Over /\ UNCHANGED guestVars

GuestSpec == GuestInit /\ [][GuestNext]_guestVars

-----------------------------------------------------------------------------
(* The components' properties, under the names they have in their modules.    *)

\* Accounted (Clock): guest time is the host's at its speeds, less the held.
Accounted == Clk!Accounted
\* Attribution (ModCallbacks): whose callback runs is who is counted, and the
\* game never sees a call a mod made.
Attribution == Calls!Attribution
\* FactorsOnce (ModPatches): a factor neither compounds nor is left out.
FactorsOnce == Patches!FactorsOnce
\* DrawsSampleTheirs (GpuSlots): a draw's texels are those it was recorded with.
DrawsSampleTheirs == Gpu!DrawsSampleTheirs
\* LandedIsThere (GpuSlots): what is said to have landed is in guest RAM.
LandedIsThere == Gpu!LandedIsThere
\* ScreensWhole (GpuSlots): the window's pictures are whole, and in order.
ScreensWhole == Gpu!ScreensWhole
\* NoneStranded (GpuSlots): an idle consumer leaves no copy unlanded.
NoneStranded == Gpu!NoneStranded
\* RequestsServed (AramQueue): a callback comes when its request has been moved whole.
RequestsServed == Aram!RequestsServed
\* DrawnWithItsOwn (PipeCompiler): a draw gets its own shape's pipeline, or its state's.
DrawnWithItsOwn == Pipes!DrawnWithItsOwn
\* EachPathItsFile (FileTable): each path reads what the mods that stand made of it.
EachPathItsFile == Table!EachPathItsFile
=============================================================================

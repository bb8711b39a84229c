----------------------------- MODULE ModPatches -----------------------------
(***************************************************************************)
(* The mods' patches (mod.c): at each frame end, after the game's own      *)
(* frame, every patch whose trigger and conditions hold writes its targets *)
(* -- words of RAM, or of a table a pointer finds only now -- with a value *)
(* or with what is there times a factor.  The game reloads its tables as   *)
(* maps load, putting back the disc's words or leaving what it has.  A     *)
(* cell stands for the bytes a patch writes at one target.                 *)
(***************************************************************************)
EXTENDS Naturals, Sequences, SequencesExt

CONSTANTS Patches,   \* g_patches, in order: records [trigger, ptr, cells, mul,
                     \* num, den, map, enc], cells being off + z * stride
          Maps,      \* each map's table: [base, words], base 0 for none
          WorldMap,  \* map 099
          RamTop,    \* the last address of RAM
          Text,      \* the DOL's code
          MaxValue   \* what the width holds

VARIABLES mem,       \* RAM
          disc,      \* the words as the game left them (nowhere in the code)
          pointer,   \* the word at the pointer's address
          map,       \* the committed map
          state,     \* FIELD_STATE: "run" is 8, "load" 3 or 5
          lastMap,   \* g_last_map
          reload,    \* g_patch_reload
          fired,     \* the once patches that have run
          slots,     \* g_slots: what a factor last wrote at each target
          settled    \* has a frame ended since the field last began to run

vars == <<mem, disc, pointer, map, state, lastMap, reload, fired, slots, settled>>

NoMap == "none"
NoSlot == [key |-> NoMap, addr |-> 0, wrote |-> 0]
Ram == 1 .. RamTop
Numbers == DOMAIN Patches
Factors == {p \in Numbers : Patches[p].mul}

Put(memory, m) ==
    [a \in Ram |-> IF a - Maps[m].base \in DOMAIN Maps[m].words /\ Maps[m].base > 0
                   THEN Maps[m].words[a - Maps[m].base] ELSE memory[a]]

Init ==
    /\ mem = [a \in Ram |-> 1] /\ disc = mem
    /\ pointer = 0 /\ map \in DOMAIN Maps /\ state = "load"
    /\ lastMap = NoMap /\ reload = FALSE /\ fired = {}
    /\ slots = [p \in Factors |-> [c \in Patches[p].cells |-> NoSlot]]
    /\ settled = FALSE

-----------------------------------------------------------------------------
(* The frame end: mod_frame, apply_patch *)

Loaded == state = "run" /\ (map # lastMap \/ reload)
Due(p, done) ==
    /\ Patches[p].trigger = "once" => p \notin done
    /\ Patches[p].trigger = "load" => Loaded
    /\ Patches[p].map \in {NoMap, map}

\* A null pointer, and map 099's through the encounter table's, are passed over.
Reachable(p) ==
    Patches[p].ptr => pointer # 0 /\ ~(Patches[p].enc /\ map = WorldMap)
Address(p, c) == IF Patches[p].ptr THEN pointer + c ELSE c
\* target_ok: a pointer's target is known only now.
TargetOk(a) == a \in Ram \ Text

Scaled(p, was) ==
    LET v == (was * Patches[p].num) \div Patches[p].den
    IN IF v > MaxValue THEN MaxValue ELSE v
\* A load that left the word as this patch made it: not multiplied again.
Left_Never(slot, a, was) == FALSE
Left(slot, a, was) == slot.key = map /\ slot.addr = a /\ slot.wrote = was
Wrote(p, was) == IF Patches[p].mul THEN Scaled(p, was) ELSE Patches[p].num

Apply(run, p) ==
    LET cells == {c \in Patches[p].cells :
                    /\ TargetOk(Address(p, c))
                    /\ Patches[p].mul => ~Left(run.slots[p][c], Address(p, c),
                                               run.mem[Address(p, c)])}
        at == {Address(p, c) : c \in cells}
    IN IF ~Due(p, run.fired) \/ ~Reachable(p) THEN run
       ELSE [mem |-> [a \in Ram |-> IF a \in at THEN Wrote(p, run.mem[a]) ELSE run.mem[a]],
             fired |-> IF cells # {} THEN run.fired \cup {p} ELSE run.fired,
             slots |-> IF ~Patches[p].mul THEN run.slots
                       ELSE [run.slots EXCEPT ![p] = [c \in Patches[p].cells |->
                               IF c \in cells
                               THEN [key |-> map, addr |-> Address(p, c),
                                     wrote |-> Scaled(p, run.mem[Address(p, c)])]
                               ELSE run.slots[p][c]]]]

Applied == FoldLeft(Apply, [mem |-> mem, fired |-> fired, slots |-> slots],
                    [p \in Numbers |-> p])

FrameEnd ==
    /\ mem' = Applied.mem /\ fired' = Applied.fired /\ slots' = Applied.slots
    /\ lastMap' = IF state = "run" THEN map ELSE lastMap
    /\ reload' = (state # "run" /\ (reload \/ state = "load"))
    /\ settled' = (state = "run")
    /\ UNCHANGED <<disc, pointer, map, state>>

-----------------------------------------------------------------------------
(* The game *)

\* A load lasts frames, so a frame end sees it.
LoadBegins(m) ==
    /\ state = "run" /\ settled
    /\ state' = "load" /\ map' = m /\ settled' = FALSE
    /\ UNCHANGED <<mem, disc, pointer, lastMap, reload, fired, slots>>

\* Another map's words come from the disc; the same map's may be left.
LoadEnds(left) ==
    /\ state = "load" /\ (reload \/ lastMap = NoMap) /\ (left => map = lastMap)
    /\ state' = "run" /\ settled' = FALSE
    /\ pointer' = Maps[map].base
    /\ mem' = IF left THEN mem ELSE Put(mem, map)
    /\ disc' = IF left THEN disc ELSE Put(disc, map)
    /\ UNCHANGED <<map, lastMap, reload, fired, slots>>

\* A scene that is not the field's.
Elsewhere ==
    /\ settled /\ state' = IF state = "run" THEN "else" ELSE "run"
    /\ settled' = FALSE
    /\ state \in {"run", "else"}
    /\ UNCHANGED <<mem, disc, pointer, map, lastMap, reload, fired, slots>>

Next == FrameEnd \/ (\E m \in DOMAIN Maps : LoadBegins(m))
        \/ (\E left \in BOOLEAN : LoadEnds(left)) \/ Elsewhere

Spec == Init /\ [][Next]_vars

-----------------------------------------------------------------------------
(* Properties *)

\* What the patches make of a word, each of them once, in their order.
Patching(a) ==
    SelectSeq([p \in Numbers |-> p],
              LAMBDA p : /\ Patches[p].trigger # "once" /\ Reachable(p)
                         /\ Patches[p].map \in {NoMap, map}
                         /\ a \in {Address(p, c) : c \in Patches[p].cells})
OnceEach(a) == FoldLeft(LAMBDA v, p : Wrote(p, v), disc[a], Patching(a))

\* While the field runs, every word of the map's table holds what the disc has
\* with each patch applied once, whichever maps were loaded before and whether
\* a reload put the words back: a factor neither compounds nor is left out, and
\* the game's code, which a pointer may reach, is as it was (apply_patch).
FactorsOnce ==
    settled =>
        \A a \in Ram : mem[a] = IF a \in Text THEN 1
                                ELSE IF a - pointer \in DOMAIN Maps[map].words /\ pointer > 0
                                THEN OnceEach(a) ELSE mem[a]
=============================================================================

---------------------------- MODULE ModCallbacks ----------------------------
(***************************************************************************)
(* The mods' callbacks and the calls they make into the game (mod.c): the  *)
(* dispatchers that the game's own code raises -- the safe point with what *)
(* it derives, the frame end, the controller read, the projection, the     *)
(* texture and the battle's events -- each running the mods registered     *)
(* with it in load order, and call_guest, which runs the game's code from  *)
(* inside a callback, so that dispatchers nest.  One guest thread runs all *)
(* of it: the stack is its host stack.                                     *)
(***************************************************************************)
EXTENDS Naturals, Sequences, FiniteSets

CONSTANTS Registered,  \* g_cb: each kind's mods, in load order
          Scenes,      \* what the game's scene word holds
          MaxDepth     \* a bound of the model on the stack

VARIABLES stack,       \* the dispatchers, guest calls and handlers entered
          cur,         \* g_cur_mod
          atSafe,      \* g_at_safe_point
          inRenderer,  \* g_in_renderer
          regs,        \* the guest's registers, as a value
          field,       \* the words at SCENE_ID and FIELD_STATE
          told,        \* g_last_scene and g_seen_scene, g_loading
          drew         \* the mods that drew since the last frame end

vars == <<stack, cur, atSafe, inRenderer, regs, field, told, drew>>

Nobody == "nobody"
Events == {"event", "effect"}
SafeKinds == {"safe", "scene", "map"}
Kinds == SafeKinds \cup {"frame", "pad", "projection", "texture"} \cup Events
Renderer == {"projection", "texture"}
States == {"load", "run", "else"}    \* FIELD_STATE 3 or 5, FIELD_RUNNING, others

Main == [kind |-> "main"]
Top == IF stack = <<>> THEN Main ELSE stack[Len(stack)]
Pop == SubSeq(stack, 1, Len(stack) - 1)
Under(frame) == [stack EXCEPT ![Len(stack)] = frame]

\* The game's code runs: its own, a function a mod called, or a handler.
GameRuns == Top.kind \in {"main", "guest", "irq"}
InCallback == Top.kind \in Kinds /\ Top.inside
BetweenCallbacks == Top.kind \in Kinds /\ ~Top.inside
Handler == \E d \in DOMAIN stack : stack[d].kind = "irq"

Init ==
    /\ stack = <<>> /\ cur = Nobody /\ atSafe = FALSE /\ inRenderer = FALSE
    /\ regs = 0 /\ field = [scene |-> CHOOSE s \in Scenes : TRUE, state |-> "else"]
    /\ told = [scene |-> CHOOSE s \in Scenes : TRUE, seen |-> FALSE, loading |-> FALSE]
    /\ drew = {}

-----------------------------------------------------------------------------
(* The game *)

\* It moves its registers, its scene and its state.
GameStep ==
    /\ GameRuns
    /\ \E r \in 0 .. 1, s \in Scenes, t \in States :
          regs' = r /\ field' = [scene |-> s, state |-> t]
    /\ UNCHANGED <<stack, cur, atSafe, inRenderer, told, drew>>

Interrupt ==
    /\ GameRuns /\ ~Handler /\ Len(stack) < MaxDepth
    /\ stack' = Append(stack, [kind |-> "irq", saved |-> regs])
    /\ UNCHANGED <<cur, atSafe, inRenderer, regs, field, told, drew>>
HandlerReturns ==
    /\ Top.kind = "irq"
    /\ stack' = Pop /\ regs' = Top.saved
    /\ UNCHANGED <<cur, atSafe, inRenderer, field, told, drew>>

-----------------------------------------------------------------------------
(* The dispatchers *)

\* was and was_in are put back, since this can run inside call_guest; the safe
\* point comes at the top of the main loop only, and reads the game's words first.
Entered(k) == [kind |-> k, next |-> 1, inside |-> FALSE, was |-> cur,
               wasIn |-> inRenderer, field |-> field, entry |-> regs]
Enter(k) ==
    /\ GameRuns /\ Len(stack) < MaxDepth
    /\ IF k = "safe" THEN stack = <<>> ELSE k \notin SafeKinds
    /\ stack' = Append(stack, Entered(k))
    /\ atSafe' = (atSafe \/ k = "safe")
    /\ inRenderer' = (inRenderer \/ k \in Renderer)
    /\ UNCHANGED <<cur, regs, field, told, drew>>

CallBack ==
    /\ BetweenCallbacks /\ Top.next <= Len(Registered[Top.kind])
    /\ cur' = Registered[Top.kind][Top.next]
    /\ stack' = Under([Top EXCEPT !.inside = TRUE])
    /\ UNCHANGED <<atSafe, inRenderer, regs, field, told, drew>>

\* An event's end puts the mod back after each callback, the others after all.
AfterCall(k, was) == IF k \in Events THEN was ELSE cur
\* A texture a provider answers, and an effect a mod cancels, go no further.
CallBackReturns(ends) ==
    /\ InCallback /\ (ends => Top.kind \in {"texture", "effect"})
    /\ cur' = AfterCall(Top.kind, Top.was)
    /\ stack' = Under([Top EXCEPT !.inside = FALSE,
                                  !.next = IF ends THEN Len(Registered[Top.kind]) + 1
                                           ELSE @ + 1])
    /\ UNCHANGED <<atSafe, inRenderer, regs, field, told, drew>>

Finished(kinds) ==
    BetweenCallbacks /\ Top.kind \in kinds /\ Top.next > Len(Registered[Top.kind])

\* After the safe point's own callbacks, a scene change if there was one, then
\* a map loaded: the field running after a load state was seen.
SceneChanged == told.seen /\ Top.field.scene # told.scene
MapLoaded == Top.field.state = "run" /\ told.loading
SafeDone ==
    /\ Finished({"safe"})
    /\ stack' = Under([Top EXCEPT !.kind = "scene",
                                  !.next = IF SceneChanged THEN 1
                                           ELSE Len(Registered["scene"]) + 1])
    /\ UNCHANGED <<cur, atSafe, inRenderer, regs, field, told, drew>>
SceneDone ==
    /\ Finished({"scene"})
    /\ told' = [scene |-> Top.field.scene, seen |-> TRUE,
                loading |-> Top.field.state = "load" \/ (told.loading /\ ~MapLoaded)]
    /\ stack' = Under([Top EXCEPT !.kind = "map",
                                  !.next = IF MapLoaded THEN 1
                                           ELSE Len(Registered["map"]) + 1])
    /\ UNCHANGED <<cur, atSafe, inRenderer, regs, field, drew>>
MapDone ==
    /\ Finished({"map"})
    /\ stack' = Pop /\ atSafe' = FALSE /\ cur' = Nobody
    /\ UNCHANGED <<inRenderer, regs, field, told, drew>>

\* A frame end publishes what was drawn.
PutBack_Nobody(was) == Nobody
PutBack(was) == was
Leave ==
    /\ Finished(Kinds \ SafeKinds)
    /\ stack' = Pop
    /\ cur' = PutBack(Top.was)
    /\ inRenderer' = Top.wasIn
    /\ drew' = IF Top.kind = "frame" THEN {} ELSE drew
    /\ UNCHANGED <<atSafe, regs, field, told>>

-----------------------------------------------------------------------------
(* What a callback may do *)

\* api_call_guest: refused outside the safe point and inside a handler.
MayCall == atSafe /\ ~Handler
CallGuest ==
    /\ InCallback /\ MayCall /\ Len(stack) < MaxDepth
    /\ stack' = Append(stack, [kind |-> "guest", saved |-> regs])
    /\ UNCHANGED <<cur, atSafe, inRenderer, regs, field, told, drew>>

\* Every register put back.
Returned_Left(saved, left) == left
Returned(saved, left) == saved
GuestReturns ==
    /\ Top.kind = "guest"
    /\ stack' = Pop /\ regs' = Returned(Top.saved, regs)
    /\ UNCHANGED <<cur, atSafe, inRenderer, field, told, drew>>

\* draw_from: not from a texture provider or a projection filter.
MayDraw == ~inRenderer /\ cur # Nobody
DrawOne ==
    /\ InCallback /\ MayDraw
    /\ drew' = drew \cup {cur}
    /\ UNCHANGED <<stack, cur, atSafe, inRenderer, regs, field, told>>

Next ==
    \/ GameStep \/ Interrupt \/ HandlerReturns
    \/ \E k \in Kinds : Enter(k)
    \/ CallBack \/ (\E ends \in BOOLEAN : CallBackReturns(ends))
    \/ SafeDone \/ SceneDone \/ MapDone \/ Leave
    \/ CallGuest \/ GuestReturns \/ DrawOne

Spec == Init /\ [][Next]_vars

-----------------------------------------------------------------------------
(* Properties *)

Caller(d) == Registered[stack[d].kind][stack[d].next]

\* A dispatcher leaves the registers as the game had them when it was raised,
\* whatever the callbacks called: "the frame the game is about to run never
\* sees the call" (mod_call_guest).
RegsPutBack == BetweenCallbacks => regs = Top.entry

\* Whatever nests in what, a log line, a write, a draw and a fault are counted
\* to the mod whose callback runs, draws are refused inside the renderer's
\* callbacks and taken outside them, and once the game's main loop runs on
\* nothing of a callback is left: not the mod, not its place, not a register
\* it moved (g_cur_mod, g_in_renderer, g_at_safe_point, mod_call_guest).
Attribution ==
    /\ InCallback => cur = Caller(Len(stack))
    /\ inRenderer <=> \E d \in DOMAIN stack : stack[d].kind \in Renderer
    /\ stack = <<>> => cur = Nobody /\ ~atSafe
    /\ RegsPutBack

\* The game's code is called from inside a safe-point, map or scene callback
\* and nowhere else (soa_mod.h's call_guest, mod.c's api_call_guest).
CallsFromSafePointsOnly ==
    \A d \in 2 .. Len(stack) :
        stack[d].kind = "guest" => stack[d - 1].kind \in SafeKinds
=============================================================================

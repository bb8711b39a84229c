----------------------------- MODULE ScreenRing -----------------------------
(***************************************************************************)
(* The screen ring (runtime/gxr.c, "H17b's screen ring"): how a frame the  *)
(* workers made row by row reaches the thread that presents it, whole.     *)
(*                                                                         *)
(* Every worker runs every screen copy, writing its own rows, and counts   *)
(* itself in g_ring_done when the copy ends a frame.  The one whose count  *)
(* is a multiple of the workers copies the frame into the back slot, swaps *)
(* that for the middle one and goes on.  The presenter swaps its front     *)
(* slot for the middle one when that is fresh.  A worker starts a screen   *)
(* copy once all have finished the last (RenderQueue's entry fence).       *)
(*                                                                         *)
(* A worker's rows are one part of a picture, and a part's content is the  *)
(* number of the frame it is of.  A frame has its own screen copy and, in  *)
(* Mids, its in-between image's after it; the last of them ends it.        *)
(***************************************************************************)
EXTENDS Integers

CONSTANTS
    N,            \* workers (g_workers, or 1 with none), not 0
    Frames,       \* bound on frames, for TLC
    Mids,         \* the frames with an in-between image
    CountMod      \* g_ring_done is an int32_t: 2^32, even

Workers == 1 .. N
Slots == 0 .. 2
None == -1
Picture == [Workers -> {None} \cup 0 .. Frames - 1]
Blank == [w \in Workers |-> None]

\* The screen copies, in the order they are published: [frame, mid].
Ends(c) == c.mid \/ c.frame \notin Mids
After(c) == IF Ends(c) THEN [frame |-> c.frame + 1, mid |-> FALSE] ELSE [c EXCEPT !.mid = TRUE]
Behind(c, d) == c.frame < d.frame \/ (c.frame = d.frame /\ ~c.mid /\ d.mid)

VARIABLES
    copy,         \* worker -> the screen copy it is at, or has next
    pc,           \* worker -> where it is
    screen, mid,  \* g_screen, g_screen_mid
    done,         \* g_ring_done
    state,        \* g_ring_state: a slot, and is it fresh
    back, front,  \* g_ring_back, g_ring_front
    slots,        \* g_ring
    old,          \* what ring_xchg holds to compare with, of each thread
    tpc           \* where the presenter is

vars == <<copy, pc, screen, mid, done, state, back, front, slots, old, tpc>>
images == <<screen, mid>>
shared == <<state, back, front, slots>>

Presenter == 0
Finish(w) == copy' = [copy EXCEPT ![w] = After(@)]

-----------------------------------------------------------------------------
(* The workers.                                                            *)

\* The entry fence of a screen copy.
MayStart_AtOnce(w) == TRUE
MayStart(w) == \A j \in Workers : ~Behind(copy[j], copy[w])

Start(w) ==
    /\ pc[w] = "idle" /\ copy[w].frame < Frames /\ MayStart(w)
    /\ pc' = [pc EXCEPT ![w] = "rows"]
    /\ UNCHANGED <<copy, images, done, shared, old, tpc>>

\* copy_to_screen, this worker's rows; then on to ring_fill when it ends a frame.
Rows(w) ==
    /\ pc[w] = "rows"
    /\ IF copy[w].mid
       THEN mid' = [mid EXCEPT ![w] = copy[w].frame] /\ UNCHANGED screen
       ELSE screen' = [screen EXCEPT ![w] = copy[w].frame] /\ UNCHANGED mid
    /\ IF Ends(copy[w])
       THEN pc' = [pc EXCEPT ![w] = "count"] /\ UNCHANGED copy
       ELSE pc' = [pc EXCEPT ![w] = "idle"] /\ Finish(w)
    /\ UNCHANGED <<done, shared, old, tpc>>

\* plat_inc32, two's complement; zero is the only remainder asked for, so the
\* sign of C's % does not matter.
Counted(d) == LET n == (d + 1) % CountMod IN IF n >= CountMod \div 2 THEN n - CountMod ELSE n

IsLast_First(n) == n % N = 1 % N
IsLast_Untaken(n) == n % N = 0 /\ ~state.fresh
IsLast(n) == n % N = 0

CountCopy(w) ==
    /\ pc[w] = "count"
    /\ done' = Counted(done)
    /\ IF IsLast(Counted(done))
       THEN pc' = [pc EXCEPT ![w] = "fill"] /\ UNCHANGED copy
       ELSE pc' = [pc EXCEPT ![w] = "idle"] /\ Finish(w)
    /\ UNCHANGED <<images, shared, old, tpc>>

\* The copy into the back slot, which anything may run in the middle of.
FillReal(w) ==
    /\ pc[w] = "fill"
    /\ slots' = [slots EXCEPT ![back] = [@ EXCEPT !.real = screen, !.has_mid = copy[w].mid]]
    /\ pc' = [pc EXCEPT ![w] = "fillmid"]
    /\ UNCHANGED <<copy, images, done, state, back, front, old, tpc>>

FillMid(w) ==
    /\ pc[w] = "fillmid"
    /\ slots' = IF slots[back].has_mid THEN [slots EXCEPT ![back].mid = mid] ELSE slots
    /\ pc' = [pc EXCEPT ![w] = "load"]
    /\ UNCHANGED <<copy, images, done, state, back, front, old, tpc>>

\* ring_xchg: what plat_cas32 compares.
Holds_Always(t) == TRUE
Holds(t) == state = old[t]

\* ring_xchg: a load, then a compare-and-swap until it holds what was there.
FillLoad(w) ==
    /\ pc[w] = "load"
    /\ old' = [old EXCEPT ![w] = state]
    /\ pc' = [pc EXCEPT ![w] = "cas"]
    /\ UNCHANGED <<copy, images, done, shared, tpc>>

FillCas(w) ==
    /\ pc[w] = "cas"
    /\ IF Holds(w)
       THEN /\ state' = [slot |-> back, fresh |-> TRUE]
            /\ pc' = [pc EXCEPT ![w] = "publish"]
            /\ UNCHANGED old
       ELSE /\ old' = [old EXCEPT ![w] = state]
            /\ UNCHANGED <<state, pc>>
    /\ UNCHANGED <<copy, images, done, back, front, slots, tpc>>

NextBack(w) == old[w].slot

\* The new back slot, and the command is over.
FillPublish(w) ==
    /\ pc[w] = "publish"
    /\ back' = NextBack(w)
    /\ pc' = [pc EXCEPT ![w] = "idle"]
    /\ Finish(w)
    /\ UNCHANGED <<images, done, state, front, slots, old, tpc>>

-----------------------------------------------------------------------------
(* gxr_ring_take, by the one thread that presents.                         *)

TakeLook == state.fresh

TakeLoad ==
    /\ tpc = "show" /\ TakeLook
    /\ old' = [old EXCEPT ![Presenter] = state]
    /\ tpc' = "cas"
    /\ UNCHANGED <<copy, pc, images, done, shared>>

TakeCas ==
    /\ tpc = "cas"
    /\ IF Holds(Presenter)
       THEN /\ state' = [slot |-> front, fresh |-> FALSE]
            /\ front' = old[Presenter].slot
            /\ tpc' = "show"
            /\ UNCHANGED old
       ELSE /\ old' = [old EXCEPT ![Presenter] = state]
            /\ UNCHANGED <<state, front, tpc>>
    /\ UNCHANGED <<copy, pc, images, done, back, slots>>

-----------------------------------------------------------------------------

Init ==
    /\ copy = [w \in Workers |-> [frame |-> 0, mid |-> FALSE]]
    /\ pc = [w \in Workers |-> "idle"]
    /\ screen = Blank /\ mid = Blank
    /\ done = 0
    /\ state = [slot |-> 1, fresh |-> FALSE]
    /\ back = 0 /\ front = 2
    /\ slots = [s \in Slots |-> [real |-> Blank, mid |-> Blank, has_mid |-> FALSE]]
    /\ old = [t \in Workers \cup {Presenter} |-> [slot |-> 1, fresh |-> FALSE]]
    /\ tpc = "show"

Fill(w) == FillReal(w) \/ FillMid(w) \/ FillLoad(w) \/ FillCas(w) \/ FillPublish(w)
Worker(w) == Start(w) \/ Rows(w) \/ CountCopy(w) \/ Fill(w)
Present == TakeLoad \/ TakeCas

Next == Present \/ \E w \in Workers : Worker(w)

Spec == Init /\ [][Next]_vars

\* The workers' loop runs, and the presenter looks every 8 ms.
FairSpec == Spec /\ WF_vars(Present) /\ \A w \in Workers : WF_vars(Worker(w))

-----------------------------------------------------------------------------

TypeOK ==
    /\ copy \in [Workers -> [frame : 0 .. Frames, mid : BOOLEAN]]
    /\ pc \in [Workers -> {"idle", "rows", "count", "fill", "fillmid", "load", "cas", "publish"}]
    /\ screen \in Picture /\ mid \in Picture
    /\ done \in -(CountMod \div 2) .. CountMod \div 2 - 1
    /\ state \in [slot : Slots, fresh : BOOLEAN]
    /\ back \in Slots /\ front \in Slots
    /\ slots \in [Slots -> [real : Picture, mid : Picture, has_mid : BOOLEAN]]
    /\ tpc \in {"show", "cas"}

IsWhole(S) == \E f \in {None} \cup 0 .. Frames - 1 :
                  /\ \A w \in Workers : S.real[w] = f
                  /\ S.has_mid => \A w \in Workers : S.mid[w] = f

Filling == {"fill", "fillmid", "load", "cas", "publish"}

\* Fillers come one at a time, "and g_ring_back needs no atomic"; the three
\* slots are the filler's, the middle one and the presenter's at every step,
\* the swap's own included.
RingInv ==
    /\ TypeOK
    /\ \A v, w \in Workers : pc[v] \in Filling /\ pc[w] \in Filling => v = w
    /\ LET theirs == IF \E w \in Workers : pc[w] = "publish"
                     THEN {old[w].slot : w \in {v \in Workers : pc[v] = "publish"}} ELSE {back}
       IN  theirs \cup {state.slot, front} = Slots
    /\ state.fresh => IsWhole(slots[state.slot])

\* A slot's picture: one frame's in every row of it and of its in-between image
\* (ring_fill's "the last one to get here copies the frame out"), or a torn one.
Torn == None - 1
Seen(S) == IF IsWhole(S) THEN S.real[1] ELSE Torn
Shown == Seen(slots[front])

\* With the workers and the presenter running, the last frame is the one that
\* stays on the screen.
LastIsShown == <>[](Shown = Frames - 1)

\* What the ring is for: a box with the newest whole frame in it, which is all
\* the presenter is ever offered or shows, whatever the workers are making
\* meanwhile.
Box == INSTANCE FrameBox WITH
           Pictures <- 0 .. Frames - 1, First <- None, shown <- Shown, isNew <- state.fresh,
           offered <- IF state.fresh THEN Seen(slots[state.slot]) ELSE Shown
ImplementsBox == Box!Spec

=============================================================================

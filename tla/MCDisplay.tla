----------------------------- MODULE MCDisplay -----------------------------
(* What runs between a frame's commands and the window, for TLC: the          *)
(* in-between images' pacing and the draws they are moved from, the workers'  *)
(* sleep and wake-up, and the screen ring.  They share no state here, so a    *)
(* behaviour runs one of them, chosen at the start.                           *)
EXTENDS InterpPacing, RenderParkConstants

CONSTANTS
    RingWorkers,  \* ScreenRing's N, Frames, Mids and CountMod
    RingFrames,
    RingMids,
    CountMod

\* The count of the frames' ends stays below where it turns negative.
ASSUME RingAssumption ==
    /\ RingWorkers \in Nat \ {0} /\ RingFrames \in Nat
    /\ CountMod \in Nat /\ RingWorkers * RingFrames < CountMod \div 2

VARIABLES
    which,        \* "interp", "pairs", "park" or "ring"
    \* RenderPark's
    published, ran, fences, sleepers, pc, p_at, p_on, seen,
    \* ScreenRing's
    copy, r_pc, screen, mid, done, state, back, front, slots, old, tpc,
    \* FramePairs'
    pair, cur, flags, f_mid, pass, ndraw, before, taken, now, f_last

parkVars == <<published, ran, fences, sleepers, pc, p_at, p_on, seen>>
ringVars == <<copy, r_pc, screen, mid, done, state, back, front, slots, old, tpc>>
pairVars == <<pair, cur, flags, f_mid, pass, ndraw, before, taken, now, f_last>>

Park == INSTANCE RenderPark WITH at <- p_at, on <- p_on
Screens == INSTANCE ScreenRing WITH N <- RingWorkers, Frames <- RingFrames, Mids <- RingMids,
                                    pc <- r_pc

\* Draws of one key at two places and in 2D, and one of a second key, larger, whose
\* hash falls where the first's does.
Near == [kind |-> 1, ortho |-> FALSE, place |-> 0]
SmallScene == {Near, [Near EXCEPT !.place = 1], [Near EXCEPT !.ortho = TRUE],
               [Near EXCEPT !.kind = 2]}
Between == INSTANCE FramePairs WITH
              Draws <- SmallScene, Verts <- <<1, 2>>, Home <- <<1, 1>>, PairDraws <- 3,
              PairVerts <- 3, PairSlots <- 2, Look <- 2, MaxDraws <- 4, mid <- f_mid,
              last <- f_last

DisplayInit ==
    /\ which \in {"interp", "pairs", "park", "ring"}
    /\ Init /\ Park!Init /\ Screens!Init /\ Between!Init
    /\ which # "interp" => rate = 0
    /\ which # "pairs" => pass = "live"

DisplayNext ==
    \/ which = "interp" /\ Next /\ UNCHANGED <<which, parkVars, ringVars, pairVars>>
    \/ which = "park" /\ Park!Next /\ UNCHANGED <<which, vars, ringVars, pairVars>>
    \/ which = "ring" /\ Screens!Next /\ UNCHANGED <<which, vars, parkVars, pairVars>>
    \/ which = "pairs" /\ Between!Next /\ UNCHANGED <<which, vars, parkVars, ringVars>>

\* Each component's own fairness.
DisplaySpec ==
    /\ DisplayInit /\ [][DisplayNext]_<<which, vars, parkVars, ringVars, pairVars>>
    /\ WF_vars(which = "interp" /\ Frame) /\ WF_vars(which = "interp" /\ SayShown)
    /\ \A w \in 1 .. N : WF_parkVars(which = "park" /\ Park!WorkerStep(w))
    /\ WF_parkVars(which = "park" /\ (Park!Check(Park!Producer) \/ Park!Wake(Park!Producer)))
    /\ WF_ringVars(which = "ring" /\ Screens!Present)
    /\ \A w \in 1 .. RingWorkers : WF_ringVars(which = "ring" /\ Screens!Worker(w))

-----------------------------------------------------------------------------
(* The components' properties, under the names they have in their modules.    *)

\* AllFinish (RenderPark): every published command is in the end finished.
AllFinish == Park!AllFinish
\* AsFifopair (FramePairs): a draw is moved from where tools/fifopair.py's rule
\* says.
AsFifopair == Between!AsFifopair
\* ImplementsBox (ScreenRing): the ring is a box with the newest whole frame.
ImplementsBox == Screens!ImplementsBox
\* LastIsShown (ScreenRing): the last frame is the one that stays on the screen.
LastIsShown == which = "ring" => Screens!LastIsShown
============================================================================

---------------------------- MODULE InterpPacing ----------------------------
(***************************************************************************)
(* The in-between images at the display's own rate (SOA_INTERP=display).   *)
(* At each frame's end the producer asks the budget how many images the    *)
(* next frame gets (gxr.c, interp_frame_begin) and then makes its weights  *)
(* with an accumulator on the grid of refreshes (interp_display_frame,     *)
(* interp_rate.h).  The window's thread says the display's rate and        *)
(* whether it shows in-between images, in two stores, at any time.         *)
(***************************************************************************)
EXTENDS InterpBudget

CONSTANTS Rates,   \* what the window says: the displays' rates in Hz, 0 with turbo on
          Slices,  \* images a frame the device holds (g_rate_cap)
          Horizon  \* frames after which the history counts anew

Fps == 30          \* the game's own rate
RateMin == 30
RateMax == 240

ASSUME PacingConstants ==
  /\ Rates \subseteq {0} \cup (RateMin..RateMax)
  /\ Slices \in Nat \ {0} /\ Horizon \in Nat \ {0}

VARIABLES rate,    \* g_rate, 0 for none
          shown,   \* g_mid_allowed: the window shows in-between images
          turning, \* the window is between its two stores, and what the second one says
          at,      \* the producer: "begin" or "weights"
          on,      \* g_mid_on: the next frame builds its in-between images
          cap,     \* g_mid_cap: images left by the budget, 0 for all
          last, r, \* g_rate_last, g_rate_r: the accumulator's rate and remainder
          between, \* images of the frame before its real one
          asked,   \* history: what the budget was asked for
          made, since, base  \* history: images and frames on the grid, its remainder then

pacing == <<rate, shown, turning, at, on, cap, last, r, between, asked, made, since, base>>
vars == <<budget, pacing>>

HeldRate(hz) == Lower(hz, Fps * Slices)
\* "the most images a frame the display's rate asks for"
Top(hz) == IF hz >= 2 * Fps THEN (hz + Fps - 1) \div Fps - 1 ELSE 1
Clamped(hz) == Higher(RateMin, Lower(hz, RateMax))
Capped_OneMore(hz) == IF cap > 0 THEN Lower(hz, Fps * (cap + 2)) ELSE hz
Capped(hz) == IF cap > 0 THEN Lower(hz, Fps * (cap + 1)) ELSE hz
\* A new rate starts the accumulator on a frame's end.
Remainder(hz) == IF hz = last THEN r ELSE 0
Images_NoRemainder(hz, rem) == hz \div Fps
\* The refreshes in a frame that starts rem refresh-thirtieths after one.
Images(hz, rem) == (rem + hz) \div Fps
\* The last image is the frame's real one when the frame ends on a refresh.
EndsReal(hz, rem) == Fps * Images(hz, rem) - rem = hz

Init ==
  /\ BudgetInit
  /\ rate \in Rates /\ shown = (rate # 0) /\ turning = "no"
  /\ at = "begin" /\ on = TRUE /\ cap = 0 /\ last = 0 /\ r = 0 /\ between = 1
  /\ asked = 0 /\ made = 0 /\ since = 0 /\ base = 0

\* interp_frame_begin, a screen copy `time` after the last.
FrameBegin(time) ==
  /\ at = "begin" /\ at' = "weights"
  /\ IF shown
     THEN /\ asked' = Top(HeldRate(rate))
          /\ BudgetStep(time, asked')
          /\ on' = (Given' > 0)
          /\ cap' = IF Given' < top' THEN Given' ELSE 0
     ELSE /\ on' = FALSE
          /\ UNCHANGED <<budget, cap, asked>>
  /\ UNCHANGED <<rate, shown, turning, last, r, between, made, since, base>>

\* interp_display_frame with no rate: nothing.
NoRate ==
  /\ at = "weights" /\ rate = 0 /\ at' = "begin"
  /\ UNCHANGED <<budget, rate, shown, turning, on, cap, last, r, between, asked, made, since, base>>

\* interp_display_frame, interp_rate_frame and interp_rate_weights.
Weights ==
  LET hz == Capped(HeldRate(rate))
      rem == Remainder(hz)
      c == Clamped(hz)
      n == Images(c, rem)
      fresh == hz # last \/ since = Horizon
  IN  /\ at = "weights" /\ rate # 0 /\ at' = "begin"
      /\ last' = hz /\ r' = (rem + c) % Fps
      /\ between' = IF EndsReal(c, rem) THEN n - 1 ELSE n
      /\ made' = IF fresh THEN n ELSE made + n
      /\ since' = IF fresh THEN 1 ELSE since + 1
      /\ base' = IF fresh THEN rem ELSE base
      /\ UNCHANGED <<budget, rate, shown, turning, on, cap, asked>>

\* interp_pace: another display, turbo on (no rate, nothing shown) or off again.
SayRate(hz) ==
  /\ turning = "no" /\ hz # rate
  /\ rate' = hz /\ turning' = IF hz = 0 THEN "hide" ELSE "show"
  /\ UNCHANGED <<budget, shown, at, on, cap, last, r, between, asked, made, since, base>>

SayShown ==
  /\ turning # "no"
  /\ shown' = (turning = "show") /\ turning' = "no"
  /\ UNCHANGED <<budget, rate, at, on, cap, last, r, between, asked, made, since, base>>

Frame == (\E time \in Times : FrameBegin(time)) \/ NoRate \/ Weights
Next == Frame \/ (\E hz \in Rates : SayRate(hz)) \/ SayShown
Spec == Init /\ [][Next]_vars

TypeOK ==
  /\ BudgetTypeOK
  /\ rate \in Rates /\ shown \in BOOLEAN /\ turning \in {"no", "show", "hide"}
  /\ at \in {"begin", "weights"} /\ on \in BOOLEAN
  /\ cap \in Nat /\ last \in Nat /\ r \in 0..Fps - 1 /\ between \in 0..Slices
  /\ made \in Nat /\ since \in 0..Horizon /\ base \in 0..Fps - 1

(***************************************************************************)
(* Every image stays on the refresh it falls on (gxr.c, above              *)
(* interp_display_frame): after any number of frames at one rate, the      *)
(* images made are exactly the refreshes passed, none missed and none made *)
(* twice, whether the budget left those frames their stream or not.        *)
(***************************************************************************)
OnGrid == Fps * made + r = base + since * Clamped(last)

(***************************************************************************)
(* At a rate that is a multiple of the game's -- every rate a budget that  *)
(* took images away leaves -- each frame ends on its real image: no        *)
(* remainder of another rate is carried into it (interp_rate.h:51).        *)
(***************************************************************************)
RealImages == since > 0 /\ Clamped(last) % Fps = 0 => r = 0

(***************************************************************************)
(* While images are taken away no frame builds more of them than the       *)
(* budget left, at every phase of the accumulator, where the display still *)
(* asks for what the budget was asked for (gxr.c:2768).                    *)
(***************************************************************************)
WithinCap == [][Weights /\ cap > 0 /\ asked = Top(HeldRate(rate)) => between' <= cap]_vars

(***************************************************************************)
(* One step takes one image away at the most: the display changing under   *)
(* a stream that had images taken away never turns it off by itself        *)
(* (interp_budget.h:32).                                                   *)
(***************************************************************************)
OneAtATime == [][Given' >= Lower(Given, top') - 1]_vars

\* The game goes on making frames; the window's second store follows its first.
Fairness == WF_vars(Frame) /\ WF_vars(SayShown)
LiveSpec == Spec /\ Fairness

OnTime == FrameBegin("onTime") \/ NoRate \/ Weights
Slow == FrameBegin("late") \/ NoRate \/ Weights

(***************************************************************************)
(* A game on time for good gets every image its display asks for.          *)
(***************************************************************************)
FullAgain == <>[][OnTime]_vars => <>[](shown => cut = 0)

(***************************************************************************)
(* A game slow for good has its stream stopped.                            *)
(***************************************************************************)
SlowStops == <>[][Slow]_vars => <>[](shown => cut = top)
=============================================================================

---------------------------- MODULE InterpBudget ----------------------------
(***************************************************************************)
(* How many in-between images the next frame of the game gets             *)
(* (runtime/interp_budget.h): one image a frame is taken away when the     *)
(* median of the last frame times is late, and one is given back after a   *)
(* count of frames on time that doubles with every try that failed.        *)
(***************************************************************************)
EXTENDS Integers, FiniteSets, Sequences

CONSTANTS Window,    \* frames the median is taken over (31)
          Count,     \* frames on time before an image comes back (30)
          Doublings, \* how often that count doubles (5)
          Hold       \* frames at the full rate that forget the doublings (300)

ASSUME BudgetConstants ==
  /\ Window \in Nat /\ Window % 2 = 1
  /\ {Count, Doublings, Hold} \subseteq Nat \ {0}

VARIABLES late,   \* last, n: were the latest frames over INTERP_BUDGET_SLOW? a ring, its oldest first
          cut,    \* images a frame taken away
          top,    \* the most the display asked for last frame, 0 before the first
          tries,  \* the count is Count * 2^tries
          down,   \* the last step was down
          wait,   \* the count to the next image back
          held,   \* frames at the display's rate, no further than Hold
          full,   \* history: steps at the full rate since images were last taken away
          fails,  \* history: failed tries since tries was last 0
        moved   \* history: the display changed under a stream with images taken
                \* away, and none was given back since

budget == <<late, cut, top, tries, down, wait, held, full, fails, moved>>

\* A frame's time: over 35.5 ms, under 34.5 ms, or between the two.
Times == {"late", "between", "onTime"}

Lower(a, b) == IF a < b THEN a ELSE b
Higher(a, b) == IF a > b THEN a ELSE b
Given == top - cut
CountNow == Count * 2^tries

BudgetInit ==
  /\ late = <<>> /\ cut = 0 /\ top = 0 /\ tries = 0 /\ down = FALSE
  /\ wait = 0 /\ held = 0 /\ full = 0 /\ fails = 0 /\ moved = FALSE

\* What is taken away once the display asks for t images: what was given stays given.
Retaken(t) ==
  IF top = 0 \/ t = top \/ cut = 0 THEN cut
  ELSE t - Lower(Higher(top - cut, 0), t)

Pushed_Full(time) == IF Len(late) = Window THEN late ELSE Append(late, time = "late")
Pushed(time) ==
  LET ring == Append(late, time = "late")
  IN  IF Len(ring) > Window THEN Tail(ring) ELSE ring

\* The median of a full ring is late when most of its frames are.
MedianLate(ring) ==
  /\ Len(ring) = Window
  /\ Cardinality({i \in 1..Window : ring[i]}) > Window \div 2

Failing_Always == TRUE
\* A step down is a failed try unless it goes on with a walk down.
Failing == ~down
Held == Lower(held + 1, Hold)

TakeAway(time, t, c) ==
  /\ c < t /\ MedianLate(Pushed(time))
  /\ cut' = c + 1 /\ late' = <<>> /\ wait' = CountNow
  /\ tries' = IF Failing THEN Lower(tries + 1, Doublings) ELSE tries
  /\ down' = TRUE
  /\ full' = 0
  /\ fails' = IF c = 0 \/ ~down THEN Lower(fails + 1, Doublings) ELSE fails
  /\ UNCHANGED held

FullRate(time, t, c) ==
  /\ c = 0 /\ ~MedianLate(Pushed(time))
  /\ cut' = c /\ late' = Pushed(time)
  /\ held' = Held
  /\ LET now == held < Hold /\ Held = Hold IN
       /\ tries' = IF now THEN 0 ELSE tries
       /\ fails' = IF now THEN 0 ELSE fails
  /\ full' = Lower(full + 1, Hold)
  /\ UNCHANGED <<down, wait>>

\* Some taken away and none more now: the stream off has no frame times.
Fewer(time, t, c) ==
  /\ c > 0 /\ ~(c < t /\ MedianLate(Pushed(time)))
  /\ late' = IF c < t THEN Pushed(time) ELSE late

CountUp(time, t, c) ==
  /\ Fewer(time, t, c) /\ time # "onTime"
  /\ cut' = c /\ wait' = Lower(wait + 2, 2 * CountNow) /\ full' = 0
  /\ UNCHANGED <<tries, down, held, fails>>

Sooner_Never(w) == w
\* Down one a frame on time.
Sooner(w) == w - 1

CountDown(time, t, c) ==
  /\ Fewer(time, t, c) /\ time = "onTime" /\ wait > 0
  /\ cut' = c /\ wait' = Sooner(wait) /\ full' = 0
  /\ UNCHANGED <<tries, down, held, fails>>

HeldAfter_Kept(h) == h
\* Back at a rate, the frames held at it count from none.
HeldAfter(h) == 0

GiveBack(time, t, c) ==
  /\ c > 0 /\ time = "onTime" /\ wait = 0
  /\ ~(c < t /\ MedianLate(Pushed(time)))
  /\ cut' = c - 1 /\ down' = FALSE /\ late' = <<>> /\ wait' = CountNow
  /\ held' = HeldAfter(held) /\ full' = 0
  /\ fails' = IF moved THEN tries ELSE fails
  /\ moved' = FALSE
  /\ UNCHANGED tries

\* interp_budget_step: one frame, the display asking for `asked` images.
BudgetStep(time, asked) ==
  LET t == Higher(asked, 1)
      c == Retaken(t)
  IN  /\ top' = t
      /\ \/ /\ moved' = (moved \/ c # cut)
            /\ \/ TakeAway(time, t, c)
               \/ FullRate(time, t, c)
               \/ CountUp(time, t, c)
               \/ CountDown(time, t, c)
         \/ GiveBack(time, t, c)

BudgetTypeOK ==
  /\ late \in UNION {[1..n -> BOOLEAN] : n \in 0..Window}
  /\ top \in Nat /\ cut \in 0..top
  /\ tries \in 0..Doublings /\ down \in BOOLEAN
  /\ wait \in 0..(Count * 2^(Doublings + 1))
  /\ held \in 0..Hold /\ full \in 0..Hold /\ fails \in 0..Doublings
  /\ moved \in BOOLEAN

(***************************************************************************)
(* The count is "back to 30 once the stream has held ten seconds at the    *)
(* display's rate" (interp_budget.h:26); after a change of display under a *)
(* stream with images taken away, once one was given back.                 *)
(***************************************************************************)
HeldForgets == full = Hold /\ ~moved => tries = 0

(***************************************************************************)
(* Each failed try -- "a step down from the display's full rate, or one    *)
(* that undoes a step back up" (interp_budget.h:20) -- doubles the count,  *)
(* and the further steps of one walk down do not; with the same exception. *)
(***************************************************************************)
FailuresCounted == moved \/ tries = fails
=============================================================================

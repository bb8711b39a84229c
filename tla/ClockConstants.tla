--------------------------- MODULE ClockConstants ---------------------------
(* The constants of Clock, and what is assumed of them. *)
EXTENDS Integers

CONSTANTS
    Reasons,      \* CLOCK_PAUSE_FOCUS and _MENU, each asked by a thread of its own
    Speeds,       \* the speeds clock_set_speed_at is given
    Gap,          \* g_gap_ns, 0 for no rule
    LastHost,     \* the last host time (a bound of the model)
    MaxWorth,     \* the most guest time to pass (a bound of the model)
    BackSteps     \* does the host's time ever step back (never, by plat.h)

ASSUME ClockAssumption ==
    /\ Speeds \subseteq Nat \ {0} /\ 1 \in Speeds
    /\ Gap \in Nat /\ LastHost \in Nat /\ MaxWorth \in Nat
    /\ BackSteps \in BOOLEAN
=============================================================================

------------------------------- MODULE MCTime -------------------------------
(* Time as the guest has it, for TLC: the timed devices and their interrupts, *)
(* and the clock with those who stop it.  They share no state here, so a      *)
(* behaviour runs one of them, chosen at the start.                           *)
EXTENDS DeviceInterrupts

VARIABLES
    which,        \* "devices" or "clock"
    \* Clock's
    host, started, origin, last, guest, speed, excluded, req, paused, pc, call, old, asked,
    worth, satOut

clockVars ==
    <<host, started, origin, last, guest, speed, excluded, req, paused, pc, call, old, asked,
      worth, satOut>>

\* Two threads that ask for pauses, at one speed.
Asking == {"focus", "menu"}
Clk == INSTANCE Clock WITH Reasons <- Asking, Speeds <- {1}, Gap <- 1, LastHost <- 1,
                           MaxWorth <- 2, BackSteps <- TRUE

TimeInit == which \in {"devices", "clock"} /\ Init /\ Clk!Init

TimeNext ==
    \/ which = "devices" /\ Next /\ UNCHANGED <<which, clockVars>>
    \/ which = "clock" /\ Clk!Next /\ UNCHANGED <<which, vars>>

\* Each component's own fairness.
TimeSpec ==
    /\ TimeInit /\ [][TimeNext]_<<which, vars, clockVars>>
    /\ WF_vars(which = "devices" /\ Tick) /\ WF_vars(which = "devices" /\ Deliver)
    /\ WF_vars(which = "devices" /\ Acknowledge)
    /\ WF_vars(which = "devices" /\ HandlerReturns)
    /\ SF_vars(which = "devices" /\ IdleHook)
    /\ WF_clockVars(which = "clock" /\ Clk!Read) /\ WF_clockVars(which = "clock" /\ Clk!Release)
    /\ \A r \in Asking : WF_clockVars(which = "clock" /\ Clk!AskSwap(r))

-----------------------------------------------------------------------------

\* HoldsEnd (Clock): once no reason asks for a pause for good, the clock and the guest run.
HoldsEnd == Clk!HoldsEnd
=============================================================================

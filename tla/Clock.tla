------------------------------- MODULE Clock -------------------------------
(***************************************************************************)
(* The guest's clock (runtime/clock.c) and who stops it.  Guest time adds  *)
(* up at the guest thread's reads, the speed times the host time between   *)
(* them; a gap past the threshold, and a pause, are to count as nothing.   *)
(* Any thread may ask for a pause for its reason (clock_pause_for, a load  *)
(* and a compare-and-swap); while one is asked for, the guest thread waits *)
(* at its safe points (tick.c hold_while_paused, irq.c idle_while_paused). *)
(*                                                                         *)
(* The epoch and the number of gaps are only reported and are left out.    *)
(***************************************************************************)
EXTENDS ClockConstants

VARIABLES
    host,         \* clock_host_ns
    started,      \* g_started
    origin,       \* g_origin_host_ns
    last,         \* g_last_host_ns
    guest,        \* g_guest_ns
    speed,        \* g_speed
    excluded,     \* g_excluded_ns
    req,          \* g_pause_req, a set of reasons
    paused,       \* g_paused
    pc,           \* the guest thread "runs", or is "held" at a safe point
    call,         \* each reason's call: "none", or "cas" between load and swap
    old,          \* what the call loaded
    asked,        \* what the reason's last call asked for
    worth,        \* guest time as it passes: the host's time at the speed in
                  \* force (nowhere in the code)
    satOut        \* ... and as much of it as the guest thread was held for

clock == <<started, origin, last, guest, speed, excluded, paused>>
calls == <<req, call, old, asked>>
vars == <<host, clock, pc, calls, worth, satOut>>

Since == host - last

-----------------------------------------------------------------------------
(* The host's time passes; a sleep is a long stretch of it with no read.   *)

HostRuns ==
    /\ host < LastHost /\ worth < MaxWorth
    /\ host' = host + 1
    /\ worth' = IF started THEN worth + speed ELSE worth
    /\ satOut' = IF started /\ pc = "held" THEN satOut + speed ELSE satOut
    /\ UNCHANGED <<clock, pc, calls>>

HostBack ==
    /\ BackSteps /\ host > 0
    /\ host' = host - 1
    /\ UNCHANGED <<clock, pc, calls, worth, satOut>>

-----------------------------------------------------------------------------
(* clock_advance_at, the guest thread's read at the host's time: exactly   *)
(* one of these.                                                           *)

FirstRead ==
    /\ ~started
    /\ started' = TRUE /\ origin' = host /\ last' = host
    /\ UNCHANGED <<guest, excluded, paused>>

\* The requests and g_paused disagree: up to the pause counts, then nothing
\* until it ends.
BeginPause ==
    /\ started /\ req # {} /\ ~paused
    /\ guest' = IF Since > 0 THEN guest + Since * speed ELSE guest
    /\ last' = host /\ paused' = TRUE
    /\ UNCHANGED <<started, origin, excluded>>

EndPause ==
    /\ started /\ req = {} /\ paused
    /\ excluded' = IF Since > 0 THEN excluded + Since ELSE excluded
    /\ last' = host /\ paused' = FALSE
    /\ UNCHANGED <<started, origin, guest>>

Runs == started /\ paused = (req # {}) /\ ~paused

IsGap == Gap # 0 /\ Since > Gap

\* g_guest_ns += d * g_speed, of a host step that is not backwards.
Counts_AnyStep == Since # 0 /\ ~IsGap
Counts == Since > 0 /\ ~IsGap

CountSpan ==
    /\ Runs /\ Counts
    /\ last' = host /\ guest' = guest + Since * speed
    /\ UNCHANGED <<started, origin, excluded, paused>>

GapExcluded_Forgot == excluded
GapExcluded == excluded + Since
SkipGap ==
    /\ Runs /\ Since > 0 /\ IsGap
    /\ last' = host /\ excluded' = GapExcluded
    /\ UNCHANGED <<started, origin, guest, paused>>

\* Paused, or no time since the last read.
NoTime ==
    /\ started /\ paused = (req # {}) /\ (paused \/ Since <= 0)
    /\ UNCHANGED <<started, origin, last, guest, excluded, paused>>

Advance == FirstRead \/ BeginPause \/ EndPause \/ CountSpan \/ SkipGap \/ NoTime

Read ==
    /\ pc = "runs"
    /\ Advance
    /\ UNCHANGED <<host, speed, pc, calls, worth, satOut>>

\* clock_set_speed_at: everything so far at the old speed.
OldSpan_Skipped ==
    UNCHANGED <<started, origin, last, guest, excluded, paused>>
OldSpan == Advance

SetSpeed ==
    /\ pc = "runs"
    /\ OldSpan
    /\ speed' \in Speeds
    /\ UNCHANGED <<host, pc, calls, worth, satOut>>

-----------------------------------------------------------------------------
(* The guest thread at a safe point: it waits without reading its clock.   *)

Held_BySeen == paused
Held == req # {}

Hold ==
    /\ pc = "runs" /\ req # {}
    /\ pc' = "held"
    /\ UNCHANGED <<host, clock, calls, worth, satOut>>

Release ==
    /\ pc = "held" /\ ~Held
    /\ pc' = "runs"
    /\ UNCHANGED <<host, clock, calls, worth, satOut>>

-----------------------------------------------------------------------------
(* clock_pause_for, by any thread.                                         *)

AskLoad(r, on) ==
    /\ call[r] = "none"
    /\ call' = [call EXCEPT ![r] = "cas"]
    /\ old' = [old EXCEPT ![r] = req]
    /\ asked' = [asked EXCEPT ![r] = on]
    /\ UNCHANGED <<host, clock, pc, req, worth, satOut>>

Want(r) == IF asked[r] THEN old[r] \cup {r} ELSE old[r] \ {r}

CasTakes_Store(r) == TRUE
CasTakes(r) == req = old[r]

AskSwap(r) ==
    /\ call[r] = "cas"
    /\ IF CasTakes(r)
       THEN /\ req' = Want(r)
            /\ call' = [call EXCEPT ![r] = "none"] /\ old' = [old EXCEPT ![r] = {}]
       ELSE old' = [old EXCEPT ![r] = req] /\ UNCHANGED <<req, call>>
    /\ UNCHANGED <<host, clock, pc, asked, worth, satOut>>

-----------------------------------------------------------------------------

Init ==
    /\ host = 0
    /\ started = FALSE /\ origin = 0 /\ last = 0
    /\ guest = 0 /\ speed = 1 /\ excluded = 0
    /\ req = {} /\ paused = FALSE /\ pc = "runs"
    /\ call = [r \in Reasons |-> "none"]
    /\ old = [r \in Reasons |-> {}]
    /\ asked = [r \in Reasons |-> FALSE]
    /\ worth = 0 /\ satOut = 0

Guest == Read \/ SetSpeed \/ Hold \/ Release

Asks == \E r \in Reasons : (\E on \in BOOLEAN : AskLoad(r, on)) \/ AskSwap(r)

Next == HostRuns \/ HostBack \/ Guest \/ Asks

Spec == Init /\ [][Next]_vars

\* The host runs the guest thread, and a thread in a call finishes it.
FairSpec ==
    /\ Spec
    /\ WF_vars(Read) /\ WF_vars(Release)
    /\ \A r \in Reasons : WF_vars(AskSwap(r))

-----------------------------------------------------------------------------

TypeOK ==
    /\ host \in Nat /\ started \in BOOLEAN
    /\ origin \in Nat /\ last \in Nat /\ guest \in Nat /\ excluded \in Nat
    /\ speed \in Speeds /\ req \subseteq Reasons /\ paused \in BOOLEAN
    /\ pc \in {"runs", "held"}
    /\ call \in [Reasons -> {"none", "cas"}]
    /\ old \in [Reasons -> SUBSET Reasons] /\ asked \in [Reasons -> BOOLEAN]
    /\ worth \in Nat /\ satOut \in Nat

\* A reason is held for exactly when its last call asked so, whatever calls
\* for others came between its load and its swap: "the menu's hold outlasts a
\* focus pause that ends under it, and the reverse".
ReasonsKept == \A r \in Reasons : call[r] = "none" => (r \in req <=> asked[r])

ClockInv == TypeOK /\ ReasonsKept

\* Guest time never goes back, whatever the host's does.
Monotonic == [][guest' >= guest]_vars

\* No span is lost: the guest's time is at least the time since the first read
\* less what the clock says it excluded, at the slowest speed.
Accounted ==
    \A lo \in Speeds :
        (\A s \in Speeds : lo <= s) => lo * (last - origin - excluded) <= guest

\* No span counts for more than its time at the speed in force when it passed,
\* with what the next read will count: a change of speed is no jump.
NotMoreThanWorth == guest + (IF started /\ ~paused /\ Since > 0 THEN speed * Since ELSE 0) <= worth

\* A hold the guest thread sits out is no guest time.
HoldIsNoTime == guest <= worth - satOut

\* Once no reason asks for a pause for good, the clock and the guest run.
HoldsEnd == <>[](req = {}) => <>[](~paused /\ pc = "runs")
=============================================================================

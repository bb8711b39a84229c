-------------------------- MODULE DeviceInterrupts --------------------------
(***************************************************************************)
(* Interrupt delivery (irq.c) and the devices that wait for it: the        *)
(* decrementer, the AI DMA (dsp.c), the ARAM DMA (aram.c), the disc drive  *)
(* (dvd.c) and the retrace.  Nothing in translated code is asynchronous:   *)
(* a pass over the devices starts at the scheduler's idle loop, or at      *)
(* every PollEvery-th backward branch, and runs the guest's handlers one   *)
(* after another.  Guest code that runs in a handler is guest code: time   *)
(* passes, it reads and writes the same registers, it may enable           *)
(* interrupts, branch back and idle.                                       *)
(*                                                                         *)
(* The guest is not under src/: what it does to a device is what the       *)
(* SDK's drivers do, as irq.c and the devices rely on it.  A driver starts *)
(* a command when the one before it is acknowledged; a handler             *)
(* acknowledges its own source, once, before it returns; the sound driver  *)
(* starts the DMA with its interrupt unmasked and its handler in place,    *)
(* and writes the same length while it runs.                               *)
(***************************************************************************)
EXTENDS Naturals, FiniteSets

CONSTANTS Used,         \* the sources the guest uses
          Late,         \* those whose handlers are installed only after boot
          Horizon,      \* the last tick of the timebase
          CommandTimes, \* what a drive or ARAM command may take
          BlockTimes,   \* the AI DMA's block lengths, in ticks
          AlarmTimes,   \* the values written to the decrementer
          ViPeriod,     \* VI_PERIOD_TICKS
          PollEvery     \* irq_poll's rate limit: 16 in the code

Sources == {"DEC", "AI", "ARAM", "DI", "VI"}
Engines == {"ARAM", "DI"}            \* a command in flight, then an interrupt
Levels  == {"AI", "ARAM", "DI"}      \* raised until acknowledged, maskable
None    == "none"

ASSUME InterruptConstants ==
    /\ Used \subseteq Sources /\ Late \subseteq Used
    /\ Horizon \in Nat /\ ViPeriod \in Nat \ {0} /\ PollEvery \in Nat \ {0}
    /\ CommandTimes \subseteq Nat \ {0} /\ BlockTimes \subseteq Nat \ {0}
    /\ AlarmTimes \subseteq Nat

VARIABLES now,       \* guest_timebase
          engine,    \* g_busy and g_due, g_ar_busy and g_ar_due
          raised,    \* TCINT, ARINT and AIDINT as they stand
          unmasked,  \* TCINTMASK, ARINTMSK and AIDINTMSK
          ai,        \* the AI DMA: g_dma_ctrl's enable, due and period
          dec,       \* g_dec_armed, g_dec_set, g_dec_value
          retrace,   \* g_vi_last
          installed, \* the slots of the OS's tables with a handler
          pass,      \* deliver_pending: what it looks at next, its `now`,
                     \* and the handler it was entered from
          handler,   \* the handler it runs: g_in_handler and the saved MSR
          ee,        \* MSR[EE]
          branches,  \* irq_poll's n
          owed       \* history: what was asked of a source, less the
                     \* handler's calls for it

device == <<engine, raised, unmasked, ai, dec, retrace>>
vars == <<now, device, installed, pass, handler, ee, branches, owed>>

Idle == [source |-> None, ee |-> FALSE, acked |-> FALSE]
NoPass == [at |-> None, now |-> 0, within |-> None]

\* Guest code runs between passes and inside a handler.
GuestRuns == pass.at = None \/ handler.source # pass.within
Deliverable(s) == s \in installed

Init ==
    /\ now = 0
    /\ engine = [d \in Engines |-> [busy |-> FALSE, due |-> 0]]
    /\ raised = {} /\ unmasked = {}
    /\ ai = [on |-> FALSE, due |-> 0, period |-> 0, start |-> 0, played |-> 0]
    /\ dec = [armed |-> FALSE, set |-> 0, value |-> 0]
    /\ retrace = 0
    /\ installed = Used \ Late
    /\ pass = NoPass /\ handler = Idle
    /\ ee = TRUE /\ branches = 0
    /\ owed = [s \in Sources |-> 0]

Tick == /\ now < Horizon
        /\ now' = now + 1
        /\ UNCHANGED <<device, installed, pass, handler, ee, branches, owed>>

-----------------------------------------------------------------------------
(* The engines: di_poll and aram_poll *)

Finished(d) == engine[d].busy /\ now >= engine[d].due

\* The engines of ds whose time is up complete and raise their interrupts,
\* those of `more` with them.
PollEngines(ds, more) ==
    LET done == {d \in ds : Finished(d)} IN
    /\ engine' = [d \in Engines |-> [engine[d] EXCEPT !.busy = @ /\ d \notin done]]
    /\ raised' = raised \cup done \cup more

\* dsp_poll: one block at a time, the next due a period after this one was.
BlockEnds == ai.on /\ now >= ai.due
NextDue == ai.due + ai.period
Ended_All == (now - ai.due) \div ai.period + 1
Ended == 1                            \* the blocks one poll plays
PollBlock ==
    IF BlockEnds THEN /\ ai' = [ai EXCEPT !.due = NextDue, !.played = @ + Ended]
                      /\ owed' = [owed EXCEPT !["AI"] = @ + Ended]
                 ELSE UNCHANGED <<ai, owed>>

-----------------------------------------------------------------------------
(* What the guest does, in a handler or outside one *)

\* execute (a TSTART write to DICR) and dma (a write of CNT's low half).
DueAfter(t) == now + t
Start(d, t) ==
    /\ GuestRuns /\ d \in Used
    /\ ~engine[d].busy /\ d \notin raised
    /\ now + t <= Horizon
    /\ engine' = [engine EXCEPT ![d] = [busy |-> TRUE, due |-> DueAfter(t)]]
    /\ owed' = [owed EXCEPT ![d] = @ + 1]
    /\ UNCHANGED <<now, raised, unmasked, ai, dec, retrace, installed, pass, handler, ee, branches>>

\* Any read of the device's registers: the engine progresses whether or not
\* interrupts are on.
ReadDevice(d) ==
    /\ GuestRuns /\ Finished(d)
    /\ PollEngines({d}, {})
    /\ UNCHANGED <<now, unmasked, ai, dec, retrace, installed, pass, handler, ee, branches, owed>>

\* DISR, or the DSP's CSR, which AI and ARAM share: interrupt bits written
\* one clear, the masks are stored.
Register(d) == IF d = "DI" THEN {"DI"} ELSE {"AI", "ARAM"}
Cleared_All(reg, w) == raised \ (IF w = {} THEN {} ELSE reg)
Cleared(reg, w) == raised \ w
WriteStatus(reg, w, m) ==
    /\ GuestRuns /\ reg \cap Used # {}
    /\ w \subseteq reg \cap {handler.source} /\ (handler.acked => w = {})
    /\ m \subseteq reg \cap Used
    /\ (ai.on /\ "AI" \in reg) => "AI" \in m
    /\ raised' = Cleared(reg, w)
    /\ unmasked' = (unmasked \ reg) \cup m
    /\ handler' = [handler EXCEPT !.acked = @ \/ w # {}]
    /\ UNCHANGED <<now, engine, ai, dec, retrace, installed, pass, ee, branches, owed>>

\* The AI DMA's control register.  Only a write that turns the engine on
\* sets the block's end; one while it runs sets the next block's length.
Begins_Always(t) == TRUE
Begins(t) == ~ai.on
AiControl(t) ==
    /\ GuestRuns /\ "AI" \in Used \cap installed \cap unmasked
    /\ ai.on => t = ai.period
    /\ ai' = [on |-> TRUE, period |-> t,
              due |-> IF Begins(t) THEN now + t ELSE ai.due,
              start |-> IF ai.on THEN ai.start ELSE now,
              played |-> IF ai.on THEN ai.played ELSE 0]
    /\ UNCHANGED <<now, engine, raised, unmasked, dec, retrace, installed, pass, handler, ee, branches, owed>>

AiStop ==
    /\ GuestRuns /\ ai.on
    /\ ai' = [ai EXCEPT !.on = FALSE]
    /\ UNCHANGED <<now, engine, raised, unmasked, dec, retrace, installed, pass, handler, ee, branches, owed>>

\* dec_write: armed anew, whatever it held.
ArmDec(v) ==
    /\ GuestRuns /\ "DEC" \in Used
    /\ now + v <= Horizon
    /\ dec' = [armed |-> TRUE, set |-> now, value |-> v]
    /\ owed' = [owed EXCEPT !["DEC"] = 1]
    /\ UNCHANGED <<now, engine, raised, unmasked, ai, retrace, installed, pass, handler, ee, branches>>

\* __OSSetInterruptHandler and __OSSetExceptionHandler.
Install(s) ==
    /\ GuestRuns /\ s \in Used \ installed
    /\ installed' = installed \cup {s}
    /\ UNCHANGED <<now, device, pass, handler, ee, branches, owed>>

SetEE ==
    /\ GuestRuns
    /\ ee' = ~ee
    /\ UNCHANGED <<now, device, installed, pass, handler, branches, owed>>

-----------------------------------------------------------------------------
(* The two ways into a pass *)

Nested_Missed == FALSE
Nested == handler.source # None
BeginPass == pass' = [at |-> "DEC", now |-> now, within |-> handler.source]

\* hook_80237BA8.  A handler that idles delivers nothing.
IdleHook ==
    /\ GuestRuns /\ ~Nested
    /\ BeginPass
    /\ UNCHANGED <<now, device, installed, handler, ee, branches, owed>>

\* irq_poll.  Its return with interrupts off or in a handler changes nothing;
\* the scheduler it runs after a delivery is guest code with interrupts off.
BackwardBranch ==
    /\ GuestRuns /\ ee /\ ~Nested
    /\ branches' = (branches + 1) % PollEvery
    /\ IF branches' = 0 THEN BeginPass ELSE UNCHANGED pass
    /\ UNCHANGED <<now, device, installed, handler, ee, owed>>

-----------------------------------------------------------------------------
(* deliver_pending, from handler to handler *)

Looking(s) == pass.at = s /\ handler.source = pass.within
Then(s) == pass' = IF s = None THEN NoPass ELSE [pass EXCEPT !.at = s]

\* call_guest_handler: interrupts off, the interrupted MSR kept.
Call(s) == /\ handler' = [source |-> s, ee |-> ee, acked |-> FALSE]
           /\ ee' = FALSE

\* The decrementer fires once for each arming; a time out that finds the
\* catch-all in the slot is dropped.
Expired_Exactly == dec.armed /\ pass.now - dec.set = dec.value
Expired == dec.armed /\ pass.now - dec.set >= dec.value
LookAtDec ==
    /\ Looking("DEC")
    /\ IF Expired
       THEN /\ dec' = [dec EXCEPT !.armed = FALSE]
            /\ owed' = [owed EXCEPT !["DEC"] = 0]
            /\ IF Deliverable("DEC") THEN Call("DEC") ELSE UNCHANGED <<handler, ee>>
       ELSE UNCHANGED <<dec, owed, handler, ee>>
    /\ Then("POLL")
    /\ UNCHANGED <<now, engine, raised, unmasked, ai, retrace, installed, branches>>

\* The engines first, then the AI DMA.
Poll ==
    /\ Looking("POLL")
    /\ PollEngines(Engines, IF BlockEnds THEN {"AI"} ELSE {})
    /\ PollBlock
    /\ Then("AI")
    /\ UNCHANGED <<now, unmasked, dec, retrace, installed, handler, ee, branches>>

\* A bit that is raised and unmasked is delivered, once a pass.
Pending(s) == s \in raised \cap unmasked
LookAtLevel(s, next) ==
    /\ Looking(s)
    /\ IF Pending(s) /\ Deliverable(s)
       THEN Call(s) /\ owed' = [owed EXCEPT ![s] = @ - 1]
       ELSE UNCHANGED <<handler, ee, owed>>
    /\ Then(next)
    /\ UNCHANGED <<now, device, installed, branches>>

RetraceDue(t) == t - retrace >= ViPeriod
LookAtVi ==
    /\ Looking("VI")
    /\ IF RetraceDue(pass.now) /\ Deliverable("VI")
       THEN retrace' = pass.now /\ Call("VI")
       ELSE UNCHANGED <<retrace, handler, ee>>
    /\ Then(None)
    /\ UNCHANGED <<now, engine, raised, unmasked, ai, dec, installed, branches, owed>>

\* The handler is back: the interrupted MSR with it.
HandlerReturns ==
    /\ handler.source # None
    /\ handler.source \in Levels => handler.acked
    /\ ee' = handler.ee
    /\ handler' = Idle
    /\ UNCHANGED <<now, device, installed, pass, branches, owed>>

-----------------------------------------------------------------------------
Guest == \/ \E d \in Engines : ReadDevice(d) \/ \E t \in CommandTimes : Start(d, t)
         \/ \E d \in Levels, w, m \in SUBSET Levels : WriteStatus(Register(d), w, m)
         \/ \E t \in BlockTimes : AiControl(t)
         \/ AiStop
         \/ \E v \in AlarmTimes : ArmDec(v)
         \/ \E s \in Sources : Install(s)
         \/ SetEE \/ IdleHook \/ BackwardBranch

Deliver == \/ LookAtDec \/ Poll
           \/ LookAtLevel("AI", "ARAM") \/ LookAtLevel("ARAM", "DI") \/ LookAtLevel("DI", "VI")
           \/ LookAtVi

Next == Tick \/ Guest \/ Deliver \/ HandlerReturns

Spec == Init /\ [][Next]_vars

Acknowledge == \E d \in Levels, m \in SUBSET Levels :
                   handler.source = d /\ WriteStatus(Register(d), {d}, m)

\* Time passes; a pass goes on; a handler acknowledges and returns; and the
\* main thread, which waits for a retrace every frame, is in the idle loop
\* again and again.
FairSpec == /\ Spec
            /\ WF_vars(Tick) /\ WF_vars(Deliver)
            /\ WF_vars(Acknowledge) /\ WF_vars(HandlerReturns)
            /\ SF_vars(IdleHook)

-----------------------------------------------------------------------------
(* Correctness *)

TypeOK ==
    /\ now \in 0..Horizon
    /\ engine \in [Engines -> [busy : BOOLEAN, due : Nat]]
    /\ raised \subseteq Levels /\ unmasked \subseteq Levels
    /\ ai \in [on : BOOLEAN, due : Nat, period : Nat, start : Nat, played : Nat]
    /\ dec \in [armed : BOOLEAN, set : Nat, value : Nat]
    /\ retrace \in 0..Horizon
    /\ installed \subseteq Used
    /\ pass \in [at : Sources \cup {"POLL", None}, now : 0..Horizon, within : Sources \cup {None}]
    /\ handler \in [source : Sources \cup {None}, ee : BOOLEAN, acked : BOOLEAN]
    /\ ee \in BOOLEAN /\ branches \in 0..PollEvery-1
    /\ owed \in [Sources -> Nat]

\* Raised for something no handler has been called for.
Waiting(s) == s \in raised /\ ~(handler.source = s /\ ~handler.acked)

(* Every command started, and every block of sound played, is answered by   *)
(* exactly one call of its handler: no completion is cleared by another     *)
(* source's acknowledgement, delivered twice, or merged with the next one,  *)
(* however late the passes come.                                            *)
Answered ==
    /\ \A d \in Engines : owed[d] = IF engine[d].busy \/ Waiting(d) THEN 1 ELSE 0
    /\ owed["AI"] = IF Waiting("AI") THEN 1 ELSE 0

(* The AI DMA keeps its pace: block n ends n lengths after the engine was    *)
(* turned on, whenever the polls and the driver's writes come, and none is   *)
(* played before its end.                                                    *)
Pace == ai.on => /\ ai.due = ai.start + (ai.played + 1) * ai.period
                 /\ ai.played * ai.period <= now - ai.start

(* A handler is left by its own return only: one that idles or branches      *)
(* back with interrupts enabled is not interrupted by another.               *)
HandlersRunWhole ==
    [][handler.source # None => handler'.source \in {handler.source, None}]_vars

(* What was asked for comes, for as long as its handler is in place and it   *)
(* is not masked; and a retrace that is due is delivered.                    *)
Shut(s) == s \notin installed \/ s \in Levels \ unmasked
EverythingArrives ==
    /\ \A s \in Sources : owed[s] > 0 ~> owed[s] = 0 \/ Shut(s)
    /\ RetraceDue(now) ~> ~RetraceDue(now) \/ Shut("VI")

=============================================================================

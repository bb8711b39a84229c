----------------------- MODULE DeviceInterrupts_proof -----------------------
(***************************************************************************)
(* For every set of sources and all times: each command and each block is  *)
(* answered once, the sound keeps its pace, and handlers do not nest.      *)
(*                                                                         *)
(* Answered is not inductive: it has to know that an engine in flight has  *)
(* no interrupt standing, that a handler which has not acknowledged still  *)
(* finds its bit, and that AIDINT never outlives the pass that raised it - *)
(* which is why one block a poll is one callback a block.                  *)
(***************************************************************************)
EXTENDS DeviceInterrupts, TLAPS

BusyNotRaised == \A d \in Engines : engine[d].busy => d \notin raised
BitStands == \A s \in Levels : handler.source = s /\ ~handler.acked => s \in raised
SoundReady == ai.on => "AI" \in unmasked \cap installed
SoundAnswered ==
    "AI" \in raised => \/ pass.at = "AI" /\ handler.source = None /\ "AI" \in unmasked \cap installed
                       \/ handler.source = "AI" /\ ~handler.acked
FromTheGuest == pass.within = None

IInv == /\ TypeOK /\ Answered /\ Pace
        /\ BusyNotRaised /\ BitStands /\ SoundReady /\ SoundAnswered /\ FromTheGuest

\* Every device is idle when the program starts.
LEMMA InitIInv == Init => IInv
BY InterruptConstants DEF Init, IInv, TypeOK, Answered, Pace, BusyNotRaised, BitStands, SoundReady,
   SoundAnswered, FromTheGuest, Waiting, Idle, NoPass, None, Engines, Levels, Sources

USE DEF Engines, Levels, Sources, None, Idle, NoPass

EngineType == [Engines -> [busy : BOOLEAN, due : Nat]]
HandlerType == [source : Sources \cup {None}, ee : BOOLEAN, acked : BOOLEAN]

\* A poll ends the engines whose time is up, and no other.
LEMMA PollEnds ==
    ASSUME engine \in EngineType, NEW ds, NEW more, PollEngines(ds, more)
    PROVE  /\ engine' \in EngineType
           /\ \A d \in Engines : engine'[d].busy <=> engine[d].busy /\ ~(d \in ds /\ Finished(d))
<1> DEFINE done == {d \in ds : Finished(d)}
           e(d) == [engine[d] EXCEPT !.busy = @ /\ d \notin done]
<1>1. engine' = [d \in Engines |-> e(d)]
    BY DEF PollEngines
<1>2. ASSUME NEW d \in Engines PROVE e(d) \in [busy : BOOLEAN, due : Nat]
    <2>1. engine[d] \in [busy : BOOLEAN, due : Nat]
        BY DEF EngineType
    <2>2. (engine[d].busy /\ d \notin done) \in BOOLEAN
        OBVIOUS
    <2> QED BY <2>1, <2>2, Zenon
<1>3. ASSUME NEW d \in Engines PROVE e(d).busy <=> engine[d].busy /\ d \notin done
    <2>1. engine[d] \in [busy : BOOLEAN, due : Nat]
        BY DEF EngineType
    <2> QED BY <2>1
<1> HIDE DEF e
<1>4. engine' \in EngineType
    BY <1>1, <1>2 DEF EngineType
<1>5. \A d \in Engines : engine'[d].busy <=> engine[d].busy /\ d \notin done
    BY <1>1, <1>3
<1> QED BY <1>4, <1>5

\* A call, or none, leaves a handler and an MSR.
LEMMA CallTypes ==
    ASSUME handler \in HandlerType, ee \in BOOLEAN, NEW s \in Sources,
           Call(s) \/ UNCHANGED <<handler, ee>>
    PROVE  handler' \in HandlerType /\ ee' \in BOOLEAN
<1>1. CASE Call(s)
    <2>1. handler' = [source |-> s, ee |-> ee, acked |-> FALSE] /\ ee' = FALSE
        BY <1>1 DEF Call
    <2> QED BY <2>1, Zenon DEF HandlerType
<1>2. CASE UNCHANGED <<handler, ee>>
    BY <1>2
<1> QED BY <1>1, <1>2

\* Looking at the decrementer disarms it, or leaves it.
DecType == [armed : BOOLEAN, set : Nat, value : Nat]
LEMMA DecTypes == ASSUME dec \in DecType, LookAtDec PROVE dec' \in DecType
<1>1. dec' = [dec EXCEPT !.armed = FALSE] \/ dec' = dec
    BY DEF LookAtDec
<1>2. [dec EXCEPT !.armed = FALSE] \in DecType
    BY Zenon DEF DecType
<1> QED BY <1>1, <1>2

\* The fields of the AI DMA's record, two of them changed.
AiType == [on : BOOLEAN, due : Nat, period : Nat, start : Nat, played : Nat]
LEMMA BlockFields ==
    ASSUME ai \in AiType, NEW due, NEW played, ai' = [ai EXCEPT !.due = due, !.played = played]
    PROVE  /\ ai'.due = due /\ ai'.played = played /\ ai'.on = ai.on
           /\ ai'.period = ai.period /\ ai'.start = ai.start
BY DEF AiType

\* A block that ends moves the AI DMA's due time and count, and is owed.
LEMMA BlockTypes == ASSUME ai \in AiType, PollBlock PROVE ai' \in AiType
<1>1. CASE BlockEnds
    <2>1. ai' = [ai EXCEPT !.due = ai.due + ai.period, !.played = ai.played + 1]
        BY <1>1 DEF PollBlock, NextDue, Ended
    <2>2. ai.due \in Nat /\ ai.period \in Nat /\ ai.played \in Nat
        BY DEF AiType
    <2>3. ai.due + ai.period \in Nat /\ ai.played + 1 \in Nat
        BY <2>2
    <2> QED BY <2>1, <2>3, Zenon DEF AiType
<1>2. CASE ~BlockEnds
    BY <1>2 DEF PollBlock
<1> QED BY <1>1, <1>2

\* One step of the guest, of time or of a pass keeps every part.
LEMMA StepIInv == IInv /\ [Next]_vars => IInv'
<1> SUFFICES ASSUME IInv, [Next]_vars PROVE IInv'
    OBVIOUS
<1> USE InterruptConstants DEF IInv, TypeOK, BusyNotRaised, BitStands, SoundReady, SoundAnswered, FromTheGuest
<1>1. CASE Tick
  BY <1>1 DEF Tick, Answered, Pace, Waiting, device
<1>2. CASE Deliver
  <2>1. CASE LookAtDec
    <3>1. TypeOK'
      <4>1. pass' \in [at : Sources \cup {"POLL", None}, now : 0..Horizon, within : Sources \cup {None}]
        BY <2>1 DEF LookAtDec, Looking, Then, Call, Deliverable, Expired, Answered, Waiting
      <4>2. handler' \in [source : Sources \cup {None}, ee : BOOLEAN, acked : BOOLEAN] /\ ee' \in BOOLEAN
        <5>1. Call("DEC") \/ UNCHANGED <<handler, ee>>
          BY <2>1 DEF LookAtDec
        <5> QED BY <5>1, CallTypes DEF HandlerType
      <4>3. owed' \in [Sources -> Nat]
        BY <2>1 DEF LookAtDec, Looking, Then, Call, Deliverable, Expired, Answered, Waiting
      <4>4. dec' \in [armed : BOOLEAN, set : Nat, value : Nat]
        BY <2>1, DecTypes DEF DecType
      <4> QED BY <2>1, <4>1, <4>2, <4>3, <4>4 DEF LookAtDec, device
    <3>2. Answered'
      BY <2>1 DEF LookAtDec, Looking, Then, Call, Deliverable, Expired, Answered, Waiting
    <3>3. Pace'
      BY <2>1 DEF LookAtDec, Looking, Then, Call, Deliverable, Expired, Pace
    <3>4. BusyNotRaised' /\ BitStands' /\ SoundReady' /\ SoundAnswered' /\ FromTheGuest'
      BY <2>1 DEF LookAtDec, Looking, Then, Call, Deliverable, Expired
    <3> QED BY <3>1, <3>2, <3>3, <3>4
  <2>2. CASE Poll
    <3>1. TypeOK'
      <4>1. pass' \in [at : Sources \cup {"POLL", None}, now : 0..Horizon, within : Sources \cup {None}]
        BY <2>2 DEF Poll, Looking, Then, PollEngines, PollBlock, Finished, BlockEnds, NextDue, Ended, Answered, Waiting
      <4>2. engine' \in [Engines -> [busy : BOOLEAN, due : Nat]]
        BY <2>2, PollEnds DEF Poll, EngineType
      <4>3. ai' \in [on : BOOLEAN, due : Nat, period : Nat, start : Nat, played : Nat]
        BY <2>2, BlockTypes DEF Poll, AiType
      <4>4. owed' \in [Sources -> Nat]
        BY <2>2 DEF Poll, Looking, Then, PollEngines, PollBlock, Finished, BlockEnds, NextDue, Ended, Answered, Waiting
      <4>5. retrace' \in 0..Horizon /\ raised' \subseteq Levels
        BY <2>2 DEF Poll, Looking, Then, PollEngines, PollBlock, Finished, BlockEnds, NextDue, Ended, Answered, Waiting
      <4> QED BY <2>2, <4>1, <4>2, <4>3, <4>4, <4>5 DEF Poll, device
    <3>2. Answered'
      BY <2>2 DEF Poll, Looking, Then, PollEngines, PollBlock, Finished, BlockEnds, NextDue, Ended, Answered, Waiting
    <3>3. Pace'
      <4>1. CASE BlockEnds
        <5>1. ai'.due = ai.due + ai.period /\ ai'.period = ai.period /\ ai'.start = ai.start /\ ai'.played = ai.played + 1
          <6>1. ai' = [ai EXCEPT !.due = ai.due + ai.period, !.played = ai.played + 1]
            BY <2>2, <4>1 DEF Poll, PollBlock, NextDue, Ended
          <6>2. ai \in AiType
            BY DEF AiType
          <6> QED BY <6>1, <6>2, BlockFields
        <5>2. ai.on /\ ai.due <= now /\ ai.due = ai.start + (ai.played + 1) * ai.period
          BY <4>1 DEF BlockEnds, Pace
        <5>3. now' = now
          BY <2>2 DEF Poll
        <5>4. (ai.played + 2) * ai.period = (ai.played + 1) * ai.period + ai.period
          OBVIOUS
        <5>5. (ai.played + 1) * ai.period \in Nat
          OBVIOUS
        <5> QED BY <5>1, <5>2, <5>3, <5>4, <5>5 DEF Pace
      <4>2. CASE ~BlockEnds
        BY <2>2, <4>2 DEF Poll, Looking, Then, PollEngines, PollBlock, Finished, BlockEnds, NextDue, Ended, Pace
      <4> QED BY <4>1, <4>2
    <3>4. BusyNotRaised' /\ BitStands' /\ SoundReady' /\ SoundAnswered' /\ FromTheGuest'
      <4>1. /\ pass.at = "POLL" /\ handler.source = None
            /\ pass' = [pass EXCEPT !.at = "AI"]
            /\ handler' = handler /\ unmasked' = unmasked /\ installed' = installed
        BY <2>2 DEF Poll, Looking, Then
      <4>2. pass'.at = "AI" /\ pass'.within = None
        BY <4>1
      <4>3. raised' = raised \cup {d \in Engines : Finished(d)} \cup (IF BlockEnds THEN {"AI"} ELSE {})
        BY <2>2 DEF Poll, PollEngines
      <4>4. \A d \in Engines : engine'[d].busy <=> engine[d].busy /\ ~Finished(d)
        BY <2>2, PollEnds DEF Poll, EngineType
      <4>5. BusyNotRaised'
        BY <4>3, <4>4 DEF Finished
      <4>6. ai'.on = ai.on
        BY <2>2 DEF Poll, PollBlock
      <4>7. "AI" \in raised' => "AI" \in unmasked \cap installed
        <5>1. "AI" \notin raised
          BY <4>1
        <5> QED BY <4>3, <5>1 DEF BlockEnds
      <4> QED BY <4>1, <4>2, <4>3, <4>5, <4>6, <4>7
    <3> QED BY <3>1, <3>2, <3>3, <3>4
  <2>3. ASSUME NEW s \in Levels, NEW n \in {"ARAM", "DI", "VI"}, LookAtLevel(s, n), s = "AI" <=> n = "ARAM" PROVE IInv'
    <3>1. TypeOK'
      <4>1. pass' \in [at : Sources \cup {"POLL", None}, now : 0..Horizon, within : Sources \cup {None}]
        BY <2>3 DEF LookAtLevel, Looking, Then, Call, Deliverable, Pending, device, Answered, Waiting
      <4>2. handler' \in [source : Sources \cup {None}, ee : BOOLEAN, acked : BOOLEAN] /\ ee' \in BOOLEAN
        <5>1. Call(s) \/ UNCHANGED <<handler, ee>>
          BY <2>3 DEF LookAtLevel
        <5> QED BY <5>1, CallTypes DEF HandlerType
      <4>3. owed' \in [Sources -> Nat]
        BY <2>3 DEF LookAtLevel, Looking, Then, Call, Deliverable, Pending, device, Answered, Waiting
      <4> QED BY <2>3, <4>1, <4>2, <4>3 DEF LookAtLevel, device
    <3>2. Answered'
      BY <2>3 DEF LookAtLevel, Looking, Then, Call, Deliverable, Pending, device, Answered, Waiting
    <3>3. Pace'
      BY <2>3 DEF LookAtLevel, Looking, Then, Call, Deliverable, Pending, device, Pace
    <3>4. BusyNotRaised' /\ BitStands' /\ SoundReady' /\ SoundAnswered' /\ FromTheGuest'
      BY <2>3 DEF LookAtLevel, Looking, Then, Call, Deliverable, Pending, device
    <3> QED BY <3>1, <3>2, <3>3, <3>4
  <2>4. CASE LookAtVi
    <3>1. TypeOK'
      <4>1. pass' \in [at : Sources \cup {"POLL", None}, now : 0..Horizon, within : Sources \cup {None}]
        BY <2>4 DEF LookAtVi, Looking, Then, Call, Deliverable, Answered, Waiting
      <4>2. handler' \in [source : Sources \cup {None}, ee : BOOLEAN, acked : BOOLEAN] /\ ee' \in BOOLEAN
        <5>1. Call("VI") \/ UNCHANGED <<handler, ee>>
          BY <2>4 DEF LookAtVi
        <5> QED BY <5>1, CallTypes DEF HandlerType
      <4>3. retrace' \in 0..Horizon /\ raised' \subseteq Levels
        BY <2>4 DEF LookAtVi, Looking, Then, Call, Deliverable, Answered, Waiting
      <4> QED BY <2>4, <4>1, <4>2, <4>3 DEF LookAtVi, device
    <3>2. Answered'
      BY <2>4 DEF LookAtVi, Looking, Then, Call, Deliverable, Answered, Waiting
    <3>3. Pace'
      BY <2>4 DEF LookAtVi, Looking, Then, Call, Deliverable, Pace
    <3>4. BusyNotRaised' /\ BitStands' /\ SoundReady' /\ SoundAnswered' /\ FromTheGuest'
      BY <2>4 DEF LookAtVi, Looking, Then, Call, Deliverable
    <3> QED BY <3>1, <3>2, <3>3, <3>4
  <2> QED BY <1>2, <2>1, <2>2, <2>3, <2>4 DEF Deliver
<1>3. CASE Guest
  <2>1. ASSUME NEW d \in Engines, ReadDevice(d) PROVE IInv'
    <3>1. TypeOK'
      <4>1. engine' \in [Engines -> [busy : BOOLEAN, due : Nat]]
        BY <2>1, PollEnds DEF ReadDevice, EngineType
      <4>2. raised' \subseteq Levels
        BY <2>1 DEF ReadDevice, PollEngines
      <4> QED BY <2>1, <4>1, <4>2 DEF ReadDevice, device
    <3>2. Answered'
      BY <2>1 DEF ReadDevice, GuestRuns, Finished, PollEngines, Answered, Waiting
    <3>3. Pace'
      BY <2>1 DEF ReadDevice, GuestRuns, Finished, PollEngines, Pace
    <3>4. BusyNotRaised' /\ BitStands' /\ SoundReady' /\ SoundAnswered' /\ FromTheGuest'
      <4>1. BusyNotRaised'
        <5>1. raised' = raised \cup {e \in {d} : Finished(e)} \cup {}
          BY <2>1 DEF ReadDevice, PollEngines
        <5>2. \A e \in Engines : engine'[e].busy <=> engine[e].busy /\ ~(e \in {d} /\ Finished(e))
          BY <2>1, PollEnds DEF ReadDevice, EngineType
        <5> QED BY <5>1, <5>2
      <4>2. BitStands'
        BY <2>1 DEF ReadDevice, GuestRuns, Finished, PollEngines
      <4>3. SoundReady' /\ SoundAnswered' /\ FromTheGuest'
        BY <2>1 DEF ReadDevice, GuestRuns, Finished, PollEngines
      <4> QED BY <4>1, <4>2, <4>3
    <3> QED BY <3>1, <3>2, <3>3, <3>4
  <2>2. ASSUME NEW d \in Engines, NEW t \in CommandTimes, Start(d, t) PROVE IInv'
    BY <2>2 DEF Start, DueAfter, GuestRuns, Answered, Pace, Waiting
  <2>3. ASSUME NEW d \in Levels, NEW w \in SUBSET Levels, NEW m \in SUBSET Levels,
               WriteStatus(Register(d), w, m) PROVE IInv'
    <3>1. TypeOK'
      BY <2>3 DEF WriteStatus, Register, Cleared, GuestRuns, Answered, Waiting
    <3>2. Answered'
      BY <2>3 DEF WriteStatus, Register, Cleared, GuestRuns, Answered, Waiting
    <3>3. Pace'
      BY <2>3 DEF WriteStatus, Register, Cleared, GuestRuns, Pace
    <3>4. BusyNotRaised' /\ BitStands' /\ SoundReady' /\ SoundAnswered' /\ FromTheGuest'
      <4>1. BusyNotRaised'
        BY <2>3 DEF WriteStatus, Register, Cleared, GuestRuns
      <4>2. BitStands'
        BY <2>3 DEF WriteStatus, Register, Cleared, GuestRuns
      <4>3. SoundReady' /\ SoundAnswered' /\ FromTheGuest'
        BY <2>3 DEF WriteStatus, Register, Cleared, GuestRuns
      <4> QED BY <4>1, <4>2, <4>3
    <3> QED BY <3>1, <3>2, <3>3, <3>4
  <2>4. ASSUME NEW t \in BlockTimes, AiControl(t) PROVE IInv'
    BY <2>4 DEF AiControl, Begins, GuestRuns, Answered, Pace, Waiting
  <2>5. CASE AiStop
    <3>1. TypeOK'
      BY <2>5 DEF AiStop, GuestRuns, Answered, Waiting
    <3>2. Answered'
      BY <2>5 DEF AiStop, GuestRuns, Answered, Waiting
    <3>3. Pace'
      BY <2>5 DEF AiStop, GuestRuns, Pace
    <3>4. BusyNotRaised' /\ BitStands' /\ SoundReady' /\ SoundAnswered' /\ FromTheGuest'
      BY <2>5 DEF AiStop, GuestRuns
    <3> QED BY <3>1, <3>2, <3>3, <3>4
  <2>6. ASSUME NEW v \in AlarmTimes, ArmDec(v) PROVE IInv'
    BY <2>6 DEF ArmDec, GuestRuns, Answered, Pace, Waiting
  <2>7. ASSUME NEW s \in Sources, Install(s) PROVE IInv'
    BY <2>7 DEF Install, GuestRuns, Answered, Pace, Waiting, device
  <2>8. CASE SetEE
    BY <2>8 DEF SetEE, GuestRuns, Answered, Pace, Waiting, device
  <2>9. CASE IdleHook
    BY <2>9 DEF IdleHook, BeginPass, Nested, GuestRuns, Answered, Pace, Waiting, device
  <2>10. CASE BackwardBranch
    BY <2>10 DEF BackwardBranch, BeginPass, Nested, GuestRuns, Answered, Pace, Waiting, device
  <2> QED BY ZenonT(60), <1>3, <2>1, <2>2, <2>3, <2>4, <2>5, <2>6, <2>7, <2>8, <2>9, <2>10 DEF Guest
<1>4. CASE HandlerReturns
  BY <1>4 DEF HandlerReturns, Answered, Pace, Waiting, device
<1>5. CASE UNCHANGED vars
  BY <1>5 DEF vars, device, Answered, Pace, Waiting
<1> QED BY <1>1, <1>2, <1>3, <1>4, <1>5 DEF Next

THEOREM Invariance == Spec => []IInv
BY InitIInv, StepIInv, PTL DEF Spec

(* Each command and each block is answered by one handler call: the code's  *)
(* interrupt bits, cleared only by writing them, count correctly.           *)
THEOREM AnsweredAlways == Spec => []Answered
BY Invariance, PTL DEF IInv

(* The AI DMA keeps its pace (dsp_write's running write, dsp_poll's         *)
(* deadline).                                                               *)
THEOREM PaceKept == Spec => []Pace
BY Invariance, PTL DEF IInv

\* Only a pass with no handler running calls one.
LEMMA StepWhole == IInv /\ [Next]_vars => [handler.source # None => handler'.source \in {handler.source, None}]_vars
<1> SUFFICES ASSUME IInv, Next, handler.source # None PROVE handler'.source \in {handler.source, None}
    BY DEF vars
<1> USE DEF IInv, FromTheGuest
<1>1. CASE Tick \/ HandlerReturns
  BY <1>1 DEF Tick, HandlerReturns
<1>2. CASE Deliver
  BY <1>2 DEF Deliver, LookAtDec, Poll, LookAtLevel, LookAtVi, Looking
<1>3. CASE Guest
  BY <1>3 DEF Guest, ReadDevice, Start, WriteStatus, AiControl, AiStop, ArmDec, Install, SetEE, IdleHook, BackwardBranch, TypeOK
<1> QED BY <1>1, <1>2, <1>3 DEF Next

(* A handler is left by its own return only (g_in_handler's guard).         *)
THEOREM HandlersNotNested == Spec => HandlersRunWhole
BY Invariance, StepWhole, PTL DEF Spec, HandlersRunWhole
=============================================================================

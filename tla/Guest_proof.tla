---------------------------- MODULE Guest_proof ----------------------------
(***************************************************************************)
(* What holds of the parts of a frame MCGuest puts side by side, for every *)
(* value of their constants, and so of every behaviour of the whole.       *)
(*                                                                         *)
(* The overlay's hand-over is a box with the newest frame in it, for any   *)
(* mods and any room.  The argument: the three slots are the guest         *)
(* thread's, the window thread's and the one between them (Roles), so the  *)
(* frame that ended last stays as it was wherever it is (InStep); a frame  *)
(* that is not handed over is empty and so was the one before.             *)
(*                                                                         *)
(* The clock, for any reasons, speeds, gap and host times, steps back too: *)
(* a call's swap takes only if nothing came between its load and it, so it *)
(* changes its own reason and no other's; and a read adds a span at the    *)
(* speed in force only when the span is forward.  So what the guest has    *)
(* had and what it was not to have make up the host's time from one start  *)
(* to the next.                                                            *)
(*                                                                         *)
(* The ARAM queue, for any requests and any chunk: a request is in one     *)
(* place, unused, waiting, pending or told, and what of it has been moved  *)
(* lies below its source, or its source and the chunk at the engine        *)
(* (Sound); while any waits, the engine moves, its interrupt stands or a   *)
(* callback is at work (Phase).  The cache's fetch posts the one request   *)
(* that is its own (FetchAlone).                                           *)
(*                                                                         *)
(* The callbacks, for any mods registered and any depth of the stack: each *)
(* dispatcher keeps the mod the game's code was run by when it raised it,  *)
(* the game's own code nobody's, a called function its caller's (Nested),  *)
(* so what is put back is what the stack below says (Owner, Rendering).    *)
(***************************************************************************)
EXTENDS MCGuest, SequenceTheorems, FiniteSetTheorems, TLAPS

-----------------------------------------------------------------------------
(* The overlay's frames.                                                   *)

\* The slots at the start are all empty.
LEMMA InitInv == Init => OverlayInv /\ RoomHolds
<1>. SUFFICES ASSUME Init PROVE OverlayInv /\ RoomHolds
  OBVIOUS
<1>1. <<>> \in Seq(Draw) /\ Len(<<>>) = 0
  OBVIOUS
<1>2. TypeOK /\ Roles
  <2>1. draws \in [Slots -> Seq(Draw)] /\ ended \in Seq(Draw)
    <3>1. ended = <<>> /\ draws = [s \in Slots |-> <<>>]
      BY DEF Init
    <3>2. ended \in Seq(Draw)
      BY <1>1, <3>1
    <3>. DEFINE none == <<>>
    <3>3. none \in Seq(Draw)
      BY <1>1
    <3>. HIDE DEF none
    <3>4. [s \in Slots |-> none] \in [Slots -> Seq(Draw)]
      BY <3>3
    <3>5. draws \in [Slots -> Seq(Draw)]
      BY <3>1, <3>4 DEF none
    <3>. QED BY <3>2, <3>5
  <2>2. used \in [Slots -> Nat] /\ modCmds \in [Mods -> Nat] /\ modText \in [Mods -> Nat]
    BY DEF Init
  <2>3. shared \in [slot : Slots, fresh : BOOLEAN] /\ back \in Slots /\ front \in Slots
    BY DEF Init, Slots
  <2>4. lastN \in Nat /\ tpc \in BOOLEAN
    BY DEF Init
  <2>5. Roles
    BY DEF Init, Roles
  <2>. QED BY <2>1, <2>2, <2>3, <2>4, <2>5 DEF TypeOK
<1>3. InStep /\ lastN = Len(ended) /\ ~tpc
  BY <1>1 DEF Init, InStep, Slots
<1>4. RoomHolds
  BY <1>1, OverlayAssumption DEF Init, RoomHolds
<1>. QED BY <1>2, <1>3, <1>4 DEF OverlayInv

\* A mod's draw goes to the guest thread's slot alone, and fits it.
LEMMA AddInv ==
    ASSUME OverlayInv, RoomHolds, NEW m \in Mods, NEW len \in TextSizes, Add(m, len)
    PROVE  OverlayInv' /\ RoomHolds'
<1>. DEFINE d == [mod |-> m, text |-> len]
<1>1. /\ draws' = [draws EXCEPT ![back] = Append(@, d)]
      /\ used' = [used EXCEPT ![back] = @ + len]
      /\ Len(draws[back]) < Cmds /\ used[back] + len <= Text
      /\ UNCHANGED <<shared, back, front, lastN, ended, tpc>>
  BY DEF Add, Room
<1>2. /\ back \in Slots /\ draws[back] \in Seq(Draw) /\ used[back] \in Nat
      /\ d \in Draw /\ len \in Nat /\ Cmds \in Nat /\ Text \in Nat
  BY OverlayAssumption DEF OverlayInv, TypeOK, Draw
<1>3. /\ \A s \in Slots : draws'[s] = IF s = back THEN Append(draws[back], d) ELSE draws[s]
      /\ \A s \in Slots : used'[s] = IF s = back THEN used[back] + len ELSE used[s]
  BY <1>1 DEF OverlayInv, TypeOK
<1>4. TypeOK'
  <2>1. draws' \in [Slots -> Seq(Draw)] /\ used' \in [Slots -> Nat]
    BY <1>1, <1>2 DEF OverlayInv, TypeOK
  <2>2. modCmds' \in [Mods -> Nat] /\ modText' \in [Mods -> Nat]
    BY <1>2 DEF Add, OverlayInv, TypeOK
  <2>. QED BY <1>1, <2>1, <2>2 DEF OverlayInv, TypeOK
<1>5. InStep'
  <2>1. front \in Slots /\ shared.slot \in Slots /\ front # back /\ shared.slot # back
    BY DEF OverlayInv, TypeOK, Roles
  <2>. QED BY <1>1, <1>3, <2>1 DEF OverlayInv, InStep
<1>6. RoomHolds'
  <2>1. Len(Append(draws[back], d)) = Len(draws[back]) + 1
    BY <1>2
  <2>. QED BY <1>1, <1>2, <1>3, <2>1 DEF RoomHolds
<1>. QED BY <1>1, <1>4, <1>5, <1>6 DEF OverlayInv, Roles

\* A frame end hands over what was drawn, unless it and the last were empty.
LEMMA PublishInv == OverlayInv /\ RoomHolds /\ Publish => OverlayInv' /\ RoomHolds'
<1>. SUFFICES ASSUME OverlayInv, RoomHolds, Publish PROVE OverlayInv' /\ RoomHolds'
  OBVIOUS
<1>1. /\ back \in Slots /\ shared.slot \in Slots /\ front \in Slots
      /\ back # front /\ back # shared.slot /\ front # shared.slot
      /\ draws[back] \in Seq(Draw) /\ Len(draws[back]) \in Nat
  BY DEF OverlayInv, TypeOK, Roles
<1>2. CASE NothingNew
  <2>1. /\ ended' = draws[back] /\ draws[back] = <<>>
        /\ UNCHANGED <<draws, used, modCmds, modText, shared, back, lastN, front, tpc>>
    BY <1>2 DEF Publish, NothingNew
  <2>2. ended = <<>>
    BY <1>2, EmptySeq DEF NothingNew, OverlayInv, TypeOK
  <2>. QED BY <2>1, <2>2 DEF OverlayInv, TypeOK, Roles, InStep, RoomHolds
<1>3. CASE ~NothingNew
  <2>1. /\ ended' = draws[back] /\ lastN' = Len(draws[back])
        /\ shared' = [slot |-> back, fresh |-> TRUE] /\ back' = shared.slot
        /\ draws' = [draws EXCEPT ![shared.slot] = <<>>]
        /\ used' = [used EXCEPT ![shared.slot] = 0]
        /\ modCmds' = [m \in Mods |-> 0] /\ modText' = [m \in Mods |-> 0]
        /\ UNCHANGED <<front, tpc>>
    BY <1>3 DEF Publish, Displaced
  <2>2. TypeOK'
    BY <1>1, <2>1 DEF OverlayInv, TypeOK
  <2>3. Roles'
    BY <1>1, <2>1 DEF Roles
  <2>4. InStep' /\ lastN' = Len(ended') /\ (tpc' => shared'.fresh)
    BY <1>1, <2>1 DEF OverlayInv, TypeOK, InStep
  <2>5. RoomHolds'
    BY <1>1, <2>1, OverlayAssumption DEF OverlayInv, TypeOK, RoomHolds
  <2>. QED BY <2>2, <2>3, <2>4, <2>5 DEF OverlayInv
<1>. QED BY <1>2, <1>3

\* The window thread's take changes which slot is whose and no slot's draws.
LEMMA TakeInv == OverlayInv /\ RoomHolds /\ (TakeLook \/ TakeSwap) => OverlayInv' /\ RoomHolds'
<1>1. ASSUME OverlayInv, RoomHolds, TakeLook PROVE OverlayInv' /\ RoomHolds'
  BY <1>1 DEF TakeLook, OverlayInv, TypeOK, Roles, InStep, RoomHolds
<1>2. ASSUME OverlayInv, RoomHolds, TakeSwap PROVE OverlayInv' /\ RoomHolds'
  <2>1. TypeOK' /\ Roles' /\ InStep' /\ ~tpc' /\ lastN' = Len(ended')
    BY <1>2 DEF TakeSwap, OverlayInv, TypeOK, Roles, InStep
  <2>2. RoomHolds'
    BY <1>2 DEF TakeSwap, RoomHolds
  <2>. QED BY <2>1, <2>2 DEF OverlayInv
<1>. QED BY <1>1, <1>2

-----------------------------------------------------------------------------

\* The roles of the slots and what they hold, at every step.
THEOREM OverlayInvariance == Spec => []OverlayInv /\ []RoomHolds
<1>1. OverlayInv /\ RoomHolds /\ UNCHANGED vars => OverlayInv' /\ RoomHolds'
  BY DEF vars, OverlayInv, TypeOK, Roles, InStep, RoomHolds
<1>2. OverlayInv /\ RoomHolds /\ [Next]_vars => OverlayInv' /\ RoomHolds'
  BY <1>1, AddInv, PublishInv, TakeInv DEF Next
<1>. QED BY <1>2, InitInv, PTL DEF Spec

\* No frame of draws outgrows its buffers (overlay.c room).
THEOREM RoomHoldsHolds == Spec => []RoomHolds
BY OverlayInvariance, PTL

\* A draw or a frame end never changes the frame the window thread is drawing.
THEOREM ShownKeepsHolds == Spec => ShownKeeps
<1>1. OverlayInv /\ [Next]_vars =>
          [front' = front => draws'[front] = draws[front] /\ used'[front] = used[front]]_vars
  <2>. SUFFICES ASSUME OverlayInv, Next
                PROVE  draws'[front] = draws[front] /\ used'[front] = used[front]
    OBVIOUS
  <2>1. front \in Slots /\ back \in Slots /\ shared.slot \in Slots /\ Roles
    BY DEF OverlayInv, TypeOK
  <2>2. ASSUME NEW m \in Mods, NEW len \in TextSizes, Add(m, len)
        PROVE  draws'[front] = draws[front] /\ used'[front] = used[front]
    BY <2>1, <2>2 DEF Add, OverlayInv, TypeOK, Roles
  <2>3. CASE Publish
    BY <2>1, <2>3 DEF Publish, Displaced, OverlayInv, TypeOK, Roles
  <2>4. CASE TakeLook \/ TakeSwap
    BY <2>4 DEF TakeLook, TakeSwap
  <2>. QED BY <2>2, <2>3, <2>4 DEF Next
<1>. QED BY <1>1, OverlayInvariance, PTL DEF Spec, ShownKeeps

\* What the window thread takes is what the newest frame drew, whole: the
\* triple buffer of overlay.c is a FrameBox.
THEOREM ImplementsBoxHolds == Spec => ImplementsBox
<1>1. Init => Box!Init
  BY DEF Init, Box!Init, Slots
<1>2. OverlayInv /\ [Next]_vars => [Box!Next]_Box!vars
  <2>. SUFFICES ASSUME OverlayInv, [Next]_vars PROVE [Box!Next]_Box!vars
    OBVIOUS
  <2>1. /\ front \in Slots /\ back \in Slots /\ shared.slot \in Slots
        /\ back # front /\ back # shared.slot /\ front # shared.slot
        /\ draws[back] \in Seq(Draw)
    BY DEF OverlayInv, TypeOK, Roles
  <2>2. ASSUME NEW m \in Mods, NEW len \in TextSizes, Add(m, len)
        PROVE  UNCHANGED Box!vars
    BY <2>1, <2>2 DEF Add, Box!vars, OverlayInv, TypeOK
  <2>3. CASE Publish /\ NothingNew
    <3>1. ended' = ended /\ UNCHANGED <<draws, shared, front>>
      BY <2>3, EmptySeq DEF Publish, NothingNew, OverlayInv, TypeOK
    <3>. QED BY <3>1 DEF Box!vars
  <2>4. CASE Publish /\ ~NothingNew
    <3>1. /\ ended' = draws[back] /\ shared'.fresh = TRUE /\ front' = front
          /\ draws'[front] = draws[front]
      BY <2>1, <2>4 DEF Publish, Displaced, OverlayInv, TypeOK
    <3>2. Box!Offer
      BY <2>1, <3>1 DEF Box!Offer
    <3>. QED BY <3>2 DEF Box!Next
  <2>5. CASE TakeLook
    BY <2>5 DEF TakeLook, Box!vars
  <2>6. CASE TakeSwap
    <3>1. /\ shared.fresh /\ shared'.fresh = FALSE /\ ended' = ended
          /\ draws'[front'] = draws[shared.slot]
      BY <2>6 DEF TakeSwap, OverlayInv
    <3>2. draws[shared.slot] = ended
      BY <3>1 DEF OverlayInv, InStep
    <3>3. Box!Take
      BY <3>1, <3>2 DEF Box!Take
    <3>. QED BY <3>3 DEF Box!Next
  <2>7. CASE UNCHANGED vars
    BY <2>7 DEF vars, Box!vars
  <2>. QED BY <2>2, <2>3, <2>4, <2>5, <2>6, <2>7 DEF Next
<1>. QED BY <1>1, <1>2, OverlayInvariance, PTL DEF Spec, ImplementsBox, Box!Spec

-----------------------------------------------------------------------------
(* The clock.                                                              *)

\* The product of a span and a speed, as a fact of its own for the provers.
LEMMA SpanWorth ==
    ASSUME NEW d \in Int, d > 0, NEW s \in Speeds
    PROVE  d * s \in Nat /\ s * d = d * s /\ s * (d + 1) = s * d + s
  BY ClockAssumption

\* What a read does to the clock: its guest time goes forward if at all.
LEMMA AdvanceInv ==
    ASSUME Clk!TypeOK, Clk!Advance
    PROVE  /\ started' \in BOOLEAN /\ paused' \in BOOLEAN
           /\ origin' \in Nat /\ last' \in Nat /\ guest' \in Nat /\ excluded' \in Nat
           /\ guest' >= guest
<1>1. /\ host \in Nat /\ started \in BOOLEAN /\ origin \in Nat /\ last \in Nat
      /\ guest \in Nat /\ excluded \in Nat /\ speed \in Speeds /\ paused \in BOOLEAN
      /\ Clk!Since \in Int
  BY DEF Clk!TypeOK, Clk!Since
<1>2. CASE Clk!FirstRead
  BY <1>1, <1>2 DEF Clk!FirstRead
<1>3. CASE Clk!BeginPause
  BY <1>1, <1>3, SpanWorth DEF Clk!BeginPause
<1>4. CASE Clk!EndPause
  <2>1. excluded' = IF Clk!Since > 0 THEN excluded + Clk!Since ELSE excluded
    BY <1>4 DEF Clk!EndPause
  <2>2. excluded' \in Nat
    BY <1>1, <2>1
  <2>3. started' = started /\ paused' = FALSE
    BY <1>4 DEF Clk!EndPause
  <2>4. origin' = origin /\ last' = host /\ guest' = guest
    BY <1>4 DEF Clk!EndPause
  <2>5. started' \in BOOLEAN /\ paused' \in BOOLEAN
    BY <1>1, <2>3, Zenon
  <2>6. origin' \in Nat /\ last' \in Nat /\ guest' \in Nat /\ guest' >= guest
    BY <1>1, <2>4
  <2>. QED BY <2>2, <2>5, <2>6
<1>5. CASE Clk!CountSpan
  BY <1>1, <1>5, SpanWorth DEF Clk!CountSpan, Clk!Counts
<1>6. CASE Clk!SkipGap
  BY <1>1, <1>6 DEF Clk!SkipGap, Clk!GapExcluded
<1>7. CASE Clk!NoTime
  BY <1>1, <1>7 DEF Clk!NoTime
<1>. QED BY <1>2, <1>3, <1>4, <1>5, <1>6, <1>7 DEF Clk!Advance

\* No step changes the guest's time but a read of the guest thread's.
LEMMA ClockStep ==
    ASSUME Clk!ClockInv, [Clk!Next]_Clk!vars
    PROVE  Clk!ClockInv' /\ guest' >= guest
<1>. USE DEF Clk!ClockInv
<1>1. speed \in Nat /\ guest \in Nat
  BY ClockAssumption DEF Clk!TypeOK
<1>2. CASE Clk!HostRuns
  BY <1>1, <1>2 DEF Clk!HostRuns, Clk!clock, Clk!calls, Clk!TypeOK, Clk!ReasonsKept
<1>3. CASE Clk!HostBack
  BY <1>1, <1>3 DEF Clk!HostBack, Clk!clock, Clk!calls, Clk!TypeOK, Clk!ReasonsKept
<1>4. CASE Clk!Read
  BY <1>4, AdvanceInv DEF Clk!Read, Clk!calls, Clk!TypeOK, Clk!ReasonsKept
<1>5. CASE Clk!SetSpeed
  BY <1>5, AdvanceInv DEF Clk!SetSpeed, Clk!OldSpan, Clk!calls, Clk!TypeOK, Clk!ReasonsKept
<1>6. CASE Clk!Hold \/ Clk!Release
  BY <1>1, <1>6 DEF Clk!Hold, Clk!Release, Clk!clock, Clk!calls, Clk!TypeOK, Clk!ReasonsKept
<1>7. ASSUME NEW r \in Reasons, NEW on \in BOOLEAN, Clk!AskLoad(r, on)
      PROVE  Clk!ClockInv' /\ guest' >= guest
  BY <1>1, <1>7 DEF Clk!AskLoad, Clk!clock, Clk!TypeOK, Clk!ReasonsKept
<1>8. ASSUME NEW r \in Reasons, Clk!AskSwap(r)
      PROVE  Clk!ClockInv' /\ guest' >= guest
  <2>1. Clk!Want(r) \subseteq Reasons /\ (r \in Clk!Want(r) <=> asked[r])
        /\ \A q \in Reasons \ {r} : q \in Clk!Want(r) <=> q \in old[r]
    BY DEF Clk!Want, Clk!TypeOK
  <2>2. CASE Clk!CasTakes(r)
    BY <1>1, <1>8, <2>1, <2>2 DEF Clk!AskSwap, Clk!CasTakes, Clk!clock, Clk!TypeOK, Clk!ReasonsKept
  <2>3. CASE ~Clk!CasTakes(r)
    BY <1>1, <1>8, <2>3 DEF Clk!AskSwap, Clk!clock, Clk!TypeOK, Clk!ReasonsKept
  <2>. QED BY <2>2, <2>3
<1>9. CASE UNCHANGED Clk!vars
  BY <1>1, <1>9 DEF Clk!vars, Clk!clock, Clk!calls, Clk!TypeOK, Clk!ReasonsKept
<1>. QED BY <1>2, <1>3, <1>4, <1>5, <1>6, <1>7, <1>8, <1>9 DEF Clk!Next, Clk!Guest, Clk!Asks

\* Nothing is asked for at the start, and nothing is held.
LEMMA ClockInit == Clk!Init => Clk!ClockInv
<1>. SUFFICES ASSUME Clk!Init PROVE Clk!ClockInv
  OBVIOUS
<1>1. old \in [Reasons -> SUBSET Reasons]
  <2>1. old = [r \in Reasons |-> {}] /\ {} \in SUBSET Reasons
    BY DEF Clk!Init
  <2>. QED BY <2>1
<1>2. call \in [Reasons -> {"none", "cas"}] /\ asked \in [Reasons -> BOOLEAN]
  BY DEF Clk!Init
<1>3. /\ host \in Nat /\ started \in BOOLEAN /\ origin \in Nat /\ last \in Nat
      /\ guest \in Nat /\ excluded \in Nat /\ speed \in Speeds /\ req \subseteq Reasons
      /\ paused \in BOOLEAN /\ pc \in {"runs", "held"} /\ worth \in Nat /\ satOut \in Nat
  BY ClockAssumption DEF Clk!Init
<1>4. Clk!ReasonsKept
  BY DEF Clk!Init, Clk!ReasonsKept
<1>. QED BY <1>1, <1>2, <1>3, <1>4 DEF Clk!ClockInv, Clk!TypeOK

\* Each thread's reason is held for as its last call asked, for any number of
\* threads whose loads and swaps come in any order (clock_pause_for).
THEOREM ClockInvariance == Clk!Spec => []Clk!ClockInv
  BY ClockInit, ClockStep, PTL DEF Clk!Spec

\* Guest time never goes back, even if the host's does (clock_advance_at).
THEOREM MonotonicHolds == Clk!Spec => Clk!Monotonic
<1>1. Clk!ClockInv /\ [Clk!Next]_Clk!vars => [guest' >= guest]_Clk!vars
  BY ClockStep
<1>. QED BY <1>1, ClockInvariance, PTL DEF Clk!Spec, Clk!Monotonic

-----------------------------------------------------------------------------
(* The worth of the time that passed.                                      *)


\* A read leaves nothing to be counted, and counts no more than there was.
LEMMA AdvanceWorth ==
    ASSUME Clk!ClockInv, Clk!NotMoreThanWorth, Clk!Advance, UNCHANGED <<host, worth>>
    PROVE  guest' <= worth' /\ ~(started' /\ ~paused' /\ Clk!Since' > 0)
<1>1. /\ host \in Nat /\ last \in Nat /\ guest \in Nat /\ speed \in Speeds
      /\ worth \in Nat /\ Clk!Since \in Int /\ speed \in Nat
  BY ClockAssumption DEF Clk!ClockInv, Clk!TypeOK, Clk!Since
<1>2. guest <= worth
  <2>1. CASE started /\ ~paused /\ Clk!Since > 0
    BY <1>1, <2>1, SpanWorth DEF Clk!NotMoreThanWorth
  <2>2. CASE ~(started /\ ~paused /\ Clk!Since > 0)
    BY <1>1, <2>2 DEF Clk!NotMoreThanWorth
  <2>. QED BY <2>1, <2>2
<1>3. CASE Clk!FirstRead
  BY <1>1, <1>2, <1>3 DEF Clk!FirstRead, Clk!Since
<1>4. CASE Clk!BeginPause
  <2>1. CASE Clk!Since > 0
    BY <1>1, <1>4, <2>1, SpanWorth DEF Clk!BeginPause, Clk!NotMoreThanWorth
  <2>2. CASE ~(Clk!Since > 0)
    BY <1>1, <1>2, <1>4, <2>2 DEF Clk!BeginPause
  <2>. QED BY <2>1, <2>2
<1>5. CASE Clk!EndPause
  BY <1>1, <1>2, <1>5 DEF Clk!EndPause, Clk!Since
<1>6. CASE Clk!CountSpan
  <2>1. Clk!Since > 0 /\ started /\ ~paused
    BY <1>6 DEF Clk!CountSpan, Clk!Counts, Clk!Runs
  <2>2. guest' = guest + Clk!Since * speed /\ last' = host
    BY <1>6 DEF Clk!CountSpan
  <2>3. guest' <= worth'
    BY <1>1, <2>1, <2>2, SpanWorth DEF Clk!NotMoreThanWorth
  <2>. QED BY <1>1, <2>2, <2>3 DEF Clk!Since
<1>7. CASE Clk!SkipGap
  BY <1>1, <1>2, <1>7 DEF Clk!SkipGap, Clk!Since
<1>8. CASE Clk!NoTime
  BY <1>1, <1>2, <1>8 DEF Clk!NoTime, Clk!Since
<1>. QED BY <1>3, <1>4, <1>5, <1>6, <1>7, <1>8 DEF Clk!Advance

\* Host time is worth its speed as it passes, so the bound moves with it.
LEMMA WorthStep ==
    ASSUME Clk!ClockInv, Clk!ClockInv', Clk!NotMoreThanWorth, [Clk!Next]_Clk!vars
    PROVE  Clk!NotMoreThanWorth'
<1>1. /\ host \in Nat /\ last \in Nat /\ guest \in Nat /\ speed \in Speeds
      /\ worth \in Nat /\ Clk!Since \in Int /\ speed \in Nat /\ speed > 0
  BY ClockAssumption DEF Clk!ClockInv, Clk!TypeOK, Clk!Since
<1>2. CASE Clk!HostRuns
  <2>1. /\ Clk!Since' = Clk!Since + 1 /\ UNCHANGED <<started, paused, guest, speed>>
        /\ worth' = IF started THEN worth + speed ELSE worth
    BY <1>1, <1>2 DEF Clk!HostRuns, Clk!clock, Clk!Since
  <2>2. CASE started /\ ~paused /\ Clk!Since > 0
    <3>1. speed * (Clk!Since + 1) = speed * Clk!Since + speed /\ speed * Clk!Since \in Nat
      BY <1>1, <2>2, SpanWorth
    <3>. QED BY <1>1, <2>1, <2>2, <3>1 DEF Clk!NotMoreThanWorth
  <2>3. CASE started /\ ~paused /\ Clk!Since = 0
    BY <1>1, <2>1, <2>3 DEF Clk!NotMoreThanWorth
  <2>4. CASE ~started \/ paused \/ Clk!Since < 0
    BY <1>1, <2>1, <2>4 DEF Clk!NotMoreThanWorth
  <2>. QED BY <1>1, <2>2, <2>3, <2>4
<1>3. CASE Clk!HostBack
  <2>1. Clk!Since' = Clk!Since - 1 /\ UNCHANGED <<started, paused, guest, speed, worth>>
    BY <1>1, <1>3 DEF Clk!HostBack, Clk!clock, Clk!Since
  <2>2. CASE started /\ ~paused /\ Clk!Since - 1 > 0
    <3>1. speed * ((Clk!Since - 1) + 1) = speed * (Clk!Since - 1) + speed
          /\ speed * (Clk!Since - 1) \in Nat
      BY <1>1, <2>2, SpanWorth
    <3>2. (Clk!Since - 1) + 1 = Clk!Since
      BY <1>1
    <3>. QED BY <1>1, <2>1, <2>2, <3>1, <3>2 DEF Clk!NotMoreThanWorth
  <2>3. CASE ~(started /\ ~paused /\ Clk!Since - 1 > 0)
    <3>1. guest <= worth
      <4>1. CASE Clk!Since > 0
        BY <1>1, <4>1, SpanWorth DEF Clk!NotMoreThanWorth
      <4>2. CASE ~(Clk!Since > 0)
        BY <1>1, <4>2 DEF Clk!NotMoreThanWorth
      <4>. QED BY <4>1, <4>2
    <3>. QED BY <1>1, <2>1, <2>3, <3>1 DEF Clk!NotMoreThanWorth
  <2>. QED BY <2>2, <2>3
<1>4. CASE Clk!Read \/ Clk!SetSpeed
  <2>1. Clk!Advance /\ UNCHANGED <<host, worth>>
    BY <1>4 DEF Clk!Read, Clk!SetSpeed, Clk!OldSpan
  <2>2. guest' \in Nat
    BY DEF Clk!ClockInv, Clk!TypeOK
  <2>. QED BY <2>1, <2>2, AdvanceWorth DEF Clk!NotMoreThanWorth
<1>5. CASE Clk!Hold \/ Clk!Release \/ Clk!Asks \/ UNCHANGED Clk!vars
  <2>1. UNCHANGED <<host, Clk!clock, worth>>
    BY <1>5 DEF Clk!Hold, Clk!Release, Clk!Asks, Clk!AskLoad, Clk!AskSwap, Clk!vars
  <2>. QED BY <2>1 DEF Clk!clock, Clk!Since, Clk!NotMoreThanWorth
<1>. QED BY <1>2, <1>3, <1>4, <1>5 DEF Clk!Next, Clk!Guest

\* No change of speed, pause or step back of the host makes a span count for
\* more than it was worth as it passed (clock_advance_at, clock_set_speed_at).
THEOREM NotMoreThanWorthHolds == Clk!Spec => []Clk!NotMoreThanWorth
<1>1. Clk!Init => Clk!NotMoreThanWorth
  BY DEF Clk!Init, Clk!NotMoreThanWorth
<1>2. Clk!ClockInv /\ Clk!ClockInv' /\ Clk!NotMoreThanWorth /\ [Clk!Next]_Clk!vars =>
        Clk!NotMoreThanWorth'
  BY WorthStep
<1>. QED BY <1>1, <1>2, ClockInvariance, PTL DEF Clk!Spec

-----------------------------------------------------------------------------
(* No time is lost.                                                        *)

\* A forward span at a speed is at least as long at the slowest, and the
\* slowest makes no more of a shorter time.
LEMMA SlowSpan ==
    ASSUME NEW d \in Int, d > 0, NEW s \in Speeds, NEW lo \in Speeds, lo <= s, NEW t \in Int
    PROVE  lo * (t + d) <= lo * t + d * s
<1>1. /\ s - lo \in Nat /\ lo \in Nat /\ s \in Nat
  BY ClockAssumption
<1>2. (s - lo) * d >= 0
  BY <1>1
<1>. QED BY <1>1, <1>2

LEMMA SlowTime ==
    ASSUME NEW lo \in Nat, NEW t \in Int, NEW u \in Int, u <= t
    PROVE  lo * u <= lo * t
<1>1. t - u >= 0
  OBVIOUS
<1>2. lo * (t - u) >= 0
  BY <1>1
<1>. QED BY <1>2

\* A read either counts what it puts between itself and the last, or excludes it.
LEMMA AdvanceAccounted ==
    ASSUME Clk!TypeOK, Clk!Accounted, Clk!Advance
    PROVE  Clk!Accounted'
<1>. SUFFICES ASSUME NEW lo \in Speeds, \A s \in Speeds : lo <= s
              PROVE  lo * (last' - origin' - excluded') <= guest'
  BY DEF Clk!Accounted
<1>. DEFINE t == last - origin - excluded
<1>1. /\ host \in Nat /\ origin \in Nat /\ last \in Nat /\ guest \in Nat
      /\ excluded \in Nat /\ speed \in Speeds /\ lo <= speed /\ lo \in Nat
      /\ Clk!Since = host - last /\ Clk!Since \in Int /\ t \in Int
  BY ClockAssumption DEF Clk!TypeOK, Clk!Since
<1>2. lo * t <= guest
  BY DEF Clk!Accounted
<1>3. t + Clk!Since = host - origin - excluded
  BY <1>1
<1>4. Clk!Since > 0 => lo * (t + Clk!Since) <= guest + Clk!Since * speed
  <2>1. SUFFICES ASSUME Clk!Since > 0
                 PROVE  lo * (t + Clk!Since) <= guest + Clk!Since * speed
    OBVIOUS
  <2>2. lo * (t + Clk!Since) <= lo * t + Clk!Since * speed
    BY <1>1, <2>1, SlowSpan
  <2>3. Clk!Since * speed \in Nat /\ lo * t \in Int /\ lo * (t + Clk!Since) \in Int
    BY <1>1, <2>1, SpanWorth
  <2>. HIDE DEF t
  <2>. QED BY <1>1, <1>2, <2>2, <2>3
<1>5. ASSUME NEW u \in Int, u <= t
      PROVE  lo * u <= guest
  <2>1. lo * u <= lo * t /\ lo * u \in Int /\ lo * t \in Int
    BY <1>1, <1>5, SlowTime
  <2>. QED BY <1>1, <1>2, <2>1
<1>. HIDE DEF t
<1>6. CASE Clk!FirstRead
  <2>1. last' - origin' - excluded' = 0 - excluded /\ guest' = guest
    BY <1>1, <1>6 DEF Clk!FirstRead
  <2>2. lo * (0 - excluded) <= lo * 0 /\ lo * (0 - excluded) \in Int /\ lo * 0 = 0
    BY <1>1, SlowTime
  <2>. QED BY <1>1, <2>1, <2>2
<1>7. CASE Clk!BeginPause
  <2>1. last' - origin' - excluded' = t + Clk!Since
    BY <1>1, <1>3, <1>7 DEF Clk!BeginPause
  <2>2. CASE Clk!Since > 0
    BY <1>4, <1>7, <2>1, <2>2 DEF Clk!BeginPause
  <2>3. CASE ~(Clk!Since > 0)
    <3>1. t + Clk!Since \in Int /\ t + Clk!Since <= t /\ guest' = guest
      BY <1>1, <1>7, <2>3 DEF Clk!BeginPause
    <3>. QED BY <1>5, <2>1, <3>1
  <2>. QED BY <2>2, <2>3
<1>8. CASE Clk!EndPause
  <2>1. last' = host /\ origin' = origin /\ guest' = guest
        /\ excluded' = IF Clk!Since > 0 THEN excluded + Clk!Since ELSE excluded
    BY <1>8 DEF Clk!EndPause
  <2>2. last' - origin' - excluded' \in Int /\ last' - origin' - excluded' <= t
    BY <1>1, <1>3, <2>1 DEF t
  <2>. QED BY <1>5, <2>1, <2>2
<1>9. CASE Clk!CountSpan
  <2>1. last' - origin' - excluded' = t + Clk!Since
    BY <1>1, <1>3, <1>9 DEF Clk!CountSpan
  <2>. QED BY <1>4, <1>9, <2>1 DEF Clk!CountSpan, Clk!Counts
<1>10. CASE Clk!SkipGap
  <2>1. last' - origin' - excluded' = t /\ guest' = guest
    BY <1>1, <1>10 DEF Clk!SkipGap, Clk!GapExcluded, t
  <2>. QED BY <1>2, <2>1
<1>11. CASE Clk!NoTime
  <2>1. last' - origin' - excluded' = t /\ guest' = guest
    BY <1>11 DEF Clk!NoTime, t
  <2>. QED BY <1>2, <2>1
<1>. QED BY <1>6, <1>7, <1>8, <1>9, <1>10, <1>11 DEF Clk!Advance

\* For any speeds, pauses, gaps and steps back of the host's time, the guest's
\* time is at least the span since the first read, less what the clock says it
\* excluded, at the slowest speed (clock_advance_at).
THEOREM NoSpanLost == Clk!Spec => []Clk!Accounted
<1>1. Clk!Init => Clk!Accounted
  <2>. SUFFICES ASSUME Clk!Init, NEW lo \in Speeds
                PROVE  lo * (last - origin - excluded) <= guest
    BY DEF Clk!Accounted
  <2>1. last - origin - excluded = 0 /\ guest = 0 /\ lo \in Nat
    BY ClockAssumption DEF Clk!Init
  <2>. QED BY <2>1
<1>2. Clk!ClockInv /\ Clk!Accounted /\ [Clk!Next]_Clk!vars => Clk!Accounted'
  <2>. SUFFICES ASSUME Clk!ClockInv, Clk!Accounted, [Clk!Next]_Clk!vars
                PROVE  Clk!Accounted'
    OBVIOUS
  <2>1. CASE Clk!Read \/ Clk!SetSpeed
    BY <2>1, AdvanceAccounted DEF Clk!Read, Clk!SetSpeed, Clk!OldSpan, Clk!ClockInv
  <2>2. CASE UNCHANGED Clk!clock
    BY <2>2 DEF Clk!Accounted, Clk!clock
  <2>. QED BY <2>1, <2>2 DEF Clk!Next, Clk!Guest, Clk!HostRuns, Clk!HostBack, Clk!Hold,
                Clk!Release, Clk!Asks, Clk!AskLoad, Clk!AskSwap, Clk!vars
<1>. QED BY <1>1, <1>2, ClockInvariance, PTL DEF Clk!Spec

-----------------------------------------------------------------------------
(* The queue's requests.  What follows is said of the queue as a record q,  *)
(* whose starts are what the engine moves; m is how often each unit has     *)
(* been moved, t the requests told, and p the level whose callback is at    *)
(* work, or none.                                                           *)

Queues ==
    [queue : [Aram!Levels -> Seq(Aram!Names)],
     pending : [Aram!Levels -> Aram!Names \cup {Aram!None}],
     callback : [Aram!Levels -> BOOLEAN], req : [Aram!Names -> [source : Nat, length : Nat]],
     starts : SUBSET [r : Aram!Names, u : Int]]

\* Whether a unit of a request is with the engine, has been moved once or not at all.
InEngine(q, r, u) == [r |-> r, u |-> u] \in q.starts
Given(q, m, r, u) == m[r][u] = IF InEngine(q, r, u) THEN 0 ELSE 1
Not(q, m, r, u) == m[r][u] = 0 /\ ~InEngine(q, r, u)

\* A request waits in its own level's queue, once.
Places(q) ==
    \A l \in Aram!Levels :
        /\ \A i \in 1 .. Len(q.queue[l]) :
              /\ Requests[q.queue[l][i]].priority = l
              /\ \A j \in 1 .. Len(q.queue[l]) : q.queue[l][i] = q.queue[l][j] => i = j
        /\ q.pending[l] # Aram!None => Requests[q.pending[l]].priority = l

\* One that waits is whole, is not the pending one unless its own callback
\* posted it again, and has not been told.
Whole(q, m, r) ==
    /\ q.req[r].source = 0 /\ q.req[r].length = Requests[r].length
    /\ \A u \in Aram!Units(r) : Not(q, m, r, u)
Waits(q, m, t, p) ==
    \A l \in Aram!Levels : \A i \in 1 .. Len(q.queue[l]) :
        /\ Whole(q, m, q.queue[l][i]) /\ q.queue[l][i] \notin t
        /\ q.queue[l][i] = q.pending[l] => p = l

\* The pending high request has been given to the engine, the low one up to its
\* source, or to its end once its callback is set.
Rest(q, r) ==
    LET b == q.req[r]
    IN b.length > 0 /\ b.source + b.length = Requests[r].length
Moving(q, m, p) ==
    /\ q.pending["hi"] # Aram!None /\ p # "hi" =>
          \A u \in Aram!Units(q.pending["hi"]) : Given(q, m, q.pending["hi"], u)
    /\ LET r == q.pending["lo"]
       IN r # Aram!None /\ p # "lo" =>
             IF q.callback["lo"] THEN \A u \in Aram!Units(r) : Given(q, m, r, u)
             ELSE /\ Rest(q, r)
                  /\ \A u \in Aram!Units(r) : IF u < q.req[r].source THEN Given(q, m, r, u)
                                              ELSE Not(q, m, r, u)

Told(q, m, t) == \A r \in t : \A u \in Aram!Units(r) : m[r][u] = 1 /\ ~InEngine(q, r, u)

\* The callbacks set are of requests pending, and one of them at most.
Callbacks(q) ==
    /\ q.callback["hi"] <=> q.pending["hi"] # Aram!None
    /\ q.callback["lo"] => q.pending["lo"] # Aram!None /\ q.pending["hi"] = Aram!None

\* The engine moves the pending high request, or the low one.
Foremost(q) == IF q.pending["hi"] # Aram!None THEN q.pending["hi"] ELSE q.pending["lo"]
Engine(q) == \A a \in q.starts : a.r = Foremost(q) /\ a.r # Aram!None

Sound(q, m, t, p) ==
    /\ q \in Queues
    /\ Places(q) /\ Waits(q, m, t, p) /\ Moving(q, m, p) /\ Told(q, m, t)
    /\ Callbacks(q) /\ Engine(q)

\* With no callback to come the queue has something to serve, and serves it.
Idle(q) == \A l \in Aram!Levels : q.queue[l] = <<>> /\ q.pending[l] = Aram!None

\* The queue with the engine's transfer in it.
Now == [Aram!Queue EXCEPT !.starts = dma]

AramType ==
    /\ chunk \in 1 .. Default /\ fetch.keeps \in 1 .. Default
    /\ raised \in BOOLEAN /\ inCallback \in Aram!Levels \cup {Aram!None}
    /\ moved = [r \in Aram!Names |-> moved[r]]
    /\ \A r \in Aram!Names : moved[r] = [u \in Aram!Units(r) |-> moved[r][u]]
    /\ a_told \subseteq Aram!Names
    /\ fetch = [at |-> fetch.at, keeps |-> fetch.keeps, done |-> fetch.done]

\* One of these, with something pending: the engine moves, its interrupt
\* stands, or a callback is at work.
Phase ==
    /\ dma # {} => ~raised /\ inCallback = Aram!None
    /\ raised => inCallback = Aram!None /\ Foremost(Now) # Aram!None
    /\ inCallback # Aram!None => callback[inCallback]
    /\ dma = {} /\ ~raised /\ inCallback = Aram!None => Idle(Now)

\* The fetch's own request is posted by it alone, and it waits for its end.
OutOfQueue(r) == \A l \in Aram!Levels : /\ \A i \in 1 .. Len(queue[l]) : queue[l][i] # r
                                        /\ pending[l] = r => inCallback = l /\ fetch.at = "spin"
FetchAlone ==
    /\ fetch.at # "spin" \/ fetch.done => OutOfQueue(Fetched)
    /\ fetch.at = "post" => ~fetch.done

AramInv == AramType /\ Sound(Now, moved, a_told, inCallback) /\ Phase /\ FetchAlone

-----------------------------------------------------------------------------
(* Serving the queue.                                                      *)

LEMMA NoneIsNoName == Aram!None \notin Aram!Names /\ Fetched \in Aram!Names
  BY AramAssumption DEF Aram!None, Aram!Names

\* What is in a queue but its first, and its first.
LEMMA FirstAndRest ==
    ASSUME NEW s \in Seq(Aram!Names), s # <<>>
    PROVE  /\ Head(s) \in Aram!Names /\ Head(s) = s[1] /\ 1 \in 1 .. Len(s)
           /\ Tail(s) \in Seq(Aram!Names) /\ Len(Tail(s)) = Len(s) - 1 /\ Len(s) \in Nat
           /\ \A i \in 1 .. Len(Tail(s)) : Tail(s)[i] = s[i + 1] /\ i + 1 \in 1 .. Len(s)
  BY HeadTailProperties, EmptySeq, LenProperties

\* The lengths are the requests', and a chunk is shorter than what wraps.
LEMMA Lengths ==
    ASSUME NEW r \in Aram!Names
    PROVE  /\ Requests[r].length \in Nat \ {0} /\ Requests[r].length < LenMod
           /\ Aram!Units(r) = 0 .. Requests[r].length - 1
           /\ Requests[r].priority \in Aram!Levels
           /\ LenMod \in Nat \ {0} /\ Default \in Nat /\ Default < LenMod
  BY AramAssumption DEF Aram!Names, Aram!Units, Aram!Levels

\* What popping the high queue does to it.
LEMMA Popped ==
    ASSUME NEW q \in Queues, q.queue["hi"] # <<>>
    PROVE  LET r == Head(q.queue["hi"])
               s == Aram!PopHi(q)
           IN /\ s.queue = [q.queue EXCEPT !["hi"] = Tail(q.queue["hi"])]
              /\ s.pending = [q.pending EXCEPT !["hi"] = r]
              /\ s.callback = [q.callback EXCEPT !["hi"] = TRUE]
              /\ s.req = q.req
              /\ s.starts = q.starts \cup Aram!Transfer(r, q, q.req[r].length)
              /\ s = [queue |-> s.queue, pending |-> s.pending, callback |-> s.callback,
                      req |-> s.req, starts |-> s.starts]
  BY DEF Queues, Aram!PopHi

\* Taking the first of a queue to be the pending one leaves the others where
\* they were, and none of them is it.
LEMMA Taking ==
    ASSUME NEW q \in Queues, Places(q), NEW k \in Aram!Levels, q.queue[k] # <<>>,
           NEW s, s.queue = [q.queue EXCEPT ![k] = Tail(q.queue[k])],
           s.pending = [q.pending EXCEPT ![k] = Head(q.queue[k])]
    PROVE  /\ Places(s)
           /\ s.queue \in [Aram!Levels -> Seq(Aram!Names)]
           /\ s.pending \in [Aram!Levels -> Aram!Names \cup {Aram!None}]
           /\ \A l \in Aram!Levels : \A i \in 1 .. Len(s.queue[l]) :
                 /\ s.queue[l][i] # Head(q.queue[k])
                 /\ \E j \in 1 .. Len(q.queue[l]) : s.queue[l][i] = q.queue[l][j]
<1>. DEFINE r == Head(q.queue[k])
            Place(l, i) == IF l = k THEN i + 1 ELSE i
<1>1. /\ q.queue \in [Aram!Levels -> Seq(Aram!Names)]
      /\ q.pending \in [Aram!Levels -> Aram!Names \cup {Aram!None}]
  BY DEF Queues
<1>2. /\ r \in Aram!Names /\ r = q.queue[k][1] /\ 1 \in 1 .. Len(q.queue[k])
      /\ Tail(q.queue[k]) \in Seq(Aram!Names)
      /\ \A i \in 1 .. Len(Tail(q.queue[k])) :
            /\ Tail(q.queue[k])[i] = q.queue[k][i + 1]
            /\ i + 1 \in 1 .. Len(q.queue[k]) /\ i \in Nat /\ i + 1 # 1
  <2>1. q.queue[k] \in Seq(Aram!Names)
    BY <1>1
  <2>. QED BY <2>1, FirstAndRest
<1>. HIDE DEF r
<1>3. s.queue[k] = Tail(q.queue[k]) /\ \A l \in Aram!Levels \ {k} : s.queue[l] = q.queue[l]
  BY <1>1
<1>4. s.pending[k] = r /\ \A l \in Aram!Levels \ {k} : s.pending[l] = q.pending[l]
  BY <1>1 DEF r
<1>5. Requests[r].priority = k
  BY <1>2 DEF Places
<1>6. ASSUME NEW l \in Aram!Levels, NEW i \in 1 .. Len(s.queue[l])
      PROVE  /\ Place(l, i) \in 1 .. Len(q.queue[l])
             /\ s.queue[l][i] = q.queue[l][Place(l, i)] /\ s.queue[l][i] # r
  <2>1. CASE l = k
    <3>1. i \in 1 .. Len(Tail(q.queue[k])) /\ s.queue[l][i] = Tail(q.queue[k])[i]
      BY <1>3, <2>1
    <3>2. q.queue[k][i + 1] # r
      BY <1>2, <3>1 DEF Places
    <3>. QED BY <1>2, <2>1, <3>1, <3>2
  <2>2. CASE l # k
    <3>1. Requests[q.queue[l][i]].priority = l
      BY <1>3, <2>2 DEF Places
    <3>. QED BY <1>3, <1>5, <2>2, <3>1
  <2>. QED BY <2>1, <2>2
<1>7. Places(s)
  <2>. SUFFICES ASSUME NEW l \in Aram!Levels
                PROVE  /\ \A i \in 1 .. Len(s.queue[l]) :
                             /\ Requests[s.queue[l][i]].priority = l
                             /\ \A j \in 1 .. Len(s.queue[l]) :
                                    s.queue[l][i] = s.queue[l][j] => i = j
                       /\ s.pending[l] # Aram!None => Requests[s.pending[l]].priority = l
    BY DEF Places
  <2>1. s.pending[l] # Aram!None => Requests[s.pending[l]].priority = l
    BY <1>4, <1>5 DEF Places
  <2>2. ASSUME NEW i \in 1 .. Len(s.queue[l])
        PROVE  Requests[s.queue[l][i]].priority = l
    BY <1>6 DEF Places
  <2>3. ASSUME NEW i \in 1 .. Len(s.queue[l]), NEW j \in 1 .. Len(s.queue[l]),
               s.queue[l][i] = s.queue[l][j]
        PROVE  i = j
    <3>1. /\ Place(l, i) \in 1 .. Len(q.queue[l]) /\ Place(l, j) \in 1 .. Len(q.queue[l])
          /\ q.queue[l][Place(l, i)] = q.queue[l][Place(l, j)]
      BY <1>6, <2>3
    <3>. HIDE DEF Place
    <3>2. Place(l, i) = Place(l, j)
      BY <3>1 DEF Places
    <3>. QED BY <3>2 DEF Place
  <2>. QED BY <2>1, <2>2, <2>3
<1>. HIDE DEF Place
<1>8. ASSUME NEW l \in Aram!Levels, NEW i \in 1 .. Len(s.queue[l])
      PROVE  /\ s.queue[l][i] # r
             /\ \E j \in 1 .. Len(q.queue[l]) : s.queue[l][i] = q.queue[l][j]
  BY <1>6
<1>9. /\ s.queue \in [Aram!Levels -> Seq(Aram!Names)]
      /\ s.pending \in [Aram!Levels -> Aram!Names \cup {Aram!None}]
  BY <1>1, <1>2 DEF r
<1>. QED BY <1>7, <1>8, <1>9 DEF r

\* The first of the high queue is moved in one transfer.
LEMMA PopSound ==
    ASSUME NEW q, NEW m, NEW t, Sound(q, m, t, Aram!None), q.starts = {},
           q.pending["hi"] = Aram!None, ~q.callback["lo"], q.queue["hi"] # <<>>
    PROVE  /\ Sound(Aram!PopHi(q), m, t, Aram!None)
           /\ Aram!PopHi(q).starts # {}
           /\ Aram!PopHi(q).pending["hi"] # Aram!None
<1>. DEFINE r == Head(q.queue["hi"])
            s == Aram!PopHi(q)
<1>1. q \in Queues /\ "hi" \in Aram!Levels /\ Places(q)
  BY DEF Sound, Aram!Levels
<1>2. /\ s.queue = [q.queue EXCEPT !["hi"] = Tail(q.queue["hi"])]
      /\ s.pending = [q.pending EXCEPT !["hi"] = r]
      /\ s.callback = [q.callback EXCEPT !["hi"] = TRUE]
      /\ s.req = q.req
      /\ s.starts = Aram!Transfer(r, q, q.req[r].length)
      /\ s = [queue |-> s.queue, pending |-> s.pending, callback |-> s.callback,
              req |-> s.req, starts |-> s.starts]
  BY <1>1, Popped
<1>3. /\ q.queue \in [Aram!Levels -> Seq(Aram!Names)]
      /\ q.pending \in [Aram!Levels -> Aram!Names \cup {Aram!None}]
      /\ q.callback \in [Aram!Levels -> BOOLEAN]
      /\ q.req \in [Aram!Names -> [source : Nat, length : Nat]]
  BY <1>1 DEF Queues
<1>4. r \in Aram!Names /\ r = q.queue["hi"][1] /\ 1 \in 1 .. Len(q.queue["hi"])
  BY <1>3, FirstAndRest DEF Aram!Levels
<1>5. /\ q.req[r].source = 0 /\ q.req[r].length = Requests[r].length
      /\ \A u \in Aram!Units(r) : m[r][u] = 0
      /\ r \notin t /\ r # q.pending["lo"] /\ r # Aram!None
  <2>1. Whole(q, m, r) /\ r \notin t
    BY <1>4 DEF Sound, Waits, Aram!Levels
  <2>2. Requests[r].priority = "hi"
    BY <1>4 DEF Sound, Places, Aram!Levels
  <2>3. q.pending["lo"] # Aram!None => Requests[q.pending["lo"]].priority = "lo"
    BY DEF Sound, Places, Aram!Levels
  <2>4. r # Aram!None
    BY <1>4, NoneIsNoName
  <2>. QED BY <2>1, <2>2, <2>3, <2>4 DEF Whole, Not
<1>6. s.starts = {[r |-> r, u |-> u] : u \in Aram!Units(r)}
  BY <1>2, <1>4, <1>5, Lengths DEF Aram!Transfer
<1>7. \A x, u : InEngine(s, x, u) <=> x = r /\ u \in Aram!Units(r)
  BY <1>6 DEF InEngine
<1>. HIDE DEF r, s
<1>8. /\ s.pending["hi"] = r /\ s.pending["lo"] = q.pending["lo"]
      /\ s.callback["lo"] = q.callback["lo"] /\ s.callback["hi"]
  BY <1>2, <1>3 DEF Aram!Levels
<1>9. /\ Places(s)
      /\ s.queue \in [Aram!Levels -> Seq(Aram!Names)]
      /\ s.pending \in [Aram!Levels -> Aram!Names \cup {Aram!None}]
      /\ \A l \in Aram!Levels : \A i \in 1 .. Len(s.queue[l]) :
            /\ s.queue[l][i] # r
            /\ \E j \in 1 .. Len(q.queue[l]) : s.queue[l][i] = q.queue[l][j]
  BY ZenonT(60), <1>1, <1>2, Taking DEF r
<1>10. s \in Queues
  <2>1. s.starts \in SUBSET [r : Aram!Names, u : Int]
    BY <1>4, <1>6, Lengths
  <2>2. /\ s.queue \in [Aram!Levels -> Seq(Aram!Names)]
        /\ s.pending \in [Aram!Levels -> Aram!Names \cup {Aram!None}]
        /\ s.callback \in [Aram!Levels -> BOOLEAN]
        /\ s.req \in [Aram!Names -> [source : Nat, length : Nat]]
    BY <1>2, <1>3, <1>9
  <2>. QED BY <1>2, <2>1, <2>2 DEF Queues
<1>12. Waits(s, m, t, Aram!None)
  <2>. SUFFICES ASSUME NEW l \in Aram!Levels, NEW i \in 1 .. Len(s.queue[l])
                PROVE  /\ Whole(s, m, s.queue[l][i]) /\ s.queue[l][i] \notin t
                       /\ s.queue[l][i] # s.pending[l]
    BY DEF Waits
  <2>1. PICK j \in 1 .. Len(q.queue[l]) : s.queue[l][i] = q.queue[l][j]
    BY <1>9
  <2>2. Whole(q, m, s.queue[l][i]) /\ s.queue[l][i] \notin t /\ s.queue[l][i] # q.pending[l]
    BY <2>1 DEF Sound, Waits, Aram!Levels, Aram!None
  <2>3. s.queue[l][i] # r
    BY <1>9
  <2>. QED BY <1>2, <1>3, <1>7, <2>2, <2>3 DEF Whole, Not
<1>13. Moving(s, m, Aram!None)
  <2>1. s.pending["hi"] = r /\ s.pending["lo"] = q.pending["lo"]
        /\ s.callback["lo"] = q.callback["lo"]
    BY <1>2, <1>3 DEF Aram!Levels
  <2>2. \A u \in Aram!Units(r) : Given(s, m, r, u)
    BY <1>5, <1>7 DEF Given
  <2>3. \A u : ~InEngine(s, q.pending["lo"], u) /\ ~InEngine(q, q.pending["lo"], u)
    BY <1>5, <1>7 DEF InEngine
  <2>. QED BY <1>2, <2>1, <2>2, <2>3 DEF Sound, Moving, Rest, Given, Not, Aram!None
<1>14. Told(s, m, t)
  BY <1>5, <1>7 DEF Sound, Told
<1>15. Callbacks(s)
  BY <1>2, <1>3, <1>5 DEF Callbacks, Aram!Levels
<1>16. Engine(s)
  BY <1>2, <1>3, <1>5, <1>6 DEF Engine, Foremost, Aram!Levels
<1>17. s.starts # {} /\ s.pending["hi"] # Aram!None
  <2>1. 0 \in Aram!Units(r)
    BY <1>4, Lengths
  <2>2. [r |-> r, u |-> 0] \in s.starts
    BY <1>6, <2>1
  <2>. QED BY <1>5, <1>8, <2>2
<1>. QED BY <1>9, <1>10, <1>12, <1>13, <1>14, <1>15, <1>16, <1>17 DEF Sound, s

\* Taking the first of the low queue starts nothing.
Taken(q) == [q EXCEPT !.pending["lo"] = Head(q.queue["lo"]), !.queue["lo"] = Tail(@)]
LEMMA TakenIs ==
    ASSUME NEW q \in Queues, NEW s, s = Taken(q)
    PROVE  /\ s.queue = [q.queue EXCEPT !["lo"] = Tail(q.queue["lo"])]
           /\ s.pending = [q.pending EXCEPT !["lo"] = Head(q.queue["lo"])]
           /\ s.callback = q.callback /\ s.req = q.req /\ s.starts = q.starts
           /\ s = [queue |-> s.queue, pending |-> s.pending, callback |-> s.callback,
                   req |-> s.req, starts |-> s.starts]
<1>1. s.queue = [q.queue EXCEPT !["lo"] = Tail(q.queue["lo"])]
  BY DEF Queues, Taken
<1>2. s.pending = [q.pending EXCEPT !["lo"] = Head(q.queue["lo"])]
  BY DEF Queues, Taken
<1>3. s.callback = q.callback /\ s.req = q.req /\ s.starts = q.starts
  BY DEF Queues, Taken
<1>4. s = [queue |-> s.queue, pending |-> s.pending, callback |-> s.callback,
           req |-> s.req, starts |-> s.starts]
  BY DEF Queues, Taken
<1>. QED BY <1>1, <1>2, <1>3, <1>4

LEMMA TakenSound ==
    ASSUME NEW q, NEW m, NEW t, Sound(q, m, t, Aram!None), q.starts = {},
           q.pending["hi"] = Aram!None, ~q.callback["lo"],
           q.pending["lo"] = Aram!None, q.queue["lo"] # <<>>
    PROVE  LET s == Taken(q)
           IN /\ Sound(s, m, t, Aram!None) /\ s.starts = {} /\ s.pending["hi"] = Aram!None
              /\ s.queue["hi"] = q.queue["hi"] /\ ~s.callback["lo"] /\ s.pending["lo"] # Aram!None
<1>. DEFINE r == Head(q.queue["lo"])
            s == Taken(q)
<1>1. q \in Queues /\ "lo" \in Aram!Levels /\ "hi" \in Aram!Levels /\ Places(q)
  BY DEF Sound, Aram!Levels
<1>2. /\ s.queue = [q.queue EXCEPT !["lo"] = Tail(q.queue["lo"])]
      /\ s.pending = [q.pending EXCEPT !["lo"] = r]
      /\ s.callback = q.callback /\ s.req = q.req /\ s.starts = {}
      /\ s = [queue |-> s.queue, pending |-> s.pending, callback |-> s.callback,
              req |-> s.req, starts |-> s.starts]
  BY <1>1, TakenIs
<1>3. /\ q.queue \in [Aram!Levels -> Seq(Aram!Names)]
      /\ q.pending \in [Aram!Levels -> Aram!Names \cup {Aram!None}]
      /\ q.callback \in [Aram!Levels -> BOOLEAN]
      /\ q.req \in [Aram!Names -> [source : Nat, length : Nat]]
  BY <1>1 DEF Queues
<1>4. r \in Aram!Names /\ r = q.queue["lo"][1] /\ 1 \in 1 .. Len(q.queue["lo"])
  BY <1>1, <1>3, FirstAndRest
<1>5. Whole(q, m, r) /\ r \notin t /\ r # Aram!None
  BY <1>1, <1>4, NoneIsNoName DEF Sound, Waits
<1>6. /\ Places(s)
      /\ s.queue \in [Aram!Levels -> Seq(Aram!Names)]
      /\ s.pending \in [Aram!Levels -> Aram!Names \cup {Aram!None}]
      /\ \A l \in Aram!Levels : \A i \in 1 .. Len(s.queue[l]) :
            /\ s.queue[l][i] # r
            /\ \E j \in 1 .. Len(q.queue[l]) : s.queue[l][i] = q.queue[l][j]
  <2>. HIDE DEF s
  <2>. QED BY ZenonT(60), <1>1, <1>2, Taking DEF r
<1>. HIDE DEF r, s
<1>7. /\ s.pending["lo"] = r /\ s.pending["hi"] = Aram!None /\ ~s.callback["lo"]
      /\ s.queue["hi"] = q.queue["hi"]
  BY <1>1, <1>2, <1>3 DEF Aram!Levels
<1>8. s \in Queues
  BY <1>2, <1>3, <1>6 DEF Queues
<1>9. \A x, u : ~InEngine(s, x, u) /\ ~InEngine(q, x, u)
  BY <1>2 DEF InEngine
<1>10. Waits(s, m, t, Aram!None)
  <2>. SUFFICES ASSUME NEW l \in Aram!Levels, NEW i \in 1 .. Len(s.queue[l])
                PROVE  /\ Whole(s, m, s.queue[l][i]) /\ s.queue[l][i] \notin t
                       /\ s.queue[l][i] # s.pending[l]
    BY DEF Waits
  <2>1. PICK j \in 1 .. Len(q.queue[l]) : s.queue[l][i] = q.queue[l][j]
    BY <1>6
  <2>2. Whole(q, m, s.queue[l][i]) /\ s.queue[l][i] \notin t /\ s.queue[l][i] # q.pending[l]
    BY <2>1 DEF Sound, Waits, Aram!Levels, Aram!None
  <2>3. s.queue[l][i] # r
    BY <1>6
  <2>. QED BY <1>2, <1>3, <1>9, <2>2, <2>3 DEF Whole, Not
<1>11. Moving(s, m, Aram!None)
  <2>1. Rest(s, r) /\ s.req[r].source = 0
    BY <1>2, <1>4, <1>5, Lengths DEF Whole, Rest
  <2>2. \A u \in Aram!Units(r) : Not(s, m, r, u) /\ ~(u < s.req[r].source)
    BY <1>4, <1>5, <1>9, <2>1, Lengths DEF Whole, Not
  <2>. QED BY <1>7, <2>1, <2>2 DEF Moving
<1>12. Told(s, m, t)
  BY <1>9 DEF Sound, Told
<1>13. Callbacks(s) /\ Engine(s)
  BY <1>2, <1>7 DEF Sound, Callbacks, Engine
<1>. QED BY <1>2, <1>5, <1>6, <1>7, <1>8, <1>10, <1>11, <1>12, <1>13 DEF Sound, s

\* A length that does not wrap.
LEMMA Wraps ==
    ASSUME NEW n \in Nat \ {0}, NEW a \in Int
    PROVE  a % n \in 0 .. n - 1 /\ (a \in 0 .. n - 1 => a % n = a)
<1>1. a % n \in 0 .. n - 1
  OBVIOUS
<1>2. ASSUME a \in 0 .. n - 1
      PROVE  a % n = a
  <2>1. PICK k \in Int : a = n * k + (a % n)
    <3>1. a = n * (a \div n) + (a % n) /\ a \div n \in Int
      OBVIOUS
    <3>. QED BY <3>1
  <2>2. CASE k >= 1
    <3>1. n * k >= n
      BY <2>2
    <3>. QED BY <1>1, <1>2, <2>1, <3>1
  <2>3. CASE k <= -1
    <3>1. n * k <= -n
      BY <2>3
    <3>. QED BY <1>1, <1>2, <2>1, <3>1
  <2>4. CASE k = 0
    BY <1>1, <2>1, <2>4
  <2>. QED BY <2>2, <2>3, <2>4
<1>. QED BY <1>1, <1>2

\* A chunk of the pending low request, or what is left of it.
Size(q, r) == IF Aram!LastChunk(q, r) THEN q.req[r].length ELSE chunk
Chunked(q, r) == [q EXCEPT !.starts = @ \cup Aram!Transfer(r, q, Size(q, r)),
                           !.callback["lo"] = @ \/ Aram!LastChunk(q, r),
                           !.req[r] = Aram!Advanced(@)]
LEMMA ChunkedIs ==
    ASSUME NEW q \in Queues, NEW r \in Aram!Names
    PROVE  Chunked(q, r) =
              [queue |-> q.queue, pending |-> q.pending,
               callback |-> [q.callback EXCEPT !["lo"] = @ \/ Aram!LastChunk(q, r)],
               req |-> [q.req EXCEPT ![r] = Aram!Advanced(q.req[r])],
               starts |-> q.starts \cup Aram!Transfer(r, q, Size(q, r))]
<1>1. PICK s : s = Chunked(q, r)
  OBVIOUS
<1>2. s.queue = q.queue /\ s.pending = q.pending
  BY <1>1 DEF Queues, Chunked
<1>3. s.callback = [q.callback EXCEPT !["lo"] = @ \/ Aram!LastChunk(q, r)]
  BY <1>1 DEF Queues, Chunked
<1>4. s.req = [q.req EXCEPT ![r] = Aram!Advanced(q.req[r])]
  BY <1>1 DEF Queues, Chunked
<1>5. s.starts = q.starts \cup Aram!Transfer(r, q, Size(q, r))
  BY <1>1 DEF Queues, Chunked
<1>6. s = [queue |-> s.queue, pending |-> s.pending, callback |-> s.callback,
           req |-> s.req, starts |-> s.starts]
  BY <1>1 DEF Queues, Chunked
<1>. QED BY <1>1, <1>2, <1>3, <1>4, <1>5, <1>6

\* A chunk is what comes next of its request, and the last one its end,
\* whatever the chunk's size is now.
LEMMA ChunkSound ==
    ASSUME NEW q, NEW m, NEW t, Sound(q, m, t, Aram!None), q.starts = {},
           q.pending["hi"] = Aram!None, ~q.callback["lo"], q.pending["lo"] # Aram!None,
           chunk \in 1 .. Default
    PROVE  LET s == Chunked(q, q.pending["lo"])
           IN Sound(s, m, t, Aram!None) /\ s.starts # {}
<1>. DEFINE r == q.pending["lo"]
            b == q.req[r]
            final == Aram!LastChunk(q, r)
            n == Size(q, r)
<1>1. PICK s : s = Chunked(q, r)
  OBVIOUS
<1>2. q \in Queues /\ "lo" \in Aram!Levels /\ "hi" \in Aram!Levels
  BY DEF Sound, Aram!Levels
<1>3. /\ q.queue \in [Aram!Levels -> Seq(Aram!Names)]
      /\ q.pending \in [Aram!Levels -> Aram!Names \cup {Aram!None}]
      /\ q.callback \in [Aram!Levels -> BOOLEAN]
      /\ q.req \in [Aram!Names -> [source : Nat, length : Nat]]
  BY <1>2 DEF Queues
<1>4. r \in Aram!Names /\ b.source \in Nat /\ b.length \in Nat
  BY <1>2, <1>3
<1>5. /\ b.length > 0 /\ b.source + b.length = Requests[r].length
      /\ \A u \in Aram!Units(r) : IF u < b.source THEN Given(q, m, r, u) ELSE Not(q, m, r, u)
  BY DEF Sound, Moving, Rest, Aram!None
<1>. HIDE DEF r, b
<1>6. /\ s.queue = q.queue /\ s.pending = q.pending
      /\ s.callback = [q.callback EXCEPT !["lo"] = @ \/ final]
      /\ s.req = [q.req EXCEPT ![r] = Aram!Advanced(b)]
      /\ s.starts = Aram!Transfer(r, q, n)
      /\ s = [queue |-> s.queue, pending |-> s.pending, callback |-> s.callback,
              req |-> s.req, starts |-> s.starts]
  <2>1. s = [queue |-> q.queue, pending |-> q.pending,
             callback |-> [q.callback EXCEPT !["lo"] = @ \/ final],
             req |-> [q.req EXCEPT ![r] = Aram!Advanced(b)],
             starts |-> q.starts \cup Aram!Transfer(r, q, n)]
    BY <1>1, <1>2, <1>4, ChunkedIs DEF b
  <2>. HIDE DEF final, n
  <2>. QED BY <2>1
<1>7. /\ s.callback["hi"] = q.callback["hi"] /\ s.callback["lo"] <=> final
      /\ s.req[r] = Aram!Advanced(b) /\ \A x \in Aram!Names \ {r} : s.req[x] = q.req[x]
  <2>1. s.callback["hi"] = q.callback["hi"]
    BY <1>2, <1>3, <1>6
  <2>2. s.callback["lo"] <=> final
    <3>1. s.callback["lo"] = (q.callback["lo"] \/ final)
      BY <1>2, <1>3, <1>6
    <3>. QED BY <3>1
  <2>. QED BY <1>3, <1>4, <1>6, <2>1, <2>2
<1>8. /\ n \in 1 .. b.length /\ (final <=> b.length <= chunk)
      /\ n = IF final THEN b.length ELSE chunk
  BY <1>4, <1>5, AramAssumption DEF Aram!LastChunk, Size, b
<1>. HIDE DEF final, n
<1>9. /\ Aram!Advanced(b).source = b.source + chunk /\ Aram!Advanced(b).length \in Nat
      /\ ~final => Aram!Advanced(b).length = b.length - chunk
      /\ Aram!Advanced(b) \in [source : Nat, length : Nat]
  <2>. DEFINE d == b.length - chunk
  <2>1. /\ d \in Int /\ chunk \in Nat /\ b.source + chunk \in Nat
        /\ ~final => d \in 0 .. LenMod - 1
    BY <1>4, <1>5, <1>8, Lengths, AramAssumption
  <2>. HIDE DEF d
  <2>2. (d % LenMod) \in Nat /\ (~final => (d % LenMod) = d)
    <3>1. LenMod \in Nat \ {0}
      BY <1>4, Lengths
    <3>2. (d % LenMod) \in 0 .. LenMod - 1 /\ (d \in 0 .. LenMod - 1 => (d % LenMod) = d)
      BY <2>1, <3>1, Wraps
    <3>. QED BY <2>1, <3>1, <3>2
  <2>3. Aram!Advanced(b).source = b.source + chunk /\ Aram!Advanced(b).length = (d % LenMod)
        /\ Aram!Advanced(b) = [source |-> b.source + chunk, length |-> (d % LenMod)]
    BY DEF Aram!Advanced, d
  <2>. QED BY <2>1, <2>2, <2>3 DEF d
<1>10. s.starts = {[r |-> r, u |-> u] : u \in b.source .. b.source + n - 1}
  BY <1>6 DEF Aram!Transfer, b
<1>11. \A x, u : InEngine(s, x, u) <=> x = r /\ u \in b.source .. b.source + n - 1
  BY <1>10 DEF InEngine
<1>12. \A x, u : ~InEngine(q, x, u)
  BY DEF InEngine
<1>13. /\ r # Aram!None /\ Requests[r].priority = "lo"
       /\ \A l \in Aram!Levels : \A i \in 1 .. Len(q.queue[l]) :
             q.queue[l][i] \in Aram!Names /\ q.queue[l][i] # r
  <2>1. r # Aram!None /\ Requests[r].priority = "lo"
    BY <1>2 DEF Sound, Places, r
  <2>. SUFFICES ASSUME NEW l \in Aram!Levels, NEW i \in 1 .. Len(q.queue[l])
                PROVE  q.queue[l][i] \in Aram!Names /\ q.queue[l][i] # r
    BY <2>1
  <2>2. q.queue[l] \in Seq(Aram!Names)
    BY <1>3
  <2>3. q.queue[l][i] \in Aram!Names
    BY <2>2
  <2>4. CASE l = "lo"
    <3>1. q.queue[l][i] # q.pending[l]
      BY <2>4 DEF Sound, Waits, Aram!None
    <3>. QED BY <2>3, <2>4, <3>1 DEF r
  <2>5. CASE l = "hi"
    <3>1. Requests[q.queue[l][i]].priority = "hi"
      BY <2>5 DEF Sound, Places
    <3>. QED BY <2>1, <2>3, <3>1
  <2>. QED BY <2>4, <2>5 DEF Aram!Levels
<1>14. s \in Queues
  <2>1. s.starts \in SUBSET [r : Aram!Names, u : Int]
    BY <1>4, <1>8, <1>10
  <2>2. s.req \in [Aram!Names -> [source : Nat, length : Nat]]
    BY <1>3, <1>4, <1>6, <1>9
  <2>3. s.callback \in [Aram!Levels -> BOOLEAN]
    BY <1>3, <1>6, <1>8
  <2>. QED BY <1>3, <1>6, <2>1, <2>2, <2>3 DEF Queues
<1>15. Places(s)
  BY <1>6 DEF Sound, Places
<1>16. Waits(s, m, t, Aram!None)
  <2>. SUFFICES ASSUME NEW l \in Aram!Levels, NEW i \in 1 .. Len(q.queue[l])
                PROVE  /\ Whole(s, m, q.queue[l][i]) /\ q.queue[l][i] \notin t
                       /\ q.queue[l][i] # q.pending[l]
    BY <1>6 DEF Waits
  <2>1. Whole(q, m, q.queue[l][i]) /\ q.queue[l][i] \notin t /\ q.queue[l][i] # q.pending[l]
    BY DEF Sound, Waits, Aram!Levels, Aram!None
  <2>. QED BY <1>7, <1>11, <1>13, <2>1 DEF Whole, Not
<1>17. Moving(s, m, Aram!None)
  <2>1. ASSUME NEW u \in Aram!Units(r)
        PROVE  /\ u \in Int
               /\ u < b.source + n => Given(s, m, r, u)
               /\ u >= b.source + n => Not(s, m, r, u)
    <3>1. u \in Int /\ u >= 0
      BY <1>4, Lengths
    <3>2. CASE u < b.source
      <4>1. Given(q, m, r, u)
        BY <1>5, <3>2
      <4>. QED BY <1>4, <1>8, <1>11, <1>12, <3>1, <3>2, <4>1 DEF Given
    <3>3. CASE u >= b.source
      <4>1. m[r][u] = 0
        BY <1>4, <1>5, <3>1, <3>3 DEF Not
      <4>2. CASE u < b.source + n
        BY <1>4, <1>8, <1>11, <3>1, <3>3, <4>1, <4>2 DEF Given
      <4>3. CASE u >= b.source + n
        BY <1>4, <1>8, <1>11, <3>1, <4>1, <4>3 DEF Not
      <4>. QED BY <1>4, <1>8, <3>1, <4>2, <4>3
    <3>. QED BY <1>4, <3>1, <3>2, <3>3
  <2>2. CASE final
    <3>1. \A u \in Aram!Units(r) : Given(s, m, r, u)
      BY <1>4, <1>5, <1>8, <2>1, <2>2, Lengths
    <3>. QED BY <1>6, <1>7, <2>2, <3>1 DEF Moving, r
  <2>3. CASE ~final
    <3>1. Rest(s, r) /\ s.req[r].source = b.source + n
      BY <1>4, <1>5, <1>7, <1>8, <1>9, <2>3, AramAssumption DEF Rest
    <3>2. \A u \in Aram!Units(r) :
            IF u < s.req[r].source THEN Given(s, m, r, u) ELSE Not(s, m, r, u)
      BY <1>4, <1>8, <2>1, <3>1
    <3>. QED BY <1>6, <1>7, <2>3, <3>1, <3>2 DEF Moving, r
  <2>. QED BY <2>2, <2>3
<1>18. Told(s, m, t)
  <2>. SUFFICES ASSUME NEW x \in t, NEW u \in Aram!Units(x)
                PROVE  m[x][u] = 1 /\ ~InEngine(s, x, u)
    BY DEF Told
  <2>1. m[x][u] = 1
    BY DEF Sound, Told
  <2>2. ~InEngine(s, x, u)
    <3>1. SUFFICES ASSUME x = r, u \in b.source .. b.source + n - 1 PROVE FALSE
      BY <1>11
    <3>2. Not(q, m, r, u)
      BY <1>4, <1>5, <1>8, <3>1
    <3>. QED BY <2>1, <3>1, <3>2 DEF Not
  <2>. QED BY <2>1, <2>2
<1>19. Callbacks(s) /\ Engine(s)
  BY <1>6, <1>7, <1>10, <1>13 DEF Sound, Callbacks, Engine, Foremost, r
<1>20. s.starts # {}
  <2>1. [r |-> r, u |-> b.source] \in s.starts
    BY <1>4, <1>8, <1>10
  <2>. QED BY <2>1
<1>. QED BY <1>1, <1>14, <1>15, <1>16, <1>17, <1>18, <1>19, <1>20 DEF Sound, r

\* A queue with no callback to come is served: its engine has a transfer, or
\* there is nothing in it.
LEMMA ServeSound ==
    ASSUME NEW q, NEW m, NEW t, Sound(q, m, t, Aram!None), q.starts = {},
           q.pending["hi"] = Aram!None, ~q.callback["lo"], chunk \in 1 .. Default
    PROVE  /\ Sound(Aram!Serve(q), m, t, Aram!None)
           /\ Aram!Serve(q).starts = {} => Idle(Aram!Serve(q))
<1>1. CASE q.queue["hi"] # <<>>
  <2>1. /\ Sound(Aram!PopHi(q), m, t, Aram!None)
        /\ Aram!PopHi(q).starts # {}
        /\ Aram!PopHi(q).pending["hi"] # Aram!None
    BY <1>1, PopSound
  <2>2. Aram!Serve(q) = Aram!PopHi(q)
    BY <2>1 DEF Aram!Serve
  <2>. QED BY <2>1, <2>2
<1>2. CASE q.queue["hi"] = <<>>
  <2>1. Aram!Serve(q) = Aram!ServiceLo(q)
    BY <1>2 DEF Aram!Serve, Aram!PopHi
  <2>2. CASE q.pending["lo"] # Aram!None
    <3>1. Aram!ServiceLo(q) = Chunked(q, q.pending["lo"])
      BY <2>2 DEF Aram!ServiceLo, Chunked, Size
    <3>. QED BY <2>1, <2>2, <3>1, ChunkSound
  <2>3. CASE q.pending["lo"] = Aram!None /\ q.queue["lo"] # <<>>
    <3>1. PICK s : s = Taken(q)
      OBVIOUS
    <3>2. Sound(s, m, t, Aram!None) /\ s.starts = {} /\ s.pending["hi"] = Aram!None
          /\ ~s.callback["lo"] /\ s.pending["lo"] # Aram!None
      BY <2>3, <3>1, TakenSound
    <3>3. Aram!ServiceLo(q) = Chunked(s, s.pending["lo"])
      BY <2>3, <3>1, <3>2 DEF Aram!ServiceLo, Chunked, Size, Taken
    <3>. QED BY <2>1, <3>2, <3>3, ChunkSound
  <2>4. CASE q.pending["lo"] = Aram!None /\ q.queue["lo"] = <<>>
    <3>1. Aram!ServiceLo(q) = q
      BY <2>4 DEF Aram!ServiceLo
    <3>2. Idle(q)
      BY <1>2, <2>4 DEF Idle, Aram!Levels
    <3>. QED BY <2>1, <3>1, <3>2
  <2>. QED BY <2>2, <2>3, <2>4
<1>. QED BY <1>1, <1>2

-----------------------------------------------------------------------------
(* The steps of the ARAM requests.                                         *)

LEMMA NowIs ==
    Now = [queue |-> queue, pending |-> pending, callback |-> callback, req |-> a_req,
           starts |-> dma]
  BY DEF Now, Aram!Queue

\* The queue as it is after a step that has become s.
LEMMA Became ==
    ASSUME NEW s, s \in Queues, Aram!Becomes(s), dma = {}
    PROVE  Now' = s
<1>1. s = [queue |-> s.queue, pending |-> s.pending, callback |-> s.callback,
           req |-> s.req, starts |-> s.starts]
  BY DEF Queues
<1>2. Now' = [queue |-> s.queue, pending |-> s.pending, callback |-> s.callback,
              req |-> s.req, starts |-> s.starts]
  BY DEF Now, Aram!Queue, Aram!Becomes
<1>. QED BY <1>1, <1>2

LEMMA AramInit == Aram!Init => AramInv
<1>. SUFFICES ASSUME Aram!Init PROVE AramInv
  OBVIOUS
<1>. USE DEF Aram!Init
<1>1. AramType
  <2>1. chunk \in 1 .. Default /\ fetch.keeps \in 1 .. Default
    BY AramAssumption
  <2>2. /\ raised \in BOOLEAN
        /\ inCallback \in Aram!Levels \cup {Aram!None}
        /\ a_told \subseteq Aram!Names
    OBVIOUS
  <2>3. fetch = [at |-> fetch.at, keeps |-> fetch.keeps, done |-> fetch.done]
    OBVIOUS
  <2>4. moved = [r \in Aram!Names |-> moved[r]]
    OBVIOUS
  <2>5. \A r \in Aram!Names : moved[r] = [u \in Aram!Units(r) |-> moved[r][u]]
    OBVIOUS
  <2>. QED BY <2>1, <2>2, <2>3, <2>4, <2>5 DEF AramType
<1>2. Now = [queue |-> queue, pending |-> pending, callback |-> callback, req |-> a_req,
             starts |-> {}]
  BY NowIs
<1>3. Now \in Queues
  <2>1. queue \in [Aram!Levels -> Seq(Aram!Names)]
    <3>1. <<>> \in Seq(Aram!Names) /\ queue = [p \in Aram!Levels |-> <<>>]
      OBVIOUS
    <3>. QED BY <3>1
  <2>2. /\ pending \in [Aram!Levels -> Aram!Names \cup {Aram!None}]
        /\ callback \in [Aram!Levels -> BOOLEAN]
        /\ a_req \in [Aram!Names -> [source : Nat, length : Nat]]
    OBVIOUS
  <2>. QED BY <1>2, <2>1, <2>2 DEF Queues
<1>4. \A l \in Aram!Levels : queue[l] = <<>> /\ pending[l] = Aram!None /\ callback[l] = FALSE
      /\ Len(queue[l]) = 0
  OBVIOUS
<1>5. Sound(Now, moved, a_told, inCallback)
  <2>1. Places(Now) /\ Waits(Now, moved, a_told, inCallback)
    BY <1>2, <1>4 DEF Places, Waits
  <2>2. Moving(Now, moved, inCallback) /\ Told(Now, moved, a_told)
    BY <1>2, <1>4 DEF Moving, Told, Aram!Levels
  <2>3. Callbacks(Now) /\ Engine(Now)
    BY <1>2, <1>4 DEF Callbacks, Engine, Aram!Levels
  <2>. QED BY <1>3, <2>1, <2>2, <2>3 DEF Sound
<1>6. Phase
  BY <1>2, <1>4 DEF Phase, Idle, Aram!None
<1>7. FetchAlone
  BY <1>4, NoneIsNoName DEF FetchAlone, OutOfQueue
<1>. QED BY <1>1, <1>5, <1>6, <1>7 DEF AramInv

\* What posting a request does to the queue before it is served.
Posted(q, r) == [q EXCEPT !.req[r] = [source |-> 0, length |-> Requests[r].length],
                          !.queue[Requests[r].priority] = Append(@, r)]
LEMMA PostedIs ==
    ASSUME NEW q \in Queues, NEW r \in Aram!Names
    PROVE  Posted(q, r) =
              [queue |-> [q.queue EXCEPT ![Requests[r].priority] = Append(@, r)],
               pending |-> q.pending, callback |-> q.callback,
               req |-> [q.req EXCEPT ![r] = [source |-> 0, length |-> Requests[r].length]],
               starts |-> q.starts]
<1>1. PICK s : s = Posted(q, r)
  OBVIOUS
<1>2. s.queue = [q.queue EXCEPT ![Requests[r].priority] = Append(@, r)]
  BY <1>1 DEF Queues, Posted
<1>3. s.pending = q.pending /\ s.callback = q.callback /\ s.starts = q.starts
  BY <1>1 DEF Queues, Posted
<1>4. s.req = [q.req EXCEPT ![r] = [source |-> 0, length |-> Requests[r].length]]
  BY <1>1 DEF Queues, Posted
<1>5. s = [queue |-> s.queue, pending |-> s.pending, callback |-> s.callback,
           req |-> s.req, starts |-> s.starts]
  BY <1>1 DEF Queues, Posted
<1>. QED BY <1>1, <1>2, <1>3, <1>4, <1>5

\* A block posted again is its caller's: it is not in the queue, and the engine
\* does not move it.
LEMMA PostSound ==
    ASSUME AramInv, NEW r \in Aram!Names, Aram!Unused(r), Aram!Post(r),
           UNCHANGED <<chunk, raised, inCallback>>
    PROVE  Sound(Now', moved', a_told', inCallback') /\ Phase'
<1>. DEFINE k == Requests[r].priority
            p == inCallback
            new == Posted(Aram!Queue, r)
<1>1. Sound(Now, moved, a_told, p) /\ Phase /\ AramType /\ Now \in Queues /\ k \in Aram!Levels
  BY Lengths DEF AramInv, Sound
<1>2. /\ queue \in [Aram!Levels -> Seq(Aram!Names)]
      /\ pending \in [Aram!Levels -> Aram!Names \cup {Aram!None}]
      /\ callback \in [Aram!Levels -> BOOLEAN]
      /\ a_req \in [Aram!Names -> [source : Nat, length : Nat]]
      /\ dma \in SUBSET [r : Aram!Names, u : Int]
  BY <1>1, NowIs DEF Queues
<1>3. PICK f : f = [queue |-> [queue EXCEPT ![k] = Append(queue[k], r)], pending |-> pending,
                    callback |-> callback,
                    req |-> [a_req EXCEPT ![r] = [source |-> 0, length |-> Requests[r].length]],
                    starts |-> dma]
  OBVIOUS
<1>4. new = [queue |-> f.queue, pending |-> pending, callback |-> callback, req |-> f.req,
             starts |-> {}]
  <2>1. Aram!Queue = [queue |-> queue, pending |-> pending, callback |-> callback, req |-> a_req,
                      starts |-> {}]
    BY DEF Aram!Queue
  <2>2. Aram!Queue \in Queues
    BY <1>2, <2>1 DEF Queues
  <2>. QED BY <1>3, <2>1, <2>2, PostedIs
<1>5. /\ moved' = [moved EXCEPT ![r] = [u \in Aram!Units(r) |-> 0]] /\ a_told' = a_told \ {r}
      /\ Aram!Becomes(IF Aram!Starts(new) THEN Aram!Serve(new) ELSE new)
  BY DEF Aram!Post, Posted
<1>. HIDE DEF new
<1>6. /\ \A l \in Aram!Levels : \A i \in 1 .. Len(queue[l]) :
            queue[l][i] # r /\ queue[l][i] \in Aram!Names
      /\ \A l \in Aram!Levels : pending[l] = r => p = l
  <2>1. ASSUME NEW l \in Aram!Levels, NEW i \in 1 .. Len(queue[l])
        PROVE  queue[l][i] # r /\ queue[l][i] \in Aram!Names
    <3>1. queue[l] \in Seq(Aram!Names)
      BY <1>2
    <3>2. queue[l][i] \in Aram!ToSet(queue[l]) /\ queue[l][i] \in Aram!Names
      BY <3>1 DEF Aram!ToSet
    <3>. QED BY <3>2 DEF Aram!Unused, Aram!Levels
  <2>. QED BY <2>1 DEF Aram!Unused
<1>7. /\ f.queue[k] = Append(queue[k], r) /\ \A l \in Aram!Levels \ {k} : f.queue[l] = queue[l]
      /\ f.req[r].source = 0 /\ f.req[r].length = Requests[r].length
      /\ \A x \in Aram!Names \ {r} : f.req[x] = a_req[x]
      /\ f.pending = pending /\ f.callback = callback /\ f.starts = dma
  BY <1>1, <1>2, <1>3
<1>8. /\ \A x \in Aram!Names \ {r} : moved'[x] = moved[x]
      /\ \A u \in Aram!Units(r) : moved'[r][u] = 0
  BY <1>1, <1>5 DEF AramType
<1>9. \A u : ~InEngine(f, r, u)
  <2>. SUFFICES ASSUME NEW u, [r |-> r, u |-> u] \in dma PROVE FALSE
    BY <1>7 DEF InEngine
  <2>1. r = Foremost(Now) /\ r # Aram!None
    BY <1>1, NowIs DEF Sound, Engine
  <2>2. r = pending["hi"] \/ r = pending["lo"]
    BY <2>1, NowIs DEF Foremost
  <2>3. inCallback # Aram!None
    BY <1>6, <2>2 DEF Aram!Levels, Aram!None
  <2>. QED BY <1>1, <2>3 DEF Phase
<1>10. ASSUME NEW l \in Aram!Levels, NEW i \in 1 .. Len(f.queue[l])
       PROVE  \/ i \in 1 .. Len(queue[l]) /\ f.queue[l][i] = queue[l][i]
              \/ l = k /\ f.queue[l][i] = r /\ i = Len(queue[l]) + 1
  <2>1. queue[l] \in Seq(Aram!Names)
    BY <1>2
  <2>2. CASE l = k
    <3>1. f.queue[l] = Append(queue[l], r)
      BY <1>7, <2>2
    <3>2. /\ Len(f.queue[l]) = Len(queue[l]) + 1 /\ Len(queue[l]) \in Nat
          /\ \A j \in 1 .. Len(queue[l]) : f.queue[l][j] = queue[l][j]
          /\ f.queue[l][Len(queue[l]) + 1] = r
      BY <2>1, <3>1, AppendProperties, LenProperties
    <3>3. i \in 1 .. Len(queue[l]) \/ i = Len(queue[l]) + 1
      BY <3>2
    <3>4. CASE i \in 1 .. Len(queue[l])
      BY <3>2, <3>4
    <3>5. CASE i = Len(queue[l]) + 1
      BY <2>2, <3>2, <3>5
    <3>. QED BY <3>3, <3>4, <3>5
  <2>3. CASE l # k
    BY <1>7, <2>3
  <2>. QED BY <2>2, <2>3
<1>11. Places(f)
  <2>. SUFFICES ASSUME NEW l \in Aram!Levels
                PROVE  /\ \A i \in 1 .. Len(f.queue[l]) :
                             /\ Requests[f.queue[l][i]].priority = l
                             /\ \A j \in 1 .. Len(f.queue[l]) :
                                    f.queue[l][i] = f.queue[l][j] => i = j
                       /\ f.pending[l] # Aram!None => Requests[f.pending[l]].priority = l
    BY DEF Places
  <2>1. Places(Now) /\ Now.queue = queue /\ Now.pending = pending
    BY <1>1, NowIs DEF Sound
  <2>2. f.pending[l] # Aram!None => Requests[f.pending[l]].priority = l
    BY <1>7, <2>1 DEF Places
  <2>3. ASSUME NEW i \in 1 .. Len(f.queue[l])
        PROVE  Requests[f.queue[l][i]].priority = l
    BY <1>10, <2>1 DEF Places
  <2>4. ASSUME NEW i \in 1 .. Len(f.queue[l]), NEW j \in 1 .. Len(f.queue[l]),
               f.queue[l][i] = f.queue[l][j]
        PROVE  i = j
    <3>1. CASE f.queue[l][i] = r
      <4>1. i = Len(queue[l]) + 1
        BY <1>6, <1>10, <3>1
      <4>2. j = Len(queue[l]) + 1
        BY ZenonT(60), <1>6, <1>10, <2>4, <3>1
      <4>. QED BY <4>1, <4>2
    <3>2. CASE f.queue[l][i] # r
      <4>1. /\ i \in 1 .. Len(queue[l]) /\ j \in 1 .. Len(queue[l])
            /\ queue[l][i] = queue[l][j]
        BY <1>10, <2>4, <3>2
      <4>. QED BY <2>1, <4>1 DEF Places
    <3>. QED BY <3>1, <3>2
  <2>. QED BY <2>2, <2>3, <2>4
<1>12. f \in Queues
  <2>1. f.queue \in [Aram!Levels -> Seq(Aram!Names)]
    <3>1. Append(queue[k], r) \in Seq(Aram!Names)
      BY <1>1, <1>2, AppendProperties
    <3>. QED BY <1>2, <1>3, <3>1
  <2>2. f.req \in [Aram!Names -> [source : Nat, length : Nat]]
    BY <1>2, <1>3, Lengths
  <2>. QED BY <1>2, <1>3, <2>1, <2>2 DEF Queues
<1>13. Waits(f, moved', a_told', p)
  <2>. SUFFICES ASSUME NEW l \in Aram!Levels, NEW i \in 1 .. Len(f.queue[l])
                PROVE  /\ Whole(f, moved', f.queue[l][i]) /\ f.queue[l][i] \notin a_told'
                       /\ f.queue[l][i] = f.pending[l] => p = l
    BY DEF Waits
  <2>1. CASE i \in 1 .. Len(queue[l]) /\ f.queue[l][i] = queue[l][i]
    <3>. DEFINE x == queue[l][i]
    <3>1. x \in Aram!Names /\ x # r
      BY <1>6, <2>1
    <3>2. Whole(Now, moved, x) /\ x \notin a_told /\ (x = pending[l] => p = l)
      BY <1>1, <2>1, NowIs DEF Sound, Waits
    <3>. HIDE DEF x
    <3>3. Whole(f, moved', x)
      BY <1>7, <1>8, <3>1, <3>2, NowIs DEF Whole, Not, InEngine
    <3>. QED BY <1>5, <1>7, <2>1, <3>2, <3>3 DEF x
  <2>2. CASE f.queue[l][i] = r
    <3>1. Whole(f, moved', r)
      BY <1>7, <1>8, <1>9 DEF Whole, Not
    <3>. QED BY <1>5, <1>6, <1>7, <2>2, <3>1
  <2>. QED BY <1>10, <2>1, <2>2
<1>14. Moving(f, moved', p)
  <2>1. Moving(Now, moved, p)
    BY <1>1 DEF Sound
  <2>2. \A l \in Aram!Levels : pending[l] # Aram!None /\ p # l => pending[l] \in Aram!Names \ {r}
    BY <1>2, <1>6
  <2>3. ASSUME pending["hi"] # Aram!None, p # "hi", NEW u \in Aram!Units(pending["hi"])
        PROVE  Given(f, moved', pending["hi"], u)
    BY <1>7, <1>8, <2>1, <2>2, <2>3, NowIs DEF Moving, Given, InEngine, Aram!Levels
  <2>4. ASSUME pending["lo"] # Aram!None, p # "lo"
        PROVE  /\ f.req[pending["lo"]] = a_req[pending["lo"]]
               /\ \A u \in Aram!Units(pending["lo"]) :
                     /\ Given(f, moved', pending["lo"], u) <=> Given(Now, moved, pending["lo"], u)
                     /\ Not(f, moved', pending["lo"], u) <=> Not(Now, moved, pending["lo"], u)
    <3>1. pending["lo"] \in Aram!Names \ {r}
      BY <2>2, <2>4 DEF Aram!Levels
    <3>2. moved'[pending["lo"]] = moved[pending["lo"]]
      BY <1>8, <3>1
    <3>. QED BY <1>7, <3>1, <3>2, NowIs DEF Given, Not, InEngine
  <2>. QED BY <1>7, <2>1, <2>3, <2>4, NowIs DEF Moving, Rest
<1>15. Told(f, moved', a_told')
  BY ZenonT(60), <1>1, <1>5, <1>7, <1>8, NowIs DEF Sound, Told, InEngine, AramType
<1>16. Callbacks(f) /\ Engine(f) /\ Foremost(f) = Foremost(Now)
  BY <1>1, <1>7, NowIs DEF Sound, Callbacks, Engine, Foremost
<1>17. Sound(f, moved', a_told', p)
  BY <1>11, <1>12, <1>13, <1>14, <1>15, <1>16 DEF Sound
<1>18. Aram!Starts(new) <=> pending["hi"] = Aram!None /\ pending["lo"] = Aram!None
  BY <1>3, <1>4 DEF Aram!Starts
<1>19. CASE Aram!Starts(new)
  <2>1. Foremost(Now) = Aram!None /\ dma = {} /\ ~raised /\ inCallback = Aram!None
    <3>1. Foremost(Now) = Aram!None
      BY <1>18, <1>19, NowIs DEF Foremost
    <3>2. dma = {} /\ ~raised
      BY <1>1, <3>1, NowIs DEF Sound, Engine, Phase
    <3>3. callback["hi"] = FALSE /\ callback["lo"] = FALSE
      BY <1>1, <1>2, <1>18, <1>19, NowIs DEF Sound, Callbacks, Aram!Levels
    <3>4. inCallback = Aram!None
      BY <1>1, <3>3 DEF Phase, AramType, Aram!Levels
    <3>. QED BY <3>1, <3>2, <3>4
  <2>2. new = f
    <3>1. f = [queue |-> f.queue, pending |-> pending, callback |-> callback, req |-> f.req,
               starts |-> dma]
      BY <1>3
    <3>. QED BY <1>4, <2>1, <3>1
  <2>3. /\ Sound(new, moved', a_told', Aram!None) /\ new.starts = {}
        /\ new.pending["hi"] = Aram!None /\ ~new.callback["lo"] /\ chunk \in 1 .. Default
    BY <1>1, <1>7, <1>16, <1>17, <1>18, <1>19, <2>1, <2>2 DEF AramType, Callbacks
  <2>4. /\ Sound(Aram!Serve(new), moved', a_told', Aram!None)
        /\ Aram!Serve(new).starts = {} => Idle(Aram!Serve(new))
    BY <2>3, ServeSound
  <2>5. Aram!Becomes(Aram!Serve(new))
    BY <1>5, <1>19
  <2>6. Now' = Aram!Serve(new)
    BY <2>1, <2>4, <2>5, Became DEF Sound
  <2>7. dma' = Aram!Serve(new).starts
    BY <2>1, <2>5 DEF Aram!Becomes
  <2>. QED BY <2>1, <2>4, <2>6, <2>7 DEF Phase
<1>20. CASE ~Aram!Starts(new)
  <2>1. Aram!Becomes(new)
    BY <1>5, <1>20
  <2>2. Now' = f
    <3>1. queue' = f.queue /\ pending' = f.pending /\ callback' = f.callback /\ a_req' = f.req
          /\ dma' = dma
      BY <1>3, <1>4, <2>1 DEF Aram!Becomes
    <3>2. Now' = [queue |-> queue', pending |-> pending', callback |-> callback', req |-> a_req',
                  starts |-> dma']
      BY DEF Now, Aram!Queue
    <3>. QED BY <1>3, <3>1, <3>2
  <2>3. dma' = dma /\ callback' = callback
    BY <1>3, <1>4, <2>1 DEF Aram!Becomes
  <2>4. ~(dma = {} /\ ~raised /\ inCallback = Aram!None)
    BY <1>1, <1>18, <1>20, NowIs DEF Phase, Idle, Aram!Levels
  <2>. QED BY <1>1, <1>16, <1>17, <2>2, <2>3, <2>4 DEF Phase
<1>. QED BY <1>19, <1>20

\* The engine's transfer is over: its units have been moved.
LEMMA CompletesSound ==
    ASSUME AramInv, Aram!Completes
    PROVE  Sound(Now', moved', a_told', inCallback') /\ Phase'
<1>1. /\ Sound(Now, moved, a_told, inCallback) /\ Phase /\ AramType /\ inCallback = Aram!None
      /\ queue' = queue /\ pending' = pending /\ callback' = callback /\ a_req' = a_req
      /\ dma' = {} /\ raised' = TRUE /\ dma # {}
      /\ inCallback' = Aram!None /\ a_told' = a_told
  BY DEF AramInv, Aram!Completes, Aram!queueVars
<1>2. Now = [queue |-> queue, pending |-> pending, callback |-> callback, req |-> a_req,
             starts |-> dma]
      /\ Now' = [queue |-> queue, pending |-> pending, callback |-> callback, req |-> a_req,
                starts |-> {}]
  BY <1>1 DEF Now, Aram!Queue
<1>3. PICK q : q = Now
  OBVIOUS
<1>4. PICK s : s = Now'
  OBVIOUS
<1>5. /\ s.queue = q.queue /\ s.pending = q.pending /\ s.callback = q.callback
      /\ s.req = q.req /\ s.starts = {} /\ q.starts = dma
  BY <1>2, <1>3, <1>4
<1>6. \A r, u : ~InEngine(s, r, u)
  BY <1>5 DEF InEngine
<1>7. ASSUME NEW r \in Aram!Names, NEW u \in Aram!Units(r)
      PROVE  moved'[r][u] = IF InEngine(q, r, u) THEN moved[r][u] + 1 ELSE moved[r][u]
  BY <1>5 DEF Aram!Completes, InEngine
<1>8. \A r \in Aram!Names : \A u \in Aram!Units(r) :
          /\ Given(q, moved, r, u) => moved'[r][u] = 1 /\ Given(s, moved', r, u)
          /\ Not(q, moved, r, u) => Not(s, moved', r, u)
  BY <1>6, <1>7 DEF Given, Not
<1>9. q \in Queues
  BY <1>1, <1>3 DEF Sound
<1>10. s \in Queues
  BY <1>2, <1>3, <1>4, <1>9 DEF Queues
<1>11. \A l \in Aram!Levels : \A i \in 1 .. Len(q.queue[l]) : q.queue[l][i] \in Aram!Names
  <2>1. \A l \in Aram!Levels : q.queue[l] \in Seq(Aram!Names)
    BY <1>9 DEF Queues
  <2>. QED BY <2>1
<1>12. \A l \in Aram!Levels : q.pending[l] \in Aram!Names \cup {Aram!None}
  BY <1>9 DEF Queues
<1>13. Places(s)
  BY <1>1, <1>3, <1>5 DEF Sound, Places
<1>14. Waits(s, moved', a_told, Aram!None)
  <2>. SUFFICES ASSUME NEW l \in Aram!Levels, NEW i \in 1 .. Len(q.queue[l])
                PROVE  /\ Whole(s, moved', q.queue[l][i]) /\ q.queue[l][i] \notin a_told
                       /\ q.queue[l][i] # q.pending[l]
    BY <1>5 DEF Waits
  <2>1. /\ Whole(q, moved, q.queue[l][i]) /\ q.queue[l][i] \notin a_told
        /\ q.queue[l][i] # q.pending[l] /\ q.queue[l][i] \in Aram!Names
    BY <1>1, <1>3, <1>11 DEF Sound, Waits, Aram!Levels, Aram!None
  <2>. QED BY <1>5, <1>8, <2>1 DEF Whole
<1>15. Moving(s, moved', Aram!None)
  <2>1. Moving(q, moved, Aram!None) /\ "hi" \in Aram!Levels /\ "lo" \in Aram!Levels
    BY <1>1, <1>3 DEF Sound, Aram!Levels
  <2>2. s.pending["hi"] # Aram!None =>
        \A u \in Aram!Units(s.pending["hi"]) : Given(s, moved', s.pending["hi"], u)
    BY <1>5, <1>8, <1>12, <2>1 DEF Moving, Aram!None
  <2>3. ASSUME s.pending["lo"] # Aram!None
        PROVE  IF s.callback["lo"]
               THEN \A u \in Aram!Units(s.pending["lo"]) : Given(s, moved', s.pending["lo"], u)
               ELSE /\ Rest(s, s.pending["lo"])
                    /\ \A u \in Aram!Units(s.pending["lo"]) :
                          IF u < s.req[s.pending["lo"]].source
                          THEN Given(s, moved', s.pending["lo"], u)
                          ELSE Not(s, moved', s.pending["lo"], u)
    <3>1. q.pending["lo"] \in Aram!Names /\ q.pending["lo"] # Aram!None
      BY <1>5, <1>12, <2>1, <2>3
    <3>2. IF q.callback["lo"]
          THEN \A u \in Aram!Units(q.pending["lo"]) : Given(q, moved, q.pending["lo"], u)
          ELSE /\ Rest(q, q.pending["lo"])
               /\ \A u \in Aram!Units(q.pending["lo"]) :
                     IF u < q.req[q.pending["lo"]].source
                     THEN Given(q, moved, q.pending["lo"], u)
                     ELSE Not(q, moved, q.pending["lo"], u)
      BY <2>1, <3>1 DEF Moving, Aram!None
    <3>3. Rest(q, q.pending["lo"]) => Rest(s, s.pending["lo"])
      BY <1>5 DEF Rest
    <3>. QED BY <1>5, <1>8, <3>1, <3>2, <3>3
  <2>. QED BY <2>2, <2>3 DEF Moving
<1>16. Told(s, moved', a_told)
  <2>. SUFFICES ASSUME NEW r \in a_told, NEW u \in Aram!Units(r)
                PROVE  moved'[r][u] = 1
    BY <1>6 DEF Told
  <2>1. r \in Aram!Names /\ moved[r][u] = 1 /\ ~InEngine(q, r, u)
    BY <1>1, <1>3 DEF Sound, Told, AramType
  <2>. QED BY <1>7, <2>1
<1>17. Callbacks(s) /\ Engine(s) /\ Foremost(s) # Aram!None
  <2>1. Foremost(q) # Aram!None
    BY <1>1, <1>3, <1>5 DEF Sound, Engine
  <2>. QED BY <1>1, <1>3, <1>5, <2>1 DEF Sound, Callbacks, Engine, Foremost
<1>. QED BY <1>1, <1>4, <1>10, <1>13, <1>14, <1>15, <1>16, <1>17 DEF Sound, Phase

\* The interrupt serves the queue, or tells the request that has been moved whole.
LEMMA InterruptSound ==
    ASSUME AramInv, Aram!Interrupt
    PROVE  Sound(Now', moved', a_told', inCallback') /\ Phase'
<1>1. /\ Sound(Now, moved, a_told, Aram!None) /\ Phase /\ AramType /\ inCallback = Aram!None
      /\ raised /\ ~raised' /\ chunk \in 1 .. Default /\ moved' = moved
  BY DEF AramInv, Aram!Interrupt, AramType
<1>2. dma = {} /\ Foremost(Now) # Aram!None
  BY <1>1 DEF Phase
<1>3. Now = Aram!Queue /\ Now.starts = {}
  BY <1>2, NowIs DEF Aram!Queue
<1>4. /\ Now.pending = pending /\ Now.callback = callback
      /\ callback["hi"] <=> pending["hi"] # Aram!None
      /\ callback["lo"] => pending["lo"] # Aram!None /\ pending["hi"] = Aram!None
  BY <1>1, NowIs DEF Sound, Callbacks
<1>5. CASE Aram!Finished = Aram!None
  <2>1. ~callback["hi"] /\ ~callback["lo"]
    BY <1>5 DEF Aram!Finished, Aram!None
  <2>2. /\ Sound(Aram!Serve(Aram!Queue), moved, a_told, Aram!None)
        /\ Aram!Serve(Aram!Queue).starts = {} => Idle(Aram!Serve(Aram!Queue))
    BY <1>1, <1>3, <1>4, <2>1, ServeSound
  <2>3. Aram!Becomes(Aram!Serve(Aram!Queue)) /\ inCallback' = Aram!None /\ a_told' = a_told
    BY <1>1, <1>5 DEF Aram!Interrupt
  <2>4. Now' = Aram!Serve(Aram!Queue) /\ dma' = Aram!Serve(Aram!Queue).starts
    BY <1>2, <2>2, <2>3, Became DEF Sound, Aram!Becomes
  <2>. QED BY <1>1, <2>2, <2>3, <2>4 DEF Phase
<1>6. CASE Aram!Finished # Aram!None
  <2>. DEFINE p == Aram!Finished
              r == pending[Aram!Finished]
  <2>1. p \in Aram!Levels /\ callback[p] /\ r # Aram!None
    BY <1>4, <1>6 DEF Aram!Finished, Aram!Levels
  <2>2. /\ inCallback' = p /\ a_told' = a_told \cup {r}
        /\ UNCHANGED <<queue, pending, callback, a_req, dma>>
    BY <1>6 DEF Aram!Interrupt
  <2>3. Now' = Now
    BY <2>2 DEF Now, Aram!Queue
  <2>4. r \in Aram!Names
    BY <1>1, <1>4, <2>1 DEF Sound, Queues
  <2>5. \A u \in Aram!Units(r) : Given(Now, moved, r, u) /\ ~InEngine(Now, r, u)
    <3>1. \A u \in Aram!Units(r) : Given(Now, moved, r, u)
      <4>1. Moving(Now, moved, Aram!None)
        BY <1>1 DEF Sound
      <4>2. CASE p = "hi"
        BY <1>4, <2>1, <4>1, <4>2 DEF Moving, Aram!None
      <4>3. CASE p = "lo"
        BY <1>4, <2>1, <4>1, <4>3 DEF Moving, Aram!None
      <4>. QED BY <2>1, <4>2, <4>3 DEF Aram!Levels
    <3>. QED BY <1>3, <3>1 DEF InEngine
  <2>6. Told(Now, moved, a_told')
    BY <1>1, <2>2, <2>5 DEF Sound, Told, Given
  <2>7. Waits(Now, moved, a_told', p)
    <3>. SUFFICES ASSUME NEW l \in Aram!Levels, NEW i \in 1 .. Len(Now.queue[l])
                  PROVE  /\ Whole(Now, moved, Now.queue[l][i]) /\ Now.queue[l][i] \notin a_told'
                         /\ Now.queue[l][i] = Now.pending[l] => p = l
      BY DEF Waits
    <3>1. /\ Whole(Now, moved, Now.queue[l][i]) /\ Now.queue[l][i] \notin a_told
          /\ Now.queue[l][i] # Now.pending[l]
      BY <1>1 DEF Sound, Waits, Aram!Levels, Aram!None
    <3>2. Now.queue[l][i] # r
      <4>1. CASE l = p
        BY <1>4, <3>1, <4>1
      <4>2. CASE l # p
        BY <1>1, <1>4, <2>1, <4>2 DEF Sound, Places
      <4>. QED BY <4>1, <4>2
    <3>. QED BY <2>2, <3>1, <3>2
  <2>8. Moving(Now, moved, p)
    BY <1>1 DEF Sound, Moving, Aram!None
  <2>9. Phase'
    BY <1>1, <1>2, <2>1, <2>2 DEF Phase, Aram!Levels, Aram!None
  <2>. QED BY <1>1, <2>2, <2>3, <2>6, <2>7, <2>8, <2>9 DEF Sound
<1>. QED BY <1>5, <1>6

\* What clearing a level's pending request leaves.
LEMMA ClearedIs ==
    ASSUME NEW q \in Queues, NEW p \in Aram!Levels
    PROVE  Aram!Cleared(q, p) =
              [queue |-> q.queue, pending |-> [q.pending EXCEPT ![p] = Aram!None],
               callback |-> [q.callback EXCEPT ![p] = FALSE],
               req |-> q.req, starts |-> q.starts]
<1>1. PICK s : s = Aram!Cleared(q, p)
  OBVIOUS
<1>2. s.queue = q.queue /\ s.req = q.req /\ s.starts = q.starts
  BY <1>1 DEF Queues, Aram!Cleared
<1>3. s.pending = [q.pending EXCEPT ![p] = Aram!None]
  BY <1>1 DEF Queues, Aram!Cleared
<1>4. s.callback = [q.callback EXCEPT ![p] = FALSE]
  BY <1>1 DEF Queues, Aram!Cleared
<1>5. s = [queue |-> s.queue, pending |-> s.pending, callback |-> s.callback,
           req |-> s.req, starts |-> s.starts]
  BY <1>1 DEF Queues, Aram!Cleared
<1>. QED BY <1>1, <1>2, <1>3, <1>4, <1>5

\* With its callback over, a request is its caller's and the queue is served.
LEMMA ReturnsSound ==
    ASSUME AramInv, Aram!CallbackReturns
    PROVE  Sound(Now', moved', a_told', inCallback') /\ Phase'
<1>. DEFINE p == inCallback
<1>1. /\ Sound(Now, moved, a_told, p) /\ Phase /\ AramType /\ p \in Aram!Levels
      /\ chunk \in 1 .. Default /\ moved' = moved /\ a_told' = a_told
      /\ inCallback' = Aram!None /\ raised' = raised
  BY DEF AramInv, Aram!CallbackReturns, AramType
<1>2. dma = {} /\ ~raised /\ callback[p]
  BY <1>1 DEF Phase, Aram!Levels, Aram!None
<1>3. PICK q : q = Now
  OBVIOUS
<1>4. PICK s : s = Aram!Cleared(q, p)
  OBVIOUS
<1>5. q = Aram!Queue /\ q.starts = {} /\ q \in Queues /\ q.callback = callback
  BY <1>1, <1>2, <1>3, NowIs DEF Aram!Queue, Sound
<1>6. /\ q.queue \in [Aram!Levels -> Seq(Aram!Names)]
      /\ q.pending \in [Aram!Levels -> Aram!Names \cup {Aram!None}]
      /\ q.callback \in [Aram!Levels -> BOOLEAN]
      /\ q.req \in [Aram!Names -> [source : Nat, length : Nat]]
  BY <1>5 DEF Queues
<1>7. s = [queue |-> q.queue, pending |-> [q.pending EXCEPT ![p] = Aram!None],
           callback |-> [q.callback EXCEPT ![p] = FALSE], req |-> q.req, starts |-> {}]
  BY <1>1, <1>4, <1>5, ClearedIs
<1>8. /\ s.queue = q.queue /\ s.req = q.req /\ s.starts = {} /\ s.pending[p] = Aram!None
      /\ ~s.callback[p]
      /\ \A l \in Aram!Levels \ {p} : s.pending[l] = q.pending[l] /\ s.callback[l] = q.callback[l]
  BY <1>1, <1>6, <1>7
<1>9. s \in Queues
  <2>1. /\ s.pending \in [Aram!Levels -> Aram!Names \cup {Aram!None}]
        /\ s.callback \in [Aram!Levels -> BOOLEAN]
    BY <1>6, <1>7
  <2>. QED BY <1>6, <1>7, <2>1 DEF Queues
<1>10. Places(s)
  BY <1>1, <1>3, <1>8 DEF Sound, Places
<1>11. Waits(s, moved, a_told, Aram!None)
  <2>. SUFFICES ASSUME NEW l \in Aram!Levels, NEW i \in 1 .. Len(q.queue[l])
                PROVE  /\ Whole(s, moved, q.queue[l][i]) /\ q.queue[l][i] \notin a_told
                       /\ q.queue[l][i] # s.pending[l]
    BY <1>8 DEF Waits
  <2>1. /\ Whole(q, moved, q.queue[l][i]) /\ q.queue[l][i] \notin a_told
        /\ q.queue[l][i] = q.pending[l] => p = l
    BY <1>1, <1>3 DEF Sound, Waits
  <2>2. Whole(s, moved, q.queue[l][i])
    BY <1>5, <1>8, <2>1 DEF Whole, Not, InEngine
  <2>3. q.queue[l][i] \in Aram!Names
    <3>1. q.queue[l] \in Seq(Aram!Names)
      BY <1>6
    <3>. QED BY <3>1
  <2>. QED BY <1>8, <2>1, <2>2, <2>3, NoneIsNoName
<1>12. /\ s.pending["hi"] = Aram!None /\ ~s.callback["lo"]
  <2>1. Callbacks(q) /\ q.callback[p] /\ "hi" \in Aram!Levels /\ "lo" \in Aram!Levels
    BY <1>1, <1>2, <1>3, <1>5 DEF Sound, Aram!Levels
  <2>2. CASE p = "hi"
    BY <1>8, <2>1, <2>2 DEF Callbacks
  <2>3. CASE p = "lo"
    BY <1>8, <2>1, <2>3 DEF Callbacks
  <2>. QED BY <1>1, <2>2, <2>3 DEF Aram!Levels
<1>13. Moving(s, moved, Aram!None)
  <2>1. Moving(q, moved, p)
    BY <1>1, <1>3 DEF Sound
  <2>2. CASE p = "lo"
    BY <1>8, <1>12, <2>2 DEF Moving
  <2>3. CASE p = "hi"
    <3>1. /\ s.pending["lo"] = q.pending["lo"] /\ s.callback["lo"] = q.callback["lo"]
      BY <1>8, <2>3 DEF Aram!Levels
    <3>. QED BY <1>5, <1>8, <1>12, <2>1, <2>3, <3>1 DEF Moving, Rest, Given, Not, InEngine,
                                                        Aram!None
  <2>. QED BY <1>1, <2>2, <2>3 DEF Aram!Levels
<1>14. Told(s, moved, a_told)
  BY <1>1, <1>3, <1>5, <1>8 DEF Sound, Told, InEngine
<1>15. Callbacks(s) /\ Engine(s)
  <2>1. ~s.callback["hi"]
    BY <1>1, <1>3, <1>8, <1>12 DEF Sound, Callbacks, Aram!Levels
  <2>. QED BY <1>8, <1>12, <2>1 DEF Callbacks, Engine
<1>16. Sound(s, moved, a_told, Aram!None)
  BY <1>9, <1>10, <1>11, <1>13, <1>14, <1>15 DEF Sound
<1>17. /\ Sound(Aram!Serve(s), moved, a_told, Aram!None)
       /\ Aram!Serve(s).starts = {} => Idle(Aram!Serve(s))
  BY <1>1, <1>8, <1>12, <1>16, ServeSound
<1>18. Aram!Becomes(Aram!Serve(s))
  BY <1>4, <1>5 DEF Aram!CallbackReturns
<1>19. Now' = Aram!Serve(s) /\ dma' = Aram!Serve(s).starts
  BY <1>2, <1>17, <1>18, Became DEF Sound, Aram!Becomes
<1>. QED BY <1>1, <1>2, <1>17, <1>19 DEF Phase

-----------------------------------------------------------------------------
(* The fetch's request.                                                    *)

\* A request that is nowhere in a queue is not there after it is served.
Absent(q, x) == \A l \in Aram!Levels : /\ q.pending[l] # x
                                 /\ \A i \in 1 .. Len(q.queue[l]) : q.queue[l][i] # x
LEMMA ServeKeeps ==
    ASSUME NEW q \in Queues, NEW x \in Aram!Names, Absent(q, x)
    PROVE  Absent(Aram!Serve(q), x)
<1>1. ASSUME NEW k \in Aram!Levels, q.queue[k] # <<>>,
             NEW s, s.queue = [q.queue EXCEPT ![k] = Tail(q.queue[k])],
             s.pending = [q.pending EXCEPT ![k] = Head(q.queue[k])]
      PROVE  Absent(s, x)
  <2>1. /\ q.queue \in [Aram!Levels -> Seq(Aram!Names)]
        /\ q.pending \in [Aram!Levels -> Aram!Names \cup {Aram!None}]
    BY DEF Queues
  <2>2. q.queue[k] \in Seq(Aram!Names)
    BY <2>1
  <2>3. /\ Head(q.queue[k]) # x
        /\ \A i \in 1 .. Len(Tail(q.queue[k])) : Tail(q.queue[k])[i] # x
    BY <1>1, <2>2, FirstAndRest DEF Absent
  <2>. QED BY <1>1, <2>1, <2>3 DEF Absent
<1>2. ASSUME NEW s \in Queues, Absent(s, x), NEW r \in Aram!Names
      PROVE  Absent(Chunked(s, r), x)
  BY <1>2, ChunkedIs DEF Absent
<1>3. "hi" \in Aram!Levels /\ "lo" \in Aram!Levels
  BY DEF Aram!Levels
<1>4. CASE q.queue["hi"] # <<>>
  <2>1. PICK s : s = Aram!PopHi(q)
    OBVIOUS
  <2>2. Absent(s, x) /\ s.pending["hi"] # Aram!None
    <3>1. /\ s.queue = [q.queue EXCEPT !["hi"] = Tail(q.queue["hi"])]
          /\ s.pending = [q.pending EXCEPT !["hi"] = Head(q.queue["hi"])]
      BY <1>4, <2>1, Popped
    <3>2. /\ Head(q.queue["hi"]) \in Aram!Names
          /\ q.pending \in [Aram!Levels -> Aram!Names \cup {Aram!None}]
      BY <1>3, <1>4, FirstAndRest DEF Queues
    <3>. QED BY <1>1, <1>3, <1>4, <3>1, <3>2, NoneIsNoName
  <2>. QED BY <2>1, <2>2 DEF Aram!Serve
<1>5. CASE q.queue["hi"] = <<>>
  <2>1. Aram!Serve(q) = q \/ Aram!Serve(q) = Aram!ServiceLo(q)
    BY <1>5 DEF Aram!Serve, Aram!PopHi
  <2>2. CASE q.pending["lo"] # Aram!None
    <3>1. Aram!ServiceLo(q) = Chunked(q, q.pending["lo"]) /\ q.pending["lo"] \in Aram!Names
      BY <1>3, <2>2 DEF Aram!ServiceLo, Chunked, Size, Queues
    <3>. QED BY <1>2, <2>1, <3>1
  <2>3. CASE q.pending["lo"] = Aram!None /\ q.queue["lo"] # <<>>
    <3>1. PICK s : s = Taken(q)
      OBVIOUS
    <3>2. /\ s.queue = [q.queue EXCEPT !["lo"] = Tail(q.queue["lo"])]
          /\ s.pending = [q.pending EXCEPT !["lo"] = Head(q.queue["lo"])]
          /\ s.callback = q.callback /\ s.req = q.req /\ s.starts = q.starts
          /\ s = [queue |-> s.queue, pending |-> s.pending, callback |-> s.callback,
                  req |-> s.req, starts |-> s.starts]
      BY <3>1, TakenIs
    <3>3. /\ q.queue \in [Aram!Levels -> Seq(Aram!Names)]
          /\ q.pending \in [Aram!Levels -> Aram!Names \cup {Aram!None}]
          /\ q.queue["lo"] \in Seq(Aram!Names)
      BY <1>3 DEF Queues
    <3>4. Head(q.queue["lo"]) \in Aram!Names /\ Tail(q.queue["lo"]) \in Seq(Aram!Names)
      BY <2>3, <3>3, FirstAndRest
    <3>5. s \in Queues /\ s.pending["lo"] \in Aram!Names
      BY ZenonT(60), <1>3, <3>2, <3>3, <3>4 DEF Queues
    <3>6. Absent(s, x)
      BY <1>1, <1>3, <2>3, <3>2
    <3>7. Aram!ServiceLo(q) = Chunked(s, s.pending["lo"])
      BY <2>3, <3>1, <3>5, NoneIsNoName DEF Aram!ServiceLo, Chunked, Size, Taken
    <3>. QED BY <1>2, <2>1, <3>5, <3>6, <3>7, <2>3
  <2>4. CASE q.pending["lo"] = Aram!None /\ q.queue["lo"] = <<>>
    BY <2>1, <2>4 DEF Aram!ServiceLo
  <2>. QED BY <2>2, <2>3, <2>4
<1>. QED BY <1>4, <1>5

\* The fetch waits for its own request, which nobody else posts.
LEMMA FetchStep ==
    ASSUME AramInv, [Aram!Next]_Aram!vars
    PROVE  FetchAlone'
<1>1. /\ FetchAlone /\ AramType /\ Phase /\ Sound(Now, moved, a_told, inCallback)
      /\ Now = [queue |-> queue, pending |-> pending, callback |-> callback, req |-> a_req,
              starts |-> dma]
      /\ Now \in Queues
  BY NowIs DEF AramInv, Sound
<1>2. /\ queue \in [Aram!Levels -> Seq(Aram!Names)]
      /\ pending \in [Aram!Levels -> Aram!Names \cup {Aram!None}]
      /\ callback \in [Aram!Levels -> BOOLEAN]
      /\ a_req \in [Aram!Names -> [source : Nat, length : Nat]]
  BY <1>1 DEF Queues
<1>3. PICK empty : empty = Aram!Queue
  OBVIOUS
<1>4. /\ empty = [queue |-> queue, pending |-> pending, callback |-> callback, req |-> a_req,
                starts |-> {}]
      /\ empty \in Queues
  <2>1. empty = [queue |-> queue, pending |-> pending, callback |-> callback, req |-> a_req,
                 starts |-> {}]
    BY <1>3 DEF Aram!Queue
  <2>. QED BY <1>2, <2>1 DEF Queues
<1>5. \A l \in Aram!Levels : \A i \in 1 .. Len(queue[l]) : queue[l][i] \in Aram!Names
  <2>1. \A l \in Aram!Levels : queue[l] \in Seq(Aram!Names)
    BY <1>2
  <2>. QED BY <2>1
<1>6. ASSUME NEW s \in Queues, Aram!Becomes(s)
      PROVE  queue' = s.queue /\ pending' = s.pending
  BY <1>6 DEF Aram!Becomes
<1>7. CASE Aram!Posts
  <2>1. PICK r \in Aram!Names \ {Fetched} : Aram!Unused(r) /\ Aram!Post(r)
    BY <1>7 DEF Aram!Posts
  <2>2. fetch' = fetch /\ inCallback' = inCallback
    BY <1>7 DEF Aram!Posts
  <2>3. SUFFICES ASSUME OutOfQueue(Fetched) PROVE OutOfQueue(Fetched)'
    BY <1>1, <2>2 DEF FetchAlone, OutOfQueue
  <2>4. PICK new : new = Posted(empty, r)
    OBVIOUS
  <2>5. /\ new = [queue |-> [queue EXCEPT ![Requests[r].priority] = Append(@, r)],
                  pending |-> pending, callback |-> callback,
                  req |-> [a_req EXCEPT ![r] = [source |-> 0, length |-> Requests[r].length]],
                  starts |-> {}]
        /\ Requests[r].priority \in Aram!Levels
    BY <1>4, <2>4, PostedIs, Lengths
  <2>6. /\ new.pending = pending
        /\ \A l \in Aram!Levels : /\ new.queue[l] \in Seq(Aram!Names)
                                  /\ \A i \in 1 .. Len(new.queue[l]) : new.queue[l][i] # Fetched
    <3>. SUFFICES ASSUME NEW l \in Aram!Levels
                  PROVE  /\ new.queue[l] \in Seq(Aram!Names)
                         /\ \A i \in 1 .. Len(new.queue[l]) : new.queue[l][i] # Fetched
      BY <2>5
    <3>1. queue[l] \in Seq(Aram!Names) /\ \A i \in 1 .. Len(queue[l]) : queue[l][i] # Fetched
      BY <1>2, <2>3 DEF OutOfQueue
    <3>2. new.queue[l] = queue[l] \/ new.queue[l] = Append(queue[l], r)
      BY <1>2, <2>5
    <3>3. /\ Append(queue[l], r) \in Seq(Aram!Names)
          /\ \A i \in 1 .. Len(Append(queue[l], r)) : Append(queue[l], r)[i] # Fetched
      BY <3>1, AppendProperties
    <3>. QED BY <3>1, <3>2, <3>3
  <2>7. new \in Queues
    <3>1. new.queue \in [Aram!Levels -> Seq(Aram!Names)]
      BY <1>2, <2>5, <2>6
    <3>2. new.req \in [Aram!Names -> [source : Nat, length : Nat]]
      BY <1>2, <2>5, Lengths
    <3>. QED BY <1>2, <2>5, <3>1, <3>2 DEF Queues
  <2>8. Aram!Becomes(IF Aram!Starts(new) THEN Aram!Serve(new) ELSE new)
    BY <1>3, <2>1, <2>4 DEF Aram!Post, Posted
  <2>9. CASE Aram!Starts(new)
    <3>1. Absent(new, Fetched)
      BY <2>6, <2>9, NoneIsNoName DEF Absent, Aram!Starts, Aram!Levels
    <3>2. Absent(Aram!Serve(new), Fetched)
      BY <2>7, <3>1, NoneIsNoName, ServeKeeps
    <3>3. queue' = Aram!Serve(new).queue /\ pending' = Aram!Serve(new).pending
      BY <2>8, <2>9 DEF Aram!Becomes
    <3>. QED BY <3>2, <3>3 DEF Absent, OutOfQueue
  <2>10. CASE ~Aram!Starts(new)
    <3>1. queue' = new.queue /\ pending' = pending
      BY <2>6, <2>8, <2>10 DEF Aram!Becomes
    <3>. QED BY <2>2, <2>3, <2>6, <3>1 DEF OutOfQueue
  <2>. QED BY <2>9, <2>10
<1>8. CASE Aram!FetchPosts
  <2>1. fetch'.at = "spin" /\ fetch'.done = fetch.done /\ fetch.at = "post"
    BY <1>1, <1>8 DEF Aram!FetchPosts, Aram!Fetching, AramType
  <2>. QED BY <1>1, <2>1 DEF FetchAlone
<1>9. CASE \/ Aram!FetchCalled \/ Aram!FetchWaits \/ Aram!FetchReturns \/ Aram!FetchSpins
           \/ Aram!FetchNarrows
  <2>1. /\ fetch.at # "spin" \/ fetch.done
        /\ fetch'.at # "spin" /\ (fetch'.at = "post" => ~fetch'.done)
        /\ inCallback = Aram!None
    BY <1>1, <1>9 DEF Aram!FetchCalled, Aram!FetchWaits, Aram!FetchReturns, Aram!FetchSpins,
                      Aram!FetchNarrows, Aram!Fetching,
                      AramType
  <2>2. UNCHANGED <<queue, pending>>
    BY <1>9 DEF Aram!FetchCalled, Aram!FetchWaits, Aram!FetchReturns, Aram!FetchSpins,
                Aram!FetchNarrows, Aram!Others
  <2>3. OutOfQueue(Fetched)
    BY <1>1, <2>1 DEF FetchAlone
  <2>. QED BY <2>1, <2>2, <2>3 DEF FetchAlone, OutOfQueue, Aram!Levels, Aram!None
<1>10. CASE Aram!Completes
  BY <1>1, <1>10 DEF Aram!Completes, Aram!queueVars, FetchAlone, OutOfQueue
<1>11. CASE Aram!Interrupt /\ Aram!Finished = Aram!None
  <2>1. /\ inCallback = Aram!None
        /\ inCallback' = Aram!None
        /\ fetch' = fetch
        /\ Aram!Becomes(Aram!Serve(empty))
        /\ raised
    BY <1>3, <1>11 DEF Aram!Interrupt
  <2>2. SUFFICES ASSUME OutOfQueue(Fetched) PROVE OutOfQueue(Fetched)'
    BY <1>1, <2>1 DEF FetchAlone, OutOfQueue
  <2>3. Absent(empty, Fetched)
    BY <1>4, <2>1, <2>2 DEF Absent, OutOfQueue, Aram!Levels, Aram!None
  <2>4. Absent(Aram!Serve(empty), Fetched)
    BY <1>4, <2>3, NoneIsNoName, ServeKeeps
  <2>5. queue' = Aram!Serve(empty).queue /\ pending' = Aram!Serve(empty).pending
    BY <2>1 DEF Aram!Becomes
  <2>. QED BY <2>4, <2>5 DEF Absent, OutOfQueue
<1>12. CASE Aram!Interrupt /\ Aram!Finished # Aram!None
  <2>1. /\ inCallback = Aram!None /\ inCallback' = Aram!Finished /\ UNCHANGED <<queue, pending>>
        /\ fetch' = [fetch EXCEPT !.done = @ \/ pending[Aram!Finished] = Fetched]
        /\ Aram!Finished \in Aram!Levels
    BY <1>12 DEF Aram!Interrupt, Aram!Finished, Aram!Levels
  <2>2. fetch'.at = fetch.at /\ (fetch'.done <=> fetch.done \/ pending[Aram!Finished] = Fetched)
    <3>1. fetch'.at = fetch.at
      BY <1>1, <2>1 DEF AramType
    <3>2. fetch'.done = (fetch.done \/ pending[Aram!Finished] = Fetched)
      BY <1>1, <2>1 DEF AramType
    <3>. QED BY <3>1, <3>2
  <2>3. CASE pending[Aram!Finished] # Fetched
    BY <1>1, <2>1, <2>2, <2>3 DEF FetchAlone, OutOfQueue, Aram!Levels, Aram!None
  <2>4. CASE pending[Aram!Finished] = Fetched
    <3>1. fetch.at = "spin"
      BY <1>1, <2>1, <2>4 DEF FetchAlone, OutOfQueue, Aram!Levels, Aram!None
    <3>2. ASSUME NEW l \in Aram!Levels
          PROVE  /\ \A i \in 1 .. Len(queue[l]) : queue[l][i] # Fetched
                 /\ pending[l] = Fetched => l = Aram!Finished
      <4>1. /\ pending[Aram!Finished] # Aram!None /\ Requests[Fetched].priority = Aram!Finished
        BY <1>1, <2>1, <2>4, NoneIsNoName DEF Sound, Places
      <4>2. pending[l] = Fetched => l = Aram!Finished
        BY <1>1, <4>1, NoneIsNoName DEF Sound, Places
      <4>3. ASSUME NEW i \in 1 .. Len(queue[l])
            PROVE  queue[l][i] # Fetched
        <5>1. Requests[queue[l][i]].priority = l
          BY <1>1 DEF Sound, Places
        <5>2. queue[l][i] # pending[l]
          BY <1>1, <2>1 DEF Sound, Waits, Aram!Levels, Aram!None
        <5>. QED BY <2>4, <4>1, <5>1, <5>2
      <4>. QED BY <4>2, <4>3
    <3>3. OutOfQueue(Fetched)'
      BY <2>1, <2>2, <3>1, <3>2 DEF OutOfQueue
    <3>. QED BY <2>2, <3>1, <3>3 DEF FetchAlone
  <2>. QED BY <2>3, <2>4
<1>13. CASE Aram!CallbackReturns
  <2>. DEFINE p == inCallback
  <2>1. /\ p \in Aram!Levels /\ inCallback' = Aram!None /\ fetch' = fetch
        /\ Aram!Becomes(Aram!Serve(Aram!Cleared(empty, p)))
    BY <1>1, <1>3, <1>13 DEF Aram!CallbackReturns, AramType
  <2>2. SUFFICES ASSUME OutOfQueue(Fetched) PROVE OutOfQueue(Fetched)'
    BY <1>1, <2>1 DEF FetchAlone, OutOfQueue
  <2>3. PICK s : s = Aram!Cleared(empty, p)
    OBVIOUS
  <2>4. s = [queue |-> queue, pending |-> [pending EXCEPT ![p] = Aram!None],
             callback |-> [callback EXCEPT ![p] = FALSE], req |-> a_req, starts |-> {}]
    BY <1>4, <2>1, <2>3, ClearedIs
  <2>5. s \in Queues
    <3>1. /\ [pending EXCEPT ![p] = Aram!None] \in [Aram!Levels -> Aram!Names \cup {Aram!None}]
          /\ [callback EXCEPT ![p] = FALSE] \in [Aram!Levels -> BOOLEAN]
      BY <1>2
    <3>. QED BY <1>2, <2>4, <3>1 DEF Queues
  <2>6. Absent(s, Fetched)
    BY <1>2, <2>1, <2>2, <2>4, NoneIsNoName DEF Absent, OutOfQueue
  <2>7. Absent(Aram!Serve(s), Fetched)
    BY <2>5, <2>6, NoneIsNoName, ServeKeeps
  <2>8. queue' = Aram!Serve(s).queue /\ pending' = Aram!Serve(s).pending
    BY <2>1, <2>3 DEF Aram!Becomes
  <2>. QED BY <2>7, <2>8 DEF Absent, OutOfQueue
<1>14. CASE UNCHANGED Aram!vars
  BY <1>1, <1>14 DEF Aram!vars, Aram!queueVars, FetchAlone, OutOfQueue
<1>. QED BY <1>7, <1>8, <1>9, <1>10, <1>11, <1>12, <1>13, <1>14 DEF Aram!Next

\* What a step leaves of the types.
LEMMA AramTypeStep ==
    ASSUME AramInv, [Aram!Next]_Aram!vars
    PROVE  AramType'
<1>1. AramType /\ Sound(Now, moved, a_told, inCallback) /\ Callbacks(Now) /\ Now \in Queues
  BY DEF AramInv, Sound
<1>2. /\ pending \in [Aram!Levels -> Aram!Names \cup {Aram!None}]
      /\ callback["hi"] <=> pending["hi"] # Aram!None
      /\ callback["lo"] => pending["lo"] # Aram!None
  BY <1>1, NowIs DEF Queues, Callbacks
<1>3. 1 \in 1 .. Default
  BY AramAssumption
<1>4. chunk' \in 1 .. Default /\ fetch'.keeps \in 1 .. Default
      /\ fetch' = [at |-> fetch'.at, keeps |-> fetch'.keeps, done |-> fetch'.done]
  <2>. USE DEF AramType
  <2>1. CASE Aram!Posts \/ Aram!Completes \/ Aram!CallbackReturns \/ UNCHANGED Aram!vars
    BY <1>1, <2>1 DEF Aram!Posts, Aram!Completes, Aram!CallbackReturns, Aram!vars, Aram!queueVars
  <2>2. CASE Aram!FetchCalled \/ Aram!FetchWaits \/ Aram!FetchPosts \/ Aram!FetchSpins
    BY <1>1, <2>2 DEF Aram!FetchCalled, Aram!FetchWaits, Aram!FetchPosts, Aram!FetchSpins,
                      Aram!Fetching
  <2>3. CASE Aram!FetchNarrows
    BY <1>1, <1>3, <2>3 DEF Aram!FetchNarrows
  <2>4. CASE Aram!FetchReturns
    BY <1>1, <2>4 DEF Aram!FetchReturns, Aram!Fetching
  <2>5. CASE Aram!Interrupt
    BY <1>1, <2>5 DEF Aram!Interrupt
  <2>. QED BY <2>1, <2>2, <2>3, <2>4, <2>5 DEF Aram!Next
<1>5. raised' \in BOOLEAN /\ inCallback' \in Aram!Levels \cup {Aram!None}
  <2>1. CASE Aram!Posts \/ Aram!Completes \/ Aram!CallbackReturns \/ UNCHANGED Aram!vars
    BY <1>1, <2>1 DEF AramType, Aram!Posts, Aram!Completes, Aram!CallbackReturns, Aram!vars,
                      Aram!queueVars
  <2>2. CASE \/ Aram!FetchCalled \/ Aram!FetchWaits \/ Aram!FetchNarrows \/ Aram!FetchPosts
             \/ Aram!FetchSpins \/ Aram!FetchReturns
    BY <1>1, <2>2 DEF AramType, Aram!FetchCalled, Aram!FetchWaits, Aram!FetchNarrows,
                      Aram!FetchPosts, Aram!FetchSpins,
                      Aram!FetchReturns, Aram!Others
  <2>3. CASE Aram!Interrupt
    BY <1>1, <2>3 DEF AramType, Aram!Interrupt, Aram!Finished, Aram!Levels
  <2>. QED BY <2>1, <2>2, <2>3 DEF Aram!Next
<1>6. /\ moved' = [r \in Aram!Names |-> moved'[r]]
      /\ \A r \in Aram!Names : moved'[r] = [u \in Aram!Units(r) |-> moved'[r][u]]
      /\ a_told' \subseteq Aram!Names
  <2>1. ASSUME NEW r \in Aram!Names, Aram!Post(r)
        PROVE  /\ moved' = [x \in Aram!Names |-> moved'[x]]
               /\ \A x \in Aram!Names : moved'[x] = [u \in Aram!Units(x) |-> moved'[x][u]]
               /\ a_told' \subseteq Aram!Names
    <3>1. moved' = [moved EXCEPT ![r] = [u \in Aram!Units(r) |-> 0]] /\ a_told' = a_told \ {r}
      BY <2>1 DEF Aram!Post
    <3>2. moved = [x \in Aram!Names |-> moved[x]] /\ a_told \subseteq Aram!Names
      BY <1>1 DEF AramType
    <3>3. \A x \in Aram!Names : moved'[x] = IF x = r THEN [u \in Aram!Units(r) |-> 0] ELSE moved[x]
      BY <3>1, <3>2
    <3>4. \A x \in Aram!Names : moved[x] = [u \in Aram!Units(x) |-> moved[x][u]]
      BY <1>1 DEF AramType
    <3>5. ASSUME NEW x \in Aram!Names
          PROVE  moved'[x] = [u \in Aram!Units(x) |-> moved'[x][u]]
      BY <3>3, <3>4
    <3>. QED BY <3>1, <3>2, <3>5
  <2>2. CASE Aram!Posts \/ Aram!FetchPosts
    BY <2>1, <2>2, NoneIsNoName DEF Aram!Posts, Aram!FetchPosts
  <2>3. CASE Aram!Completes
    <3>1. /\ moved' = [r \in Aram!Names |-> [u \in Aram!Units(r) |->
                        IF [r |-> r, u |-> u] \in dma THEN moved[r][u] + 1 ELSE moved[r][u]]]
          /\ a_told' = a_told
      BY <2>3 DEF Aram!Completes
    <3>. QED BY <1>1, <3>1 DEF AramType
  <2>4. CASE \/ Aram!FetchCalled \/ Aram!FetchWaits \/ Aram!FetchNarrows \/ Aram!FetchSpins
             \/ Aram!FetchReturns
             \/ Aram!CallbackReturns \/ UNCHANGED Aram!vars
    BY <1>1, <2>4 DEF AramType, Aram!FetchCalled, Aram!FetchWaits, Aram!FetchNarrows,
                      Aram!FetchSpins, Aram!FetchReturns,
                      Aram!Others, Aram!CallbackReturns, Aram!vars
  <2>5. CASE Aram!Interrupt
    <3>1. moved' = moved
      BY <2>5 DEF Aram!Interrupt
    <3>2. Aram!Finished # Aram!None => pending[Aram!Finished] \in Aram!Names
      BY <1>2 DEF Aram!Finished, Aram!Levels
    <3>3. a_told' \subseteq Aram!Names
      BY <1>1, <2>5, <3>2 DEF AramType, Aram!Interrupt
    <3>. QED BY <1>1, <3>1, <3>3 DEF AramType
  <2>. QED BY <2>2, <2>3, <2>4, <2>5 DEF Aram!Next
<1>. QED BY <1>4, <1>5, <1>6 DEF AramType

LEMMA AramStep ==
    ASSUME AramInv, [Aram!Next]_Aram!vars
    PROVE  AramInv'
<1>1. Sound(Now', moved', a_told', inCallback') /\ Phase'
  <2>1. CASE Aram!Posts
    BY <2>1, PostSound DEF Aram!Posts
  <2>2. CASE Aram!FetchPosts
    <3>1. Aram!Unused(Fetched)
      <4>1. OutOfQueue(Fetched) /\ fetch.at = "post" /\ inCallback = Aram!None
        BY <2>2 DEF AramInv, FetchAlone, Aram!FetchPosts, Aram!Fetching
      <4>2. queue \in [Aram!Levels -> Seq(Aram!Names)]
        BY NowIs DEF AramInv, Sound, Queues
      <4>3. \A l \in Aram!Levels : Fetched \notin Aram!ToSet(queue[l])
        BY <4>1, <4>2 DEF OutOfQueue, Aram!ToSet
      <4>. QED BY <4>1, <4>3 DEF Aram!Unused, OutOfQueue, Aram!Levels
    <3>. QED BY <2>2, <3>1, PostSound, NoneIsNoName DEF Aram!FetchPosts
  <2>3. CASE \/ Aram!FetchCalled \/ Aram!FetchWaits \/ Aram!FetchNarrows \/ Aram!FetchSpins
             \/ Aram!FetchReturns
             \/ UNCHANGED Aram!vars
    <3>1. UNCHANGED <<queue, pending, callback, a_req, dma, raised, inCallback, moved, a_told>>
      BY <2>3 DEF Aram!FetchCalled, Aram!FetchWaits, Aram!FetchNarrows, Aram!FetchSpins,
                  Aram!FetchReturns, Aram!Others, Aram!vars,
                  Aram!queueVars
    <3>2. Now' = Now
      BY <3>1 DEF Now, Aram!Queue
    <3>. QED BY <3>1, <3>2 DEF AramInv, Phase
  <2>4. CASE Aram!Completes
    BY <2>4, CompletesSound
  <2>5. CASE Aram!Interrupt
    BY <2>5, InterruptSound
  <2>6. CASE Aram!CallbackReturns
    BY <2>6, ReturnsSound
  <2>. QED BY <2>1, <2>2, <2>3, <2>4, <2>5, <2>6 DEF Aram!Next
<1>2. Sound(Now, moved, a_told, inCallback)'
  BY <1>1 DEF Sound, Places, Waits, Moving, Told, Callbacks, Engine, Whole, Not, Given, Rest,
              InEngine, Foremost, Queues
<1>. QED BY <1>1, <1>2, AramTypeStep, FetchStep DEF AramInv

\* Whatever the chunk is changed to while requests wait, and whoever posts from
\* a callback, a request's callback comes when every unit of it has been moved
\* once (ARQPostRequest, __ARQServiceQueueLo, __ARQInterruptServiceRoutine).
THEOREM AramServed == Aram!Spec => []Aram!RequestsServed
<1>1. Aram!Init => AramInv
  BY AramInit
<1>2. AramInv /\ [Aram!Next]_Aram!vars => AramInv'
  BY AramStep
<1>3. AramInv => Aram!RequestsServed
  <2>. SUFFICES ASSUME AramInv PROVE Aram!RequestsServed
    OBVIOUS
  <2>1. Aram!MovedWhole
    BY DEF AramInv, Sound, Told, Aram!MovedWhole
  <2>2. Aram!OneAtATime
    BY NowIs DEF AramInv, Sound, Engine, Foremost, Aram!OneAtATime
  <2>3. Aram!NoneForgotten
    BY NowIs DEF AramInv, Phase, Idle, Aram!NoneForgotten
  <2>. QED BY <2>1, <2>2, <2>3 DEF Aram!RequestsServed
<1>. QED BY <1>1, <1>2, <1>3, PTL DEF Aram!Spec

-----------------------------------------------------------------------------
(* The mods' callbacks.                                                    *)

Depth == Len(stack)
IsStack == Depth \in Nat /\ stack = [d \in 1 .. Depth |-> stack[d]]

\* A dispatcher, and whose callback it is in.
Dispatcher(f) ==
    /\ f.kind \in Calls!Kinds
    /\ f = [kind |-> f.kind, next |-> f.next, inside |-> f.inside, was |-> f.was,
            wasIn |-> f.wasIn, field |-> f.field, entry |-> f.entry]
    /\ f.inside \in BOOLEAN /\ f.wasIn \in BOOLEAN

\* Whose the game's code is, run at a depth: nobody's, or the callback's that called it,
\* an interrupt's handler or not.
Owner(d) ==
    IF d = 0 THEN Calls!Nobody
    ELSE IF stack[d].kind = "guest" /\ d > 1 THEN Calls!Caller(d - 1)
    ELSE IF d <= 2 THEN Calls!Nobody ELSE Calls!Caller(d - 2)
Rendering(d) == \E e \in 1 .. d : stack[e].kind \in Calls!Renderer

\* A dispatcher is raised by the game's code, and keeps what there was; the game's code
\* is called from a callback; a handler interrupts the game's code.
Nested(d) ==
    \/ /\ Dispatcher(stack[d])
       /\ d = 1 \/ stack[d - 1].kind \in {"guest", "irq"}
       /\ stack[d].was = Owner(d - 1) /\ (stack[d].wasIn <=> Rendering(d - 1))
       /\ stack[d].kind \in Calls!SafeKinds => d = 1
    \/ /\ stack[d].kind = "guest"
       /\ d > 1 /\ stack[d - 1].kind \in Calls!Kinds /\ stack[d].saved = stack[d - 1].entry
    \/ /\ stack[d].kind = "irq"
       /\ d = 1 \/ stack[d - 1].kind = "guest"

CallsInv ==
    /\ IsStack
    /\ \A d \in 1 .. Depth : Nested(d)
    /\ \A d \in 1 .. Depth - 1 : stack[d].kind \in Calls!Kinds => stack[d].inside
    /\ Calls!GameRuns => cur = Owner(Depth)
    /\ Calls!InCallback => cur = Calls!Caller(Depth)
    /\ Calls!Top.kind \in Calls!Kinds => regs = Calls!Top.entry
    /\ inRenderer \in BOOLEAN /\ (inRenderer <=> Rendering(Depth))
    /\ atSafe => stack # <<>> /\ stack[1].kind \in Calls!SafeKinds


LEMMA StackPushed ==
    ASSUME IsStack, NEW x, stack' = Append(stack, x)
    PROVE  /\ IsStack' /\ Depth' = Depth + 1 /\ stack' # <<>>
           /\ \A d \in 1 .. Depth : stack'[d] = stack[d]
           /\ stack'[Depth + 1] = x /\ Calls!Top' = x
<1>. DEFINE S == {stack[d] : d \in 1 .. Depth} \cup {x}
<1>1. stack \in Seq(S) /\ x \in S
  <2>1. \A d \in 1 .. Depth : stack[d] \in S
    OBVIOUS
  <2>2. stack \in [1 .. Depth -> S]
    BY <2>1 DEF IsStack
  <2>. HIDE DEF S
  <2>. QED BY <2>2, SeqDef DEF IsStack, S
<1>. HIDE DEF S
<1>2. /\ stack' \in Seq(S) /\ Len(stack') = Len(stack) + 1
      /\ \A d \in 1 .. Len(stack) : stack'[d] = stack[d]
      /\ stack'[Len(stack) + 1] = x
  BY <1>1, AppendProperties
<1>3. stack' \in [1 .. Len(stack') -> S] /\ Len(stack') \in Nat
  BY <1>2, LenProperties
<1>4. stack' # <<>>
  BY <1>2, EmptySeq DEF IsStack, Depth
<1>. QED BY <1>2, <1>3, <1>4 DEF IsStack, Depth, Calls!Top

LEMMA StackPopped ==
    ASSUME IsStack, stack # <<>>, stack' = Calls!Pop
    PROVE  /\ IsStack' /\ Depth' = Depth - 1 /\ Depth \in Nat \ {0}
           /\ \A d \in 1 .. Depth - 1 : stack'[d] = stack[d]
           /\ stack' = <<>> <=> Depth = 1
           /\ Depth # 1 => Calls!Top' = stack[Depth - 1]
<1>. DEFINE S == {stack[d] : d \in 1 .. Depth}
<1>1. stack \in Seq(S)
  <2>1. \A d \in 1 .. Depth : stack[d] \in S
    OBVIOUS
  <2>2. stack \in [1 .. Depth -> S]
    BY <2>1 DEF IsStack
  <2>. HIDE DEF S
  <2>. QED BY <2>2, SeqDef DEF IsStack
<1>. HIDE DEF S
<1>2. Len(stack) \in Nat \ {0}
  BY <1>1, EmptySeq, LenProperties
<1>3. /\ stack' \in Seq(S) /\ Len(stack') = Len(stack) - 1
      /\ \A d \in 1 .. Len(stack) - 1 : stack'[d] = stack[d]
  <2>1. Len(stack) - 1 \in 0 .. Len(stack) /\ 1 \in 1 .. Len(stack) + 1
    BY <1>2
  <2>. DEFINE n == Len(stack) - 1
  <2>2. stack' = SubSeq(stack, 1, n) /\ n \in Nat
    BY <1>2 DEF Calls!Pop
  <2>3. \A i \in 1 .. n : stack[i] \in S
    BY <1>1, <1>2, LenProperties
  <2>. HIDE DEF n
  <2>4. /\ stack' \in Seq(S) /\ Len(stack') = IF 1 <= n THEN n - 1 + 1 ELSE 0
        /\ \A i \in 1 .. n - 1 + 1 : stack'[i] = stack[1 + i - 1]
    BY <2>2, <2>3, SubSeqProperties
  <2>5. n - 1 + 1 = n /\ \A i \in 1 .. n : 1 + i - 1 = i
    BY <2>2
  <2>6. stack' \in Seq(S) /\ Len(stack') = n /\ \A i \in 1 .. n : stack'[i] = stack[i]
    BY <2>2, <2>4, <2>5
  <2>. QED BY <2>6 DEF n
<1>4. stack' \in [1 .. Len(stack') -> S] /\ Len(stack') \in Nat
  BY <1>3, LenProperties
<1>5. stack' = <<>> <=> Len(stack) = 1
  BY <1>2, <1>3, EmptySeq
<1>. QED BY <1>2, <1>3, <1>4, <1>5 DEF IsStack, Depth, Calls!Top

LEMMA StackReplaced ==
    ASSUME IsStack, stack # <<>>, NEW x, stack' = Calls!Under(x)
    PROVE  /\ IsStack' /\ Depth' = Depth /\ Depth \in Nat \ {0} /\ stack' # <<>>
           /\ \A d \in 1 .. Depth - 1 : stack'[d] = stack[d]
           /\ stack'[Depth] = x /\ Calls!Top' = x
<1>. DEFINE S == {stack[d] : d \in 1 .. Depth} \cup {x}
<1>1. stack \in Seq(S) /\ x \in S
  <2>1. \A d \in 1 .. Depth : stack[d] \in S
    OBVIOUS
  <2>2. stack \in [1 .. Depth -> S]
    BY <2>1 DEF IsStack
  <2>. HIDE DEF S
  <2>. QED BY <2>2, SeqDef DEF IsStack, S
<1>. HIDE DEF S
<1>2. Len(stack) \in Nat \ {0}
  BY <1>1, EmptySeq, LenProperties
<1>3. /\ stack' \in Seq(S) /\ Len(stack') = Len(stack)
      /\ \A d \in 1 .. Len(stack) : stack'[d] = IF d = Len(stack) THEN x ELSE stack[d]
  BY <1>1, <1>2, ExceptSeq DEF Calls!Under
<1>4. stack' \in [1 .. Len(stack') -> S]
  BY <1>3, LenProperties
<1>5. stack' # <<>>
  BY <1>2, <1>3, EmptySeq
<1>. QED BY <1>2, <1>3, <1>4, <1>5 DEF IsStack, Depth, Calls!Top

LEMMA TopIs ==
    ASSUME IsStack
    PROVE  IF stack = <<>> THEN Depth = 0 /\ Calls!Top = Calls!Main
           ELSE Depth \in Nat \ {0} /\ Calls!Top = stack[Depth]
<1>. DEFINE S == {stack[d] : d \in 1 .. Depth}
<1>1. stack \in Seq(S)
  <2>1. \A d \in 1 .. Depth : stack[d] \in S
    OBVIOUS
  <2>2. stack \in [1 .. Depth -> S]
    BY <2>1 DEF IsStack
  <2>. HIDE DEF S
  <2>. QED BY <2>2, SeqDef DEF IsStack
<1>. HIDE DEF S
<1>. QED BY <1>1, EmptySeq, LenProperties DEF Depth, Calls!Top

\* What depends on the stack up to a depth stays while that much of it does.
LEMMA Below ==
    ASSUME IsStack, IsStack', NEW k \in 0 .. Depth, k <= Depth',
           \A d \in 1 .. k : stack'[d] = stack[d]
    PROVE  /\ \A d \in 1 .. k : Calls!Caller(d)' = Calls!Caller(d)
           /\ \A d \in 0 .. k : Owner(d)' = Owner(d) /\ (Rendering(d)' <=> Rendering(d))
           /\ \A d \in 1 .. k : Nested(d) => Nested(d)'
<1>1. k \in Nat
  BY DEF IsStack
<1>2. \A d \in 1 .. k : Calls!Caller(d)' = Calls!Caller(d)
  BY DEF Calls!Caller
<1>3. \A d \in 0 .. k : Rendering(d)' <=> Rendering(d)
  BY <1>1 DEF Rendering
<1>4. \A d \in 0 .. k : Owner(d)' = Owner(d)
  <2>. TAKE d \in 0 .. k
  <2>1. CASE d = 0
    BY <2>1 DEF Owner
  <2>2. CASE d # 0 /\ stack[d].kind = "guest" /\ d > 1
    <3>1. d - 1 \in 1 .. k /\ stack'[d] = stack[d]
      BY <1>1, <2>2
    <3>. QED BY <1>1, <1>2, <2>2, <3>1 DEF Owner
  <2>3. CASE d # 0 /\ ~(stack[d].kind = "guest" /\ d > 1) /\ d <= 2
    <3>1. stack'[d] = stack[d]
      BY <1>1, <2>3
    <3>. QED BY <1>1, <2>3, <3>1 DEF Owner
  <2>4. CASE d > 2 /\ stack[d].kind # "guest"
    <3>1. d - 2 \in 1 .. k /\ stack'[d] = stack[d]
      BY <1>1, <2>4
    <3>. QED BY <1>1, <1>2, <2>4, <3>1 DEF Owner
  <2>. QED BY <1>1, <2>1, <2>2, <2>3, <2>4
<1>5. ASSUME NEW d \in 1 .. k, Nested(d) PROVE Nested(d)'
  <2>1. stack'[d] = stack[d] /\ d - 1 \in 0 .. k /\ (d > 1 => d - 1 \in 1 .. k)
    BY <1>1
  <2>2. d > 1 => stack'[d - 1] = stack[d - 1]
    BY <2>1
  <2>3. Owner(d - 1)' = Owner(d - 1) /\ (Rendering(d - 1)' <=> Rendering(d - 1))
    BY <1>3, <1>4, <2>1
  <2>4. Dispatcher(stack[d])' <=> Dispatcher(stack[d])
    BY <2>1 DEF Dispatcher
  <2>. HIDE DEF Owner, Rendering, Dispatcher
  <2>5. d = 1 \/ d > 1
    BY <1>1
  <2>. QED BY <1>5, <2>1, <2>2, <2>3, <2>4, <2>5 DEF Nested
<1>. QED BY <1>2, <1>3, <1>4, <1>5

-----------------------------------------------------------------------------
(* The steps. *)

\* A dispatcher's own step leaves the rest of the stack as it was.
LEMMA OwnStep ==
    ASSUME CallsInv, Calls!Top.kind \in Calls!Kinds, NEW x, stack' = Calls!Under(x),
           x.kind \in Calls!Kinds, Dispatcher(x), x.was = Calls!Top.was,
           x.wasIn = Calls!Top.wasIn, x.entry = Calls!Top.entry,
           x.kind \in Calls!SafeKinds <=> Calls!Top.kind \in Calls!SafeKinds,
           x.kind \in Calls!Renderer <=> Calls!Top.kind \in Calls!Renderer,
           Calls!InCallback' => cur' = Calls!Caller(Depth)',
           UNCHANGED <<atSafe, inRenderer, regs>>
    PROVE  CallsInv'
<1>1. stack # <<>> /\ Depth \in Nat \ {0} /\ Calls!Top = stack[Depth]
  BY TopIs DEF CallsInv, Calls!Main, Calls!Kinds, Calls!SafeKinds, Calls!Events
<1>0. PICK n \in Nat \ {0} : n = Depth
  BY <1>1
<1>. USE <1>0
<1>2. /\ IsStack' /\ n = Depth' /\ stack' # <<>>
      /\ \A d \in 1 .. n - 1 : stack'[d] = stack[d]
      /\ stack'[n] = x /\ Calls!Top' = x
  BY <1>1, StackReplaced DEF CallsInv
<1>3. /\ \A d \in 1 .. n - 1 : Calls!Caller(d)' = Calls!Caller(d)
      /\ \A d \in 0 .. n - 1 : Owner(d)' = Owner(d) /\ (Rendering(d)' <=> Rendering(d))
      /\ \A d \in 1 .. n - 1 : Nested(d) => Nested(d)'
  <2>1. n - 1 \in 0 .. Depth /\ n - 1 <= Depth'
    BY <1>2
  <2>. QED BY <1>2, <2>1, Below DEF CallsInv
<1>4. Nested(n)'
  <2>1. Nested(n) /\ stack[n].kind \notin {"guest", "irq"} /\ Calls!Top = stack[n]
    BY <1>1 DEF CallsInv, Calls!Kinds, Calls!SafeKinds, Calls!Events
  <2>2. Owner(n - 1)' = Owner(n - 1) /\ (Rendering(n - 1)' <=> Rendering(n - 1))
    BY <1>3
  <2>3. n = 1 \/ stack'[n - 1] = stack[n - 1]
    <3>1. n = 1 \/ n - 1 \in 1 .. n - 1
      OBVIOUS
    <3>. QED BY <1>2, <3>1
  <2>4. stack'[n] = x /\ Dispatcher(x)
    BY <1>2
  <2>5. Dispatcher(stack[n])' <=> Dispatcher(x)
    BY <1>2 DEF Dispatcher
  <2>. HIDE DEF Owner, Rendering, Dispatcher, Calls!SafeKinds, Calls!Renderer
  <2>. QED BY <2>1, <2>2, <2>3, <2>4, <2>5 DEF Nested
<1>5. \A d \in 1 .. Depth' : Nested(d)'
  <2>1. \A d \in 1 .. n : d \in 1 .. n - 1 \/ d = n
    OBVIOUS
  <2>. QED BY <1>2, <1>3, <1>4, <2>1 DEF CallsInv
<1>6. \A d \in 1 .. Depth' - 1 : stack'[d].kind \in Calls!Kinds => stack'[d].inside
  BY <1>2 DEF CallsInv
<1>7. ~Calls!GameRuns'
  BY <1>2 DEF Calls!GameRuns, Calls!Kinds, Calls!SafeKinds, Calls!Events
<1>8. Rendering(n)' <=> Rendering(n)
  <2>1. \A m \in {n} : (\E e \in 1 .. m : stack[e].kind \in Calls!Renderer)
                   <=> \/ \E e \in 1 .. m - 1 : stack[e].kind \in Calls!Renderer
                       \/ stack[m].kind \in Calls!Renderer
    OBVIOUS
  <2>2. \A m \in {n} : (\E e \in 1 .. m : stack'[e].kind \in Calls!Renderer)
                   <=> \/ \E e \in 1 .. m - 1 : stack'[e].kind \in Calls!Renderer
                       \/ stack'[m].kind \in Calls!Renderer
    OBVIOUS
  <2>. HIDE DEF Calls!Renderer
  <2>. QED BY <1>1, <1>2, <2>1, <2>2 DEF Rendering
<1>9. atSafe => stack'[1].kind \in Calls!SafeKinds
  <2>1. n = 1 \/ 1 \in 1 .. n - 1
    OBVIOUS
  <2>. HIDE DEF Calls!SafeKinds
  <2>. QED BY <1>1, <1>2, <2>1 DEF CallsInv
<1>. QED BY <1>1, <1>2, <1>5, <1>6, <1>7, <1>8, <1>9 DEF CallsInv

\* Code is entered above what runs, which is the game's or, by a callback, is to be.
LEMMA Entering ==
    ASSUME CallsInv, NEW x, stack' = Append(stack, x),
           \/ x.kind \in Calls!Kinds /\ Dispatcher(x) /\ x.was = cur /\ x.wasIn = inRenderer
              /\ Calls!GameRuns
              /\ (x.kind \in Calls!SafeKinds => stack = <<>>)
              /\ ~x.inside
              /\ x.entry = regs
           \/ x.kind = "guest" /\ Calls!InCallback /\ x.saved = regs
           \/ x.kind = "irq" /\ Calls!GameRuns /\ ~Calls!Handler,
           UNCHANGED <<cur, regs>>,
           inRenderer' = (inRenderer \/ x.kind \in Calls!Renderer),
           atSafe' => atSafe \/ x.kind \in Calls!SafeKinds
    PROVE  CallsInv'
<1>1. IF stack = <<>> THEN Depth = 0 /\ Calls!Top = Calls!Main
      ELSE Depth \in Nat \ {0} /\ Calls!Top = stack[Depth]
  BY TopIs DEF CallsInv
<1>0. PICK n \in Nat \ {0} : n = Depth + 1
  BY <1>1
<1>. USE <1>0
<1>2. /\ IsStack' /\ Depth' = n /\ stack' # <<>>
      /\ \A d \in 1 .. n - 1 : stack'[d] = stack[d]
      /\ stack'[n] = x /\ Calls!Top' = x
  <2>1. n - 1 = Depth
    BY <1>1
  <2>. QED BY <2>1, StackPushed DEF CallsInv
<1>3. /\ \A d \in 1 .. n - 1 : Calls!Caller(d)' = Calls!Caller(d)
      /\ \A d \in 0 .. n - 1 : Owner(d)' = Owner(d) /\ (Rendering(d)' <=> Rendering(d))
      /\ \A d \in 1 .. n - 1 : Nested(d) => Nested(d)'
  <2>1. n - 1 \in 0 .. Depth /\ n - 1 <= Depth'
    BY <1>1, <1>2
  <2>. QED BY <1>2, <2>1, Below DEF CallsInv
<1>4. n - 1 = Depth /\ (n = 1 <=> stack = <<>>)
  BY <1>1
<1>5. n # 1 => /\ Calls!Top = stack[n - 1] /\ stack'[n - 1] = stack[n - 1] /\ n - 1 \in 1 .. n - 1
               /\ Nested(n - 1)
  <2>1. n # 1 => n - 1 \in 1 .. n - 1
    OBVIOUS
  <2>. QED BY <1>1, <1>2, <1>4, <2>1 DEF CallsInv
<1>6. Dispatcher(stack[n])' <=> Dispatcher(x)
  BY <1>2 DEF Dispatcher
<1>7. /\ Nested(n)' /\ (n # 1 /\ stack[n - 1].kind \in Calls!Kinds => stack[n - 1].inside)
      /\ (x.kind \in {"guest", "irq"} => cur = Owner(n)')
      /\ (x.kind \in Calls!Kinds => ~x.inside /\ regs = x.entry)
  <2>1. CASE x.kind \in Calls!Kinds
    <3>1. Calls!GameRuns /\ cur = Owner(n - 1) /\ ~x.inside /\ x.kind \notin {"guest", "irq"}
      BY <1>4, <2>1 DEF CallsInv, Calls!Kinds, Calls!SafeKinds, Calls!Events
    <3>2. n = 1 \/ stack[n - 1].kind \in {"guest", "irq"}
      BY <1>5, <3>1 DEF Calls!GameRuns, Nested, Dispatcher, Calls!Kinds, Calls!SafeKinds,
                        Calls!Events
    <3>3. x.was = Owner(n - 1) /\ (x.wasIn <=> Rendering(n - 1)) /\ Dispatcher(x) /\ x.entry = regs
      BY <1>4, <2>1, <3>1 DEF CallsInv
    <3>4. x.kind \in Calls!SafeKinds => n = 1
      BY <1>4, <2>1, <3>1
    <3>5. /\ Owner(n - 1)' = Owner(n - 1) /\ (Rendering(n - 1)' <=> Rendering(n - 1))
          /\ n # 1 => stack'[n - 1].kind \in {"guest", "irq"}
      <4>1. n - 1 \in 0 .. n - 1
        OBVIOUS
      <4>. QED BY <1>3, <1>5, <3>2, <4>1
    <3>6. Nested(n)'
      <4>. HIDE DEF Calls!SafeKinds, Calls!Kinds, Owner, Rendering, Dispatcher
      <4>. QED BY <1>2, <1>6, <3>3, <3>4, <3>5 DEF Nested
    <3>7. n # 1 => stack[n - 1].kind \notin Calls!Kinds
      BY <3>2 DEF Calls!Kinds, Calls!SafeKinds, Calls!Events
    <3>. QED BY <3>1, <3>3, <3>6, <3>7
  <2>2. CASE x.kind = "guest"
    <3>1. Calls!InCallback /\ x.saved = regs
      BY <2>2 DEF Calls!Kinds, Calls!SafeKinds, Calls!Events
    <3>2. /\ n # 1
          /\ stack[n - 1].kind \in Calls!Kinds
          /\ stack[n - 1].inside
          /\ regs = stack[n - 1].entry
      BY <1>1, <1>4, <1>5, <3>1 DEF Calls!InCallback, Calls!Main, CallsInv, Calls!Kinds,
                                    Calls!SafeKinds, Calls!Events
    <3>3. Nested(n)'
      <4>1. n > 1
        BY <3>2
      <4>. HIDE DEF Calls!Kinds
      <4>. QED BY <1>2, <1>5, <2>2, <3>1, <3>2, <4>1 DEF Nested
    <3>4. cur = Owner(n)'
      <4>1. cur = Calls!Caller(n - 1) /\ Calls!Caller(n - 1)' = Calls!Caller(n - 1)
        BY <1>3, <1>4, <1>5, <3>1, <3>2 DEF CallsInv
      <4>2. n > 1 /\ n # 0 /\ stack'[n].kind = "guest"
        BY <1>2, <2>2, <3>2
      <4>. QED BY <4>1, <4>2 DEF Owner
    <3>. QED BY <2>2, <3>2, <3>3, <3>4 DEF Calls!Kinds, Calls!SafeKinds, Calls!Events
  <2>3. CASE x.kind = "irq"
    <3>1. Calls!GameRuns /\ ~Calls!Handler /\ cur = Owner(n - 1)
      BY <1>4, <2>3 DEF CallsInv, Calls!Kinds, Calls!SafeKinds, Calls!Events
    <3>2. n = 1 \/ stack[n - 1].kind = "guest"
      <4>1. n # 1 => stack[n - 1].kind # "irq"
        BY <1>4, <1>5, <3>1 DEF Calls!Handler, CallsInv, IsStack
      <4>. QED BY <1>5, <3>1, <4>1 DEF Calls!GameRuns, Nested, Dispatcher, Calls!Kinds,
                                       Calls!SafeKinds, Calls!Events
    <3>3. Nested(n)'
      BY <1>2, <1>5, <2>3, <3>2 DEF Nested
    <3>4. cur = Owner(n)'
      <4>1. stack'[n].kind # "guest"
        BY <1>2, <2>3
      <4>2. CASE n = 1
        BY <3>1, <4>1, <4>2 DEF Owner
      <4>3. CASE n # 1
        <5>1. n - 1 > 1 /\ n > 2 /\ n - 2 \in 1 .. n - 1 /\ (n - 1) - 1 = n - 2
          BY <1>5, <3>2, <4>3 DEF Nested, Dispatcher, Calls!Kinds, Calls!SafeKinds, Calls!Events
        <5>2. cur = Calls!Caller(n - 2) /\ Calls!Caller(n - 2)' = Calls!Caller(n - 2)
          BY <1>3, <3>1, <3>2, <4>3, <5>1 DEF Owner
        <5>3. n # 0 /\ ~(n <= 2)
          BY <5>1
        <5>. HIDE DEF Calls!Caller
        <5>. QED BY <4>1, <5>2, <5>3 DEF Owner
      <4>. QED BY <4>2, <4>3
    <3>. QED BY <2>3, <3>2, <3>3, <3>4 DEF Calls!Kinds, Calls!SafeKinds, Calls!Events
  <2>. QED BY <2>1, <2>2, <2>3
<1>8. \A d \in 1 .. Depth' : Nested(d)'
  <2>1. \A d \in 1 .. n : d \in 1 .. n - 1 \/ d = n
    OBVIOUS
  <2>. QED BY <1>2, <1>3, <1>4, <1>7, <2>1 DEF CallsInv
<1>9. \A d \in 1 .. Depth' - 1 : stack'[d].kind \in Calls!Kinds => stack'[d].inside
  <2>1. \A d \in 1 .. n - 1 : d \in 1 .. Depth - 1 \/ d = n - 1
    BY <1>4
  <2>2. \A d \in 1 .. n - 1 : n # 1
    OBVIOUS
  <2>. HIDE DEF Calls!Kinds
  <2>3. \A d \in 1 .. Depth - 1 : stack[d].kind \in Calls!Kinds => stack[d].inside
    BY DEF CallsInv
  <2>. QED BY <1>2, <1>5, <1>7, <2>1, <2>2, <2>3
<1>10. Rendering(n)' <=> inRenderer'
  <2>1. /\ \A e \in 1 .. n : e \in 1 .. n - 1 \/ e = n
        /\ n \in 1 .. n /\ \A e \in 1 .. n - 1 : e \in 1 .. n
    OBVIOUS
  <2>. HIDE DEF Calls!Renderer
  <2>2. Rendering(n)' <=> Rendering(n - 1) \/ x.kind \in Calls!Renderer
    BY <1>2, <2>1 DEF Rendering
  <2>. QED BY <1>4, <2>2 DEF CallsInv
<1>11. atSafe' => stack'[1].kind \in Calls!SafeKinds
  <2>1. n = 1 \/ 1 \in 1 .. n - 1
    OBVIOUS
  <2>2. atSafe => n # 1 /\ stack[1].kind \in Calls!SafeKinds
    BY <1>4 DEF CallsInv
  <2>3. x.kind \in Calls!SafeKinds => n = 1
    BY <1>4 DEF Calls!SafeKinds
  <2>. HIDE DEF Calls!SafeKinds
  <2>. QED BY <1>2, <2>1, <2>2, <2>3
<1>12. /\ Calls!GameRuns' => cur' = Owner(Depth)' /\ inRenderer' \in BOOLEAN
       /\ ~Calls!InCallback'
       /\ Calls!Top'.kind \in Calls!Kinds => regs' = Calls!Top'.entry
  BY <1>2, <1>7 DEF Calls!GameRuns, Calls!InCallback, CallsInv, Calls!Kinds, Calls!SafeKinds,
                    Calls!Events
<1>. QED BY <1>2, <1>8, <1>9, <1>10, <1>11, <1>12 DEF CallsInv

\* What returns puts back what it found.
LEMMA Leaving ==
    ASSUME CallsInv, stack # <<>>, stack' = Calls!Pop,
           \/ Calls!Top.kind = "irq" /\ UNCHANGED <<cur, inRenderer, atSafe>>
           \/ /\ Calls!Top.kind = "guest" /\ UNCHANGED <<cur, inRenderer, atSafe>>
              /\ regs' = Calls!Top.saved
           \/ /\ Calls!Top.kind \in Calls!Kinds \ Calls!SafeKinds
              /\ cur' = Calls!Top.was /\ inRenderer' = Calls!Top.wasIn
              /\ UNCHANGED <<atSafe, regs>>
           \/ Calls!Top.kind = "map" /\ cur' = Calls!Nobody /\ ~atSafe' /\ UNCHANGED inRenderer
    PROVE  CallsInv'
<1>1. Depth \in Nat \ {0} /\ Calls!Top = stack[Depth]
  BY TopIs DEF CallsInv
<1>0. PICK n \in Nat \ {0} : n = Depth
  BY <1>1
<1>. USE <1>0
<1>2. /\ IsStack' /\ Depth' = n - 1
      /\ \A d \in 1 .. n - 1 : stack'[d] = stack[d]
      /\ stack' = <<>> <=> n = 1
      /\ n # 1 => Calls!Top' = stack[n - 1]
  BY StackPopped DEF CallsInv
<1>3. /\ \A d \in 1 .. n - 1 : Calls!Caller(d)' = Calls!Caller(d)
      /\ \A d \in 0 .. n - 1 : Owner(d)' = Owner(d) /\ (Rendering(d)' <=> Rendering(d))
      /\ \A d \in 1 .. n - 1 : Nested(d) => Nested(d)'
  <2>1. n - 1 \in 0 .. Depth /\ n - 1 <= Depth'
    BY <1>2
  <2>. QED BY <1>2, <2>1, Below DEF CallsInv
<1>4. Nested(n) /\ Calls!Top = stack[n]
  <2>1. n \in 1 .. n
    OBVIOUS
  <2>. QED BY <1>1, <2>1 DEF CallsInv
<1>5. n # 1 => /\ Nested(n - 1) /\ (stack[n - 1].kind \in Calls!Kinds => stack[n - 1].inside)
               /\ n - 1 \in 1 .. n - 1
  <2>1. n # 1 => n - 1 \in 1 .. n - 1 /\ n - 1 \in 1 .. n
    OBVIOUS
  <2>. HIDE DEF Calls!Kinds, Nested
  <2>. QED BY <2>1 DEF CallsInv
<1>6. n - 1 \in 0 .. n - 1
  OBVIOUS
<1>7. \A d \in 1 .. Depth' : Nested(d)'
  <2>1. \A d \in 1 .. n - 1 : d \in 1 .. n
    OBVIOUS
  <2>. QED BY <1>2, <1>3, <2>1 DEF CallsInv
<1>8. \A d \in 1 .. Depth' - 1 : stack'[d].kind \in Calls!Kinds => stack'[d].inside
  <2>1. \A d \in 1 .. n - 1 - 1 : d \in 1 .. n - 1
    OBVIOUS
  <2>. HIDE DEF Calls!Kinds
  <2>. QED BY <1>2, <2>1 DEF CallsInv
<1>9. inRenderer' \in BOOLEAN /\ (inRenderer' <=> Rendering(n - 1)')
  <2>1. /\ \A e \in 1 .. n : e \in 1 .. n - 1 \/ e = n
        /\ n \in 1 .. n /\ \A e \in 1 .. n - 1 : e \in 1 .. n
    OBVIOUS
  <2>2. Rendering(n) <=> Rendering(n - 1) \/ Calls!Top.kind \in Calls!Renderer
    <3>. HIDE DEF Calls!Renderer
    <3>. QED BY <1>4, <2>1 DEF Rendering
  <2>3. Calls!Top.kind \in Calls!Kinds \ Calls!SafeKinds
           => Calls!Top.wasIn \in BOOLEAN /\ (Calls!Top.wasIn <=> Rendering(n - 1))
    BY <1>4 DEF Nested, Dispatcher, Calls!Kinds, Calls!SafeKinds, Calls!Events
  <2>. QED BY <1>3, <1>6, <2>2, <2>3 DEF CallsInv, Calls!Renderer, Calls!Kinds, Calls!SafeKinds,
                                         Calls!Events
<1>10. atSafe' => n # 1 /\ stack'[1].kind \in Calls!SafeKinds
  <2>1. n = 1 \/ 1 \in 1 .. n - 1
    OBVIOUS
  <2>2. atSafe => stack[1].kind \in Calls!SafeKinds
    BY DEF CallsInv
  <2>3. n = 1 => ~atSafe'
    BY <1>4, <2>2 DEF Calls!Kinds, Calls!SafeKinds, Calls!Events
  <2>4. atSafe' => atSafe
    OBVIOUS
  <2>. HIDE DEF Calls!SafeKinds
  <2>. QED BY <1>2, <2>1, <2>2, <2>3, <2>4
<1>11. Calls!Top.kind \notin Calls!Kinds => cur = Owner(n)
  BY <1>4 DEF CallsInv, Calls!GameRuns, Nested, Dispatcher
<1>12. CASE n = 1
  <2>1. cur' = Calls!Nobody
    <3>1. CASE Calls!Top.kind \in {"irq", "guest"}
      BY <1>4, <1>11, <1>12, <3>1 DEF Owner, Nested, Dispatcher, Calls!Kinds, Calls!SafeKinds,
                                      Calls!Events
    <3>2. CASE Calls!Top.kind \in Calls!Kinds \ Calls!SafeKinds
      BY <1>4, <1>12, <3>2 DEF Owner, Nested, Calls!Kinds, Calls!SafeKinds, Calls!Events
    <3>. QED BY <3>1, <3>2
  <2>2. Calls!Top' = Calls!Main /\ stack' = <<>>
    BY <1>2, <1>12 DEF Calls!Top
  <2>3. Owner(0)' = Calls!Nobody /\ Depth' = 0
    BY <1>2, <1>12 DEF Owner
  <2>. QED BY <1>2, <1>7, <1>8, <1>9, <1>10, <1>12, <2>1, <2>2, <2>3
           DEF CallsInv, Calls!GameRuns, Calls!InCallback, Calls!Main, Calls!Kinds,
               Calls!SafeKinds, Calls!Events
<1>13. CASE n # 1 /\ stack[n - 1].kind \in Calls!Kinds
  <2>1. Calls!Top.kind = "guest"
    BY <1>4, <1>13 DEF Nested, Calls!Kinds, Calls!SafeKinds, Calls!Events
  <2>2. cur' = Calls!Caller(n - 1)' /\ regs' = stack[n - 1].entry
    <3>1. n > 1 /\ n # 0
      BY <1>13
    <3>2. cur = Calls!Caller(n - 1) /\ Calls!Top.saved = stack[n - 1].entry
      BY <1>4, <1>11, <2>1, <3>1 DEF Owner, Nested, Dispatcher, Calls!Kinds, Calls!SafeKinds,
                                     Calls!Events
    <3>. QED BY <1>3, <1>5, <1>13, <2>1, <3>2 DEF Calls!Kinds, Calls!SafeKinds, Calls!Events
  <2>. QED BY <1>2, <1>5, <1>7, <1>8, <1>9, <1>10, <1>13, <2>2
           DEF CallsInv, Calls!GameRuns, Calls!InCallback, Calls!Kinds, Calls!SafeKinds,
               Calls!Events
<1>14. CASE n # 1 /\ stack[n - 1].kind \notin Calls!Kinds
  <2>1. cur' = Owner(n - 1)
    <3>1. CASE Calls!Top.kind = "irq"
      <4>1. stack[n - 1].kind = "guest" /\ n - 1 > 1 /\ (n - 1) - 1 = n - 2
        BY <1>4, <1>5, <1>14, <3>1 DEF Nested, Dispatcher, Calls!Kinds, Calls!SafeKinds,
                                       Calls!Events
      <4>2. n # 0 /\ ~(n <= 2) /\ n - 1 # 0 /\ stack[n].kind # "guest"
        BY <1>4, <3>1, <4>1
      <4>3. Owner(n) = Calls!Caller(n - 2) /\ Owner(n - 1) = Calls!Caller(n - 2)
        <5>. HIDE DEF Calls!Caller
        <5>. QED BY <4>1, <4>2 DEF Owner
      <4>. QED BY <1>11, <3>1, <4>3 DEF Calls!Kinds, Calls!SafeKinds, Calls!Events
    <3>2. CASE Calls!Top.kind = "guest"
      BY <1>4, <1>14, <3>2 DEF Nested, Dispatcher, Calls!Kinds, Calls!SafeKinds, Calls!Events
    <3>3. CASE Calls!Top.kind \in Calls!Kinds \ Calls!SafeKinds
      BY <1>4, <3>3 DEF Nested, Calls!Kinds, Calls!SafeKinds, Calls!Events
    <3>4. CASE Calls!Top.kind = "map"
      BY <1>4, <1>14, <3>4 DEF Nested, Calls!Kinds, Calls!SafeKinds, Calls!Events
    <3>. QED BY <3>1, <3>2, <3>3, <3>4
  <2>2. cur' = Owner(n - 1)'
    BY <1>3, <1>6, <2>1
  <2>. QED BY <1>2, <1>7, <1>8, <1>9, <1>10, <1>14, <2>2 DEF CallsInv, Calls!GameRuns,
              Calls!InCallback
<1>. QED BY <1>12, <1>13, <1>14

\* What the code at the top does leaves the stack alone.
LEMMA Working ==
    ASSUME CallsInv, UNCHANGED <<stack, cur, atSafe, inRenderer>>,
           regs' = regs \/ Calls!GameRuns
    PROVE  CallsInv'
<1>1. /\ IsStack'
      /\ Depth' = Depth
      /\ Calls!Top' = Calls!Top
      /\ (Calls!GameRuns' <=> Calls!GameRuns)
      /\ (Calls!InCallback' <=> Calls!InCallback)
  BY DEF CallsInv, IsStack, Depth, Calls!Top, Calls!GameRuns, Calls!InCallback
<1>2. \A d : (Nested(d)' <=> Nested(d)) /\ Owner(d)' = Owner(d) /\ (Rendering(d)' <=> Rendering(d))
             /\ Calls!Caller(d)' = Calls!Caller(d)
  BY DEF Nested, Owner, Rendering, Calls!Caller, Dispatcher
<1>3. Calls!Top.kind \in Calls!Kinds => ~Calls!GameRuns
  BY DEF Calls!GameRuns, Calls!Kinds, Calls!SafeKinds, Calls!Events
<1>. QED BY <1>1, <1>2, <1>3 DEF CallsInv

\* A dispatcher moved to another of its kinds, its callback over.
Redirected(f, k, i) == [[[f EXCEPT !.kind = k] EXCEPT !.next = i] EXCEPT !.inside = FALSE]

LEMMA RedirectedKeeps ==
    ASSUME NEW f, Dispatcher(f), NEW k \in Calls!Kinds, NEW i
    PROVE  /\ Dispatcher(Redirected(f, k, i)) /\ Redirected(f, k, i).kind = k
           /\ Redirected(f, k, i).next = i /\ ~Redirected(f, k, i).inside
           /\ Redirected(f, k, i).was = f.was /\ Redirected(f, k, i).wasIn = f.wasIn
           /\ Redirected(f, k, i).entry = f.entry
<1>. DEFINE fr(a, c, e) == [kind |-> a, next |-> c, inside |-> e, was |-> f.was,
                            wasIn |-> f.wasIn, field |-> f.field, entry |-> f.entry]
            z == [f EXCEPT !.kind = k]
            y == [z EXCEPT !.next = i]
<1>b. PICK b : b = FALSE
  OBVIOUS
<1>. DEFINE x == [y EXCEPT !.inside = b]
<1>1. f = fr(f.kind, f.next, f.inside)
  BY DEF Dispatcher
<1>2. z = fr(k, f.next, f.inside)
  BY <1>1
<1>. HIDE DEF z
<1>3. y = fr(k, i, f.inside)
  BY <1>2
<1>. HIDE DEF y
<1>4. x = fr(k, i, b)
  BY <1>3
<1>5. x = Redirected(f, k, i)
  BY <1>b DEF Redirected, x, y, z
<1>. HIDE DEF x
<1>6. /\ x.kind = k /\ x.next = i /\ x.inside = b
      /\ x.was = f.was /\ x.wasIn = f.wasIn /\ x.entry = f.entry /\ x.field = f.field
  BY <1>4
<1>7. Dispatcher(x) /\ ~x.inside
  <2>1. b \in BOOLEAN /\ ~b
    BY <1>b
  <2>. HIDE <1>b
  <2>. QED BY <1>4, <1>6, <2>1 DEF Dispatcher
<1>. QED BY <1>5, <1>6, <1>7

\* A dispatcher that calls its callback.
Started(f) == [f EXCEPT !.inside = TRUE]

LEMMA StartedKeeps ==
    ASSUME NEW f, Dispatcher(f)
    PROVE  /\ Dispatcher(Started(f)) /\ Started(f).kind = f.kind /\ Started(f).next = f.next
           /\ Started(f).was = f.was /\ Started(f).wasIn = f.wasIn /\ Started(f).entry = f.entry
<1>. DEFINE fr(e) == [kind |-> f.kind, next |-> f.next, inside |-> e, was |-> f.was,
                      wasIn |-> f.wasIn, field |-> f.field, entry |-> f.entry]
<1>b. PICK b : b = TRUE
  OBVIOUS
<1>. DEFINE x == [f EXCEPT !.inside = b]
<1>1. f = fr(f.inside)
  BY DEF Dispatcher
<1>2. x = fr(b)
  BY <1>1
<1>3. x = Started(f)
  BY <1>b DEF Started
<1>. HIDE DEF x
<1>4. /\ x.kind = f.kind /\ x.next = f.next /\ x.inside = b
      /\ x.was = f.was /\ x.wasIn = f.wasIn /\ x.entry = f.entry /\ x.field = f.field
  BY <1>2
<1>5. Dispatcher(x)
  <2>1. b \in BOOLEAN
    BY <1>b
  <2>. HIDE <1>b
  <2>. QED BY <1>2, <1>4, <2>1 DEF Dispatcher
<1>. QED BY <1>3, <1>4, <1>5

LEMMA CallsInit == Calls!Init => CallsInv
<1>. SUFFICES ASSUME Calls!Init PROVE CallsInv
  OBVIOUS
<1>1. Depth = 0 /\ stack = [d \in 1 .. 0 |-> stack[d]] /\ Calls!Top = Calls!Main
  BY DEF Calls!Init, Depth, Calls!Top
<1>2. IsStack
  BY <1>1 DEF IsStack
<1>3. Calls!GameRuns /\ ~Calls!InCallback /\ Calls!Top.kind \notin Calls!Kinds
  BY <1>1 DEF Calls!GameRuns, Calls!InCallback, Calls!Main, Calls!Kinds, Calls!SafeKinds,
              Calls!Events
<1>4. cur = Owner(Depth) /\ ~inRenderer /\ ~Rendering(Depth) /\ ~atSafe
  BY <1>1 DEF Calls!Init, Owner, Rendering
<1>5. \A d \in 1 .. Depth : FALSE
  BY <1>1
<1>6. \A d \in 1 .. Depth - 1 : FALSE
  BY <1>1
<1>7. inRenderer \in BOOLEAN /\ (inRenderer <=> Rendering(Depth))
  <2>1. inRenderer = FALSE
    BY DEF Calls!Init
  <2>. QED BY <1>4, <2>1
<1>8. (Calls!GameRuns => cur = Owner(Depth)) /\ (Calls!InCallback => cur = Calls!Caller(Depth))
  BY <1>3, <1>4
<1>. HIDE DEF Calls!Init
<1>. QED BY <1>2, <1>3, <1>4, <1>5, <1>6, <1>7, <1>8 DEF CallsInv

LEMMA CallsStep == CallsInv /\ [Calls!Next]_Calls!vars => CallsInv'
<1>. SUFFICES ASSUME CallsInv, [Calls!Next]_Calls!vars PROVE CallsInv'
  OBVIOUS
<1>0. Calls!Top.kind # "main" => stack # <<>> /\ Calls!Top = stack[Depth] /\ Nested(Depth)
  <2>1. Depth \in Nat \ {0} => Depth \in 1 .. Depth
    OBVIOUS
  <2>. QED BY <2>1, TopIs DEF CallsInv, Calls!Main
<1>d. Calls!Top.kind \in Calls!Kinds => Dispatcher(Calls!Top) /\ stack # <<>>
  BY <1>0 DEF Nested, Calls!Kinds, Calls!SafeKinds, Calls!Events
<1>1. CASE Calls!GameStep
  BY <1>1, Working DEF Calls!GameStep
<1>n. "irq" \notin Calls!Renderer /\ "guest" \notin Calls!Renderer /\ inRenderer \in BOOLEAN
  BY DEF Calls!Renderer, CallsInv
<1>2. CASE Calls!Interrupt
  <2>. DEFINE x == [kind |-> "irq", saved |-> regs]
  <2>1. x.kind = "irq" /\ x.saved = regs
    OBVIOUS
  <2>2. stack' = Append(stack, x)
    BY <1>2 DEF Calls!Interrupt
  <2>. HIDE DEF x
  <2>3. inRenderer' = (inRenderer \/ x.kind \in Calls!Renderer)
    BY <1>2, <1>n, <2>1 DEF Calls!Interrupt
  <2>4. Calls!GameRuns /\ ~Calls!Handler /\ UNCHANGED <<cur, regs, atSafe>>
    BY <1>2 DEF Calls!Interrupt
  <2>. QED BY <2>1, <2>2, <2>3, <2>4, Entering
<1>3. CASE Calls!HandlerReturns
  BY <1>0, <1>3, Leaving DEF Calls!HandlerReturns
<1>4. ASSUME NEW k \in Calls!Kinds, Calls!Enter(k) PROVE CallsInv'
  <2>. DEFINE x == Calls!Entered(k)
  <2>1. /\ x.kind = k
        /\ x.was = cur
        /\ x.wasIn = inRenderer
        /\ ~x.inside
        /\ x.entry = regs
        /\ Dispatcher(x)
    BY <1>4 DEF Calls!Entered, Dispatcher, CallsInv
  <2>. HIDE DEF x
  <2>2. stack' = Append(stack, x)
    BY <1>4 DEF Calls!Enter, x
  <2>. QED BY <1>4, <2>1, <2>2, Entering DEF Calls!Enter, Calls!SafeKinds
<1>5. CASE Calls!CallBack
  <2>. DEFINE x == [Calls!Top EXCEPT !.inside = TRUE]
  <2>1. Calls!Top.kind \in Calls!Kinds /\ stack' = Calls!Under(x)
    BY <1>5 DEF Calls!CallBack, Calls!BetweenCallbacks
  <2>2. /\ Dispatcher(x)
        /\ x.kind = Calls!Top.kind
        /\ x.was = Calls!Top.was
        /\ x.wasIn = Calls!Top.wasIn
        /\ x.entry = Calls!Top.entry /\ x.next = Calls!Top.next
    <3>1. x = Started(Calls!Top) /\ Dispatcher(Calls!Top)
      BY <1>d, <2>1 DEF Started
    <3>. HIDE DEF x
    <3>. QED BY <3>1, StartedKeeps
  <2>. HIDE DEF x
  <2>3. cur' = Registered[x.kind][x.next]
    BY <1>5, <2>2 DEF Calls!CallBack
  <2>4. Calls!Caller(Depth)' = Registered[x.kind][x.next]
    BY <1>d, <2>1, StackReplaced DEF CallsInv, Calls!Caller
  <2>. QED BY <1>5, <2>1, <2>2, <2>3, <2>4, OwnStep DEF Calls!CallBack
<1>6. ASSUME NEW ends \in BOOLEAN, Calls!CallBackReturns(ends) PROVE CallsInv'
  <2>. DEFINE x == [Calls!Top EXCEPT !.inside = FALSE,
                               !.next = IF ends THEN Len(Registered[Calls!Top.kind]) + 1 ELSE @ + 1]
  <2>1. Calls!Top.kind \in Calls!Kinds /\ stack' = Calls!Under(x)
    BY <1>6 DEF Calls!CallBackReturns, Calls!InCallback
  <2>2. /\ Dispatcher(x)
        /\ x.kind = Calls!Top.kind
        /\ x.was = Calls!Top.was
        /\ x.wasIn = Calls!Top.wasIn
        /\ x.entry = Calls!Top.entry /\ ~x.inside
    <3>. DEFINE i == IF ends THEN Len(Registered[Calls!Top.kind]) + 1 ELSE Calls!Top.next + 1
    <3>1. x = Redirected(Calls!Top, Calls!Top.kind, i)
      BY <1>d, <2>1 DEF Dispatcher, Redirected
    <3>2. Dispatcher(Calls!Top) /\ Calls!Top.kind \in Calls!Kinds
      BY <1>d, <2>1
    <3>. HIDE DEF i, x
    <3>. QED BY <3>1, <3>2, RedirectedKeeps
  <2>. HIDE DEF x
  <2>3. ~Calls!InCallback'
    BY <1>d, <2>1, <2>2, StackReplaced DEF CallsInv, Calls!InCallback
  <2>. QED BY <1>6, <2>1, <2>2, <2>3, OwnStep DEF Calls!CallBackReturns
<1>7. CASE Calls!SafeDone
  <2>. DEFINE i == IF Calls!SceneChanged THEN 1 ELSE Len(Registered["scene"]) + 1
              x == [Calls!Top EXCEPT !.kind = "scene", !.next = i]
  <2>1. /\ Calls!Top.kind = "safe"
        /\ ~Calls!Top.inside
        /\ Calls!Top.kind \in Calls!Kinds
        /\ stack' = Calls!Under(x)
    BY <1>7 DEF Calls!SafeDone, Calls!Finished, Calls!BetweenCallbacks
  <2>. HIDE DEF i
  <2>2. /\ Dispatcher(x) /\ x.kind = "scene" /\ x.was = Calls!Top.was /\ x.wasIn = Calls!Top.wasIn
        /\ x.entry = Calls!Top.entry /\ ~x.inside
    <3>1. x = Redirected(Calls!Top, "scene", i)
      BY <1>d, <2>1 DEF Dispatcher, Redirected
    <3>2. "scene" \in Calls!Kinds
      BY DEF Calls!Kinds, Calls!SafeKinds
    <3>3. Dispatcher(Calls!Top)
      BY <1>d, <2>1
    <3>. HIDE DEF x
    <3>. QED BY <3>1, <3>2, <3>3, RedirectedKeeps
  <2>. HIDE DEF x
  <2>3. ~Calls!InCallback'
    BY <1>d, <2>1, <2>2, StackReplaced DEF CallsInv, Calls!InCallback
  <2>4. /\ x.kind \in Calls!Kinds
        /\ x.kind \in Calls!SafeKinds
        /\ Calls!Top.kind \in Calls!SafeKinds
        /\ x.kind \notin Calls!Renderer /\ Calls!Top.kind \notin Calls!Renderer
    BY <2>1, <2>2 DEF Calls!Kinds, Calls!SafeKinds, Calls!Renderer
  <2>5. UNCHANGED <<atSafe, inRenderer, regs>>
    BY <1>7 DEF Calls!SafeDone
  <2>. QED BY <2>1, <2>2, <2>3, <2>4, <2>5, OwnStep
<1>8. CASE Calls!SceneDone
  <2>. DEFINE i == IF Calls!MapLoaded THEN 1 ELSE Len(Registered["map"]) + 1
              x == [Calls!Top EXCEPT !.kind = "map", !.next = i]
  <2>1. /\ Calls!Top.kind = "scene"
        /\ ~Calls!Top.inside
        /\ Calls!Top.kind \in Calls!Kinds
        /\ stack' = Calls!Under(x)
    BY <1>8 DEF Calls!SceneDone, Calls!Finished, Calls!BetweenCallbacks
  <2>. HIDE DEF i
  <2>2. /\ Dispatcher(x) /\ x.kind = "map" /\ x.was = Calls!Top.was /\ x.wasIn = Calls!Top.wasIn
        /\ x.entry = Calls!Top.entry /\ ~x.inside
    <3>1. x = Redirected(Calls!Top, "map", i)
      BY <1>d, <2>1 DEF Dispatcher, Redirected
    <3>2. "map" \in Calls!Kinds
      BY DEF Calls!Kinds, Calls!SafeKinds
    <3>3. Dispatcher(Calls!Top)
      BY <1>d, <2>1
    <3>. HIDE DEF x
    <3>. QED BY <3>1, <3>2, <3>3, RedirectedKeeps
  <2>. HIDE DEF x
  <2>3. ~Calls!InCallback'
    BY <1>d, <2>1, <2>2, StackReplaced DEF CallsInv, Calls!InCallback
  <2>4. /\ x.kind \in Calls!Kinds
        /\ x.kind \in Calls!SafeKinds
        /\ Calls!Top.kind \in Calls!SafeKinds
        /\ x.kind \notin Calls!Renderer /\ Calls!Top.kind \notin Calls!Renderer
    BY <2>1, <2>2 DEF Calls!Kinds, Calls!SafeKinds, Calls!Renderer
  <2>5. UNCHANGED <<atSafe, inRenderer, regs>>
    BY <1>8 DEF Calls!SceneDone
  <2>. QED BY <2>1, <2>2, <2>3, <2>4, <2>5, OwnStep
<1>9. CASE Calls!MapDone
  <2>1. Calls!Top.kind = "map" /\ stack # <<>>
    BY <1>9, <1>d DEF Calls!MapDone, Calls!Finished, Calls!BetweenCallbacks, Calls!Kinds,
                      Calls!SafeKinds
  <2>. QED BY <1>9, <2>1, Leaving DEF Calls!MapDone
<1>10. CASE Calls!Leave
  <2>1. Calls!Top.kind \in Calls!Kinds \ Calls!SafeKinds /\ stack # <<>>
    BY <1>10, <1>d DEF Calls!Leave, Calls!Finished
  <2>. QED BY <1>10, <2>1, Leaving DEF Calls!Leave, Calls!PutBack
<1>11. CASE Calls!CallGuest
  <2>. DEFINE x == [kind |-> "guest", saved |-> regs]
  <2>1. x.kind = "guest" /\ x.saved = regs
    OBVIOUS
  <2>2. stack' = Append(stack, x)
    BY <1>11 DEF Calls!CallGuest
  <2>. HIDE DEF x
  <2>3. inRenderer' = (inRenderer \/ x.kind \in Calls!Renderer)
    BY <1>11, <1>n, <2>1 DEF Calls!CallGuest
  <2>4. Calls!InCallback /\ UNCHANGED <<cur, regs, atSafe>>
    BY <1>11 DEF Calls!CallGuest
  <2>. QED BY <2>1, <2>2, <2>3, <2>4, Entering
<1>12. CASE Calls!GuestReturns
  BY <1>0, <1>12, Leaving DEF Calls!GuestReturns, Calls!Returned
<1>13. CASE Calls!DrawOne
  BY <1>13, Working DEF Calls!DrawOne
<1>14. CASE UNCHANGED Calls!vars
  BY <1>14, Working DEF Calls!vars
<1>. QED BY <1>1, <1>2, <1>3, <1>4, <1>5, <1>6, <1>7, <1>8, <1>9, <1>10, <1>11, <1>12, <1>13, <1>14
         DEF Calls!Next

\* Whatever mods are registered, in whatever order, and however deeply dispatchers,
\* calls into the game and handlers nest, whose callback runs is who is counted and
\* the game sees nothing of it (g_cur_mod, g_in_renderer, mod_call_guest).
THEOREM CallsAttributed == Calls!Spec => []Calls!Attribution
<1>1. CallsInv => Calls!Attribution
  BY TopIs DEF CallsInv, Calls!Attribution, Calls!RegsPutBack, Calls!BetweenCallbacks,
               Calls!GameRuns, Owner, Rendering, Calls!Main,
               Depth, IsStack
<1>. QED BY <1>1, CallsInit, CallsStep, PTL DEF Calls!Spec

-----------------------------------------------------------------------------
(* The whole.                                                              *)

\* A behaviour of the whole is one of each component's, with the others beside it.
LEMMA WholeIsOverlay == GuestSpec => Spec
<1>1. GuestInit => Init
  BY DEF GuestInit
<1>2. [GuestNext]_guestVars => [Next]_vars
  <2>. SUFFICES ASSUME [GuestNext]_guestVars PROVE [Next]_vars
    OBVIOUS
  <2>1. Next \/ UNCHANGED vars
    BY DEF GuestNext, Beside, guestVars
  <2>. QED BY <2>1
<1>. QED BY <1>1, <1>2, PTL DEF GuestSpec, Spec

LEMMA WholeIsClock == GuestSpec => Clk!Spec
<1>1. GuestInit => Clk!Init
  BY DEF GuestInit
<1>2. [GuestNext]_guestVars => [Clk!Next]_Clk!vars
  <2>. SUFFICES ASSUME [GuestNext]_guestVars PROVE [Clk!Next]_Clk!vars
    OBVIOUS
  <2>1. Clk!Next \/ UNCHANGED clockVars
    BY DEF GuestNext, Beside, guestVars
  <2>. QED BY <2>1 DEF clockVars, Clk!vars, Clk!clock, Clk!calls
<1>. QED BY <1>1, <1>2, PTL DEF GuestSpec, Clk!Spec

LEMMA WholeIsAram == GuestSpec => Aram!Spec
<1>1. GuestInit => Aram!Init
  BY DEF GuestInit
<1>2. [GuestNext]_guestVars => [Aram!Next]_Aram!vars
  <2>. SUFFICES ASSUME [GuestNext]_guestVars PROVE [Aram!Next]_Aram!vars
    OBVIOUS
  <2>1. Aram!Next \/ UNCHANGED aramVars
    BY DEF GuestNext, Beside, guestVars
  <2>. QED BY <2>1 DEF aramVars, Aram!vars, Aram!queueVars
<1>. QED BY <1>1, <1>2, PTL DEF GuestSpec, Aram!Spec

LEMMA WholeIsCalls == GuestSpec => Calls!Spec
<1>1. GuestInit => Calls!Init
  BY DEF GuestInit
<1>2. [GuestNext]_guestVars => [Calls!Next]_Calls!vars
  <2>. SUFFICES ASSUME [GuestNext]_guestVars PROVE [Calls!Next]_Calls!vars
    OBVIOUS
  <2>1. Calls!Next \/ UNCHANGED callVars
    BY DEF GuestNext, Beside, guestVars
  <2>. QED BY <2>1 DEF callVars, Calls!vars
<1>. QED BY <1>1, <1>2, PTL DEF GuestSpec, Calls!Spec

\* Of the whole: no span of the host's time is lost to the guest's but what the
\* clock says it excluded (clock_advance_at).
THEOREM AccountedHolds == GuestSpec => []Accounted
<1>1. Clk!Accounted => Accounted
  BY DEF Accounted
<1>. QED BY <1>1, WholeIsClock, NoSpanLost, PTL

\* Of the whole: the mod that is counted is the one whose callback runs.
THEOREM AttributionHolds == GuestSpec => []Attribution
<1>1. Calls!Attribution => Attribution
  BY DEF Attribution
<1>. QED BY <1>1, WholeIsCalls, CallsAttributed, PTL

\* Of the whole: a request's callback comes when it has been moved whole, once.
THEOREM RequestsServedHolds == GuestSpec => []RequestsServed
<1>1. Aram!RequestsServed => RequestsServed
  BY DEF RequestsServed
<1>. QED BY <1>1, WholeIsAram, AramServed, PTL

\* Of the whole: the window thread takes the overlay's frames as from a box.
THEOREM WholeImplementsBox == GuestSpec => ImplementsBox
  BY WholeIsOverlay, ImplementsBoxHolds, PTL
=============================================================================

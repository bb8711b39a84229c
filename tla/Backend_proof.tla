---------------------------- MODULE Backend_proof ----------------------------
(***************************************************************************)
(* The Vulkan backend of the whole MCGuest puts side by side, for every    *)
(* value of its constants: the compiler thread and the frames in flight.   *)
(*                                                                         *)
(* A draw has its own pipeline and a slot is made once.  The argument: a   *)
(* job in the ring stands whole, since the draw path writes only the place *)
(* past the newest and that is never one of those still to be read         *)
(* (PlaceApart); so what the thread reads is one job, and its pipeline     *)
(* the slot's own (RingWhole, ThreadSide).  A slot that is filled in and   *)
(* not ready is with the draw path, in the ring or with the thread, and    *)
(* with one of them alone, which is what hands it on (EachOnce).           *)
(*                                                                         *)
(* Frames in flight keep their texels, their copies and their pictures.    *)
(* The argument: a place of the pool is written once between a slot's      *)
(* entering and its finishing, past all that was placed before (Upto) and  *)
(* where no carry in flight reads, so whatever the GPU has run or has yet  *)
(* to, what a draw samples is what it will find there (Will, Draws).  No   *)
(* two copies still to land cover one cell, and a cell that is not right   *)
(* in RAM is covered by the copy that wrote it, which say_landed does not  *)
(* pass (Lands).  All that is recorded draws into the back slot, only one  *)
(* slot at a time has anything to show, and what it has is the frame's     *)
(* own, newer than those shown (Screens).                                  *)
(***************************************************************************)
EXTENDS MCGuest, RingNumbers, FiniteSetTheorems, WellFoundedInduction, TLAPS

Shaped == Keys \X Shapes
AnySlot == Shaped \cup {<<Pipes!None, Pipes!None>>}
JobType == [state : Keys \cup {Pipes!None}, slot : AnySlot]
Writing == {"state", "slot", "publish"}
Reading == {"state", "slot", "take"}
Making == {"make", "ready"}

PipesTyped ==
    /\ mode \in {"background", "wait", "off"}
    /\ head \in Nat /\ tail \in Nat /\ tail <= head /\ head - tail <= Jobs
    /\ job \in [0 .. Jobs - 1 -> JobType]
    /\ draw \in [at : {"idle", "find", "new", "interp", "over", "gone"} \cup Writing,
                 of : AnySlot]
    /\ thread \in [at : {"look", "ended"} \cup Reading \cup Making, tail : Nat, job : JobType]
    /\ stop \in BOOLEAN /\ running \in BOOLEAN
    /\ DOMAIN pipes \subseteq Pipes!Slot
    /\ pipes = [s \in DOMAIN pipes |-> pipes[s]]
    /\ \A s \in DOMAIN pipes :
          /\ pipes[s] = [pipe |-> pipes[s].pipe, ready |-> pipes[s].ready]
          /\ pipes[s].ready \in {-1, 0, 1}

\* The draw path's place, and the thread's in its run.
PipesPhases ==
    /\ draw.at \in {"find", "new", "interp"} \cup Writing => draw.of \in Shaped
    /\ draw.at = "new" => ~Pipes!Known(draw.of)
    /\ draw.at \in Writing => mode = "background" /\ head - tail < Jobs
    /\ mode # "background" => head = 0 /\ tail = 0 /\ thread.at = "look"
    /\ mode = "background" /\ thread.at # "ended" => running
    /\ draw.at = "gone" => ~running

\* What is ready is the slot's own, and interpreters are made where they are put.
OwnMade ==
    \A s \in DOMAIN pipes : /\ pipes[s].ready = 1 => pipes[s].pipe = s
                            /\ s[2] = Pipes!Interp => pipes[s].ready = 1

\* The job being written, and those in the ring.
RingWhole ==
    /\ draw.at \in {"slot", "publish"} => job[head % Jobs].state = draw.of[1]
    /\ draw.at = "publish" => job[head % Jobs].slot = draw.of
    /\ \A j \in tail .. head - 1 : /\ job[j % Jobs].slot \in Shaped
                                   /\ job[j % Jobs].state = job[j % Jobs].slot[1]

\* What the thread has read, and what it has made.
ThreadSide ==
    /\ thread.tail = tail
    /\ thread.at \in Reading => tail < head
    /\ thread.at \in {"slot", "take"} => thread.job.state = job[tail % Jobs].state
    /\ thread.at = "take" => thread.job.slot = job[tail % Jobs].slot
    /\ thread.at \in Making => /\ thread.job.slot \in Shaped
                               /\ thread.job.state = thread.job.slot[1]
    /\ thread.at = "ready" => pipes[thread.job.slot].pipe = thread.job.slot

\* A slot to be made, with the draw path, in the ring and with the thread.
Owed(s) == s \in DOMAIN pipes /\ pipes[s].ready = 0
Queued(s) == \E j \in tail .. head - 1 : job[j % Jobs].slot = s
EachOnce ==
    draw.at # "gone" =>
        /\ draw.at \in Writing => Owed(draw.of)
        /\ \A j \in tail .. head - 1 : Owed(job[j % Jobs].slot)
        /\ thread.at \in Making => Owed(thread.job.slot)
        /\ \A i, j \in tail .. head - 1 : job[i % Jobs].slot = job[j % Jobs].slot => i = j
        /\ draw.at \in Writing => ~Queued(draw.of) /\ ~Pipes!AtThread(draw.of)
        /\ thread.at \in Making => ~Queued(thread.job.slot)
        /\ \A s \in DOMAIN pipes :
              pipes[s].ready = 0 => Queued(s) \/ Pipes!AtThread(s) \/ Pipes!AtDraw(s)

PipesInv ==
    PipesTyped /\ PipesPhases /\ OwnMade /\ RingWhole /\ ThreadSide /\ EachOnce /\ Pipes!OwnPipe

-----------------------------------------------------------------------------
(* The table and the ring.                                                    *)

\* A new entry leaves the others as they are.
LEMMA PutFacts ==
    ASSUME NEW slot, NEW entry, Pipes!Put(slot, entry)
    PROVE  /\ DOMAIN pipes' = DOMAIN pipes \cup {slot}
           /\ pipes' = [s \in DOMAIN pipes' |-> pipes'[s]]
           /\ pipes'[slot] = entry
           /\ \A s \in DOMAIN pipes : s # slot => pipes'[s] = pipes[s]
BY DEF Pipes!Put

\* Shapes are not the interpreter, nor is a shaped slot the place of none.
LEMMA ShapedFacts ==
    ASSUME NEW s \in Shaped
    PROVE  s \in Pipes!Slot /\ s[1] \in Keys /\ s[2] \in Shapes /\ s[2] # Pipes!Interp
           /\ s \in AnySlot
           /\ s = <<s[1], s[2]>>
BY PipeAssumption DEF Shaped, Pipes!Slot, Pipes!Interp, AnySlot

\* The place past the newest job is none of those still to be read.
LEMMA PlaceApart ==
    ASSUME PipesTyped, head - tail < Jobs
    PROVE  /\ head % Jobs \in 0 .. Jobs - 1
           /\ \A j \in tail .. head - 1 : j % Jobs \in 0 .. Jobs - 1 /\ j % Jobs # head % Jobs
<1>1. head \in Nat /\ tail \in Nat /\ Jobs \in Nat \ {0}
  BY PipeAssumption DEF PipesTyped
<1>2. head % Jobs \in 0 .. Jobs - 1
  BY <1>1, Division
<1>3. ASSUME NEW j \in tail .. head - 1
      PROVE  j % Jobs \in 0 .. Jobs - 1 /\ j % Jobs # head % Jobs
  <2>1. j \in Nat /\ j < head /\ head - j < Jobs
    BY <1>1
  <2>. QED BY <1>1, <2>1, Division, SlotsDiffer
<1>. QED BY <1>2, <1>3

-----------------------------------------------------------------------------
(* The start.                                                                 *)

\* Nothing is asked for, queued or read yet.
LEMMA PipesInitInv == Pipes!Init => PipesInv
<1>. SUFFICES ASSUME Pipes!Init PROVE PipesInv
  OBVIOUS
<1>1. pipes = << >> /\ DOMAIN pipes = {}
  BY DEF Pipes!Init
<1>2. PipesTyped
  <2>1. Pipes!NoJob \in JobType
    BY DEF Pipes!NoJob, JobType, AnySlot
  <2>2. job \in [0 .. Jobs - 1 -> JobType]
    BY <2>1 DEF Pipes!Init
  <2>3. draw \in [at : {"idle", "find", "new", "interp", "over", "gone"} \cup Writing,
                  of : AnySlot]
    BY DEF Pipes!Init, AnySlot
  <2>4. thread \in [at : {"look", "ended"} \cup Reading \cup Making, tail : Nat, job : JobType]
    BY <2>1 DEF Pipes!Init
  <2>5. pipes = [s \in DOMAIN pipes |-> pipes[s]]
    BY <1>1
  <2>6. mode \in {"background", "wait", "off"} /\ stop \in BOOLEAN /\ running \in BOOLEAN
    BY Zenon DEF Pipes!Init
  <2>7. head = 0 /\ tail = 0 /\ 0 - 0 <= Jobs
    BY PipeAssumption DEF Pipes!Init
  <2>. QED BY <1>1, <2>2, <2>3, <2>4, <2>5, <2>6, <2>7 DEF PipesTyped
<1>3. PipesPhases
  BY DEF Pipes!Init, PipesPhases, Writing
<1>4. OwnMade /\ RingWhole /\ ThreadSide
  BY <1>1 DEF Pipes!Init, OwnMade, RingWhole, ThreadSide, Reading, Making
<1>5. EachOnce
  BY <1>1 DEF Pipes!Init, EachOnce, Writing, Making
<1>6. Pipes!OwnPipe
  BY DEF Pipes!Init, Pipes!OwnPipe
<1>. QED BY <1>2, <1>3, <1>4, <1>5, <1>6 DEF PipesInv

-----------------------------------------------------------------------------
(* The draw path's steps.                                                     *)

\* A step that leaves table, ring, thread and what was drawn, and does not write.
LEMMA DrawMoves ==
    ASSUME PipesInv, draw.at \notin Writing \cup {"gone"},
           draw'.at \in {"idle", "find", "interp", "over"},
           draw' \in [at : {draw'.at}, of : AnySlot],
           draw'.at \in {"find", "interp"} => draw'.of \in Shaped,
           stop' \in BOOLEAN,
           UNCHANGED <<mode, pipes, head, tail, job, thread, running, drawn>>
    PROVE  PipesInv'
<1>1. PipesTyped'
  BY DEF PipesInv, PipesTyped
<1>2. PipesPhases'
  BY DEF PipesInv, PipesPhases, Writing
<1>3. OwnMade' /\ Pipes!OwnPipe'
  BY DEF PipesInv, OwnMade, Pipes!OwnPipe, Pipes!Known
<1>4. RingWhole' /\ ThreadSide'
  BY DEF PipesInv, RingWhole, ThreadSide
<1>5. EachOnce'
  BY DEF PipesInv, EachOnce, Owed, Queued, Pipes!AtThread, Pipes!AtDraw, Writing
<1>. QED BY <1>1, <1>2, <1>3, <1>4, <1>5 DEF PipesInv

\* A draw begins.
LEMMA AskInv == ASSUME PipesInv, Pipes!Ask PROVE PipesInv'
<1>1. PICK of \in Keys \X Shapes : draw' = [at |-> "find", of |-> of]
  BY DEF Pipes!Ask
<1>2. of \in Shaped
  BY DEF Shaped
<1>3. draw.at = "idle"
  BY DEF Pipes!Ask
<1>4. draw.at \notin Writing \cup {"gone"}
  BY <1>3 DEF Writing
<1>5. UNCHANGED <<mode, pipes, head, tail, job, thread, stop, running, drawn>>
  BY DEF Pipes!Ask
<1>6. stop' \in BOOLEAN
  BY <1>5 DEF PipesInv, PipesTyped
<1>. QED BY <1>1, <1>2, <1>4, <1>5, <1>6, ShapedFacts, DrawMoves

\* The shutdown begins.
LEMMA StopInv == ASSUME PipesInv, Pipes!Stop PROVE PipesInv'
<1>1. draw \in [at : {"idle", "find", "new", "interp", "over", "gone"} \cup Writing, of : AnySlot]
  BY DEF PipesInv, PipesTyped
<1>2. draw.at = "idle" /\ draw' = [draw EXCEPT !.at = "over"]
  BY DEF Pipes!Stop
<1>3. draw.at \notin Writing \cup {"gone"}
  BY <1>2 DEF Writing
<1>4. draw'.at = "over" /\ draw' \in [at : {draw'.at}, of : AnySlot]
  BY <1>1, <1>2
<1>5. UNCHANGED <<mode, pipes, head, tail, job, thread, running, drawn>>
  BY DEF Pipes!Stop
<1>6. stop' \in BOOLEAN
  BY DEF Pipes!Stop, PipesInv, PipesTyped
<1>. QED BY <1>3, <1>4, <1>5, <1>6, DrawMoves

\* pipeline() returns: the draw is given the pipeline, the rest stands.
LEMMA ReturnInv ==
    ASSUME PipesInv, NEW p, draw.at \in {"find", "interp"}, Pipes!Return(p), Pipes!OwnPipe',
           UNCHANGED <<mode, pipes, head, tail, job, thread, stop, running>>
    PROVE  PipesInv'
<1>1. drawn' = [asked |-> draw.of, pipe |-> p] /\ draw' = [draw EXCEPT !.at = "idle"]
  BY DEF Pipes!Return
<1>2. draw' = [at |-> "idle", of |-> draw.of] /\ draw.of \in AnySlot
  BY <1>1 DEF PipesInv, PipesTyped
<1>3. PipesTyped'
  BY <1>2 DEF PipesInv, PipesTyped
<1>4. PipesPhases'
  BY <1>2 DEF PipesInv, PipesPhases, Writing
<1>5. RingWhole' /\ ThreadSide' /\ OwnMade'
  BY <1>2 DEF PipesInv, RingWhole, ThreadSide, OwnMade
<1>6. EachOnce'
  BY <1>2 DEF PipesInv, EachOnce, Owed, Queued, Pipes!AtThread, Pipes!AtDraw, Writing
<1>. QED BY <1>3, <1>4, <1>5, <1>6 DEF PipesInv

\* The table is asked for the shape.
LEMMA FindInv == ASSUME PipesInv, Pipes!Find PROVE PipesInv'
<1>1. draw.at = "find" /\ draw.of \in Shaped
  BY DEF PipesInv, PipesPhases, Pipes!Find
<1>2. UNCHANGED <<mode, pipes, head, tail, job, thread, stop, running>>
  BY DEF Pipes!Find
<1>3. draw.at \notin Writing \cup {"gone"}
  BY <1>1 DEF Writing
<1>4. draw = [at |-> "find", of |-> draw.of] /\ draw.of \in AnySlot
  BY <1>1 DEF PipesInv, PipesTyped
<1>5. stop' \in BOOLEAN
  BY <1>2 DEF PipesInv, PipesTyped
<1>6. CASE draw' = [draw EXCEPT !.at = "interp"] /\ UNCHANGED drawn
  <2>1. draw' = [at |-> "interp", of |-> draw.of]
    BY <1>4, <1>6
  <2>2. draw'.at = "interp" /\ draw'.of \in Shaped /\ draw' \in [at : {draw'.at}, of : AnySlot]
    BY <1>1, <1>4, <2>1
  <2>. QED BY <1>2, <1>3, <1>5, <1>6, <2>2, DrawMoves
<1>7. CASE mode # "off" /\ Pipes!Known(draw.of) /\ Pipes!Made(pipes[draw.of])
           /\ Pipes!Return(pipes[draw.of].pipe)
  <2>1. draw.of \in DOMAIN pipes /\ pipes[draw.of].pipe = draw.of
    BY <1>7 DEF Pipes!Known, Pipes!Made, PipesInv, OwnMade
  <2>2. Pipes!OwnPipe'
    BY <1>7, <2>1 DEF Pipes!Return, Pipes!OwnPipe
  <2>. QED BY <1>1, <1>2, <1>7, <2>2, ReturnInv
<1>8. CASE /\ ~Pipes!Known(draw.of) /\ draw' = [draw EXCEPT !.at = "new"] /\ UNCHANGED drawn
  <2>1. draw' = [at |-> "new", of |-> draw.of]
    BY <1>4, <1>8
  <2>2. PipesTyped'
    BY <1>2, <1>4, <2>1 DEF PipesInv, PipesTyped
  <2>3. PipesPhases'
    BY <1>1, <1>2, <1>8, <2>1 DEF PipesInv, PipesPhases, Writing, Pipes!Known
  <2>4. OwnMade' /\ RingWhole' /\ ThreadSide' /\ Pipes!OwnPipe'
    BY <1>2, <1>8, <2>1 DEF PipesInv, OwnMade, RingWhole, ThreadSide, Pipes!OwnPipe, Pipes!Known
  <2>5. EachOnce'
    BY <1>1, <1>2, <2>1 DEF PipesInv, EachOnce, Owed, Queued, Pipes!AtThread, Pipes!AtDraw, Writing
  <2>. QED BY <2>2, <2>3, <2>4, <2>5 DEF PipesInv
<1>. QED BY <1>6, <1>7, <1>8 DEF Pipes!Find

\* A pipeline made on the draw path, in a run without the thread: nothing is on
\* its way.
LEMMA MakeHereInv == ASSUME PipesInv, Pipes!MakeHere PROVE PipesInv'
<1>0. PICK slot : slot = draw.of
  OBVIOUS
<1>1. /\ draw.at = "new" /\ slot \in Shaped /\ slot \notin DOMAIN pipes
      /\ mode = "wait" /\ head = 0 /\ tail = 0 /\ thread.at = "look"
  BY <1>0 DEF PipesInv, PipesPhases, Pipes!MakeHere, Pipes!Known
<1>2. UNCHANGED <<mode, head, tail, job, thread, stop, running>>
  BY DEF Pipes!MakeHere
<1>3. draw = [at |-> "new", of |-> slot] /\ slot \in AnySlot /\ slot \in Pipes!Slot
      /\ slot[2] # Pipes!Interp
  BY <1>0, <1>1, ShapedFacts DEF PipesInv, PipesTyped
<1>4. ASSUME NEW entry, Pipes!Put(slot, entry),
             entry = [pipe |-> entry.pipe, ready |-> entry.ready],
             entry.ready \in {-1, 1}, entry.ready = 1 => entry.pipe = slot,
             draw'.at \in {"idle", "interp"}, draw' = [at |-> draw'.at, of |-> slot],
             Pipes!OwnPipe'
      PROVE  PipesInv'
  <2>1. /\ DOMAIN pipes' = DOMAIN pipes \cup {slot}
        /\ pipes' = [s \in DOMAIN pipes' |-> pipes'[s]]
        /\ pipes'[slot] = entry
        /\ \A s \in DOMAIN pipes : s # slot => pipes'[s] = pipes[s]
    BY <1>4, PutFacts
  <2>2. PipesTyped'
    BY <1>2, <1>3, <1>4, <2>1 DEF PipesInv, PipesTyped
  <2>3. PipesPhases'
    BY <1>1, <1>2, <1>4 DEF PipesInv, PipesPhases, Writing
  <2>4. OwnMade'
    BY <1>3, <1>4, <2>1 DEF PipesInv, OwnMade
  <2>5. RingWhole' /\ ThreadSide'
    BY <1>1, <1>2, <1>4 DEF PipesInv, RingWhole, ThreadSide, Reading, Making
  <2>6. EachOnce'
    <3>1. \A s \in DOMAIN pipes : pipes[s].ready # 0
      BY <1>1 DEF PipesInv, EachOnce, Queued, Pipes!AtThread, Pipes!AtDraw
    <3>2. \A s \in DOMAIN pipes' : pipes'[s].ready # 0
      BY <1>4, <2>1, <3>1
    <3>. QED BY <1>1, <1>2, <1>4, <3>2 DEF EachOnce, Writing, Making
  <2>. QED BY <1>4, <2>2, <2>3, <2>4, <2>5, <2>6 DEF PipesInv
<1>5. CASE Pipes!Put(slot, [pipe |-> slot, ready |-> 1]) /\ Pipes!Return(slot)
  <2>1. Pipes!OwnPipe'
    BY <1>0, <1>5 DEF Pipes!Return, Pipes!OwnPipe
  <2>2. draw' = [at |-> "idle", of |-> slot]
    BY <1>3, <1>5 DEF Pipes!Return
  <2>. QED BY <1>4, <1>5, <2>1, <2>2
<1>6. CASE /\ Pipes!Put(slot, [pipe |-> <<Pipes!None, Pipes!None>>, ready |-> -1])
           /\ draw' = [draw EXCEPT !.at = "interp"] /\ UNCHANGED drawn
  <2>1. DOMAIN pipes' = DOMAIN pipes \cup {slot}
    BY <1>6, PutFacts
  <2>2. Pipes!OwnPipe'
    <3>1. <<drawn.asked[1], Pipes!Interp>> # slot
      BY <1>3
    <3>. QED BY <1>6, <2>1, <3>1 DEF PipesInv, Pipes!OwnPipe, Pipes!Known
  <2>3. draw' = [at |-> "interp", of |-> slot]
    BY <1>3, <1>6
  <2>4. PICK entry : entry = [pipe |-> <<Pipes!None, Pipes!None>>, ready |-> -1]
    OBVIOUS
  <2>5. /\ entry = [pipe |-> entry.pipe, ready |-> entry.ready]
        /\ entry.ready \in {-1, 1} /\ (entry.ready = 1 => entry.pipe = slot)
    BY <2>4
  <2>6. draw'.at \in {"idle", "interp"} /\ draw' = [at |-> draw'.at, of |-> slot]
    BY <2>3
  <2>7. Pipes!Put(slot, entry)
    BY <1>6, <2>4
  <2>. QED BY <1>4, <2>2, <2>5, <2>6, <2>7
<1>. QED BY <1>0, <1>1, <1>5, <1>6 DEF Pipes!MakeHere

\* A slot filled in is new to the table, so nowhere on its way yet.
LEMMA FillSlotInv == ASSUME PipesInv, Pipes!FillSlot PROVE PipesInv'
<1>0. PICK slot : slot = draw.of
  OBVIOUS
<1>1. draw.at = "new" /\ slot \in Shaped /\ slot \notin DOMAIN pipes /\ mode = "background"
  BY <1>0 DEF PipesInv, PipesPhases, Pipes!FillSlot, Pipes!Known
<1>2. UNCHANGED <<mode, head, tail, job, thread, stop, running, drawn>>
  BY DEF Pipes!FillSlot
<1>3. draw = [at |-> "new", of |-> slot] /\ slot \in AnySlot /\ slot \in Pipes!Slot
      /\ slot[2] # Pipes!Interp
  BY <1>0, <1>1, ShapedFacts DEF PipesInv, PipesTyped
<1>4. CASE ~Pipes!Room
  <2>1. draw' = [at |-> "interp", of |-> slot] /\ UNCHANGED pipes
    BY <1>3, <1>4 DEF Pipes!FillSlot
  <2>2. draw.at \notin Writing \cup {"gone"} /\ stop' \in BOOLEAN
    BY <1>1, <1>2 DEF Writing, PipesInv, PipesTyped
  <2>3. draw'.at = "interp" /\ draw'.of \in Shaped /\ draw' \in [at : {draw'.at}, of : AnySlot]
    BY <1>1, <1>3, <2>1
  <2>. QED BY <1>2, <2>1, <2>2, <2>3, DrawMoves
<1>5. CASE Pipes!Room
  <2>1. Pipes!Put(slot, [pipe |-> <<Pipes!None, Pipes!None>>, ready |-> 0])
        /\ draw' = [at |-> "state", of |-> slot]
    BY <1>0, <1>1, <1>3, <1>5 DEF Pipes!FillSlot
  <2>2. /\ DOMAIN pipes' = DOMAIN pipes \cup {slot}
        /\ pipes' = [s \in DOMAIN pipes' |-> pipes'[s]]
        /\ pipes'[slot] = [pipe |-> <<Pipes!None, Pipes!None>>, ready |-> 0]
        /\ \A s \in DOMAIN pipes : s # slot => pipes'[s] = pipes[s]
    BY <2>1, PutFacts
  <2>3. PipesTyped'
    BY <1>2, <1>3, <2>1, <2>2 DEF PipesInv, PipesTyped, Writing
  <2>4. PipesPhases'
    BY <1>1, <1>2, <1>5, <2>1 DEF PipesInv, PipesPhases, Writing, Pipes!Room
  <2>5. OwnMade'
    BY <1>3, <2>2 DEF PipesInv, OwnMade
  <2>6. RingWhole'
    BY <1>2, <2>1 DEF PipesInv, RingWhole
  <2>7. ThreadSide'
    <3>1. thread.at \in Making => thread.job.slot \in DOMAIN pipes
      BY <1>1 DEF PipesInv, EachOnce, Owed
    <3>. QED BY <1>1, <1>2, <2>2, <3>1 DEF PipesInv, ThreadSide, Making
  <2>8. EachOnce'
    <3>1. /\ \A j \in tail .. head - 1 : Owed(job[j % Jobs].slot)
          /\ thread.at \in Making => Owed(thread.job.slot)
      BY <1>1 DEF PipesInv, EachOnce
    <3>2. ASSUME NEW s, Owed(s) PROVE s # slot /\ Owed(s)'
      BY <1>1, <2>2, <3>2 DEF Owed
    <3>3. Owed(slot)'
      BY <2>2 DEF Owed
    <3>4. ~Queued(slot) /\ ~Pipes!AtThread(slot)
      BY <3>1, <3>2 DEF Queued, Pipes!AtThread, Making
    <3>5. \A s : Queued(s)' = Queued(s) /\ Pipes!AtThread(s)' = Pipes!AtThread(s)
      BY <1>2 DEF Queued, Pipes!AtThread
    <3>6. \A i, j \in tail .. head - 1 : job[i % Jobs].slot = job[j % Jobs].slot => i = j
      BY <1>1 DEF PipesInv, EachOnce
    <3>7. thread.at \in Making => ~Queued(thread.job.slot)
      BY <1>1 DEF PipesInv, EachOnce
    <3>8. ASSUME NEW s \in DOMAIN pipes', pipes'[s].ready = 0
          PROVE  Queued(s)' \/ Pipes!AtThread(s)' \/ Pipes!AtDraw(s)'
      <4>1. CASE s = slot
        BY <2>1, <4>1 DEF Pipes!AtDraw
      <4>2. CASE s # slot
        <5>1. s \in DOMAIN pipes /\ pipes[s].ready = 0
          BY <2>2, <3>8, <4>2
        <5>2. ~Pipes!AtDraw(s)
          BY <1>1 DEF Pipes!AtDraw
        <5>. QED BY <1>1, <3>5, <5>1, <5>2 DEF PipesInv, EachOnce
      <4>. QED BY <4>1, <4>2
    <3>9. draw'.of = slot /\ draw'.at = "state"
      BY <2>1
    <3>10. /\ \A j \in tail' .. head' - 1 : Owed(job[j % Jobs].slot)'
           /\ thread'.at \in Making => Owed(thread.job.slot)'
      <4>1. \A s : Owed(s) => Owed(s)'
        BY <3>2
      <4>. QED BY <1>2, <3>1, <4>1 DEF Owed
    <3>11. ~Queued(slot)' /\ ~Pipes!AtThread(slot)'
      BY <3>4, <3>5
    <3>12. Owed(draw.of)' /\ ~Queued(draw.of)' /\ ~Pipes!AtThread(draw.of)'
      BY <3>3, <3>9, <3>11 DEF Owed, Queued, Pipes!AtThread
    <3>13. thread'.at \in Making => ~Queued(thread.job.slot)'
      BY <1>2, <3>7 DEF Queued
    <3>. QED BY <1>2, <3>6, <3>8, <3>10, <3>12, <3>13 DEF EachOnce
  <2>9. Pipes!OwnPipe'
    <3>1. <<drawn.asked[1], Pipes!Interp>> # slot
      BY <1>3
    <3>. QED BY <1>2, <2>2, <3>1 DEF PipesInv, Pipes!OwnPipe, Pipes!Known
  <2>. QED BY <2>3, <2>4, <2>5, <2>6, <2>7, <2>8, <2>9 DEF PipesInv
<1>. QED BY <1>4, <1>5

\* Writing a job touches none of those to be read.
LEMMA WriteInv ==
    ASSUME PipesInv, draw.at \in {"state", "slot"}, draw' = [draw EXCEPT !.at = draw'.at],
           draw'.at \in {"slot", "publish"},
           NEW new \in JobType, job' = [job EXCEPT ![head % Jobs] = new],
           new.state = draw.of[1],
           draw'.at = "publish" => new.slot = draw.of,
           UNCHANGED <<mode, pipes, head, tail, thread, stop, running, drawn>>
    PROVE  PipesInv'
<1>1. head - tail < Jobs /\ draw.at \in Writing /\ draw.of \in Shaped /\ mode = "background"
  BY DEF PipesInv, PipesPhases, Writing
<1>2. /\ head % Jobs \in 0 .. Jobs - 1
      /\ \A j \in tail .. head - 1 : j % Jobs \in 0 .. Jobs - 1 /\ j % Jobs # head % Jobs
  BY <1>1, PlaceApart DEF PipesInv
<1>3. job \in [0 .. Jobs - 1 -> JobType]
  BY DEF PipesInv, PipesTyped
<1>4. job'[head % Jobs] = new /\ \A j \in tail .. head - 1 : job'[j % Jobs] = job[j % Jobs]
  BY <1>2, <1>3
<1>5. draw' = [at |-> draw'.at, of |-> draw.of] /\ draw.of \in AnySlot /\ draw'.of = draw.of
  BY DEF PipesInv, PipesTyped
<1>6. PipesTyped'
  <2>1. job' \in [0 .. Jobs - 1 -> JobType]
    BY <1>2, <1>3
  <2>2. draw' \in [at : {"idle", "find", "new", "interp", "over", "gone"} \cup Writing,
                   of : AnySlot]
    BY <1>5 DEF Writing
  <2>. QED BY <2>1, <2>2 DEF PipesInv, PipesTyped
<1>7. PipesPhases'
  BY <1>1, <1>5 DEF PipesInv, PipesPhases, Writing
<1>8. OwnMade' /\ Pipes!OwnPipe'
  BY DEF PipesInv, OwnMade, Pipes!OwnPipe, Pipes!Known
<1>9. RingWhole'
  BY <1>4, <1>5 DEF PipesInv, RingWhole
<1>10. ThreadSide'
  <2>1. thread.at \in Reading => tail \in tail .. head - 1
    BY DEF PipesInv, ThreadSide, PipesTyped
  <2>2. thread.at \in Reading => job'[tail % Jobs] = job[tail % Jobs]
    BY <1>4, <2>1
  <2>. QED BY <2>2 DEF PipesInv, ThreadSide, Reading
<1>11. EachOnce'
  <2>1. /\ Owed(draw.of)
        /\ \A j \in tail .. head - 1 : Owed(job[j % Jobs].slot)
        /\ thread.at \in Making => Owed(thread.job.slot)
        /\ \A i, j \in tail .. head - 1 : job[i % Jobs].slot = job[j % Jobs].slot => i = j
        /\ ~Queued(draw.of) /\ ~Pipes!AtThread(draw.of)
        /\ thread.at \in Making => ~Queued(thread.job.slot)
        /\ \A s \in DOMAIN pipes :
              pipes[s].ready = 0 => Queued(s) \/ Pipes!AtThread(s) \/ Pipes!AtDraw(s)
    BY <1>1 DEF PipesInv, EachOnce, Writing
  <2>2. \A s : (Owed(s)' <=> Owed(s)) /\ (Pipes!AtThread(s)' <=> Pipes!AtThread(s))
    BY DEF Owed, Pipes!AtThread
  <2>3. \A s : (Queued(s)' <=> Queued(s)) /\ (Pipes!AtDraw(s)' <=> Pipes!AtDraw(s))
    BY <1>1, <1>4, <1>5 DEF Queued, Pipes!AtDraw, Writing
  <2>4. Owed(draw.of)' /\ ~Queued(draw.of)' /\ ~Pipes!AtThread(draw.of)'
    BY <1>5, <2>1, <2>2, <2>3 DEF Owed, Queued, Pipes!AtThread
  <2>5. \A j \in tail' .. head' - 1 : Owed(job[j % Jobs].slot)'
    BY <1>4, <2>1, <2>2 DEF Owed
  <2>6. thread'.at \in Making => Owed(thread.job.slot)' /\ ~Queued(thread.job.slot)'
    BY <2>1, <2>2, <2>3 DEF Owed, Queued
  <2>7. \A i, j \in tail' .. head' - 1 : job'[i % Jobs].slot = job'[j % Jobs].slot => i = j
    BY <1>4, <2>1
  <2>8. \A s \in DOMAIN pipes' :
           pipes'[s].ready = 0 => Queued(s)' \/ Pipes!AtThread(s)' \/ Pipes!AtDraw(s)'
    BY <2>1, <2>2, <2>3
  <2>. QED BY <2>4, <2>5, <2>6, <2>7, <2>8 DEF EachOnce
<1>. QED BY <1>6, <1>7, <1>8, <1>9, <1>10, <1>11 DEF PipesInv

\* The job's first half is written.
LEMMA JobStateInv == ASSUME PipesInv, Pipes!JobState PROVE PipesInv'
<1>1. draw.at = "state" /\ head - tail < Jobs /\ draw.of \in Shaped
  BY DEF PipesInv, PipesPhases, Writing, Pipes!JobState
<1>2. head % Jobs \in 0 .. Jobs - 1 /\ job \in [0 .. Jobs - 1 -> JobType]
  BY <1>1, PlaceApart DEF PipesInv, PipesTyped
<1>3. PICK new : new = [job[head % Jobs] EXCEPT !.state = draw.of[1]]
  OBVIOUS
<1>4. new \in JobType /\ new.state = draw.of[1]
  BY <1>1, <1>2, <1>3, ShapedFacts DEF JobType
<1>5. job' = [job EXCEPT ![head % Jobs] = new]
  BY <1>2, <1>3 DEF Pipes!JobState
<1>6. draw' = [draw EXCEPT !.at = "slot"] /\ draw'.at = "slot"
  BY DEF Pipes!JobState, PipesInv, PipesTyped
<1>7. UNCHANGED <<mode, pipes, head, tail, thread, stop, running, drawn>>
  BY DEF Pipes!JobState
<1>. QED BY <1>1, <1>4, <1>5, <1>6, <1>7, WriteInv

\* The job's second half is written.
LEMMA JobSlotInv == ASSUME PipesInv, Pipes!JobSlot PROVE PipesInv'
<1>1. draw.at = "slot" /\ head - tail < Jobs /\ draw.of \in Shaped
  BY DEF PipesInv, PipesPhases, Writing, Pipes!JobSlot
<1>2. head % Jobs \in 0 .. Jobs - 1 /\ job \in [0 .. Jobs - 1 -> JobType]
  BY <1>1, PlaceApart DEF PipesInv, PipesTyped
<1>3. PICK new : new = [job[head % Jobs] EXCEPT !.slot = draw.of]
  OBVIOUS
<1>4. new \in JobType /\ new.slot = draw.of
  BY <1>1, <1>2, <1>3, ShapedFacts DEF JobType
<1>5. new.state = draw.of[1]
  BY <1>1, <1>2, <1>3 DEF PipesInv, RingWhole, JobType
<1>6. job' = [job EXCEPT ![head % Jobs] = new]
  BY <1>2, <1>3 DEF Pipes!JobSlot
<1>7. draw' = [draw EXCEPT !.at = "publish"] /\ draw'.at = "publish"
  BY DEF Pipes!JobSlot, PipesInv, PipesTyped
<1>8. UNCHANGED <<mode, pipes, head, tail, thread, stop, running, drawn>>
  BY DEF Pipes!JobSlot
<1>. QED BY <1>1, <1>4, <1>5, <1>6, <1>7, <1>8, WriteInv

\* Published, the job passes from the draw path to the ring.
LEMMA PublishInv == ASSUME PipesInv, Pipes!Publish PROVE PipesInv'
<1>1. /\ draw.at = "publish" /\ draw.of \in Shaped /\ mode = "background" /\ head - tail < Jobs
      /\ head \in Nat /\ tail \in Nat /\ tail <= head
  BY DEF PipesInv, PipesPhases, PipesTyped, Writing, Pipes!Publish
<1>2. /\ head' = head + 1 /\ draw' = [at |-> "interp", of |-> draw.of] /\ draw.of \in AnySlot
      /\ UNCHANGED <<mode, pipes, tail, job, thread, stop, running, drawn>>
  BY DEF Pipes!Publish, PipesInv, PipesTyped
<1>3. /\ job[head % Jobs].slot = draw.of /\ job[head % Jobs].state = draw.of[1]
      /\ tail' .. head' - 1 = (tail .. head - 1) \cup {head}
  BY <1>1, <1>2 DEF PipesInv, RingWhole
<1>4. PipesTyped'
  BY <1>1, <1>2, PipeAssumption DEF PipesInv, PipesTyped
<1>5. PipesPhases'
  BY <1>1, <1>2 DEF PipesInv, PipesPhases, Writing
<1>6. OwnMade' /\ Pipes!OwnPipe'
  BY <1>2 DEF PipesInv, OwnMade, Pipes!OwnPipe, Pipes!Known
<1>7. RingWhole'
  BY <1>1, <1>2, <1>3 DEF PipesInv, RingWhole
<1>8. ThreadSide'
  BY <1>1, <1>2 DEF PipesInv, ThreadSide
<1>9. EachOnce'
  <2>1. /\ Owed(draw.of)
        /\ \A j \in tail .. head - 1 : Owed(job[j % Jobs].slot)
        /\ thread.at \in Making => Owed(thread.job.slot)
        /\ \A i, j \in tail .. head - 1 : job[i % Jobs].slot = job[j % Jobs].slot => i = j
        /\ ~Queued(draw.of) /\ ~Pipes!AtThread(draw.of)
        /\ thread.at \in Making => ~Queued(thread.job.slot)
        /\ \A s \in DOMAIN pipes :
              pipes[s].ready = 0 => Queued(s) \/ Pipes!AtThread(s) \/ Pipes!AtDraw(s)
    BY <1>1 DEF PipesInv, EachOnce, Writing
  <2>2. \A s : (Owed(s)' <=> Owed(s)) /\ (Pipes!AtThread(s)' <=> Pipes!AtThread(s))
        /\ ~Pipes!AtDraw(s)'
    BY <1>2 DEF Owed, Pipes!AtThread, Pipes!AtDraw
  <2>3. \A s : Queued(s)' <=> Queued(s) \/ s = draw.of
    BY <1>2, <1>3 DEF Queued
  <2>4. draw'.at \notin Writing
    BY <1>2 DEF Writing
  <2>5. \A j \in tail' .. head' - 1 : Owed(job[j % Jobs].slot)'
    BY <1>2, <1>3, <2>1 DEF Owed
  <2>6. thread'.at \in Making => Owed(thread.job.slot)'
    BY <1>2, <2>1 DEF Owed
  <2>7. thread'.at \in Making => ~Queued(thread.job.slot)'
    <3>1. thread.at \in Making => thread.job.slot # draw.of
      BY <2>1 DEF Pipes!AtThread, Making
    <3>2. thread.at \in Making =>
          ~\E j \in tail' .. head' - 1 : job[j % Jobs].slot = thread.job.slot
      BY <1>3, <2>1, <3>1 DEF Queued
    <3>. QED BY <1>2, <3>2 DEF Queued
  <2>8. \A i, j \in tail' .. head' - 1 : job'[i % Jobs].slot = job'[j % Jobs].slot => i = j
    <3>1. \A j \in tail .. head - 1 : job[j % Jobs].slot # job[head % Jobs].slot
      BY <1>3, <2>1 DEF Queued
    <3>. QED BY <1>2, <1>3, <2>1, <3>1
  <2>9. \A s \in DOMAIN pipes' :
           pipes'[s].ready = 0 => Queued(s)' \/ Pipes!AtThread(s)' \/ Pipes!AtDraw(s)'
    BY <1>2, <2>1, <2>2, <2>3 DEF Pipes!AtDraw
  <2>. QED BY <2>4, <2>5, <2>6, <2>7, <2>8, <2>9 DEF EachOnce
<1>. QED BY <1>4, <1>5, <1>6, <1>7, <1>8, <1>9 DEF PipesInv

\* The interpreter is given, made here, or not to be had.
LEMMA InterpretInv == ASSUME PipesInv, Pipes!Interpret PROVE PipesInv'
<1>0. PICK of : of = draw.of
  OBVIOUS
<1>. DEFINE slot == <<of[1], Pipes!Interp>>
<1>1. draw.at = "interp" /\ of \in Shaped /\ slot = Pipes!InterpSlot
  BY <1>0 DEF PipesInv, PipesPhases, Pipes!Interpret, Pipes!InterpSlot
<1>2. UNCHANGED <<mode, head, tail, job, thread, stop, running>>
  BY DEF Pipes!Interpret
<1>3. draw = [at |-> "interp", of |-> of] /\ of \in AnySlot
  BY <1>0, <1>1 DEF PipesInv, PipesTyped
<1>4. slot \in Pipes!Slot /\ slot[2] = Pipes!Interp /\ slot \notin Shaped
  <2>1. slot \in Pipes!Slot /\ slot[2] = Pipes!Interp
    BY <1>1, ShapedFacts DEF Pipes!Slot
  <2>. QED BY <2>1, ShapedFacts
<1>. HIDE DEF slot
<1>5. CASE Pipes!Known(slot) /\ Pipes!Return(pipes[slot].pipe) /\ UNCHANGED pipes
  <2>1. pipes[slot].pipe = slot
    BY <1>4, <1>5 DEF PipesInv, OwnMade, Pipes!Known
  <2>2. Pipes!OwnPipe'
    <3>1. drawn'.asked = of /\ drawn'.pipe = slot
      BY <1>0, <1>5, <2>1 DEF Pipes!Return
    <3>. QED BY <3>1 DEF Pipes!OwnPipe, slot
  <2>. QED BY <1>1, <1>2, <1>5, <2>2, ReturnInv
<1>6. CASE ~Pipes!Known(slot) /\ Pipes!Return(<<Pipes!None, Pipes!None>>) /\ UNCHANGED pipes
  <2>1. Pipes!OwnPipe'
    <3>1. drawn'.asked = of /\ drawn'.pipe = <<Pipes!None, Pipes!None>> /\ slot \notin DOMAIN pipes'
      BY <1>0, <1>6 DEF Pipes!Return, Pipes!Known
    <3>. QED BY <3>1 DEF Pipes!OwnPipe, slot, Pipes!Known
  <2>. QED BY <1>1, <1>2, <1>6, <2>1, ReturnInv
<1>7. CASE ~Pipes!Known(slot) /\ Pipes!Put(slot, [pipe |-> slot, ready |-> 1]) /\ Pipes!Return(slot)
  <2>1. /\ DOMAIN pipes' = DOMAIN pipes \cup {slot}
        /\ pipes' = [s \in DOMAIN pipes' |-> pipes'[s]]
        /\ pipes'[slot] = [pipe |-> slot, ready |-> 1]
        /\ \A s \in DOMAIN pipes : s # slot => pipes'[s] = pipes[s]
    BY <1>7, PutFacts
  <2>2. draw' = [at |-> "idle", of |-> of] /\ slot \notin DOMAIN pipes
    BY <1>3, <1>7 DEF Pipes!Return, Pipes!Known
  <2>3. PipesTyped'
    BY <1>2, <1>3, <1>4, <2>1, <2>2 DEF PipesInv, PipesTyped
  <2>4. PipesPhases'
    BY <1>1, <1>2, <1>3, <2>2 DEF PipesInv, PipesPhases, Writing
  <2>5. OwnMade'
    BY <2>1 DEF PipesInv, OwnMade
  <2>6. Pipes!OwnPipe'
    <3>1. drawn'.asked = of /\ drawn'.pipe = slot
      BY <1>0, <1>7 DEF Pipes!Return
    <3>. QED BY <3>1 DEF Pipes!OwnPipe, slot
  <2>7. RingWhole'
    BY <1>2, <2>2 DEF PipesInv, RingWhole
  <2>8. /\ \A j \in tail .. head - 1 : Owed(job[j % Jobs].slot)
        /\ thread.at \in Making => Owed(thread.job.slot)
        /\ \A i, j \in tail .. head - 1 : job[i % Jobs].slot = job[j % Jobs].slot => i = j
        /\ thread.at \in Making => ~Queued(thread.job.slot)
        /\ \A s \in DOMAIN pipes : pipes[s].ready = 0 =>
              Queued(s) \/ Pipes!AtThread(s) \/ Pipes!AtDraw(s)
    BY <1>3 DEF PipesInv, EachOnce
  <2>9. ThreadSide'
    <3>1. thread.at \in Making => thread.job.slot \in DOMAIN pipes
      BY <2>8 DEF Owed
    <3>. QED BY <1>2, <2>1, <2>2, <3>1 DEF PipesInv, ThreadSide, Making
  <2>10. EachOnce'
    <3>1. \A s : Owed(s)' <=> Owed(s)
      BY <2>1, <2>2 DEF Owed
    <3>2. \A s : (Queued(s)' <=> Queued(s)) /\ (Pipes!AtThread(s)' <=> Pipes!AtThread(s))
          /\ ~Pipes!AtDraw(s)
      BY <1>2, <1>3 DEF Queued, Pipes!AtThread, Pipes!AtDraw
    <3>3. /\ \A j \in tail' .. head' - 1 : Owed(job[j % Jobs].slot)'
          /\ thread'.at \in Making => Owed(thread.job.slot)'
      BY <1>2, <2>8, <3>1 DEF Owed
    <3>4. thread'.at \in Making => ~Queued(thread.job.slot)'
      BY <1>2, <2>8 DEF Queued
    <3>5. \A s \in DOMAIN pipes' :
             pipes'[s].ready = 0 => Queued(s)' \/ Pipes!AtThread(s)' \/ Pipes!AtDraw(s)'
      BY <2>1, <2>8, <3>2
    <3>6. draw'.at \notin Writing
      BY <2>2 DEF Writing
    <3>. QED BY <1>2, <2>8, <3>3, <3>4, <3>5, <3>6 DEF EachOnce
  <2>. QED BY <2>3, <2>4, <2>5, <2>6, <2>7, <2>9, <2>10 DEF PipesInv
<1>. QED BY <1>1, <1>5, <1>6, <1>7 DEF Pipes!Interpret

\* The thread has ended, or never ran: nothing uses the table any more.
LEMMA DestroyInv == ASSUME PipesInv, Pipes!Destroy PROVE PipesInv'
<1>1. /\ draw' = [at |-> "gone", of |-> draw.of] /\ draw.of \in AnySlot
      /\ pipes' = << >> /\ DOMAIN pipes' = {} /\ ~running
      /\ UNCHANGED <<mode, head, tail, job, thread, stop, running, drawn>>
  BY DEF Pipes!Destroy, PipesInv, PipesTyped
<1>2. thread.at \notin Making
  BY <1>1 DEF PipesInv, PipesPhases, Making
<1>3. PipesTyped'
  BY <1>1 DEF PipesInv, PipesTyped
<1>4. PipesPhases'
  BY <1>1 DEF PipesInv, PipesPhases, Writing
<1>5. OwnMade' /\ Pipes!OwnPipe'
  BY <1>1 DEF PipesInv, OwnMade, Pipes!OwnPipe, Pipes!Known
<1>6. RingWhole' /\ ThreadSide'
  BY <1>1, <1>2 DEF PipesInv, RingWhole, ThreadSide, Making
<1>7. EachOnce'
  BY <1>1 DEF EachOnce
<1>. QED BY <1>3, <1>4, <1>5, <1>6, <1>7 DEF PipesInv

-----------------------------------------------------------------------------
(* The compiler thread's steps.                                               *)

\* What a thread's step leaves alone.
LEMMA AtKeeps ==
    ASSUME NEW here, Pipes!At(here)
    PROVE  /\ mode = "background" /\ thread.at = here
           /\ UNCHANGED <<mode, head, job, draw, stop, drawn>>
BY DEF Pipes!At

\* The thread reads on, or stops: the table and the ring stand.
LEMMA ThreadMoves ==
    ASSUME PipesInv, mode = "background", thread.at \in {"look"} \cup Reading,
           UNCHANGED <<mode, pipes, head, tail, job, draw, stop, drawn>>,
           thread'.at \in {"ended"} \cup Reading,
           thread' = [at |-> thread'.at, tail |-> thread.tail, job |-> thread'.job],
           thread'.job \in JobType,
           running' \in BOOLEAN, thread'.at = "ended" \/ running' = running,
           running' => running,
           thread'.at \in Reading => tail < head,
           thread'.at \in {"slot", "take"} => thread'.job.state = job[tail % Jobs].state,
           thread'.at = "take" => thread'.job.slot = job[tail % Jobs].slot
    PROVE  PipesInv'
<1>1. thread.at \notin Making /\ thread'.at \notin Making /\ thread.at # "ended"
  BY DEF Reading, Making
<1>2. PipesTyped'
  BY DEF PipesInv, PipesTyped
<1>3. PipesPhases'
  BY <1>1 DEF PipesInv, PipesPhases, Pipes!Known
<1>4. OwnMade' /\ Pipes!OwnPipe' /\ RingWhole'
  BY DEF PipesInv, OwnMade, Pipes!OwnPipe, RingWhole, Pipes!Known
<1>5. ThreadSide'
  BY <1>1 DEF PipesInv, ThreadSide, Making
<1>6. EachOnce'
  BY <1>1 DEF PipesInv, EachOnce, Owed, Queued, Pipes!AtThread, Pipes!AtDraw, Making
<1>. QED BY <1>2, <1>3, <1>4, <1>5, <1>6 DEF PipesInv

\* The thread ends, or has a job to read.
LEMMA LookInv == ASSUME PipesInv, Pipes!Look PROVE PipesInv'
<1>1. /\ mode = "background" /\ thread.at = "look"
         /\ UNCHANGED <<mode, head, job, draw, stop, drawn>>
      /\ UNCHANGED <<pipes, tail>>
  BY AtKeeps DEF Pipes!Look
<1>2. thread = [at |-> "look", tail |-> thread.tail, job |-> thread.job] /\ thread.job \in JobType
      /\ thread.tail = tail /\ running \in BOOLEAN
  BY <1>1 DEF PipesInv, PipesTyped, ThreadSide
<1>3. CASE running' = FALSE /\ thread' = [thread EXCEPT !.at = "ended"]
  <2>1. thread' = [at |-> "ended", tail |-> thread.tail, job |-> thread.job]
    BY <1>2, <1>3
  <2>2. thread'.at = "ended" /\ thread'.job = thread.job /\ thread'.at \notin Reading
    BY <2>1 DEF Reading
  <2>3. thread'.at \notin {"slot", "take"}
    BY <2>2
  <2>. QED BY <1>1, <1>2, <1>3, <2>1, <2>2, <2>3, ThreadMoves
<1>4. CASE thread.tail < head /\ thread' = [thread EXCEPT !.at = "state"] /\ UNCHANGED running
  <2>1. thread' = [at |-> "state", tail |-> thread.tail, job |-> thread.job]
    BY <1>2, <1>4
  <2>2. thread'.at = "state" /\ thread'.job = thread.job /\ thread'.at \in Reading
    BY <2>1 DEF Reading
  <2>. QED BY <1>1, <1>2, <1>4, <2>1, <2>2, ThreadMoves
<1>. QED BY <1>3, <1>4 DEF Pipes!Look

\* Facts about the oldest job, which the thread reads.
LEMMA Oldest ==
    ASSUME PipesInv, thread.at \in Reading
    PROVE  /\ thread.tail = tail /\ tail < head /\ tail \in tail .. head - 1
           /\ job[tail % Jobs] \in JobType
           /\ thread = [at |-> thread.at, tail |-> tail, job |-> thread.job]
           /\ thread.job \in JobType /\ running \in BOOLEAN
<1>1. thread.tail = tail /\ tail < head /\ tail \in Nat /\ head \in Nat
  BY DEF PipesInv, ThreadSide, PipesTyped
<1>2. tail % Jobs \in 0 .. Jobs - 1
  BY <1>1, PipeAssumption, Division
<1>. QED BY <1>1, <1>2 DEF PipesInv, PipesTyped

\* The job's first half is read.
LEMMA ReadStateInv == ASSUME PipesInv, Pipes!ReadState PROVE PipesInv'
<1>1. /\ mode = "background" /\ thread.at = "state"
         /\ UNCHANGED <<mode, head, job, draw, stop, drawn>>
      /\ UNCHANGED <<pipes, tail, running>>
  BY AtKeeps DEF Pipes!ReadState
<1>2. thread.at \in Reading
  BY <1>1 DEF Reading
<1>3. PICK new : new = [thread.job EXCEPT !.state = job[tail % Jobs].state]
  OBVIOUS
<1>4. new \in JobType /\ new.state = job[tail % Jobs].state
  BY <1>2, <1>3, Oldest DEF JobType
<1>5. thread' = [at |-> "slot", tail |-> tail, job |-> new]
  BY <1>2, <1>3, Oldest DEF Pipes!ReadState
<1>6. thread'.at = "slot" /\ thread'.job = new /\ thread'.at \in Reading
  BY <1>5 DEF Reading
<1>. QED BY <1>1, <1>2, <1>4, <1>5, <1>6, Oldest, ThreadMoves

\* The job's second half is read.
LEMMA ReadSlotInv == ASSUME PipesInv, Pipes!ReadSlot PROVE PipesInv'
<1>1. /\ mode = "background" /\ thread.at = "slot"
         /\ UNCHANGED <<mode, head, job, draw, stop, drawn>>
      /\ UNCHANGED <<pipes, tail, running>>
  BY AtKeeps DEF Pipes!ReadSlot
<1>2. thread.at \in Reading
  BY <1>1 DEF Reading
<1>3. PICK new : new = [thread.job EXCEPT !.slot = job[tail % Jobs].slot]
  OBVIOUS
<1>4. new \in JobType /\ new.slot = job[tail % Jobs].slot /\ new.state = thread.job.state
  BY <1>2, <1>3, Oldest DEF JobType
<1>5. thread' = [at |-> "take", tail |-> tail, job |-> new]
  BY <1>2, <1>3, Oldest DEF Pipes!ReadSlot
<1>6. thread'.at = "take" /\ thread'.job = new /\ thread'.at \in Reading
  BY <1>5 DEF Reading
<1>7. thread.job.state = job[tail % Jobs].state
  BY <1>1 DEF PipesInv, ThreadSide
<1>. QED BY <1>1, <1>2, <1>4, <1>5, <1>6, <1>7, Oldest, ThreadMoves

\* Taken, the job passes from the ring to the thread, whole.
LEMMA TakeInv == ASSUME PipesInv, Pipes!Take PROVE PipesInv'
<1>1. /\ mode = "background" /\ thread.at = "take"
         /\ UNCHANGED <<mode, head, job, draw, stop, drawn>>
      /\ UNCHANGED <<pipes, running>>
  BY AtKeeps DEF Pipes!Take
<1>2. thread.at \in Reading
  BY <1>1 DEF Reading
<1>3. tail' = tail + 1 /\ thread' = [at |-> "make", tail |-> tail + 1, job |-> thread.job]
  BY <1>2, Oldest DEF Pipes!Take
<1>4. /\ tail < head /\ tail \in Nat /\ head \in Nat
      /\ tail .. head - 1 = {tail} \cup (tail' .. head' - 1) /\ tail \notin tail' .. head' - 1
  BY <1>1, <1>2, <1>3, Oldest DEF PipesInv, PipesTyped
<1>5. /\ thread.job.slot = job[tail % Jobs].slot /\ thread.job.slot \in Shaped
      /\ thread.job.state = thread.job.slot[1]
  BY <1>1, <1>4 DEF PipesInv, ThreadSide, RingWhole
<1>6. running /\ draw.at # "gone"
  BY <1>1 DEF PipesInv, PipesPhases
<1>7. /\ head' \in Nat /\ tail' \in Nat /\ tail' <= head'
      /\ head' - tail' <= Jobs /\ (head - tail < Jobs => head' - tail' < Jobs)
  BY <1>1, <1>3, <1>4, PipeAssumption DEF PipesInv, PipesTyped
<1>8. PipesTyped' /\ PipesPhases'
  <2>1. thread' \in [at : {"look", "ended"} \cup Reading \cup Making, tail : Nat, job : JobType]
    BY <1>2, <1>3, <1>4, <1>7, Oldest DEF Making
  <2>2. PipesTyped'
    BY <1>1, <1>7, <2>1 DEF PipesInv, PipesTyped
  <2>3. PipesPhases'
    BY <1>1, <1>3, <1>6, <1>7 DEF PipesInv, PipesPhases, Pipes!Known
  <2>. QED BY <2>2, <2>3
<1>9. OwnMade' /\ Pipes!OwnPipe' /\ RingWhole'
  BY <1>1, <1>4 DEF PipesInv, OwnMade, Pipes!OwnPipe, RingWhole, Pipes!Known
<1>10. ThreadSide'
  BY <1>3, <1>5 DEF ThreadSide, Reading
<1>11. EachOnce'
  <2>1. /\ draw.at \in Writing => Owed(draw.of)
        /\ \A j \in tail .. head - 1 : Owed(job[j % Jobs].slot)
        /\ \A i, j \in tail .. head - 1 : job[i % Jobs].slot = job[j % Jobs].slot => i = j
        /\ draw.at \in Writing => ~Queued(draw.of)
        /\ \A s \in DOMAIN pipes : pipes[s].ready = 0 =>
              Queued(s) \/ Pipes!AtThread(s) \/ Pipes!AtDraw(s)
    BY <1>6 DEF PipesInv, EachOnce
  <2>2. \A s : (Owed(s)' <=> Owed(s)) /\ (Pipes!AtDraw(s)' <=> Pipes!AtDraw(s))
        /\ ~Pipes!AtThread(s)
    BY <1>1 DEF Owed, Pipes!AtDraw, Pipes!AtThread
  <2>3. \A s : Pipes!AtThread(s)' <=> s = thread.job.slot
    BY <1>3 DEF Pipes!AtThread
  <2>4. \A s : Queued(s) <=> Queued(s)' \/ s = thread.job.slot
    BY <1>1, <1>4, <1>5 DEF Queued
  <2>5. Queued(thread.job.slot)
    BY <2>4
  <2>6. ~\E j \in tail' .. head' - 1 : job'[j % Jobs].slot = thread.job.slot
    BY <1>1, <1>4, <1>5, <2>1
  <2>7. thread'.job.slot = thread.job.slot /\ ~Queued(thread.job.slot)'
    BY <1>3, <2>6 DEF Queued
  <2>8. Owed(thread.job.slot)'
    BY <1>1, <1>3, <1>4, <1>5, <2>1 DEF Owed
  <2>9. draw'.at \in Writing => Owed(draw.of)' /\ ~Queued(draw.of)' /\ ~Pipes!AtThread(draw.of)'
    <3>1. ASSUME NEW s, s = draw.of, draw.at \in Writing
          PROVE  Owed(s)' /\ ~Queued(s)' /\ ~Pipes!AtThread(s)'
      BY <2>1, <2>2, <2>3, <2>4, <3>1
    <3>. QED BY <1>1, <3>1 DEF Owed, Queued, Pipes!AtThread
  <2>10. \A j \in tail' .. head' - 1 : Owed(job[j % Jobs].slot)'
    BY <1>1, <1>4, <2>1 DEF Owed
  <2>11. \A i, j \in tail' .. head' - 1 : job'[i % Jobs].slot = job'[j % Jobs].slot => i = j
    BY <1>1, <1>4, <2>1
  <2>12. \A s \in DOMAIN pipes' :
            pipes'[s].ready = 0 => Queued(s)' \/ Pipes!AtThread(s)' \/ Pipes!AtDraw(s)'
    BY <1>1, <2>1, <2>2, <2>3, <2>4
  <2>. QED BY <2>7, <2>8, <2>9, <2>10, <2>11, <2>12 DEF EachOnce
<1>. QED BY <1>8, <1>9, <1>10, <1>11 DEF PipesInv

\* The thread's job while it is made.
LEMMA MakesOne ==
    ASSUME PipesInv, thread.at \in Making
    PROVE  /\ draw.at # "gone" /\ running
           /\ thread.job.slot \in Shaped /\ thread.job.slot \in DOMAIN pipes
           /\ thread.job.state = thread.job.slot[1] /\ thread.job.slot[2] # Pipes!Interp
           /\ pipes[thread.job.slot].ready = 0
           /\ pipes[thread.job.slot]
                = [pipe |-> pipes[thread.job.slot].pipe, ready |-> 0]
           /\ thread = [at |-> thread.at, tail |-> tail, job |-> thread.job]
           /\ thread.job \in JobType /\ tail \in Nat
<1>1. draw.at # "gone" /\ running
  BY DEF PipesInv, PipesPhases, Making
<1>2. thread.job.slot \in Shaped /\ thread.job.state = thread.job.slot[1]
  BY DEF PipesInv, ThreadSide
<1>3. Owed(thread.job.slot)
  BY <1>1 DEF PipesInv, EachOnce
<1>. QED BY <1>1, <1>2, <1>3, ShapedFacts DEF PipesInv, PipesTyped, ThreadSide, Owed

\* One slot's entry changes: made, failed, or given its pipeline.
LEMMA EntryInv ==
    ASSUME PipesInv, NEW slot, thread.at \in Making, slot = thread.job.slot,
           NEW entry, entry = [pipe |-> entry.pipe, ready |-> entry.ready],
           entry.ready \in {-1, 0, 1}, entry.ready = 1 => entry.pipe = slot,
           pipes' = [pipes EXCEPT ![slot] = entry],
           thread' = [at |-> thread'.at, tail |-> tail, job |-> thread.job],
           \/ thread'.at = "ready" /\ entry.ready = 0 /\ entry.pipe = slot
           \/ thread'.at = "look" /\ entry.ready # 0,
           mode = "background",
           UNCHANGED <<mode, head, job, draw, stop, drawn, tail, running>>
    PROVE  PipesInv'
<1>1. /\ slot \in Shaped /\ slot \in DOMAIN pipes /\ slot[2] # Pipes!Interp
      /\ draw.at # "gone" /\ running /\ thread.job \in JobType /\ tail \in Nat
  BY MakesOne
<1>2. /\ DOMAIN pipes' = DOMAIN pipes /\ pipes' = [s \in DOMAIN pipes' |-> pipes'[s]]
      /\ pipes'[slot] = entry
      /\ \A s \in DOMAIN pipes : s # slot => pipes'[s] = pipes[s]
  BY <1>1 DEF PipesInv, PipesTyped
<1>3. PipesTyped'
  <2>1. thread' \in [at : {"look", "ended"} \cup Reading \cup Making, tail : Nat, job : JobType]
    BY <1>1 DEF Making
  <2>. QED BY <1>2, <2>1 DEF PipesInv, PipesTyped
<1>4. PipesPhases'
  BY <1>1, <1>2 DEF PipesInv, PipesPhases, Pipes!Known
<1>5. OwnMade'
  BY <1>1, <1>2 DEF PipesInv, OwnMade
<1>6. Pipes!OwnPipe' /\ RingWhole'
  BY <1>2 DEF PipesInv, Pipes!OwnPipe, RingWhole, Pipes!Known
<1>7. ThreadSide'
  BY <1>1, <1>2 DEF PipesInv, ThreadSide, Reading, Making
<1>8. EachOnce'
  <2>1. /\ draw.at \in Writing => Owed(draw.of)
        /\ \A j \in tail .. head - 1 : Owed(job[j % Jobs].slot)
        /\ \A i, j \in tail .. head - 1 : job[i % Jobs].slot = job[j % Jobs].slot => i = j
        /\ draw.at \in Writing => ~Queued(draw.of) /\ ~Pipes!AtThread(draw.of)
        /\ ~Queued(slot)
        /\ \A s \in DOMAIN pipes : pipes[s].ready = 0 =>
              Queued(s) \/ Pipes!AtThread(s) \/ Pipes!AtDraw(s)
    BY <1>1 DEF PipesInv, EachOnce
  <2>2. \A s : s # slot => (Owed(s)' <=> Owed(s))
    BY <1>2 DEF Owed
  <2>3. \A s : (Queued(s)' <=> Queued(s)) /\ (Pipes!AtDraw(s)' <=> Pipes!AtDraw(s))
        /\ (Pipes!AtThread(s) <=> s = slot)
    BY DEF Queued, Pipes!AtDraw, Pipes!AtThread, Making
  <2>4. \A s : Pipes!AtThread(s)' => s = slot
    BY DEF Pipes!AtThread
  <2>5. draw.at \in Writing => draw.of # slot
    BY <2>1, <2>3
  <2>6. \A j \in tail .. head - 1 : job[j % Jobs].slot # slot
    BY <2>1 DEF Queued
  <2>7. draw'.at \in Writing => Owed(draw.of)' /\ ~Queued(draw.of)' /\ ~Pipes!AtThread(draw.of)'
    <3>1. ASSUME NEW s, s = draw.of, draw.at \in Writing
          PROVE  Owed(s)' /\ ~Queued(s)' /\ ~Pipes!AtThread(s)'
      BY <2>1, <2>2, <2>3, <2>4, <2>5, <3>1
    <3>. QED BY <3>1 DEF Owed, Queued, Pipes!AtThread
  <2>8. \A j \in tail' .. head' - 1 : Owed(job[j % Jobs].slot)'
    BY <2>1, <2>2, <2>6 DEF Owed
  <2>9. thread'.at \in Making => Owed(thread.job.slot)' /\ ~Queued(thread.job.slot)'
    BY <1>1, <1>2, <2>1 DEF Owed, Queued, Making
  <2>10. \A s \in DOMAIN pipes' :
            pipes'[s].ready = 0 => Queued(s)' \/ Pipes!AtThread(s)' \/ Pipes!AtDraw(s)'
    <3>1. ASSUME NEW s \in DOMAIN pipes', pipes'[s].ready = 0, s = slot
          PROVE  Pipes!AtThread(s)'
      BY <1>2, <3>1 DEF Pipes!AtThread
    <3>2. ASSUME NEW s \in DOMAIN pipes', pipes'[s].ready = 0, s # slot
          PROVE  Queued(s)' \/ Pipes!AtDraw(s)'
      BY <1>2, <2>1, <2>3, <3>2
    <3>. QED BY <3>1, <3>2
  <2>. QED BY <2>1, <2>7, <2>8, <2>9, <2>10 DEF EachOnce
<1>. QED BY <1>3, <1>4, <1>5, <1>6, <1>7, <1>8 DEF PipesInv

\* The pipeline is made and stored, or the driver fails.
LEMMA MakeInv == ASSUME PipesInv, Pipes!Make PROVE PipesInv'
<1>0. PICK slot : slot = thread.job.slot
  OBVIOUS
<1>1. /\ mode = "background" /\ thread.at = "make"
         /\ UNCHANGED <<mode, head, job, draw, stop, drawn>>
      /\ UNCHANGED <<tail, running>>
  BY AtKeeps DEF Pipes!Make
<1>2. thread.at \in Making
  BY <1>1 DEF Making
<1>3. /\ slot \in Shaped /\ slot \in DOMAIN pipes
      /\ thread.job.state = slot[1]
      /\ pipes[slot] = [pipe |-> pipes[slot].pipe, ready |-> 0]
      /\ thread = [at |-> thread.at, tail |-> tail, job |-> thread.job]
  BY <1>0, <1>2, MakesOne
<1>4. CASE /\ pipes' = [pipes EXCEPT ![slot].pipe = <<thread.job.state, slot[2]>>]
           /\ thread' = [thread EXCEPT !.at = "ready"]
  <2>1. PICK entry : entry = [pipe |-> slot, ready |-> 0]
    OBVIOUS
  <2>2. <<thread.job.state, slot[2]>> = slot
    BY <1>3, ShapedFacts
  <2>3. pipes' = [pipes EXCEPT ![slot] = entry]
    <3>1. [pipes[slot] EXCEPT !.pipe = slot] = entry
      BY <1>3, <2>1
    <3>2. pipes' = [pipes EXCEPT ![slot] = [pipes[slot] EXCEPT !.pipe = slot]]
      BY <1>4, <2>2
    <3>. QED BY <3>1, <3>2
  <2>4. thread' = [at |-> "ready", tail |-> tail, job |-> thread.job] /\ thread'.at = "ready"
    BY <1>3, <1>4
  <2>5. entry = [pipe |-> entry.pipe, ready |-> entry.ready] /\ entry.ready = 0 /\ entry.pipe = slot
    BY <2>1
  <2>. QED BY <1>0, <1>1, <1>2, <2>3, <2>4, <2>5, EntryInv
<1>5. CASE /\ pipes' = [pipes EXCEPT ![slot].ready = -1]
           /\ thread' = [thread EXCEPT !.at = "look"]
  <2>1. PICK entry : entry = [pipe |-> pipes[slot].pipe, ready |-> -1]
    OBVIOUS
  <2>2. pipes' = [pipes EXCEPT ![slot] = entry]
    <3>1. [pipes[slot] EXCEPT !.ready = -1] = entry
      BY <1>3, <2>1
    <3>2. pipes' = [pipes EXCEPT ![slot] = [pipes[slot] EXCEPT !.ready = -1]]
      BY <1>5
    <3>. QED BY <3>1, <3>2
  <2>3. thread' = [at |-> "look", tail |-> tail, job |-> thread.job] /\ thread'.at = "look"
    BY <1>3, <1>5
  <2>4. entry = [pipe |-> entry.pipe, ready |-> entry.ready] /\ entry.ready = -1
    BY <2>1
  <2>5. entry.ready \in {-1, 0, 1} /\ entry.ready # 0 /\ entry.ready # 1
    BY <2>4
  <2>. QED BY <1>0, <1>1, <1>2, <2>2, <2>3, <2>4, <2>5, EntryInv
<1>. QED BY <1>0, <1>4, <1>5 DEF Pipes!Make

\* What is stored is said to be ready.
LEMMA ReadyInv == ASSUME PipesInv, Pipes!Ready PROVE PipesInv'
<1>0. PICK slot : slot = thread.job.slot
  OBVIOUS
<1>1. /\ mode = "background" /\ thread.at = "ready"
         /\ UNCHANGED <<mode, head, job, draw, stop, drawn>>
      /\ UNCHANGED <<tail, running>>
  BY AtKeeps DEF Pipes!Ready
<1>2. thread.at \in Making
  BY <1>1 DEF Making
<1>3. /\ slot \in DOMAIN pipes /\ pipes[slot].pipe = slot /\ pipes[slot].ready = 0
      /\ pipes[slot] = [pipe |-> pipes[slot].pipe, ready |-> 0]
      /\ thread = [at |-> thread.at, tail |-> tail, job |-> thread.job]
  BY <1>0, <1>1, <1>2, MakesOne DEF PipesInv, ThreadSide
<1>4. PICK entry : entry = [pipe |-> slot, ready |-> 1]
  OBVIOUS
<1>5. pipes' = [pipes EXCEPT ![slot] = entry]
  <2>1. [pipes[slot] EXCEPT !.ready = 1] = entry
    BY <1>3, <1>4
  <2>2. pipes' = [pipes EXCEPT ![slot].ready = IF @ = 0 THEN 1 ELSE @]
    BY <1>0 DEF Pipes!Ready
  <2>3. pipes' = [pipes EXCEPT ![slot] = [pipes[slot] EXCEPT !.ready = 1]]
    BY <1>3, <2>2
  <2>. QED BY <2>1, <2>3
<1>6. thread' = [at |-> "look", tail |-> tail, job |-> thread.job] /\ thread'.at = "look"
  BY <1>3 DEF Pipes!Ready
<1>7. entry = [pipe |-> entry.pipe, ready |-> entry.ready] /\ entry.ready = 1 /\ entry.pipe = slot
  BY <1>4
<1>8. entry.ready \in {-1, 0, 1} /\ entry.ready # 0
  BY <1>7
<1>. QED BY <1>0, <1>1, <1>2, <1>5, <1>6, <1>7, <1>8, EntryInv

-----------------------------------------------------------------------------
(* The theorems.                                                              *)

\* A step that changes nothing.
LEMMA PipesStutterInv == ASSUME PipesInv, UNCHANGED Pipes!vars PROVE PipesInv'
BY DEF Pipes!vars, PipesInv, PipesTyped, PipesPhases, OwnMade, RingWhole, ThreadSide, EachOnce,
       Pipes!OwnPipe, Owed, Queued,
       Pipes!AtThread, Pipes!AtDraw, Pipes!Known

\* Every step of either side keeps the invariant.
LEMMA PipesNextInv == ASSUME PipesInv, [Pipes!Next]_Pipes!vars PROVE PipesInv'
<1>1. CASE Pipes!DrawPath
  BY <1>1, AskInv, FindInv, MakeHereInv, FillSlotInv, JobStateInv, JobSlotInv, PublishInv,
     InterpretInv, StopInv, DestroyInv DEF Pipes!DrawPath
<1>2. CASE Pipes!Thread
  BY <1>2, LookInv, ReadStateInv, ReadSlotInv, TakeInv, MakeInv, ReadyInv DEF Pipes!Thread
<1>. QED BY <1>1, <1>2, PipesStutterInv DEF Pipes!Next

\* Distinct holders, one at a time: the counting that MadeOnce asks for.
LEMMA InvMadeOnce == PipesInv => Pipes!MadeOnce
<1>. SUFFICES ASSUME PipesInv, draw.at # "gone", NEW slot \in DOMAIN pipes
              PROVE  Pipes!OnTheWay(slot) = IF pipes[slot].ready = 0 THEN 1 ELSE 0
  BY DEF Pipes!MadeOnce
<1>1. /\ draw.at \in Writing => Owed(draw.of)
      /\ \A j \in tail .. head - 1 : Owed(job[j % Jobs].slot)
      /\ thread.at \in Making => Owed(thread.job.slot)
      /\ \A i, j \in tail .. head - 1 : job[i % Jobs].slot = job[j % Jobs].slot => i = j
      /\ draw.at \in Writing => ~Queued(draw.of) /\ ~Pipes!AtThread(draw.of)
      /\ thread.at \in Making => ~Queued(thread.job.slot)
      /\ \A s \in DOMAIN pipes : pipes[s].ready = 0 =>
            Queued(s) \/ Pipes!AtThread(s) \/ Pipes!AtDraw(s)
  BY DEF PipesInv, EachOnce
<1>2. ~Queued(slot) => Cardinality(Pipes!InRing(slot)) = 0
  <2>1. ~Queued(slot) => Pipes!InRing(slot) = {}
    BY DEF Queued, Pipes!InRing
  <2>. QED BY <2>1, FS_EmptySet
<1>3. Queued(slot) => Cardinality(Pipes!InRing(slot)) = 1
  <2>1. SUFFICES ASSUME Queued(slot) PROVE Cardinality(Pipes!InRing(slot)) = 1
    OBVIOUS
  <2>2. PICK j \in tail .. head - 1 : job[j % Jobs].slot = slot
    BY <2>1 DEF Queued
  <2>3. Pipes!InRing(slot) = {j}
    BY <1>1, <2>2 DEF Pipes!InRing
  <2>. QED BY <2>3, FS_Singleton
<1>4. /\ Queued(slot) => ~Pipes!AtThread(slot) /\ ~Pipes!AtDraw(slot)
      /\ Pipes!AtThread(slot) => ~Pipes!AtDraw(slot)
  BY <1>1 DEF Pipes!AtThread, Pipes!AtDraw, Making, Writing
<1>5. pipes[slot].ready # 0 => ~Queued(slot) /\ ~Pipes!AtThread(slot) /\ ~Pipes!AtDraw(slot)
  BY <1>1 DEF Queued, Pipes!AtThread, Pipes!AtDraw, Making, Writing, Owed
<1>0. Pipes!Cardinality(Pipes!InRing(slot)) = Cardinality(Pipes!InRing(slot))
  BY DEF Cardinality, Pipes!Cardinality
<1>6. CASE pipes[slot].ready # 0
  BY <1>0, <1>2, <1>5, <1>6 DEF Pipes!OnTheWay
<1>7. CASE pipes[slot].ready = 0
  BY <1>0, <1>1, <1>2, <1>3, <1>4, <1>7 DEF Pipes!OnTheWay
<1>. QED BY <1>6, <1>7

\* The inductive invariant: jobs stand whole, and each has one holder.
THEOREM PipesInvariant == Pipes!Spec => []PipesInv
<1>1. Pipes!Init => PipesInv
  BY PipesInitInv
<1>2. PipesInv /\ [Pipes!Next]_Pipes!vars => PipesInv'
  BY PipesNextInv
<1>. QED BY <1>1, <1>2, PTL DEF Pipes!Spec

\* A draw is given its own shape's pipeline, made of its own state, or its
\* interpreter, and a slot that is filled in is made once: pipeline() and
\* compiler_main, whatever of their steps interleave.
THEOREM OwnPipelines == Pipes!Spec => []Pipes!DrawnWithItsOwn
<1>1. PipesInv => Pipes!DrawnWithItsOwn
  BY InvMadeOnce DEF PipesInv, Pipes!DrawnWithItsOwn
<1>. QED BY <1>1, PipesInvariant, PTL

\* Of the whole too, where the compiler's steps need not be fair.
LEMMA WholeKeepsPipes == GuestSpec => []PipesInv
<1>1. GuestInit => PipesInv
  BY PipesInitInv DEF GuestInit
<1>2. PipesInv /\ [GuestNext]_guestVars => PipesInv'
  <2>. SUFFICES ASSUME [GuestNext]_guestVars PROVE [Pipes!Next]_Pipes!vars
    BY PipesNextInv
  <2>1. Pipes!Next \/ UNCHANGED pipeVars
    BY DEF GuestNext, Beside, guestVars
  <2>. QED BY <2>1 DEF pipeVars, Pipes!vars
<1>. QED BY <1>1, <1>2, PTL DEF GuestSpec

\* Of the whole: a draw gets its own shape's pipeline or its state's interpreter.
THEOREM DrawnWithItsOwnHolds == GuestSpec => []DrawnWithItsOwn
<1>1. Pipes!DrawnWithItsOwn => DrawnWithItsOwn
  BY DEF DrawnWithItsOwn
<1>2. PipesInv => Pipes!DrawnWithItsOwn
  BY InvMadeOnce DEF PipesInv, Pipes!DrawnWithItsOwn
<1>. QED BY <1>1, <1>2, WholeKeepsPipes, PTL

-----------------------------------------------------------------------------
(* The frames in flight: what the consumer and the GPU hold.                *)

\* The least and the greatest of a set of numbers.
LEMMA MinIs ==
    ASSUME NEW S, S \subseteq Nat, S # {}
    PROVE  Gpu!Min(S) \in S /\ \A y \in S : Gpu!Min(S) <= y
<1>. DEFINE R == {p \in Nat \X Nat : p[1] < p[2]}
<1>1. IsWellFoundedOn(R, Nat)
  <2>1. R = OpToRel(<, Nat)
    BY DEF OpToRel
  <2>. HIDE DEF R
  <2>. QED BY <2>1, NatLessThanWellFounded
<1>2. PICK x \in S : \A y \in S : <<y, x>> \notin R
  <2>. HIDE DEF R
  <2>. QED BY <1>1, WFMin
<1>3. \A y \in S : x <= y
  <2>1. \A y \in S : y \in Nat /\ x \in Nat /\ (y < x => <<y, x>> \in R)
    OBVIOUS
  <2>2. \A y \in S : ~(y < x)
    BY <1>2, <2>1
  <2>. HIDE DEF R
  <2>. QED BY <2>1, <2>2
<1>. HIDE DEF R
<1>. QED BY <1>2, <1>3 DEF Gpu!Min

LEMMA MaxIs ==
    ASSUME NEW n \in Nat, NEW S, S \subseteq 0 .. n, S # {}
    PROVE  Gpu!Max(S) \in S /\ \A y \in S : y <= Gpu!Max(S)
<1>. DEFINE T == {y \in Nat : n - y \in S}
<1>1. T # {}
  <2>1. PICK x \in S : TRUE
    OBVIOUS
  <2>2. n - x \in Nat /\ n - (n - x) = x
    BY <2>1
  <2>. QED BY <2>1, <2>2
<1>2. Gpu!Min(T) \in T /\ \A y \in T : Gpu!Min(T) <= y
  <2>1. T \subseteq Nat
    OBVIOUS
  <2>. HIDE DEF T
  <2>. QED BY <1>1, <2>1, MinIs
<1>3. n - Gpu!Min(T) \in S /\ Gpu!Min(T) \in Nat
  BY <1>2
<1>4. \A y \in S : y <= n - Gpu!Min(T)
  <2>1. SUFFICES ASSUME NEW y \in S PROVE y <= n - Gpu!Min(T)
    OBVIOUS
  <2>2. n - y \in Nat /\ n - (n - y) = y /\ y \in Nat
    BY <2>1
  <2>3. n - y \in T
    BY <2>1, <2>2
  <2>. QED BY <1>2, <1>3, <2>2, <2>3
<1>. QED BY <1>3, <1>4 DEF Gpu!Max

Content == [kind : {"texture", "copy"}, n : Nat]
Entry == [content : Content, at : 1 .. HalfRoom]
Sampling == [op : {"sample", "image"}, at : 1 .. HalfRoom, want : Content]
Carrying == [op : {"carry"}, at : 1 .. HalfRoom, from : 1 .. HalfRoom]
Picturing == [op : {"real", "mid"}, slot : 0 .. 2, frame : Nat]
Op == Sampling \cup Carrying \cup Picturing
Bytes == UNION {[D -> Nat] : D \in SUBSET Gpu!Cells}
Landing == [seq : Nat, bytes : Bytes, image : BOOLEAN]
Screen == [slot : 0 .. 2, frame : Nat]
State == [cur : Gpu!Slots, rec : [Gpu!Slots -> BOOLEAN], inflight : [Gpu!Slots -> BOOLEAN],
          done : [Gpu!Slots -> BOOLEAN], ops : [Gpu!Slots -> Seq(Op)],
          lands : [Gpu!Slots -> Seq(Landing)],
          cimg : [Gpu!Slots -> SUBSET Entry], deliver : [Gpu!Slots -> SUBSET Screen],
          publish : [Gpu!Slots -> BOOLEAN], carried : [Gpu!Slots -> SUBSET (1 .. HalfRoom)],
          used : 0 .. HalfRoom, resident : SUBSET Entry,
          pool : [Gpu!Slots -> [1 .. HalfRoom -> Content]], ram : [Gpu!Cells -> Nat],
          filled : SUBSET Nat, said : Nat, back : 0 .. 2, middle : 0 .. 2, fresh : BOOLEAN,
          real : [0 .. 2 -> Nat], mid : [0 .. 2 -> Nat], has : [0 .. 2 -> BOOLEAN],
          screen : [is : Nat, due : Nat], missed : BOOLEAN]
Fields == {"cur", "rec", "inflight", "done", "ops", "lands", "cimg", "deliver", "publish",
           "carried", "used", "resident", "pool", "ram", "filled", "said", "back", "middle",
           "fresh", "real", "mid", "has", "screen", "missed"}
\* k differs from h in the fields of F alone.
Same(h, k, F) == \A f \in Fields \ F : k[f] = h[f]

Writes(o, a) == o.op \in {"image", "carry"} /\ o.at = a
Untouched(cmds, a) == \A j \in DOMAIN cmds : ~Writes(cmds[j], a)

\* The slots, two or one.
LEMMA SlotsAre ==
    /\ 0 \in Gpu!Slots /\ Gpu!Slots \subseteq {0, 1}
    /\ NSlots = 2 => Gpu!Slots = {0, 1}
    /\ NSlots = 1 => Gpu!Slots = {0}
BY GpuAssumption DEF Gpu!Slots

\* The other slot, where there is one.
LEMMA OtherIs ==
    ASSUME NEW h \in State
    PROVE  /\ Gpu!Other(h) \in Gpu!Slots
           /\ Gpu!Other(h) # h.cur <=> NSlots = 2
           /\ \A s \in Gpu!Slots : s = h.cur \/ s = Gpu!Other(h)
           /\ NSlots = 2 => Gpu!Other(h) = 1 - h.cur /\ h.cur = 1 - Gpu!Other(h)
<1>1. h.cur \in Gpu!Slots
  BY DEF State
<1>2. NSlots \in {1, 2}
  BY GpuAssumption
<1>. QED BY <1>1, <1>2, SlotsAre DEF Gpu!Other

\* What a command to the GPU names.
LEMMA OpFields ==
    ASSUME NEW o \in Op
    PROVE  /\ o.op \in {"sample", "image", "carry", "real", "mid"}
           /\ o.op \in {"sample", "image"} => o.at \in 1 .. HalfRoom /\ o.want \in Content
           /\ o.op = "carry" => o.at \in 1 .. HalfRoom /\ o.from \in 1 .. HalfRoom
           /\ o.op \in {"real", "mid"} => o.slot \in 0 .. 2 /\ o.frame \in Nat
BY DEF Op, Sampling, Carrying, Picturing

\* The commands of a slot.
LEMMA OpsAre ==
    ASSUME NEW h \in State, NEW s \in Gpu!Slots
    PROVE  /\ Len(h.ops[s]) \in Nat /\ DOMAIN h.ops[s] = 1 .. Len(h.ops[s])
           /\ \A j \in DOMAIN h.ops[s] : h.ops[s][j] \in Op
           /\ \A j \in DOMAIN h.ops[s] : j \in Nat \ {0}
<1>1. h.ops[s] \in Seq(Op)
  BY DEF State
<1>. QED BY <1>1

-----------------------------------------------------------------------------
(* The GPU runs a slot; a slot is finished.                                 *)

\* What a place holds is what an operation wrote there, or what was there.
LEMMA HeldIs ==
    ASSUME NEW h \in State, NEW s \in Gpu!Slots, NEW i \in Nat, i <= Len(h.ops[s]) + 1, NEW a
    PROVE  \/ /\ \A j \in 1 .. i - 1 : ~Writes(h.ops[s][j], a)
              /\ Gpu!Held(h, s, i, a) = h.pool[s][a]
           \/ \E j \in 1 .. i - 1 :
                 /\ Writes(h.ops[s][j], a)
                 /\ h.ops[s][j].op = "image" => Gpu!Held(h, s, i, a) = h.ops[s][j].want
                 /\ h.ops[s][j].op = "carry"
                       => Gpu!Held(h, s, i, a) = h.pool[1 - s][h.ops[s][j].from]
<1>. DEFINE wrote == {j \in 1 .. i - 1 : h.ops[s][j].op \in {"image", "carry"}
                                         /\ h.ops[s][j].at = a}
<1>1. CASE wrote = {}
  BY <1>1 DEF Gpu!Held, Writes
<1>2. CASE wrote # {}
  <2>1. Gpu!Max(wrote) \in wrote
    <3>1. wrote \subseteq 0 .. i - 1 /\ i - 1 \in Nat
      BY <1>2
    <3>. HIDE DEF wrote
    <3>. QED BY <1>2, <3>1, MaxIs
  <2>2. Gpu!Held(h, s, i, a) = IF h.ops[s][Gpu!Max(wrote)].op = "image"
                               THEN h.ops[s][Gpu!Max(wrote)].want
                               ELSE h.pool[1 - s][h.ops[s][Gpu!Max(wrote)].from]
    BY <1>2 DEF Gpu!Held
  <2>. QED BY <2>1, <2>2 DEF Writes
<1>. QED BY <1>1, <1>2

\* A screen picture is of the last command that drew it, or as it was.
LEMMA DrawnIs ==
    ASSUME NEW h \in State, NEW s \in Gpu!Slots, NEW op, NEW t
    PROVE  \/ /\ \A j \in DOMAIN h.ops[s] : ~(h.ops[s][j].op = op /\ h.ops[s][j].slot = t)
              /\ Gpu!Drawn(h, s, op, t) = h[op][t]
           \/ \E j \in DOMAIN h.ops[s] :
                 /\ h.ops[s][j].op = op /\ h.ops[s][j].slot = t
                 /\ Gpu!Drawn(h, s, op, t) = h.ops[s][j].frame
<1>. DEFINE wrote == {j \in DOMAIN h.ops[s] : h.ops[s][j].op = op /\ h.ops[s][j].slot = t}
<1>1. CASE wrote = {}
  BY <1>1 DEF Gpu!Drawn
<1>2. CASE wrote # {}
  <2>1. Gpu!Max(wrote) \in wrote
    <3>1. wrote \subseteq 0 .. Len(h.ops[s]) /\ Len(h.ops[s]) \in Nat
      BY OpsAre
    <3>. HIDE DEF wrote
    <3>. QED BY <1>2, <3>1, MaxIs
  <2>. QED BY <1>2, <2>1 DEF Gpu!Drawn
<1>. QED BY <1>1, <1>2

\* A carry takes two slots.
Paired(h, s) == \A j \in DOMAIN h.ops[s] : h.ops[s][j].op = "carry" => NSlots = 2

LEMMA RanTyped ==
    ASSUME NEW h \in State, NEW m \in BOOLEAN, NEW p \in [Gpu!Slots -> [1 .. HalfRoom -> Content]],
           NEW r \in [0 .. 2 -> Nat], NEW i \in [0 .. 2 -> Nat], NEW d \in [Gpu!Slots -> BOOLEAN],
           NEW o \in [Gpu!Slots -> Seq(Op)]
    PROVE  [h EXCEPT !.missed = m, !.pool = p, !.real = r, !.mid = i, !.done = d, !.ops = o]
              \in State
BY DEF State

\* What running a slot changes.
LEMMA RanIs ==
    ASSUME NEW h \in State, NEW s \in Gpu!Slots, h.done[s] => h.ops[s] = <<>>, Paired(h, s)
    PROVE  /\ Gpu!Ran(h, s) \in State
           /\ Same(h, Gpu!Ran(h, s), {"ops", "pool", "missed", "real", "mid", "done"})
           /\ Gpu!Ran(h, s).ops = [h.ops EXCEPT ![s] = <<>>]
           /\ \A t \in Gpu!Slots : t # s => Gpu!Ran(h, s).done[t] = h.done[t]
           /\ Gpu!Ran(h, s).pool = [h.pool EXCEPT ![s] =
                      [a \in 1 .. HalfRoom |-> Gpu!Held(h, s, Len(h.ops[s]) + 1, a)]]
           /\ Gpu!Ran(h, s).missed <=> h.missed \/ Gpu!Missed(h, s)
           /\ Gpu!Ran(h, s).real = [t \in 0 .. 2 |-> Gpu!Drawn(h, s, "real", t)]
           /\ Gpu!Ran(h, s).mid = [t \in 0 .. 2 |-> Gpu!Drawn(h, s, "mid", t)]
<1>. DEFINE held == [a \in 1 .. HalfRoom |-> Gpu!Held(h, s, Len(h.ops[s]) + 1, a)]
            pool == [h.pool EXCEPT ![s] = held]
            cmds == [h.ops EXCEPT ![s] = <<>>]
            real == [t \in 0 .. 2 |-> Gpu!Drawn(h, s, "real", t)]
            mid == [t \in 0 .. 2 |-> Gpu!Drawn(h, s, "mid", t)]
<1>1. CASE h.done[s]
  <2>1. h.ops[s] = <<>> /\ Len(h.ops[s]) + 1 = 1 /\ DOMAIN h.ops[s] = {}
    BY <1>1
  <2>2. \A a : Gpu!Held(h, s, Len(h.ops[s]) + 1, a) = h.pool[s][a]
    BY <2>1 DEF Gpu!Held
  <2>3. \A t : Gpu!Drawn(h, s, "real", t) = h.real[t] /\ Gpu!Drawn(h, s, "mid", t) = h.mid[t]
    BY <2>1 DEF Gpu!Drawn
  <2>4. ~Gpu!Missed(h, s)
    BY <2>1 DEF Gpu!Missed
  <2>5. Gpu!Ran(h, s) = h
    BY <1>1 DEF Gpu!Ran
  <2>6. h.ops = [h.ops EXCEPT ![s] = <<>>]
    BY <2>1 DEF State
  <2>7. /\ h.pool = [h.pool EXCEPT ![s] = held]
        /\ h.real = real /\ h.mid = mid
    <3>1. held = h.pool[s]
      BY <2>2 DEF State
    <3>2. h.pool = [h.pool EXCEPT ![s] = held]
      BY <3>1 DEF State
    <3>. QED BY <2>3, <3>2 DEF State
  <2>. QED BY <2>4, <2>5, <2>6, <2>7 DEF Same
<1>2. CASE ~h.done[s]
  <2>1. pool \in [Gpu!Slots -> [1 .. HalfRoom -> Content]]
    <3>1. SUFFICES ASSUME NEW a \in 1 .. HalfRoom
                   PROVE  Gpu!Held(h, s, Len(h.ops[s]) + 1, a) \in Content
      BY DEF State
    <3>2. Len(h.ops[s]) \in Nat /\ DOMAIN h.ops[s] = 1 .. Len(h.ops[s])
          /\ \A j \in DOMAIN h.ops[s] : h.ops[s][j] \in Op
          /\ Len(h.ops[s]) + 1 - 1 = Len(h.ops[s]) /\ Len(h.ops[s]) + 1 \in Nat
          /\ Len(h.ops[s]) + 1 <= Len(h.ops[s]) + 1
      BY OpsAre
    <3>3. /\ h.pool[s][a] \in Content
          /\ NSlots = 2 => \A b \in 1 .. HalfRoom : h.pool[1 - s][b] \in Content
      <4>1. NSlots = 2 => 1 - s \in Gpu!Slots
        BY SlotsAre
      <4>2. h.pool \in [Gpu!Slots -> [1 .. HalfRoom -> Content]]
        BY DEF State
      <4>. QED BY <4>1, <4>2
    <3>. DEFINE v == Gpu!Held(h, s, Len(h.ops[s]) + 1, a)
                From(j) == /\ Writes(h.ops[s][j], a)
                           /\ h.ops[s][j].op = "image" => v = h.ops[s][j].want
                           /\ h.ops[s][j].op = "carry" => v = h.pool[1 - s][h.ops[s][j].from]
    <3>4. CASE v = h.pool[s][a]
      BY <3>3, <3>4
    <3>5. ASSUME NEW j \in 1 .. Len(h.ops[s]), From(j) PROVE v \in Content
      <4>1. h.ops[s][j] \in Op
        BY <3>2
      <4>. HIDE DEF v
      <4>. QED BY <3>2, <3>3, <3>5, <4>1, OpFields DEF Paired, Writes
    <3>6. v = h.pool[s][a] \/ \E j \in 1 .. Len(h.ops[s]) : From(j)
      <4>1. PICK i \in Nat : i = Len(h.ops[s]) + 1
        BY <3>2
      <4>2. i - 1 = Len(h.ops[s]) /\ i <= Len(h.ops[s]) + 1
        BY <3>2, <4>1
      <4>3. \/ Gpu!Held(h, s, i, a) = h.pool[s][a]
            \/ \E j \in 1 .. i - 1 :
                 /\ Writes(h.ops[s][j], a)
                 /\ h.ops[s][j].op = "image" => Gpu!Held(h, s, i, a) = h.ops[s][j].want
                 /\ h.ops[s][j].op = "carry"
                       => Gpu!Held(h, s, i, a) = h.pool[1 - s][h.ops[s][j].from]
        <5>1. \/ /\ \A j \in 1 .. i - 1 : ~Writes(h.ops[s][j], a)
                 /\ Gpu!Held(h, s, i, a) = h.pool[s][a]
              \/ \E j \in 1 .. i - 1 :
                 /\ Writes(h.ops[s][j], a)
                 /\ h.ops[s][j].op = "image" => Gpu!Held(h, s, i, a) = h.ops[s][j].want
                 /\ h.ops[s][j].op = "carry"
                       => Gpu!Held(h, s, i, a) = h.pool[1 - s][h.ops[s][j].from]
          BY <4>2, HeldIs
        <5>. QED BY <5>1
      <4>4. Gpu!Held(h, s, i, a) = v
        BY <4>1
      <4>. HIDE DEF v
      <4>. QED BY <4>2, <4>3, <4>4
    <3>7. ASSUME v \notin Content PROVE FALSE
      <4>1. v # h.pool[s][a]
        BY <3>4, <3>7
      <4>2. \E j \in 1 .. Len(h.ops[s]) : From(j)
        <5>. HIDE DEF v, From
        <5>. QED BY <3>6, <4>1
      <4>3. PICK j \in 1 .. Len(h.ops[s]) : From(j)
        BY <4>2
      <4>. QED BY <3>5, <3>7, <4>3
    <3>. QED BY <3>7
  <2>2. cmds \in [Gpu!Slots -> Seq(Op)]
    BY DEF State
  <2>3. \A t \in 0 .. 2 : Gpu!Drawn(h, s, "real", t) \in Nat /\ Gpu!Drawn(h, s, "mid", t) \in Nat
    <3>1. SUFFICES ASSUME NEW t \in 0 .. 2, NEW op \in {"real", "mid"}
                   PROVE  Gpu!Drawn(h, s, op, t) \in Nat
      OBVIOUS
    <3>2. h[op][t] \in Nat
      BY DEF State
    <3>3. \A j \in DOMAIN h.ops[s] : h.ops[s][j].op = op => h.ops[s][j].frame \in Nat
      BY OpsAre, OpFields
    <3>. QED BY <3>2, <3>3, DrawnIs
  <2>4. real \in [0 .. 2 -> Nat] /\ mid \in [0 .. 2 -> Nat]
    BY <2>3
  <2>0. PICK missed \in BOOLEAN : missed = (h.missed \/ Gpu!Missed(h, s))
    OBVIOUS
  <2>. DEFINE done == [h.done EXCEPT ![s] = TRUE]
  <2>5. done \in [Gpu!Slots -> BOOLEAN]
    BY DEF State
  <2>6. Gpu!Ran(h, s) = [h EXCEPT !.missed = missed, !.pool = pool, !.real = real, !.mid = mid,
                                  !.done = done, !.ops = cmds]
    BY <1>2, <2>0 DEF Gpu!Ran, State
  <2>. HIDE DEF pool, cmds, real, mid, done
  <2>7. Gpu!Ran(h, s) \in State
    <3>1. [h EXCEPT !.missed = missed, !.pool = pool, !.real = real, !.mid = mid,
                    !.done = done, !.ops = cmds] \in State
      BY <2>1, <2>2, <2>4, <2>5, RanTyped
    <3>. QED BY <2>6, <3>1
  <2>8. Same(h, Gpu!Ran(h, s), {"ops", "pool", "missed", "real", "mid", "done"})
    BY <2>6 DEF State, Same, Fields
  <2>9. /\ Gpu!Ran(h, s).ops = cmds /\ Gpu!Ran(h, s).pool = pool /\ Gpu!Ran(h, s).missed = missed
        /\ Gpu!Ran(h, s).real = real /\ Gpu!Ran(h, s).mid = mid /\ Gpu!Ran(h, s).done = done
    BY <2>6 DEF State
  <2>10. \A t \in Gpu!Slots : t # s => done[t] = h.done[t]
    BY DEF done, State
  <2>. QED BY <2>0, <2>7, <2>8, <2>9, <2>10 DEF pool, cmds, real, mid
<1>. QED BY <1>1, <1>2

\* The copies a slot has still to land.
LEMMA LandsAre ==
    ASSUME NEW h \in State, NEW s \in Gpu!Slots
    PROVE  /\ Len(h.lands[s]) \in Nat /\ DOMAIN h.lands[s] = 1 .. Len(h.lands[s])
           /\ h.lands[s] \in Seq(Landing)
           /\ \A j \in DOMAIN h.lands[s] :
                 /\ h.lands[s][j] \in Landing /\ h.lands[s][j].seq \in Nat
                 /\ h.lands[s][j].image \in BOOLEAN
                 /\ \A c \in DOMAIN h.lands[s][j].bytes : h.lands[s][j].bytes[c] \in Nat
           /\ h.lands[s] = <<>> <=> DOMAIN h.lands[s] = {}
           /\ h.lands[s] # <<>> => 1 \in DOMAIN h.lands[s]
<1>1. h.lands[s] \in Seq(Landing)
  BY DEF State
<1>2. \A l \in Landing : /\ l.seq \in Nat /\ l.image \in BOOLEAN
                         /\ \A c \in DOMAIN l.bytes : l.bytes[c] \in Nat
  BY DEF Landing, Bytes
<1>3. \A q \in Seq(Landing) : /\ Len(q) \in Nat /\ DOMAIN q = 1 .. Len(q)
                              /\ \A j \in DOMAIN q : q[j] \in Landing
                              /\ q = <<>> <=> Len(q) = 0
  OBVIOUS
<1>4. Len(h.lands[s]) \in Nat /\ (h.lands[s] = <<>> <=> Len(h.lands[s]) = 0)
      /\ DOMAIN h.lands[s] = 1 .. Len(h.lands[s])
  BY <1>1, <1>3
<1>5. /\ h.lands[s] = <<>> <=> DOMAIN h.lands[s] = {}
      /\ h.lands[s] # <<>> => 1 \in DOMAIN h.lands[s]
  BY <1>4
<1>. QED BY <1>1, <1>2, <1>3, <1>4, <1>5

\* The copies of a slot whose images a draw may name.
LEMMA ImagesAre ==
    ASSUME NEW h \in State, NEW s \in Gpu!Slots
    PROVE  /\ Gpu!ImagesOf(h.lands[s]) \subseteq Nat
           /\ \A n : n \in Gpu!ImagesOf(h.lands[s]) <=>
                 \E i \in DOMAIN h.lands[s] : h.lands[s][i].image /\ h.lands[s][i].seq = n
<1>1. Gpu!ToSet(h.lands[s]) = {h.lands[s][i] : i \in DOMAIN h.lands[s]}
  BY DEF Gpu!ToSet
<1>. QED BY <1>1, LandsAre DEF Gpu!ImagesOf

\* A cell after a slot's copies land.
LEMMA LandedIs ==
    ASSUME NEW h \in State, NEW s \in Gpu!Slots, NEW c
    PROVE  \/ /\ \A i \in DOMAIN h.lands[s] : c \notin DOMAIN h.lands[s][i].bytes
              /\ Gpu!Landed(h, s, c) = h.ram[c]
           \/ \E i \in DOMAIN h.lands[s] : /\ c \in DOMAIN h.lands[s][i].bytes
                                          /\ Gpu!Landed(h, s, c) = h.lands[s][i].bytes[c]
<1>. DEFINE over == {i \in DOMAIN h.lands[s] : c \in DOMAIN h.lands[s][i].bytes}
<1>1. CASE over = {}
  BY <1>1 DEF Gpu!Landed
<1>2. CASE over # {}
  <2>1. Gpu!Max(over) \in over
    <3>1. over \subseteq 0 .. Len(h.lands[s]) /\ Len(h.lands[s]) \in Nat
      BY LandsAre
    <3>. HIDE DEF over
    <3>. QED BY <1>2, <3>1, MaxIs
  <2>2. Gpu!Landed(h, s, c) = h.lands[s][Gpu!Max(over)].bytes[c]
    BY <1>2 DEF Gpu!Landed
  <2>. QED BY <2>1, <2>2
<1>. QED BY <1>1, <1>2

\* Landing a slot's copies.
LEMMA LandSlotIs ==
    ASSUME NEW h \in State, NEW s \in Gpu!Slots
    PROVE  /\ Gpu!LandSlot(h, s) \in State
           /\ Same(h, Gpu!LandSlot(h, s), {"ram", "filled", "lands", "cimg"})
           /\ Gpu!LandSlot(h, s).ram = [c \in Gpu!Cells |-> Gpu!Landed(h, s, c)]
           /\ Gpu!LandSlot(h, s).filled = h.filled \cup Gpu!ImagesOf(h.lands[s])
           /\ Gpu!LandSlot(h, s).lands = [h.lands EXCEPT ![s] = <<>>]
           /\ Gpu!LandSlot(h, s).cimg = [h.cimg EXCEPT ![s] = {}]
<1>. DEFINE ram == [c \in Gpu!Cells |-> Gpu!Landed(h, s, c)]
            filled == h.filled \cup Gpu!ImagesOf(h.lands[s])
            lands == [h.lands EXCEPT ![s] = <<>>]
            cimg == [h.cimg EXCEPT ![s] = {}]
<1>1. ram \in [Gpu!Cells -> Nat]
  <2>1. \A c \in Gpu!Cells : h.ram[c] \in Nat
    BY DEF State
  <2>2. \A i \in DOMAIN h.lands[s] : \A c \in DOMAIN h.lands[s][i].bytes :
           h.lands[s][i].bytes[c] \in Nat
    BY LandsAre
  <2>3. \A c \in Gpu!Cells : Gpu!Landed(h, s, c) \in Nat
    BY <2>1, <2>2, LandedIs
  <2>. QED BY <2>3
<1>2. filled \in SUBSET Nat
  BY ImagesAre DEF State
<1>3. lands \in [Gpu!Slots -> Seq(Landing)] /\ cimg \in [Gpu!Slots -> SUBSET Entry]
  BY DEF State
<1>4. Gpu!LandSlot(h, s) = [h EXCEPT !.ram = ram, !.filled = filled, !.lands = lands, !.cimg = cimg]
  BY DEF Gpu!LandSlot, State
<1>. HIDE DEF ram, filled, lands, cimg
<1>5. Gpu!LandSlot(h, s) \in State
  BY ZenonT(60), <1>1, <1>2, <1>3, <1>4 DEF State
<1>6. /\ Same(h, Gpu!LandSlot(h, s), {"ram", "filled", "lands", "cimg"})
      /\ Gpu!LandSlot(h, s).ram = ram /\ Gpu!LandSlot(h, s).filled = filled
      /\ Gpu!LandSlot(h, s).lands = lands /\ Gpu!LandSlot(h, s).cimg = cimg
  BY <1>4 DEF State, Same, Fields
<1>. QED BY <1>5, <1>6 DEF ram, filled, lands, cimg

\* gxr_backend_screen_late, for a slot's frame.
LEMMA DeliverIs ==
    ASSUME NEW h \in State, NEW s \in Gpu!Slots
    PROVE  /\ Gpu!Deliver(h, s) \in State
           /\ Same(h, Gpu!Deliver(h, s), {"screen", "deliver"})
           /\ Gpu!Deliver(h, s).deliver = [h.deliver EXCEPT ![s] = {}]
           /\ \/ Gpu!Deliver(h, s).screen = h.screen
              \/ \E d \in h.deliver[s] :
                    Gpu!Deliver(h, s).screen = [is |-> h.real[d.slot], due |-> d.frame]
<1>. DEFINE d == CHOOSE x \in h.deliver[s] : TRUE
            screen == IF h.deliver[s] = {} THEN h.screen
                      ELSE [is |-> h.real[d.slot], due |-> d.frame]
            deliver == [h.deliver EXCEPT ![s] = {}]
<1>1. h.deliver[s] # {} => d \in h.deliver[s]
  OBVIOUS
<1>2. \A e \in h.deliver[s] : e.frame \in Nat /\ h.real[e.slot] \in Nat
  <2>1. /\ h.deliver[s] \subseteq Screen /\ h.real \in [0 .. 2 -> Nat]
        /\ \A e \in Screen : e.slot \in 0 .. 2 /\ e.frame \in Nat
    BY DEF State, Screen
  <2>. QED BY <2>1
<1>3. screen \in [is : Nat, due : Nat] /\ deliver \in [Gpu!Slots -> SUBSET Screen]
  <2>. HIDE DEF d
  <2>. QED BY <1>1, <1>2 DEF State
<1>4. Gpu!Deliver(h, s) = [h EXCEPT !.screen = screen, !.deliver = deliver]
  BY DEF Gpu!Deliver, State
<1>5. screen = h.screen \/ \E e \in h.deliver[s] : screen = [is |-> h.real[e.slot], due |-> e.frame]
  <2>. HIDE DEF d
  <2>. QED BY <1>1
<1>. HIDE DEF screen, deliver
<1>6. Gpu!Deliver(h, s) \in State
  BY ZenonT(60), <1>3, <1>4 DEF State
<1>7. /\ Same(h, Gpu!Deliver(h, s), {"screen", "deliver"})
      /\ Gpu!Deliver(h, s).screen = screen /\ Gpu!Deliver(h, s).deliver = deliver
  BY <1>4 DEF State, Same, Fields
<1>. QED BY <1>5, <1>6, <1>7 DEF deliver

\* publish_screen: the back slot for the middle one.
LEMMA PublishScreenIs ==
    ASSUME NEW h \in State
    PROVE  /\ Gpu!PublishScreen(h) \in State
           /\ Same(h, Gpu!PublishScreen(h), {"back", "middle", "fresh"})
           /\ Gpu!PublishScreen(h).back = h.middle /\ Gpu!PublishScreen(h).middle = h.back
           /\ Gpu!PublishScreen(h).fresh
BY DEF State, Same, Fields, Gpu!PublishScreen

LEMMA PublishDueIs ==
    ASSUME NEW h \in State, NEW s \in Gpu!Slots
    PROVE  /\ Gpu!PublishDue(h, s) \in State
           /\ Same(h, Gpu!PublishDue(h, s), {"back", "middle", "fresh", "publish"})
           /\ Gpu!PublishDue(h, s).publish = [h.publish EXCEPT ![s] = FALSE]
           /\ h.publish[s] => /\ Gpu!PublishDue(h, s).back = h.middle
                              /\ Gpu!PublishDue(h, s).middle = h.back /\ Gpu!PublishDue(h, s).fresh
           /\ ~h.publish[s] => Gpu!PublishDue(h, s) = h
<1>1. CASE h.publish[s]
  <2>. DEFINE k == Gpu!PublishScreen(h)
  <2>1. k \in State /\ Same(h, k, {"back", "middle", "fresh"})
        /\ k.back = h.middle /\ k.middle = h.back /\ k.fresh
    BY PublishScreenIs
  <2>2. Gpu!PublishDue(h, s) = [k EXCEPT !.publish[s] = FALSE]
    BY <1>1 DEF Gpu!PublishDue
  <2>. HIDE DEF k
  <2>3. k.publish = h.publish
    BY <2>1 DEF Same, Fields
  <2>. DEFINE publish == [k.publish EXCEPT ![s] = FALSE]
  <2>7. publish \in [Gpu!Slots -> BOOLEAN] /\ Gpu!PublishDue(h, s) = [k EXCEPT !.publish = publish]
    BY <2>1, <2>2 DEF State
  <2>4. /\ Gpu!PublishDue(h, s) \in State
        /\ Same(k, Gpu!PublishDue(h, s), {"publish"})
        /\ Gpu!PublishDue(h, s).publish = [k.publish EXCEPT ![s] = FALSE]
    <3>. HIDE DEF publish
    <3>1. /\ Gpu!PublishDue(h, s) \in State
          /\ Same(k, Gpu!PublishDue(h, s), {"publish"})
          /\ Gpu!PublishDue(h, s).publish = publish
      BY ZenonT(60), <2>1, <2>7 DEF State, Same, Fields
    <3>. QED BY <3>1 DEF publish
  <2>5. Same(h, Gpu!PublishDue(h, s), {"back", "middle", "fresh", "publish"})
    BY <2>1, <2>4 DEF Same, Fields
  <2>6. Gpu!PublishDue(h, s).back = h.middle /\ Gpu!PublishDue(h, s).middle = h.back
        /\ Gpu!PublishDue(h, s).fresh
    BY <2>1, <2>4 DEF Same, Fields
  <2>. QED BY <1>1, <2>3, <2>4, <2>5, <2>6
<1>2. CASE ~h.publish[s]
  <2>1. h.publish = [h.publish EXCEPT ![s] = FALSE]
    BY <1>2 DEF State
  <2>. QED BY <1>2, <2>1 DEF Gpu!PublishDue, Same
<1>. QED BY <1>1, <1>2

\* What is said to have landed rises, to no copy still to land in either slot.
LEMMA SayLandedIs ==
    ASSUME NEW h \in State, NEW n \in Nat
    PROVE  /\ Gpu!SayLanded(h, n) \in State
           /\ Same(h, Gpu!SayLanded(h, n), {"said"})
           /\ Gpu!SayLanded(h, n).said \in Nat /\ h.said <= Gpu!SayLanded(h, n).said
           /\ Gpu!SayLanded(h, n).said = h.said \/ Gpu!SayLanded(h, n).said <= n
           /\ \A s \in Gpu!Slots : h.lands[s] # <<>> =>
                 Gpu!SayLanded(h, n).said = h.said \/ Gpu!SayLanded(h, n).said <= h.lands[s][1].seq
           /\ (\A s \in Gpu!Slots : h.lands[s] = <<>>) => n <= Gpu!SayLanded(h, n).said
<1>. DEFINE held == {s \in Gpu!Slots : h.lands[s] # <<>>}
            S == {n} \cup {h.lands[s][1].seq : s \in held}
            T == {h.said, Gpu!Min(S)}
<1>1. S \subseteq Nat /\ n \in S
  BY LandsAre
<1>2. Gpu!Min(S) \in S /\ \A y \in S : Gpu!Min(S) <= y
  <2>. HIDE DEF S
  <2>. QED BY <1>1, MinIs
<1>3. h.said \in Nat /\ Gpu!Min(S) \in Nat
  BY <1>1, <1>2 DEF State
<1>4. Gpu!Max(T) \in T /\ \A y \in T : y <= Gpu!Max(T)
  <2>. PICK m \in Nat : m = Gpu!Min(S)
    BY <1>3
  <2>. HIDE DEF S
  <2>1. h.said + m \in Nat /\ T \subseteq 0 .. h.said + m /\ T # {}
    BY <1>3
  <2>. HIDE DEF T
  <2>. QED BY <2>1, MaxIs
<1>5. Gpu!SayLanded(h, n) = [h EXCEPT !.said = Gpu!Max(T)]
  BY DEF Gpu!SayLanded
<1>6. (\A s \in Gpu!Slots : h.lands[s] = <<>>) => Gpu!Min(S) = n
  <2>1. (\A s \in Gpu!Slots : h.lands[s] = <<>>) => S = {n}
    OBVIOUS
  <2>. HIDE DEF S
  <2>. QED BY <1>2, <2>1
<1>7. \A s \in Gpu!Slots : h.lands[s] # <<>> => h.lands[s][1].seq \in S
  OBVIOUS
<1>. HIDE DEF S
<1>8. Gpu!Max(T) \in Nat /\ h.said <= Gpu!Max(T) /\ Gpu!Min(S) <= Gpu!Max(T)
      /\ (Gpu!Max(T) = h.said \/ Gpu!Max(T) = Gpu!Min(S))
  BY <1>3, <1>4
<1>. HIDE DEF T
<1>9. /\ Gpu!SayLanded(h, n) \in State /\ Same(h, Gpu!SayLanded(h, n), {"said"})
      /\ Gpu!SayLanded(h, n).said = Gpu!Max(T)
  BY ZenonT(60), <1>5, <1>8 DEF State, Same, Fields
<1>. QED BY <1>1, <1>2, <1>6, <1>7, <1>8, <1>9

\* What finishing a slot does.
Finished(h, k, s) ==
    /\ Same(h, k, {"inflight", "carried", "done", "ops", "pool", "missed", "ram", "filled",
                   "lands", "cimg", "said", "screen", "deliver", "publish", "back", "middle",
                   "fresh", "real", "mid"})
    /\ k.inflight = [h.inflight EXCEPT ![s] = FALSE]
    /\ k.ops = [h.ops EXCEPT ![s] = <<>>]
    /\ \A t \in Gpu!Slots : t # s => k.done[t] = h.done[t]
    /\ k.carried = [t \in Gpu!Slots |-> IF t = s THEN h.carried[t] ELSE {}]
    /\ k.pool = [h.pool EXCEPT ![s] =
                    [a \in 1 .. HalfRoom |-> Gpu!Held(h, s, Len(h.ops[s]) + 1, a)]]
    /\ k.missed <=> h.missed \/ Gpu!Missed(h, s)
    /\ k.real = [t \in 0 .. 2 |-> Gpu!Drawn(h, s, "real", t)]
    /\ k.mid = [t \in 0 .. 2 |-> Gpu!Drawn(h, s, "mid", t)]
    /\ k.lands = [h.lands EXCEPT ![s] = <<>>] /\ k.cimg = [h.cimg EXCEPT ![s] = {}]
    /\ k.ram = [c \in Gpu!Cells |-> Gpu!Landed(h, s, c)]
    /\ k.filled = h.filled \cup Gpu!ImagesOf(h.lands[s])
    /\ k.deliver = [h.deliver EXCEPT ![s] = {}]
    /\ k.screen = h.screen
       \/ \E d \in h.deliver[s] : k.screen = [is |-> k.real[d.slot], due |-> d.frame]
    /\ k.publish = [h.publish EXCEPT ![s] = FALSE]
    /\ h.publish[s] => k.back = h.middle /\ k.middle = h.back /\ k.fresh
    /\ ~h.publish[s] => k.back = h.back /\ k.middle = h.middle /\ k.fresh = h.fresh
    /\ k.said \in Nat /\ h.said <= k.said /\ (k.said = h.said \/ k.said <= seq)
    /\ \A t \in Gpu!Slots : k.lands[t] # <<>> => k.said = h.said \/ k.said <= k.lands[t][1].seq
    /\ (\A t \in Gpu!Slots : k.lands[t] = <<>>) => seq <= k.said

LEMMA FinishIs ==
    ASSUME NEW h \in State, NEW s \in Gpu!Slots, h.inflight[s], h.done[s] => h.ops[s] = <<>>,
           Paired(h, s), seq \in Nat
    PROVE  Gpu!Finish(h, s) \in State /\ Finished(h, Gpu!Finish(h, s), s)
<1>. DEFINE r == Gpu!Ran(h, s)
            inflight == [r.inflight EXCEPT ![s] = FALSE]
            carried == [t \in Gpu!Slots |-> IF t = s THEN r.carried[t] ELSE {}]
            a == [r EXCEPT !.inflight = inflight, !.carried = carried]
            b == Gpu!LandSlot(a, s)
            c == Gpu!Deliver(b, s)
            d == Gpu!PublishDue(c, s)
            k == Gpu!SayLanded(d, seq)
<1>1. /\ r \in State
      /\ Same(h, r, {"ops", "pool", "missed", "real", "mid", "done"})
      /\ r.ops = [h.ops EXCEPT ![s] = <<>>]
      /\ \A t \in Gpu!Slots : t # s => r.done[t] = h.done[t]
      /\ r.pool = [h.pool EXCEPT ![s] =
                      [x \in 1 .. HalfRoom |-> Gpu!Held(h, s, Len(h.ops[s]) + 1, x)]]
      /\ r.missed <=> h.missed \/ Gpu!Missed(h, s)
      /\ r.real = [t \in 0 .. 2 |-> Gpu!Drawn(h, s, "real", t)]
      /\ r.mid = [t \in 0 .. 2 |-> Gpu!Drawn(h, s, "mid", t)]
  BY RanIs
<1>0. r \in State
  BY <1>1
<1>2. Gpu!Finish(h, s) = k
  <2>1. [r EXCEPT !.inflight[s] = FALSE,
                  !.carried = [t \in Gpu!Slots |-> IF t = s THEN @[t] ELSE {}]] = a
    <3>. HIDE DEF r
    <3>. QED BY <1>0 DEF State
  <2>. HIDE DEF a
  <2>. QED BY <2>1 DEF Gpu!Finish, r
<1>. HIDE DEF r
<1>3. /\ a \in State /\ Same(r, a, {"inflight", "carried"})
      /\ a.inflight = inflight /\ a.carried = carried
  <2>1. inflight \in [Gpu!Slots -> BOOLEAN] /\ carried \in [Gpu!Slots -> SUBSET (1 .. HalfRoom)]
    BY <1>0 DEF State
  <2>. HIDE DEF inflight, carried
  <2>. QED BY <1>0, <2>1 DEF State, Same, Fields
<1>4. inflight = [h.inflight EXCEPT ![s] = FALSE]
      /\ carried = [t \in Gpu!Slots |-> IF t = s THEN h.carried[t] ELSE {}]
  <2>1. r.inflight = h.inflight /\ r.carried = h.carried
    BY <1>1 DEF Same, Fields
  <2>. QED BY <2>1
<1>. HIDE DEF a, inflight, carried
<1>5. /\ b \in State /\ Same(a, b, {"ram", "filled", "lands", "cimg"})
      /\ b.ram = [x \in Gpu!Cells |-> Gpu!Landed(a, s, x)]
      /\ b.filled = a.filled \cup Gpu!ImagesOf(a.lands[s])
      /\ b.lands = [a.lands EXCEPT ![s] = <<>>] /\ b.cimg = [a.cimg EXCEPT ![s] = {}]
  BY <1>3, LandSlotIs
<1>. HIDE DEF b
<1>6. /\ c \in State /\ Same(b, c, {"screen", "deliver"})
      /\ c.deliver = [b.deliver EXCEPT ![s] = {}]
      /\ \/ c.screen = b.screen
         \/ \E x \in b.deliver[s] : c.screen = [is |-> b.real[x.slot], due |-> x.frame]
  BY <1>5, DeliverIs
<1>. HIDE DEF c
<1>7. /\ d \in State /\ Same(c, d, {"back", "middle", "fresh", "publish"})
      /\ d.publish = [c.publish EXCEPT ![s] = FALSE]
      /\ c.publish[s] => d.back = c.middle /\ d.middle = c.back /\ d.fresh
      /\ ~c.publish[s] => d = c
  BY <1>6, PublishDueIs
<1>. HIDE DEF d
<1>8. /\ k \in State /\ Same(d, k, {"said"})
      /\ k.said \in Nat /\ d.said <= k.said /\ (k.said = d.said \/ k.said <= seq)
      /\ \A t \in Gpu!Slots : d.lands[t] # <<>> => k.said = d.said \/ k.said <= d.lands[t][1].seq
      /\ (\A t \in Gpu!Slots : d.lands[t] = <<>>) => seq <= k.said
  BY <1>7, SayLandedIs
<1>. HIDE DEF k
<1>9. /\ a.cur = h.cur /\ a.rec = h.rec /\ a.used = h.used /\ a.resident = h.resident
      /\ a.has = h.has /\ a.lands = h.lands /\ a.cimg = h.cimg /\ a.ram = h.ram
      /\ a.filled = h.filled /\ a.said = h.said /\ a.screen = h.screen
      /\ a.deliver = h.deliver /\ a.publish = h.publish /\ a.back = h.back
      /\ a.middle = h.middle /\ a.fresh = h.fresh /\ a.ops = r.ops /\ a.pool = r.pool
      /\ a.missed = r.missed /\ a.real = r.real /\ a.mid = r.mid /\ a.done = r.done
  BY <1>1, <1>3 DEF Same, Fields
<1>10. /\ c.cur = a.cur /\ c.rec = a.rec /\ c.used = a.used /\ c.resident = a.resident
       /\ c.has = a.has /\ c.said = a.said /\ c.publish = a.publish /\ c.back = a.back
       /\ c.middle = a.middle /\ c.fresh = a.fresh /\ c.ops = a.ops /\ c.pool = a.pool
       /\ c.missed = a.missed /\ c.real = a.real /\ c.mid = a.mid /\ c.done = a.done
       /\ c.inflight = a.inflight /\ c.carried = a.carried /\ c.ram = b.ram
       /\ c.filled = b.filled /\ c.lands = b.lands /\ c.cimg = b.cimg
       /\ b.real = a.real /\ b.deliver = a.deliver /\ b.screen = a.screen
  BY <1>5, <1>6 DEF Same, Fields
<1>11. /\ k.cur = c.cur /\ k.rec = c.rec /\ k.used = c.used /\ k.resident = c.resident
       /\ k.has = c.has /\ d.said = c.said /\ k.publish = d.publish /\ k.back = d.back
       /\ k.middle = d.middle /\ k.fresh = d.fresh /\ k.ops = c.ops /\ k.pool = c.pool
       /\ k.missed = c.missed /\ k.real = c.real /\ k.mid = c.mid /\ k.done = c.done
       /\ k.inflight = c.inflight /\ k.carried = c.carried /\ k.ram = c.ram
       /\ k.filled = c.filled /\ k.lands = c.lands /\ k.cimg = c.cimg
       /\ k.screen = c.screen /\ k.deliver = c.deliver /\ d.lands = c.lands
  BY <1>7, <1>8 DEF Same, Fields
<1>12. Same(h, k, {"inflight", "carried", "done", "ops", "pool", "missed", "ram", "filled",
                   "lands", "cimg", "said", "screen", "deliver", "publish", "back", "middle",
                   "fresh", "real", "mid"})
  BY <1>9, <1>10, <1>11 DEF Same, Fields
<1>13. \A x : Gpu!Landed(a, s, x) = Gpu!Landed(h, s, x)
  BY <1>9 DEF Gpu!Landed
<1>14. /\ k.ram = [x \in Gpu!Cells |-> Gpu!Landed(h, s, x)]
       /\ k.filled = h.filled \cup Gpu!ImagesOf(h.lands[s])
       /\ k.lands = [h.lands EXCEPT ![s] = <<>>] /\ k.cimg = [h.cimg EXCEPT ![s] = {}]
  <2>1. k.ram = [x \in Gpu!Cells |-> Gpu!Landed(h, s, x)]
    BY <1>5, <1>10, <1>11, <1>13
  <2>2. k.filled = h.filled \cup Gpu!ImagesOf(h.lands[s])
    BY <1>5, <1>9, <1>10, <1>11
  <2>3. a.lands = h.lands /\ a.cimg = h.cimg /\ k.lands = b.lands /\ k.cimg = b.cimg
    BY <1>9, <1>10, <1>11
  <2>. QED BY <1>5, <2>1, <2>2, <2>3
<1>15. /\ k.deliver = [h.deliver EXCEPT ![s] = {}]
       /\ \/ k.screen = h.screen
          \/ \E x \in h.deliver[s] : k.screen = [is |-> k.real[x.slot], due |-> x.frame]
  <2>1. b.deliver = h.deliver /\ b.screen = h.screen /\ b.real = k.real
        /\ k.screen = c.screen /\ k.deliver = c.deliver
    BY <1>9, <1>10, <1>11
  <2>. QED BY <1>6, <2>1
<1>16. /\ k.publish = [h.publish EXCEPT ![s] = FALSE]
       /\ h.publish[s] => k.back = h.middle /\ k.middle = h.back /\ k.fresh
       /\ ~h.publish[s] => k.back = h.back /\ k.middle = h.middle /\ k.fresh = h.fresh
  <2>1. c.publish = h.publish /\ c.back = h.back /\ c.middle = h.middle /\ c.fresh = h.fresh
        /\ k.publish = d.publish /\ k.back = d.back /\ k.middle = d.middle /\ k.fresh = d.fresh
    BY <1>9, <1>10, <1>11
  <2>. QED BY <1>7, <2>1
<1>17. /\ k.inflight = [h.inflight EXCEPT ![s] = FALSE]
       /\ k.ops = [h.ops EXCEPT ![s] = <<>>]
       /\ \A t \in Gpu!Slots : t # s => k.done[t] = h.done[t]
       /\ k.carried = [t \in Gpu!Slots |-> IF t = s THEN h.carried[t] ELSE {}]
       /\ k.pool = [h.pool EXCEPT ![s] =
                       [x \in 1 .. HalfRoom |-> Gpu!Held(h, s, Len(h.ops[s]) + 1, x)]]
       /\ k.missed <=> h.missed \/ Gpu!Missed(h, s)
       /\ k.real = [t \in 0 .. 2 |-> Gpu!Drawn(h, s, "real", t)]
       /\ k.mid = [t \in 0 .. 2 |-> Gpu!Drawn(h, s, "mid", t)]
  BY <1>1, <1>3, <1>4, <1>9, <1>10, <1>11
<1>18. /\ k.said \in Nat /\ h.said <= k.said /\ (k.said = h.said \/ k.said <= seq)
       /\ \A t \in Gpu!Slots : k.lands[t] # <<>> => k.said = h.said \/ k.said <= k.lands[t][1].seq
       /\ (\A t \in Gpu!Slots : k.lands[t] = <<>>) => seq <= k.said
  BY <1>8, <1>9, <1>10, <1>11
<1>. QED BY <1>2, <1>8, <1>12, <1>14, <1>15, <1>16, <1>17, <1>18 DEF Finished
-----------------------------------------------------------------------------
(* What is kept: slots, copies to land, texels, screens.                    *)

Clean(h, s) ==
    /\ h.ops[s] = <<>> /\ h.lands[s] = <<>> /\ h.cimg[s] = {}
    /\ h.deliver[s] = {} /\ ~h.publish[s]
Kept(h) ==
    \A s \in Gpu!Slots : /\ s # h.cur /\ ~h.inflight[s] => Clean(h, s)
                         /\ h.inflight[s] /\ h.done[s] => h.ops[s] = <<>>
                         /\ Paired(h, s)
Recording(h) ==
    /\ ~h.inflight[h.cur]
    /\ ~h.rec[h.cur] => Clean(h, h.cur) /\ h.used = 0 /\ h.resident = {}

\* A copy still to land: not said to have, its bytes those to be, and where they
\* are not in RAM yet it is the copy that wrote them.
Coming(h, n, e, l) ==
    /\ h.said <= l.seq /\ l.seq < n
    /\ \A c \in DOMAIN l.bytes : /\ c \in Gpu!Cells /\ l.bytes[c] = e[c]
                                 /\ h.ram[c] = e[c] \/ e[c] = l.seq + 1
Rising(q) == \A i, j \in DOMAIN q : j < i => q[j].seq < q[i].seq
Apart(h) ==
    \A s, t \in Gpu!Slots : \A i \in DOMAIN h.lands[s], j \in DOMAIN h.lands[t] :
       \A c \in DOMAIN h.lands[s][i].bytes \cap DOMAIN h.lands[t][j].bytes : s = t /\ i = j
Covered(h, c) == \E s \in Gpu!Slots : \E i \in DOMAIN h.lands[s] : c \in DOMAIN h.lands[s][i].bytes
Lands(h, n, e) ==
    /\ h.said <= n /\ \A c \in Gpu!Cells : e[c] <= n
    /\ \A s \in Gpu!Slots : /\ Rising(h.lands[s])
                            /\ \A i \in DOMAIN h.lands[s] : Coming(h, n, e, h.lands[s][i])
    /\ Apart(h)
    /\ \A c \in Gpu!Cells : h.ram[c] = e[c] \/ Covered(h, c)
Told(h, e) == (\A s \in Gpu!Slots : h.lands[s] = <<>>) => \A c \in Gpu!Cells : e[c] <= h.said

\* The slot finished is clean, and the other stays as it was.
LEMMA FinishKept ==
    ASSUME NEW h \in State, NEW k \in State, NEW s \in Gpu!Slots, Kept(h), Finished(h, k, s)
    PROVE  Kept(k) /\ Clean(k, s) /\ ~k.inflight[s] /\ k.cur = h.cur /\ k.rec = h.rec
<1>1. /\ k.ops[s] = <<>> /\ k.lands[s] = <<>> /\ k.cimg[s] = {} /\ k.deliver[s] = {}
      /\ ~k.publish[s] /\ ~k.inflight[s]
  BY DEF Finished, State
<1>2. \A t \in Gpu!Slots : t # s => /\ k.ops[t] = h.ops[t] /\ k.lands[t] = h.lands[t]
                               /\ k.cimg[t] = h.cimg[t] /\ k.deliver[t] = h.deliver[t]
                               /\ k.publish[t] = h.publish[t] /\ k.inflight[t] = h.inflight[t]
                               /\ k.done[t] = h.done[t]
  BY DEF Finished, State
<1>3. k.cur = h.cur /\ k.rec = h.rec
  BY DEF Finished, Same, Fields
<1>4. Clean(k, s)
  BY <1>1 DEF Clean
<1>5. \A t \in Gpu!Slots : t # s /\ Clean(h, t) => Clean(k, t)
  BY <1>2 DEF Clean
<1>6. Paired(k, s) /\ \A t \in Gpu!Slots : t # s => (Paired(h, t) <=> Paired(k, t))
  BY <1>1, <1>2 DEF Paired
<1>. QED BY <1>1, <1>2, <1>3, <1>4, <1>5, <1>6 DEF Kept

\* RAM after a slot's copies land: no cell another copy covers.
LEMMA FinishLands ==
    ASSUME NEW h \in State, NEW k \in State, NEW s \in Gpu!Slots, Finished(h, k, s),
           NEW n \in Nat, seq \in Nat, seq <= n, NEW e \in [Gpu!Cells -> Nat], Lands(h, n, e)
    PROVE  /\ Lands(k, n, e)
           /\ (\A c \in Gpu!Cells : e[c] <= seq) => Told(k, e)
<1>1. k.lands[s] = <<>> /\ DOMAIN k.lands[s] = {} /\ \A t \in Gpu!Slots : t # s
      => k.lands[t] = h.lands[t]
  BY DEF Finished, State
<1>2. h.said \in Nat /\ k.said \in Nat
  BY DEF State
<1>3. k.said <= n
  BY <1>2 DEF Finished, Lands
<1>4. \A t \in Gpu!Slots : Rising(k.lands[t])
  BY <1>1 DEF Rising, Lands
<1>5. Apart(k)
  BY <1>1 DEF Apart, Lands
<1>6. \A c \in Gpu!Cells : k.ram[c] = Gpu!Landed(h, s, c)
  BY DEF Finished
<1>7. ASSUME NEW t \in Gpu!Slots, NEW i \in DOMAIN k.lands[t]
      PROVE  Coming(k, n, e, k.lands[t][i])
  <2>1. t # s /\ k.lands[t] = h.lands[t]
    BY <1>1, <1>7
  <2>. DEFINE l == h.lands[t][i]
  <2>2. Coming(h, n, e, l)
    BY <1>7, <2>1 DEF Lands
  <2>3. k.said <= l.seq
    <3>1. /\ h.lands[t] # <<>> /\ 1 \in DOMAIN h.lands[t] /\ i \in DOMAIN h.lands[t]
          /\ i \in Nat \ {0} /\ h.lands[t][1].seq \in Nat /\ l.seq \in Nat
      BY <1>7, <2>1, LandsAre
    <3>2. h.lands[t][1].seq <= l.seq
      <4>1. i = 1 \/ 1 < i
        BY <3>1
      <4>2. Rising(h.lands[t])
        BY DEF Lands
      <4>. QED BY <3>1, <4>1, <4>2 DEF Rising
    <3>3. k.said = h.said \/ k.said <= h.lands[t][1].seq
      BY <2>1, <3>1 DEF Finished
    <3>. QED BY <1>2, <2>2, <3>1, <3>2, <3>3 DEF Coming
  <2>4. ASSUME NEW c \in DOMAIN l.bytes PROVE k.ram[c] = h.ram[c]
    <3>1. \A j \in DOMAIN h.lands[s] : c \notin DOMAIN h.lands[s][j].bytes
      BY <1>7, <2>1, <2>4 DEF Lands, Apart
    <3>2. c \in Gpu!Cells
      BY <2>2 DEF Coming
    <3>. QED BY <1>6, <3>1, <3>2, LandedIs
  <2>. QED BY <2>1, <2>2, <2>3, <2>4 DEF Coming
<1>8. ASSUME NEW c \in Gpu!Cells, ~Covered(k, c) PROVE k.ram[c] = e[c]
  <2>1. \A t \in Gpu!Slots : t # s
        => \A i \in DOMAIN h.lands[t] : c \notin DOMAIN h.lands[t][i].bytes
    BY <1>1, <1>8 DEF Covered
  <2>2. CASE \E i \in DOMAIN h.lands[s] : /\ c \in DOMAIN h.lands[s][i].bytes
                                       /\ Gpu!Landed(h, s, c) = h.lands[s][i].bytes[c]
    BY <1>6, <2>2 DEF Lands, Coming
  <2>3. CASE /\ \A i \in DOMAIN h.lands[s] : c \notin DOMAIN h.lands[s][i].bytes
             /\ Gpu!Landed(h, s, c) = h.ram[c]
    BY <1>6, <2>1, <2>3 DEF Lands, Covered
  <2>. QED BY <2>2, <2>3, LandedIs
<1>9. (\A c \in Gpu!Cells : e[c] <= seq) => Told(k, e)
  <2>1. SUFFICES ASSUME \A c \in Gpu!Cells : e[c] <= seq, \A t \in Gpu!Slots : k.lands[t] = <<>>,
                        NEW c \in Gpu!Cells
                 PROVE  e[c] <= k.said
    BY DEF Told
  <2>2. seq <= k.said /\ e[c] \in Nat /\ e[c] <= seq
    BY <2>1 DEF Finished
  <2>. QED BY <1>2, <2>2
<1>. QED BY <1>3, <1>4, <1>5, <1>7, <1>8, <1>9 DEF Lands

\* What a place of a slot holds once its commands have run on the pool as it is; and
\* what the slot's commands will leave there, run after the other's.
Would(h, s, a, x) ==
    /\ \A j \in DOMAIN h.ops[s] : Writes(h.ops[s][j], a) =>
          /\ h.ops[s][j].op = "image" => h.ops[s][j].want = x
          /\ h.ops[s][j].op = "carry" => h.pool[1 - s][h.ops[s][j].from] = x
    /\ Untouched(h.ops[s], a) => h.pool[s][a] = x
Will(h, s, a, x) ==
    /\ \A j \in DOMAIN h.ops[s] : Writes(h.ops[s][j], a) =>
          /\ h.ops[s][j].op = "image" => h.ops[s][j].want = x
          /\ h.ops[s][j].op = "carry" => IF s = h.cur THEN Would(h, 1 - s, h.ops[s][j].from, x)
                                         ELSE h.pool[1 - s][h.ops[s][j].from] = x
    /\ Untouched(h.ops[s], a) => h.pool[s][a] = x
Ordered(cmds) ==
    \A i, j \in DOMAIN cmds : cmds[i].op = "sample" /\ Writes(cmds[j], cmds[i].at) => j < i
Sound(h, s) ==
    /\ Ordered(h.ops[s])
    /\ \A j \in DOMAIN h.ops[s] :
          /\ h.ops[s][j].op = "carry" => h.ops[s][j].from \in h.carried[1 - s]
          /\ h.ops[s][j].op = "sample" => Will(h, s, h.ops[s][j].at, h.ops[s][j].want)
    /\ \A c \in h.cimg[s] : Will(h, s, c.at, c.content)
    /\ \A i \in DOMAIN h.lands[s] : h.lands[s][i].image =>
          \E c \in h.cimg[s] : c.content = Gpu!CopyOf(h.lands[s][i].seq)
Upto(h) ==
    /\ \A j \in DOMAIN h.ops[h.cur] :
          h.ops[h.cur][j].op \in {"image", "carry", "sample"} => h.ops[h.cur][j].at <= h.used
    /\ \A c \in h.cimg[h.cur] \cup h.resident : c.at <= h.used
    /\ \A c \in h.resident : Will(h, h.cur, c.at, c.content)
Draws(h) == ~h.missed /\ Upto(h) /\ \A s \in Gpu!Slots : Sound(h, s)

\* Where the texels of the pool are.
LEMMA EntryFields ==
    ASSUME NEW h \in State, NEW s \in Gpu!Slots
    PROVE  \A c \in h.cimg[s] \cup h.resident : c.at \in 1 .. HalfRoom /\ c.content \in Content
<1>1. \A c \in Entry : c.at \in 1 .. HalfRoom /\ c.content \in Content
  BY DEF Entry
<1>. QED BY <1>1 DEF State

\* A place holds what its slot's commands would leave there, once all that write it have run.
LEMMA HeldRight ==
    ASSUME NEW h \in State, NEW s \in Gpu!Slots, NEW a, NEW x, Would(h, s, a, x),
           NEW i \in Nat, i <= Len(h.ops[s]) + 1,
           \A j \in DOMAIN h.ops[s] : Writes(h.ops[s][j], a) => j < i
    PROVE  Gpu!Held(h, s, i, a) = x
<1>1. Len(h.ops[s]) \in Nat /\ DOMAIN h.ops[s] = 1 .. Len(h.ops[s])
  BY OpsAre
<1>2. \A j \in 1 .. i - 1 : j \in DOMAIN h.ops[s]
  BY <1>1
<1>3. \A j \in DOMAIN h.ops[s] : j < i => j \in 1 .. i - 1
  BY <1>1
<1>4. CASE /\ \A j \in 1 .. i - 1 : ~Writes(h.ops[s][j], a)
           /\ Gpu!Held(h, s, i, a) = h.pool[s][a]
  BY <1>3, <1>4 DEF Would, Untouched
<1>5. CASE \E j \in 1 .. i - 1 :
                 /\ Writes(h.ops[s][j], a)
                 /\ h.ops[s][j].op = "image" => Gpu!Held(h, s, i, a) = h.ops[s][j].want
                 /\ h.ops[s][j].op = "carry"
                       => Gpu!Held(h, s, i, a) = h.pool[1 - s][h.ops[s][j].from]
  BY <1>2, <1>5 DEF Would, Writes
<1>. QED BY <1>4, <1>5, HeldIs

\* Draws sample theirs still, and what the other slot carries is there for it.
LEMMA FinishDraws ==
    ASSUME NEW h \in State, NEW k \in State, NEW s \in Gpu!Slots, Finished(h, k, s), Kept(h),
           \A t \in Gpu!Slots : t # s => t = h.cur \/ h.ops[t] = <<>>, Draws(h)
    PROVE  Draws(k)
<1>1. /\ k.ops[s] = <<>> /\ k.lands[s] = <<>> /\ k.cimg[s] = {}
      /\ DOMAIN k.ops[s] = {} /\ DOMAIN k.lands[s] = {}
      /\ \A a \in 1 .. HalfRoom : k.pool[s][a] = Gpu!Held(h, s, Len(h.ops[s]) + 1, a)
  BY DEF Finished, State
<1>2. \A t \in Gpu!Slots : t # s => /\ k.ops[t] = h.ops[t] /\ k.lands[t] = h.lands[t]
                               /\ k.cimg[t] = h.cimg[t] /\ k.pool[t] = h.pool[t]
  BY DEF Finished, State
<1>3. k.cur = h.cur /\ k.used = h.used /\ k.resident = h.resident /\ h.cur \in Gpu!Slots
  BY DEF Finished, Same, Fields, State
<1>4. \A t \in Gpu!Slots : \A j \in DOMAIN h.ops[t] :
         /\ h.ops[t][j] \in Op
         /\ h.ops[t][j].op = "carry" => NSlots = 2 /\ 1 - t \in Gpu!Slots /\ 1 - t # t
                                        /\ h.ops[t][j].from \in 1 .. HalfRoom
  BY OpsAre, OpFields, SlotsAre DEF Kept, Paired
<1>5. ASSUME NEW a, NEW x, Will(h, s, a, x) PROVE Would(h, s, a, x)
  <2>1. CASE s # h.cur
    BY <1>5, <2>1 DEF Will, Would
  <2>2. CASE s = h.cur
    <3>1. \A t \in Gpu!Slots : t # s => h.ops[t] = <<>> /\ DOMAIN h.ops[t] = {}
      BY <2>2
    <3>2. \A b, t : t \in Gpu!Slots /\ t # s /\ Would(h, t, b, x) => h.pool[t][b] = x
      BY <3>1 DEF Would, Untouched
    <3>3. Untouched(h.ops[s], a) => h.pool[s][a] = x
      BY <1>5 DEF Will
    <3>4. ASSUME NEW j \in DOMAIN h.ops[s], Writes(h.ops[s][j], a), h.ops[s][j].op = "carry"
          PROVE  h.pool[1 - s][h.ops[s][j].from] = x
      <4>1. Would(h, 1 - s, h.ops[s][j].from, x)
        BY <1>5, <2>2, <3>4 DEF Will
      <4>2. 1 - s \in Gpu!Slots /\ 1 - s # s
        BY <1>4, <3>4
      <4>. QED BY <3>2, <4>1, <4>2
    <3>5. \A j \in DOMAIN h.ops[s] : Writes(h.ops[s][j], a) /\ h.ops[s][j].op = "image"
             => h.ops[s][j].want = x
      BY <1>5 DEF Will
    <3>. QED BY <3>3, <3>4, <3>5 DEF Would
  <2>. QED BY <2>1, <2>2
<1>6. ASSUME NEW a \in 1 .. HalfRoom, NEW x, Would(h, s, a, x)
      PROVE  k.pool[s][a] = x /\ Would(k, s, a, x) /\ Will(k, s, a, x)
  <2>1. Len(h.ops[s]) + 1 \in Nat /\ Len(h.ops[s]) + 1 <= Len(h.ops[s]) + 1
        /\ \A j \in DOMAIN h.ops[s] : j < Len(h.ops[s]) + 1
    BY OpsAre
  <2>2. PICK i \in Nat : i = Len(h.ops[s]) + 1
    BY <2>1
  <2>3. Gpu!Held(h, s, i, a) = x
    BY <1>6, <2>1, <2>2, HeldRight
  <2>4. k.pool[s][a] = x
    BY <1>1, <2>2, <2>3
  <2>. QED BY <1>1, <2>4 DEF Would, Will
<1>7. ASSUME NEW t \in Gpu!Slots, t # s, NEW a, NEW x, Will(h, t, a, x) PROVE Will(k, t, a, x)
  <2>1. CASE t = h.cur
    <3>1. \A j \in DOMAIN h.ops[t] : h.ops[t][j].op = "carry" => 1 - t = s
      BY <1>4, <1>7, SlotsAre
    <3>. QED BY <1>2, <1>3, <1>4, <1>6, <1>7, <2>1, <3>1 DEF Will
  <2>2. CASE t # h.cur
    <3>1. h.ops[t] = <<>> /\ DOMAIN h.ops[t] = {}
      BY <1>7, <2>2
    <3>. QED BY <1>2, <1>3, <1>7, <2>2, <3>1 DEF Will
  <2>. QED BY <2>1, <2>2
<1>8. \A t \in Gpu!Slots : \A x : \A a \in 1 .. HalfRoom : Will(h, t, a, x) => Will(k, t, a, x)
  BY <1>5, <1>6, <1>7
<1>9. ~k.missed
  <2>1. SUFFICES ~Gpu!Missed(h, s)
    BY DEF Finished, Draws
  <2>2. SUFFICES ASSUME NEW i \in DOMAIN h.ops[s], h.ops[s][i].op = "sample"
                 PROVE  Gpu!Held(h, s, i, h.ops[s][i].at) = h.ops[s][i].want
    BY DEF Gpu!Missed
  <2>3. Would(h, s, h.ops[s][i].at, h.ops[s][i].want)
    BY <1>5, <2>2 DEF Draws, Sound
  <2>4. i \in Nat /\ i <= Len(h.ops[s]) + 1
    BY OpsAre
  <2>5. \A j \in DOMAIN h.ops[s] : Writes(h.ops[s][j], h.ops[s][i].at) => j < i
    BY <2>2 DEF Draws, Sound, Ordered
  <2>. QED BY <2>3, <2>4, <2>5, HeldRight
<1>10. Upto(k)
  <2>1. \A j \in DOMAIN k.ops[k.cur] : k.ops[k.cur][j] = h.ops[h.cur][j]
        /\ j \in DOMAIN h.ops[h.cur]
    BY <1>1, <1>2, <1>3
  <2>2. k.cimg[k.cur] \subseteq h.cimg[h.cur]
    BY <1>1, <1>2, <1>3
  <2>3. \A c \in h.resident : c.at \in 1 .. HalfRoom
    BY EntryFields, <1>3
  <2>. QED BY <1>3, <1>8, <2>1, <2>2, <2>3 DEF Upto, Draws
<1>11. Sound(k, s)
  BY <1>1 DEF Sound, Ordered
<1>12. ASSUME NEW t \in Gpu!Slots, t # s PROVE Sound(k, t)
  <2>1. Sound(h, t)
    BY DEF Draws
  <2>2. \A j \in DOMAIN h.ops[t] : h.ops[t][j].op = "carry" => k.carried[1 - t] = h.carried[1 - t]
    <3>1. \A j \in DOMAIN h.ops[t] : h.ops[t][j].op = "carry" => 1 - t = s
      BY <1>4, <1>12, SlotsAre
    <3>. QED BY <3>1 DEF Finished
  <2>3. \A j \in DOMAIN h.ops[t] : h.ops[t][j].op = "sample" => h.ops[t][j].at \in 1 .. HalfRoom
    BY <1>4, OpFields
  <2>4. \A c \in h.cimg[t] : c.at \in 1 .. HalfRoom
    BY EntryFields
  <2>. QED BY <1>2, <1>8, <1>12, <2>1, <2>2, <2>3, <2>4 DEF Sound
<1>. QED BY <1>9, <1>10, <1>11, <1>12 DEF Draws

ToScreen(o) == o.op \in {"real", "mid"}
Pictures(h, s) == \E j \in DOMAIN h.ops[s] : ToScreen(h.ops[s][j])
Shows(h, s) == h.publish[s] \/ h.deliver[s] # {} \/ Pictures(h, s)
\* What the back screen slot will have of a frame, real or in between.
WillShow(h, s, op, f) ==
    /\ \A j \in DOMAIN h.ops[s] : h.ops[s][j].op = op => h.ops[s][j].frame = f
    /\ (\A j \in DOMAIN h.ops[s] : h.ops[s][j].op # op) => h[op][h.back] = f
Newer(h, w, f) == f > h.real[w] /\ (h.fresh => f > h.real[h.middle])
Showing(h, s, n, w) ==
    /\ \A j \in DOMAIN h.ops[s] : ToScreen(h.ops[s][j]) =>
          h.ops[s][j].slot = h.back /\ h.ops[s][j].frame <= n
    /\ \A d \in h.deliver[s] : d.slot = h.back /\ WillShow(h, s, "real", d.frame)
    /\ h.publish[s] => \E f \in 0 .. n :
          /\ Newer(h, w, f) /\ WillShow(h, s, "real", f)
          /\ h.has[h.back] => WillShow(h, s, "mid", f)
Whole(h, n, w) ==
    /\ w \in 0 .. 2 /\ h.back # w /\ h.middle # w /\ h.back # h.middle
    /\ \A t \in 0 .. 2 : h.real[t] <= n
    /\ h.screen.is = h.screen.due
    /\ \A t \in 0 .. 2 : (t = w \/ (h.fresh /\ t = h.middle)) /\ h.has[t]
                            => h.mid[t] = h.real[t]
    /\ h.fresh => h.real[h.middle] > h.real[w]
Screens(h, n, w) ==
    /\ Whole(h, n, w) /\ \A s \in Gpu!Slots : Showing(h, s, n, w)
    /\ \A s, t \in Gpu!Slots : Shows(h, s) /\ Shows(h, t) => s = t
\* The frame's picture to come is the recording slot's, and newer than those shown.
Ahead(h, w, op, f) ==
    /\ \A s \in Gpu!Slots : ~h.publish[s] /\ (Shows(h, s) => s = h.cur)
    /\ WillShow(h, h.cur, op, f) /\ Newer(h, w, f)
\* Between the copies of a frame, and between frames.
Paused(h, p, w) ==
    /\ p = Gpu!NoPair => ~Shows(h, h.cur)
    /\ p # Gpu!NoPair =>
        /\ Ahead(h, w, "real", p.frame)
        /\ \A s \in Gpu!Slots : \A j \in DOMAIN h.ops[s] : h.ops[s][j].op # "mid"
\* No frame is to be handed to the window, which leaves the renderer's screen slot its own.
Steady(h, b) == h.back = b /\ \A s \in Gpu!Slots : ~h.publish[s]
Onward(h, k, w) ==
    /\ \A p : Paused(h, p, w) => Paused(k, p, w)
    /\ \A b : Steady(h, b) => Steady(k, b)
    /\ \A op \in {"real", "mid"} : \A f : Ahead(h, w, op, f) => Ahead(k, w, op, f)
\* A slot whose commands draw a picture hands something over when it is finished.
Tells(h) == \A s \in Gpu!Slots : Pictures(h, s) => h.publish[s] \/ h.deliver[s] # {}

\* The fields of the screens.
LEMMA StateScreens ==
    ASSUME NEW h \in State
    PROVE  /\ h.back \in 0 .. 2 /\ h.middle \in 0 .. 2 /\ h.fresh \in BOOLEAN
           /\ \A t \in 0 .. 2 : h.real[t] \in Nat /\ h.mid[t] \in Nat /\ h.has[t] \in BOOLEAN
           /\ \A s \in Gpu!Slots : \A d \in h.deliver[s] : d.slot \in 0 .. 2 /\ d.frame \in Nat
           /\ h.cur \in Gpu!Slots
<1>1. \A d \in Screen : d.slot \in 0 .. 2 /\ d.frame \in Nat
  BY DEF Screen
<1>. QED BY <1>1 DEF State

\* A picture drawn is the back slot's, of the frame it is to show.
LEMMA DrawnShows ==
    ASSUME NEW h \in State, NEW s \in Gpu!Slots, NEW n, NEW w, Showing(h, s, n, w),
           NEW op \in {"real", "mid"}, NEW t
    PROVE  /\ \A f : t = h.back /\ WillShow(h, s, op, f) => Gpu!Drawn(h, s, op, t) = f
           /\ t # h.back => Gpu!Drawn(h, s, op, t) = h[op][t]
           /\ Gpu!Drawn(h, s, op, t) = h[op][t]
              \/ \E j \in DOMAIN h.ops[s] : ToScreen(h.ops[s][j])
                                            /\ Gpu!Drawn(h, s, op, t) = h.ops[s][j].frame
           /\ ~Pictures(h, s) => Gpu!Drawn(h, s, op, t) = h[op][t]
BY DrawnIs DEF Showing, WillShow, ToScreen, Pictures

\* A frame handed over is whole, and newer than what is shown.
LEMMA FinishScreens ==
    ASSUME NEW h \in State, NEW k \in State, NEW s \in Gpu!Slots, Finished(h, k, s),
           NEW n \in Nat, NEW w, Screens(h, n, w)
    PROVE  Screens(k, n, w)
<1>1. /\ k.ops[s] = <<>> /\ DOMAIN k.ops[s] = {} /\ k.deliver[s] = {} /\ ~k.publish[s]
  BY DEF Finished, State
<1>2. \A t \in Gpu!Slots : t # s => /\ k.ops[t] = h.ops[t] /\ k.deliver[t] = h.deliver[t]
                               /\ k.publish[t] = h.publish[t]
  BY DEF Finished, State
<1>3. k.has = h.has
  BY DEF Finished, Same, Fields
<1>4. \A t \in 0 .. 2 : k.real[t] = Gpu!Drawn(h, s, "real", t)
      /\ k.mid[t] = Gpu!Drawn(h, s, "mid", t)
  BY DEF Finished
<1>5. Showing(h, s, n, w)
  BY DEF Screens
<1>6. /\ ~Shows(k, s)
      /\ \A t \in Gpu!Slots : t # s => (Shows(k, t) <=> Shows(h, t))
      /\ \A t, u \in Gpu!Slots : Shows(k, t) /\ Shows(k, u) => t = u
  BY <1>1, <1>2 DEF Shows, Pictures, Screens
<1>7. \A t \in 0 .. 2 : t # h.back => k.real[t] = h.real[t] /\ k.mid[t] = h.mid[t]
  BY <1>4, <1>5, DrawnShows
<1>8. \A f : /\ WillShow(h, s, "real", f) => k.real[h.back] = f
             /\ WillShow(h, s, "mid", f) => k.mid[h.back] = f
  BY <1>4, <1>5, DrawnShows, StateScreens
<1>9. CASE ~Shows(h, s)
  <2>1. /\ k.back = h.back /\ k.middle = h.middle /\ k.fresh = h.fresh /\ k.screen = h.screen
        /\ \A t \in 0 .. 2 : k.real[t] = h.real[t] /\ k.mid[t] = h.mid[t]
    <3>1. ~h.publish[s] /\ h.deliver[s] = {} /\ ~Pictures(h, s)
      BY <1>9 DEF Shows
    <3>2. k.back = h.back /\ k.middle = h.middle /\ k.fresh = h.fresh /\ k.screen = h.screen
      BY <3>1 DEF Finished
    <3>3. \A t \in 0 .. 2 : k.real[t] = h.real[t] /\ k.mid[t] = h.mid[t]
      BY <1>4, <1>5, <3>1, DrawnShows
    <3>. QED BY <3>2, <3>3
  <2>2. Whole(k, n, w)
    BY <1>3, <2>1, StateScreens DEF Whole, Screens
  <2>3. ASSUME NEW t \in Gpu!Slots, t # s PROVE Showing(k, t, n, w)
    <3>1. \A f : /\ WillShow(h, t, "real", f) => WillShow(k, t, "real", f)
                 /\ WillShow(h, t, "mid", f) => WillShow(k, t, "mid", f)
      BY <1>2, <2>1, <2>3, StateScreens DEF WillShow
    <3>2. \A f : Newer(h, w, f) => Newer(k, w, f)
      BY <2>1, StateScreens DEF Newer, Screens, Whole
    <3>. QED BY <1>2, <1>3, <2>1, <2>3, <3>1, <3>2 DEF Showing, Screens
  <2>4. Showing(k, s, n, w)
    BY <1>1 DEF Showing
  <2>. QED BY <1>6, <2>2, <2>3, <2>4 DEF Screens
<1>10. CASE Shows(h, s)
  <2>1. \A t \in Gpu!Slots : ~Shows(k, t)
    BY <1>6, <1>10 DEF Screens
  <2>2. \A t \in Gpu!Slots : Showing(k, t, n, w)
    BY <2>1 DEF Showing, Shows, Pictures
  <2>3. \A t \in 0 .. 2 : k.real[t] <= n
    <3>1. \A t \in 0 .. 2 : h.real[t] <= n
      BY DEF Screens, Whole
    <3>2. \A j \in DOMAIN h.ops[s] : ToScreen(h.ops[s][j]) => h.ops[s][j].frame <= n
      BY <1>5 DEF Showing
    <3>. QED BY <1>4, <1>5, <3>1, <3>2, DrawnShows
  <2>4. k.screen.is = k.screen.due
    <3>1. CASE k.screen = h.screen
      BY <3>1 DEF Screens, Whole
    <3>2. CASE \E d \in h.deliver[s] : k.screen = [is |-> k.real[d.slot], due |-> d.frame]
      BY <1>5, <1>8, <3>2 DEF Showing
    <3>. QED BY <3>1, <3>2 DEF Finished
  <2>5. CASE ~h.publish[s]
    <3>1. k.back = h.back /\ k.middle = h.middle /\ k.fresh = h.fresh
      BY <2>5 DEF Finished
    <3>2. Whole(k, n, w)
      BY <1>3, <1>7, <2>3, <2>4, <3>1, StateScreens DEF Whole, Screens
    <3>. QED BY <1>6, <2>2, <3>2 DEF Screens
  <2>6. CASE h.publish[s]
    <3>1. k.back = h.middle /\ k.middle = h.back /\ k.fresh
      BY <2>6 DEF Finished
    <3>2. PICK f \in 0 .. n : /\ Newer(h, w, f) /\ WillShow(h, s, "real", f)
                              /\ h.has[h.back] => WillShow(h, s, "mid", f)
      BY <1>5, <2>6 DEF Showing
    <3>3. k.real[h.back] = f /\ (h.has[h.back] => k.mid[h.back] = f)
      BY <1>8, <3>2
    <3>4. w \in 0 .. 2 /\ h.back # w /\ h.middle # w /\ h.back # h.middle
      BY DEF Screens, Whole
    <3>5. k.real[k.middle] > k.real[w]
      BY <1>7, <3>1, <3>2, <3>3, <3>4 DEF Newer
    <3>6. \A t \in 0 .. 2 : (t = w \/ t = k.middle) /\ k.has[t] => k.mid[t] = k.real[t]
      <4>1. k.has[k.middle] => k.mid[k.middle] = k.real[k.middle]
        BY <1>3, <3>1, <3>3
      <4>2. \A t \in 0 .. 2 : t = w /\ k.has[t] => k.mid[t] = k.real[t]
        <5>1. \A t \in 0 .. 2 : (t = w \/ (h.fresh /\ t = h.middle)) /\ h.has[t]
                                    => h.mid[t] = h.real[t]
          BY DEF Screens, Whole
        <5>2. \A t \in 0 .. 2 : t = w => t # h.back
          BY <3>4
        <5>3. \A t \in 0 .. 2 : t = w /\ h.has[t] => h.mid[t] = h.real[t]
          BY <5>1
        <5>4. \A t \in 0 .. 2 : t = w => k.mid[t] = h.mid[t] /\ k.real[t] = h.real[t]
          BY <1>7, <5>2
        <5>. QED BY <1>3, <5>3, <5>4
      <4>. QED BY <4>1, <4>2
    <3>7. Whole(k, n, w)
      BY <2>3, <2>4, <3>1, <3>4, <3>5, <3>6 DEF Whole
    <3>. QED BY <1>6, <2>2, <3>7 DEF Screens
  <2>. QED BY <2>5, <2>6
<1>. QED BY <1>9, <1>10

\* What is promised of the frame to come stays promised.
LEMMA FinishOnward ==
    ASSUME NEW h \in State, NEW k \in State, NEW s \in Gpu!Slots, Finished(h, k, s),
           NEW n \in Nat, NEW w, Screens(h, n, w)
    PROVE  Onward(h, k, w)
<1>1. /\ k.ops[s] = <<>> /\ DOMAIN k.ops[s] = {} /\ k.deliver[s] = {} /\ ~k.publish[s]
  BY DEF Finished, State
<1>2. \A t \in Gpu!Slots : t # s => /\ k.ops[t] = h.ops[t] /\ k.deliver[t] = h.deliver[t]
                               /\ k.publish[t] = h.publish[t]
  BY DEF Finished, State
<1>3. k.cur = h.cur /\ h.cur \in Gpu!Slots
  BY StateScreens DEF Finished, Same, Fields
<1>4. \A t \in 0 .. 2 : k.real[t] = Gpu!Drawn(h, s, "real", t)
      /\ k.mid[t] = Gpu!Drawn(h, s, "mid", t)
  BY DEF Finished
<1>5. Showing(h, s, n, w)
  BY DEF Screens
<1>6. ~Shows(k, s) /\ \A t \in Gpu!Slots : t # s => (Shows(k, t) <=> Shows(h, t))
  BY <1>1, <1>2 DEF Shows, Pictures
<1>7. ASSUME NEW op \in {"real", "mid"}, NEW f, Ahead(h, w, op, f) PROVE Ahead(k, w, op, f)
  <2>1. k.back = h.back /\ k.middle = h.middle /\ k.fresh = h.fresh
    BY <1>7 DEF Finished, Ahead
  <2>2. \A t \in 0 .. 2 : t # h.back => k.real[t] = h.real[t]
    BY <1>4, <1>5, DrawnShows
  <2>3. Newer(k, w, f)
    BY <1>7, <2>1, <2>2, StateScreens DEF Newer, Ahead, Screens, Whole
  <2>4. \A t \in 0 .. 2 : k[op][t] = Gpu!Drawn(h, s, op, t)
    BY <1>4
  <2>5. WillShow(k, k.cur, op, f)
    <3>1. CASE s = h.cur
      <4>1. WillShow(h, s, op, f)
        BY <1>7, <3>1 DEF Ahead
      <4>2. k[op][h.back] = f
        BY <2>4, <1>5, <4>1, DrawnShows, StateScreens
      <4>. QED BY <1>1, <1>3, <2>1, <3>1, <4>2 DEF WillShow
    <3>2. CASE s # h.cur
      <4>1. ~Pictures(h, s)
        BY <1>7, <3>2 DEF Ahead, Shows
      <4>2. k[op][h.back] = h[op][h.back]
        BY <2>4, <1>5, <4>1, DrawnShows, StateScreens
      <4>. QED BY <1>2, <1>3, <1>7, <2>1, <3>2, <4>2 DEF Ahead, WillShow
    <3>. QED BY <3>1, <3>2
  <2>6. \A t \in Gpu!Slots : ~k.publish[t] /\ (Shows(k, t) => t = k.cur)
    BY <1>1, <1>2, <1>3, <1>6, <1>7 DEF Ahead
  <2>. QED BY <2>3, <2>5, <2>6 DEF Ahead
<1>8. ASSUME NEW p, Paused(h, p, w) PROVE Paused(k, p, w)
  <2>1. p = Gpu!NoPair => ~Shows(k, k.cur)
    BY <1>3, <1>6, <1>8 DEF Paused
  <2>2. p # Gpu!NoPair => Ahead(k, w, "real", p.frame)
    BY <1>7, <1>8 DEF Paused
  <2>3. p # Gpu!NoPair => \A t \in Gpu!Slots : \A j \in DOMAIN k.ops[t] : k.ops[t][j].op # "mid"
    BY <1>1, <1>2, <1>8 DEF Paused
  <2>. QED BY <2>1, <2>2, <2>3 DEF Paused
<1>9. ASSUME NEW b, Steady(h, b) PROVE Steady(k, b)
  BY <1>1, <1>2, <1>9 DEF Steady, Finished
<1>. QED BY <1>7, <1>8, <1>9 DEF Onward

LEMMA FinishTells ==
    ASSUME NEW h \in State, NEW k \in State, NEW s \in Gpu!Slots, Finished(h, k, s), Tells(h)
    PROVE  Tells(k)
<1>1. k.ops[s] = <<>> /\ DOMAIN k.ops[s] = {}
  BY DEF Finished, State
<1>2. \A t \in Gpu!Slots : t # s => /\ k.ops[t] = h.ops[t] /\ k.deliver[t] = h.deliver[t]
                               /\ k.publish[t] = h.publish[t]
  BY DEF Finished, State
<1>. QED BY <1>1, <1>2 DEF Tells, Pictures

Good(h, n, e, w) ==
    h \in State /\ Kept(h) /\ Lands(h, n, e) /\ Draws(h) /\ Screens(h, n, w)
\* A copy's image has landed or is to.
Known(h, x) ==
    \/ x.kind = "texture" \/ x.n \in h.filled
    \/ \E s \in Gpu!Slots : \E i \in DOMAIN h.lands[s] :
          h.lands[s][i].image /\ h.lands[s][i].seq = x.n
Follows(h, k, e) ==
    /\ Tells(h) => Tells(k)
    /\ (\A c \in Gpu!Cells : e[c] <= seq) /\ Told(h, e) => Told(k, e)
    /\ \A x : Known(h, x) => Known(k, x)
Context(n, e) == n \in Nat /\ seq \in Nat /\ seq <= n /\ e \in [Gpu!Cells -> Nat]

LEMMA FinishKnown ==
    ASSUME NEW h \in State, NEW k \in State, NEW s \in Gpu!Slots, Finished(h, k, s), NEW x,
           Known(h, x)
    PROVE  Known(k, x)
<1>1. /\ \A t \in Gpu!Slots : t # s => k.lands[t] = h.lands[t]
      /\ k.filled = h.filled \cup Gpu!ImagesOf(h.lands[s])
  BY DEF Finished, State
<1>. QED BY <1>1, ImagesAre DEF Known

\* Finishing a slot keeps all of it.
LEMMA FinishGood ==
    ASSUME NEW n, NEW e, NEW w, Context(n, e), NEW h, Good(h, n, e, w), NEW s \in Gpu!Slots,
           h.inflight[s], \A t \in Gpu!Slots : t # s => t = h.cur \/ h.ops[t] = <<>>
    PROVE  LET k == Gpu!Finish(h, s)
           IN /\ Good(k, n, e, w) /\ Follows(h, k, e) /\ Finished(h, k, s)
              /\ Onward(h, k, w)
              /\ Clean(k, s) /\ ~k.inflight[s]
<1>. DEFINE k == Gpu!Finish(h, s)
<1>1. h \in State /\ Kept(h) /\ Lands(h, n, e) /\ Draws(h) /\ Screens(h, n, w)
  BY DEF Good
<1>2. n \in Nat /\ seq \in Nat /\ seq <= n /\ e \in [Gpu!Cells -> Nat]
  BY DEF Context
<1>3. k \in State /\ Finished(h, k, s)
  BY <1>1, <1>2, FinishIs DEF Kept
<1>. HIDE DEF k
<1>4. Kept(k) /\ Clean(k, s) /\ ~k.inflight[s]
  BY <1>1, <1>3, FinishKept
<1>5. Lands(k, n, e) /\ ((\A c \in Gpu!Cells : e[c] <= seq) => Told(k, e))
  BY <1>1, <1>2, <1>3, FinishLands
<1>6. Draws(k)
  BY <1>1, <1>3, FinishDraws
<1>7. Screens(k, n, w)
  BY <1>1, <1>2, <1>3, FinishScreens
<1>8. Onward(h, k, w)
  BY <1>1, <1>2, <1>3, FinishOnward
<1>9. (Tells(h) => Tells(k)) /\ \A x : Known(h, x) => Known(k, x)
  BY <1>1, <1>3, FinishTells, FinishKnown
<1>. QED BY <1>3, <1>4, <1>5, <1>6, <1>7, <1>8, <1>9 DEF Good, Follows, k

\* What is left of the slot being recorded when the other is finished.
LEMMA FinishedBeside ==
    ASSUME NEW h \in State, NEW k \in State, NEW s \in Gpu!Slots, Finished(h, k, s),
           NEW t \in Gpu!Slots, t # s
    PROVE  /\ k.ops[t] = h.ops[t] /\ k.lands[t] = h.lands[t] /\ k.cimg[t] = h.cimg[t]
           /\ k.deliver[t] = h.deliver[t] /\ k.publish[t] = h.publish[t]
           /\ k.inflight[t] = h.inflight[t] /\ k.carried[t] = {}
           /\ k.cur = h.cur /\ k.rec = h.rec /\ k.used = h.used /\ k.resident = h.resident
           /\ k.has = h.has
           /\ Clean(h, t) => Clean(k, t)
<1>1. /\ k.ops[t] = h.ops[t] /\ k.lands[t] = h.lands[t] /\ k.cimg[t] = h.cimg[t]
      /\ k.deliver[t] = h.deliver[t] /\ k.publish[t] = h.publish[t]
      /\ k.inflight[t] = h.inflight[t] /\ k.carried[t] = {}
  BY DEF Finished, State
<1>2. k.cur = h.cur /\ k.rec = h.rec /\ k.used = h.used /\ k.resident = h.resident
      /\ k.has = h.has
  BY DEF Finished, Same, Fields
<1>. QED BY <1>1, <1>2 DEF Clean

\* The slot being recorded is as it was.
BesideIt(h, k) ==
    /\ k.cur = h.cur /\ k.rec = h.rec /\ k.used = h.used /\ k.resident = h.resident
    /\ k.has = h.has /\ k.ops[h.cur] = h.ops[h.cur] /\ k.lands[h.cur] = h.lands[h.cur]
    /\ k.cimg[h.cur] = h.cimg[h.cur] /\ k.deliver[h.cur] = h.deliver[h.cur]
    /\ k.publish[h.cur] = h.publish[h.cur]

\* Finishing the slot in flight beside the one being recorded.
LEMMA FinishOther ==
    ASSUME NEW n, NEW e, NEW w, Context(n, e), NEW h, Good(h, n, e, w), ~h.inflight[h.cur]
    PROVE  LET k == Gpu!Finish(h, Gpu!Other(h))
           IN /\ Good(k, n, e, w) /\ Follows(h, k, e)
              /\ Onward(h, k, w)
              /\ \A t \in Gpu!Slots : t # h.cur => Clean(k, t) /\ ~k.inflight[t]
              /\ BesideIt(h, k) /\ ~k.inflight[h.cur]
              /\ h.inflight[Gpu!Other(h)] => k.carried[h.cur] = {}
<1>. DEFINE o == Gpu!Other(h)
            k == Gpu!Finish(h, o)
<1>1. h \in State /\ Kept(h) /\ h.cur \in Gpu!Slots
  BY StateScreens DEF Good
<1>2. o \in Gpu!Slots /\ \A t \in Gpu!Slots : t = h.cur \/ t = o
  BY <1>1, OtherIs
<1>. HIDE DEF o
<1>3. CASE h.inflight[o]
  <2>1. o # h.cur
    BY <1>3
  <2>2. /\ Good(k, n, e, w) /\ Follows(h, k, e) /\ Finished(h, k, o)
        /\ Onward(h, k, w)
        /\ Clean(k, o) /\ ~k.inflight[o]
    BY <1>2, <1>3, FinishGood
  <2>. HIDE DEF k
  <2>3. k \in State
    BY <2>2 DEF Good
  <2>4. BesideIt(h, k) /\ ~k.inflight[h.cur] /\ k.carried[h.cur] = {}
    BY <1>1, <1>2, <2>1, <2>2, <2>3, FinishedBeside DEF BesideIt
  <2>. QED BY <1>1, <1>2, <2>1, <2>2, <2>4 DEF k, o
<1>4. CASE ~h.inflight[o]
  <2>1. k = h
    BY <1>4 DEF Gpu!Finish
  <2>2. \A t \in Gpu!Slots : t # h.cur => Clean(h, t) /\ ~h.inflight[t]
    BY <1>1, <1>2, <1>4 DEF Kept
  <2>3. Follows(h, h, e) /\ Onward(h, h, w)
    BY DEF Follows, Onward
  <2>. QED BY <1>4, <2>1, <2>2, <2>3 DEF k, o, BesideIt
<1>. QED BY <1>3, <1>4

-----------------------------------------------------------------------------
(* Submitting.                                                              *)

\* slot_poll finishes the slot in flight or nothing.
LEMMA PollIs ==
    ASSUME NEW h
    PROVE  Gpu!Poll(h) = h \/ (Gpu!InFlight(h) /\ Gpu!Poll(h) = Gpu!Finish(h, Gpu!Other(h)))
BY DEF Gpu!Poll

\* What each part of the invariant depends on.
LEMMA DrawsFrame ==
    ASSUME NEW h, NEW k, k.cur = h.cur, k.ops = h.ops, k.pool = h.pool, k.cimg = h.cimg,
           k.carried = h.carried, k.lands = h.lands, k.used = h.used, k.resident = h.resident,
           k.missed = h.missed, Draws(h)
    PROVE  Draws(k)
<1>1. \A s, a, x : Would(h, s, a, x) <=> Would(k, s, a, x)
  BY DEF Would
<1>2. \A s, a, x : Will(h, s, a, x) <=> Will(k, s, a, x)
  BY <1>1 DEF Will
<1>3. \A s : Sound(h, s) <=> Sound(k, s)
  BY <1>2 DEF Sound
<1>4. Upto(h) <=> Upto(k)
  BY <1>2 DEF Upto
<1>. QED BY <1>3, <1>4 DEF Draws

LEMMA ScreensFrame ==
    ASSUME NEW h, NEW k, k.ops = h.ops, k.deliver = h.deliver, k.publish = h.publish,
           k.back = h.back, k.middle = h.middle, k.fresh = h.fresh, k.real = h.real,
           k.mid = h.mid, k.has = h.has, k.screen = h.screen, NEW n, NEW w
    PROVE  /\ Screens(h, n, w) => Screens(k, n, w)
           /\ Tells(h) => Tells(k)
           /\ \A s : (Shows(h, s) <=> Shows(k, s)) /\ (Pictures(h, s) <=> Pictures(k, s))
           /\ k.cur = h.cur => Onward(h, k, w)
<1>1. \A s : (Shows(h, s) <=> Shows(k, s)) /\ (Pictures(h, s) <=> Pictures(k, s))
  BY DEF Shows, Pictures
<1>2. \A s, f : /\ WillShow(h, s, "real", f) <=> WillShow(k, s, "real", f)
                /\ WillShow(h, s, "mid", f) <=> WillShow(k, s, "mid", f)
  BY DEF WillShow
<1>3. \A f : Newer(h, w, f) <=> Newer(k, w, f)
  BY DEF Newer
<1>4. \A s : Showing(h, s, n, w) <=> Showing(k, s, n, w)
  BY <1>2, <1>3 DEF Showing
<1>5. Whole(h, n, w) <=> Whole(k, n, w)
  BY DEF Whole
<1>6. k.cur = h.cur => Onward(h, k, w)
  <2>1. ASSUME k.cur = h.cur, NEW op \in {"real", "mid"}, NEW f, Ahead(h, w, op, f)
        PROVE  Ahead(k, w, op, f)
    BY <1>1, <1>2, <1>3, <2>1 DEF Ahead
  <2>. QED BY <1>1, <2>1 DEF Paused, Onward, Steady
<1>. QED BY <1>1, <1>4, <1>5, <1>6 DEF Screens, Tells

LEMMA LandsFrame ==
    ASSUME NEW h, NEW k, k.lands = h.lands, k.ram = h.ram, k.said = h.said, NEW n, NEW e
    PROVE  /\ Lands(h, n, e) => Lands(k, n, e)
           /\ Told(h, e) => Told(k, e)
           /\ k.filled = h.filled => \A x : Known(h, x) => Known(k, x)
<1>1. \A l : Coming(h, n, e, l) <=> Coming(k, n, e, l)
  BY DEF Coming
<1>2. (Apart(h) <=> Apart(k)) /\ \A c : Covered(h, c) <=> Covered(k, c)
  BY DEF Apart, Covered
<1>. QED BY <1>1, <1>2 DEF Lands, Told, Known

\* The recording slot goes into flight.
LEMMA SubmitGoIs ==
    ASSUME NEW n, NEW e, NEW w, NEW h, Good(h, n, e, w), ~h.inflight[h.cur]
    PROVE  LET k == Gpu!SubmitGo(h)
           IN /\ Good(k, n, e, w) /\ Follows(h, k, e)
              /\ Onward(h, k, w)
              /\ Same(h, k, {"rec", "inflight", "done"})
              /\ ~k.rec[h.cur] /\ k.inflight[h.cur] /\ ~k.done[h.cur]
              /\ \A t \in Gpu!Slots : t # h.cur => k.inflight[t] = h.inflight[t]
<1>. DEFINE k == Gpu!SubmitGo(h)
            rec == [h.rec EXCEPT ![h.cur] = FALSE]
            inflight == [h.inflight EXCEPT ![h.cur] = TRUE]
            done == [h.done EXCEPT ![h.cur] = FALSE]
<1>1. h \in State /\ Kept(h) /\ Lands(h, n, e) /\ Draws(h) /\ Screens(h, n, w)
      /\ h.cur \in Gpu!Slots
  BY StateScreens DEF Good
<1>2. /\ rec \in [Gpu!Slots -> BOOLEAN] /\ inflight \in [Gpu!Slots -> BOOLEAN]
      /\ done \in [Gpu!Slots -> BOOLEAN]
      /\ ~rec[h.cur] /\ inflight[h.cur] /\ ~done[h.cur]
      /\ \A t \in Gpu!Slots : t # h.cur => inflight[t] = h.inflight[t] /\ done[t] = h.done[t]
  BY <1>1 DEF State
<1>3. k = [h EXCEPT !.rec = rec, !.inflight = inflight, !.done = done]
  BY <1>1 DEF Gpu!SubmitGo, State
<1>. HIDE DEF k, rec, inflight, done
<1>4. /\ k \in State /\ Same(h, k, {"rec", "inflight", "done"})
      /\ k.rec = rec /\ k.inflight = inflight /\ k.done = done
  BY <1>1, <1>2, <1>3 DEF State, Same, Fields
<1>5. /\ k.cur = h.cur /\ k.ops = h.ops /\ k.pool = h.pool /\ k.cimg = h.cimg
      /\ k.carried = h.carried /\ k.lands = h.lands /\ k.used = h.used
      /\ k.resident = h.resident /\ k.missed = h.missed /\ k.deliver = h.deliver
      /\ k.publish = h.publish /\ k.back = h.back /\ k.middle = h.middle
      /\ k.fresh = h.fresh /\ k.real = h.real /\ k.mid = h.mid /\ k.has = h.has
      /\ k.screen = h.screen /\ k.ram = h.ram /\ k.said = h.said /\ k.filled = h.filled
  BY <1>4 DEF Same, Fields
<1>6. Draws(k)
  BY <1>1, <1>5, DrawsFrame
<1>7. Screens(k, n, w) /\ (Tells(h) => Tells(k)) /\ Onward(h, k, w)
  BY <1>1, <1>5, ScreensFrame
<1>8. Lands(k, n, e) /\ (Told(h, e) => Told(k, e)) /\ \A x : Known(h, x) => Known(k, x)
  BY <1>1, <1>5, LandsFrame
<1>9. Kept(k)
  <2>1. \A t \in Gpu!Slots : (Clean(h, t) => Clean(k, t)) /\ (Paired(h, t) => Paired(k, t))
    BY <1>5 DEF Clean, Paired
  <2>. QED BY <1>1, <1>2, <1>4, <1>5, <2>1 DEF Kept
<1>. QED BY <1>2, <1>4, <1>6, <1>7, <1>8, <1>9 DEF Good, Follows, k

\* The slot entered is empty; the one left, if another, is in flight.
LEMMA EnterIs ==
    ASSUME NEW n, NEW e, NEW w, NEW h, Good(h, n, e, w), NEW s \in Gpu!Slots, Clean(h, s),
           ~h.inflight[s], s # h.cur => h.inflight[h.cur]
    PROVE  LET k == Gpu!Enter(h, s)
           IN /\ Good(k, n, e, w) /\ Follows(h, k, e) /\ Recording(k)
              /\ s = h.cur => Onward(h, k, w)
              /\ k.cur = s /\ k.used = 0 /\ k.resident = {}
              /\ Same(h, k, {"cur", "used", "resident"})
              /\ \A t \in Gpu!Slots : Clean(h, t) => Clean(k, t)
<1>. DEFINE k == Gpu!Enter(h, s)
<1>1. h \in State /\ Kept(h) /\ Lands(h, n, e) /\ Draws(h) /\ Screens(h, n, w)
      /\ h.cur \in Gpu!Slots
  BY StateScreens DEF Good
<1>2. k = [h EXCEPT !.cur = s, !.used = 0, !.resident = {}]
  BY DEF Gpu!Enter
<1>3. HalfRoom \in Nat \ {0}
  BY GpuAssumption
<1>. HIDE DEF k
<1>4. /\ k \in State /\ Same(h, k, {"cur", "used", "resident"})
      /\ k.cur = s /\ k.used = 0 /\ k.resident = {}
  <2>1. \A u \in 0 .. HalfRoom, r \in SUBSET Entry :
           [h EXCEPT !.cur = s, !.used = u, !.resident = r] \in State
    BY <1>1 DEF State
  <2>2. k \in State
    <3>1. 0 \in 0 .. HalfRoom /\ {} \in SUBSET Entry
      BY <1>3
    <3>2. PICK u, r : u = 0 /\ r = {}
      OBVIOUS
    <3>3. [h EXCEPT !.cur = s, !.used = u, !.resident = r] \in State
      BY <2>1, <3>1, <3>2
    <3>. QED BY <1>2, <3>2, <3>3
  <2>3. Same(h, k, {"cur", "used", "resident"}) /\ k.cur = s /\ k.used = 0 /\ k.resident = {}
    BY <1>1, <1>2 DEF State, Same, Fields
  <2>. QED BY <2>2, <2>3
<1>5. /\ k.ops = h.ops /\ k.pool = h.pool /\ k.cimg = h.cimg
      /\ k.carried = h.carried /\ k.lands = h.lands /\ k.missed = h.missed
      /\ k.deliver = h.deliver
      /\ k.publish = h.publish /\ k.back = h.back /\ k.middle = h.middle
      /\ k.fresh = h.fresh /\ k.real = h.real /\ k.mid = h.mid /\ k.has = h.has
      /\ k.screen = h.screen /\ k.ram = h.ram /\ k.said = h.said /\ k.filled = h.filled
      /\ k.inflight = h.inflight /\ k.rec = h.rec /\ k.done = h.done
  BY <1>4 DEF Same, Fields
<1>6. /\ h.ops[s] = <<>> /\ DOMAIN h.ops[s] = {} /\ h.cimg[s] = {}
      /\ h.lands[s] = <<>> /\ DOMAIN h.lands[s] = {}
  BY DEF Clean
<1>7. \A t \in Gpu!Slots : (Clean(h, t) => Clean(k, t)) /\ (Paired(h, t) => Paired(k, t))
  BY <1>5 DEF Clean, Paired
<1>8. Kept(k)
  BY <1>1, <1>4, <1>5, <1>7 DEF Kept
<1>9. Recording(k)
  BY <1>4, <1>5, <1>7 DEF Recording
<1>10. Screens(k, n, w) /\ (Tells(h) => Tells(k))
       /\ (s = h.cur => Onward(h, k, w))
  BY <1>1, <1>4, <1>5, ScreensFrame
<1>11. Lands(k, n, e) /\ (Told(h, e) => Told(k, e)) /\ \A x : Known(h, x) => Known(k, x)
  BY <1>1, <1>5, LandsFrame
<1>12. \A t, a, x : Would(h, t, a, x) <=> Would(k, t, a, x)
  BY <1>5 DEF Would
<1>13. \A a, x : Would(h, s, a, x) => h.pool[s][a] = x
  BY <1>6 DEF Would, Untouched
<1>14. ASSUME NEW t \in Gpu!Slots, NEW a, NEW x, Will(h, t, a, x) PROVE Will(k, t, a, x)
  <2>1. CASE t = s
    BY <1>4, <1>5, <1>6, <1>14, <2>1 DEF Will
  <2>2. CASE t # s
    <3>1. \A j \in DOMAIN h.ops[t] : h.ops[t][j].op = "carry" => 1 - t = s
      BY <1>1, <1>14, <2>2, SlotsAre DEF Kept, Paired
    <3>. QED BY <1>4, <1>5, <1>13, <1>14, <2>2, <3>1 DEF Will
  <2>. QED BY <2>1, <2>2
<1>15. \A t \in Gpu!Slots : Sound(k, t)
  BY <1>1, <1>5, <1>14 DEF Sound, Draws
<1>16. Upto(k)
  BY <1>4, <1>5, <1>6 DEF Upto
<1>17. Draws(k)
  BY <1>1, <1>5, <1>15, <1>16 DEF Draws
<1>. QED BY <1>4, <1>7, <1>8, <1>9, <1>10, <1>11, <1>17 DEF Good, Follows, k

LEMMA FollowsOn ==
    ASSUME NEW h, NEW k, NEW l, NEW e, NEW w
    PROVE  /\ Follows(h, k, e) /\ Follows(k, l, e) => Follows(h, l, e)
           /\ Onward(h, k, w) /\ Onward(k, l, w) => Onward(h, l, w)
BY DEF Follows, Onward

LEMMA BesideRecording ==
    ASSUME NEW h, NEW k, BesideIt(h, k), ~k.inflight[h.cur], Recording(h)
    PROVE  Recording(k)
BY DEF BesideIt, Recording, Clean

\* finish_all
LEMMA FinishAllIs ==
    ASSUME NEW n, NEW e, NEW w, Context(n, e), NEW h, Good(h, n, e, w), Recording(h)
    PROVE  LET k == Gpu!FinishAll(h)
           IN /\ Good(k, n, e, w) /\ Follows(h, k, e) /\ Onward(h, k, w) /\ Recording(k)
              /\ BesideIt(h, k)
              /\ \A t \in Gpu!Slots : t # h.cur => Clean(k, t) /\ ~k.inflight[t]
<1>. DEFINE k == Gpu!Finish(h, Gpu!Other(h))
<1>0. ~h.inflight[h.cur]
  BY DEF Recording
<1>1. /\ Good(k, n, e, w) /\ Follows(h, k, e) /\ Onward(h, k, w) /\ BesideIt(h, k)
      /\ \A t \in Gpu!Slots : t # h.cur => Clean(k, t) /\ ~k.inflight[t]
      /\ ~k.inflight[h.cur]
  BY <1>0, FinishOther
<1>2. Gpu!FinishAll(h) = k
  BY <1>1 DEF Gpu!FinishAll, Gpu!Finish, BesideIt
<1>3. Recording(k)
  BY <1>1, BesideRecording
<1>. QED BY <1>1, <1>2, <1>3

\* slot_poll
LEMMA PollGood ==
    ASSUME NEW n, NEW e, NEW w, Context(n, e), NEW h, Good(h, n, e, w), Recording(h)
    PROVE  LET k == Gpu!Poll(h)
           IN /\ Good(k, n, e, w) /\ Follows(h, k, e) /\ Onward(h, k, w) /\ Recording(k)
              /\ BesideIt(h, k)
<1>0. ~h.inflight[h.cur]
  BY DEF Recording
<1>1. CASE Gpu!Poll(h) = h
  BY <1>1 DEF Follows, Onward, BesideIt
<1>2. CASE Gpu!Poll(h) = Gpu!Finish(h, Gpu!Other(h))
  <2>1. LET k == Gpu!Finish(h, Gpu!Other(h))
        IN /\ Good(k, n, e, w) /\ Follows(h, k, e) /\ Onward(h, k, w) /\ BesideIt(h, k)
           /\ ~k.inflight[h.cur]
    BY <1>0, FinishOther
  <2>. QED BY <1>2, <2>1, BesideRecording
<1>. QED BY <1>1, <1>2, PollIs

\* Submitting and recording on in the other slot, which is finished first.
LEMMA SubmitNextIs ==
    ASSUME NEW n, NEW e, NEW w, Context(n, e), NEW h, Good(h, n, e, w), Recording(h)
    PROVE  LET k == Gpu!SubmitNext(h)
           IN /\ Good(k, n, e, w) /\ Follows(h, k, e) /\ Recording(k)
              /\ Clean(k, k.cur) /\ k.used = 0 /\ k.resident = {}
              /\ NSlots = 2 => k.lands[h.cur] = h.lands[h.cur]
              /\ k = h \/ k.cur = Gpu!Other(h)
<1>0. h \in State /\ h.cur \in Gpu!Slots /\ ~h.inflight[h.cur]
  BY StateScreens DEF Good, Recording
<1>1. CASE ~h.rec[h.cur]
  BY <1>1 DEF Gpu!SubmitNext, Recording, Follows
<1>2. CASE h.rec[h.cur]
  <2>. DEFINE a == Gpu!SubmitGo(h)
              b == Gpu!Finish(a, Gpu!Other(h))
              k == Gpu!Enter(b, Gpu!Other(h))
  <2>1. /\ Good(a, n, e, w) /\ Follows(h, a, e) /\ Same(h, a, {"rec", "inflight", "done"})
        /\ a.inflight[h.cur] /\ ~a.done[h.cur]
        /\ \A t \in Gpu!Slots : t # h.cur => a.inflight[t] = h.inflight[t]
    BY <1>0, SubmitGoIs
  <2>2. a \in State /\ a.cur = h.cur /\ a.lands = h.lands /\ Kept(a)
    BY <2>1 DEF Same, Fields, Good
  <2>3. Gpu!SubmitNext(h) = k
    BY <1>2 DEF Gpu!SubmitNext
  <2>. HIDE DEF a
  <2>4. /\ Gpu!Other(a) = Gpu!Other(h) /\ Gpu!Other(h) \in Gpu!Slots
        /\ \A t \in Gpu!Slots : t = h.cur \/ t = Gpu!Other(h)
        /\ NSlots = 2 => Gpu!Other(h) # h.cur
    BY <1>0, <2>2, OtherIs DEF Gpu!Other
  <2>5. /\ Good(b, n, e, w) /\ Follows(a, b, e) /\ b.cur = h.cur
        /\ Clean(b, Gpu!Other(h)) /\ ~b.inflight[Gpu!Other(h)]
        /\ Gpu!Other(h) # h.cur => b.inflight[h.cur] /\ b.lands[h.cur] = h.lands[h.cur]
    <3>1. CASE a.inflight[Gpu!Other(h)]
      <4>1. /\ Good(b, n, e, w) /\ Follows(a, b, e) /\ Finished(a, b, Gpu!Other(h))
            /\ Clean(b, Gpu!Other(h)) /\ ~b.inflight[Gpu!Other(h)]
        BY <2>1, <2>2, <2>4, <3>1, FinishGood
      <4>2. b \in State
        BY <4>1 DEF Good
      <4>3. b.cur = h.cur
        BY <2>2, <4>1 DEF Finished, Same, Fields
      <4>4. Gpu!Other(h) # h.cur => b.inflight[h.cur] /\ b.lands[h.cur] = h.lands[h.cur]
        BY <1>0, <2>1, <2>2, <2>4, <4>1, <4>2, FinishedBeside
      <4>. QED BY <4>1, <4>3, <4>4
    <3>2. CASE ~a.inflight[Gpu!Other(h)]
      <4>1. b = a /\ Gpu!Other(h) # h.cur
        BY <2>1, <3>2 DEF Gpu!Finish
      <4>2. Clean(a, Gpu!Other(h))
        BY <2>2, <2>4, <3>2, <4>1 DEF Kept
      <4>. QED BY <2>1, <2>2, <3>2, <4>1, <4>2 DEF Follows
    <3>. QED BY <3>1, <3>2
  <2>. HIDE DEF b
  <2>7. /\ Good(k, n, e, w) /\ Follows(b, k, e) /\ Recording(k)
        /\ k.cur = Gpu!Other(h) /\ k.used = 0 /\ k.resident = {}
        /\ Same(b, k, {"cur", "used", "resident"}) /\ Clean(k, Gpu!Other(h))
    BY <2>4, <2>5, EnterIs
  <2>8. k.lands = b.lands
    BY <2>7 DEF Same, Fields
  <2>9. Follows(h, k, e)
    BY <2>1, <2>5, <2>7, FollowsOn
  <2>. QED BY <2>3, <2>4, <2>5, <2>7, <2>8, <2>9
<1>. QED BY <1>1, <1>2

\* Submitting and waiting leaves nothing in flight.
LEMMA SubmitWaitIs ==
    ASSUME NEW n, NEW e, NEW w, Context(n, e), NEW h, Good(h, n, e, w), Recording(h)
    PROVE  LET k == Gpu!SubmitWait(h)
           IN /\ Good(k, n, e, w) /\ Follows(h, k, e) /\ Onward(h, k, w) /\ Recording(k)
              /\ \A t \in Gpu!Slots : Clean(k, t) /\ ~k.inflight[t]
              /\ k.cur = h.cur /\ k.used = 0 /\ k.resident = {} /\ k.has = h.has
<1>0. h \in State /\ h.cur \in Gpu!Slots /\ ~h.inflight[h.cur]
  BY StateScreens DEF Good, Recording
<1>1. CASE ~h.rec[h.cur]
  <2>. DEFINE k == Gpu!FinishAll(h)
  <2>1. Gpu!SubmitWait(h) = k
    BY <1>1 DEF Gpu!SubmitWait
  <2>2. /\ Good(k, n, e, w) /\ Follows(h, k, e) /\ Onward(h, k, w) /\ Recording(k)
        /\ BesideIt(h, k)
        /\ \A t \in Gpu!Slots : t # h.cur => Clean(k, t) /\ ~k.inflight[t]
    BY FinishAllIs
  <2>. HIDE DEF k
  <2>3. /\ k.cur = h.cur /\ k.used = 0 /\ k.resident = {} /\ k.has = h.has
        /\ Clean(k, h.cur) /\ ~k.inflight[h.cur]
    BY <1>1, <2>2 DEF Recording, BesideIt
  <2>. QED BY <2>1, <2>2, <2>3
<1>2. CASE h.rec[h.cur]
  <2>. DEFINE a == Gpu!SubmitGo(h)
              b == Gpu!Finish(a, Gpu!Other(a))
              c == Gpu!Finish(b, a.cur)
              k == Gpu!Enter(c, h.cur)
  <2>1. /\ Good(a, n, e, w) /\ Follows(h, a, e) /\ Onward(h, a, w)
        /\ Same(h, a, {"rec", "inflight", "done"})
        /\ a.inflight[h.cur] /\ ~a.done[h.cur]
        /\ \A t \in Gpu!Slots : t # h.cur => a.inflight[t] = h.inflight[t]
    BY <1>0, SubmitGoIs
  <2>2. a \in State /\ a.cur = h.cur /\ a.has = h.has /\ Kept(a)
    BY <2>1 DEF Same, Fields, Good
  <2>3. Gpu!SubmitWait(h) = k
    BY <1>2, <2>2 DEF Gpu!SubmitWait, Gpu!FinishAll
  <2>. HIDE DEF a
  <2>4. /\ Gpu!Other(a) \in Gpu!Slots
        /\ \A t \in Gpu!Slots : t = h.cur \/ t = Gpu!Other(a)
    BY <2>2, OtherIs
  <2>5. /\ Good(b, n, e, w) /\ Follows(a, b, e) /\ Onward(a, b, w) /\ b.cur = h.cur
        /\ b.has = h.has
        /\ \A t \in Gpu!Slots : t # h.cur => Clean(b, t) /\ ~b.inflight[t]
        /\ b.inflight[h.cur] \/ Clean(b, h.cur)
    <3>1. CASE a.inflight[Gpu!Other(a)]
      <4>1. /\ Good(b, n, e, w) /\ Follows(a, b, e) /\ Finished(a, b, Gpu!Other(a))
            /\ Onward(a, b, w) /\ Clean(b, Gpu!Other(a)) /\ ~b.inflight[Gpu!Other(a)]
        BY <2>1, <2>2, <2>4, <3>1, FinishGood
      <4>2. b \in State
        BY <4>1 DEF Good
      <4>3. b.cur = h.cur /\ b.has = h.has
        BY <2>2, <4>1 DEF Finished, Same, Fields
      <4>4. Gpu!Other(a) # h.cur => b.inflight[h.cur]
        BY <1>0, <2>1, <2>2, <2>4, <4>1, <4>2, FinishedBeside
      <4>. QED BY <2>4, <4>1, <4>3, <4>4
    <3>2. CASE ~a.inflight[Gpu!Other(a)]
      <4>1. b = a /\ Gpu!Other(a) # h.cur
        BY <2>1, <3>2 DEF Gpu!Finish
      <4>2. Clean(a, Gpu!Other(a))
        BY <2>2, <2>4, <3>2, <4>1 DEF Kept
      <4>. QED BY <2>1, <2>2, <2>4, <3>2, <4>1, <4>2 DEF Follows, Onward
    <3>. QED BY <3>1, <3>2
  <2>. HIDE DEF b
  <2>6. /\ Good(c, n, e, w) /\ Follows(b, c, e) /\ Onward(b, c, w) /\ c.cur = h.cur
        /\ c.has = h.has
        /\ \A t \in Gpu!Slots : Clean(c, t) /\ ~c.inflight[t]
    <3>1. CASE b.inflight[h.cur]
      <4>0. b \in State /\ \A t \in Gpu!Slots : t # b.cur => b.ops[t] = <<>>
        BY <2>5 DEF Good, Clean
      <4>1. /\ Good(c, n, e, w) /\ Follows(b, c, e) /\ Finished(b, c, h.cur)
            /\ Onward(b, c, w) /\ Clean(c, h.cur) /\ ~c.inflight[h.cur]
        BY <1>0, <2>2, <2>5, <3>1, <4>0, FinishGood
      <4>2. c \in State
        BY <4>1 DEF Good
      <4>3. c.cur = h.cur /\ c.has = h.has
        BY <2>5, <4>1 DEF Finished, Same, Fields
      <4>4. \A t \in Gpu!Slots : t # h.cur => Clean(c, t) /\ ~c.inflight[t]
        BY <1>0, <2>5, <4>0, <4>1, <4>2, FinishedBeside
      <4>. QED BY <4>1, <4>3, <4>4
    <3>2. CASE ~b.inflight[h.cur]
      <4>1. c = b
        BY <2>2, <3>2 DEF Gpu!Finish
      <4>. QED BY <2>5, <3>2, <4>1 DEF Follows, Onward
    <3>. QED BY <3>1, <3>2
  <2>. HIDE DEF c
  <2>7. /\ Good(k, n, e, w) /\ Follows(c, k, e) /\ Onward(c, k, w) /\ Recording(k)
        /\ k.cur = h.cur /\ k.used = 0 /\ k.resident = {}
        /\ Same(c, k, {"cur", "used", "resident"}) /\ \A t \in Gpu!Slots : Clean(k, t)
    BY <1>0, <2>6, EnterIs
  <2>8. k.has = h.has /\ \A t \in Gpu!Slots : ~k.inflight[t]
    BY <2>6, <2>7 DEF Same, Fields
  <2>9. Follows(h, k, e) /\ Onward(h, k, w)
    <3>. HIDE DEF k
    <3>1. Follows(h, b, e) /\ Onward(h, b, w)
      BY <2>1, <2>5, FollowsOn
    <3>2. Follows(h, c, e) /\ Onward(h, c, w)
      BY <2>6, <3>1, FollowsOn
    <3>. QED BY <2>7, <3>2, FollowsOn
  <2>. QED BY <2>3, <2>7, <2>8, <2>9
<1>. QED BY <1>1, <1>2

-----------------------------------------------------------------------------
(* Recording a command.                                                     *)

\* A command more of the slot being recorded.
Appends(h, k, o) ==
    /\ h \in State /\ k \in State /\ o \in Op /\ (o.op = "carry" => NSlots = 2)
    /\ k.cur = h.cur /\ k.pool = h.pool
    /\ k.ops = [h.ops EXCEPT ![h.cur] = Append(@, o)]

\* What a command of the recording slot will leave where it writes.
Leaves(h, o, x) ==
    /\ o.op = "image" => o.want = x
    /\ o.op = "carry" => Would(h, 1 - h.cur, o.from, x)

LEMMA AppendOps ==
    ASSUME NEW h, NEW k, NEW o, Appends(h, k, o)
    PROVE  /\ h.cur \in Gpu!Slots
           /\ \A t \in Gpu!Slots : t # h.cur => k.ops[t] = h.ops[t]
           /\ \E m \in Nat \ {0} :
                 /\ DOMAIN h.ops[h.cur] = 1 .. m - 1 /\ DOMAIN k.ops[h.cur] = 1 .. m
                 /\ k.ops[h.cur][m] = o
                 /\ \A j \in 1 .. m - 1 : k.ops[h.cur][j] = h.ops[h.cur][j]
<1>1. h.cur \in Gpu!Slots /\ h.ops \in [Gpu!Slots -> Seq(Op)] /\ h.ops[h.cur] \in Seq(Op)
      /\ o \in Op
  BY DEF Appends, State
<1>2. /\ k.ops[h.cur] = Append(h.ops[h.cur], o)
      /\ \A t \in Gpu!Slots : t # h.cur => k.ops[t] = h.ops[t]
  BY <1>1 DEF Appends
<1>. DEFINE m == Len(h.ops[h.cur]) + 1
<1>3. /\ m \in Nat \ {0} /\ DOMAIN h.ops[h.cur] = 1 .. m - 1 /\ DOMAIN k.ops[h.cur] = 1 .. m
      /\ k.ops[h.cur][m] = o
      /\ \A j \in 1 .. m - 1 : k.ops[h.cur][j] = h.ops[h.cur][j]
  BY <1>1, <1>2
<1>. QED BY <1>1, <1>2, <1>3

\* A command more moves nothing but where it writes.
LEMMA AppendWill ==
    ASSUME NEW h, NEW k, NEW o, Appends(h, k, o), Kept(h)
    PROVE  /\ \A t \in Gpu!Slots : t # h.cur =>
                 \A a, x : (Would(h, t, a, x) <=> Would(k, t, a, x))
           /\ \A t \in Gpu!Slots : \A a, x :
                 Will(h, t, a, x) /\ (t # h.cur \/ ~Writes(o, a)) => Will(k, t, a, x)
           /\ \A a, x :
                 (Untouched(h.ops[h.cur], a) /\ Writes(o, a) /\ Leaves(h, o, x))
                    => Will(k, h.cur, a, x)
<1>1. PICK m \in Nat \ {0} :
         /\ DOMAIN h.ops[h.cur] = 1 .. m - 1 /\ DOMAIN k.ops[h.cur] = 1 .. m
         /\ k.ops[h.cur][m] = o
         /\ \A j \in 1 .. m - 1 : k.ops[h.cur][j] = h.ops[h.cur][j]
  BY AppendOps
<1>2. /\ h.cur \in Gpu!Slots /\ k.cur = h.cur /\ k.pool = h.pool
      /\ \A t \in Gpu!Slots : t # h.cur => k.ops[t] = h.ops[t]
  <2>1. k.cur = h.cur /\ k.pool = h.pool
    BY DEF Appends
  <2>. QED BY <2>1, AppendOps
<1>3. \A j \in 1 .. m : j \in 1 .. m - 1 \/ j = m
  BY <1>1
<1>4. \A j \in 1 .. m - 1 : j \in 1 .. m
  BY <1>1
<1>5. m \in 1 .. m
  BY <1>1
<1>6. \A t \in Gpu!Slots : t # h.cur => \A a, x : (Would(h, t, a, x) <=> Would(k, t, a, x))
  BY <1>2 DEF Would
<1>7. \A j \in DOMAIN h.ops[h.cur] : h.ops[h.cur][j].op = "carry" => NSlots = 2
  BY <1>2 DEF Kept, Paired
<1>8. NSlots = 2 => 1 - h.cur \in Gpu!Slots /\ 1 - h.cur # h.cur
  BY <1>2, SlotsAre
<1>9. ASSUME NEW t \in Gpu!Slots, NEW a, NEW x, Will(h, t, a, x), t # h.cur \/ ~Writes(o, a)
      PROVE  Will(k, t, a, x)
  <2>1. CASE t # h.cur
    BY <1>2, <1>9, <2>1 DEF Will
  <2>2. CASE t = h.cur
    <3>1. Untouched(k.ops[t], a) => Untouched(h.ops[t], a)
      BY <1>1, <1>4, <2>2 DEF Untouched
    <3>2. \A j \in DOMAIN k.ops[t] : Writes(k.ops[t][j], a) =>
             j \in DOMAIN h.ops[t] /\ k.ops[t][j] = h.ops[t][j]
      BY <1>1, <1>3, <1>9, <2>2
    <3>. QED BY <1>2, <1>6, <1>7, <1>8, <1>9, <2>2, <3>1, <3>2 DEF Will
  <2>. QED BY <2>1, <2>2
<1>10. ASSUME NEW a, NEW x, Untouched(h.ops[h.cur], a), Writes(o, a), Leaves(h, o, x)
       PROVE  Will(k, h.cur, a, x)
  <2>1. \A j \in DOMAIN k.ops[h.cur] : Writes(k.ops[h.cur][j], a) => k.ops[h.cur][j] = o
    BY <1>1, <1>3, <1>10 DEF Untouched
  <2>2. ~Untouched(k.ops[h.cur], a)
    BY <1>1, <1>5, <1>10 DEF Untouched
  <2>3. o.op = "carry" => NSlots = 2
    BY DEF Appends
  <2>. QED BY <1>2, <1>6, <1>8, <1>10, <2>1, <2>2, <2>3 DEF Will, Leaves
<1>. QED BY <1>6, <1>9, <1>10

\* A command that writes past all others, or samples what is there, keeps the draws right.
LEMMA AppendDraws ==
    ASSUME NEW h, NEW k, NEW o, Appends(h, k, o), Kept(h), Draws(h),
           k.missed = h.missed, k.resident = h.resident, h.used <= k.used,
           \A t \in Gpu!Slots : h.carried[t] \subseteq k.carried[t],
           o.op = "carry" => o.from \in k.carried[1 - h.cur],
           o.op \in {"image", "carry"} => o.at = h.used + 1 /\ o.at = k.used,
           o.op = "sample" => o.at <= h.used /\ Will(h, h.cur, o.at, o.want),
           \A t \in Gpu!Slots : h.cimg[t] \subseteq k.cimg[t],
           \A t \in Gpu!Slots : t # h.cur => k.cimg[t] = h.cimg[t] /\ k.lands[t] = h.lands[t],
           \A c \in k.cimg[h.cur] : c \in h.cimg[h.cur]
              \/ (c.at <= k.used /\ Will(k, h.cur, c.at, c.content)),
           \A i \in DOMAIN k.lands[h.cur] : k.lands[h.cur][i].image =>
              \/ i \in DOMAIN h.lands[h.cur] /\ k.lands[h.cur][i] = h.lands[h.cur][i]
              \/ \E c \in k.cimg[h.cur] : c.content = Gpu!CopyOf(k.lands[h.cur][i].seq)
    PROVE  Draws(k)
<1>1. PICK m \in Nat \ {0} :
         /\ DOMAIN h.ops[h.cur] = 1 .. m - 1 /\ DOMAIN k.ops[h.cur] = 1 .. m
         /\ k.ops[h.cur][m] = o
         /\ \A j \in 1 .. m - 1 : k.ops[h.cur][j] = h.ops[h.cur][j]
  BY AppendOps
<1>2. /\ h.cur \in Gpu!Slots /\ k.cur = h.cur /\ h.used \in Nat /\ k.used \in Nat
      /\ \A t \in Gpu!Slots : t # h.cur => k.ops[t] = h.ops[t]
      /\ h \in State /\ k \in State /\ o \in Op
  <2>1. HalfRoom \in Nat
    BY GpuAssumption
  <2>2. h.used \in 0 .. HalfRoom /\ k.used \in 0 .. HalfRoom
    BY DEF Appends, State
  <2>3. k.cur = h.cur /\ h \in State /\ k \in State /\ o \in Op
    BY DEF Appends
  <2>4. h.cur \in Gpu!Slots /\ \A t \in Gpu!Slots : t # h.cur => k.ops[t] = h.ops[t]
    BY AppendOps
  <2>5. h.used \in Nat /\ k.used \in Nat
    BY <2>1, <2>2
  <2>. QED BY <2>3, <2>4, <2>5
<1>3. \A j \in 1 .. m : j \in 1 .. m - 1 \/ j = m
  BY <1>1
<1>4. \A t \in Gpu!Slots : \A a \in Nat : \A x :
         Will(h, t, a, x) /\ (t # h.cur \/ a <= h.used) => Will(k, t, a, x)
  <2>1. \A a \in Nat : a <= h.used => ~Writes(o, a)
    BY <1>2 DEF Writes
  <2>. QED BY <2>1, AppendWill
<1>5. \A j \in 1 .. m - 1 : /\ h.ops[h.cur][j] \in Op
                            /\ h.ops[h.cur][j].op \in {"image", "carry", "sample"} =>
                                  h.ops[h.cur][j].at \in Nat /\ h.ops[h.cur][j].at <= h.used
  <2>1. \A j \in 1 .. m - 1 : h.ops[h.cur][j] \in Op
    BY <1>1, <1>2, OpsAre
  <2>. QED BY <1>1, <2>1, OpFields DEF Draws, Upto
<1>6. \A c \in h.cimg[h.cur] \cup h.resident : c.at \in Nat /\ c.at <= h.used
  BY <1>2, EntryFields DEF Draws, Upto
<1>7. Upto(k)
  <2>1. ASSUME NEW j \in DOMAIN k.ops[k.cur], k.ops[k.cur][j].op \in {"image", "carry", "sample"}
        PROVE  k.ops[k.cur][j].at <= k.used
    <3>1. CASE j \in 1 .. m - 1
      <4>1. k.ops[k.cur][j].at \in Nat /\ k.ops[k.cur][j].at <= h.used
        BY <1>1, <1>2, <1>5, <2>1, <3>1
      <4>. QED BY <1>2, <4>1
    <3>2. CASE j = m
      <4>1. o.op \in {"image", "carry", "sample"} => o.at \in Nat
        BY <1>2, OpFields
      <4>. QED BY <1>1, <1>2, <2>1, <3>2, <4>1
    <3>. QED BY <1>1, <1>2, <1>3, <2>1, <3>1, <3>2
  <2>2. ASSUME NEW c \in k.cimg[k.cur] \cup k.resident PROVE c.at <= k.used
    BY <1>2, <1>6
  <2>3. ASSUME NEW c \in k.resident PROVE Will(k, k.cur, c.at, c.content)
    BY <1>2, <1>4, <1>6 DEF Draws, Upto
  <2>. QED BY <2>1, <2>2, <2>3 DEF Upto
<1>8. ASSUME NEW t \in Gpu!Slots, t # h.cur PROVE Sound(k, t)
  <2>1. \A j \in DOMAIN h.ops[t] : h.ops[t][j].op = "sample" => h.ops[t][j].at \in Nat
    BY <1>2, OpsAre, OpFields
  <2>2. \A c \in h.cimg[t] : c.at \in Nat
    BY <1>2, EntryFields
  <2>3. \A j \in DOMAIN h.ops[t] : h.ops[t][j].op = "carry" => 1 - t \in Gpu!Slots
    BY SlotsAre DEF Kept, Paired
  <2>4. Sound(h, t)
    BY DEF Draws
  <2>. QED BY <1>2, <1>4, <1>8, <2>1, <2>2, <2>3, <2>4 DEF Sound
<1>9. Sound(k, h.cur)
  <2>0. Sound(h, h.cur)
    BY <1>2 DEF Draws
  <2>1. Ordered(k.ops[h.cur])
    <3>1. SUFFICES ASSUME NEW i \in DOMAIN k.ops[h.cur], NEW j \in DOMAIN k.ops[h.cur],
                          k.ops[h.cur][i].op = "sample",
                          Writes(k.ops[h.cur][j], k.ops[h.cur][i].at)
                   PROVE  j < i
      BY DEF Ordered
    <3>2. CASE i \in 1 .. m - 1 /\ j \in 1 .. m - 1
      BY <1>1, <2>0, <3>1, <3>2 DEF Sound, Ordered
    <3>3. CASE i = m /\ j \in 1 .. m - 1
      BY <1>1, <3>3
    <3>4. CASE i \in 1 .. m - 1 /\ j = m
      <4>1. k.ops[h.cur][i] = h.ops[h.cur][i] /\ k.ops[h.cur][j] = o
        BY <1>1, <3>4
      <4>2. h.ops[h.cur][i].at \in Nat /\ h.ops[h.cur][i].at <= h.used
        BY <1>5, <3>1, <3>4, <4>1
      <4>3. o.at = h.used + 1 /\ o.at = h.ops[h.cur][i].at
        BY <3>1, <4>1 DEF Writes
      <4>. QED BY <1>2, <4>2, <4>3
    <3>5. CASE i = m /\ j = m
      BY <1>1, <3>1, <3>5 DEF Writes
    <3>. QED BY <1>1, <1>3, <3>2, <3>3, <3>4, <3>5
  <2>2. ASSUME NEW j \in DOMAIN k.ops[h.cur]
        PROVE  /\ k.ops[h.cur][j].op = "carry" => k.ops[h.cur][j].from \in k.carried[1 - h.cur]
               /\ k.ops[h.cur][j].op = "sample" =>
                     Will(k, h.cur, k.ops[h.cur][j].at, k.ops[h.cur][j].want)
    <3>1. CASE j \in 1 .. m - 1
      <4>1. h.ops[h.cur][j].op = "carry" => 1 - h.cur \in Gpu!Slots
        BY <1>1, <1>2, <3>1, SlotsAre DEF Kept, Paired
      <4>2. k.ops[h.cur][j] = h.ops[h.cur][j] /\ j \in DOMAIN h.ops[h.cur]
        BY <1>1, <3>1
      <4>3. /\ h.ops[h.cur][j].op = "carry" => h.ops[h.cur][j].from \in h.carried[1 - h.cur]
            /\ h.ops[h.cur][j].op = "sample" =>
                  Will(h, h.cur, h.ops[h.cur][j].at, h.ops[h.cur][j].want)
        BY <2>0, <4>2 DEF Sound
      <4>4. h.ops[h.cur][j].op = "sample" =>
               h.ops[h.cur][j].at \in Nat /\ h.ops[h.cur][j].at <= h.used
        BY <1>5, <3>1
      <4>. QED BY <1>2, <1>4, <4>1, <4>2, <4>3, <4>4
    <3>2. CASE j = m
      <4>1. o.op = "sample" => o.at \in Nat
        BY <1>2, OpFields
      <4>. QED BY <1>1, <1>2, <1>4, <3>2, <4>1
    <3>. QED BY <1>1, <1>3, <3>1, <3>2
  <2>3. \A c \in k.cimg[h.cur] : Will(k, h.cur, c.at, c.content)
    BY <1>2, <1>4, <1>6, <2>0 DEF Sound
  <2>4. \A i \in DOMAIN k.lands[h.cur] : k.lands[h.cur][i].image =>
           \E c \in k.cimg[h.cur] : c.content = Gpu!CopyOf(k.lands[h.cur][i].seq)
    BY <1>2, <2>0 DEF Sound
  <2>. QED BY <2>1, <2>2, <2>3, <2>4 DEF Sound
<1>. QED BY <1>2, <1>7, <1>8, <1>9 DEF Draws

\* What a command records.
LEMMA RecordIs ==
    ASSUME NEW h \in State, NEW o \in Op
    PROVE  LET k == Gpu!Record(h, <<o>>)
           IN /\ k \in State /\ Same(h, k, {"rec", "ops"})
              /\ k.rec[h.cur] /\ k.ops = [h.ops EXCEPT ![h.cur] = Append(@, o)]
<1>1. h.cur \in Gpu!Slots /\ h.rec \in [Gpu!Slots -> BOOLEAN] /\ h.ops \in [Gpu!Slots -> Seq(Op)]
  BY DEF State
<1>. DEFINE rec == [h.rec EXCEPT ![h.cur] = TRUE]
            cmds == [h.ops EXCEPT ![h.cur] = Append(@, o)]
<1>2. rec \in [Gpu!Slots -> BOOLEAN] /\ cmds \in [Gpu!Slots -> Seq(Op)] /\ rec[h.cur]
  BY <1>1
<1>3. h.ops[h.cur] \o <<o>> = Append(h.ops[h.cur], o)
  BY <1>1
<1>4. Gpu!Record(h, <<o>>) = [h EXCEPT !.rec = rec, !.ops = cmds]
  BY <1>1, <1>3 DEF Gpu!Record, State
<1>. HIDE DEF rec, cmds
<1>5. LET k == [h EXCEPT !.rec = rec, !.ops = cmds]
      IN k \in State /\ Same(h, k, {"rec", "ops"}) /\ k.rec = rec /\ k.ops = cmds
  BY <1>2 DEF State, Same, Fields
<1>. QED BY <1>2, <1>4, <1>5 DEF cmds

LEMMA RecordNothing ==
    ASSUME NEW h \in State
    PROVE  LET k == Gpu!Record(h, <<>>)
           IN /\ k \in State /\ Same(h, k, {"rec"}) /\ k.rec[h.cur]
<1>1. h.cur \in Gpu!Slots /\ h.rec \in [Gpu!Slots -> BOOLEAN] /\ h.ops \in [Gpu!Slots -> Seq(Op)]
  BY DEF State
<1>. DEFINE rec == [h.rec EXCEPT ![h.cur] = TRUE]
            cmds == [h.ops EXCEPT ![h.cur] = @ \o <<>>]
<1>2. rec \in [Gpu!Slots -> BOOLEAN] /\ cmds = h.ops /\ rec[h.cur]
  <2>. DEFINE q == h.ops[h.cur]
  <2>1. q \in Seq(Op)
    BY <1>1
  <2>2. q \o <<>> = q
    <3>. HIDE DEF q
    <3>1. q \o <<>> \in Seq(Op) /\ Len(q \o <<>>) = Len(q)
          /\ \A i \in 1 .. Len(q) : (q \o <<>>)[i] = q[i]
      BY <2>1
    <3>. QED BY <2>1, <3>1
  <2>. QED BY <1>1, <2>2
<1>4. Gpu!Record(h, <<>>) = [h EXCEPT !.rec = rec, !.ops = cmds]
  BY <1>1 DEF Gpu!Record, State
<1>. HIDE DEF rec, cmds
<1>5. LET k == [h EXCEPT !.rec = rec, !.ops = cmds]
      IN k \in State /\ Same(h, k, {"rec"}) /\ k.rec = rec
  BY <1>2 DEF State, Same, Fields
<1>. QED BY <1>2, <1>4, <1>5

\* The same pictures are drawn.
Alike(h, k) ==
    /\ \A s \in Gpu!Slots : \A j \in DOMAIN h.ops[s] :
          \E i \in DOMAIN k.ops[s] : k.ops[s][i] = h.ops[s][j]
    /\ \A s \in Gpu!Slots : \A j \in DOMAIN k.ops[s] : ToScreen(k.ops[s][j]) =>
          \E i \in DOMAIN h.ops[s] : h.ops[s][i] = k.ops[s][j]

LEMMA ScreensAlike ==
    ASSUME NEW h, NEW k, Alike(h, k), h.cur \in Gpu!Slots, k.cur = h.cur,
           k.deliver = h.deliver, k.publish = h.publish,
           k.back = h.back, k.middle = h.middle, k.fresh = h.fresh, k.real = h.real,
           k.mid = h.mid, k.has = h.has, k.screen = h.screen, NEW n, NEW w
    PROVE  /\ Screens(h, n, w) => Screens(k, n, w)
           /\ Tells(h) => Tells(k)
           /\ Onward(h, k, w)
<1>1. \A s \in Gpu!Slots : (Shows(h, s) <=> Shows(k, s)) /\ (Pictures(h, s) <=> Pictures(k, s))
  BY DEF Shows, Pictures, Alike
<1>2. \A s \in Gpu!Slots : \A f : /\ WillShow(h, s, "real", f) <=> WillShow(k, s, "real", f)
                                  /\ WillShow(h, s, "mid", f) <=> WillShow(k, s, "mid", f)
  <2>1. \A s \in Gpu!Slots : \A op \in {"real", "mid"} : \A j \in DOMAIN k.ops[s] :
           k.ops[s][j].op = op => \E i \in DOMAIN h.ops[s] : h.ops[s][i] = k.ops[s][j]
    BY DEF Alike, ToScreen
  <2>2. \A s \in Gpu!Slots : \A j \in DOMAIN h.ops[s] :
          \E i \in DOMAIN k.ops[s] : k.ops[s][i] = h.ops[s][j]
    BY DEF Alike
  <2>. QED BY <2>1, <2>2 DEF WillShow
<1>3. \A f : Newer(h, w, f) <=> Newer(k, w, f)
  BY DEF Newer
<1>4. \A s \in Gpu!Slots : Showing(h, s, n, w) => Showing(k, s, n, w)
  <2>. TAKE s \in Gpu!Slots
  <2>. HAVE Showing(h, s, n, w)
  <2>1. \A j \in DOMAIN k.ops[s] : ToScreen(k.ops[s][j]) =>
          k.ops[s][j].slot = k.back /\ k.ops[s][j].frame <= n
    BY DEF Showing, Alike
  <2>. QED BY <1>2, <1>3, <2>1 DEF Showing
<1>5. Whole(h, n, w) <=> Whole(k, n, w)
  BY DEF Whole
<1>6. Onward(h, k, w)
  <2>1. ASSUME NEW op \in {"real", "mid"}, NEW f, Ahead(h, w, op, f) PROVE Ahead(k, w, op, f)
    BY <1>1, <1>2, <1>3, <2>1 DEF Ahead
  <2>2. (\A s \in Gpu!Slots : \A j \in DOMAIN h.ops[s] : h.ops[s][j].op # "mid")
           => (\A s \in Gpu!Slots : \A j \in DOMAIN k.ops[s] : k.ops[s][j].op # "mid")
    BY DEF Alike, ToScreen
  <2>. QED BY <1>1, <2>1, <2>2 DEF Paused, Onward, Steady
<1>. QED BY <1>1, <1>4, <1>5, <1>6 DEF Screens, Tells

\* A later number bounds the frames too.
LEMMA ScreensLater ==
    ASSUME NEW h \in State, NEW n \in Nat, NEW m \in Nat, n <= m, NEW w, Screens(h, n, w)
    PROVE  Screens(h, m, w)
<1>1. Whole(h, m, w)
  BY StateScreens DEF Screens, Whole
<1>2. ASSUME NEW s \in Gpu!Slots PROVE Showing(h, s, m, w)
  <2>1. \A j \in DOMAIN h.ops[s] : ToScreen(h.ops[s][j]) => h.ops[s][j].frame \in Nat
    BY OpsAre, OpFields DEF ToScreen
  <2>2. \A f \in 0 .. n : f \in 0 .. m
    OBVIOUS
  <2>3. Showing(h, s, n, w)
    BY DEF Screens
  <2>4. \A j \in DOMAIN h.ops[s] : ToScreen(h.ops[s][j]) =>
          h.ops[s][j].slot = h.back /\ h.ops[s][j].frame <= m
    BY <2>1, <2>3 DEF Showing
  <2>. QED BY <2>2, <2>3, <2>4 DEF Showing
<1>. QED BY <1>1, <1>2 DEF Screens

\* A command more, and one of no picture.
Added(h, k, o) ==
    /\ Appends(h, k, o) /\ k.rec[h.cur]
    /\ \A f \in {"inflight", "done", "deliver", "publish", "back", "middle", "fresh", "real",
                 "mid", "has", "screen", "missed", "ram", "said", "filled", "resident"} :
          k[f] = h[f]
    /\ \A t \in Gpu!Slots : t # h.cur => k.cimg[t] = h.cimg[t] /\ k.lands[t] = h.lands[t]
Recorded(h, k, o) == Added(h, k, o) /\ ~ToScreen(o)

LEMMA AddedKept ==
    ASSUME NEW h, NEW k, NEW o, Added(h, k, o), Kept(h), ~h.inflight[h.cur]
    PROVE  Kept(k) /\ Recording(k)
<1>0. Appends(h, k, o)
  BY DEF Added
<1>1. PICK m \in Nat \ {0} :
         /\ DOMAIN h.ops[h.cur] = 1 .. m - 1 /\ DOMAIN k.ops[h.cur] = 1 .. m
         /\ k.ops[h.cur][m] = o
         /\ \A j \in 1 .. m - 1 : k.ops[h.cur][j] = h.ops[h.cur][j]
  BY <1>0, AppendOps
<1>2. /\ h.cur \in Gpu!Slots /\ k.cur = h.cur
      /\ \A t \in Gpu!Slots : t # h.cur => k.ops[t] = h.ops[t]
  <2>1. k.cur = h.cur
    BY <1>0 DEF Appends
  <2>. QED BY <1>0, <2>1, AppendOps
<1>3. /\ k.inflight = h.inflight /\ k.done = h.done
      /\ k.deliver = h.deliver /\ k.publish = h.publish
      /\ k.rec[h.cur]
      /\ \A t \in Gpu!Slots : t # h.cur => k.cimg[t] = h.cimg[t] /\ k.lands[t] = h.lands[t]
  BY DEF Added
<1>4. \A j \in 1 .. m : j \in 1 .. m - 1 \/ j = m
  BY <1>1
<1>5. ASSUME NEW s \in Gpu!Slots
      PROVE  /\ s # k.cur /\ ~k.inflight[s] => Clean(k, s)
             /\ k.inflight[s] /\ k.done[s] => k.ops[s] = <<>>
             /\ Paired(k, s)
  <2>1. CASE s # h.cur
    BY <1>2, <1>3, <2>1 DEF Kept, Clean, Paired
  <2>2. CASE s = h.cur
    <3>1. \A j \in DOMAIN k.ops[s] : k.ops[s][j] = o
             \/ (j \in DOMAIN h.ops[s] /\ k.ops[s][j] = h.ops[s][j])
      BY <1>1, <1>4, <2>2
    <3>2. o.op = "carry" => NSlots = 2
      BY <1>0 DEF Appends
    <3>3. Paired(h, s)
      BY DEF Kept
    <3>4. Paired(k, s)
      BY <3>1, <3>2, <3>3 DEF Paired
    <3>. QED BY <1>2, <1>3, <2>2, <3>4
  <2>. QED BY <2>1, <2>2
<1>6. Kept(k)
  BY <1>5 DEF Kept
<1>7. Recording(k)
  BY <1>2, <1>3 DEF Recording
<1>. QED BY <1>6, <1>7

LEMMA RecordedScreens ==
    ASSUME NEW h, NEW k, NEW o, Recorded(h, k, o), NEW n, NEW w
    PROVE  /\ Screens(h, n, w) => Screens(k, n, w)
           /\ Tells(h) => Tells(k)
           /\ Onward(h, k, w)
           /\ Kept(h) /\ ~h.inflight[h.cur] => Kept(k) /\ Recording(k)
<1>0. Appends(h, k, o) /\ ~ToScreen(o)
  BY DEF Recorded, Added
<1>1. PICK m \in Nat \ {0} :
         /\ DOMAIN h.ops[h.cur] = 1 .. m - 1 /\ DOMAIN k.ops[h.cur] = 1 .. m
         /\ k.ops[h.cur][m] = o
         /\ \A j \in 1 .. m - 1 : k.ops[h.cur][j] = h.ops[h.cur][j]
  BY <1>0, AppendOps
<1>2. /\ h.cur \in Gpu!Slots /\ k.cur = h.cur
      /\ \A t \in Gpu!Slots : t # h.cur => k.ops[t] = h.ops[t]
  <2>1. k.cur = h.cur
    BY <1>0 DEF Appends
  <2>. QED BY <1>0, <2>1, AppendOps
<1>3. /\ k.inflight = h.inflight /\ k.done = h.done
      /\ k.deliver = h.deliver /\ k.publish = h.publish
      /\ k.back = h.back /\ k.middle = h.middle /\ k.fresh = h.fresh /\ k.real = h.real
      /\ k.mid = h.mid /\ k.has = h.has /\ k.screen = h.screen
  BY DEF Recorded, Added
<1>4. \A j \in 1 .. m : j \in 1 .. m - 1 \/ j = m
  BY <1>1
<1>5. \A j \in 1 .. m - 1 : j \in 1 .. m
  BY <1>1
<1>6. Alike(h, k)
  <2>1. ASSUME NEW s \in Gpu!Slots
        PROVE  /\ \A j \in DOMAIN h.ops[s] : \E i \in DOMAIN k.ops[s] : k.ops[s][i] = h.ops[s][j]
               /\ \A j \in DOMAIN k.ops[s] : ToScreen(k.ops[s][j]) =>
                     \E i \in DOMAIN h.ops[s] : h.ops[s][i] = k.ops[s][j]
    <3>1. CASE s # h.cur
      BY <1>2, <3>1
    <3>2. CASE s = h.cur
      BY <1>0, <1>1, <1>4, <1>5, <3>2
    <3>. QED BY <3>1, <3>2
  <2>. QED BY <2>1 DEF Alike
<1>7. Kept(h) /\ ~h.inflight[h.cur] => Kept(k) /\ Recording(k)
  BY AddedKept DEF Recorded
<1>. QED BY <1>2, <1>3, <1>6, <1>7, ScreensAlike

-----------------------------------------------------------------------------
(* A draw's texture.                                                        *)

\* The half's next place, that no carry in flight reads.
Unread(h, a) ==
    \A t \in Gpu!Slots : t # h.cur => \A j \in DOMAIN h.ops[t] :
       h.ops[t][j].op = "carry" => h.ops[t][j].from # a

\* pool_claim: no carry in flight reads the next place.
LEMMA PoolClaimIs ==
    ASSUME NEW n, NEW e, NEW w, Context(n, e), NEW h, Good(h, n, e, w), ~h.inflight[h.cur]
    PROVE  LET k == Gpu!PoolClaim(h)
           IN /\ Good(k, n, e, w) /\ Follows(h, k, e) /\ Onward(h, k, w)
              /\ BesideIt(h, k) /\ ~k.inflight[h.cur] /\ h.filled \subseteq k.filled
              /\ Unread(k, h.used + 1)
<1>. DEFINE c == h.carried[h.cur]
            f == Gpu!Finish(h, Gpu!Other(h))
<1>1. h \in State /\ Draws(h) /\ Kept(h) /\ h.cur \in Gpu!Slots /\ Gpu!Other(h) \in Gpu!Slots
  BY OtherIs DEF Good, State
<1>2. /\ Good(f, n, e, w) /\ Follows(h, f, e) /\ Onward(h, f, w)
      /\ \A t \in Gpu!Slots : t # h.cur => Clean(f, t) /\ ~f.inflight[t]
      /\ BesideIt(h, f) /\ ~f.inflight[h.cur]
  BY FinishOther
<1>3. h.filled \subseteq f.filled
  <2>1. CASE ~h.inflight[Gpu!Other(h)]
    BY <2>1 DEF Gpu!Finish
  <2>2. CASE h.inflight[Gpu!Other(h)]
    <3>1. \A t \in Gpu!Slots : t # Gpu!Other(h) => t = h.cur
      BY <1>1, OtherIs
    <3>2. Finished(h, f, Gpu!Other(h))
      BY <1>1, <2>2, <3>1, FinishGood
    <3>. QED BY <3>2 DEF Finished
  <2>. QED BY <2>1, <2>2
<1>4. Unread(f, h.used + 1)
  <2>1. \A t \in Gpu!Slots : t # h.cur => f.ops[t] = <<>>
    BY <1>2 DEF Clean
  <2>2. f.cur = h.cur
    BY <1>2 DEF BesideIt
  <2>. QED BY <2>1, <2>2 DEF Unread
<1>5. c \subseteq 1 .. HalfRoom /\ HalfRoom \in Nat
  BY <1>1, GpuAssumption DEF State
<1>6. CASE c # {} /\ h.used + 1 \in Gpu!Min(c) .. Gpu!Max(c)
  <2>1. Gpu!PoolClaim(h) = f
    BY <1>6 DEF Gpu!PoolClaim
  <2>. HIDE DEF f, c
  <2>. QED BY <1>2, <1>3, <1>4, <2>1
<1>7. CASE ~(c # {} /\ h.used + 1 \in Gpu!Min(c) .. Gpu!Max(c))
  <2>1. Gpu!PoolClaim(h) = h
    BY <1>7 DEF Gpu!PoolClaim
  <2>2. Follows(h, h, e) /\ Onward(h, h, w) /\ BesideIt(h, h)
    BY DEF Follows, Onward, BesideIt
  <2>3. h.used + 1 \notin c
    <3>1. c \subseteq Nat /\ c \subseteq 0 .. HalfRoom
      BY <1>5
    <3>2. ASSUME h.used + 1 \in c PROVE FALSE
      <4>1. c # {}
        BY <3>2
      <4>. HIDE DEF c
      <4>2. Gpu!Min(c) \in c /\ Gpu!Max(c) \in c /\ \A y \in c : Gpu!Min(c) <= y /\ y <= Gpu!Max(c)
        BY <1>5, <3>1, <4>1, MinIs, MaxIs
      <4>3. Gpu!Min(c) \in Nat /\ Gpu!Max(c) \in Nat /\ h.used + 1 \in Nat
        BY <3>1, <3>2, <4>2
      <4>4. h.used + 1 \in Gpu!Min(c) .. Gpu!Max(c)
        BY <3>2, <4>2, <4>3
      <4>. QED BY <1>7, <4>1, <4>4
    <3>. QED BY <3>2
  <2>4. Unread(h, h.used + 1)
    <3>1. SUFFICES ASSUME NEW t \in Gpu!Slots, t # h.cur, NEW j \in DOMAIN h.ops[t],
                          h.ops[t][j].op = "carry"
                   PROVE  h.ops[t][j].from # h.used + 1
      BY DEF Unread
    <3>2. NSlots = 2
      BY <1>1, <3>1 DEF Kept, Paired
    <3>3. 1 - t = h.cur
      BY <1>1, <3>1, <3>2, SlotsAre
    <3>4. h.ops[t][j].from \in c
      BY <1>1, <3>1, <3>3 DEF Draws, Sound
    <3>. QED BY <2>3, <3>4
  <2>. QED BY <2>1, <2>2, <2>4
<1>. QED BY <1>6, <1>7

LEMMA KeptFrame ==
    ASSUME NEW h, NEW k, k.cur = h.cur, k.inflight = h.inflight, k.done = h.done,
           k.ops = h.ops, k.lands = h.lands, k.cimg = h.cimg, k.deliver = h.deliver,
           k.publish = h.publish
    PROVE  Kept(h) => Kept(k)
BY DEF Kept, Clean, Paired

\* Texels the producer writes where nothing reads.
LEMMA WriteDraws ==
    ASSUME NEW h \in State, NEW k \in State, Kept(h), Draws(h), NEW x,
           Unread(h, h.used + 1), h.used # HalfRoom,
           k.cur = h.cur, k.ops = h.ops, k.cimg = h.cimg, k.carried = h.carried,
           k.lands = h.lands, k.missed = h.missed, k.used = h.used + 1,
           k.resident = h.resident \cup {[content |-> x, at |-> h.used + 1]},
           \A s \in Gpu!Slots : s # h.cur => k.pool[s] = h.pool[s],
           \A a : a # h.used + 1 => k.pool[h.cur][a] = h.pool[h.cur][a],
           k.pool[h.cur][h.used + 1] = x
    PROVE  Draws(k) /\ Will(k, k.cur, k.used, x)
<1>1. h.cur \in Gpu!Slots /\ h.used \in Nat
  BY GpuAssumption DEF State
<1>2. NSlots = 2 => 1 - h.cur \in Gpu!Slots /\ 1 - h.cur # h.cur
                    /\ \A t \in Gpu!Slots : t # h.cur => 1 - t = h.cur /\ t = 1 - h.cur
  BY <1>1, SlotsAre
<1>3. \A s \in Gpu!Slots : \A j \in DOMAIN h.ops[s] : h.ops[s][j].op = "carry" => NSlots = 2
  BY DEF Kept, Paired
<1>4. \A s \in Gpu!Slots : s # h.cur => \A j \in DOMAIN h.ops[s] : h.ops[s][j].op = "carry" =>
         k.pool[1 - s][h.ops[s][j].from] = h.pool[1 - s][h.ops[s][j].from]
  BY <1>2, <1>3 DEF Unread
<1>5. \A s \in Gpu!Slots : s # h.cur => \A a, y : Would(h, s, a, y) => Would(k, s, a, y)
  BY <1>4 DEF Would
<1>6. \A s \in Gpu!Slots : \A a, y : (s # h.cur \/ a # h.used + 1) /\ Will(h, s, a, y)
                                         => Will(k, s, a, y)
  <2>. SUFFICES ASSUME NEW s \in Gpu!Slots, NEW a, NEW y, s # h.cur \/ a # h.used + 1,
                       Will(h, s, a, y)
                PROVE  Will(k, s, a, y)
    OBVIOUS
  <2>1. CASE s # h.cur
    BY <1>4, <2>1 DEF Will
  <2>2. CASE s = h.cur
    BY <1>2, <1>3, <1>5, <2>2 DEF Will
  <2>. QED BY <2>1, <2>2
<1>7. \A c \in h.cimg[h.cur] \cup h.resident : c.at \in Nat /\ c.at <= h.used /\ c.at # h.used + 1
  <2>1. \A c \in h.cimg[h.cur] \cup h.resident : c.at \in Nat /\ c.at <= h.used
    BY <1>1, EntryFields DEF Draws, Upto
  <2>. QED BY <1>1, <2>1
<1>8. \A j \in DOMAIN h.ops[h.cur] : h.ops[h.cur][j].op \in {"image", "carry", "sample"} =>
         h.ops[h.cur][j].at \in Nat /\ h.ops[h.cur][j].at <= h.used
         /\ h.ops[h.cur][j].at # h.used + 1
  <2>1. \A j \in DOMAIN h.ops[h.cur] : h.ops[h.cur][j].op \in {"image", "carry", "sample"} =>
           h.ops[h.cur][j].at \in Nat /\ h.ops[h.cur][j].at <= h.used
    BY <1>1, OpsAre, OpFields DEF Draws, Upto
  <2>. QED BY <1>1, <2>1
<1>9. Will(k, k.cur, k.used, x)
  <2>1. \A j \in DOMAIN h.ops[h.cur] : ~Writes(h.ops[h.cur][j], h.used + 1)
    BY <1>8 DEF Writes
  <2>. QED BY <2>1 DEF Will
<1>10. Upto(k)
  <2>1. \A j \in DOMAIN k.ops[k.cur] :
          k.ops[k.cur][j].op \in {"image", "carry", "sample"} => k.ops[k.cur][j].at <= k.used
    BY <1>1, <1>8
  <2>2. \A c \in k.cimg[k.cur] \cup k.resident : c.at <= k.used
    BY <1>1, <1>7
  <2>3. \A c \in h.resident : Will(k, k.cur, c.at, c.content)
    BY <1>1, <1>6, <1>7 DEF Draws, Upto
  <2>4. \A c \in k.resident : Will(k, k.cur, c.at, c.content)
    BY <1>9, <2>3
  <2>. QED BY <2>1, <2>2, <2>4 DEF Upto
<1>11. ASSUME NEW s \in Gpu!Slots PROVE Sound(k, s)
  <2>1. Sound(h, s)
    BY DEF Draws
  <2>2. \A j \in DOMAIN h.ops[s] : h.ops[s][j].op = "sample" =>
           Will(k, s, h.ops[s][j].at, h.ops[s][j].want)
    BY <1>6, <1>8, <2>1 DEF Sound
  <2>3. \A c \in h.cimg[s] : Will(k, s, c.at, c.content)
    BY <1>6, <1>7, <2>1 DEF Sound
  <2>. QED BY <2>1, <2>2, <2>3 DEF Sound
<1>. QED BY <1>9, <1>10, <1>11 DEF Draws

\* An upload's result: a place that will hold the texture, or none.
Placed(h, k, a, x) ==
    /\ k.cur = h.cur /\ ~k.inflight[k.cur] /\ k.used \in Nat
    /\ a \in 1 .. k.used /\ Will(k, k.cur, a, x)

\* A texture written by the host.
LEMMA HostUploadIs ==
    ASSUME NEW n, NEW e, NEW w, Context(n, e), NEW h, Good(h, n, e, w), ~h.inflight[h.cur],
           ~Gpu!Full(h), NEW x \in Content, x.kind = "texture" \/ x.n \in h.filled
    PROVE  LET r == Gpu!HostUpload(h, x)
           IN /\ Good(r, n, e, w) /\ Follows(h, r, e) /\ Onward(h, r, w)
              /\ Placed(h, r, r.used, x)
<1>. DEFINE k == Gpu!PoolClaim(h)
            to == k.used + 1
            r == Gpu!HostUpload(h, x)
<1>1. /\ Good(k, n, e, w) /\ Follows(h, k, e) /\ Onward(h, k, w)
      /\ BesideIt(h, k) /\ ~k.inflight[h.cur] /\ h.filled \subseteq k.filled
      /\ Unread(k, h.used + 1)
  BY PoolClaimIs
<1>2. /\ k \in State /\ Kept(k) /\ Draws(k) /\ Lands(k, n, e) /\ Screens(k, n, w)
      /\ k.cur = h.cur /\ k.used = h.used /\ k.cur \in Gpu!Slots
  BY <1>1 DEF Good, BesideIt, State
<1>3. x.kind = "texture" \/ x.n \in k.filled
  BY <1>1
<1>. DEFINE pool == [k.pool EXCEPT ![k.cur] = [@ EXCEPT ![to] = x]]
            set == k.resident \cup {[content |-> x, at |-> to]}
<1>4. /\ to \in 1 .. HalfRoom /\ k.used # HalfRoom /\ k.used \in Nat
      /\ pool \in [Gpu!Slots -> [1 .. HalfRoom -> Content]] /\ set \subseteq Entry
  <2>1. HalfRoom \in Nat /\ k.used \in 0 .. HalfRoom /\ k.used # HalfRoom
    BY <1>2, GpuAssumption DEF Gpu!Full, State
  <2>2. to \in 1 .. HalfRoom
    BY <2>1
  <2>3. k.pool \in [Gpu!Slots -> [1 .. HalfRoom -> Content]] /\ k.resident \subseteq Entry
    BY <1>2 DEF State
  <2>. QED BY <1>2, <2>1, <2>2, <2>3 DEF Entry
<1>5. r = [k EXCEPT !.pool = pool, !.used = to, !.resident = set]
  BY <1>2, <1>3 DEF Gpu!HostUpload, State
<1>6. /\ r \in State /\ Same(k, r, {"pool", "used", "resident"})
      /\ r.pool = pool /\ r.used = to /\ r.resident = set
  <2>. HIDE DEF k, pool, set, r
  <2>1. to \in 0 .. HalfRoom
    BY <1>4
  <2>. HIDE DEF to
  <2>. QED BY <1>2, <1>4, <1>5, <2>1 DEF State, Same, Fields
<1>7. /\ r.cur = k.cur /\ r.inflight = k.inflight /\ r.done = k.done /\ r.ops = k.ops
      /\ r.lands = k.lands /\ r.cimg = k.cimg /\ r.carried = k.carried
      /\ r.deliver = k.deliver /\ r.publish = k.publish /\ r.back = k.back
      /\ r.middle = k.middle /\ r.fresh = k.fresh /\ r.real = k.real /\ r.mid = k.mid
      /\ r.has = k.has /\ r.screen = k.screen /\ r.missed = k.missed /\ r.ram = k.ram
      /\ r.said = k.said /\ r.filled = k.filled
  BY <1>6 DEF Same, Fields
<1>8. /\ \A s \in Gpu!Slots : s # k.cur => pool[s] = k.pool[s]
      /\ \A a : a # to => pool[k.cur][a] = k.pool[k.cur][a]
      /\ pool[k.cur][to] = x
  <2>1. k.pool \in [Gpu!Slots -> [1 .. HalfRoom -> Content]] /\ to \in 1 .. HalfRoom
    BY <1>2, <1>4 DEF State
  <2>2. pool[k.cur] = [k.pool[k.cur] EXCEPT ![to] = x]
    BY <1>2, <2>1
  <2>3. k.pool[k.cur] \in [1 .. HalfRoom -> Content]
    BY <1>2, <2>1
  <2>4. ASSUME NEW a, a # to PROVE pool[k.cur][a] = k.pool[k.cur][a]
    BY <2>2, <2>3, <2>4
  <2>. QED BY <1>2, <2>1, <2>2, <2>3, <2>4
<1>9. Unread(k, k.used + 1)
  BY <1>1, <1>2
<1>. HIDE DEF k, pool, r
<1>10. Draws(r) /\ Will(r, r.cur, r.used, x)
  BY <1>2, <1>4, <1>6, <1>7, <1>8, <1>9, WriteDraws
<1>11. Kept(r) /\ Lands(r, n, e) /\ Screens(r, n, w) /\ Follows(k, r, e) /\ Onward(k, r, w)
  BY <1>2, <1>7, KeptFrame, ScreensFrame, LandsFrame DEF Follows
<1>12. Good(r, n, e, w)
  BY <1>6, <1>10, <1>11 DEF Good
<1>13. Placed(h, r, r.used, x)
  <2>1. r.used \in Nat /\ r.used \in 1 .. r.used
    BY <1>4, <1>6
  <2>. QED BY <1>1, <1>2, <1>7, <1>10, <2>1 DEF Placed
<1>. QED BY <1>1, <1>11, <1>12, <1>13, FollowsOn DEF r

\* carry_copy_image
LEMMA CarryIs ==
    ASSUME NEW n, NEW e, NEW w, Context(n, e), NEW h, Good(h, n, e, w), ~h.inflight[h.cur],
           ~Gpu!Full(h), NEW x \in Content, Gpu!InFlight(h),
           Gpu!Places(h.cimg[Gpu!Other(h)], x) # {}
    PROVE  LET r == Gpu!Carry(h, x)
           IN /\ Good(r, n, e, w) /\ Follows(h, r, e) /\ Onward(h, r, w)
              /\ Placed(h, r, h.used + 1, x)
<1>. DEFINE o == Gpu!Other(h)
            from == CHOOSE a \in Gpu!Places(h.cimg[o], x) : TRUE
            to == h.used + 1
            op == [op |-> "carry", at |-> to, from |-> from]
            k == Gpu!Record(h, <<op>>)
            r == Gpu!Carry(h, x)
<1>1. /\ h \in State /\ Kept(h) /\ Draws(h) /\ Lands(h, n, e) /\ Screens(h, n, w)
      /\ h.cur \in Gpu!Slots /\ o \in Gpu!Slots /\ o # h.cur /\ NSlots = 2 /\ o = 1 - h.cur
      /\ \A t \in Gpu!Slots : t # h.cur => t = o
  <2>1. h \in State
    BY DEF Good
  <2>2. o # h.cur
    BY DEF Gpu!InFlight
  <2>. QED BY <2>1, <2>2, OtherIs DEF Good, State
<1>2. PICK c \in h.cimg[o] : c.content = x /\ c.at = from /\ from \in 1 .. HalfRoom
  <2>1. from \in Gpu!Places(h.cimg[o], x)
    OBVIOUS
  <2>2. PICK c \in h.cimg[o] : c.content = x /\ c.at = from
    BY <2>1 DEF Gpu!Places
  <2>. QED BY <1>1, <2>2, EntryFields
<1>3. to \in 1 .. HalfRoom /\ h.used \in Nat
  <2>1. HalfRoom \in Nat /\ h.used \in 0 .. HalfRoom /\ h.used # HalfRoom
    BY <1>1, GpuAssumption DEF Gpu!Full, State
  <2>. QED BY <2>1
<1>4. op \in Op
  BY <1>2, <1>3 DEF Op, Carrying
<1>5. /\ k \in State /\ Same(h, k, {"rec", "ops"})
      /\ k.rec[h.cur] /\ k.ops = [h.ops EXCEPT ![h.cur] = Append(@, op)]
  BY <1>1, <1>4, RecordIs
<1>. DEFINE carried == [h.carried EXCEPT ![o] = @ \cup {from}]
            cimg == [h.cimg EXCEPT ![h.cur] = @ \cup {[content |-> x, at |-> to]}]
<1>6. /\ carried \in [Gpu!Slots -> SUBSET (1 .. HalfRoom)] /\ cimg \in [Gpu!Slots -> SUBSET Entry]
      /\ to \in 0 .. HalfRoom
  <2>1. h.carried \in [Gpu!Slots -> SUBSET (1 .. HalfRoom)]
        /\ h.cimg \in [Gpu!Slots -> SUBSET Entry]
    BY <1>1 DEF State
  <2>2. [content |-> x, at |-> to] \in Entry
    BY <1>3 DEF Entry
  <2>3. from \in 1 .. HalfRoom
    BY <1>2
  <2>4. to \in 0 .. HalfRoom
    BY <1>3
  <2>. HIDE DEF from, to
  <2>5. carried \in [Gpu!Slots -> SUBSET (1 .. HalfRoom)]
    BY <2>1, <2>3
  <2>6. cimg \in [Gpu!Slots -> SUBSET Entry]
    BY <2>1, <2>2
  <2>. QED BY <2>4, <2>5, <2>6
<1>7. r = [k EXCEPT !.carried = carried, !.cimg = cimg, !.used = to]
  <2>1. k.carried = h.carried /\ k.cimg = h.cimg
    BY <1>5 DEF Same, Fields
  <2>2. r = [k EXCEPT !.carried[o] = @ \cup {from},
                      !.cimg[h.cur] = @ \cup {[content |-> x, at |-> to]}, !.used = to]
    BY DEF Gpu!Carry
  <2>. HIDE DEF k, r, from
  <2>. QED BY <1>5, <2>1, <2>2 DEF State
<1>8. /\ r \in State /\ Same(k, r, {"carried", "cimg", "used"})
      /\ r.carried = carried /\ r.cimg = cimg /\ r.used = to
  <2>. HIDE DEF k, carried, cimg, r, to
  <2>. QED BY <1>5, <1>6, <1>7 DEF State, Same, Fields
<1>9. /\ r.ops = [h.ops EXCEPT ![h.cur] = Append(@, op)] /\ r.rec[h.cur]
      /\ r.cur = h.cur /\ r.inflight = h.inflight /\ r.done = h.done
      /\ r.lands = h.lands /\ r.pool = h.pool
      /\ r.deliver = h.deliver /\ r.publish = h.publish /\ r.back = h.back
      /\ r.middle = h.middle /\ r.fresh = h.fresh /\ r.real = h.real /\ r.mid = h.mid
      /\ r.has = h.has /\ r.screen = h.screen /\ r.missed = h.missed /\ r.ram = h.ram
      /\ r.said = h.said /\ r.filled = h.filled /\ r.resident = h.resident
  BY <1>5, <1>8 DEF Same, Fields
<1>10. /\ \A t \in Gpu!Slots : t # h.cur => cimg[t] = h.cimg[t]
       /\ cimg[h.cur] = h.cimg[h.cur] \cup {[content |-> x, at |-> to]}
       /\ carried[o] = h.carried[o] \cup {from}
       /\ \A t \in Gpu!Slots : h.carried[t] \subseteq carried[t]
  <2>1. h.carried \in [Gpu!Slots -> SUBSET (1 .. HalfRoom)]
        /\ h.cimg \in [Gpu!Slots -> SUBSET Entry]
    BY <1>1 DEF State
  <2>. QED BY <1>1, <2>1
<1>11. op.op = "carry" /\ op.from = from /\ op.at = to
  OBVIOUS
<1>. HIDE DEF k, carried, cimg, r, op, from
<1>12. Appends(h, r, op)
  BY <1>1, <1>4, <1>8, <1>9 DEF Appends
<1>13. Recorded(h, r, op)
  BY <1>8, <1>9, <1>10, <1>11, <1>12 DEF Recorded, Added, ToScreen
<1>14. Kept(r) /\ Recording(r) /\ Screens(r, n, w) /\ Onward(h, r, w) /\ (Tells(h) => Tells(r))
  BY <1>1, <1>13, RecordedScreens
<1>15. Will(r, h.cur, to, x)
  <2>1. Untouched(h.ops[h.cur], to)
    <3>1. \A j \in DOMAIN h.ops[h.cur] : h.ops[h.cur][j].op \in {"image", "carry", "sample"} =>
             h.ops[h.cur][j].at \in Nat /\ h.ops[h.cur][j].at <= h.used
      BY <1>1, OpsAre, OpFields DEF Draws, Upto
    <3>. QED BY <1>3, <3>1 DEF Untouched, Writes
  <2>2. Would(h, o, from, x)
    <3>1. Will(h, o, from, x)
      BY <1>1, <1>2 DEF Draws, Sound
    <3>. QED BY <1>1, <3>1 DEF Will, Would
  <2>3. Writes(op, to) /\ Leaves(h, op, x)
    BY <1>1, <1>11, <2>2 DEF Writes, Leaves
  <2>. QED BY <1>1, <1>12, <2>1, <2>3, AppendWill
<1>16. Draws(r)
  <2>1. \A c1 \in r.cimg[h.cur] : c1 \in h.cimg[h.cur]
              \/ (c1.at <= r.used /\ Will(r, h.cur, c1.at, c1.content))
    <3>1. to <= to
      BY <1>3
    <3>. QED BY <1>8, <1>10, <1>15, <3>1
  <2>2. h.used <= r.used
    BY <1>3, <1>8
  <2>3. op.from \in r.carried[1 - h.cur]
    BY <1>1, <1>8, <1>10, <1>11
  <2>4. \A t \in Gpu!Slots : h.cimg[t] \subseteq r.cimg[t]
    BY <1>8, <1>10
  <2>5. \A i \in DOMAIN r.lands[h.cur] : r.lands[h.cur][i].image =>
              \/ i \in DOMAIN h.lands[h.cur] /\ r.lands[h.cur][i] = h.lands[h.cur][i]
              \/ \E c1 \in r.cimg[h.cur] : c1.content = Gpu!CopyOf(r.lands[h.cur][i].seq)
    BY <1>9
  <2>. QED BY <1>1, <1>8, <1>9, <1>10, <1>11, <1>12, <2>1, <2>2, <2>3, <2>4, <2>5, AppendDraws
<1>17. Lands(r, n, e) /\ Follows(h, r, e)
  BY <1>1, <1>9, <1>14, LandsFrame DEF Follows
<1>18. Placed(h, r, to, x)
  <2>1. to \in Nat /\ to \in 1 .. to
    BY <1>3
  <2>. QED BY <1>8, <1>9, <1>15, <2>1 DEF Placed
<1>. QED BY <1>8, <1>14, <1>16, <1>17, <1>18 DEF Good, r

\* A texture that has a place has its last.
LEMMA PlacesAre ==
    ASSUME NEW set, set \subseteq Entry, NEW x, Gpu!Places(set, x) # {}
    PROVE  \E c \in set : c.content = x /\ c.at = Gpu!Max(Gpu!Places(set, x))
           /\ c.at \in 1 .. HalfRoom
<1>1. HalfRoom \in Nat
  BY GpuAssumption
<1>2. Gpu!Places(set, x) \subseteq 0 .. HalfRoom
  BY <1>1 DEF Gpu!Places, Entry
<1>. DEFINE p == Gpu!Places(set, x)
<1>. HIDE DEF p
<1>3. Gpu!Max(p) \in p
  BY <1>1, <1>2, MaxIs DEF p
<1>. QED BY <1>3 DEF Gpu!Places, Entry, p

\* A copy whose image is yet to land is in a slot's half.
LEMMA KnownIs ==
    ASSUME NEW n, NEW e, NEW w, NEW h, Good(h, n, e, w), NEW x \in Content, Known(h, x)
    PROVE  \/ x.kind = "texture" \/ x.n \in h.filled
           \/ Gpu!Places(h.cimg[h.cur], x) # {}
           \/ Gpu!InFlight(h) /\ Gpu!Places(h.cimg[Gpu!Other(h)], x) # {}
<1>1. h \in State /\ Draws(h) /\ Kept(h)
  BY DEF Good
<1>2. SUFFICES ASSUME x.kind # "texture",
                      NEW s \in Gpu!Slots, NEW i \in DOMAIN h.lands[s],
                      h.lands[s][i].image, h.lands[s][i].seq = x.n
               PROVE  \/ Gpu!Places(h.cimg[h.cur], x) # {}
                      \/ Gpu!InFlight(h) /\ Gpu!Places(h.cimg[Gpu!Other(h)], x) # {}
  BY DEF Known
<1>3. x = Gpu!CopyOf(x.n)
  BY <1>2 DEF Content, Gpu!CopyOf
<1>4. PICK c \in h.cimg[s] : c.content = x
  BY <1>1, <1>2, <1>3 DEF Draws, Sound
<1>5. Gpu!Places(h.cimg[s], x) # {}
  BY <1>4 DEF Gpu!Places
<1>6. s # h.cur => h.inflight[s]
  BY <1>1, <1>4 DEF Kept, Clean
<1>7. s # h.cur => s = Gpu!Other(h) /\ h.inflight[s]
  BY <1>1, <1>6, OtherIs
<1>. QED BY <1>5, <1>7 DEF Gpu!InFlight

\* upload_texture, of what is no copy's image to come.
LEMMA AsTextureIs ==
    ASSUME NEW n, NEW e, NEW w, Context(n, e), NEW h, Good(h, n, e, w), ~h.inflight[h.cur],
           NEW x \in Content, x.kind = "texture" \/ x.n \in h.filled
    PROVE  LET r == Gpu!AsTexture(h, x)
           IN /\ Good(r.h, n, e, w) /\ Follows(h, r.h, e) /\ Onward(h, r.h, w)
              /\ r.at = 0 => r.h = h /\ Gpu!Full(h)
              /\ r.at # 0 => Placed(h, r.h, r.at, x)
<1>. DEFINE r == Gpu!AsTexture(h, x)
<1>0. h \in State /\ h.cur \in Gpu!Slots /\ h.used \in Nat /\ HalfRoom \in Nat
      /\ h.resident \subseteq Entry /\ Draws(h)
  <2>1. h \in State /\ HalfRoom \in Nat
    BY GpuAssumption DEF Good
  <2>. QED BY <2>1 DEF Good, State
<1>1. Follows(h, h, e) /\ Onward(h, h, w)
  BY DEF Follows, Onward
<1>2. CASE Gpu!Places(h.resident, x) # {}
  <2>1. r = [h |-> h, at |-> Gpu!Max(Gpu!Places(h.resident, x))]
    BY <1>2 DEF Gpu!AsTexture
  <2>2. PICK c \in h.resident : c.content = x /\ c.at = r.at /\ c.at \in 1 .. HalfRoom
    <3>1. \E c \in h.resident : c.content = x /\ c.at = Gpu!Max(Gpu!Places(h.resident, x))
                                /\ c.at \in 1 .. HalfRoom
      BY <1>0, <1>2, PlacesAre
    <3>. QED BY <2>1, <3>1
  <2>3. c.at <= h.used /\ Will(h, h.cur, c.at, c.content)
    BY <1>0 DEF Draws, Upto
  <2>4. r.at \in 1 .. h.used /\ r.at # 0 /\ r.h = h
    <3>1. c.at \in 1 .. h.used /\ c.at # 0
      BY <1>0, <2>2, <2>3
    <3>. QED BY <2>1, <2>2, <3>1
  <2>5. Placed(h, h, r.at, x)
    BY <1>0, <2>2, <2>3, <2>4 DEF Placed
  <2>. QED BY <1>1, <2>4, <2>5
<1>3. CASE Gpu!Places(h.resident, x) = {} /\ Gpu!Full(h)
  <2>1. r = [h |-> h, at |-> 0]
    BY <1>3 DEF Gpu!AsTexture
  <2>. QED BY <1>1, <1>3, <2>1
<1>4. CASE Gpu!Places(h.resident, x) = {} /\ ~Gpu!Full(h)
  <2>. DEFINE k == Gpu!HostUpload(h, x)
  <2>1. r = [h |-> k, at |-> k.used]
    BY <1>4 DEF Gpu!AsTexture
  <2>2. /\ Good(k, n, e, w) /\ Follows(h, k, e) /\ Onward(h, k, w)
        /\ Placed(h, k, k.used, x)
    BY <1>4, HostUploadIs
  <2>3. k.used # 0
    BY <2>2 DEF Placed
  <2>. HIDE DEF k
  <2>. QED BY <2>1, <2>2, <2>3
<1>. QED BY <1>2, <1>3, <1>4

\* upload_texture
LEMMA UploadIs ==
    ASSUME NEW n, NEW e, NEW w, Context(n, e), NEW h, Good(h, n, e, w), Recording(h),
           NEW x \in Content, Known(h, x)
    PROVE  LET r == Gpu!Upload(h, x)
           IN /\ Good(r.h, n, e, w) /\ Follows(h, r.h, e) /\ Onward(h, r.h, w)
              /\ r.at = 0 => Gpu!Full(h) /\ Recording(r.h)
              /\ r.at # 0 => Placed(h, r.h, r.at, x)
<1>. DEFINE r == Gpu!Upload(h, x)
            o == Gpu!Other(h)
            mine == Gpu!Places(h.cimg[h.cur], x)
            theirs == Gpu!InFlight(h) /\ Gpu!Places(h.cimg[o], x) # {}
            f == Gpu!Finish(h, o)
<1>0. /\ h \in State /\ h.cur \in Gpu!Slots /\ h.used \in Nat /\ HalfRoom \in Nat
      /\ Draws(h) /\ ~h.inflight[h.cur] /\ h.cimg[h.cur] \subseteq Entry
  <2>1. h \in State /\ HalfRoom \in Nat
    BY GpuAssumption DEF Good
  <2>. QED BY SMTT(40), <2>1 DEF Good, State, Recording
<1>1. CASE mine # {}
  <2>1. r = [h |-> h, at |-> Gpu!Max(mine)]
    BY <1>1 DEF Gpu!Upload
  <2>2. PICK c \in h.cimg[h.cur] : c.content = x /\ c.at = r.at /\ c.at \in 1 .. HalfRoom
    <3>1. \E c \in h.cimg[h.cur] : c.content = x /\ c.at = Gpu!Max(mine) /\ c.at \in 1 .. HalfRoom
      BY <1>0, <1>1, PlacesAre
    <3>. QED BY <2>1, <3>1
  <2>3. c.at <= h.used /\ Will(h, h.cur, c.at, c.content)
    BY <1>0 DEF Draws, Upto, Sound
  <2>4. r.at \in 1 .. h.used /\ r.at # 0 /\ r.h = h
    <3>1. c.at \in 1 .. h.used /\ c.at # 0
      BY <1>0, <2>2, <2>3
    <3>. QED BY <2>1, <2>2, <3>1
  <2>5. Placed(h, h, r.at, x)
    BY <1>0, <2>2, <2>3, <2>4 DEF Placed
  <2>6. Follows(h, h, e) /\ Onward(h, h, w)
    BY DEF Follows, Onward
  <2>. QED BY <2>4, <2>5, <2>6
<1>2. CASE mine = {} /\ ~theirs
  <2>1. r = Gpu!AsTexture(h, x)
    BY <1>2 DEF Gpu!Upload
  <2>2. x.kind = "texture" \/ x.n \in h.filled
    BY <1>2, KnownIs
  <2>. QED BY <1>0, <2>1, <2>2, AsTextureIs
<1>3. CASE mine = {} /\ theirs /\ ~Gpu!Full(h) /\ Gpu!Cardinality(h.cimg[h.cur]) < LandMax
  <2>1. r = [h |-> Gpu!Carry(h, x), at |-> h.used + 1]
    BY <1>3 DEF Gpu!Upload
  <2>2. LET k == Gpu!Carry(h, x)
        IN /\ Good(k, n, e, w) /\ Follows(h, k, e) /\ Onward(h, k, w)
           /\ Placed(h, k, h.used + 1, x)
    BY <1>0, <1>3, CarryIs
  <2>3. r.h = Gpu!Carry(h, x) /\ r.at = h.used + 1 /\ r.at # 0
    BY <1>0, <2>1
  <2>. QED BY <2>2, <2>3
<1>4. CASE mine = {} /\ theirs /\ ~(~Gpu!Full(h) /\ Gpu!Cardinality(h.cimg[h.cur]) < LandMax)
  <2>1. r = Gpu!AsTexture(f, x)
    BY <1>4 DEF Gpu!Upload
  <2>2. /\ Good(f, n, e, w) /\ Follows(h, f, e) /\ Onward(h, f, w)
        /\ \A t \in Gpu!Slots : t # h.cur => Clean(f, t) /\ ~f.inflight[t]
        /\ BesideIt(h, f) /\ ~f.inflight[h.cur]
    BY <1>0, FinishOther
  <2>3. f.cur = h.cur /\ f.used = h.used /\ f.cimg[h.cur] = h.cimg[h.cur] /\ f \in State
    BY <2>2 DEF BesideIt, Good
  <2>4. Known(f, x)
    BY <2>2 DEF Follows
  <2>5. ~Gpu!InFlight(f)
    BY <2>2, <2>3, OtherIs DEF Gpu!InFlight
  <2>6. x.kind = "texture" \/ x.n \in f.filled
    BY <1>4, <2>2, <2>3, <2>4, <2>5, KnownIs
  <2>. HIDE DEF f
  <2>7. /\ Good(r.h, n, e, w) /\ Follows(f, r.h, e) /\ Onward(f, r.h, w)
        /\ r.at = 0 => r.h = f /\ Gpu!Full(f)
        /\ r.at # 0 => Placed(f, r.h, r.at, x)
    BY <2>1, <2>2, <2>3, <2>6, AsTextureIs
  <2>8. Recording(f) /\ (Gpu!Full(f) => Gpu!Full(h))
    BY <2>2, <2>3, BesideRecording DEF Gpu!Full
  <2>9. Placed(f, r.h, r.at, x) => Placed(h, r.h, r.at, x)
    BY <2>3 DEF Placed
  <2>10. Follows(h, r.h, e) /\ Onward(h, r.h, w)
    BY <2>2, <2>7, FollowsOn
  <2>. QED BY <2>7, <2>8, <2>9, <2>10
<1>. QED BY <1>1, <1>2, <1>3, <1>4

\* A draw with the texture placed for it.
LEMMA SampleIs ==
    ASSUME NEW n, NEW e, NEW w, NEW h, Good(h, n, e, w), NEW p, NEW a, NEW x \in Content,
           Placed(p, h, a, x)
    PROVE  LET r == Gpu!Record(h, <<[op |-> "sample", at |-> a, want |-> x]>>)
           IN /\ Good(r, n, e, w) /\ Follows(h, r, e) /\ Onward(h, r, w) /\ Recording(r)
<1>. DEFINE op == [op |-> "sample", at |-> a, want |-> x]
            r == Gpu!Record(h, <<op>>)
<1>1. /\ h \in State /\ Kept(h) /\ Draws(h) /\ Lands(h, n, e) /\ Screens(h, n, w)
      /\ h.cur \in Gpu!Slots /\ h.used \in Nat /\ ~h.inflight[h.cur]
      /\ a \in 1 .. HalfRoom /\ a <= h.used /\ Will(h, h.cur, a, x)
  <2>1. h \in State /\ HalfRoom \in Nat /\ h.cur \in Gpu!Slots /\ h.used \in 0 .. HalfRoom
    BY GpuAssumption DEF Good, State
  <2>2. a \in 1 .. h.used
    BY DEF Placed
  <2>3. a \in 1 .. HalfRoom /\ a <= h.used
    BY <2>1, <2>2
  <2>. QED BY <2>1, <2>3 DEF Good, Placed
<1>2. op \in Op /\ op.op = "sample" /\ op.at = a /\ op.want = x
  BY <1>1 DEF Op, Sampling
<1>3. /\ r \in State /\ Same(h, r, {"rec", "ops"})
      /\ r.rec[h.cur] /\ r.ops = [h.ops EXCEPT ![h.cur] = Append(@, op)]
  BY <1>1, <1>2, RecordIs
<1>. HIDE DEF r, op
<1>4. /\ r.cur = h.cur /\ r.inflight = h.inflight /\ r.done = h.done
      /\ r.lands = h.lands /\ r.pool = h.pool /\ r.carried = h.carried /\ r.cimg = h.cimg
      /\ r.deliver = h.deliver /\ r.publish = h.publish /\ r.back = h.back /\ r.used = h.used
      /\ r.middle = h.middle /\ r.fresh = h.fresh /\ r.real = h.real /\ r.mid = h.mid
      /\ r.has = h.has /\ r.screen = h.screen /\ r.missed = h.missed /\ r.ram = h.ram
      /\ r.said = h.said /\ r.filled = h.filled /\ r.resident = h.resident
  BY <1>3 DEF Same, Fields
<1>5. Appends(h, r, op)
  BY <1>1, <1>2, <1>3, <1>4 DEF Appends
<1>6. Recorded(h, r, op)
  BY <1>2, <1>3, <1>4, <1>5 DEF Recorded, Added, ToScreen
<1>7. Kept(r) /\ Recording(r) /\ Screens(r, n, w) /\ Onward(h, r, w) /\ (Tells(h) => Tells(r))
  BY <1>1, <1>6, RecordedScreens
<1>8. Draws(r)
  BY <1>1, <1>2, <1>4, <1>5, AppendDraws
<1>9. Lands(r, n, e) /\ Follows(h, r, e)
  BY <1>1, <1>4, <1>7, LandsFrame DEF Follows
<1>. QED BY <1>3, <1>7, <1>8, <1>9 DEF Good, r, op

-----------------------------------------------------------------------------
(* A copy to memory.                                                        *)

\* What is said to have landed is never past a copy still to land.
LEMMA SayGood ==
    ASSUME NEW n \in Nat, NEW e \in [Gpu!Cells -> Nat], NEW w, NEW h, Good(h, n, e, w)
    PROVE  LET r == Gpu!SayLanded(h, n)
           IN /\ Good(r, n, e, w) /\ Told(r, e) /\ Onward(h, r, w)
              /\ (Tells(h) => Tells(r)) /\ (Recording(h) => Recording(r))
<1>. DEFINE r == Gpu!SayLanded(h, n)
<1>1. h \in State /\ Kept(h) /\ Lands(h, n, e) /\ Draws(h) /\ Screens(h, n, w) /\ h.said \in Nat
  BY DEF Good, State
<1>2. /\ r \in State /\ Same(h, r, {"said"})
      /\ r.said \in Nat /\ h.said <= r.said
      /\ r.said = h.said \/ r.said <= n
      /\ \A s \in Gpu!Slots : h.lands[s] # <<>> =>
            r.said = h.said \/ r.said <= h.lands[s][1].seq
      /\ (\A s \in Gpu!Slots : h.lands[s] = <<>>) => n <= r.said
  BY <1>1, SayLandedIs
<1>. HIDE DEF r
<1>3. /\ r.cur = h.cur /\ r.inflight = h.inflight /\ r.done = h.done /\ r.rec = h.rec
      /\ r.ops = h.ops /\ r.used = h.used
      /\ r.lands = h.lands /\ r.pool = h.pool /\ r.carried = h.carried /\ r.cimg = h.cimg
      /\ r.deliver = h.deliver /\ r.publish = h.publish /\ r.back = h.back
      /\ r.middle = h.middle /\ r.fresh = h.fresh /\ r.real = h.real /\ r.mid = h.mid
      /\ r.has = h.has /\ r.screen = h.screen /\ r.missed = h.missed /\ r.ram = h.ram
      /\ r.filled = h.filled /\ r.resident = h.resident
  BY <1>2 DEF Same, Fields
<1>4. Lands(r, n, e)
  <2>1. r.said <= n
    BY <1>1, <1>2 DEF Lands
  <2>2. ASSUME NEW s \in Gpu!Slots, NEW i \in DOMAIN h.lands[s] PROVE Coming(r, n, e, h.lands[s][i])
    <3>1. Coming(h, n, e, h.lands[s][i]) /\ Rising(h.lands[s])
      BY <1>1 DEF Lands
    <3>2. /\ 1 \in DOMAIN h.lands[s] /\ h.lands[s] # <<>> /\ i \in Nat /\ 1 <= i
          /\ h.lands[s][1].seq \in Nat /\ h.lands[s][i].seq \in Nat
      BY <1>1, LandsAre
    <3>3. h.lands[s][1].seq <= h.lands[s][i].seq
      <4>1. CASE i = 1
        BY <3>2, <4>1
      <4>2. CASE i # 1
        BY <3>1, <3>2, <4>2 DEF Rising
      <4>. QED BY <4>1, <4>2
    <3>4. r.said <= h.lands[s][i].seq
      BY <1>1, <1>2, <3>1, <3>2, <3>3 DEF Coming
    <3>. QED BY <1>3, <3>1, <3>4 DEF Coming
  <2>3. Apart(r) /\ \A c : Covered(h, c) <=> Covered(r, c)
    BY <1>1, <1>3 DEF Apart, Covered, Lands
  <2>. QED BY <1>1, <1>3, <2>1, <2>2, <2>3 DEF Lands
<1>5. Told(r, e)
  <2>1. \A c \in Gpu!Cells : e[c] \in Nat /\ e[c] <= n
    BY <1>1 DEF Lands
  <2>. QED BY <1>2, <1>3, <2>1 DEF Told
<1>6. Kept(r) /\ Draws(r) /\ Screens(r, n, w) /\ Onward(h, r, w) /\ (Tells(h) => Tells(r))
  BY <1>1, <1>3, KeptFrame, DrawsFrame, ScreensFrame
<1>7. Recording(h) => Recording(r)
  BY <1>3 DEF Recording, Clean
<1>. QED BY <1>2, <1>4, <1>5, <1>6, <1>7 DEF Good, r

\* No copy still to land lies over a copy's span.
Free(h, k) ==
    \A s \in Gpu!Slots : \A i \in DOMAIN h.lands[s] : DOMAIN h.lands[s][i].bytes \cap k.span = {}

\* copy_texture: after a copy under this one's bytes has landed, none lies there.
LEMMA LandFirstIs ==
    ASSUME NEW n, NEW e, NEW w, Context(n, e), NEW h, Good(h, n, e, w), Recording(h), NEW k
    PROVE  LET r == Gpu!LandFirst(h, k)
           IN /\ Good(r, n, e, w) /\ Follows(h, r, e) /\ Onward(h, r, w) /\ Recording(r)
              /\ Free(r, k)
<1>0. h \in State /\ h.cur \in Gpu!Slots /\ Kept(h) /\ ~h.inflight[h.cur]
  BY DEF Good, State, Recording
<1>1. \A l, s : ~Gpu!Overlaps(l, s, k) =>
         \A i \in DOMAIN l.lands[s] : DOMAIN l.lands[s][i].bytes \cap k.span = {}
  BY DEF Gpu!Overlaps, Gpu!ToSet
<1>2. CASE Gpu!Overlaps(h, h.cur, k)
  <2>1. Gpu!LandFirst(h, k) = Gpu!SubmitWait(h)
    BY <1>2 DEF Gpu!LandFirst
  <2>2. LET r == Gpu!SubmitWait(h)
        IN /\ Good(r, n, e, w) /\ Follows(h, r, e) /\ Onward(h, r, w) /\ Recording(r)
           /\ \A t \in Gpu!Slots : Clean(r, t) /\ ~r.inflight[t]
    BY SubmitWaitIs
  <2>3. Free(Gpu!SubmitWait(h), k)
    BY <2>2 DEF Free, Clean
  <2>. QED BY <2>1, <2>2, <2>3
<1>3. CASE ~Gpu!Overlaps(h, h.cur, k) /\ Gpu!InFlight(h) /\ Gpu!Overlaps(h, Gpu!Other(h), k)
  <2>. DEFINE r == Gpu!Finish(h, Gpu!Other(h))
  <2>1. Gpu!LandFirst(h, k) = r
    BY <1>3 DEF Gpu!LandFirst
  <2>2. /\ Good(r, n, e, w) /\ Follows(h, r, e) /\ Onward(h, r, w)
        /\ \A t \in Gpu!Slots : t # h.cur => Clean(r, t) /\ ~r.inflight[t]
        /\ BesideIt(h, r) /\ ~r.inflight[h.cur]
    BY <1>0, FinishOther
  <2>. HIDE DEF r
  <2>3. Recording(r)
    BY <2>2, BesideRecording
  <2>4. ~Gpu!Overlaps(r, h.cur, k)
    BY <1>3, <2>2 DEF BesideIt, Gpu!Overlaps
  <2>5. Free(r, k)
    BY <1>1, <2>2, <2>4 DEF Free, Clean
  <2>. QED BY <2>1, <2>2, <2>3, <2>5
<1>4. CASE ~Gpu!Overlaps(h, h.cur, k) /\ ~(Gpu!InFlight(h) /\ Gpu!Overlaps(h, Gpu!Other(h), k))
  <2>1. Gpu!LandFirst(h, k) = h
    BY <1>4 DEF Gpu!LandFirst
  <2>2. Follows(h, h, e) /\ Onward(h, h, w)
    BY DEF Follows, Onward
  <2>3. ASSUME NEW s \in Gpu!Slots, NEW i \in DOMAIN h.lands[s]
        PROVE  DOMAIN h.lands[s][i].bytes \cap k.span = {}
    <3>1. CASE s = h.cur
      BY <1>1, <1>4, <3>1
    <3>2. CASE s # h.cur /\ h.inflight[s]
      <4>1. s = Gpu!Other(h)
        BY <1>0, <3>2, OtherIs
      <4>2. ~Gpu!Overlaps(h, s, k)
        BY <1>4, <3>2, <4>1 DEF Gpu!InFlight
      <4>. QED BY <1>1, <4>2
    <3>3. CASE s # h.cur /\ ~h.inflight[s]
      BY <1>0, <3>3 DEF Kept, Clean
    <3>. QED BY <3>1, <3>2, <3>3
  <2>4. Free(h, k)
    BY <2>3 DEF Free
  <2>. QED BY <2>1, <2>2, <2>4
<1>. QED BY <1>2, <1>3, <1>4

\* Submitting with no picture drawn leaves none drawn.
LEMMA NextPaused ==
    ASSUME NEW n, NEW e, NEW w, Context(n, e), NEW h, Good(h, n, e, w), Recording(h)
    PROVE  Paused(Gpu!SubmitNext(h), Gpu!NoPair, w)
<1>. DEFINE k == Gpu!SubmitNext(h)
<1>1. Clean(k, k.cur)
  BY SubmitNextIs
<1>. HIDE DEF k
<1>2. ~Shows(k, k.cur)
  BY <1>1 DEF Clean, Shows, Pictures
<1>. QED BY <1>2 DEF Paused, k

\* copy_texture: room for the image and for one more copy to land.
LEMMA MakeRoomIs ==
    ASSUME NEW n, NEW e, NEW w, Context(n, e), NEW h, Good(h, n, e, w), Recording(h),
           NEW k, Free(h, k), Paused(h, Gpu!NoPair, w)
    PROVE  LET r == Gpu!MakeRoom(h)
           IN /\ Good(r, n, e, w) /\ Follows(h, r, e) /\ Recording(r)
              /\ Free(r, k) /\ Paused(r, Gpu!NoPair, w) /\ ~Gpu!Full(r)
<1>0. h \in State /\ h.cur \in Gpu!Slots
  BY DEF Good, State
<1>1. CASE Gpu!Full(h) \/ Len(h.lands[h.cur]) = LandMax
  <2>. DEFINE r == Gpu!SubmitNext(h)
  <2>1. Gpu!MakeRoom(h) = r
    BY <1>1 DEF Gpu!MakeRoom
  <2>2. /\ Good(r, n, e, w) /\ Follows(h, r, e) /\ Recording(r)
        /\ Clean(r, r.cur) /\ r.used = 0 /\ r.resident = {}
        /\ NSlots = 2 => r.lands[h.cur] = h.lands[h.cur]
        /\ r = h \/ r.cur = Gpu!Other(h)
    BY SubmitNextIs
  <2>3. Paused(r, Gpu!NoPair, w)
    BY NextPaused
  <2>. HIDE DEF r
  <2>4. r \in State /\ r.cur \in Gpu!Slots
    BY <2>2 DEF Good, State
  <2>5. ASSUME NEW s \in Gpu!Slots, NEW i \in DOMAIN r.lands[s]
        PROVE  DOMAIN r.lands[s][i].bytes \cap k.span = {}
    <3>1. s # r.cur
      BY <2>2 DEF Clean
    <3>2. CASE r = h
      BY <3>2 DEF Free
    <3>3. CASE r.cur = Gpu!Other(h)
      <4>1. NSlots = 2 /\ s = h.cur
        BY <1>0, <2>4, <3>1, <3>3, OtherIs, SlotsAre, GpuAssumption
      <4>. QED BY <2>2, <4>1 DEF Free
    <3>. QED BY <2>2, <3>2, <3>3
  <2>6. Free(r, k)
    BY <2>5 DEF Free
  <2>7. ~Gpu!Full(r)
    BY <2>2, GpuAssumption DEF Gpu!Full
  <2>. QED BY <2>1, <2>2, <2>3, <2>6, <2>7
<1>2. CASE ~(Gpu!Full(h) \/ Len(h.lands[h.cur]) = LandMax)
  <2>1. Gpu!MakeRoom(h) = h
    BY <1>2 DEF Gpu!MakeRoom
  <2>2. Follows(h, h, e)
    BY DEF Follows
  <2>. QED BY <1>2, <2>1, <2>2
<1>. QED BY <1>1, <1>2

\* RAM with a copy's bytes in it.
With(e, k) == [c \in Gpu!Cells |-> IF c \in k.writes THEN seq + 1 ELSE e[c]]

LEMMA WithIs ==
    ASSUME seq \in Nat, NEW e \in [Gpu!Cells -> Nat], NEW k \in Spans
    PROVE  /\ With(e, k) \in [Gpu!Cells -> Nat] /\ k.writes \subseteq k.span
              /\ k.span \subseteq Gpu!Cells
           /\ k.image \in BOOLEAN
           /\ \A c \in Gpu!Cells : (c \in k.writes => With(e, k)[c] = seq + 1)
                                   /\ (c \notin k.writes => With(e, k)[c] = e[c])
BY GpuAssumption DEF With, Gpu!Cells

\* A copy more to land, over no other's bytes.
LEMMA AppendLands ==
    ASSUME seq \in Nat, NEW e \in [Gpu!Cells -> Nat], NEW h \in State, NEW r \in State,
           NEW k \in Spans, Free(h, k), Lands(h, seq, e),
           NEW l, l.seq = seq, DOMAIN l.bytes = k.span,
           \A c \in k.span : l.bytes[c] = IF c \in k.writes THEN seq + 1 ELSE h.ram[c],
           r.ram = h.ram, r.said = h.said,
           \A s \in Gpu!Slots : s # h.cur => r.lands[s] = h.lands[s],
           r.lands[h.cur] = Append(h.lands[h.cur], l)
    PROVE  Lands(r, seq + 1, With(e, k))
<1>. DEFINE f == With(e, k)
<1>0. /\ f \in [Gpu!Cells -> Nat] /\ k.writes \subseteq k.span /\ k.span \subseteq Gpu!Cells
      /\ \A c \in Gpu!Cells : (c \in k.writes => f[c] = seq + 1)
         /\ (c \notin k.writes => f[c] = e[c])
  BY WithIs
<1>. HIDE DEF f
<1>1. h.cur \in Gpu!Slots /\ h.lands[h.cur] \in Seq(Landing) /\ h.said \in Nat
      /\ h.ram \in [Gpu!Cells -> Nat]
  BY LandsAre DEF State
<1>2. PICK m \in Nat \ {0} :
         /\ DOMAIN h.lands[h.cur] = 1 .. m - 1 /\ DOMAIN r.lands[h.cur] = 1 .. m
         /\ r.lands[h.cur][m] = l
         /\ \A j \in 1 .. m - 1 : r.lands[h.cur][j] = h.lands[h.cur][j]
  <2>. DEFINE m == Len(h.lands[h.cur]) + 1
  <2>1. /\ m \in Nat \ {0} /\ DOMAIN h.lands[h.cur] = 1 .. m - 1 /\ DOMAIN r.lands[h.cur] = 1 .. m
        /\ r.lands[h.cur][m] = l
        /\ \A j \in 1 .. m - 1 : r.lands[h.cur][j] = h.lands[h.cur][j]
    BY <1>1
  <2>. QED BY <2>1
<1>3. \A j \in 1 .. m : j \in 1 .. m - 1 \/ j = m
  BY <1>2
<1>4. m \in 1 .. m /\ \A j \in 1 .. m - 1 : j \in 1 .. m
  BY <1>2
<1>5. \A s \in Gpu!Slots : \A i \in DOMAIN r.lands[s] :
         \/ s = h.cur /\ i = m /\ r.lands[s][i] = l
         \/ i \in DOMAIN h.lands[s] /\ r.lands[s][i] = h.lands[s][i]
  BY <1>2, <1>3
<1>6. ASSUME NEW s \in Gpu!Slots, NEW i \in DOMAIN h.lands[s]
      PROVE  /\ Coming(h, seq, e, h.lands[s][i]) /\ h.lands[s][i].seq \in Nat
             /\ Coming(r, seq + 1, f, h.lands[s][i])
  <2>1. Coming(h, seq, e, h.lands[s][i]) /\ h.lands[s][i].seq \in Nat
    BY LandsAre DEF Lands
  <2>2. h.said <= h.lands[s][i].seq /\ h.lands[s][i].seq < seq + 1
    BY <2>1 DEF Coming
  <2>3. ASSUME NEW c \in DOMAIN h.lands[s][i].bytes
        PROVE  c \in Gpu!Cells /\ f[c] = e[c]
    <3>1. c \notin k.span
      BY DEF Free
    <3>2. c \in Gpu!Cells
      BY <2>1 DEF Coming
    <3>. QED BY <1>0, <3>1, <3>2
  <2>. QED BY <2>1, <2>2, <2>3 DEF Coming
<1>7. ASSUME NEW c \in k.span PROVE h.ram[c] = e[c]
  <2>1. ~Covered(h, c)
    BY DEF Free, Covered
  <2>. QED BY <1>0, <2>1 DEF Lands
<1>8. Coming(r, seq + 1, f, l)
  <2>1. r.said <= l.seq /\ l.seq < seq + 1
    BY <1>1 DEF Lands
  <2>2. ASSUME NEW c \in DOMAIN l.bytes
        PROVE  /\ c \in Gpu!Cells /\ l.bytes[c] = f[c]
               /\ r.ram[c] = f[c] \/ f[c] = l.seq + 1
    BY <1>0, <1>7
  <2>. QED BY <2>1, <2>2 DEF Coming
<1>9. r.said <= seq + 1 /\ \A c \in Gpu!Cells : f[c] <= seq + 1
  <2>1. \A c \in Gpu!Cells : e[c] \in Nat /\ e[c] <= seq
    BY DEF Lands
  <2>. QED BY <1>0, <1>1, <2>1 DEF Lands
<1>10. ASSUME NEW s \in Gpu!Slots
       PROVE  Rising(r.lands[s])
              /\ \A i \in DOMAIN r.lands[s] : Coming(r, seq + 1, f, r.lands[s][i])
  <2>1. \A i \in DOMAIN r.lands[s] : Coming(r, seq + 1, f, r.lands[s][i])
    BY <1>5, <1>6, <1>8
  <2>2. Rising(h.lands[s])
    BY DEF Lands
  <2>3. ASSUME NEW i \in DOMAIN r.lands[s], NEW j \in DOMAIN r.lands[s], j < i
        PROVE  r.lands[s][j].seq < r.lands[s][i].seq
    <3>1. CASE s # h.cur
      BY <2>2, <2>3, <3>1 DEF Rising
    <3>2. CASE s = h.cur /\ i = m
      <4>1. j \in 1 .. m - 1
        BY <1>2, <1>3, <2>3, <3>2
      <4>2. Coming(h, seq, e, h.lands[s][j])
        BY <1>2, <1>6, <3>2, <4>1
      <4>. QED BY <1>2, <3>2, <4>1, <4>2 DEF Coming
    <3>3. CASE s = h.cur /\ i # m
      <4>1. i \in 1 .. m - 1 /\ j \in 1 .. m - 1
        BY <1>2, <1>3, <2>3, <3>3
      <4>. QED BY <1>2, <2>2, <2>3, <3>3, <4>1 DEF Rising
    <3>. QED BY <3>1, <3>2, <3>3
  <2>. QED BY <2>1, <2>3 DEF Rising
<1>11. Apart(r)
  <2>. SUFFICES ASSUME NEW s \in Gpu!Slots, NEW t \in Gpu!Slots, NEW i \in DOMAIN r.lands[s],
                       NEW j \in DOMAIN r.lands[t],
                       NEW c \in DOMAIN r.lands[s][i].bytes \cap DOMAIN r.lands[t][j].bytes
                PROVE  s = t /\ i = j
    BY DEF Apart
  <2>1. CASE i \in DOMAIN h.lands[s] /\ r.lands[s][i] = h.lands[s][i]
             /\ j \in DOMAIN h.lands[t] /\ r.lands[t][j] = h.lands[t][j]
    BY <2>1 DEF Lands, Apart
  <2>2. CASE /\ s = h.cur /\ i = m /\ r.lands[s][i] = l
             /\ j \in DOMAIN h.lands[t] /\ r.lands[t][j] = h.lands[t][j]
    BY <2>2 DEF Free
  <2>3. CASE /\ t = h.cur /\ j = m /\ r.lands[t][j] = l
             /\ i \in DOMAIN h.lands[s] /\ r.lands[s][i] = h.lands[s][i]
    BY <2>3 DEF Free
  <2>4. CASE s = h.cur /\ i = m /\ t = h.cur /\ j = m
    BY <2>4
  <2>. QED BY <1>5, <2>1, <2>2, <2>3, <2>4
<1>12. ASSUME NEW c \in Gpu!Cells PROVE r.ram[c] = f[c] \/ Covered(r, c)
  <2>1. CASE c \in k.span
    BY <1>1, <1>2, <1>4, <2>1 DEF Covered
  <2>2. CASE c \notin k.span
    <3>1. f[c] = e[c]
      BY <1>0, <2>2
    <3>2. Covered(h, c) => Covered(r, c)
      <4>. SUFFICES ASSUME NEW s \in Gpu!Slots, NEW i \in DOMAIN h.lands[s],
                           c \in DOMAIN h.lands[s][i].bytes
                    PROVE  Covered(r, c)
        BY DEF Covered
      <4>1. i \in DOMAIN r.lands[s] /\ r.lands[s][i] = h.lands[s][i]
        BY <1>2, <1>4
      <4>. QED BY <4>1 DEF Covered
    <3>. QED BY <3>1, <3>2 DEF Lands
  <2>. QED BY <2>1, <2>2
<1>. QED BY <1>9, <1>10, <1>11, <1>12 DEF Lands, f

\* A copy to memory is recorded.
LEMMA CopyRecordedIs ==
    ASSUME NEW e, NEW w, Context(seq, e), NEW h, Good(h, seq, e, w), Recording(h), ~Gpu!Full(h),
           NEW k \in Spans, Free(h, k)
    PROVE  LET r == Gpu!CopyRecorded(h, k)
           IN /\ Good(r, seq + 1, With(e, k), w) /\ Recording(r) /\ Onward(h, r, w)
              /\ Tells(h) => Tells(r)
<1>. DEFINE to == h.used + 1
            c == Gpu!CopyOf(seq)
            op == [op |-> "image", at |-> to, want |-> c]
            bytes == [x \in k.span |-> IF x \in k.writes THEN seq + 1 ELSE h.ram[x]]
            l == [seq |-> seq, bytes |-> bytes, image |-> k.image]
            b == Gpu!Record(h, <<op>>)
            r == Gpu!CopyRecorded(h, k)
            cimg == [h.cimg EXCEPT ![h.cur] =
                        IF k.image THEN @ \cup {[content |-> c, at |-> to]} ELSE @]
            lands == [h.lands EXCEPT ![h.cur] = Append(@, l)]
<1>1. /\ h \in State /\ Kept(h) /\ Draws(h) /\ Lands(h, seq, e) /\ Screens(h, seq, w)
      /\ h.cur \in Gpu!Slots /\ ~h.inflight[h.cur] /\ seq \in Nat /\ e \in [Gpu!Cells -> Nat]
      /\ h.ram \in [Gpu!Cells -> Nat]
  BY DEF Good, State, Recording, Context
<1>2. to \in 1 .. HalfRoom /\ to \in 0 .. HalfRoom /\ h.used \in Nat
  <2>1. HalfRoom \in Nat /\ h.used \in 0 .. HalfRoom /\ h.used # HalfRoom
    BY <1>1, GpuAssumption DEF Gpu!Full, State
  <2>. QED BY <2>1
<1>3. /\ c \in Content /\ op \in Op /\ op.op = "image" /\ op.at = to /\ op.want = c
      /\ [content |-> c, at |-> to] \in Entry
  <2>1. c \in Content
    BY <1>1 DEF Content, Gpu!CopyOf
  <2>. HIDE DEF c
  <2>. QED BY <1>2, <2>1 DEF Op, Sampling, Entry
<1>4. /\ k.writes \subseteq k.span /\ k.span \subseteq Gpu!Cells /\ k.image \in BOOLEAN
  BY <1>1, WithIs
<1>5. l \in Landing /\ l.seq = seq /\ l.bytes = bytes /\ DOMAIN bytes = k.span /\ l.image = k.image
  <2>1. bytes \in [k.span -> Nat]
    BY <1>1, <1>4
  <2>2. bytes \in Bytes
    BY <1>4, <2>1 DEF Bytes
  <2>. HIDE DEF bytes
  <2>. QED BY <1>1, <1>4, <2>1, <2>2 DEF Landing
<1>6. /\ b \in State /\ Same(h, b, {"rec", "ops"})
      /\ b.rec[h.cur] /\ b.ops = [h.ops EXCEPT ![h.cur] = Append(@, op)]
  BY <1>1, <1>3, RecordIs
<1>7. cimg \in [Gpu!Slots -> SUBSET Entry] /\ lands \in [Gpu!Slots -> Seq(Landing)]
  <2>1. h.cimg \in [Gpu!Slots -> SUBSET Entry] /\ h.lands \in [Gpu!Slots -> Seq(Landing)]
    BY <1>1 DEF State
  <2>. DEFINE en == [content |-> c, at |-> to]
  <2>2. en \in Entry
    BY <1>3
  <2>. HIDE DEF en, l
  <2>3. cimg \in [Gpu!Slots -> SUBSET Entry]
    <3>. DEFINE set == IF k.image THEN h.cimg[h.cur] \cup {en} ELSE h.cimg[h.cur]
    <3>1. set \in SUBSET Entry
      BY <1>1, <2>1, <2>2
    <3>2. cimg = [h.cimg EXCEPT ![h.cur] = set]
      BY DEF en
    <3>. HIDE DEF set, cimg
    <3>. QED BY <1>1, <2>1, <3>1, <3>2
  <2>4. lands \in [Gpu!Slots -> Seq(Landing)]
    BY <1>1, <1>5, <2>1
  <2>. QED BY <2>3, <2>4
<1>8. r = [b EXCEPT !.used = to, !.cimg = cimg, !.lands = lands]
  <2>1. b.lands = h.lands /\ b.cimg = h.cimg
    BY <1>6 DEF Same, Fields
  <2>2. r = [b EXCEPT !.used = to,
                      !.cimg[h.cur] = IF k.image THEN @ \cup {[content |-> c, at |-> to]} ELSE @,
                      !.lands[h.cur] = Append(@, l)]
    BY DEF Gpu!CopyRecorded
  <2>. HIDE DEF b, r, l, c
  <2>. QED BY <1>6, <2>1, <2>2 DEF State
<1>. HIDE DEF b, r, l, bytes, cimg, lands, op, c
<1>9. /\ r \in State /\ Same(b, r, {"used", "cimg", "lands"})
      /\ r.used = to /\ r.cimg = cimg /\ r.lands = lands
  <2>. HIDE DEF to
  <2>. QED BY <1>2, <1>6, <1>7, <1>8 DEF State, Same, Fields
<1>10. /\ r.ops = [h.ops EXCEPT ![h.cur] = Append(@, op)] /\ r.rec[h.cur]
       /\ r.cur = h.cur /\ r.inflight = h.inflight /\ r.done = h.done
       /\ r.pool = h.pool /\ r.carried = h.carried
       /\ r.deliver = h.deliver /\ r.publish = h.publish /\ r.back = h.back
       /\ r.middle = h.middle /\ r.fresh = h.fresh /\ r.real = h.real /\ r.mid = h.mid
       /\ r.has = h.has /\ r.screen = h.screen /\ r.missed = h.missed /\ r.ram = h.ram
       /\ r.said = h.said /\ r.filled = h.filled /\ r.resident = h.resident
  BY <1>6, <1>9 DEF Same, Fields
<1>11. /\ \A t \in Gpu!Slots : t # h.cur => cimg[t] = h.cimg[t] /\ lands[t] = h.lands[t]
       /\ \A t \in Gpu!Slots : h.cimg[t] \subseteq cimg[t]
       /\ \A d \in cimg[h.cur] : d \in h.cimg[h.cur] \/ (d.content = c /\ d.at = to)
       /\ k.image => \E d \in cimg[h.cur] : d.content = c
       /\ lands[h.cur] = Append(h.lands[h.cur], l)
  <2>1. h.cimg \in [Gpu!Slots -> SUBSET Entry] /\ h.lands \in [Gpu!Slots -> Seq(Landing)]
    BY <1>1 DEF State
  <2>. DEFINE en == [content |-> c, at |-> to]
  <2>2. en.content = c /\ en.at = to
    OBVIOUS
  <2>. HIDE DEF en
  <2>3. cimg[h.cur] = IF k.image THEN h.cimg[h.cur] \cup {en} ELSE h.cimg[h.cur]
    BY <1>1, <2>1 DEF cimg, en
  <2>4. lands[h.cur] = Append(h.lands[h.cur], l)
    BY <1>1, <2>1 DEF lands
  <2>5. \A t \in Gpu!Slots : t # h.cur => cimg[t] = h.cimg[t] /\ lands[t] = h.lands[t]
    BY <1>1, <2>1 DEF lands, cimg
  <2>6. \A t \in Gpu!Slots : h.cimg[t] \subseteq cimg[t]
    BY <2>3, <2>5
  <2>7. \A d \in cimg[h.cur] : d \in h.cimg[h.cur] \/ (d.content = c /\ d.at = to)
    BY <2>2, <2>3
  <2>8. k.image => \E d \in cimg[h.cur] : d.content = c
    BY <2>2, <2>3
  <2>. QED BY <2>4, <2>5, <2>6, <2>7, <2>8
<1>12. Appends(h, r, op)
  BY <1>1, <1>3, <1>9, <1>10 DEF Appends
<1>13. Recorded(h, r, op)
  BY <1>3, <1>9, <1>10, <1>11, <1>12 DEF Recorded, Added, ToScreen
<1>14. Kept(r) /\ Recording(r) /\ Screens(r, seq, w) /\ Onward(h, r, w) /\ (Tells(h) => Tells(r))
  BY <1>1, <1>13, RecordedScreens
<1>15. Will(r, h.cur, to, c)
  <2>1. Untouched(h.ops[h.cur], to)
    <3>1. \A j \in DOMAIN h.ops[h.cur] : h.ops[h.cur][j].op \in {"image", "carry", "sample"} =>
             h.ops[h.cur][j].at \in Nat /\ h.ops[h.cur][j].at <= h.used
      BY <1>1, OpsAre, OpFields DEF Draws, Upto
    <3>. QED BY <1>2, <3>1 DEF Untouched, Writes
  <2>2. Writes(op, to) /\ Leaves(h, op, c)
    BY <1>3 DEF Writes, Leaves
  <2>. QED BY <1>1, <1>12, <2>1, <2>2, AppendWill
<1>16. Draws(r)
  <2>0. h.used <= r.used /\ to <= to
    BY <1>2, <1>9
  <2>1. \A d \in r.cimg[h.cur] : d \in h.cimg[h.cur]
              \/ (d.at <= r.used /\ Will(r, h.cur, d.at, d.content))
    BY <1>9, <1>11, <1>15, <2>0
  <2>2. \A i \in DOMAIN r.lands[h.cur] : r.lands[h.cur][i].image =>
              \/ i \in DOMAIN h.lands[h.cur] /\ r.lands[h.cur][i] = h.lands[h.cur][i]
              \/ \E d \in r.cimg[h.cur] : d.content = Gpu!CopyOf(r.lands[h.cur][i].seq)
    <3>1. ASSUME NEW i \in DOMAIN r.lands[h.cur]
          PROVE  \/ i \in DOMAIN h.lands[h.cur] /\ r.lands[h.cur][i] = h.lands[h.cur][i]
                 \/ r.lands[h.cur][i] = l
      <4>1. h.lands[h.cur] \in Seq(Landing)
        BY <1>1, LandsAre
      <4>. QED BY <1>5, <1>9, <1>11, <4>1
    <3>. QED BY <1>5, <1>9, <1>11, <3>1 DEF c
  <2>3. \A t \in Gpu!Slots : h.cimg[t] \subseteq r.cimg[t]
    BY <1>9, <1>11
  <2>. QED BY ZenonT(60), <1>1, <1>3, <1>9, <1>10, <1>11, <1>12, <2>0, <2>1, <2>2, <2>3, AppendDraws
<1>17. Lands(r, seq + 1, With(e, k))
  <2>1. \A x \in k.span : l.bytes[x] = IF x \in k.writes THEN seq + 1 ELSE h.ram[x]
    BY <1>5 DEF bytes
  <2>2. r.ram = h.ram /\ r.said = h.said
    BY <1>10
  <2>3. r.lands[h.cur] = Append(h.lands[h.cur], l)
    BY <1>9, <1>11
  <2>4. \A s \in Gpu!Slots : s # h.cur => r.lands[s] = h.lands[s]
    BY <1>9, <1>11
  <2>5. l.seq = seq /\ DOMAIN l.bytes = k.span
    BY <1>5
  <2>. QED BY SMTT(40), <1>1, <1>9, <2>1, <2>2, <2>3, <2>4, <2>5, AppendLands
<1>18. Screens(r, seq + 1, w)
  <2>1. PICK m \in Nat : m = seq + 1
    BY <1>1
  <2>2. seq <= m
    BY <1>1, <2>1
  <2>3. Screens(r, m, w)
    BY <1>1, <1>9, <1>14, <2>2, ScreensLater
  <2>. QED BY <2>1, <2>3
<1>. QED BY <1>9, <1>14, <1>16, <1>17, <1>18 DEF Good, r

\* And sent ahead.
LEMMA SendAheadIs ==
    ASSUME NEW n, NEW e, NEW w, Context(n, e), NEW h, Good(h, n, e, w), Recording(h),
           Paused(h, Gpu!NoPair, w)
    PROVE  LET r == Gpu!SendAhead(h)
           IN /\ Good(r, n, e, w) /\ Recording(r) /\ Paused(r, Gpu!NoPair, w)
              /\ Tells(h) => Tells(r)
<1>. DEFINE p == Gpu!Poll(h)
<1>1. /\ Good(p, n, e, w) /\ Follows(h, p, e) /\ Onward(h, p, w) /\ Recording(p)
  BY PollGood
<1>. HIDE DEF p
<1>2. Paused(p, Gpu!NoPair, w) /\ (Tells(h) => Tells(p))
  BY <1>1 DEF Onward, Follows
<1>3. /\ Good(Gpu!SubmitNext(p), n, e, w) /\ Recording(Gpu!SubmitNext(p))
      /\ Paused(Gpu!SubmitNext(p), Gpu!NoPair, w) /\ (Tells(p) => Tells(Gpu!SubmitNext(p)))
  BY <1>1, SubmitNextIs, NextPaused DEF Follows
<1>4. Gpu!SendAhead(h) \in {h, p, Gpu!SubmitNext(p)}
  BY DEF Gpu!SendAhead, p
<1>. QED BY <1>1, <1>2, <1>3, <1>4

-----------------------------------------------------------------------------
(* A copy to the screen.                                                    *)

\* The next command's number bounds what this one's did.
LEMMA LandsLater ==
    ASSUME NEW h \in State, NEW n \in Nat, NEW m \in Nat, n <= m, NEW e \in [Gpu!Cells -> Nat],
           Lands(h, n, e)
    PROVE  Lands(h, m, e)
<1>1. h.said <= m /\ \A c \in Gpu!Cells : e[c] <= m
  <2>1. h.said \in Nat
    BY DEF State
  <2>. QED BY <2>1 DEF Lands
<1>2. ASSUME NEW s \in Gpu!Slots, NEW i \in DOMAIN h.lands[s] PROVE Coming(h, m, e, h.lands[s][i])
  <2>1. Coming(h, n, e, h.lands[s][i]) /\ h.lands[s][i].seq \in Nat
    BY LandsAre DEF Lands
  <2>. QED BY <2>1 DEF Coming
<1>. QED BY <1>1, <1>2 DEF Lands

LEMMA GoodLater ==
    ASSUME NEW n, NEW e, NEW w, Context(n, e), NEW h, Good(h, n, e, w)
    PROVE  Good(h, n + 1, e, w)
<1>1. PICK m \in Nat : m = n + 1 /\ n <= m /\ n \in Nat
  BY DEF Context
<1>2. h \in State /\ Lands(h, n, e) /\ Screens(h, n, w) /\ e \in [Gpu!Cells -> Nat]
  BY DEF Good, Context
<1>3. Lands(h, m, e) /\ Screens(h, m, w)
  BY <1>1, <1>2, LandsLater, ScreensLater
<1>4. Good(h, m, e, w)
  BY <1>3 DEF Good
<1>. QED BY <1>1, <1>4

\* Before a picture is copied no other slot has one to hand over.
LEMMA HandOverIs ==
    ASSUME NEW n, NEW e, NEW w, Context(n, e), NEW h, Good(h, n, e, w), Recording(h), Tells(h)
    PROVE  LET r == Gpu!HandOver(h)
           IN /\ Good(r, n, e, w) /\ Follows(h, r, e) /\ Onward(h, r, w) /\ Recording(r)
              /\ \A t \in Gpu!Slots : t # r.cur => ~Shows(r, t)
<1>. DEFINE o == Gpu!Other(h)
            f == Gpu!Finish(h, o)
            hands == h.inflight[o] /\ (h.publish[o] \/ h.deliver[o] # {})
<1>0. h \in State /\ h.cur \in Gpu!Slots /\ o \in Gpu!Slots /\ Kept(h) /\ ~h.inflight[h.cur]
      /\ \A t \in Gpu!Slots : t # h.cur => t = o
  <2>1. h \in State
    BY DEF Good
  <2>. QED BY <2>1, OtherIs DEF Good, State, Recording
<1>1. CASE hands
  <2>1. Gpu!HandOver(h) = f
    BY <1>1 DEF Gpu!HandOver
  <2>2. /\ Good(f, n, e, w) /\ Follows(h, f, e) /\ Onward(h, f, w)
        /\ \A t \in Gpu!Slots : t # h.cur => Clean(f, t) /\ ~f.inflight[t]
        /\ BesideIt(h, f) /\ ~f.inflight[h.cur]
    BY <1>0, FinishOther
  <2>. HIDE DEF f
  <2>3. Recording(f) /\ f.cur = h.cur
    BY <2>2, BesideRecording DEF BesideIt
  <2>4. \A t \in Gpu!Slots : t # f.cur => ~Shows(f, t)
    BY <2>2, <2>3 DEF Shows, Clean, Pictures
  <2>. QED BY <2>1, <2>2, <2>3, <2>4
<1>2. CASE ~hands
  <2>1. Gpu!HandOver(h) = h
    BY <1>2 DEF Gpu!HandOver
  <2>2. Follows(h, h, e) /\ Onward(h, h, w)
    BY DEF Follows, Onward
  <2>3. ASSUME NEW t \in Gpu!Slots, t # h.cur PROVE ~Shows(h, t)
    <3>1. t = o
      BY <1>0, <2>3
    <3>2. CASE h.inflight[o]
      BY <1>2, <3>1, <3>2 DEF Shows, Tells
    <3>3. CASE ~h.inflight[o]
      BY <1>0, <2>3, <3>1, <3>3 DEF Shows, Kept, Clean, Pictures
    <3>. QED BY <3>2, <3>3
  <2>. QED BY <2>1, <2>2, <2>3
<1>. QED BY <1>1, <1>2

\* A copy to the screen is recorded: its picture is the frame's, and the other as it was.
LEMMA PictureIs ==
    ASSUME NEW n, NEW e, NEW w, Context(n, e), NEW h, Good(h, n, e, w), Recording(h),
           NEW o \in Picturing, o.slot = h.back, o.frame <= n,
           \A s \in Gpu!Slots : ~h.publish[s] /\ (Shows(h, s) => s = h.cur),
           \A j \in DOMAIN h.ops[h.cur] : h.ops[h.cur][j].op # o.op,
           o.op = "real" => h.deliver[h.cur] = {}
    PROVE  LET k == Gpu!Record(h, <<o>>)
           IN /\ Good(k, n, e, w) /\ Recording(k) /\ (Told(h, e) => Told(k, e))
              /\ \A x : Known(h, x) => Known(k, x)
              /\ k.cur = h.cur /\ Steady(k, h.back) /\ k.has = h.has /\ k.deliver = h.deliver
              /\ k.rec[k.cur]
              /\ Newer(h, w, o.frame) => Ahead(k, w, o.op, o.frame)
              /\ \A op \in {"real", "mid"} : \A f :
                    op # o.op /\ Ahead(h, w, op, f) => Ahead(k, w, op, f)
              /\ (/\ o.op # "mid"
                  /\ \A s \in Gpu!Slots : \A j \in DOMAIN h.ops[s] : h.ops[s][j].op # "mid")
                    => \A s \in Gpu!Slots : \A j \in DOMAIN k.ops[s] : k.ops[s][j].op # "mid"
<1>. DEFINE k == Gpu!Record(h, <<o>>)
<1>1. /\ h \in State /\ Kept(h) /\ Draws(h) /\ Lands(h, n, e) /\ Screens(h, n, w)
      /\ h.cur \in Gpu!Slots /\ ~h.inflight[h.cur] /\ n \in Nat /\ HalfRoom \in Nat
      /\ h.used \in Nat
  <2>1. HalfRoom \in Nat /\ h.used \in 0 .. HalfRoom
    BY GpuAssumption DEF Good, State
  <2>. QED BY SMTT(40), <2>1 DEF Good, State, Recording, Context
<1>2. o \in Op /\ o.op \in {"real", "mid"} /\ o.frame \in Nat
  BY DEF Op, Picturing
<1>3. /\ k \in State /\ Same(h, k, {"rec", "ops"})
      /\ k.rec[h.cur] /\ k.ops = [h.ops EXCEPT ![h.cur] = Append(@, o)]
  BY <1>1, <1>2, RecordIs
<1>. HIDE DEF k
<1>4. /\ k.cur = h.cur /\ k.inflight = h.inflight /\ k.done = h.done
      /\ k.lands = h.lands /\ k.pool = h.pool /\ k.carried = h.carried /\ k.cimg = h.cimg
      /\ k.deliver = h.deliver /\ k.publish = h.publish /\ k.back = h.back /\ k.used = h.used
      /\ k.middle = h.middle /\ k.fresh = h.fresh /\ k.real = h.real /\ k.mid = h.mid
      /\ k.has = h.has /\ k.screen = h.screen /\ k.missed = h.missed /\ k.ram = h.ram
      /\ k.said = h.said /\ k.filled = h.filled /\ k.resident = h.resident
  BY <1>3 DEF Same, Fields
<1>5. Appends(h, k, o)
  BY <1>1, <1>2, <1>3, <1>4 DEF Appends
<1>6. Kept(k) /\ Recording(k)
  <2>1. Added(h, k, o)
    BY <1>3, <1>4, <1>5 DEF Added
  <2>. QED BY <1>1, <2>1, AddedKept
<1>7. Draws(k)
  BY <1>1, <1>2, <1>4, <1>5, AppendDraws
<1>8. Lands(k, n, e) /\ (Told(h, e) => Told(k, e)) /\ \A x : Known(h, x) => Known(k, x)
  BY <1>1, <1>4, LandsFrame
<1>9. PICK m \in Nat \ {0} :
         /\ DOMAIN h.ops[h.cur] = 1 .. m - 1 /\ DOMAIN k.ops[h.cur] = 1 .. m
         /\ k.ops[h.cur][m] = o
         /\ \A j \in 1 .. m - 1 : k.ops[h.cur][j] = h.ops[h.cur][j]
  <2>1. \A a, b, c : Appends(a, b, c) =>
           \E m \in Nat \ {0} :
                 /\ DOMAIN a.ops[a.cur] = 1 .. m - 1 /\ DOMAIN b.ops[a.cur] = 1 .. m
                 /\ b.ops[a.cur][m] = c
                 /\ \A j \in 1 .. m - 1 : b.ops[a.cur][j] = a.ops[a.cur][j]
    BY AppendOps
  <2>. QED BY <1>5, <2>1
<1>10. \A t \in Gpu!Slots : t # h.cur => k.ops[t] = h.ops[t]
  BY <1>1, <1>3 DEF State
<1>11. /\ \A j \in DOMAIN k.ops[h.cur] : k.ops[h.cur][j] = o
             \/ (j \in DOMAIN h.ops[h.cur] /\ k.ops[h.cur][j] = h.ops[h.cur][j])
       /\ \A j \in DOMAIN h.ops[h.cur] : j \in DOMAIN k.ops[h.cur]
                                         /\ k.ops[h.cur][j] = h.ops[h.cur][j]
       /\ m \in DOMAIN k.ops[h.cur]
  <2>1. \A j \in 1 .. m : j \in 1 .. m - 1 \/ j = m
    BY <1>9
  <2>2. m \in 1 .. m /\ \A j \in 1 .. m - 1 : j \in 1 .. m
    BY <1>9
  <2>. QED BY <1>9, <2>1, <2>2
<1>12. WillShow(k, h.cur, o.op, o.frame)
  <2>1. \A j \in DOMAIN k.ops[h.cur] : k.ops[h.cur][j].op = o.op => k.ops[h.cur][j] = o
    BY <1>11
  <2>. QED BY <1>9, <1>11, <2>1 DEF WillShow
<1>13. \A op \in {"real", "mid"} : \A f : op # o.op /\ WillShow(h, h.cur, op, f)
                                             => WillShow(k, h.cur, op, f)
  <2>. TAKE op \in {"real", "mid"}
  <2>. TAKE f
  <2>. HAVE op # o.op /\ WillShow(h, h.cur, op, f)
  <2>1. \A j \in DOMAIN k.ops[h.cur] : k.ops[h.cur][j].op = op => k.ops[h.cur][j].frame = f
    BY <1>11 DEF WillShow
  <2>2. (\A j \in DOMAIN k.ops[h.cur] : k.ops[h.cur][j].op # op)
           => (\A j \in DOMAIN h.ops[h.cur] : h.ops[h.cur][j].op # op)
    BY <1>11
  <2>3. k.back = h.back /\ k[op] = h[op]
    BY <1>4
  <2>. QED BY <2>1, <2>2, <2>3 DEF WillShow
<1>14. \A t \in Gpu!Slots : ~k.publish[t] /\ (Shows(k, t) => t = k.cur)
  BY <1>4, <1>10 DEF Shows, Pictures
<1>15. \A f : Newer(h, w, f) <=> Newer(k, w, f)
  BY <1>4 DEF Newer
<1>16. Screens(k, n, w)
  <2>1. Whole(k, n, w)
    BY <1>1, <1>4 DEF Screens, Whole
  <2>2. ASSUME NEW s \in Gpu!Slots PROVE Showing(k, s, n, w)
    <3>0. Showing(h, s, n, w) /\ ~k.publish[s]
      BY <1>1, <1>14 DEF Screens
    <3>1. CASE s # h.cur
      <4>1. ~Shows(k, s)
        BY <1>4, <1>14, <3>1
      <4>. QED BY <4>1 DEF Shows, Pictures, Showing
    <3>2. CASE s = h.cur
      <4>1. \A j \in DOMAIN k.ops[s] : ToScreen(k.ops[s][j]) =>
               k.ops[s][j].slot = k.back /\ k.ops[s][j].frame <= n
        BY <1>4, <1>11, <3>0, <3>2 DEF Showing
      <4>2. \A d \in k.deliver[s] : d.slot = k.back /\ WillShow(k, s, "real", d.frame)
        <5>1. CASE o.op = "real"
          BY <1>4, <3>2, <5>1
        <5>2. CASE o.op = "mid"
          BY <1>4, <1>13, <3>0, <3>2, <5>2 DEF Showing
        <5>. QED BY <1>2, <5>1, <5>2
      <4>. QED BY <3>0, <4>1, <4>2 DEF Showing
    <3>. QED BY <3>1, <3>2
  <2>. QED BY <1>14, <2>1, <2>2 DEF Screens
<1>17. Steady(k, h.back)
  BY <1>4, <1>14 DEF Steady
<1>18. Newer(h, w, o.frame) => Ahead(k, w, o.op, o.frame)
  BY <1>4, <1>12, <1>14, <1>15 DEF Ahead
<1>19. ASSUME NEW op \in {"real", "mid"}, NEW f, op # o.op, Ahead(h, w, op, f)
       PROVE  Ahead(k, w, op, f)
  BY <1>4, <1>13, <1>14, <1>15, <1>19 DEF Ahead
<1>20. (o.op # "mid" /\ \A s \in Gpu!Slots : \A j \in DOMAIN h.ops[s] : h.ops[s][j].op # "mid")
          => \A s \in Gpu!Slots : \A j \in DOMAIN k.ops[s] : k.ops[s][j].op # "mid"
  BY <1>10, <1>11
<1>21. Good(k, n, e, w)
  BY <1>3, <1>6, <1>7, <1>8, <1>16 DEF Good
<1>. QED BY <1>3, <1>4, <1>6, <1>8, <1>17, <1>18, <1>19, <1>20, <1>21 DEF k

\* Fields set alone.
LEMMA SetScreen ==
    ASSUME NEW h \in State, NEW c \in [is : Nat, due : Nat]
    PROVE  LET k == [h EXCEPT !.screen = c]
           IN k \in State /\ Same(h, k, {"screen"}) /\ k.screen = c
BY DEF State, Same, Fields

LEMMA SetDeliver ==
    ASSUME NEW h \in State, NEW d \in [Gpu!Slots -> SUBSET Screen]
    PROVE  LET k == [h EXCEPT !.deliver = d]
           IN k \in State /\ Same(h, k, {"deliver"}) /\ k.deliver = d
BY DEF State, Same, Fields

LEMMA SetPublish ==
    ASSUME NEW h \in State, NEW p \in [Gpu!Slots -> BOOLEAN]
    PROVE  LET k == [h EXCEPT !.publish = p]
           IN k \in State /\ Same(h, k, {"publish"}) /\ k.publish = p
BY DEF State, Same, Fields

LEMMA SetHas ==
    ASSUME NEW h \in State, NEW b \in [0 .. 2 -> BOOLEAN]
    PROVE  LET k == [h EXCEPT !.has = b]
           IN k \in State /\ Same(h, k, {"has"}) /\ k.has = b
BY DEF State, Same, Fields

\* A frame is the renderer's, with nothing in flight.
LEMMA TakenIs ==
    ASSUME NEW n, NEW e, NEW w, NEW h, Good(h, n, e, w), Recording(h),
           \A t \in Gpu!Slots : Clean(h, t), NEW k \in State, Same(h, k, {"screen", "has"}),
           k.screen.is = k.screen.due, \A t \in 0 .. 2 : t # h.back => k.has[t] = h.has[t]
    PROVE  /\ Good(k, n, e, w) /\ Recording(k) /\ Tells(k) /\ \A t \in Gpu!Slots : Clean(k, t)
           /\ k.back = h.back /\ k.real = h.real /\ k.mid = h.mid
           /\ \A op \in {"real", "mid"} : \A f : Ahead(h, w, op, f) => Ahead(k, w, op, f)
<1>1. /\ k.cur = h.cur /\ k.inflight = h.inflight /\ k.done = h.done /\ k.rec = h.rec
      /\ k.ops = h.ops /\ k.used = h.used
      /\ k.lands = h.lands /\ k.pool = h.pool /\ k.carried = h.carried /\ k.cimg = h.cimg
      /\ k.deliver = h.deliver /\ k.publish = h.publish /\ k.back = h.back
      /\ k.middle = h.middle /\ k.fresh = h.fresh /\ k.real = h.real /\ k.mid = h.mid
      /\ k.missed = h.missed /\ k.ram = h.ram /\ k.said = h.said
      /\ k.filled = h.filled /\ k.resident = h.resident
  BY DEF Same, Fields
<1>2. Kept(k) /\ Lands(k, n, e) /\ Draws(k)
  BY <1>1, KeptFrame, DrawsFrame, LandsFrame DEF Good
<1>3. Recording(k) /\ \A t \in Gpu!Slots : Clean(k, t)
  BY <1>1 DEF Recording, Clean
<1>4. \A t \in Gpu!Slots : ~Shows(k, t)
  BY <1>3 DEF Shows, Clean, Pictures
<1>5. Tells(k)
  BY <1>4 DEF Tells, Shows
<1>6. Screens(k, n, w)
  <2>0. h \in State /\ Screens(h, n, w)
    BY DEF Good
  <2>1. Whole(k, n, w)
    BY <1>1, <2>0, StateScreens DEF Screens, Whole
  <2>2. \A s \in Gpu!Slots : Showing(k, s, n, w)
    BY <1>4 DEF Showing, Shows, Pictures
  <2>. QED BY <1>4, <2>1, <2>2 DEF Screens
<1>7. ASSUME NEW op \in {"real", "mid"}, NEW f, Ahead(h, w, op, f) PROVE Ahead(k, w, op, f)
  <2>1. WillShow(k, k.cur, op, f)
    BY <1>1, <1>7 DEF Ahead, WillShow
  <2>2. Newer(k, w, f)
    BY <1>1, <1>7 DEF Ahead, Newer
  <2>. QED BY <1>3, <1>4, <2>1, <2>2 DEF Ahead, Clean
<1>. QED BY <1>1, <1>2, <1>3, <1>5, <1>6, <1>7 DEF Good

\* The renderer's frame is published, newer than those before it.
LEMMA PublishIs ==
    ASSUME NEW n, NEW e, NEW w, NEW h, Good(h, n, e, w), Recording(h),
           \A t \in Gpu!Slots : Clean(h, t), Newer(h, w, h.real[h.back]),
           h.has[h.back] => h.mid[h.back] = h.real[h.back]
    PROVE  LET k == Gpu!PublishScreen(h)
           IN Good(k, n, e, w) /\ Recording(k) /\ Tells(k) /\ Paused(k, Gpu!NoPair, w)
<1>. DEFINE k == Gpu!PublishScreen(h)
<1>0. h \in State /\ Screens(h, n, w) /\ Kept(h) /\ Lands(h, n, e) /\ Draws(h)
  BY DEF Good
<1>1. /\ k \in State /\ Same(h, k, {"back", "middle", "fresh"})
      /\ k.back = h.middle /\ k.middle = h.back /\ k.fresh
  BY <1>0, PublishScreenIs
<1>. HIDE DEF k
<1>2. /\ k.cur = h.cur /\ k.inflight = h.inflight /\ k.done = h.done /\ k.rec = h.rec
      /\ k.ops = h.ops /\ k.used = h.used
      /\ k.lands = h.lands /\ k.pool = h.pool /\ k.carried = h.carried /\ k.cimg = h.cimg
      /\ k.deliver = h.deliver /\ k.publish = h.publish /\ k.has = h.has
      /\ k.real = h.real /\ k.mid = h.mid /\ k.screen = h.screen
      /\ k.missed = h.missed /\ k.ram = h.ram /\ k.said = h.said
      /\ k.filled = h.filled /\ k.resident = h.resident
  BY <1>1 DEF Same, Fields
<1>3. Kept(k) /\ Lands(k, n, e) /\ Draws(k)
  BY <1>0, <1>2, KeptFrame, DrawsFrame, LandsFrame
<1>4. Recording(k) /\ \A t \in Gpu!Slots : Clean(k, t)
  BY <1>2 DEF Recording, Clean
<1>5. \A t \in Gpu!Slots : ~Shows(k, t)
  BY <1>4 DEF Shows, Clean, Pictures
<1>6. Screens(k, n, w)
  <2>1. Whole(k, n, w)
    BY <1>0, <1>1, <1>2 DEF Screens, Whole, Newer
  <2>2. \A s \in Gpu!Slots : Showing(k, s, n, w)
    BY <1>5 DEF Showing, Shows, Pictures
  <2>. QED BY <1>5, <2>1, <2>2 DEF Screens
<1>7. k.cur \in Gpu!Slots
  BY <1>1, StateScreens
<1>8. Tells(k) /\ Paused(k, Gpu!NoPair, w)
  BY <1>5, <1>7 DEF Tells, Paused, Shows
<1>. QED BY <1>1, <1>3, <1>4, <1>6, <1>8 DEF Good, k

\* What the slot being recorded is to hand over when it is finished.
LEMMA HandsOver ==
    ASSUME NEW n \in Nat, NEW e, NEW w, NEW h, Good(h, n, e, w), Recording(h), h.rec[h.cur],
           NEW f \in 0 .. n, Ahead(h, w, "real", f),
           NEW k \in State, Same(h, k, {"deliver", "publish", "has"}),
           \A t \in Gpu!Slots : t # h.cur => k.deliver[t] = h.deliver[t] /\ ~k.publish[t],
           \A d \in k.deliver[h.cur] : d.slot = h.back /\ WillShow(h, h.cur, "real", d.frame),
           k.publish[h.cur] /\ k.has[h.back] => WillShow(h, h.cur, "mid", f),
           \A t \in 0 .. 2 : t # h.back => k.has[t] = h.has[t]
    PROVE  /\ Good(k, n, e, w) /\ Recording(k) /\ k.rec[k.cur] /\ k.cur = h.cur
           /\ k.deliver[h.cur] # {} \/ k.publish[h.cur] => Tells(k)
           /\ ~k.publish[h.cur] =>
                 \A op \in {"real", "mid"} : \A x : Ahead(h, w, op, x) => Ahead(k, w, op, x)
<1>0. h \in State /\ Screens(h, n, w) /\ Kept(h) /\ Lands(h, n, e) /\ Draws(h)
  BY DEF Good
<1>1. /\ k.cur = h.cur /\ k.inflight = h.inflight /\ k.done = h.done /\ k.rec = h.rec
      /\ k.ops = h.ops /\ k.used = h.used
      /\ k.lands = h.lands /\ k.pool = h.pool /\ k.carried = h.carried /\ k.cimg = h.cimg
      /\ k.screen = h.screen /\ k.back = h.back
      /\ k.middle = h.middle /\ k.fresh = h.fresh /\ k.real = h.real /\ k.mid = h.mid
      /\ k.missed = h.missed /\ k.ram = h.ram /\ k.said = h.said
      /\ k.filled = h.filled /\ k.resident = h.resident
  BY DEF Same, Fields
<1>2. Lands(k, n, e) /\ Draws(k)
  BY <1>0, <1>1, DrawsFrame, LandsFrame
<1>3. Recording(k) /\ k.rec[k.cur]
  BY <1>1 DEF Recording
<1>4. Kept(k)
  <2>1. ASSUME NEW s \in Gpu!Slots, s # k.cur, ~k.inflight[s] PROVE Clean(k, s)
    BY <1>0, <1>1, <2>1 DEF Kept, Clean
  <2>. QED BY <1>0, <1>1, <2>1 DEF Kept, Paired
<1>5. \A s \in Gpu!Slots : (Pictures(k, s) <=> Pictures(h, s)) /\ (Shows(h, s) => s = h.cur)
  BY <1>1 DEF Pictures, Ahead
<1>6. \A s \in Gpu!Slots : Shows(k, s) => s = k.cur
  BY <1>1, <1>5 DEF Shows
<1>7. \A op \in {"real", "mid"} : \A x : WillShow(k, k.cur, op, x) <=> WillShow(h, h.cur, op, x)
  <2>. TAKE op \in {"real", "mid"}
  <2>1. k[op] = h[op] /\ k.back = h.back /\ k.ops = h.ops /\ k.cur = h.cur
    BY <1>1
  <2>. QED BY <2>1 DEF WillShow
<1>8. \A x : Newer(k, w, x) <=> Newer(h, w, x)
  BY <1>1 DEF Newer
<1>9. Screens(k, n, w)
  <2>1. Whole(k, n, w)
    BY <1>0, <1>1, StateScreens DEF Screens, Whole
  <2>2. ASSUME NEW s \in Gpu!Slots PROVE Showing(k, s, n, w)
    <3>1. CASE s # h.cur
      <4>1. ~Shows(k, s)
        BY <1>1, <1>6, <3>1
      <4>. QED BY <4>1 DEF Shows, Pictures, Showing
    <3>2. CASE s = h.cur
      <4>1. \A j \in DOMAIN k.ops[s] : ToScreen(k.ops[s][j]) =>
               k.ops[s][j].slot = k.back /\ k.ops[s][j].frame <= n
        BY <1>0, <1>1 DEF Screens, Showing
      <4>2. \A d \in k.deliver[s] : d.slot = k.back /\ WillShow(k, s, "real", d.frame)
        BY <1>1, <1>7, <3>2
      <4>3. k.publish[s] => /\ Newer(k, w, f) /\ WillShow(k, s, "real", f)
                            /\ k.has[k.back] => WillShow(k, s, "mid", f)
        BY <1>1, <1>7, <1>8, <3>2 DEF Ahead
      <4>. QED BY <4>1, <4>2, <4>3 DEF Showing
    <3>. QED BY <3>1, <3>2
  <2>. QED BY <1>6, <2>1, <2>2 DEF Screens
<1>10. k.deliver[h.cur] # {} \/ k.publish[h.cur] => Tells(k)
  BY <1>5 DEF Tells, Shows
<1>11. ASSUME ~k.publish[h.cur], NEW op \in {"real", "mid"}, NEW x, Ahead(h, w, op, x)
       PROVE  Ahead(k, w, op, x)
  <2>1. WillShow(k, k.cur, op, x) /\ Newer(k, w, x)
    BY <1>7, <1>8, <1>11 DEF Ahead
  <2>2. \A s \in Gpu!Slots : ~k.publish[s]
    BY <1>11
  <2>. QED BY <1>6, <2>1, <2>2 DEF Ahead
<1>. QED BY <1>1, <1>2, <1>3, <1>4, <1>9, <1>10, <1>11 DEF Good

\* screen_end, of a frame read later.
LEMMA EndIs ==
    ASSUME NEW n, NEW e, NEW w, Context(n, e), NEW h, Good(h, n, e, w), Recording(h),
           h.rec[h.cur], NEW f \in 0 .. n, Ahead(h, w, "real", f),
           h.has[h.back] => WillShow(h, h.cur, "mid", f)
    PROVE  LET k == Gpu!ScreenEnd(h, FALSE)
           IN Good(k, n, e, w) /\ Recording(k) /\ Tells(k) /\ Paused(k, Gpu!NoPair, w)
<1>. DEFINE p == [h EXCEPT !.publish[h.cur] = TRUE]
            pub == [h.publish EXCEPT ![h.cur] = TRUE]
<1>0. h \in State /\ h.cur \in Gpu!Slots /\ n \in Nat /\ h.publish \in [Gpu!Slots -> BOOLEAN]
      /\ h.deliver \in [Gpu!Slots -> SUBSET Screen] /\ h.screen \in [is : Nat, due : Nat]
      /\ h.has \in [0 .. 2 -> BOOLEAN] /\ Screens(h, n, w)
  BY DEF Good, State, Context
<1>1. pub \in [Gpu!Slots -> BOOLEAN] /\ p = [h EXCEPT !.publish = pub] /\ pub[h.cur]
      /\ \A t \in Gpu!Slots : t # h.cur => pub[t] = h.publish[t]
  BY <1>0 DEF State
<1>2. p \in State /\ Same(h, p, {"publish"}) /\ p.publish = pub
  <2>. HIDE DEF pub, p
  <2>. QED BY <1>0, <1>1, SetPublish
<1>. HIDE DEF p, pub
<1>3. p.deliver = h.deliver /\ p.has = h.has /\ Same(h, p, {"deliver", "publish", "has"})
  BY <1>2 DEF Same, Fields
<1>4. \A d \in h.deliver[h.cur] : d.slot = h.back /\ WillShow(h, h.cur, "real", d.frame)
  BY <1>0 DEF Screens, Showing
<1>5. \A t \in Gpu!Slots : t # h.cur => ~h.publish[t]
  BY DEF Ahead
<1>6. Good(p, n, e, w) /\ Recording(p) /\ Tells(p)
  <2>1. /\ \A t \in Gpu!Slots : t # h.cur => p.deliver[t] = h.deliver[t] /\ ~p.publish[t]
        /\ \A d \in p.deliver[h.cur] : d.slot = h.back /\ WillShow(h, h.cur, "real", d.frame)
        /\ p.publish[h.cur] /\ p.has[h.back] => WillShow(h, h.cur, "mid", f)
        /\ \A t \in 0 .. 2 : t # h.back => p.has[t] = h.has[t]
    BY <1>1, <1>2, <1>3, <1>4, <1>5
  <2>2. p.deliver[h.cur] # {} \/ p.publish[h.cur]
    BY <1>1, <1>2
  <2>. QED BY <1>0, <1>2, <1>3, <2>1, <2>2, HandsOver
<1>7. LET k == Gpu!SubmitNext(p)
      IN Good(k, n, e, w) /\ Recording(k) /\ Tells(k) /\ Paused(k, Gpu!NoPair, w)
  BY <1>6, SubmitNextIs, NextPaused DEF Follows
<1>. QED BY <1>7 DEF Gpu!ScreenEnd, p

\* The screens' pictures before a command of the next frame.
LEMMA BeforeIs ==
    ASSUME NEW n, NEW e, NEW w, Context(n, e), NEW g0, Good(g0, n, e, w), Recording(g0), Tells(g0)
    PROVE  LET h == Gpu!HandOver(Gpu!Poll(g0))
           IN /\ Good(h, n, e, w) /\ Recording(h) /\ Onward(g0, h, w)
              /\ \A t \in Gpu!Slots : t # h.cur => ~Shows(h, t)
<1>. DEFINE p == Gpu!Poll(g0)
            h == Gpu!HandOver(p)
<1>1. Good(p, n, e, w) /\ Follows(g0, p, e) /\ Onward(g0, p, w) /\ Recording(p)
  BY PollGood
<1>. HIDE DEF p
<1>2. Tells(p)
  BY <1>1 DEF Follows
<1>3. /\ Good(h, n, e, w) /\ Follows(p, h, e) /\ Onward(p, h, w) /\ Recording(h)
      /\ \A t \in Gpu!Slots : t # h.cur => ~Shows(h, t)
  BY <1>1, <1>2, HandOverIs
<1>. QED BY <1>1, <1>3, FollowsOn DEF p

\* copy_screen, of the real picture.
LEMMA CopyRealIs ==
    ASSUME NEW e, NEW w, Context(seq, e), NEW g0, Good(g0, seq, e, w), Recording(g0), Tells(g0),
           Paused(g0, Gpu!NoPair, w), NEW ends \in BOOLEAN, NEW sync \in BOOLEAN
    PROVE  LET h == Gpu!HandOver(Gpu!Poll(g0))
               frame == seq + 1
               pictured == Gpu!Record(h, <<[op |-> "real", slot |-> h.back, frame |-> frame]>>)
               read == Gpu!SubmitWait(pictured)
               taken == IF sync THEN [read EXCEPT !.screen = [is |-> read.real[h.back],
                                                              due |-> frame]]
                        ELSE [pictured EXCEPT !.deliver[h.cur] =
                                {[slot |-> h.back, frame |-> frame]}]
               made == [taken EXCEPT !.has[h.back] = FALSE]
               r == IF ends THEN Gpu!ScreenEnd(made, sync) ELSE made
           IN /\ Good(r, seq + 1, e, w) /\ Recording(r) /\ Tells(r)
              /\ Paused(r, IF ends THEN Gpu!NoPair ELSE [frame |-> frame, sync |-> sync], w)
<1>. DEFINE h == Gpu!HandOver(Gpu!Poll(g0))
            frame == seq + 1
            op == [op |-> "real", slot |-> h.back, frame |-> frame]
            pictured == Gpu!Record(h, <<op>>)
            read == Gpu!SubmitWait(pictured)
            screen == [is |-> read.real[h.back], due |-> frame]
            shown == {[slot |-> h.back, frame |-> frame]}
            p == [frame |-> frame, sync |-> sync]
<1>1. /\ Good(h, seq, e, w) /\ Recording(h) /\ Onward(g0, h, w)
      /\ \A t \in Gpu!Slots : t # h.cur => ~Shows(h, t)
  BY BeforeIs
<1>. HIDE DEF h
<1>2. /\ h \in State /\ h.back \in 0 .. 2 /\ h.cur \in Gpu!Slots /\ seq \in Nat /\ frame \in Nat
      /\ frame \in 0 .. frame /\ Screens(h, seq, w)
  <2>1. h \in State /\ seq \in Nat
    BY <1>1 DEF Good, Context
  <2>. QED BY <1>1, <2>1, StateScreens DEF Good
<1>3. \A t \in Gpu!Slots : ~Shows(h, t)
  BY <1>1 DEF Onward, Paused
<1>4. Good(h, frame, e, w) /\ Context(frame, e)
  <2>1. Good(h, frame, e, w)
    BY <1>1, GoodLater
  <2>. QED BY <1>2, <2>1 DEF Context
<1>5. Newer(h, w, frame)
  <2>1. Whole(h, seq, w) /\ w \in 0 .. 2 /\ h.middle \in 0 .. 2
    BY <1>2, StateScreens DEF Screens, Whole
  <2>2. h.real[w] \in Nat /\ h.real[w] <= seq /\ h.real[h.middle] \in Nat /\ h.real[h.middle] <= seq
    BY <1>2, <2>1, StateScreens DEF Whole
  <2>. QED BY <1>2, <2>2 DEF Newer
<1>6. /\ op \in Picturing /\ op.op = "real" /\ op.slot = h.back /\ op.frame = frame
  BY <1>2 DEF Picturing
<1>7. /\ Good(pictured, frame, e, w) /\ Recording(pictured) /\ pictured.rec[pictured.cur]
      /\ pictured.cur = h.cur /\ Steady(pictured, h.back) /\ pictured.has = h.has
      /\ pictured.deliver = h.deliver /\ Ahead(pictured, w, "real", frame)
      /\ \A s \in Gpu!Slots : \A j \in DOMAIN pictured.ops[s] : pictured.ops[s][j].op # "mid"
  <2>. HIDE DEF op
  <2>1. /\ \A s \in Gpu!Slots : \A j \in DOMAIN h.ops[s] : h.ops[s][j].op \notin {"real", "mid"}
        /\ \A s \in Gpu!Slots : ~h.publish[s] /\ h.deliver[s] = {}
    BY <1>3 DEF Shows, Pictures, ToScreen
  <2>2. frame <= frame /\ h.deliver[h.cur] = {}
        /\ \A j \in DOMAIN h.ops[h.cur] : h.ops[h.cur][j].op # op.op
    BY <1>2, <1>6, <2>1
  <2>3. \A s \in Gpu!Slots : ~h.publish[s] /\ (Shows(h, s) => s = h.cur)
    BY <1>3, <2>1
  <2>4. \A s \in Gpu!Slots : \A j \in DOMAIN h.ops[s] : h.ops[s][j].op # "mid"
    BY <2>1
  <2>5. op.op # "mid"
    BY <1>6
  <2>. HIDE DEF frame, pictured
  <2>6. LET k == pictured
        IN /\ Good(k, frame, e, w) /\ Recording(k)
           /\ k.cur = h.cur /\ Steady(k, h.back) /\ k.has = h.has /\ k.deliver = h.deliver
           /\ k.rec[k.cur]
           /\ Newer(h, w, op.frame) => Ahead(k, w, op.op, op.frame)
           /\ \A s \in Gpu!Slots : \A j \in DOMAIN k.ops[s] : k.ops[s][j].op # "mid"
    BY <1>1, <1>4, <1>6, <2>2, <2>3, <2>4, <2>5, Recording(h), PictureIs DEF pictured
  <2>. QED BY <1>5, <1>6, <2>6
<1>. HIDE DEF pictured, op
<1>8. pictured \in State /\ pictured.back = h.back
  BY <1>7 DEF Good, Steady
<1>9. CASE sync
  <2>1. /\ Good(read, frame, e, w) /\ Onward(pictured, read, w) /\ Recording(read)
        /\ \A t \in Gpu!Slots : Clean(read, t) /\ read.has = h.has
    BY <1>4, <1>7, SubmitWaitIs
  <2>. DEFINE taken == [read EXCEPT !.screen = screen]
              has == [read.has EXCEPT ![h.back] = FALSE]
              made == [taken EXCEPT !.has[h.back] = FALSE]
  <2>. HIDE DEF read
  <2>2. /\ read \in State /\ Ahead(read, w, "real", frame) /\ read.back = h.back
        /\ read.cur \in Gpu!Slots
    BY <1>7, <2>1, StateScreens DEF Good, Onward, Steady
  <2>3. read.real[h.back] = frame /\ frame \in Nat
    <3>1. read.ops[read.cur] = <<>>
      BY <2>1, <2>2 DEF Clean
    <3>2. WillShow(read, read.cur, "real", frame)
      BY <2>2 DEF Ahead
    <3>. QED BY <1>2, <2>2, <3>1, <3>2 DEF WillShow
  <2>. HIDE DEF frame
  <2>4. screen \in [is : Nat, due : Nat] /\ screen.is = screen.due
    BY <2>3
  <2>. HIDE DEF screen
  <2>5. read.has \in [0 .. 2 -> BOOLEAN] /\ read.deliver \in [Gpu!Slots -> SUBSET Screen]
        /\ read.publish \in [Gpu!Slots -> BOOLEAN]
    BY <2>2 DEF State
  <2>6. taken \in State /\ Same(read, taken, {"screen"}) /\ taken.screen = screen
    BY <2>2, <2>4, SetScreen
  <2>7. taken.has = read.has
    BY <2>6 DEF Same, Fields
  <2>. HIDE DEF taken
  <2>8. /\ has \in [0 .. 2 -> BOOLEAN] /\ ~has[h.back] /\ made = [taken EXCEPT !.has = has]
        /\ \A t \in 0 .. 2 : t # h.back => has[t] = read.has[t]
    BY <1>2, <2>5, <2>6, <2>7 DEF State
  <2>. HIDE DEF has, made
  <2>9. made \in State /\ Same(taken, made, {"has"}) /\ made.has = has
    BY <2>6, <2>8, SetHas
  <2>10. Same(read, made, {"screen", "has"}) /\ made.screen = screen
    BY <2>6, <2>9 DEF Same, Fields
  <2>11. /\ Good(made, frame, e, w) /\ Recording(made) /\ Tells(made)
         /\ \A t \in Gpu!Slots : Clean(made, t)
         /\ made.back = read.back /\ made.real = read.real /\ made.mid = read.mid
         /\ Ahead(made, w, "real", frame)
    <3>1. made.screen.is = made.screen.due
      BY <2>4, <2>10
    <3>2. \A t \in 0 .. 2 : t # read.back => made.has[t] = read.has[t]
      BY <2>2, <2>8, <2>9
    <3>. QED BY <2>1, <2>2, <2>9, <2>10, <3>1, <3>2, TakenIs
  <2>12. LET k == Gpu!PublishScreen(made)
         IN Good(k, frame, e, w) /\ Recording(k) /\ Tells(k) /\ Paused(k, Gpu!NoPair, w)
    <3>1. Newer(made, w, made.real[made.back])
      BY <2>2, <2>3, <2>11 DEF Ahead
    <3>2. ~made.has[made.back]
      BY <2>2, <2>8, <2>9, <2>11
    <3>. QED BY <2>11, <3>1, <3>2, PublishIs
  <2>13. Paused(made, p, w)
    <3>1. \A s \in Gpu!Slots : \A j \in DOMAIN made.ops[s] : made.ops[s][j].op # "mid"
      BY <2>11 DEF Clean
    <3>2. p # Gpu!NoPair /\ p.frame = frame
      BY <1>2 DEF Gpu!NoPair, frame
    <3>. HIDE DEF p
    <3>. QED BY <2>11, <3>1, <3>2 DEF Paused
  <2>. QED BY <1>9, <2>11, <2>12, <2>13 DEF Gpu!ScreenEnd, made, taken, screen, read, frame,
                                            pictured, op, h
<1>10. CASE ~sync
  <2>. DEFINE deliver == [pictured.deliver EXCEPT ![h.cur] = shown]
              taken == [pictured EXCEPT !.deliver[h.cur] = shown]
              has == [pictured.has EXCEPT ![h.back] = FALSE]
              made == [taken EXCEPT !.has[h.back] = FALSE]
  <2>1. /\ pictured.has \in [0 .. 2 -> BOOLEAN] /\ pictured.deliver \in [Gpu!Slots -> SUBSET Screen]
        /\ pictured.publish \in [Gpu!Slots -> BOOLEAN] /\ pictured.screen \in [is : Nat, due : Nat]
    BY <1>8 DEF State
  <2>2. shown \subseteq Screen /\ shown # {} /\ \A d \in shown : d.slot = h.back /\ d.frame = frame
    BY <1>2 DEF Screen
  <2>. HIDE DEF shown
  <2>3. /\ deliver \in [Gpu!Slots -> SUBSET Screen] /\ taken = [pictured EXCEPT !.deliver = deliver]
        /\ deliver[h.cur] = shown /\ \A t \in Gpu!Slots : t # h.cur
           => deliver[t] = pictured.deliver[t]
    BY <1>2, <1>8, <2>1, <2>2 DEF State
  <2>. HIDE DEF deliver, taken
  <2>4. taken \in State /\ Same(pictured, taken, {"deliver"}) /\ taken.deliver = deliver
    BY <1>8, <2>3, SetDeliver
  <2>5. taken.has = pictured.has
    BY <2>4 DEF Same, Fields
  <2>6. /\ has \in [0 .. 2 -> BOOLEAN] /\ ~has[h.back] /\ made = [taken EXCEPT !.has = has]
        /\ \A t \in 0 .. 2 : t # h.back => has[t] = pictured.has[t]
    BY <1>2, <2>1, <2>4, <2>5 DEF State
  <2>. HIDE DEF has, made
  <2>7. made \in State /\ Same(taken, made, {"has"}) /\ made.has = has
    BY <2>4, <2>6, SetHas
  <2>8. /\ Same(pictured, made, {"deliver", "publish", "has"}) /\ made.deliver = deliver
        /\ made.publish = pictured.publish /\ made.back = h.back
    BY <1>8, <2>4, <2>7 DEF Same, Fields
  <2>9. \A t \in Gpu!Slots : ~made.publish[t]
    BY <1>7, <2>8 DEF Steady
  <2>10. WillShow(pictured, pictured.cur, "real", frame)
    BY <1>7 DEF Ahead
  <2>. HIDE DEF frame
  <2>11. /\ Good(made, frame, e, w) /\ Recording(made) /\ made.rec[made.cur]
         /\ made.cur = h.cur /\ Tells(made) /\ Ahead(made, w, "real", frame)
    <3>1. /\ \A t \in Gpu!Slots : t # pictured.cur => made.deliver[t] = pictured.deliver[t]
             /\ ~made.publish[t]
          /\ \A d \in made.deliver[pictured.cur] :
                d.slot = pictured.back /\ WillShow(pictured, pictured.cur, "real", d.frame)
          /\ made.publish[pictured.cur] /\ made.has[pictured.back]
             => WillShow(pictured, pictured.cur, "mid", frame)
          /\ \A t \in 0 .. 2 : t # pictured.back => made.has[t] = pictured.has[t]
      BY <1>2, <1>7, <1>8, <2>2, <2>3, <2>6, <2>7, <2>8, <2>9, <2>10
    <3>2. /\ made.deliver[pictured.cur] # {} \/ made.publish[pictured.cur]
          /\ ~made.publish[pictured.cur]
      BY <1>2, <1>7, <2>2, <2>3, <2>8, <2>9
    <3>3. frame \in Nat /\ frame \in 0 .. frame
      BY <1>2
    <3>4. pictured.rec[pictured.cur] /\ Ahead(pictured, w, "real", frame)
          /\ Good(pictured, frame, e, w)
          /\ Recording(pictured) /\ made \in State
             /\ Same(pictured, made, {"deliver", "publish", "has"})
      BY <1>7, <2>7, <2>8
    <3>5. /\ Good(made, frame, e, w) /\ Recording(made) /\ made.rec[made.cur]
          /\ made.cur = pictured.cur
          /\ made.deliver[pictured.cur] # {} \/ made.publish[pictured.cur] => Tells(made)
          /\ ~made.publish[pictured.cur] =>
                \A o \in {"real", "mid"} : \A x : Ahead(pictured, w, o, x) => Ahead(made, w, o, x)
      <4>1. PICK a, b : a = pictured /\ b = made
        OBVIOUS
      <4>2. /\ Good(a, frame, e, w) /\ Recording(a) /\ a.rec[a.cur] /\ Ahead(a, w, "real", frame)
            /\ b \in State /\ Same(a, b, {"deliver", "publish", "has"})
        BY <3>4, <4>1
      <4>3. /\ \A t \in Gpu!Slots : t # a.cur => b.deliver[t] = a.deliver[t] /\ ~b.publish[t]
            /\ \A d \in b.deliver[a.cur] : d.slot = a.back /\ WillShow(a, a.cur, "real", d.frame)
            /\ b.publish[a.cur] /\ b.has[a.back] => WillShow(a, a.cur, "mid", frame)
            /\ \A t \in 0 .. 2 : t # a.back => b.has[t] = a.has[t]
        BY <3>1, <4>1
      <4>4. /\ Good(b, frame, e, w) /\ Recording(b) /\ b.rec[b.cur] /\ b.cur = a.cur
            /\ b.deliver[a.cur] # {} \/ b.publish[a.cur] => Tells(b)
            /\ ~b.publish[a.cur] =>
                  \A o \in {"real", "mid"} : \A x : Ahead(a, w, o, x) => Ahead(b, w, o, x)
        BY <3>3, <4>2, <4>3, HandsOver
      <4>. QED BY <4>1, <4>4
    <3>. QED BY <1>7, <3>2, <3>4, <3>5
  <2>12. Paused(made, p, w)
    <3>1. made.ops = pictured.ops
      BY <2>8 DEF Same, Fields
    <3>2. p # Gpu!NoPair /\ p.frame = frame
      BY <1>2 DEF Gpu!NoPair, frame
    <3>. HIDE DEF p
    <3>. QED BY <1>7, <2>11, <3>1, <3>2 DEF Paused
  <2>13. LET k == Gpu!ScreenEnd(made, FALSE)
         IN Good(k, frame, e, w) /\ Recording(k) /\ Tells(k) /\ Paused(k, Gpu!NoPair, w)
    <3>1. ~made.has[made.back]
      BY <2>6, <2>7, <2>8
    <3>. QED BY <1>2, <1>4, <2>11, <3>1, EndIs
  <2>. QED BY <1>10, <2>11, <2>12, <2>13 DEF made, taken, shown, frame, pictured, op, h
<1>. QED BY <1>9, <1>10

\* copy_screen, of the in-between one.
LEMMA CopyMidIs ==
    ASSUME NEW e, NEW w, Context(seq, e), NEW g0, Good(g0, seq, e, w), Recording(g0), Tells(g0),
           NEW q, q # Gpu!NoPair, q.sync \in BOOLEAN, q.frame \in 0 .. seq, Paused(g0, q, w)
    PROVE  LET h == Gpu!HandOver(Gpu!Poll(g0))
               pictured == Gpu!Record(h, <<[op |-> "mid", slot |-> h.back, frame |-> q.frame]>>)
               made == [IF q.sync THEN Gpu!SubmitWait(pictured) ELSE pictured
                           EXCEPT !.has[h.back] = TRUE]
               r == Gpu!ScreenEnd(made, q.sync)
           IN Good(r, seq, e, w) /\ Recording(r) /\ Tells(r) /\ Paused(r, Gpu!NoPair, w)
<1>. DEFINE h == Gpu!HandOver(Gpu!Poll(g0))
            op == [op |-> "mid", slot |-> h.back, frame |-> q.frame]
            pictured == Gpu!Record(h, <<op>>)
            read == Gpu!SubmitWait(pictured)
            f == q.frame
<1>1. /\ Good(h, seq, e, w) /\ Recording(h) /\ Onward(g0, h, w)
  BY BeforeIs
<1>. HIDE DEF h
<1>2. /\ h \in State /\ h.back \in 0 .. 2 /\ h.cur \in Gpu!Slots /\ seq \in Nat /\ f \in Nat
         /\ f <= seq
  <2>1. h \in State /\ seq \in Nat
    BY <1>1 DEF Good, Context
  <2>. QED BY <1>1, <2>1, StateScreens
<1>3. /\ Ahead(h, w, "real", f)
      /\ \A s \in Gpu!Slots : \A j \in DOMAIN h.ops[s] : h.ops[s][j].op # "mid"
  BY <1>1 DEF Onward, Paused
<1>6. /\ op \in Picturing /\ op.op = "mid" /\ op.slot = h.back /\ op.frame = f
  BY <1>2 DEF Picturing
<1>7. /\ Good(pictured, seq, e, w) /\ Recording(pictured) /\ pictured.rec[pictured.cur]
      /\ pictured.cur = h.cur /\ Steady(pictured, h.back) /\ pictured.has = h.has
      /\ Ahead(pictured, w, "mid", f) /\ Ahead(pictured, w, "real", f)
  <2>. HIDE DEF op, pictured
  <2>1. \A s \in Gpu!Slots : ~h.publish[s] /\ (Shows(h, s) => s = h.cur)
    BY <1>3 DEF Ahead
  <2>2. Newer(h, w, f)
    BY <1>3 DEF Ahead
  <2>3. LET k == pictured
        IN /\ Good(k, seq, e, w) /\ Recording(k)
           /\ k.cur = h.cur /\ Steady(k, h.back) /\ k.has = h.has
           /\ k.rec[k.cur]
           /\ Newer(h, w, op.frame) => Ahead(k, w, op.op, op.frame)
           /\ \A o \in {"real", "mid"} : \A x :
                 o # op.op /\ Ahead(h, w, o, x) => Ahead(k, w, o, x)
    BY <1>1, <1>2, <1>3, <1>6, <2>1, PictureIs DEF pictured
  <2>. QED BY <1>3, <1>6, <2>2, <2>3
<1>. HIDE DEF pictured, op
<1>8. pictured \in State /\ pictured.back = h.back
  BY <1>7 DEF Good, Steady
<1>9. CASE q.sync
  <2>1. /\ Good(read, seq, e, w) /\ Onward(pictured, read, w) /\ Recording(read)
        /\ \A t \in Gpu!Slots : Clean(read, t)
    BY <1>7, SubmitWaitIs
  <2>. HIDE DEF read
  <2>2. /\ read \in State /\ Ahead(read, w, "real", f) /\ Ahead(read, w, "mid", f)
        /\ read.back = h.back /\ read.cur \in Gpu!Slots /\ read.has \in [0 .. 2 -> BOOLEAN]
        /\ read.screen.is = read.screen.due
    <3>1. read \in State /\ Screens(read, seq, w)
      BY <2>1 DEF Good
    <3>2. read.has \in [0 .. 2 -> BOOLEAN]
      BY <3>1 DEF State
    <3>3. read.screen.is = read.screen.due
      BY <3>1 DEF Screens, Whole
    <3>. QED BY <1>7, <2>1, <3>1, <3>2, <3>3, StateScreens DEF Onward, Steady
  <2>3. read.real[h.back] = f /\ read.mid[h.back] = f
    <3>1. read.ops[read.cur] = <<>>
      BY <2>1, <2>2 DEF Clean
    <3>2. WillShow(read, read.cur, "real", f) /\ WillShow(read, read.cur, "mid", f)
      BY <2>2 DEF Ahead
    <3>. QED BY <2>2, <3>1, <3>2 DEF WillShow
  <2>. DEFINE has == [read.has EXCEPT ![h.back] = TRUE]
              made == [read EXCEPT !.has[h.back] = TRUE]
  <2>4. /\ has \in [0 .. 2 -> BOOLEAN] /\ made = [read EXCEPT !.has = has]
        /\ \A t \in 0 .. 2 : t # h.back => has[t] = read.has[t]
    BY <1>2, <2>2 DEF State
  <2>. HIDE DEF has, made
  <2>5. made \in State /\ Same(read, made, {"has"}) /\ made.has = has
    BY <2>2, <2>4, SetHas
  <2>6. Same(read, made, {"screen", "has"}) /\ made.screen = read.screen
    BY <2>5 DEF Same, Fields
  <2>7. /\ Good(made, seq, e, w) /\ Recording(made)
        /\ \A t \in Gpu!Slots : Clean(made, t)
        /\ made.back = read.back /\ made.real = read.real /\ made.mid = read.mid
        /\ Ahead(made, w, "real", f)
    <3>1. made.screen.is = made.screen.due
      BY <2>2, <2>6
    <3>2. \A t \in 0 .. 2 : t # read.back => made.has[t] = read.has[t]
      BY <2>2, <2>4, <2>5
    <3>. QED BY <2>1, <2>2, <2>5, <2>6, <3>1, <3>2, TakenIs
  <2>8. LET k == Gpu!PublishScreen(made)
        IN Good(k, seq, e, w) /\ Recording(k) /\ Tells(k) /\ Paused(k, Gpu!NoPair, w)
    <3>1. Newer(made, w, made.real[made.back])
      BY <2>2, <2>3, <2>7 DEF Ahead
    <3>2. made.mid[made.back] = made.real[made.back]
      BY <2>2, <2>3, <2>7
    <3>. QED BY <2>7, <3>1, <3>2, PublishIs
  <2>. QED BY <1>9, <2>8 DEF Gpu!ScreenEnd, made, read, pictured, op, h
<1>10. CASE ~q.sync
  <2>. DEFINE has == [pictured.has EXCEPT ![h.back] = TRUE]
              made == [pictured EXCEPT !.has[h.back] = TRUE]
  <2>1. pictured.has \in [0 .. 2 -> BOOLEAN] /\ Screens(pictured, seq, w)
    BY <1>7, <1>8 DEF State, Good
  <2>2. /\ has \in [0 .. 2 -> BOOLEAN] /\ made = [pictured EXCEPT !.has = has]
        /\ \A t \in 0 .. 2 : t # h.back => has[t] = pictured.has[t]
    BY <1>2, <1>8, <2>1 DEF State
  <2>. HIDE DEF has, made
  <2>3. made \in State /\ Same(pictured, made, {"has"}) /\ made.has = has
    BY <1>8, <2>2, SetHas
  <2>4. /\ Same(pictured, made, {"deliver", "publish", "has"}) /\ made.deliver = pictured.deliver
        /\ made.publish = pictured.publish /\ made.back = h.back /\ made.ops = pictured.ops
        /\ made.cur = pictured.cur /\ made.mid = pictured.mid
    BY <1>8, <2>3 DEF Same, Fields
  <2>5. /\ \A t \in Gpu!Slots : t # pictured.cur => made.deliver[t] = pictured.deliver[t]
           /\ ~made.publish[t]
        /\ \A d \in made.deliver[pictured.cur] :
              d.slot = pictured.back /\ WillShow(pictured, pictured.cur, "real", d.frame)
        /\ ~made.publish[pictured.cur]
        /\ \A t \in 0 .. 2 : t # pictured.back => made.has[t] = pictured.has[t]
        /\ pictured.cur \in Gpu!Slots
    <3>1. \A d \in pictured.deliver[pictured.cur] :
             d.slot = pictured.back /\ WillShow(pictured, pictured.cur, "real", d.frame)
      BY <1>2, <1>7, <2>1 DEF Screens, Showing
    <3>. QED BY <1>2, <1>7, <1>8, <2>2, <2>3, <2>4, <3>1 DEF Steady
  <2>6. /\ Good(made, seq, e, w) /\ Recording(made) /\ made.rec[made.cur]
        /\ Ahead(made, w, "real", f)
    <3>1. f \in 0 .. seq /\ seq \in Nat
      BY <1>2
    <3>2. made.publish[pictured.cur] /\ made.has[pictured.back]
          => WillShow(pictured, pictured.cur, "mid", f)
      BY <2>5
    <3>. HIDE DEF f
    <3>. QED BY <1>7, <2>3, <2>4, <2>5, <3>1, <3>2, HandsOver
  <2>7. WillShow(made, made.cur, "mid", f)
    BY <1>7, <1>8, <2>4 DEF Ahead, WillShow
  <2>8. LET k == Gpu!ScreenEnd(made, FALSE)
        IN Good(k, seq, e, w) /\ Recording(k) /\ Tells(k) /\ Paused(k, Gpu!NoPair, w)
    <3>1. f \in 0 .. seq
      BY <1>2
    <3>. HIDE DEF f
    <3>. QED BY <2>6, <2>7, <3>1, EndIs
  <2>. QED BY <1>10, <2>8 DEF made, pictured, op, h
<1>. QED BY <1>9, <1>10

-----------------------------------------------------------------------------
(* Between commands.                                                        *)

\* The GPU runs the slot in flight: what it had to run, it has.
RanAt(h, k, s) ==
    /\ h \in State /\ k \in State /\ s \in Gpu!Slots /\ s # h.cur
    /\ Same(h, k, {"ops", "pool", "missed", "real", "mid", "done"})
    /\ k.ops[s] = <<>> /\ \A t \in Gpu!Slots : t # s => k.ops[t] = h.ops[t] /\ k.done[t] = h.done[t]
    /\ \A a \in 1 .. HalfRoom : k.pool[s][a] = Gpu!Held(h, s, Len(h.ops[s]) + 1, a)
    /\ \A t \in Gpu!Slots : t # s => k.pool[t] = h.pool[t]
    /\ k.missed <=> h.missed \/ Gpu!Missed(h, s)
    /\ \A t \in 0 .. 2 : k.real[t] = Gpu!Drawn(h, s, "real", t)
       /\ k.mid[t] = Gpu!Drawn(h, s, "mid", t)

LEMMA RanAtIs ==
    ASSUME NEW h \in State, Kept(h), NEW s \in Gpu!Slots, s # h.cur, ~h.done[s]
    PROVE  RanAt(h, Gpu!Ran(h, s), s)
<1>. DEFINE k == Gpu!Ran(h, s)
<1>1. /\ k \in State
      /\ Same(h, k, {"ops", "pool", "missed", "real", "mid", "done"})
      /\ k.ops = [h.ops EXCEPT ![s] = <<>>]
      /\ \A t \in Gpu!Slots : t # s => k.done[t] = h.done[t]
      /\ k.pool = [h.pool EXCEPT ![s] =
                      [a \in 1 .. HalfRoom |-> Gpu!Held(h, s, Len(h.ops[s]) + 1, a)]]
      /\ k.missed <=> h.missed \/ Gpu!Missed(h, s)
      /\ k.real = [t \in 0 .. 2 |-> Gpu!Drawn(h, s, "real", t)]
      /\ k.mid = [t \in 0 .. 2 |-> Gpu!Drawn(h, s, "mid", t)]
  <2>1. Paired(h, s)
    BY DEF Kept
  <2>. QED BY <2>1, RanIs
<1>. HIDE DEF k
<1>2. h.ops \in [Gpu!Slots -> Seq(Op)] /\ h.pool \in [Gpu!Slots -> [1 .. HalfRoom -> Content]]
  BY DEF State
<1>3. k.ops[s] = <<>> /\ \A t \in Gpu!Slots : t # s => k.ops[t] = h.ops[t]
  BY <1>1, <1>2
<1>4. /\ \A a \in 1 .. HalfRoom : k.pool[s][a] = Gpu!Held(h, s, Len(h.ops[s]) + 1, a)
      /\ \A t \in Gpu!Slots : t # s => k.pool[t] = h.pool[t]
  BY <1>1, <1>2
<1>. QED BY <1>1, <1>3, <1>4 DEF RanAt, k

\* What it ran was right: each draw read the texels it was recorded with.
LEMMA RanDraws ==
    ASSUME NEW h, NEW k, NEW s, RanAt(h, k, s), Kept(h), Draws(h)
    PROVE  Draws(k)
<1>0. h \in State /\ k \in State /\ s \in Gpu!Slots /\ s # h.cur /\ h.cur \in Gpu!Slots
  BY DEF RanAt, State
<1>1. /\ k.ops[s] = <<>> /\ DOMAIN k.ops[s] = {}
      /\ \A a \in 1 .. HalfRoom : k.pool[s][a] = Gpu!Held(h, s, Len(h.ops[s]) + 1, a)
      /\ \A t \in Gpu!Slots : t # s => k.ops[t] = h.ops[t] /\ k.pool[t] = h.pool[t]
  BY DEF RanAt
<1>2. k.cur = h.cur /\ k.used = h.used /\ k.resident = h.resident /\ k.lands = h.lands
      /\ k.cimg = h.cimg /\ k.carried = h.carried
  BY DEF RanAt, Same, Fields
<1>3. \A t \in Gpu!Slots : \A j \in DOMAIN h.ops[t] :
         /\ h.ops[t][j] \in Op
         /\ h.ops[t][j].op = "carry" => NSlots = 2 /\ 1 - t \in Gpu!Slots /\ 1 - t # t
                                        /\ h.ops[t][j].from \in 1 .. HalfRoom
  BY <1>0, OpsAre, OpFields, SlotsAre DEF Kept, Paired
<1>4. \A a, x : Will(h, s, a, x) => Would(h, s, a, x)
  BY <1>0 DEF Will, Would
<1>5. ASSUME NEW a \in 1 .. HalfRoom, NEW x, Would(h, s, a, x)
      PROVE  Would(k, s, a, x) /\ Will(k, s, a, x)
  <2>1. Len(h.ops[s]) + 1 \in Nat /\ Len(h.ops[s]) + 1 <= Len(h.ops[s]) + 1
        /\ \A j \in DOMAIN h.ops[s] : j < Len(h.ops[s]) + 1
    BY <1>0, OpsAre
  <2>2. PICK i \in Nat : i = Len(h.ops[s]) + 1
    BY <2>1
  <2>3. Gpu!Held(h, s, i, a) = x
    BY <1>0, <1>5, <2>1, <2>2, HeldRight
  <2>4. k.pool[s][a] = x
    BY <1>1, <2>2, <2>3
  <2>. QED BY <1>1, <2>4 DEF Would, Will
<1>6. \A t \in Gpu!Slots : t # s => t = h.cur
  BY <1>0, SlotsAre
<1>7. \A a, x : Will(h, h.cur, a, x) => Will(k, h.cur, a, x)
  <2>1. \A j \in DOMAIN h.ops[h.cur] : h.ops[h.cur][j].op = "carry" => 1 - h.cur = s
    BY <1>0, <1>3, <1>6
  <2>. QED BY <1>0, <1>1, <1>2, <1>3, <1>5, <2>1 DEF Will
<1>8. \A t \in Gpu!Slots : \A x : \A a \in 1 .. HalfRoom : Will(h, t, a, x) => Will(k, t, a, x)
  BY <1>4, <1>5, <1>6, <1>7
<1>9. ~k.missed
  <2>1. SUFFICES ~Gpu!Missed(h, s)
    BY DEF RanAt, Draws
  <2>2. SUFFICES ASSUME NEW i \in DOMAIN h.ops[s], h.ops[s][i].op = "sample"
                 PROVE  Gpu!Held(h, s, i, h.ops[s][i].at) = h.ops[s][i].want
    BY DEF Gpu!Missed
  <2>3. Would(h, s, h.ops[s][i].at, h.ops[s][i].want)
    BY <1>0, <1>4, <2>2 DEF Draws, Sound
  <2>4. i \in Nat /\ i <= Len(h.ops[s]) + 1
    BY <1>0, OpsAre
  <2>5. \A j \in DOMAIN h.ops[s] : Writes(h.ops[s][j], h.ops[s][i].at) => j < i
    BY <1>0, <2>2 DEF Draws, Sound, Ordered
  <2>. QED BY <1>0, <2>3, <2>4, <2>5, HeldRight
<1>10. Upto(k)
  <2>1. k.ops[k.cur] = h.ops[h.cur]
    BY <1>0, <1>1, <1>2
  <2>2. \A c \in h.resident : Will(k, k.cur, c.at, c.content)
    BY <1>2, <1>7 DEF Draws, Upto
  <2>. QED BY <1>2, <2>1, <2>2 DEF Upto, Draws
<1>11. ASSUME NEW t \in Gpu!Slots PROVE Sound(k, t)
  <2>1. Sound(h, t)
    BY DEF Draws
  <2>2. \A c \in h.cimg[t] : c.at \in 1 .. HalfRoom
    BY <1>0, EntryFields
  <2>3. \A j \in DOMAIN h.ops[t] : h.ops[t][j].op = "sample" => h.ops[t][j].at \in 1 .. HalfRoom
    BY <1>3, OpFields
  <2>4. k.ops[t] = h.ops[t] \/ DOMAIN k.ops[t] = {}
    BY <1>1
  <2>. QED BY <1>2, <1>8, <2>1, <2>2, <2>3, <2>4 DEF Sound, Ordered
<1>. QED BY <1>9, <1>10, <1>11 DEF Draws

\* The pictures it drew are the frame's.
LEMMA RanScreens ==
    ASSUME NEW h, NEW k, NEW s, RanAt(h, k, s), NEW n \in Nat, NEW w, Screens(h, n, w)
    PROVE  Screens(k, n, w) /\ (Tells(h) => Tells(k)) /\ \A p : Paused(h, p, w) => Paused(k, p, w)
<1>0. h \in State /\ k \in State /\ s \in Gpu!Slots /\ s # h.cur /\ h.cur \in Gpu!Slots
  BY DEF RanAt, State
<1>1. /\ k.ops[s] = <<>> /\ DOMAIN k.ops[s] = {}
      /\ \A t \in Gpu!Slots : t # s => k.ops[t] = h.ops[t]
      /\ \A t \in 0 .. 2 : k.real[t] = Gpu!Drawn(h, s, "real", t)
         /\ k.mid[t] = Gpu!Drawn(h, s, "mid", t)
  BY DEF RanAt
<1>2. /\ k.cur = h.cur /\ k.deliver = h.deliver /\ k.publish = h.publish /\ k.has = h.has
      /\ k.back = h.back /\ k.middle = h.middle /\ k.fresh = h.fresh /\ k.screen = h.screen
  BY DEF RanAt, Same, Fields
<1>3. Showing(h, s, n, w)
  BY <1>0 DEF Screens
<1>4. \A t \in 0 .. 2 : t # h.back => k.real[t] = h.real[t] /\ k.mid[t] = h.mid[t]
  BY <1>0, <1>1, <1>3, DrawnShows
<1>5. \A f : /\ WillShow(h, s, "real", f) => k.real[h.back] = f
             /\ WillShow(h, s, "mid", f) => k.mid[h.back] = f
  BY <1>0, <1>1, <1>3, DrawnShows, StateScreens
<1>6. w \in 0 .. 2 /\ h.back # w /\ h.middle # w /\ h.back # h.middle /\ h.middle \in 0 .. 2
      /\ h.back \in 0 .. 2
  BY <1>0, StateScreens DEF Screens, Whole
<1>7. \A f : Newer(h, w, f) <=> Newer(k, w, f)
  BY <1>2, <1>4, <1>6 DEF Newer
<1>8. \A t \in 0 .. 2 : k.real[t] <= n
  <2>1. \A t \in 0 .. 2 : h.real[t] <= n
    BY DEF Screens, Whole
  <2>2. \A j \in DOMAIN h.ops[s] : ToScreen(h.ops[s][j]) => h.ops[s][j].frame <= n
    BY <1>3 DEF Showing
  <2>. QED BY <1>0, <1>1, <1>3, <2>1, <2>2, DrawnShows
<1>9. Whole(k, n, w)
  <2>1. \A t \in 0 .. 2 : (t = w \/ (k.fresh /\ t = k.middle)) /\ k.has[t] => k.mid[t] = k.real[t]
    <3>1. \A t \in 0 .. 2 : (t = w \/ (h.fresh /\ t = h.middle)) /\ h.has[t] => h.mid[t] = h.real[t]
      BY DEF Screens, Whole
    <3>2. \A t \in 0 .. 2 : t = w \/ t = h.middle => t # h.back
      BY <1>6
    <3>. QED BY <1>2, <1>4, <3>1, <3>2
  <2>2. k.fresh => k.real[k.middle] > k.real[w]
    <3>1. h.fresh => h.real[h.middle] > h.real[w]
      BY DEF Screens, Whole
    <3>. QED BY <1>2, <1>4, <1>6, <3>1
  <2>3. k.screen.is = k.screen.due
    BY <1>2 DEF Screens, Whole
  <2>. QED BY <1>2, <1>6, <1>8, <2>1, <2>2, <2>3 DEF Whole
<1>10. \A t \in Gpu!Slots : (Pictures(k, t) => Pictures(h, t)) /\ (Shows(k, t) => Shows(h, t))
  BY <1>1, <1>2 DEF Shows, Pictures
<1>11. ASSUME NEW t \in Gpu!Slots PROVE Showing(k, t, n, w)
  <2>0. Showing(h, t, n, w)
    BY DEF Screens
  <2>1. CASE t = s
    <3>0. \A f : /\ k.real[h.back] = f => WillShow(k, s, "real", f)
                 /\ k.mid[h.back] = f => WillShow(k, s, "mid", f)
      BY <1>1, <1>2 DEF WillShow
    <3>1. \A f : /\ WillShow(h, s, "real", f) => WillShow(k, s, "real", f)
                 /\ WillShow(h, s, "mid", f) => WillShow(k, s, "mid", f)
      BY <1>5, <3>0
    <3>. QED BY <1>1, <1>2, <1>7, <2>0, <2>1, <3>1 DEF Showing
  <2>2. CASE t # s /\ Shows(h, t)
    <3>1. ~Shows(h, s)
      BY <1>0, <2>2 DEF Screens
    <3>2. \A u \in 0 .. 2 : k.real[u] = h.real[u] /\ k.mid[u] = h.mid[u]
      BY <1>0, <1>1, <1>3, <3>1, DrawnShows DEF Shows
    <3>3. \A f : /\ WillShow(h, t, "real", f) => WillShow(k, t, "real", f)
                 /\ WillShow(h, t, "mid", f) => WillShow(k, t, "mid", f)
      BY <1>1, <1>2, <1>6, <2>2, <3>2 DEF WillShow
    <3>. QED BY <1>1, <1>2, <1>7, <2>0, <2>2, <3>3 DEF Showing
  <2>3. CASE ~Shows(h, t)
    <3>1. ~Shows(k, t)
      BY <1>10, <2>3
    <3>. QED BY <3>1 DEF Showing, Shows, Pictures
  <2>. QED BY <2>1, <2>2, <2>3
<1>12. Screens(k, n, w)
  BY <1>9, <1>10, <1>11 DEF Screens
<1>13. Tells(h) => Tells(k)
  BY <1>2, <1>10 DEF Tells
<1>14. ASSUME NEW f, Ahead(h, w, "real", f) PROVE Ahead(k, w, "real", f)
  <2>1. ~Pictures(h, s)
    BY <1>0, <1>14 DEF Ahead, Shows
  <2>2. k.real[h.back] = h.real[h.back]
    BY <1>0, <1>1, <1>3, <1>6, <2>1, DrawnShows
  <2>3. WillShow(h, h.cur, "real", f)
    BY <1>14 DEF Ahead
  <2>4. WillShow(k, k.cur, "real", f)
    BY <1>0, <1>1, <1>2, <2>2, <2>3 DEF WillShow
  <2>5. \A t \in Gpu!Slots : ~k.publish[t] /\ (Shows(k, t) => t = k.cur)
    BY <1>2, <1>10, <1>14 DEF Ahead
  <2>. QED BY <1>7, <1>14, <2>4, <2>5 DEF Ahead
<1>15. ASSUME NEW p, Paused(h, p, w) PROVE Paused(k, p, w)
  <2>1. p = Gpu!NoPair => ~Shows(k, k.cur)
    BY <1>0, <1>2, <1>10, <1>15 DEF Paused
  <2>2. p # Gpu!NoPair => Ahead(k, w, "real", p.frame)
    BY <1>14, <1>15 DEF Paused
  <2>3. p # Gpu!NoPair => \A t \in Gpu!Slots : \A j \in DOMAIN k.ops[t] : k.ops[t][j].op # "mid"
    BY <1>1, <1>15 DEF Paused
  <2>. QED BY <2>1, <2>2, <2>3 DEF Paused
<1>. QED BY <1>12, <1>13, <1>15

-----------------------------------------------------------------------------
(* Every step.                                                              *)

\* What every step keeps of what the consumer and the GPU hold, at command n.
GpuHeld(h, n, e, p, w) ==
    Good(h, n, e, w) /\ Recording(h) /\ Told(h, e) /\ Tells(h) /\ Paused(h, p, w)

LEMMA FollowsTold ==
    ASSUME NEW n, NEW e, NEW w, NEW h, Good(h, n, e, w), n = seq, NEW k, Follows(h, k, e)
    PROVE  (Told(h, e) => Told(k, e)) /\ (Tells(h) => Tells(k))
BY DEF Good, Lands, Follows

\* The texture and the draw, in the next slot if the half is full.
LEMMA SamplingHeld ==
    ASSUME NEW e, NEW w, Context(seq, e), NEW h, Good(h, seq, e, w), Recording(h),
           Told(h, e), Tells(h), Paused(h, Gpu!NoPair, w), NEW x \in Content, Known(h, x)
    PROVE  LET first == Gpu!Upload(h, x)
               put == IF first.at = 0 THEN Gpu!Upload(Gpu!SubmitNext(first.h), x) ELSE first
           IN GpuHeld(Gpu!Record(put.h, <<[op |-> "sample", at |-> put.at, want |-> x]>>),
                      seq, e, Gpu!NoPair, w)
<1>. DEFINE first == Gpu!Upload(h, x)
            h2 == Gpu!SubmitNext(first.h)
            put == IF first.at = 0 THEN Gpu!Upload(h2, x) ELSE first
            r == Gpu!Record(put.h, <<[op |-> "sample", at |-> put.at, want |-> x]>>)
<1>1. /\ Good(first.h, seq, e, w) /\ Follows(h, first.h, e) /\ Onward(h, first.h, w)
      /\ first.at = 0 => Recording(first.h)
      /\ first.at # 0 => Placed(h, first.h, first.at, x)
  BY UploadIs
<1>2. Told(first.h, e) /\ Tells(first.h) /\ Known(first.h, x) /\ Paused(first.h, Gpu!NoPair, w)
  BY <1>1, FollowsTold DEF Follows, Onward
<1>3. Good(put.h, seq, e, w) /\ Told(put.h, e) /\ Tells(put.h) /\ Paused(put.h, Gpu!NoPair, w)
      /\ \E p : Placed(p, put.h, put.at, x)
  <2>1. CASE first.at # 0
    BY <1>1, <1>2, <2>1
  <2>2. CASE first.at = 0
    <3>1. /\ Good(h2, seq, e, w) /\ Follows(first.h, h2, e) /\ Recording(h2) /\ h2.used = 0
          /\ Paused(h2, Gpu!NoPair, w)
      BY <1>1, <2>2, SubmitNextIs, NextPaused
    <3>2. Told(h2, e) /\ Tells(h2) /\ Known(h2, x)
      BY <1>1, <1>2, <3>1, FollowsTold DEF Follows
    <3>. HIDE DEF h2
    <3>3. ~Gpu!Full(h2)
      BY <3>1, GpuAssumption DEF Gpu!Full
    <3>. DEFINE u == Gpu!Upload(h2, x)
    <3>4. /\ Good(u.h, seq, e, w) /\ Follows(h2, u.h, e) /\ Onward(h2, u.h, w)
          /\ u.at = 0 => Gpu!Full(h2)
          /\ u.at # 0 => Placed(h2, u.h, u.at, x)
      BY <3>1, <3>2, UploadIs
    <3>5. Told(u.h, e) /\ Tells(u.h) /\ Paused(u.h, Gpu!NoPair, w)
      BY <3>1, <3>2, <3>4, FollowsTold DEF Onward
    <3>. QED BY <2>2, <3>3, <3>4, <3>5
  <2>. QED BY <2>1, <2>2
<1>. HIDE DEF put
<1>4. PICK p : Placed(p, put.h, put.at, x)
  BY <1>3
<1>5. Good(r, seq, e, w) /\ Follows(put.h, r, e) /\ Onward(put.h, r, w) /\ Recording(r)
  BY <1>3, <1>4, SampleIs
<1>. HIDE DEF r
<1>6. Told(r, e) /\ Tells(r) /\ Paused(r, Gpu!NoPair, w)
  BY <1>3, <1>5, FollowsTold DEF Onward
<1>. QED BY <1>5, <1>6 DEF GpuHeld, r, put

\* The vertices' half or the records' may be full first.
LEMMA FullHeld ==
    ASSUME NEW e, NEW w, Context(seq, e), NEW g0, GpuHeld(g0, seq, e, Gpu!NoPair, w), NEW full,
           NEW x, Known(g0, x)
    PROVE  LET polled == Gpu!Poll(g0)
               h == IF full THEN Gpu!SubmitNext(polled) ELSE polled
           IN GpuHeld(h, seq, e, Gpu!NoPair, w) /\ Known(h, x)
<1>. DEFINE p == Gpu!Poll(g0)
            k == Gpu!SubmitNext(p)
<1>1. Good(g0, seq, e, w) /\ Recording(g0) /\ Told(g0, e) /\ Tells(g0) /\ Paused(g0, Gpu!NoPair, w)
  BY DEF GpuHeld
<1>2. Good(p, seq, e, w) /\ Follows(g0, p, e) /\ Onward(g0, p, w) /\ Recording(p)
  BY <1>1, PollGood
<1>3. Told(p, e) /\ Tells(p) /\ Paused(p, Gpu!NoPair, w) /\ Known(p, x)
  BY <1>1, <1>2, FollowsTold DEF Onward, Follows
<1>. HIDE DEF p
<1>4. Good(k, seq, e, w) /\ Follows(p, k, e) /\ Recording(k) /\ Paused(k, Gpu!NoPair, w)
  BY <1>2, SubmitNextIs, NextPaused
<1>5. Told(k, e) /\ Tells(k) /\ Known(k, x)
  BY <1>2, <1>3, <1>4, FollowsTold DEF Follows
<1>. HIDE DEF k
<1>. QED BY <1>2, <1>3, <1>4, <1>5 DEF GpuHeld, p, k

\* begin_cb alone: a clear, and the textures let go.
LEMMA NothingIs ==
    ASSUME NEW n, NEW e, NEW w, NEW h, NEW p, GpuHeld(h, n, e, p, w)
    PROVE  GpuHeld(Gpu!Record(h, <<>>), n, e, p, w)
<1>. DEFINE k == Gpu!Record(h, <<>>)
<1>0. h \in State
  BY DEF GpuHeld, Good
<1>1. k \in State /\ Same(h, k, {"rec"}) /\ k.rec[h.cur]
  BY <1>0, RecordNothing
<1>. HIDE DEF k
<1>2. /\ k.cur = h.cur /\ k.inflight = h.inflight /\ k.done = h.done /\ k.ops = h.ops
      /\ k.lands = h.lands /\ k.cimg = h.cimg /\ k.deliver = h.deliver /\ k.publish = h.publish
      /\ k.pool = h.pool /\ k.carried = h.carried /\ k.used = h.used /\ k.resident = h.resident
      /\ k.missed = h.missed /\ k.back = h.back /\ k.middle = h.middle /\ k.fresh = h.fresh
      /\ k.real = h.real /\ k.mid = h.mid /\ k.has = h.has /\ k.screen = h.screen
      /\ k.ram = h.ram /\ k.said = h.said
  BY <1>1 DEF Same, Fields
<1>3. Kept(k)
  BY <1>2, KeptFrame DEF GpuHeld, Good
<1>4. Draws(k)
  BY <1>2, DrawsFrame DEF GpuHeld, Good
<1>5. Screens(k, n, w) /\ Tells(k) /\ Onward(h, k, w)
  BY <1>2, ScreensFrame DEF GpuHeld, Good
<1>6. Lands(k, n, e) /\ Told(k, e)
  BY <1>2, LandsFrame DEF GpuHeld, Good
<1>7. Recording(k)
  BY <1>1, <1>2 DEF GpuHeld, Recording
<1>. QED BY <1>1, <1>3, <1>4, <1>5, <1>6, <1>7 DEF GpuHeld, Good, Onward, k

\* The GPU runs the slot in flight.
LEMMA GpuIs ==
    ASSUME NEW n \in Nat, NEW e, NEW w, NEW h, NEW p, GpuHeld(h, n, e, p, w), Gpu!InFlight(h),
           ~h.done[Gpu!Other(h)]
    PROVE  GpuHeld(Gpu!Ran(h, Gpu!Other(h)), n, e, p, w)
<1>. DEFINE s == Gpu!Other(h)
            k == Gpu!Ran(h, s)
<1>0. h \in State /\ Kept(h) /\ Draws(h) /\ Screens(h, n, w)
  BY DEF GpuHeld, Good
<1>1. s \in Gpu!Slots /\ s # h.cur /\ \A t \in Gpu!Slots : t = h.cur \/ t = s
  BY <1>0, OtherIs DEF Gpu!InFlight
<1>. HIDE DEF s
<1>2. RanAt(h, k, s)
  BY <1>0, <1>1, RanAtIs DEF s
<1>. HIDE DEF k
<1>3. Draws(k)
  BY <1>0, <1>2, RanDraws
<1>4. Screens(k, n, w) /\ (Tells(h) => Tells(k)) /\ \A q : Paused(h, q, w) => Paused(k, q, w)
  BY <1>0, <1>2, RanScreens
<1>5. /\ k \in State /\ k.cur = h.cur /\ k.inflight = h.inflight /\ k.lands = h.lands
      /\ k.cimg = h.cimg /\ k.deliver = h.deliver /\ k.publish = h.publish
      /\ k.rec = h.rec /\ k.used = h.used /\ k.resident = h.resident /\ k.ram = h.ram
      /\ k.said = h.said
  BY <1>2 DEF RanAt, Same, Fields
<1>6. /\ k.ops[s] = <<>> /\ k.ops[h.cur] = h.ops[h.cur] /\ k.done[h.cur] = h.done[h.cur]
  BY <1>0, <1>1, <1>2 DEF RanAt, State
<1>7. Kept(k)
  BY <1>0, <1>1, <1>5, <1>6 DEF Kept, Clean, Paired
<1>8. Recording(k)
  BY <1>5, <1>6 DEF GpuHeld, Recording, Clean
<1>9. Lands(k, n, e) /\ Told(k, e)
  BY <1>5, LandsFrame DEF GpuHeld, Good
<1>. QED BY <1>3, <1>4, <1>5, <1>7, <1>8, <1>9 DEF GpuHeld, Good, k, s

\* The window takes the newest picture.
LEMMA TakeIs ==
    ASSUME NEW n, NEW e, NEW w, NEW h, NEW p, GpuHeld(h, n, e, p, w), h.fresh
    PROVE  GpuHeld([h EXCEPT !.middle = w, !.fresh = FALSE], n, e, p, h.middle)
<1>. DEFINE k == [h EXCEPT !.middle = w, !.fresh = FALSE]
<1>0. h \in State /\ Screens(h, n, w)
  BY DEF GpuHeld, Good
<1>1. w \in 0 .. 2 /\ h.back # w /\ h.middle # w /\ h.back # h.middle /\ h.middle \in 0 .. 2
  BY <1>0, StateScreens DEF Screens, Whole
<1>2. k \in State /\ Same(h, k, {"middle", "fresh"}) /\ k.middle = w /\ k.fresh = FALSE
  BY <1>0, <1>1 DEF State, Same, Fields
<1>. HIDE DEF k
<1>3. /\ k.cur = h.cur /\ k.inflight = h.inflight /\ k.done = h.done /\ k.ops = h.ops
      /\ k.lands = h.lands /\ k.cimg = h.cimg /\ k.deliver = h.deliver /\ k.publish = h.publish
      /\ k.pool = h.pool /\ k.carried = h.carried /\ k.used = h.used /\ k.resident = h.resident
      /\ k.missed = h.missed /\ k.back = h.back /\ k.rec = h.rec
      /\ k.real = h.real /\ k.mid = h.mid /\ k.has = h.has /\ k.screen = h.screen
      /\ k.ram = h.ram /\ k.said = h.said
  BY <1>2 DEF Same, Fields
<1>4. Kept(k)
  BY <1>3, KeptFrame DEF GpuHeld, Good
<1>5. Draws(k)
  BY <1>3, DrawsFrame DEF GpuHeld, Good
<1>6. Lands(k, n, e) /\ Told(k, e)
  BY <1>3, LandsFrame DEF GpuHeld, Good
<1>7. Recording(k) /\ Tells(k)
  BY <1>3 DEF GpuHeld, Recording, Clean, Tells, Pictures
<1>8. \A f : Newer(h, w, f) => Newer(k, h.middle, f)
  BY <1>2, <1>3 DEF Newer
<1>9. ASSUME NEW s \in Gpu!Slots
      PROVE  /\ \A f : WillShow(h, s, "real", f) => WillShow(k, s, "real", f)
             /\ \A f : WillShow(h, s, "mid", f) => WillShow(k, s, "mid", f)
  BY <1>3 DEF WillShow
<1>10. \A s : Shows(h, s) <=> Shows(k, s)
  BY <1>3 DEF Shows, Pictures
<1>11. Whole(k, n, h.middle)
  BY <1>0, <1>1, <1>2, <1>3 DEF Screens, Whole
<1>12. ASSUME NEW s \in Gpu!Slots PROVE Showing(k, s, n, h.middle)
  <2>1. Showing(h, s, n, w)
    BY <1>0 DEF Screens
  <2>0. /\ \A f : WillShow(h, s, "real", f) => WillShow(k, s, "real", f)
        /\ \A f : WillShow(h, s, "mid", f) => WillShow(k, s, "mid", f)
    BY <1>9
  <2>2. \A j \in DOMAIN k.ops[s] : ToScreen(k.ops[s][j]) =>
           k.ops[s][j].slot = k.back /\ k.ops[s][j].frame <= n
    BY <1>3, <2>1 DEF Showing
  <2>3. \A d \in k.deliver[s] : d.slot = k.back /\ WillShow(k, s, "real", d.frame)
    BY <1>3, <2>0, <2>1 DEF Showing
  <2>4. ASSUME k.publish[s]
        PROVE  \E f \in 0 .. n : /\ Newer(k, h.middle, f) /\ WillShow(k, s, "real", f)
                                 /\ k.has[k.back] => WillShow(k, s, "mid", f)
    <3>1. PICK f \in 0 .. n : /\ Newer(h, w, f) /\ WillShow(h, s, "real", f)
                              /\ h.has[h.back] => WillShow(h, s, "mid", f)
      BY <1>3, <2>1, <2>4 DEF Showing
    <3>. QED BY <1>3, <1>8, <2>0, <3>1
  <2>. QED BY <2>2, <2>3, <2>4 DEF Showing
<1>13. Screens(k, n, h.middle)
  BY <1>0, <1>10, <1>11, <1>12 DEF Screens
<1>14. Paused(k, p, h.middle)
  <2>1. ASSUME NEW f, Ahead(h, w, "real", f) PROVE Ahead(k, h.middle, "real", f)
    <3>1. WillShow(k, k.cur, "real", f) /\ Newer(k, h.middle, f)
      <4>1. h.cur \in Gpu!Slots
        BY <1>0 DEF State
      <4>2. \A v : WillShow(h, h.cur, "real", v) => WillShow(k, h.cur, "real", v)
        BY <1>9, <4>1
      <4>. QED BY <1>3, <1>8, <2>1, <4>2 DEF Ahead
    <3>2. \A s \in Gpu!Slots : ~k.publish[s] /\ (Shows(k, s) => s = k.cur)
      BY <1>3, <1>10, <2>1 DEF Ahead
    <3>. QED BY <3>1, <3>2 DEF Ahead
  <2>. QED BY <1>3, <1>10, <2>1 DEF GpuHeld, Paused
<1>. QED BY <1>2, <1>4, <1>5, <1>6, <1>7, <1>13, <1>14 DEF GpuHeld, Good, k

LEMMA HeldLater ==
    ASSUME NEW n, NEW e, NEW w, Context(n, e), NEW h, NEW p, GpuHeld(h, n, e, p, w)
    PROVE  GpuHeld(h, n + 1, e, p, w)
BY GoodLater DEF GpuHeld

\* say_landed, at a command's end.
LEMMA SaidHeld ==
    ASSUME NEW n \in Nat, NEW e \in [Gpu!Cells -> Nat], NEW w, NEW h, NEW p, Good(h, n, e, w),
           Recording(h), Tells(h), Paused(h, p, w)
    PROVE  GpuHeld(Gpu!SayLanded(h, n), n, e, p, w)
BY SayGood DEF GpuHeld, Onward

\* copy_texture, whole.
LEMMA CopyIs ==
    ASSUME NEW e, NEW w, Context(seq, e), NEW g0, GpuHeld(g0, seq, e, Gpu!NoPair, w),
           NEW k \in Spans
    PROVE  GpuHeld(Gpu!SayLanded(Gpu!SendAhead(Gpu!CopyRecorded(Gpu!MakeRoom(Gpu!LandFirst(
                       Gpu!Poll(g0), k)), k)), seq + 1),
                   seq + 1, With(e, k), Gpu!NoPair, w)
<1>. DEFINE p == Gpu!Poll(g0)
            l == Gpu!LandFirst(p, k)
            m == Gpu!MakeRoom(l)
            c == Gpu!CopyRecorded(m, k)
            a == Gpu!SendAhead(c)
<1>1. Good(g0, seq, e, w) /\ Recording(g0) /\ Tells(g0) /\ Paused(g0, Gpu!NoPair, w)
  BY DEF GpuHeld
<1>2. Good(p, seq, e, w) /\ Recording(p) /\ Tells(p) /\ Paused(p, Gpu!NoPair, w)
  BY <1>1, PollGood DEF Follows, Onward
<1>. HIDE DEF p
<1>3. Good(l, seq, e, w) /\ Recording(l) /\ Tells(l) /\ Paused(l, Gpu!NoPair, w) /\ Free(l, k)
  BY <1>2, LandFirstIs DEF Follows, Onward
<1>. HIDE DEF l
<1>4. Good(m, seq, e, w) /\ Recording(m) /\ Tells(m) /\ Paused(m, Gpu!NoPair, w) /\ Free(m, k)
      /\ ~Gpu!Full(m)
  BY <1>3, MakeRoomIs DEF Follows
<1>. HIDE DEF m
<1>5. Good(c, seq + 1, With(e, k), w) /\ Recording(c) /\ Tells(c) /\ Paused(c, Gpu!NoPair, w)
  BY <1>4, CopyRecordedIs DEF Onward
<1>. HIDE DEF c
<1>6. Context(seq + 1, With(e, k)) /\ seq + 1 \in Nat /\ With(e, k) \in [Gpu!Cells -> Nat]
  BY WithIs DEF Context
<1>7. Good(a, seq + 1, With(e, k), w) /\ Recording(a) /\ Tells(a) /\ Paused(a, Gpu!NoPair, w)
  BY <1>5, <1>6, SendAheadIs
<1>. HIDE DEF a
<1>8. GpuHeld(Gpu!SayLanded(a, seq + 1), seq + 1, With(e, k), Gpu!NoPair, w)
  BY <1>6, <1>7, SaidHeld
<1>. QED BY <1>8 DEF a, c, m, l, p

\* The submissions that wait.
LEMMA FinishedHeld ==
    ASSUME NEW e, NEW w, Context(seq, e), NEW h, NEW p, GpuHeld(h, seq, e, p, w)
    PROVE  /\ GpuHeld(Gpu!FinishAll(h), seq, e, p, w)
           /\ GpuHeld(Gpu!SubmitWait(h), seq, e, p, w)
           /\ GpuHeld(Gpu!Poll(h), seq, e, p, w)
<1>0. Good(h, seq, e, w) /\ Recording(h) /\ Told(h, e) /\ Tells(h) /\ Paused(h, p, w)
  BY DEF GpuHeld
<1>1. ASSUME NEW k, Good(k, seq, e, w), Recording(k), Follows(h, k, e), Onward(h, k, w)
      PROVE  GpuHeld(k, seq, e, p, w)
  BY <1>0, <1>1, FollowsTold DEF GpuHeld, Onward
<1>. DEFINE f == Gpu!FinishAll(h)
            s == Gpu!SubmitWait(h)
            q == Gpu!Poll(h)
<1>2. Good(f, seq, e, w) /\ Recording(f) /\ Follows(h, f, e) /\ Onward(h, f, w)
  BY <1>0, FinishAllIs
<1>3. Good(s, seq, e, w) /\ Recording(s) /\ Follows(h, s, e) /\ Onward(h, s, w)
  BY <1>0, SubmitWaitIs
<1>4. Good(q, seq, e, w) /\ Recording(q) /\ Follows(h, q, e) /\ Onward(h, q, w)
  BY <1>0, PollGood
<1>. HIDE DEF f, s, q
<1>5. GpuHeld(f, seq, e, p, w) /\ GpuHeld(s, seq, e, p, w) /\ GpuHeld(q, seq, e, p, w)
  BY <1>1, <1>2, <1>3, <1>4
<1>. QED BY <1>5 DEF f, s, q

-----------------------------------------------------------------------------

GpuInv ==
    /\ seq \in Nat /\ exact \in [Gpu!Cells -> Nat]
    /\ pair \in [frame : Nat, sync : BOOLEAN] /\ pair.frame <= seq
    /\ GpuHeld(g, seq, exact, pair, window)

LEMMA GpuContext ==
    ASSUME GpuInv
    PROVE  Context(seq, exact)
BY DEF GpuInv, Context

\* What a draw may sample is a texture decoded or a copy's image, landed or to come.
LEMMA SampledIs ==
    ASSUME GpuInv, NEW x \in Gpu!Sampled
    PROVE  x \in Content /\ Known(g, x)
<1>0. g \in State
  BY DEF GpuInv, GpuHeld, Good
<1>1. CASE \E t \in Textures : x = Gpu!Texture(t)
  BY <1>1, GpuAssumption DEF Gpu!Texture, Content, Known
<1>2. CASE \E c \in Gpu!Images : x = Gpu!CopyOf(c)
  <2>1. PICK c \in Gpu!Images : x = Gpu!CopyOf(c)
    BY <1>2
  <2>2. CASE c \in g.filled
    BY <1>0, <2>1, <2>2 DEF Gpu!CopyOf, Content, Known, State
  <2>3. CASE \E s \in Gpu!Slots : c \in Gpu!ImagesOf(g.lands[s])
    <3>1. PICK s \in Gpu!Slots : c \in Gpu!ImagesOf(g.lands[s])
      BY <2>3
    <3>2. c \in Nat /\ \E i \in DOMAIN g.lands[s] : g.lands[s][i].image /\ g.lands[s][i].seq = c
      BY <1>0, <3>1, ImagesAre
    <3>. QED BY <2>1, <3>2 DEF Gpu!CopyOf, Content, Known
  <2>4. c \in g.filled \/ \E s \in Gpu!Slots : c \in Gpu!ImagesOf(g.lands[s])
    BY <2>1 DEF Gpu!Images
  <2>. QED BY <2>2, <2>3, <2>4
<1>. QED BY <1>1, <1>2 DEF Gpu!Sampled

\* Each step keeps the invariant.
LEMMA DrawKeeps ==
    ASSUME GpuInv, NEW x \in Gpu!Sampled, NEW full \in BOOLEAN, Gpu!Draw(x, full)
    PROVE  GpuInv'
<1>1. Context(seq, exact) /\ x \in Content /\ Known(g, x) /\ pair = Gpu!NoPair
      /\ GpuHeld(g, seq, exact, Gpu!NoPair, window)
  BY GpuContext, SampledIs DEF Gpu!Draw, GpuInv
<1>. DEFINE h == IF full THEN Gpu!SubmitNext(Gpu!Poll(g)) ELSE Gpu!Poll(g)
<1>2. GpuHeld(h, seq, exact, Gpu!NoPair, window) /\ Known(h, x)
  BY <1>1, FullHeld
<1>3. g' = LET first == Gpu!Upload(h, x)
               put == IF first.at = 0 THEN Gpu!Upload(Gpu!SubmitNext(first.h), x) ELSE first
           IN Gpu!Record(put.h, <<[op |-> "sample", at |-> put.at, want |-> x]>>)
  BY DEF Gpu!Draw
<1>. HIDE DEF h
<1>4. GpuHeld(g', seq, exact, Gpu!NoPair, window)
  BY <1>1, <1>2, <1>3, SamplingHeld DEF GpuHeld
<1>5. GpuHeld(g', seq + 1, exact, Gpu!NoPair, window)
  BY <1>1, <1>4, HeldLater
<1>. QED BY <1>1, <1>5 DEF GpuInv, Gpu!Draw, Gpu!Command

LEMMA ClearKeeps ==
    ASSUME GpuInv, Gpu!Clear
    PROVE  GpuInv'
<1>1. GpuHeld(Gpu!Poll(g), seq, exact, pair, window)
  BY GpuContext, FinishedHeld DEF GpuInv
<1>2. GpuHeld(g', seq, exact, pair, window)
  BY <1>1, NothingIs DEF Gpu!Clear
<1>3. GpuHeld(g', seq + 1, exact, pair, window)
  BY <1>2, GpuContext, HeldLater
<1>. QED BY <1>3 DEF GpuInv, Gpu!Clear, Gpu!Command

LEMMA CopyTextureKeeps ==
    ASSUME GpuInv, NEW k \in Spans, Gpu!CopyTexture(k)
    PROVE  GpuInv'
<1>1. GpuHeld(g', seq + 1, With(exact, k), Gpu!NoPair, window)
      /\ With(exact, k) \in [Gpu!Cells -> Nat]
  BY GpuContext, CopyIs, WithIs DEF GpuInv, Gpu!CopyTexture, Context
<1>2. exact' = With(exact, k)
  BY DEF Gpu!CopyTexture, With
<1>. QED BY <1>1, <1>2 DEF GpuInv, Gpu!CopyTexture, Gpu!Command, Gpu!NoPair

LEMMA CopyRealKeeps ==
    ASSUME GpuInv, NEW ends \in BOOLEAN, NEW sync \in BOOLEAN, Gpu!CopyReal(ends, sync)
    PROVE  GpuInv'
<1>. DEFINE h == Gpu!HandOver(Gpu!Poll(g))
            frame == seq + 1
            pictured == Gpu!Record(h, <<[op |-> "real", slot |-> h.back, frame |-> frame]>>)
            read == Gpu!SubmitWait(pictured)
            taken == IF sync THEN [read EXCEPT !.screen = [is |-> read.real[h.back],
                                                           due |-> frame]]
                     ELSE [pictured EXCEPT !.deliver[h.cur] = {[slot |-> h.back, frame |-> frame]}]
            made == [taken EXCEPT !.has[h.back] = FALSE]
            r == IF ends THEN Gpu!ScreenEnd(made, sync) ELSE made
            q == IF ends THEN Gpu!NoPair ELSE [frame |-> frame, sync |-> sync]
<1>0. Context(seq, exact) /\ Good(g, seq, exact, window) /\ Recording(g) /\ Tells(g)
      /\ Paused(g, Gpu!NoPair, window) /\ seq \in Nat /\ exact \in [Gpu!Cells -> Nat]
  BY GpuContext DEF GpuInv, GpuHeld, Gpu!CopyReal
<1>1. Good(r, seq + 1, exact, window) /\ Recording(r) /\ Tells(r) /\ Paused(r, q, window)
  BY ZenonT(60), <1>0, CopyRealIs
<1>2. g' = Gpu!SayLanded(r, seq + 1) /\ pair' = q /\ seq' = seq + 1 /\ window' = window
      /\ exact' = exact
  BY DEF Gpu!CopyReal, Gpu!Command
<1>3. q \in [frame : Nat, sync : BOOLEAN] /\ q.frame <= seq + 1
  BY <1>0 DEF Gpu!NoPair
<1>. HIDE DEF r, q
<1>4. GpuHeld(Gpu!SayLanded(r, seq + 1), seq + 1, exact, q, window)
  BY <1>0, <1>1, SaidHeld
<1>. QED BY <1>0, <1>2, <1>3, <1>4 DEF GpuInv

LEMMA CopyMidKeeps ==
    ASSUME GpuInv, Gpu!CopyMid
    PROVE  GpuInv'
<1>. DEFINE h == Gpu!HandOver(Gpu!Poll(g))
            pictured == Gpu!Record(h, <<[op |-> "mid", slot |-> h.back, frame |-> pair.frame]>>)
            made == [IF pair.sync THEN Gpu!SubmitWait(pictured) ELSE pictured
                        EXCEPT !.has[h.back] = TRUE]
            r == Gpu!ScreenEnd(made, pair.sync)
<1>0. Context(seq, exact) /\ Good(g, seq, exact, window) /\ Recording(g) /\ Tells(g)
      /\ Paused(g, pair, window) /\ seq \in Nat /\ exact \in [Gpu!Cells -> Nat]
      /\ pair # Gpu!NoPair /\ pair.sync \in BOOLEAN /\ pair.frame \in 0 .. seq
  BY GpuContext DEF GpuInv, GpuHeld, Gpu!CopyMid
<1>1. Good(r, seq, exact, window) /\ Recording(r) /\ Tells(r) /\ Paused(r, Gpu!NoPair, window)
  BY <1>0, CopyMidIs
<1>2. g' = Gpu!SayLanded(r, seq + 1) /\ pair' = Gpu!NoPair /\ seq' = seq + 1 /\ window' = window
      /\ exact' = exact
  BY DEF Gpu!CopyMid
<1>. HIDE DEF r
<1>3. Good(r, seq + 1, exact, window)
  BY <1>0, <1>1, GoodLater
<1>4. GpuHeld(Gpu!SayLanded(r, seq + 1), seq + 1, exact, Gpu!NoPair, window)
  BY <1>0, <1>1, <1>3, SaidHeld
<1>. QED BY <1>0, <1>2, <1>4 DEF GpuInv, Gpu!NoPair

LEMMA BetweenKeeps ==
    ASSUME GpuInv, Gpu!Settle \/ Gpu!Idle \/ Gpu!ResetEfb \/ Gpu!Gpu \/ Gpu!Take
    PROVE  GpuInv'
<1>0. Context(seq, exact) /\ GpuHeld(g, seq, exact, pair, window) /\ seq \in Nat
  BY GpuContext DEF GpuInv
<1>1. GpuHeld(Gpu!FinishAll(g), seq, exact, pair, window)
      /\ GpuHeld(Gpu!SubmitWait(g), seq, exact, pair, window)
  BY <1>0, FinishedHeld
<1>2. CASE Gpu!Settle
  BY <1>1, <1>2 DEF GpuInv, Gpu!Settle
<1>3. CASE Gpu!Idle
  BY <1>1, <1>3 DEF GpuInv, Gpu!Idle
<1>4. CASE Gpu!ResetEfb
  BY <1>1, <1>4, NothingIs DEF GpuInv, Gpu!ResetEfb
<1>5. CASE Gpu!Gpu
  BY <1>0, <1>5, GpuIs DEF GpuInv, Gpu!Gpu
<1>6. CASE Gpu!Take
  BY <1>0, <1>6, TakeIs DEF GpuInv, Gpu!Take
<1>. QED BY <1>2, <1>3, <1>4, <1>5, <1>6

LEMMA GpuNextInv ==
    ASSUME GpuInv, [Gpu!Next]_Gpu!vars
    PROVE  GpuInv'
<1>1. CASE UNCHANGED Gpu!vars
  BY <1>1 DEF Gpu!vars, GpuInv, GpuHeld, Good, Kept, Lands, Draws, Screens, Recording, Told,
              Tells, Paused
<1>. QED BY <1>1, DrawKeeps, ClearKeeps, CopyTextureKeeps, CopyRealKeeps, CopyMidKeeps, BetweenKeeps
         DEF Gpu!Next

\* Nothing is recorded, in flight or shown.
LEMMA GpuInitInv ==
    ASSUME Gpu!Init
    PROVE  GpuInv
<1>0. /\ seq = 0 /\ window = 2 /\ pair = Gpu!NoPair /\ exact = [c \in Gpu!Cells |-> 0]
      /\ exact \in [Gpu!Cells -> Nat]
  BY DEF Gpu!Init
<1>1. g \in State
  BY <1>0, SlotsAre, GpuAssumption DEF Gpu!Init, State, Gpu!InSlots, Gpu!InPictures, Gpu!Nothing,
                                       Gpu!Texture, Content
<1>2. /\ g.cur = 0 /\ g.used = 0 /\ g.resident = {} /\ g.filled = {} /\ g.said = 0 /\ g.back = 0
      /\ g.middle = 1 /\ ~g.fresh /\ ~g.missed /\ g.ram = exact /\ g.screen.is = g.screen.due
      /\ \A t \in 0 .. 2 : g.real[t] = 0 /\ ~g.has[t]
      /\ \A s \in Gpu!Slots : /\ ~g.rec[s] /\ ~g.inflight[s] /\ ~g.done[s] /\ g.ops[s] = <<>>
                              /\ g.lands[s] = <<>> /\ g.cimg[s] = {} /\ g.deliver[s] = {}
                              /\ ~g.publish[s] /\ DOMAIN g.ops[s] = {} /\ DOMAIN g.lands[s] = {}
  BY DEF Gpu!Init, Gpu!InSlots, Gpu!InPictures
<1>3. 0 \in Gpu!Slots
  BY SlotsAre
<1>4. Kept(g) /\ Recording(g)
  BY <1>2, <1>3 DEF Kept, Clean, Paired, Recording
<1>5. Lands(g, seq, exact) /\ Told(g, exact)
  BY <1>0, <1>2 DEF Lands, Rising, Apart, Told
<1>6. Draws(g)
  BY <1>2, <1>3 DEF Draws, Upto, Sound, Ordered
<1>7. \A s \in Gpu!Slots : ~Shows(g, s) /\ ~Pictures(g, s)
  BY <1>2 DEF Shows, Pictures
<1>8. Screens(g, seq, window)
  <2>1. Whole(g, seq, window)
    BY <1>0, <1>2 DEF Whole
  <2>2. \A s \in Gpu!Slots : Showing(g, s, seq, window)
    BY <1>2 DEF Showing
  <2>. QED BY <1>7, <2>1, <2>2 DEF Screens
<1>9. Tells(g) /\ Paused(g, pair, window)
  BY <1>0, <1>2, <1>3, <1>7 DEF Tells, Paused
<1>. QED BY <1>0, <1>1, <1>4, <1>5, <1>6, <1>8, <1>9 DEF GpuInv, GpuHeld, Good, Gpu!NoPair

\* The inductive invariant: each draw will sample its own, each copy still to land
\* is the one that wrote its bytes, and each frame to be handed over is whole.
THEOREM GpuInvariant == Gpu!Spec => []GpuInv
BY GpuInitInv, GpuNextInv, PTL DEF Gpu!Spec

LEMMA WholeIsGpu == GuestSpec => Gpu!Spec
<1>1. GuestInit => Gpu!Init
  BY DEF GuestInit
<1>2. [GuestNext]_guestVars => [Gpu!Next]_Gpu!vars
  <2>. SUFFICES ASSUME [GuestNext]_guestVars PROVE [Gpu!Next]_Gpu!vars
    OBVIOUS
  <2>1. Gpu!Next \/ UNCHANGED gpuVars
    BY DEF GuestNext, Beside, guestVars
  <2>. QED BY <2>1 DEF gpuVars, Gpu!vars
<1>. QED BY <1>1, <1>2, PTL DEF GuestSpec, Gpu!Spec

\* Of the whole: a draw's texels are those it was recorded with, whatever either slot
\* uploads, copies or carries before the GPU reads them (upload_texture, pool_claim).
THEOREM DrawsSampleTheirsHolds == GuestSpec => []DrawsSampleTheirs
<1>1. GpuInv => DrawsSampleTheirs
  BY DEF GpuInv, GpuHeld, Good, Draws, DrawsSampleTheirs, Gpu!DrawsSampleTheirs
<1>. QED BY <1>1, WholeIsGpu, GpuInvariant, PTL

\* A cell not yet right is covered by the copy that wrote it, which is not said to have landed.
LEMMA LandedHolds ==
    ASSUME GpuInv
    PROVE  Gpu!LandedIsThere
<1>0. /\ g \in State /\ Lands(g, seq, exact) /\ \A c \in Gpu!Cells : exact[c] \in Nat
      /\ g.said \in Nat
  BY DEF GpuInv, GpuHeld, Good, State
<1>1. SUFFICES ASSUME NEW c \in Gpu!Cells, g.ram[c] # exact[c]
               PROVE  exact[c] > g.said
  BY <1>0 DEF Gpu!LandedIsThere
<1>2. PICK s \in Gpu!Slots : \E i \in DOMAIN g.lands[s] : c \in DOMAIN g.lands[s][i].bytes
  BY <1>0, <1>1 DEF Lands, Covered
<1>3. PICK i \in DOMAIN g.lands[s] : c \in DOMAIN g.lands[s][i].bytes
  BY <1>2
<1>4. Coming(g, seq, exact, g.lands[s][i]) /\ g.lands[s][i].seq \in Nat
  BY <1>0, LandsAre DEF Lands
<1>. QED BY <1>0, <1>1, <1>3, <1>4 DEF Coming

\* Of the whole: what is said to have landed is in guest RAM, under no older copy's
\* bytes (say_landed, copy_texture).
THEOREM LandedIsThereHolds == GuestSpec => []LandedIsThere
<1>1. GpuInv => LandedIsThere
  BY LandedHolds DEF LandedIsThere
<1>. QED BY <1>1, WholeIsGpu, GpuInvariant, PTL

\* What is recorded or in flight draws into the back slot alone.
LEMMA ScreensHolds ==
    ASSUME GpuInv
    PROVE  Gpu!ScreensWhole
<1>0. g \in State /\ Screens(g, seq, window)
  BY DEF GpuInv, GpuHeld, Good
<1>1. Whole(g, seq, window)
  BY <1>0 DEF Screens
<1>2. \A t \in Gpu!ToBeWritten : t = g.back
  <2>1. SUFFICES ASSUME NEW s \in Gpu!Slots, NEW o \in Gpu!ToSet(g.ops[s]), ToScreen(o)
                 PROVE  o.slot = g.back
    BY DEF Gpu!ToBeWritten, ToScreen
  <2>2. PICK j \in DOMAIN g.ops[s] : o = g.ops[s][j]
    BY DEF Gpu!ToSet
  <2>. QED BY <1>0, <2>1, <2>2 DEF Screens, Showing
<1>3. window \in 0 .. 2 /\ g.middle \in 0 .. 2 /\ g.back # window /\ g.middle # g.back
  BY <1>0, <1>1, StateScreens DEF Whole
<1>4. ASSUME NEW s \in Gpu!Shown
      PROVE  s \notin Gpu!ToBeWritten /\ (g.has[s] => g.mid[s] = g.real[s])
  BY <1>1, <1>2, <1>3 DEF Gpu!Shown, Whole
<1>. QED BY <1>1, <1>4 DEF Gpu!ScreensWhole, Whole

\* Of the whole: the window's picture and the one waiting are whole frames, the newer
\* after the older, and the renderer's screen is its own (copy_screen, slot_finish).
THEOREM ScreensWholeHolds == GuestSpec => []ScreensWhole
<1>1. GpuInv => ScreensWhole
  BY ScreensHolds DEF ScreensWhole
<1>. QED BY <1>1, WholeIsGpu, GpuInvariant, PTL

\* With nothing in flight the other slot has nothing to land.
LEMMA StrandedHolds ==
    ASSUME GpuInv
    PROVE  Gpu!NoneStranded
<1>0. g \in State /\ Kept(g) /\ Told(g, exact)
  BY DEF GpuInv, GpuHeld, Good
<1>1. SUFFICES ASSUME ~Gpu!IdleHasWork(g) PROVE \A s \in Gpu!Slots : g.lands[s] = <<>>
  BY <1>0 DEF Gpu!NoneStranded, Told
<1>2. g.lands[g.cur] = <<>> /\ ~Gpu!InFlight(g)
  BY <1>1 DEF Gpu!IdleHasWork
<1>3. ASSUME NEW s \in Gpu!Slots, s # g.cur PROVE g.lands[s] = <<>>
  BY <1>0, <1>2, <1>3, OtherIs DEF Gpu!InFlight, Kept, Clean
<1>. QED BY <1>2, <1>3

\* Of the whole: where the consumer's idle finds nothing to do every copy has been said
\* to land (timed_idle).
THEOREM NoneStrandedHolds == GuestSpec => []NoneStranded
<1>1. GpuInv => NoneStranded
  BY StrandedHolds DEF NoneStranded
<1>. QED BY <1>1, WholeIsGpu, GpuInvariant, PTL
=============================================================================

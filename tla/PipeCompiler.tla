---------------------------- MODULE PipeCompiler ----------------------------
(***************************************************************************)
(* The Vulkan backend's specialised pipelines (gxv.c, V7): the draw path   *)
(* asks for a state's pipeline with a TEV shape; one not made yet goes     *)
(* through a ring of jobs to the compiler thread, and until it is there    *)
(* the state's interpreter draws.  The draw path is the ring's only        *)
(* producer and the thread its only consumer.  A run may also make them on *)
(* the draw path, or none.                                                 *)
(*                                                                         *)
(* The table is a function from what a slot is for, a state and a shape,   *)
(* to what is in it: with no slot ever freed, the probing of pipe_find     *)
(* finds an entry wherever it lies.                                        *)
(***************************************************************************)
EXTENDS BackendConstants, FiniteSets

VARIABLES
    mode,        \* g_specialize: "background", "wait" or "off"
    table,       \* g_pipes: [pipe, ready] by state and shape
    head, tail,  \* g_jobs_head, g_jobs_tail
    job,         \* g_jobs: a state, and a slot by what it is for
    draw,        \* the draw path: where it is, and the draw's state and shape
    thread,      \* the compiler thread: where it is, its tail, the job it has read
    stop, running,  \* g_compiler_stop, g_compiler_running
    drawn,       \* history: the last draw, and the pipeline it was given
    draws

vars == <<mode, table, head, tail, job, draw, thread, stop, running, drawn, draws>>

Interp == "interp"
None == "none"
Slot == Keys \X (Shapes \cup {Interp})
NoJob == [state |-> None, slot |-> <<None, None>>]

Init ==
    /\ table = << >> /\ head = 0 /\ tail = 0
    /\ job = [j \in 0 .. Jobs - 1 |-> NoJob]
    /\ draw = [at |-> "idle", of |-> <<None, None>>]
    /\ thread = [at |-> "look", tail |-> 0, job |-> NoJob]
    /\ mode \in {"background", "wait", "off"}
    /\ stop = FALSE /\ running = (mode = "background")
    /\ drawn = [asked |-> <<None, None>>, pipe |-> <<None, None>>] /\ draws = 0

-----------------------------------------------------------------------------
(* The draw path *)

Known(slot) == slot \in DOMAIN table
Full == Cardinality(DOMAIN table) = PipeSlots
Put(slot, entry) == table' = [s \in DOMAIN table \cup {slot} |->
                                  IF s = slot THEN entry ELSE table[s]]

\* pipeline() returns p.
Return(p) ==
    /\ drawn' = [asked |-> draw.of, pipe |-> p]
    /\ draw' = [draw EXCEPT !.at = "idle"]

Ask ==
    /\ draw.at = "idle" /\ draws < MaxDraws /\ draws' = draws + 1
    /\ \E of \in Keys \X Shapes : draw' = [at |-> "find", of |-> of]
    /\ UNCHANGED <<mode, table, head, tail, job, thread, stop, running, drawn>>

\* The shape's pipeline if it is there and made; else the interpreter.  A state
\* of the interlock route is the interpreter's too, as with "off".
Made_Queued(entry) == entry.ready >= 0
Made(entry) == entry.ready = 1
Find ==
    /\ draw.at = "find"
    /\ IF mode = "off"
       THEN draw' = [draw EXCEPT !.at = "interp"] /\ UNCHANGED drawn
       ELSE IF Known(draw.of)
       THEN IF Made(table[draw.of])
            THEN Return(table[draw.of].pipe)
            ELSE draw' = [draw EXCEPT !.at = "interp"] /\ UNCHANGED drawn
       ELSE /\ draw' = [draw EXCEPT !.at = IF Full THEN "interp" ELSE "new"]
            /\ UNCHANGED drawn
    /\ UNCHANGED <<mode, table, head, tail, job, thread, stop, running, draws>>

\* SOA_GPU_SPECIALIZE=wait: made here, and a failed one remembered.
MakeHere ==
    /\ draw.at = "new" /\ mode = "wait"
    /\ \/ Put(draw.of, [pipe |-> draw.of, ready |-> 1]) /\ Return(draw.of)
       \/ /\ draw.of[2] \in CanFail
          /\ Put(draw.of, [pipe |-> <<None, None>>, ready |-> -1])
          /\ draw' = [draw EXCEPT !.at = "interp"] /\ UNCHANGED drawn
    /\ UNCHANGED <<mode, head, tail, job, thread, stop, running, draws>>

\* A full ring is asked again at the next draw; else the slot is filled in, ...
Room_One == head - tail <= Jobs
Room == head - tail < Jobs
FillSlot ==
    /\ draw.at = "new" /\ mode = "background"
    /\ IF Room
       THEN /\ Put(draw.of, [pipe |-> <<None, None>>, ready |-> 0])
            /\ draw' = [draw EXCEPT !.at = "state"]
       ELSE /\ draw' = [draw EXCEPT !.at = "interp"] /\ UNCHANGED table
    /\ UNCHANGED <<mode, head, tail, job, thread, stop, running, drawn, draws>>

\* ... then the job, its state and its slot, ...
JobState ==
    /\ draw.at = "state"
    /\ job' = [job EXCEPT ![head % Jobs].state = draw.of[1]]
    /\ draw' = [draw EXCEPT !.at = "slot"]
    /\ UNCHANGED <<mode, table, head, tail, thread, stop, running, drawn, draws>>

JobSlot ==
    /\ draw.at = "slot"
    /\ job' = [job EXCEPT ![head % Jobs].slot = draw.of]
    /\ draw' = [draw EXCEPT !.at = "publish"]
    /\ UNCHANGED <<mode, table, head, tail, thread, stop, running, drawn, draws>>

\* ... and both are published.
Publish ==
    /\ draw.at = "publish"
    /\ head' = head + 1
    /\ draw' = [draw EXCEPT !.at = "interp"]
    /\ UNCHANGED <<mode, table, tail, job, thread, stop, running, drawn, draws>>

\* The interpreter's for the state, made here the first time; with the table
\* full, or when the driver fails, the draw has none.
InterpSlot == <<draw.of[1], Interp>>
Interpret ==
    /\ draw.at = "interp"
    /\ \/ /\ Known(InterpSlot)
          /\ Return(table[InterpSlot].pipe) /\ UNCHANGED table
       \/ /\ ~Known(InterpSlot) /\ ~Full
          /\ Put(InterpSlot, [pipe |-> InterpSlot, ready |-> 1])
          /\ Return(InterpSlot)
       \/ /\ ~Known(InterpSlot) /\ (Full \/ Interp \in CanFail)
          /\ Return(<<None, None>>) /\ UNCHANGED table
    /\ UNCHANGED <<mode, head, tail, job, thread, stop, running, draws>>

\* compiler_stop, from the shutdown: the draw path is over.
Stop ==
    /\ draw.at = "idle" /\ draw' = [draw EXCEPT !.at = "over"]
    /\ stop' = running
    /\ UNCHANGED <<mode, table, head, tail, job, thread, running, drawn, draws>>

\* Its wait over, gxv_shutdown destroys the pipelines.
Destroy ==
    /\ draw.at = "over" /\ ~running
    /\ draw' = [draw EXCEPT !.at = "gone"] /\ table' = << >>
    /\ UNCHANGED <<mode, head, tail, job, thread, stop, running, drawn, draws>>

-----------------------------------------------------------------------------
(* The compiler thread *)

At(here) ==
    /\ mode = "background" /\ thread.at = here
    /\ UNCHANGED <<mode, head, job, draw, stop, drawn, draws>>

Look ==
    /\ At("look")
    /\ IF stop
       THEN running' = FALSE /\ thread' = [thread EXCEPT !.at = "ended"]
       ELSE /\ thread.tail < head
            /\ thread' = [thread EXCEPT !.at = "state"] /\ UNCHANGED running
    /\ UNCHANGED <<table, tail>>

ReadState ==
    /\ At("state")
    /\ thread' = [thread EXCEPT !.at = "slot", !.job.state = job[thread.tail % Jobs].state]
    /\ UNCHANGED <<table, tail, running>>

ReadSlot ==
    /\ At("slot")
    /\ thread' = [thread EXCEPT !.at = "take", !.job.slot = job[thread.tail % Jobs].slot]
    /\ UNCHANGED <<table, tail, running>>

\* The job read, its place is free for the draw path.
Take ==
    /\ At("take")
    /\ tail' = thread.tail + 1
    /\ thread' = [thread EXCEPT !.at = "make", !.tail = @ + 1]
    /\ UNCHANGED <<table, running>>

\* pipe_make, of the job's state and the slot's shape; the pipeline is stored
\* before ready says so.
Make ==
    /\ At("make")
    /\ \/ /\ table' = [table EXCEPT ![thread.job.slot].pipe =
                            <<thread.job.state, thread.job.slot[2]>>]
          /\ thread' = [thread EXCEPT !.at = "ready"]
       \/ /\ thread.job.slot[2] \in CanFail
          /\ table' = [table EXCEPT ![thread.job.slot].ready = -1]
          /\ thread' = [thread EXCEPT !.at = "look"]
    /\ UNCHANGED <<tail, running>>

Ready ==
    /\ At("ready")
    /\ table' = [table EXCEPT ![thread.job.slot].ready = IF @ = 0 THEN 1 ELSE @]
    /\ thread' = [thread EXCEPT !.at = "look"]
    /\ UNCHANGED <<tail, running>>

Thread == Look \/ ReadState \/ ReadSlot \/ Take \/ Make \/ Ready
DrawPath == Ask \/ Find \/ MakeHere \/ FillSlot \/ JobState \/ JobSlot \/ Publish \/ Interpret \/ Stop \/ Destroy

Next == DrawPath \/ Thread

Spec == Init /\ [][Next]_vars /\ WF_vars(Thread)

-----------------------------------------------------------------------------

\* A slot's jobs: in the ring, at the thread and at the draw path.
InRing(slot) == {j \in tail .. head - 1 : job[j % Jobs].slot = slot}
AtThread(slot) == thread.at \in {"make", "ready"} /\ thread.job.slot = slot
AtDraw(slot) == draw.at \in {"state", "slot", "publish"} /\ draw.of = slot
OnTheWay(slot) ==
    Cardinality(InRing(slot))
    + (IF AtThread(slot) THEN 1 ELSE 0) + (IF AtDraw(slot) THEN 1 ELSE 0)

\* A draw is given its own shape's pipeline, whole and made of its own state, or that
\* state's interpreter, and only no slot or a driver's failure leaves it without.
OwnPipe ==
    \/ drawn.pipe \in {drawn.asked, <<drawn.asked[1], Interp>>}
    \/ drawn.pipe = <<None, None>> /\ ~Known(<<drawn.asked[1], Interp>>)

\* A slot that is filled in is made, failed, or on its way through the ring once.
MadeOnce ==
    draw.at # "gone" =>
        \A slot \in DOMAIN table : OnTheWay(slot) = IF table[slot].ready = 0 THEN 1 ELSE 0

\* DrawnWithItsOwn: both of these, whatever of the ring's and the table's steps
\* interleave (pipeline, compiler_main).
DrawnWithItsOwn == OwnPipe /\ MadeOnce
=============================================================================

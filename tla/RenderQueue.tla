---------------------------- MODULE RenderQueue ----------------------------
(***************************************************************************)
(* The software renderer's command queue (runtime/gxr.c): one producer,    *)
(* the thread that parses the guest's graphics stream, and N workers that  *)
(* each run every command over the EFB rows they own (y mod N = w - 1).    *)
(* Commands are numbered and never renumbered; command n lives in slot     *)
(* n mod QueueCap.  A worker's only shared word is its own count ran[w].   *)
(* Workers hold each other at fences; the producer waits for one command   *)
(* (wait_ran) or for all of them (drain), and only a drain recycles.       *)
(*                                                                         *)
(* A handler of the producer (a draw, a copy) is one action that does its  *)
(* drains and lookups and leaves in todo the commands it will publish;     *)
(* Publish is claim_slot + publish for the next of them.  A wait is the    *)
(* guard of the step that follows it: the producer does nothing else.      *)
(*                                                                         *)
(* Abstracted: pixels (who reads and writes whose rows is kept), vertices  *)
(* (a draw takes one arena block), guest memory (a set of Cells), and the  *)
(* spinning and sleeping of a wait (see RenderPark).                       *)
(***************************************************************************)
EXTENDS Integers, Sequences, FiniteSets, FiniteSetsExt

CONSTANTS
    N,            \* worker threads; the pool is running (g_workers > 0)
    QueueCap,     \* QUEUE_CAP: slots of the ring, and of the copy list
    ArenaBlocks,  \* ARENA_BYTES, in draws' vertex blocks
    Cells,        \* places in guest memory
    Textures,     \* the textures there are, each the set of cells it spans
    DrawSets,     \* the sets of textures a draw samples
    CopyShapes,   \* the EFB copies the guest programs
    MidModes,     \* values interp_on() takes, decided anew at each frame end
    TokenWaits,   \* values SOA_GXR_TOKENWAIT takes, token by token
    MaxCommands   \* bound on the commands published, for TLC

Workers == 1 .. N
Reach   == {"own", "near", "all"}   \* whose rows a copy reads besides the worker's own
Nothing == -1                       \* no command: an empty lookup, or the CPU's own write

CopyShape == [reach : Reach, screen : BOOLEAN, clears : BOOLEAN,
              dest : SUBSET Cells, packed : BOOLEAN]

ASSUME QueueAssumption ==
    /\ N \in Nat \ {0}
    /\ QueueCap \in Nat \ {0}
    /\ ArenaBlocks \in Nat /\ ArenaBlocks >= 2
    /\ Textures \subseteq SUBSET Cells
    /\ DrawSets \subseteq SUBSET Textures
    /\ CopyShapes \subseteq CopyShape
    /\ \A sh \in CopyShapes : sh.screen => sh.dest = {}
    /\ MidModes \subseteq BOOLEAN /\ MidModes # {}
    /\ TokenWaits \subseteq BOOLEAN
    /\ MaxCommands \in Nat

VARIABLES
    \* shared words
    published,    \* g_published
    ran,          \* g_ran[w]
    queue,        \* g_queue: slot -> command
    presented,    \* g_frames_presented
    \* each worker
    pc,           \* "idle", "fence" (in fence_wait) or "run" (in draw_command)
    at,           \* the worker fence_wait is looking at
    \* the producer's own
    todo,         \* commands the handler under way has still to publish
    floor,        \* g_ran_floor
    fenceAfter, fenceNear,   \* g_fence_after, g_fence_after_near
    gate,         \* g_frame_gate
    arena,        \* g_arena_used, in blocks
    pending,      \* g_pending: copies to memory since the last drain
    image,        \* TexEntry.copy_cmd of the textures with from_copy set, else Nothing
    lastCopy,     \* g_last_copy
    mid,          \* interp_on(): every draw is queued again for EFB 1
    reading,      \* cells the producer is reading at this moment
    \* the guest's, and history
    cpuOwns,      \* cells whose copies the guest has been told are over
    lastWriter,   \* cell -> the last command, or CPU write, in program order
    screens       \* worker -> frames it has copied its rows of

shared   == <<published, ran, queue, presented>>
worker   == <<pc, at>>
producer == <<todo, floor, fenceAfter, fenceNear, gate, arena, pending, image,
              lastCopy, mid, reading>>
guest    == <<cpuOwns, lastWriter>>
vars     == <<shared, worker, producer, guest, screens>>

-----------------------------------------------------------------------------
(* Commands.                                                               *)

Command == [seq : Nat, fence : Nat, near : Nat, kind : {"draw", "copy", "clear"},
            efb : {0, 1}, reach : Reach, fused : BOOLEAN, screen : BOOLEAN,
            dest : SUBSET Cells, images : SUBSET Nat, block : Nat]

\* A command as a handler builds it, before claim_slot numbers and fences it.
\* "entry" is what the handler asks of claim_slot: a fence at want, or at the
\* command itself for its neighbours ("near") or for every worker ("all").
Blank == [kind |-> "draw", efb |-> 0, reach |-> "own", fused |-> FALSE, screen |-> FALSE,
          dest |-> {}, images |-> {}, block |-> 0, want |-> 0, entry |-> "want",
          packed |-> FALSE, ends |-> FALSE]

Least(a, b)    == IF a < b THEN a ELSE b
Greatest(a, b) == IF a > b THEN a ELSE b

Prev(w) == IF w > 1 THEN w - 1 ELSE N
Next1(w) == IF w < N THEN w + 1 ELSE 1

\* The workers whose rows w reads when it runs a copy of this reach.
RowOwners(w, reach) ==
    CASE reach = "own"  -> {}
      [] reach = "near" -> {Prev(w), Next1(w)} \ {w}
      [] reach = "all"  -> Workers \ {w}

Finished(c) == \A w \in Workers : ran[w] > c

\* wait_ran and done_min: the producer is past command c.
WaitRan_OffByOne(c) == \A w \in Workers : ran[w] >= c
WaitRan(c) == Finished(c)

Quiescent   == \A w \in Workers : ran[w] = published
Ready       == todo = <<>> /\ reading = {}
Room(k)     == published + k <= MaxCommands

-----------------------------------------------------------------------------
(* The copy list: pending_overlap, gxr_pending_newest.                     *)

Over(list, cells) == {p.cmd : p \in {q \in list : q.dest \cap cells # {}}}

\* The list is in publish order, so the last overlap in it is the newest.
Newest(list, cells) == Max(Over(list, cells) \cup {Nothing})

Forget_Nothing(list, cells) == list
Forget(list, cells) == {p \in list : p.dest \cap cells = {}}

-----------------------------------------------------------------------------
(* drain(), when cond holds: every worker has finished everything, and the *)
(* producer's storage is handed out again.                                 *)

DrainIf_NoWait(cond) ==
    /\ floor' = IF cond THEN published ELSE floor
    /\ gate' = (gate /\ ~cond)

DrainIf(cond) ==
    /\ cond => Quiescent
    /\ floor' = IF cond THEN published ELSE floor
    /\ gate' = (gate /\ ~cond)

PendingAfter(cond) == IF cond THEN {} ELSE pending
ArenaAfter(cond)   == IF cond THEN 0 ELSE arena

-----------------------------------------------------------------------------
(* gxr_draw_inner.  The gate's and the arena's drains come before the      *)
(* textures are looked up.  A texture whose image is being made by the     *)
(* newest queued copy over it is sampled in the pool, behind a fence; any  *)
(* other waits for the copies over it and is read from memory here.        *)

ImageHit(list, t) == image[t] # Nothing /\ Newest(list, t) = image[t]

ArenaFull(used, blocks) == used + blocks > ArenaBlocks

\* tex_draw_fence: past every copy whose image the draw samples, no further.
ImageFence_OffByOne(images) == Greatest(0, Max(images \cup {Nothing}))
ImageFence(images) == Max(images \cup {Nothing}) + 1

Draw(texs) ==
    LET copies == IF mid THEN 2 ELSE 1
        drains == gate \/ ArenaFull(arena, copies)
        list   == PendingAfter(drains)
        base   == ArenaAfter(drains)
        hits   == {t \in texs : ImageHit(list, t)}
        images == {image[t] : t \in hits}
    IN
    /\ Ready /\ Room(copies)
    /\ DrainIf(drains)
    /\ \A t \in texs \ hits : WaitRan(Newest(list, t))
    /\ image' = [t \in Textures |-> IF t \in texs \ hits THEN Nothing ELSE image[t]]
    /\ todo' = [e \in 1 .. copies |->
                  [Blank EXCEPT !.efb = e - 1, !.images = images, !.block = base + e - 1,
                                !.want = ImageFence(images)]]
    /\ reading' = UNION (texs \ hits)
    /\ arena' = base + copies
    /\ pending' = list
    /\ UNCHANGED <<shared, worker, fenceAfter, fenceNear, lastCopy, mid, guest, screens>>

-----------------------------------------------------------------------------
(* enqueue_copy.  A copy that reads other workers' rows has its clear      *)
(* queued apart; with the in-between image on, a copy to texture queues    *)
(* its clear again for EFB 1 and a screen copy is queued again for EFB 1.  *)

\* The copy and, for one that reads others' rows, its clear.
CopyPair(sh, efb, first) ==
    IF sh.reach # "own" /\ sh.clears THEN <<first, [Blank EXCEPT !.kind = "clear", !.efb = efb]>>
    ELSE <<first>>

EntryFence(sh) ==
    IF sh.screen \/ sh.reach = "all" THEN "all"
    ELSE IF sh.reach = "near" THEN "near" ELSE "want"

\* The fence of a copy over memory an unfinished copy still writes.
OverlapFence_OffByOne(list, cells) == Greatest(0, Newest(list, cells))
OverlapFence(list, cells) == Newest(list, cells) + 1

CopyListFull(list) == Cardinality(list) = QueueCap

CopyTodo(sh, list) ==
    LET real == [Blank EXCEPT !.kind = "copy", !.reach = sh.reach, !.screen = sh.screen,
                              !.fused = sh.clears /\ sh.reach = "own",
                              !.dest = sh.dest, !.packed = sh.packed,
                              !.want = OverlapFence(list, sh.dest), !.entry = EntryFence(sh)]
        between == [real EXCEPT !.efb = 1, !.want = 0, !.entry = "all"]
        again == IF ~mid THEN <<>>
                 ELSE IF sh.screen THEN CopyPair(sh, 1, between)
                 ELSE IF sh.clears THEN <<[Blank EXCEPT !.kind = "clear", !.efb = 1]>>
                 ELSE <<>>
        all == CopyPair(sh, 0, real) \o again
    IN  [all EXCEPT ![Len(all)].ends = sh.screen]

Copy(sh) ==
    LET drains == gate \/ (sh.dest # {} /\ CopyListFull(pending))
        list   == PendingAfter(drains)
    IN
    /\ Ready
    /\ DrainIf(drains)
    /\ pending' = list
    /\ arena' = ArenaAfter(drains)
    /\ todo' = CopyTodo(sh, list)
    /\ Room(Len(todo'))
    /\ UNCHANGED <<shared, worker, fenceAfter, fenceNear, image, lastCopy, mid, reading,
                   guest, screens>>

-----------------------------------------------------------------------------
(* claim_slot and publish.                                                 *)

\* Command n's slot may be built over: every worker is past n - QueueCap.
SlotFree(n, count) == count > n - QueueCap

\* The wait for the slot, and g_ran_floor after it: read anew only when the
\* last reading no longer proves the slot free.
LowestCount == Min({ran[w] : w \in Workers})
ClaimWaits_Late == published - floor > QueueCap
ClaimWaits == published - floor >= QueueCap
SlotClaimed == ClaimWaits => \A w \in Workers : SlotFree(published, ran[w])

EntryWant(o, n) == IF o.entry = "all" THEN n ELSE o.want
EntryNear(o, n) == IF o.entry = "near" THEN n ELSE 0

FenceOf(want, after, n) == Least(n, Greatest(want, after))
NearOf(want, after, n, fence) ==
    LET f == Least(n, Greatest(want, after)) IN IF f > fence THEN f ELSE 0

Built(o, n) ==
    LET fence == FenceOf(EntryWant(o, n), fenceAfter, n)
    IN [seq |-> n, fence |-> fence,
        near |-> NearOf(EntryNear(o, n), fenceNear, n, fence),
        kind |-> o.kind, efb |-> o.efb, reach |-> o.reach, fused |-> o.fused,
        screen |-> o.screen, dest |-> o.dest, images |-> o.images, block |-> o.block]

\* The exit fence a copy leaves for the command after it.
ExitNear_None(o, n) == 0
ExitAll(o, n)  == IF o.kind = "copy" /\ o.reach = "all" THEN n + 1 ELSE 0
ExitNear(o, n) == IF o.kind = "copy" /\ o.reach = "near" THEN n + 1 ELSE 0

ToMemory(o) == o.kind = "copy" /\ o.dest # {}

Publish ==
    LET o == Head(todo)
        n == published
    IN
    /\ todo # <<>>
    /\ SlotClaimed
    /\ floor' = IF ClaimWaits THEN LowestCount ELSE floor
    /\ queue' = [queue EXCEPT ![n % QueueCap] = Built(o, n)]
    /\ published' = n + 1
    /\ fenceAfter' = ExitAll(o, n)
    /\ fenceNear' = ExitNear(o, n)
    /\ pending' = IF ToMemory(o) THEN pending \cup {[dest |-> o.dest, cmd |-> n]} ELSE pending
    /\ image' = IF ToMemory(o) /\ o.packed /\ o.dest \in Textures
                THEN [image EXCEPT ![o.dest] = n] ELSE image
    /\ lastCopy' = IF o.kind = "copy" /\ o.efb = 0 THEN n ELSE lastCopy
    /\ gate' = (gate \/ o.ends)
    /\ mid' \in IF o.ends THEN MidModes ELSE {mid}
    /\ todo' = Tail(todo)
    /\ reading' = {}
    /\ cpuOwns' = cpuOwns \ o.dest
    /\ lastWriter' = [c \in Cells |-> IF c \in o.dest THEN n ELSE lastWriter[c]]
    /\ UNCHANGED <<ran, presented, worker, arena, screens>>

-----------------------------------------------------------------------------
(* The producer's other reads, and what the guest is told.                 *)

\* gxr_ram_hazard: a palette, vertex arrays, a display list or an indexed XF
\* load read from memory, after the newest queued copy over it.
Read(cells) ==
    /\ Ready
    /\ WaitRan(Newest(pending, cells))
    /\ reading' = cells
    /\ UNCHANGED <<shared, worker, todo, floor, fenceAfter, fenceNear, gate, arena, pending,
                   image, lastCopy, mid, guest, screens>>

EndRead ==
    /\ todo = <<>> /\ reading # {}
    /\ reading' = {}
    /\ UNCHANGED <<shared, worker, todo, floor, fenceAfter, fenceNear, gate, arena, pending,
                   image, lastCopy, mid, guest, screens>>

\* gxr_hook_hazard, and the write a mod or SOA_POKE makes after it.
HookWrite(cells) ==
    /\ Ready
    /\ WaitRan(Newest(pending, cells))
    /\ pending' = Forget(pending, cells)
    /\ reading' = cells
    /\ lastWriter' = [c \in Cells |-> IF c \in cells THEN Nothing ELSE lastWriter[c]]
    /\ UNCHANGED <<shared, worker, todo, floor, fenceAfter, fenceNear, gate, arena, image,
                   lastCopy, mid, cpuOwns, screens>>

\* A draw token: answered as it is parsed; the copy list is forgotten once
\* every copy is over, and only then does the guest hold its memory again.
TokenForgets(wait) == wait \/ WaitRan(lastCopy)

Token ==
    \E wait \in TokenWaits :
        /\ Ready /\ lastCopy # Nothing
        /\ wait => WaitRan(lastCopy)
        /\ IF TokenForgets(wait)
           THEN pending' = {} /\ cpuOwns' = Cells
           ELSE UNCHANGED <<pending, cpuOwns>>
        /\ UNCHANGED <<shared, worker, todo, floor, fenceAfter, fenceNear, gate, arena, image,
                       lastCopy, mid, reading, lastWriter, screens>>

\* GXDrawDone, and gxr_flush from outside.
Drain ==
    /\ Ready
    /\ DrainIf(TRUE)
    /\ pending' = PendingAfter(TRUE)
    /\ arena' = ArenaAfter(TRUE)
    /\ cpuOwns' = Cells
    /\ UNCHANGED <<shared, worker, todo, fenceAfter, fenceNear, image, lastCopy, mid, reading,
                   lastWriter, screens>>

\* The guest writes memory no copy holds any more (the guest, external).
GuestWrite(cells) ==
    /\ Ready
    /\ cells \subseteq cpuOwns
    /\ lastWriter' = [c \in Cells |-> IF c \in cells THEN Nothing ELSE lastWriter[c]]
    /\ UNCHANGED <<shared, worker, producer, cpuOwns, screens>>

-----------------------------------------------------------------------------
(* A worker.                                                               *)

Slot(w) == queue[ran[w] % QueueCap]

\* The spin on g_published; then the slot's number, which says whether the
\* command is the worker's own (if not it is skipped); then whether to fence.
Take(w) ==
    /\ pc[w] = "idle" /\ ran[w] < published
    /\ IF Slot(w).seq # ran[w]
       THEN ran' = [ran EXCEPT ![w] = @ + 1] /\ UNCHANGED pc
       ELSE /\ pc' = [pc EXCEPT ![w] = IF N > 1 /\ (Slot(w).fence > 0 \/ Slot(w).near > 0)
                                       THEN "fence" ELSE "run"]
            /\ UNCHANGED ran
    /\ UNCHANGED <<published, queue, presented, at, producer, guest, screens>>

\* fence_wait: what worker w asks of worker j for command d.
FenceFor(w, j, d) ==
    IF j \in {Prev(w), Next1(w)} /\ d.near > d.fence THEN d.near ELSE d.fence

FencePass(w) ==
    /\ pc[w] = "fence"
    /\ at[w] # w => ran[at[w]] >= FenceFor(w, at[w], Slot(w))
    /\ IF at[w] = N
       THEN pc' = [pc EXCEPT ![w] = "run"] /\ at' = [at EXCEPT ![w] = 1]
       ELSE at' = [at EXCEPT ![w] = @ + 1] /\ UNCHANGED pc
    /\ UNCHANGED <<shared, producer, guest, screens>>

\* run_copy: what counts towards g_frames_presented; an in-between image does not.
Counts_Between(d) == d.kind = "copy" /\ d.screen
Counts(d) == d.kind = "copy" /\ d.screen /\ d.efb = 0

\* A worker's share of a frame, in fact.
Shown(d) == d.kind = "copy" /\ d.screen /\ d.efb = 0

\* draw_command or run_copy over the worker's rows, then its own count.
Finish_Uncounted(w) ==
    /\ pc[w] = "run"
    /\ pc' = [pc EXCEPT ![w] = "idle"]
    /\ UNCHANGED <<published, ran, presented, screens, queue, at, producer, guest>>
Finish(w) ==
    /\ pc[w] = "run"
    /\ pc' = [pc EXCEPT ![w] = "idle"]
    /\ ran' = [ran EXCEPT ![w] = @ + 1]
    /\ presented' = IF Counts(Slot(w)) THEN presented + 1 ELSE presented
    /\ screens' = IF Shown(Slot(w)) THEN [screens EXCEPT ![w] = @ + 1] ELSE screens
    /\ UNCHANGED <<published, queue, at, producer, guest>>

-----------------------------------------------------------------------------

Init ==
    /\ published = 0
    /\ ran = [w \in Workers |-> 0]
    /\ queue = [s \in 0 .. QueueCap - 1 |->   \* malloc: what is in a slot is not read before it is filled
                  [seq |-> 0, fence |-> 0, near |-> 0, kind |-> "draw", efb |-> 0,
                   reach |-> "own", fused |-> FALSE, screen |-> FALSE, dest |-> {},
                   images |-> {}, block |-> 0]]
    /\ presented = 0
    /\ pc = [w \in Workers |-> "idle"]
    /\ at = [w \in Workers |-> 1]
    /\ todo = <<>>
    /\ floor = 0 /\ fenceAfter = 0 /\ fenceNear = 0
    /\ gate = FALSE
    /\ arena = 0
    /\ pending = {}
    /\ image = [t \in Textures |-> Nothing]
    /\ lastCopy = Nothing
    /\ mid \in MidModes
    /\ reading = {}
    /\ cpuOwns = Cells
    /\ lastWriter = [c \in Cells |-> Nothing]
    /\ screens = [w \in Workers |-> 0]

WorkerStep(w) == Take(w) \/ FencePass(w) \/ Finish(w)

ProducerStep ==
    \/ \E texs \in DrawSets : Draw(texs)
    \/ \E sh \in CopyShapes : Copy(sh)
    \/ Publish
    \/ \E t \in Textures : Read(t) \/ HookWrite(t) \/ GuestWrite(t)
    \/ EndRead
    \/ Token
    \/ Drain

Next == ProducerStep \/ \E w \in Workers : WorkerStep(w)

Spec == Init /\ [][Next]_vars

\* The host runs every thread: a worker that can take a step takes one, and a
\* producer that can publish the command it has built, or finish a read, does.
FairSpec ==
    /\ Spec
    /\ \A w \in Workers : WF_vars(WorkerStep(w))
    /\ WF_vars(Publish) /\ WF_vars(EndRead)

-----------------------------------------------------------------------------
(* Types.                                                                  *)

Order == [kind : {"draw", "copy", "clear"}, efb : {0, 1}, reach : Reach, fused : BOOLEAN,
          screen : BOOLEAN, dest : SUBSET Cells, images : SUBSET Nat, block : Nat,
          want : Nat, entry : {"want", "near", "all"}, packed : BOOLEAN, ends : BOOLEAN]

\* The type of every variable of the queue.
TypeOK ==
    /\ published \in Nat /\ presented \in Nat
    /\ ran \in [Workers -> Nat]
    /\ queue \in [0 .. QueueCap - 1 -> Command]
    /\ pc \in [Workers -> {"idle", "fence", "run"}]
    /\ at \in [Workers -> Workers]
    /\ todo \in Seq(Order)
    /\ floor \in Nat /\ fenceAfter \in Nat /\ fenceNear \in Nat
    /\ gate \in BOOLEAN /\ mid \in BOOLEAN
    /\ arena \in 0 .. ArenaBlocks
    /\ pending \subseteq [dest : SUBSET Cells, cmd : Nat]
    /\ image \in [Textures -> Nat \cup {Nothing}]
    /\ lastCopy \in Nat \cup {Nothing}
    /\ reading \subseteq Cells /\ cpuOwns \subseteq Cells
    /\ lastWriter \in [Cells -> Nat \cup {Nothing}]
    /\ screens \in [Workers -> Nat]

-----------------------------------------------------------------------------
(* What must hold.                                                         *)

\* Command c is in the queue and some worker has not finished it.
Live(c) == /\ c < published
           /\ \E w \in Workers : ran[w] <= c
LiveCommands == {queue[c % QueueCap] : c \in {d \in 0 .. published - 1 : Live(d)}}

\* A command no worker has lost: the slot of every command a worker has still
\* to finish holds that command (DrawCmd.seq; "a check on that arithmetic
\* rather than a comment about it", gxr.c 1607).  The producer laps the ring
\* only behind the slowest worker, whatever its cached floor says.
NoCommandLost ==
    \A w \in Workers : ran[w] < published => Slot(w).seq = ran[w]

\* A worker copying rows it does not own reads them final and undisturbed:
\* while it runs copy d, every owner of those rows has finished everything
\* before d, and has not begun anything after d (enqueue_copy's entry and exit
\* fences; the bug PLAN C3 measured was the second half missing).
RowsFinal ==
    \A w \in Workers : pc[w] = "run" /\ Slot(w).kind = "copy" =>
        \A j \in RowOwners(w, Slot(w).reach) :
            /\ ran[j] >= ran[w]
            /\ ran[j] <= ran[w] + 1
            /\ ran[j] = ran[w] + 1 => pc[j] # "run"

\* Two draws some worker has still to run never share vertex storage: only a
\* drain, or never having been given out, makes a block of the arena free.
ArenaDisjoint ==
    \A c, d \in LiveCommands :
        c.kind = "draw" /\ d.kind = "draw" /\ c.seq # d.seq => c.block # d.block

\* A draw samples a copy's image only once every worker has decoded its rows
\* of it (tex_draw_fence).
ImagesComplete ==
    \A w \in Workers : pc[w] = "run" => \A c \in Slot(w).images : Finished(c)

\* Copies that write the same memory write it in program order, though their
\* rows fall to different workers: none starts before the older is over.
CopiesInOrder ==
    \A w \in Workers : pc[w] = "run" /\ Slot(w).kind = "copy" =>
        \A c \in LiveCommands :
            c.seq < ran[w] => c.dest \cap Slot(w).dest = {}

\* What the producer reads of guest memory no queued copy is still to write.
ReadsSettled ==
    \A c \in LiveCommands : c.dest \cap reading = {}

\* A frame counted as presented is whole: gxr_presented() frames have every
\* worker's rows, which is why a screen copy waits for every worker.
WholeFrames == \A w \in Workers : screens[w] >= presented \div N

\* A draw that samples a copy's image samples what the texture's memory would
\* hold: no later copy, hook or CPU write has touched it in program order.
ImagesCurrent ==
    \A i \in DOMAIN todo : \A c \in todo[i].images :
        \E t \in Textures : /\ image[t] = c
                            /\ \A cell \in t : lastWriter[cell] = c

\* No fence, slot or drain holds the pool for ever: every command published is
\* in the end finished by every worker (gxr.c 1614, "no fence can deadlock").
EveryCommandFinishes ==
    \A k \in 0 .. MaxCommands - 1 : (published > k) ~> Finished(k)

\* What the slots, the cached floor and the fences implement: every worker runs
\* every command in order, and none is skipped or built over (claim_slot,
\* worker).
Ring == INSTANCE CommandRing WITH Cap <- QueueCap, busy <- [w \in Workers |-> pc[w] = "run"]
ImplementsRing == Ring!Spec
=============================================================================

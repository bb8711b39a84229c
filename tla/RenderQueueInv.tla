-------------------------- MODULE RenderQueueInv ---------------------------
(* The inductive invariant of RenderQueue, in named parts.                 *)
EXTENDS RenderQueue

\* The commands the ring still holds, and where each is.
Recent == {c \in 0 .. published - 1 : published - c <= QueueCap}
Of(c)  == queue[c % QueueCap]

\* No number runs ahead of the commands published, no worker is more than a
\* ring behind them, and the producer's cached floor is below every worker.
Numbered ==
    /\ \A w \in Workers : /\ floor <= ran[w]
                          /\ ran[w] <= published
                          /\ published - ran[w] <= QueueCap
                          /\ pc[w] # "idle" => ran[w] < published
    /\ \A t \in Textures : image[t] < published
    /\ \A p \in pending : p.cmd < published
    /\ lastCopy < published

\* Each command the ring holds is in its own slot.
Slots == \A c \in Recent : Of(c).seq = c

\* What the handlers ask of claim_slot for the commands still to publish.
Asked ==
    \A i \in DOMAIN todo :
        LET o == todo[i] IN
        /\ o.kind = "copy" /\ o.reach = "all" => o.entry = "all"
        /\ o.kind = "copy" /\ o.reach = "near" => o.entry \in {"near", "all"}
        /\ \A c \in o.images : c < o.want /\ c < published

\* What claim_slot made of it: a fence never above the command itself, past
\* the images it samples, and at the copy itself for the rows it reads.
Fences ==
    \A c \in Recent :
        LET d == Of(c) IN
        /\ d.fence <= c /\ d.near <= c
        /\ \A i \in d.images : i < d.fence
        /\ d.kind = "copy" /\ d.reach = "all" => d.fence = c
        /\ d.kind = "copy" /\ d.reach = "near" => d.fence = c \/ d.near = c

\* The command after such a copy carries the copy's exit fence, or will.
Exits ==
    \A c \in Recent :
        LET d == Of(c)
            after == Of(c + 1)
        IN
        /\ d.kind = "copy" /\ d.reach = "all" =>
               IF c + 1 = published THEN fenceAfter = c + 1 ELSE after.fence = c + 1
        /\ d.kind = "copy" /\ d.reach = "near" =>
               IF c + 1 = published THEN fenceNear = c + 1
               ELSE after.fence = c + 1 \/ after.near = c + 1

\* Worker w has gone past command d's fence.
Past(w, d) == ran[w] > d \/ (ran[w] = d /\ pc[w] = "run")

\* A worker past a fence found the others past it, and counts only rise.
Passed ==
    \A w \in Workers :
        /\ \A d \in Recent : Past(w, d) =>
               \A j \in Workers \ {w} : ran[j] >= FenceFor(w, j, Of(d))
        /\ pc[w] # "fence" => at[w] = 1
        /\ pc[w] = "fence" =>
               \A j \in Workers \ {w} : j < at[w] => ran[j] >= FenceFor(w, j, Slot(w))

IInv == TypeOK /\ Numbered /\ Slots /\ Asked /\ Fences /\ Exits /\ Passed

-----------------------------------------------------------------------------
(* The second invariant, over the first: what the producer's own lists know *)
(* of the commands some worker has still to finish.                        *)

Unfinished == {c \in 0 .. published - 1 : Live(c)}

\* No vertex block is in two places: live draws, and the draws still to publish.
Blocks ==
    /\ \A c \in Unfinished : Of(c).kind = "draw" =>
           /\ Of(c).block < arena
           /\ \A d \in Unfinished : Of(d).kind = "draw" /\ d # c => Of(d).block # Of(c).block
           /\ \A i \in DOMAIN todo : todo[i].kind = "draw" => todo[i].block # Of(c).block
    /\ \A i \in DOMAIN todo : todo[i].kind = "draw" =>
           /\ todo[i].block < arena
           /\ \A j \in DOMAIN todo :
                 todo[j].kind = "draw" /\ j # i => todo[j].block # todo[i].block

\* A live copy to memory is in the list, and none is newer than the last copy.
Listed ==
    /\ \A c \in Unfinished : Of(c).dest # {} =>
           /\ \E p \in pending : p.cmd = c /\ p.dest = Of(c).dest
           /\ c <= lastCopy
    /\ \A i \in DOMAIN todo : todo[i].dest # {} =>
           todo[i].kind = "copy" /\ todo[i].efb = 0 /\ i = 1

\* What the producer is reading no live copy is to write (ReadsSettled).
Settled == \A c \in Unfinished : Of(c).dest \cap reading = {}

\* A copy is fenced past the live copies over its memory, or will be.
Overlaps ==
    /\ \A i \in DOMAIN todo : \A p \in pending :
           p.dest \cap todo[i].dest # {} => p.cmd < todo[i].want
    /\ \A d \in Recent : \A c \in Unfinished :
           c < d /\ Of(c).dest \cap Of(d).dest # {} => c < Of(d).fence

MInv == Blocks /\ Listed /\ Settled /\ Overlaps

-----------------------------------------------------------------------------
(* The third: how far the workers' shares of the frames are apart.         *)

\* A screen copy is fenced at itself for every worker, or will be.
ScreenFences ==
    /\ \A i \in DOMAIN todo : todo[i].kind = "copy" /\ todo[i].screen => todo[i].entry = "all"
    /\ \A c \in Recent : Shown(Of(c)) => Of(c).fence = c

\* A worker ahead of another has copied its rows of at most one frame more: the
\* one the other is at.
Level ==
    \A w, j \in Workers : ran[w] <= ran[j] =>
        screens[j] = screens[w] + (IF ran[w] < ran[j] /\ Shown(Of(ran[w])) THEN 1 ELSE 0)

\* g_frames_presented counts shares: k of every worker, and one more of some.
Ahead(k) == {w \in Workers : screens[w] = k + 1}
Even ==
    \E k \in 0 .. presented :
        /\ \A w \in Workers : screens[w] \in {k, k + 1}
        /\ presented = N * k + Cardinality(Ahead(k))

FInv == ScreenFences /\ Level /\ Even

-----------------------------------------------------------------------------
(* The fourth: what a copy's image is worth.                               *)

\* No copy lies over two textures that lie apart, one of them written by a hook:
\* gxr_hook_hazard forgets every copy its write touches, whole (gxr.c).
HooksTellAll ==
    \A sh \in CopyShapes : \A h, t \in Textures :
        sh.dest \cap h # {} /\ sh.dest \cap t # {} => h \cap t # {}

\* The copies the guest programs are all the copies there are; and a handler's
\* commands write memory or sample images, never both.
Programmed ==
    /\ \A p \in pending : \E sh \in CopyShapes : p.dest = sh.dest
    /\ \A i \in DOMAIN todo : todo[i].dest # {} => \E sh \in CopyShapes : todo[i].dest = sh.dest
    /\ \A i, j \in DOMAIN todo : todo[i].dest = {} \/ todo[j].images = {}

\* A copy in the list is the one its image is of, and its memory not the guest's.
Owned ==
    \A p \in pending :
        /\ \A t \in Textures : image[t] = p.cmd => p.dest = t
        /\ p.dest \cap cpuOwns = {}

\* An image whose copy is the newest of the list over its memory is that memory.
Current(t) == \A cell \in t : lastWriter[cell] = image[t]
NewestIsLast ==
    \A t \in Textures : \A p \in pending :
        p.cmd = image[t] /\ (\A q \in pending : q.dest \cap t # {} => q.cmd <= p.cmd)
            => Current(t)

CInv == Programmed /\ Owned /\ NewestIsLast /\ ImagesCurrent
=============================================================================

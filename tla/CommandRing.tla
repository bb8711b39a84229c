---------------------------- MODULE CommandRing ----------------------------
(***************************************************************************)
(* What the render queue promises (runtime/gxr.c): commands are numbered,  *)
(* every worker runs every command, in order, none twice and none skipped, *)
(* and the producer is never more than Cap commands ahead of a worker.     *)
(* Slots, fences, drains and sleeping are how; RenderQueue and RenderPark  *)
(* are each shown to implement this.                                       *)
(***************************************************************************)
EXTENDS Integers

CONSTANTS Workers, Cap

VARIABLES
    published,    \* commands published, ever
    ran,          \* worker -> commands finished, ever
    busy          \* worker -> is it running command ran[w]

vars == <<published, ran, busy>>

Init ==
    /\ published = 0
    /\ ran = [w \in Workers |-> 0]
    /\ busy = [w \in Workers |-> FALSE]

Publish ==
    /\ \A w \in Workers : published - ran[w] < Cap
    /\ published' = published + 1
    /\ UNCHANGED <<ran, busy>>

Start(w) ==
    /\ ~busy[w] /\ ran[w] < published
    /\ busy' = [busy EXCEPT ![w] = TRUE]
    /\ UNCHANGED <<published, ran>>

Finish(w) ==
    /\ busy[w]
    /\ ran' = [ran EXCEPT ![w] = @ + 1]
    /\ busy' = [busy EXCEPT ![w] = FALSE]
    /\ UNCHANGED published

Next == Publish \/ \E w \in Workers : Start(w) \/ Finish(w)

Spec == Init /\ [][Next]_vars
=============================================================================

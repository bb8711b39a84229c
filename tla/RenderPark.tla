----------------------------- MODULE RenderPark -----------------------------
(***************************************************************************)
(* How the threads of the render queue sleep and wake (runtime/gxr.c rule  *)
(* 3, plat.h plat_wait64 and plat_wake_all64), one shared access to a step.*)
(*                                                                         *)
(* Thread 0 produces and owns g_published; worker w owns g_ran[w].  An     *)
(* idle worker sleeps on g_published, a worker at a fence on the count of  *)
(* the worker it looks at.  A sleeper raises a count of sleepers, looks at *)
(* the word again and waits; an owner raises its word, looks at the count  *)
(* of sleepers, and wakes them all if there are any.  All of these are     *)
(* sequentially consistent, so their order in the program is their order.  *)
(*                                                                         *)
(* The 50 ms bound of a wait and its leave to "return early for no reason" *)
(* are WaitReturns, which nothing relies on.  What a command is and why it *)
(* has a fence is RenderQueue's; here its fence is 0 or its own number.    *)
(***************************************************************************)
EXTENDS RenderParkConstants, FiniteSets

Workers == 1 .. N
Threads == 0 .. N
Producer == 0

VARIABLES
    published,    \* g_published
    ran,          \* g_ran[w]
    fences,       \* the fence of each command in the ring, by slot
    sleepers,     \* g_sleepers (of "idle" workers), g_fence_sleepers (of "fence")
    pc,           \* where each thread is
    at,           \* the worker fence_wait is looking at
    on,           \* the thread whose word a worker sleeps on
    seen          \* the value it last read there

vars == <<published, ran, fences, sleepers, pc, at, on, seen>>

\* A worker's steps on the way into a sleep and out of it.
Parking == {"announce", "look", "sleep", "asleep", "leave"}
\* Those in which it is counted as a sleeper.
Counted == {"look", "sleep", "asleep", "leave"}

Word(t) == IF t = Producer THEN published ELSE ran[t]
Kind(t) == IF t = Producer THEN "idle" ELSE "fence"
Fence(w) == fences[ran[w] % QueueCap]

-----------------------------------------------------------------------------
(* Owners: raise the word, read the sleepers, wake them.                   *)

\* claim_slot's wait, then publish.
SlotFree_Never(n, count) == TRUE
SlotFree_OffByOne(n, count) == count >= n - QueueCap
SlotFree(n, count) == count > n - QueueCap

Publish ==
    /\ pc[Producer] = "spin" /\ published < MaxCommands
    /\ \A w \in Workers : SlotFree(published, ran[w])
    /\ \E f \in {0, published} : fences' = [fences EXCEPT ![published % QueueCap] = f]
    /\ published' = published + 1
    /\ pc' = [pc EXCEPT ![Producer] = "check"]
    /\ UNCHANGED <<ran, sleepers, at, on, seen>>

\* The command is over and the worker says so.
Finish(w) ==
    /\ pc[w] = "run"
    /\ ran' = [ran EXCEPT ![w] = @ + 1]
    /\ pc' = [pc EXCEPT ![w] = "check"]
    /\ UNCHANGED <<published, fences, sleepers, at, on, seen>>

AnySleepers_ButOne(t) == sleepers[Kind(t)] > 1
AnySleepers(t) == sleepers[Kind(t)] > 0

Check(t) ==
    /\ pc[t] = "check"
    /\ pc' = [pc EXCEPT ![t] = IF AnySleepers(t) THEN "wake" ELSE "spin"]
    /\ UNCHANGED <<published, ran, fences, sleepers, at, on, seen>>

\* plat_wake_all64
Woken_One(t) == {w \in Workers : pc[w] = "asleep" /\ on[w] = t
                                 /\ \A v \in Workers : v < w => pc[v] # "asleep"}
Woken(t) == {w \in Workers : pc[w] = "asleep" /\ on[w] = t}

Wake(t) ==
    /\ pc[t] = "wake"
    /\ pc' = [u \in Threads |-> IF u = t THEN "spin" ELSE IF u \in Woken(t) THEN "leave" ELSE pc[u]]
    /\ UNCHANGED <<published, ran, fences, sleepers, at, on, seen>>

-----------------------------------------------------------------------------
(* Sleepers.                                                               *)

\* The spin on g_published: a command to run, or 4000 looks without one.
Take(w) ==
    /\ pc[w] = "spin" /\ ran[w] < published
    /\ pc' = [pc EXCEPT ![w] = IF N > 1 /\ Fence(w) > 0 THEN "fence" ELSE "run"]
    /\ UNCHANGED <<published, ran, fences, sleepers, at, on, seen>>

IdlePark(w) ==
    /\ pc[w] = "spin" /\ ran[w] >= published
    /\ pc' = [pc EXCEPT ![w] = "announce"]
    /\ on' = [on EXCEPT ![w] = Producer]
    /\ seen' = [seen EXCEPT ![w] = ran[w]]
    /\ UNCHANGED <<published, ran, fences, sleepers, at>>

\* fence_wait: on to the next worker, or a sleep on this one's count.
Reached(w) == ran[at[w]] >= Fence(w)


FencePass(w) ==
    /\ pc[w] = "fence"
    /\ at[w] = w \/ Reached(w)
    /\ IF at[w] = N
       THEN pc' = [pc EXCEPT ![w] = "run"] /\ at' = [at EXCEPT ![w] = 1]
       ELSE at' = [at EXCEPT ![w] = @ + 1] /\ UNCHANGED pc
    /\ UNCHANGED <<published, ran, fences, sleepers, on, seen>>

FencePark(w) ==
    /\ pc[w] = "fence" /\ at[w] # w /\ ~Reached(w)
    /\ pc' = [pc EXCEPT ![w] = "announce"]
    /\ on' = [on EXCEPT ![w] = at[w]]
    /\ seen' = [seen EXCEPT ![w] = ran[at[w]]]
    /\ UNCHANGED <<published, ran, fences, sleepers, at>>

Announce(w) ==
    /\ pc[w] = "announce"
    /\ sleepers' = [sleepers EXCEPT ![Kind(on[w])] = @ + 1]
    /\ pc' = [pc EXCEPT ![w] = "look"]
    /\ UNCHANGED <<published, ran, fences, at, on, seen>>

Look(w) ==
    /\ pc[w] = "look"
    /\ pc' = [pc EXCEPT ![w] = IF Word(on[w]) = seen[w] THEN "sleep" ELSE "leave"]
    /\ UNCHANGED <<published, ran, fences, sleepers, at, on, seen>>

\* plat_wait64 compares and falls asleep in one step of the kernel's.
Matches(w) == Word(on[w]) % LowMod = seen[w] % LowMod

Sleep(w) ==
    /\ pc[w] = "sleep"
    /\ pc' = [pc EXCEPT ![w] = IF Matches(w) THEN "asleep" ELSE "leave"]
    /\ UNCHANGED <<published, ran, fences, sleepers, at, on, seen>>

WaitReturns(w) ==
    /\ pc[w] = "asleep"
    /\ pc' = [pc EXCEPT ![w] = "leave"]
    /\ UNCHANGED <<published, ran, fences, sleepers, at, on, seen>>


Leave(w) ==
    /\ pc[w] = "leave"
    /\ sleepers' = [sleepers EXCEPT ![Kind(on[w])] = @ - 1]
    /\ pc' = [pc EXCEPT ![w] = IF on[w] = Producer THEN "spin" ELSE "fence"]
    /\ UNCHANGED <<published, ran, fences, at, on, seen>>

-----------------------------------------------------------------------------

Init ==
    /\ published = 0
    /\ ran = [w \in Workers |-> 0]
    /\ fences = [s \in 0 .. QueueCap - 1 |-> 0]
    /\ sleepers = [k \in {"idle", "fence"} |-> 0]
    /\ pc = [t \in Threads |-> "spin"]
    /\ at = [w \in Workers |-> 1]
    /\ on = [w \in Workers |-> Producer]
    /\ seen = [w \in Workers |-> 0]

\* A worker's own next step: everything it does but be woken.
WorkerStep(w) ==
    \/ Finish(w) \/ Check(w) \/ Wake(w)
    \/ Take(w) \/ IdlePark(w) \/ FencePass(w) \/ FencePark(w)
    \/ Announce(w) \/ Look(w) \/ Sleep(w) \/ Leave(w)

ProducerStep == Publish \/ Check(Producer) \/ Wake(Producer)

Next == ProducerStep \/ \E w \in Workers : WorkerStep(w) \/ WaitReturns(w)

Spec == Init /\ [][Next]_vars

\* Every thread runs; the producer may stop publishing, but finishes a wake it
\* has begun.  WaitReturns has no fairness: no wait is rescued by its timeout.
FairSpec ==
    /\ Spec
    /\ \A w \in Workers : WF_vars(WorkerStep(w))
    /\ WF_vars(Check(Producer) \/ Wake(Producer))

-----------------------------------------------------------------------------

TypeOK ==
    /\ published \in Nat
    /\ ran \in [Workers -> Nat]
    /\ fences \in [0 .. QueueCap - 1 -> Nat]
    /\ sleepers \in [{"idle", "fence"} -> Int]
    /\ pc \in [Threads -> {"spin", "check", "wake", "fence", "run"} \cup Parking]
    /\ pc[Producer] \in {"spin", "check", "wake"}
    /\ at \in [Workers -> Workers]
    /\ on \in [Workers -> Threads]
    /\ seen \in [Workers -> Nat]

\* A worker asleep on a word that has moved is about to be woken: the thread
\* that moved it has still to look at the sleepers, or to wake them (rule 3's
\* Dekker pair, without its backstop).
NoLostWake ==
    \A w \in Workers :
        pc[w] = "asleep" /\ Word(on[w]) # seen[w] => pc[on[w]] \in {"check", "wake"}

SleepersOf(k) == {w \in Workers : pc[w] \in Counted /\ Kind(on[w]) = k}

\* The sleepers' counts are what they say, so none can go below zero or stay up.
SleepersCounted == \A k \in {"idle", "fence"} : sleepers[k] = Cardinality(SleepersOf(k))

\* A wait never falls asleep on a word that only looks unmoved: plat.h says a
\* false match "needs 2^32 increments inside one" wait; the ring does not allow
\* a word to run that far past a worker that stands still.
NoFalseSleep ==
    \A w \in Workers : pc[w] = "sleep" /\ Matches(w) => Word(on[w]) = seen[w]

\* A worker runs a command only when every other has reached its fence.
FenceHolds ==
    \A w, j \in Workers : pc[w] = "run" /\ j # w => ran[j] >= Fence(w)

\* With no timeout to help, every command published is in the end finished.
AllFinish == \A k \in 0 .. MaxCommands - 1 :
                 (published > k) ~> (\A w \in Workers : ran[w] > k)

\* What sleeping and waking implement: the ring as its users see it.
Ring == INSTANCE CommandRing WITH Cap <- QueueCap, busy <- [w \in Workers |-> pc[w] = "run"]
ImplementsRing == Ring!Spec

-----------------------------------------------------------------------------
(* The inductive invariant of the proofs, in named parts.                  *)

ParkedOn(w, t) == pc[w] \in Parking /\ on[w] = t
AtFence(w)     == pc[w] = "fence" \/ (pc[w] \in Parking /\ on[w] # Producer)

\* Nobody runs ahead of the commands published or a ring behind them, and who
\* has a command in hand is below them.
Numbered ==
    \A w \in Workers : /\ ran[w] <= published
                       /\ published - ran[w] <= QueueCap
                       /\ pc[w] = "run" \/ AtFence(w) => ran[w] < published

\* What a worker on its way into or out of a sleep has seen.
Seen ==
    \A w \in Workers :
        /\ ParkedOn(w, Producer) => seen[w] = ran[w]
        /\ \A j \in Workers : ParkedOn(w, j) =>
               j = at[w] /\ j # w /\ seen[w] <= ran[j] /\ seen[w] + QueueCap > ran[w]

\* A command's fence is at most its number, and a worker at its fence or past
\* it has found the workers it has looked at there.
Fenced ==
    /\ \A c \in 0 .. published - 1 : published - c <= QueueCap => fences[c % QueueCap] <= c
    /\ FenceHolds
    /\ \A w \in Workers :
           /\ AtFence(w) => \A j \in Workers \ {w} : j < at[w] => ran[j] >= Fence(w)
           /\ ~AtFence(w) => at[w] = 1

ParkInv == TypeOK /\ Numbered /\ Seen /\ Fenced /\ SleepersCounted /\ NoLostWake
=============================================================================

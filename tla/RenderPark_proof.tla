-------------------------- MODULE RenderPark_proof --------------------------
(***************************************************************************)
(* No wake-up of the render queue is lost, for any number of workers and   *)
(* any ring.  The argument: a worker asleep is one of the sleepers counted *)
(* (SleepersCounted), it fell asleep on a word that had not moved, and the *)
(* owner that moves the word looks at the count after that (NoLostWake).   *)
(***************************************************************************)
EXTENDS RenderPark, RingNumbers, FiniteSetTheorems

-----------------------------------------------------------------------------
(* The sets of sleepers.                                                   *)

\* There are finitely many sleepers of each kind.
LEMMA SleepersFinite ==
    ASSUME NEW k
    PROVE  IsFiniteSet(SleepersOf(k)) /\ Cardinality(SleepersOf(k)) \in Nat
<1>1. IsFiniteSet(Workers)
  BY FS_Interval, ParkAssumption DEF Workers
<1>2. SleepersOf(k) \in SUBSET Workers
  BY DEF SleepersOf
<1>. QED BY <1>1, <1>2, FS_Subset, FS_CardinalityType

\* A worker among the sleepers of its kind makes their count positive.
LEMMA SomeSleeper ==
    ASSUME ParkInv, NEW w \in Workers, pc[w] \in Counted
    PROVE  AnySleepers(on[w])
<1>. DEFINE k == Kind(on[w])
<1>1. w \in SleepersOf(k)
  BY DEF SleepersOf
<1>2. Cardinality(SleepersOf(k)) # 0
  BY <1>1, SleepersFinite, FS_EmptySet
<1>3. k \in {"idle", "fence"}
  BY DEF Kind
<1>4. sleepers[k] > 0
  BY <1>2, <1>3, SleepersFinite DEF ParkInv, SleepersCounted
<1>. QED BY <1>4 DEF AnySleepers

\* A step that moves no worker into or out of the counted part of a sleep.
LEMMA SleepersKept ==
    ASSUME ParkInv, sleepers' = sleepers,
           \A w \in Workers : /\ pc'[w] \in Counted <=> pc[w] \in Counted
                              /\ pc[w] \in Counted => on'[w] = on[w]
    PROVE  SleepersCounted'
<1>1. \A k : SleepersOf(k)' = SleepersOf(k)
  BY DEF SleepersOf, Kind, Producer
<1>. QED BY <1>1 DEF ParkInv, SleepersCounted

-----------------------------------------------------------------------------
(* The ring.                                                               *)

\* A worker's own slot is in the ring, and its fence a number.
LEMMA OwnFence ==
    ASSUME ParkInv, NEW w \in Workers
    PROVE  /\ ran[w] \in Nat /\ published \in Nat
           /\ Fence(w) \in Nat
           /\ ran[w] < published => Fence(w) <= ran[w]
<1>1. ran[w] \in Nat /\ published \in Nat
  BY DEF ParkInv, TypeOK
<1>2. ran[w] % QueueCap \in 0 .. QueueCap - 1
  BY <1>1, Division, ParkAssumption
<1>3. Fence(w) \in Nat
  BY <1>2 DEF Fence, ParkInv, TypeOK
<1>4. ASSUME ran[w] < published PROVE Fence(w) <= ran[w]
  <2>1. ran[w] \in 0 .. published - 1 /\ published - ran[w] <= QueueCap
    BY <1>1, <1>4 DEF ParkInv, Numbered
  <2>. QED BY <2>1 DEF Fence, ParkInv, Fenced
<1>. QED BY <1>1, <1>3, <1>4

\* The state workers_start leaves satisfies the invariant.
LEMMA InitInv == Init => ParkInv
<1>. SUFFICES ASSUME Init PROVE ParkInv
  OBVIOUS
<1>. USE ParkAssumption
<1>1. \A w \in Workers : pc[w] = "spin" /\ w \in Threads
  BY DEF Init, Workers, Threads
<1>2. TypeOK
  <2>1. Producer \in Threads /\ 1 \in Workers
    BY DEF Threads, Workers, Producer
  <2>. QED BY <2>1 DEF Init, TypeOK
<1>3. Numbered
  BY <1>1 DEF Init, Numbered, AtFence, Parking
<1>4. Seen
  BY <1>1 DEF Init, Seen, ParkedOn, Parking
<1>5. Fenced
  BY <1>1 DEF Init, Fenced, FenceHolds, AtFence, Parking
<1>6. SleepersCounted
  <2>1. \A k : SleepersOf(k) = {}
    BY <1>1 DEF SleepersOf, Counted
  <2>. QED BY <2>1, FS_EmptySet DEF Init, SleepersCounted
<1>7. NoLostWake
  BY <1>1 DEF NoLostWake
<1>. QED BY <1>2, <1>3, <1>4, <1>5, <1>6, <1>7 DEF ParkInv

-----------------------------------------------------------------------------
(* The steps of a sleep.                                                   *)

\* A step that only moves threads on, parking nobody anew and letting nobody
\* past a fence, keeps what is known of counts, fences and what was seen.
LEMMA QuietStep ==
    ASSUME ParkInv, UNCHANGED <<published, ran, fences, at, on, seen>>,
           \A w \in Workers : /\ pc'[w] \in Parking => pc[w] \in Parking
                              /\ AtFence(w)' <=> AtFence(w)
                              /\ pc'[w] = "run" => pc[w] = "run"
    PROVE  Numbered' /\ Seen' /\ Fenced'
<1>1. Numbered'
  BY DEF ParkInv, Numbered
<1>2. Seen'
  BY DEF ParkInv, Seen, ParkedOn
<1>3. \A w \in Workers : Fence(w)' = Fence(w)
  BY DEF Fence
<1>4. Fenced'
  BY <1>3 DEF ParkInv, Fenced, FenceHolds
<1>. QED BY <1>1, <1>2, <1>4

\* A worker counts itself a sleeper.
LEMMA AnnounceInv ==
    ASSUME ParkInv, NEW w \in Workers, Announce(w)
    PROVE  ParkInv'
<1>. DEFINE k == Kind(on[w])
<1>1. /\ pc[w] = "announce" /\ pc' = [pc EXCEPT ![w] = "look"]
      /\ sleepers' = [sleepers EXCEPT ![k] = @ + 1]
      /\ UNCHANGED <<published, ran, fences, at, on, seen>>
  BY DEF Announce
<1>2. k \in {"idle", "fence"} /\ w \in Threads /\ w # Producer
  BY DEF Kind, Workers, Threads, Producer
<1>3. \A t \in Threads : pc'[t] = IF t = w THEN "look" ELSE pc[t]
  BY <1>1 DEF ParkInv, TypeOK
<1>4. Workers \subseteq Threads
  BY DEF Workers, Threads
<1>5. TypeOK'
  <2>1. pc' \in [Threads -> {"spin", "check", "wake", "fence", "run"} \cup Parking]
    BY <1>1 DEF ParkInv, TypeOK, Parking
  <2>2. sleepers' \in [{"idle", "fence"} -> Int]
    BY <1>1, <1>2 DEF ParkInv, TypeOK
  <2>. QED BY <1>1, <1>2, <1>3, <2>1, <2>2 DEF ParkInv, TypeOK
<1>6. Numbered' /\ Seen' /\ Fenced'
  BY <1>1, <1>3, <1>4, QuietStep DEF AtFence, Parking
<1>7. SleepersCounted'
  <2>1. \A m : m = k => w \notin SleepersOf(m) /\ SleepersOf(m)' = SleepersOf(m) \cup {w}
    BY <1>1, <1>3, <1>4 DEF SleepersOf, Counted, Kind, Producer
  <2>2. \A m : m = k => Cardinality(SleepersOf(m)') = Cardinality(SleepersOf(m)) + 1
    BY <2>1, SleepersFinite, FS_AddElement
  <2>3. \A m : m # k => SleepersOf(m)' = SleepersOf(m)
    BY <1>1, <1>3, <1>4 DEF SleepersOf, Counted, Kind, Producer
  <2>4. sleepers[k] = Cardinality(SleepersOf(k)) /\ sleepers'[k] = sleepers[k] + 1
    BY <1>1, <1>2 DEF ParkInv, TypeOK, SleepersCounted
  <2>5. \A m \in {"idle", "fence"} : sleepers'[m] = Cardinality(SleepersOf(m)')
    <3>. TAKE m \in {"idle", "fence"}
    <3>1. CASE m = k
      BY <2>2, <2>4, <3>1
    <3>2. CASE m # k
      BY <1>1, <2>3, <3>2 DEF ParkInv, TypeOK, SleepersCounted
    <3>. QED BY <3>1, <3>2
  <2>. QED BY <2>5 DEF SleepersCounted, SleepersOf, Kind
<1>8. NoLostWake'
  <2>1. \A v \in Workers : pc'[v] = "asleep" => pc[v] = "asleep" /\ on[v] \in Threads
    BY <1>3, <1>4 DEF ParkInv, TypeOK
  <2>2. \A t \in Threads : pc[t] \in {"check", "wake"} => pc'[t] \in {"check", "wake"}
    BY <1>1, <1>3
  <2>. QED BY <1>1, <2>1, <2>2 DEF ParkInv, NoLostWake, Word
<1>. QED BY <1>5, <1>6, <1>7, <1>8 DEF ParkInv

\* A worker stops counting itself a sleeper and goes back to its spin.
LEMMA LeaveInv ==
    ASSUME ParkInv, NEW w \in Workers, Leave(w)
    PROVE  ParkInv'
<1>. DEFINE k == Kind(on[w])
            next == IF on[w] = Producer THEN "spin" ELSE "fence"
<1>1. /\ pc[w] = "leave" /\ pc' = [pc EXCEPT ![w] = next]
      /\ sleepers' = [sleepers EXCEPT ![k] = @ - 1]
      /\ UNCHANGED <<published, ran, fences, at, on, seen>>
  BY DEF Leave
<1>2. k \in {"idle", "fence"} /\ w \in Threads /\ w # Producer
  BY DEF Kind, Workers, Threads, Producer
<1>3. \A t \in Threads : pc'[t] = IF t = w THEN next ELSE pc[t]
  BY <1>1 DEF ParkInv, TypeOK
<1>4. Workers \subseteq Threads
  BY DEF Workers, Threads
<1>5. TypeOK'
  <2>1. pc' \in [Threads -> {"spin", "check", "wake", "fence", "run"} \cup Parking]
    BY <1>1 DEF ParkInv, TypeOK, Parking
  <2>2. sleepers' \in [{"idle", "fence"} -> Int]
    BY <1>1, <1>2 DEF ParkInv, TypeOK
  <2>. QED BY <1>1, <1>2, <1>3, <2>1, <2>2 DEF ParkInv, TypeOK
<1>6. Numbered' /\ Seen' /\ Fenced'
  BY <1>1, <1>3, <1>4, QuietStep DEF AtFence, Parking
<1>7. SleepersCounted'
  <2>1. \A m : m = k => w \in SleepersOf(m) /\ SleepersOf(m)' = SleepersOf(m) \ {w}
    BY <1>1, <1>3, <1>4 DEF SleepersOf, Counted, Kind, Producer
  <2>2. \A m : m = k => Cardinality(SleepersOf(m)') = Cardinality(SleepersOf(m)) - 1
    BY <2>1, SleepersFinite, FS_RemoveElement
  <2>3. \A m : m # k => SleepersOf(m)' = SleepersOf(m)
    BY <1>1, <1>3, <1>4 DEF SleepersOf, Counted, Kind, Producer
  <2>4. sleepers[k] = Cardinality(SleepersOf(k)) /\ sleepers'[k] = sleepers[k] - 1
    BY <1>1, <1>2 DEF ParkInv, TypeOK, SleepersCounted
  <2>5. \A m \in {"idle", "fence"} : sleepers'[m] = Cardinality(SleepersOf(m)')
    <3>. TAKE m \in {"idle", "fence"}
    <3>1. CASE m = k
      BY <2>2, <2>4, <3>1
    <3>2. CASE m # k
      BY <1>1, <2>3, <3>2 DEF ParkInv, TypeOK, SleepersCounted
    <3>. QED BY <3>1, <3>2
  <2>. QED BY <2>5 DEF SleepersCounted, SleepersOf, Kind
<1>8. NoLostWake'
  <2>1. \A v \in Workers : pc'[v] = "asleep" => pc[v] = "asleep" /\ on[v] \in Threads
    BY <1>3, <1>4 DEF ParkInv, TypeOK
  <2>2. \A t \in Threads : pc[t] \in {"check", "wake"} => pc'[t] \in {"check", "wake"}
    BY <1>1, <1>3
  <2>. QED BY <1>1, <2>1, <2>2 DEF ParkInv, NoLostWake, Word
<1>. QED BY <1>5, <1>6, <1>7, <1>8 DEF ParkInv

\* A thread is the producer or a worker.
LEMMA ThreadKinds == \A t \in Threads : t = Producer \/ t \in Workers
BY ParkAssumption DEF Threads, Workers, Producer

\* The wait falls asleep on no word that only looks unmoved: it has moved by
\* less than twice the ring since it was read, which is less than LowMod.
LEMMA TrueMatch ==
    ASSUME ParkInv, NEW w \in Workers, pc[w] = "sleep", Matches(w)
    PROVE  Word(on[w]) = seen[w]
<1>. DEFINE x == Word(on[w])
<1>1. /\ x \in Nat /\ seen[w] \in Nat /\ ran[w] \in Nat /\ published \in Nat
      /\ QueueCap \in Nat \ {0} /\ LowMod \in Nat \ {0} /\ LowMod >= 2 * QueueCap
  <2>1. on[w] = Producer \/ on[w] \in Workers
    BY ThreadKinds DEF ParkInv, TypeOK
  <2>. QED BY <2>1, ParkAssumption DEF ParkInv, TypeOK, Word
<1>2. seen[w] <= x /\ x - seen[w] < 2 * QueueCap
  <2>1. CASE on[w] = Producer
    <3>1. seen[w] = ran[w] /\ ran[w] <= published /\ published - ran[w] <= QueueCap
      BY <2>1 DEF ParkInv, Numbered, Seen, ParkedOn, Parking
    <3>. QED BY <1>1, <2>1, <3>1 DEF Word
  <2>2. CASE on[w] # Producer
    <3>1. on[w] \in Workers
      BY <2>2, ThreadKinds DEF ParkInv, TypeOK
    <3>2. seen[w] <= ran[on[w]] /\ seen[w] + QueueCap > ran[w]
      BY <3>1 DEF ParkInv, Seen, ParkedOn, Parking
    <3>3. ran[on[w]] <= published /\ published - ran[w] <= QueueCap /\ ran[on[w]] \in Nat
      BY <3>1 DEF ParkInv, Numbered, TypeOK
    <3>. QED BY <1>1, <2>2, <3>2, <3>3 DEF Word
  <2>. QED BY <2>1, <2>2
<1>3. x % LowMod = seen[w] % LowMod
  BY DEF Matches
<1>. HIDE DEF x
<1>4. CASE seen[w] < x
  <2>1. x - seen[w] < LowMod
    BY <1>1, <1>2
  <2>. QED BY <1>1, <1>3, <1>4, <2>1, SlotsDiffer
<1>5. CASE seen[w] = x
  BY <1>5 DEF x
<1>. QED BY <1>1, <1>2, <1>4, <1>5

\* The steps inside a sleep: the second look, the wait, and its early return.
LEMMA ParkedStepInv ==
    ASSUME ParkInv, NEW w \in Workers, Look(w) \/ Sleep(w) \/ WaitReturns(w)
    PROVE  ParkInv'
<1>1. PICK next \in Counted :
          /\ pc[w] \in Counted /\ pc' = [pc EXCEPT ![w] = next]
          /\ next = "asleep" => Word(on[w]) = seen[w]
          /\ UNCHANGED <<published, ran, fences, sleepers, at, on, seen>>
  <2>1. CASE Look(w)
    BY <2>1 DEF Look, Counted
  <2>2. CASE Sleep(w)
    BY <2>2, TrueMatch DEF Sleep, Counted
  <2>3. CASE WaitReturns(w)
    BY <2>3 DEF WaitReturns, Counted
  <2>. QED BY <2>1, <2>2, <2>3
<1>2. w \in Threads /\ w # Producer /\ Workers \subseteq Threads
  BY DEF Workers, Threads, Producer
<1>3. \A t \in Threads : pc'[t] = IF t = w THEN next ELSE pc[t]
  BY <1>1 DEF ParkInv, TypeOK
<1>4. TypeOK'
  <2>1. pc' \in [Threads -> {"spin", "check", "wake", "fence", "run"} \cup Parking]
    BY <1>1 DEF ParkInv, TypeOK, Parking, Counted
  <2>. QED BY <1>1, <1>2, <1>3, <2>1 DEF ParkInv, TypeOK
<1>5. Numbered' /\ Seen' /\ Fenced'
  BY <1>1, <1>2, <1>3, QuietStep DEF AtFence, Parking, Counted
<1>6. SleepersCounted'
  BY <1>1, <1>2, <1>3, SleepersKept
<1>7. NoLostWake'
  <2>1. \A v \in Workers : pc'[v] = "asleep" =>
            (v = w /\ Word(on[v]) = seen[v]) \/ (v # w /\ pc[v] = "asleep" /\ on[v] \in Threads)
    BY <1>1, <1>2, <1>3 DEF ParkInv, TypeOK
  <2>2. \A t \in Threads : pc[t] \in {"check", "wake"} => pc'[t] \in {"check", "wake"}
    BY <1>1, <1>3 DEF Counted
  <2>. QED BY <1>1, <2>1, <2>2 DEF ParkInv, NoLostWake, Word
<1>. QED BY <1>4, <1>5, <1>6, <1>7 DEF ParkInv

-----------------------------------------------------------------------------
(* The steps of the owners and of the fence.                               *)

\* What every step's pc' = [pc EXCEPT ![t] = v] says, thread by thread.
LEMMA Moved ==
    ASSUME ParkInv, NEW t \in Threads,
           NEW v \in {"spin", "check", "wake", "fence", "run"} \cup Parking,
           pc' = [pc EXCEPT ![t] = v]
    PROVE  /\ \A u \in Threads : pc'[u] = IF u = t THEN v ELSE pc[u]
           /\ pc' \in [Threads -> {"spin", "check", "wake", "fence", "run"} \cup Parking]
           /\ Workers \subseteq Threads /\ Producer \in Threads /\ Producer \notin Workers
<1>1. pc \in [Threads -> {"spin", "check", "wake", "fence", "run"} \cup Parking]
  BY DEF ParkInv, TypeOK
<1>2. Workers \subseteq Threads /\ Producer \in Threads /\ Producer \notin Workers
  BY ParkAssumption DEF Threads, Workers, Producer
<1>. QED BY <1>1, <1>2

\* A command goes into the ring.
LEMMA PublishInv == ParkInv /\ Publish => ParkInv'
<1>. SUFFICES ASSUME ParkInv, Publish PROVE ParkInv'
  OBVIOUS
<1>1. PICK f \in {0, published} :
          /\ fences' = [fences EXCEPT ![published % QueueCap] = f]
          /\ published' = published + 1 /\ pc' = [pc EXCEPT ![Producer] = "check"]
          /\ pc[Producer] = "spin"
          /\ UNCHANGED <<ran, sleepers, at, on, seen>>
  BY DEF Publish
<1>2. /\ \A u \in Threads : pc'[u] = IF u = Producer THEN "check" ELSE pc[u]
      /\ pc' \in [Threads -> {"spin", "check", "wake", "fence", "run"} \cup Parking]
      /\ Workers \subseteq Threads /\ Producer \in Threads /\ Producer \notin Workers
  <2>1. Producer \in Threads
    BY ParkAssumption DEF Producer, Threads
  <2>. QED BY <1>1, <2>1, Moved
<1>3. /\ published \in Nat /\ QueueCap \in Nat \ {0} /\ ran \in [Workers -> Nat]
      /\ published % QueueCap \in 0 .. QueueCap - 1
      /\ fences \in [0 .. QueueCap - 1 -> Nat]
  <2>1. published \in Nat /\ QueueCap \in Nat \ {0}
    BY ParkAssumption DEF ParkInv, TypeOK
  <2>. QED BY <2>1, Division DEF ParkInv, TypeOK
<1>4. \A w \in Workers : published - ran[w] < QueueCap /\ ran[w] <= published
  BY <1>3 DEF Publish, SlotFree, ParkInv, Numbered
<1>5. ASSUME NEW c \in Nat, c < published, published - c < QueueCap
      PROVE  c % QueueCap # published % QueueCap /\ fences'[c % QueueCap] = fences[c % QueueCap]
  <2>1. c % QueueCap # published % QueueCap /\ c % QueueCap \in 0 .. QueueCap - 1
    BY <1>3, <1>5, SlotsDiffer, Division
  <2>. QED BY <1>1, <1>3, <2>1
<1>6. ASSUME NEW w \in Workers, ran[w] < published PROVE Fence(w)' = Fence(w)
  BY <1>1, <1>3, <1>4, <1>5, <1>6 DEF Fence
<1>7. \A w \in Workers : pc'[w] = pc[w] /\ (AtFence(w)' <=> AtFence(w))
  BY <1>1, <1>2 DEF AtFence
<1>8. TypeOK'
  <2>1. fences' \in [0 .. QueueCap - 1 -> Nat] /\ published' \in Nat
    BY <1>1, <1>3
  <2>. QED BY <1>1, <1>2, <2>1 DEF ParkInv, TypeOK
<1>9. Numbered'
  BY <1>1, <1>3, <1>4, <1>7 DEF ParkInv, Numbered
<1>10. Seen'
  BY <1>1, <1>7 DEF ParkInv, Seen, ParkedOn
<1>11. Fenced'
  <2>1. ASSUME NEW c \in 0 .. published' - 1, published' - c <= QueueCap
        PROVE  fences'[c % QueueCap] <= c
    <3>1. CASE c = published
      BY <1>1, <1>3, <3>1
    <3>2. CASE c # published
      <4>1. c \in 0 .. published - 1 /\ c \in Nat /\ c < published /\ published - c < QueueCap
        BY <1>1, <1>3, <2>1, <3>2
      <4>. QED BY <1>3, <1>5, <4>1 DEF ParkInv, Fenced
    <3>. QED BY <3>1, <3>2
  <2>2. FenceHolds'
    BY <1>1, <1>6, <1>7 DEF ParkInv, Fenced, Numbered, FenceHolds
  <2>3. \A w \in Workers : /\ AtFence(w)' => \A j \in Workers \ {w} : j < at'[w] => ran'[j] >= Fence(w)'
                           /\ ~AtFence(w)' => at'[w] = 1
    BY <1>1, <1>6, <1>7 DEF ParkInv, Fenced, Numbered
  <2>. QED BY <2>1, <2>2, <2>3 DEF Fenced
<1>12. SleepersCounted'
  BY <1>1, <1>7, SleepersKept
<1>13. NoLostWake'
  <2>1. pc'[Producer] = "check"
    BY <1>2
  <2>2. ASSUME NEW w \in Workers, pc'[w] = "asleep", on'[w] # Producer, Word(on[w])' # seen'[w]
        PROVE  pc'[on'[w]] \in {"check", "wake"}
    <3>1. pc[w] = "asleep" /\ on[w] # Producer /\ Word(on[w]) # seen[w] /\ on[w] \in Threads
      BY <1>1, <1>7, <2>2 DEF Word, ParkInv, TypeOK
    <3>. QED BY <1>1, <1>2, <3>1 DEF ParkInv, NoLostWake
  <2>. QED BY <2>1, <2>2 DEF NoLostWake, Word
<1>. QED BY <1>8, <1>9, <1>10, <1>11, <1>12, <1>13 DEF ParkInv

\* A worker finishes its command.
LEMMA FinishInv ==
    ASSUME ParkInv, NEW w \in Workers, Finish(w)
    PROVE  ParkInv'
<1>1. /\ pc[w] = "run" /\ ran' = [ran EXCEPT ![w] = @ + 1] /\ pc' = [pc EXCEPT ![w] = "check"]
      /\ UNCHANGED <<published, fences, sleepers, at, on, seen>>
  BY DEF Finish
<1>2. /\ \A u \in Threads : pc'[u] = IF u = w THEN "check" ELSE pc[u]
      /\ pc' \in [Threads -> {"spin", "check", "wake", "fence", "run"} \cup Parking]
      /\ Workers \subseteq Threads /\ Producer \in Threads /\ Producer \notin Workers
  <2>1. w \in Threads
    BY DEF Workers, Threads
  <2>. QED BY <1>1, <2>1, Moved
<1>3. /\ published \in Nat /\ QueueCap \in Nat \ {0} /\ ran \in [Workers -> Nat]
      /\ ran' \in [Workers -> Nat] /\ ran[w] < published
      /\ \A v \in Workers : ran'[v] = IF v = w THEN ran[w] + 1 ELSE ran[v]
  BY <1>1, ParkAssumption DEF ParkInv, TypeOK, Numbered
<1>4. \A v \in Workers : v # w => /\ pc'[v] = pc[v] /\ ran'[v] = ran[v] /\ Fence(v)' = Fence(v)
                                  /\ (AtFence(v)' <=> AtFence(v))
  BY <1>1, <1>2, <1>3 DEF AtFence, Fence
<1>5. ~AtFence(w) /\ ~AtFence(w)' /\ pc'[w] = "check"
  BY <1>1, <1>2 DEF AtFence, Parking
<1>6. TypeOK'
  BY <1>1, <1>2, <1>3 DEF ParkInv, TypeOK
<1>7. Numbered'
  BY <1>1, <1>3, <1>4, <1>5 DEF ParkInv, Numbered
<1>8. Seen'
  <2>1. \A v \in Workers : v # w => \A t \in Threads : ParkedOn(v, t)' => ParkedOn(v, t)
    BY <1>1, <1>4 DEF ParkedOn
  <2>2. \A t : ~ParkedOn(w, t)'
    BY <1>5 DEF ParkedOn, Parking
  <2>3. seen \in [Workers -> Nat]
    BY DEF ParkInv, TypeOK
  <2>. QED BY <1>1, <1>2, <1>3, <2>1, <2>2, <2>3 DEF ParkInv, Seen
<1>9. Fenced'
  <2>1. \A v \in Workers : v # w => Fence(v) \in Nat
    BY OwnFence
  <2>2. FenceHolds'
    BY <1>1, <1>3, <1>4, <1>5, <2>1 DEF ParkInv, Fenced, FenceHolds
  <2>3. \A v \in Workers : /\ AtFence(v)' => \A j \in Workers \ {v} : j < at'[v] => ran'[j] >= Fence(v)'
                           /\ ~AtFence(v)' => at'[v] = 1
    BY <1>1, <1>3, <1>4, <1>5, <2>1 DEF ParkInv, Fenced
  <2>. QED BY <1>1, <2>2, <2>3 DEF ParkInv, Fenced
<1>10. SleepersCounted'
  BY <1>1, <1>4, <1>5, SleepersKept DEF Counted
<1>11. NoLostWake'
  <2>. SUFFICES ASSUME NEW v \in Workers, pc'[v] = "asleep", Word(on[v])' # seen'[v]
                PROVE  pc'[on'[v]] \in {"check", "wake"}
    BY <1>1 DEF NoLostWake, Word
  <2>1. v # w /\ pc[v] = "asleep" /\ on[v] \in Threads
    BY <1>4, <1>5 DEF ParkInv, TypeOK
  <2>2. CASE on[v] = w
    BY <1>1, <1>5, <2>2
  <2>3. CASE on[v] # w
    <3>1. Word(on[v])' = Word(on[v])
      BY <1>1, <1>3, <2>1, <2>3 DEF Word, Threads, Workers, Producer
    <3>. QED BY <1>1, <1>2, <2>1, <2>3, <3>1 DEF ParkInv, NoLostWake
  <2>. QED BY <2>2, <2>3
<1>. QED BY <1>6, <1>7, <1>8, <1>9, <1>10, <1>11 DEF ParkInv

\* An owner looks at the count of sleepers.
LEMMA CheckInv ==
    ASSUME ParkInv, NEW t \in Threads, Check(t)
    PROVE  ParkInv'
<1>. DEFINE next == IF AnySleepers(t) THEN "wake" ELSE "spin"
<1>1. /\ pc[t] = "check" /\ pc' = [pc EXCEPT ![t] = next]
      /\ UNCHANGED <<published, ran, fences, sleepers, at, on, seen>>
  BY DEF Check
<1>2. /\ \A u \in Threads : pc'[u] = IF u = t THEN next ELSE pc[u]
      /\ pc' \in [Threads -> {"spin", "check", "wake", "fence", "run"} \cup Parking]
      /\ Workers \subseteq Threads /\ Producer \in Threads /\ Producer \notin Workers
  BY <1>1, Moved
<1>3. TypeOK'
  BY <1>1, <1>2 DEF ParkInv, TypeOK
<1>4. Numbered' /\ Seen' /\ Fenced'
  BY <1>1, <1>2, QuietStep DEF AtFence, Parking
<1>5. SleepersCounted'
  BY <1>1, <1>2, SleepersKept DEF Counted
<1>6. NoLostWake'
  <2>. SUFFICES ASSUME NEW v \in Workers, pc'[v] = "asleep", Word(on[v])' # seen'[v]
                PROVE  pc'[on'[v]] \in {"check", "wake"}
    BY <1>1 DEF NoLostWake, Word
  <2>1. pc[v] = "asleep" /\ Word(on[v]) # seen[v] /\ on[v] \in Threads
    BY <1>1, <1>2 DEF ParkInv, TypeOK, Word
  <2>2. pc[on[v]] \in {"check", "wake"}
    BY <2>1 DEF ParkInv, NoLostWake
  <2>3. CASE on[v] = t
    <3>1. AnySleepers(t)
      BY <2>1, <2>3, SomeSleeper DEF Counted
    <3>. QED BY <1>1, <1>2, <2>3, <3>1
  <2>4. CASE on[v] # t
    BY <1>1, <1>2, <2>1, <2>2, <2>4
  <2>. QED BY <2>3, <2>4
<1>. QED BY <1>3, <1>4, <1>5, <1>6 DEF ParkInv

\* An owner wakes all who sleep on its word.
LEMMA WakeInv ==
    ASSUME ParkInv, NEW t \in Threads, Wake(t)
    PROVE  ParkInv'
<1>1. /\ pc[t] = "wake"
      /\ pc' = [u \in Threads |-> IF u = t THEN "spin" ELSE IF u \in Woken(t) THEN "leave" ELSE pc[u]]
      /\ UNCHANGED <<published, ran, fences, sleepers, at, on, seen>>
  BY DEF Wake
<1>2. /\ \A u \in Threads : pc'[u] = IF u = t THEN "spin" ELSE IF u \in Woken(t) THEN "leave" ELSE pc[u]
      /\ \A u \in Woken(t) : u \in Workers /\ pc[u] = "asleep" /\ on[u] = t
      /\ Workers \subseteq Threads /\ Producer \in Threads /\ Producer \notin Workers
  BY <1>1, ParkAssumption DEF Woken, Threads, Workers, Producer
<1>3. TypeOK'
  <2>1. pc' \in [Threads -> {"spin", "check", "wake", "fence", "run"} \cup Parking]
    BY <1>1 DEF ParkInv, TypeOK, Parking
  <2>2. pc'[Producer] \in {"spin", "check", "wake"}
    BY <1>2 DEF ParkInv, TypeOK
  <2>. QED BY <1>1, <2>1, <2>2 DEF ParkInv, TypeOK
<1>4. Numbered' /\ Seen' /\ Fenced'
  BY <1>1, <1>2, QuietStep DEF AtFence, Parking
<1>5. SleepersCounted'
  BY <1>1, <1>2, SleepersKept DEF Counted
<1>6. NoLostWake'
  <2>. SUFFICES ASSUME NEW v \in Workers, pc'[v] = "asleep", Word(on[v])' # seen'[v]
                PROVE  pc'[on'[v]] \in {"check", "wake"}
    BY <1>1 DEF NoLostWake, Word
  <2>1. pc[v] = "asleep" /\ v \notin Woken(t) /\ Word(on[v]) # seen[v] /\ on[v] \in Threads
    BY <1>1, <1>2 DEF ParkInv, TypeOK, Word
  <2>2. pc[on[v]] \in {"check", "wake"} /\ on[v] # t
    BY <2>1 DEF ParkInv, NoLostWake, Woken
  <2>. QED BY <1>1, <1>2, <2>1, <2>2
<1>. QED BY <1>3, <1>4, <1>5, <1>6 DEF ParkInv

\* An idle worker takes a command.
LEMMA TakeInv ==
    ASSUME ParkInv, NEW w \in Workers, Take(w)
    PROVE  ParkInv'
<1>. DEFINE next == IF N > 1 /\ Fence(w) > 0 THEN "fence" ELSE "run"
<1>1. /\ pc[w] = "spin" /\ ran[w] < published /\ pc' = [pc EXCEPT ![w] = next]
      /\ UNCHANGED <<published, ran, fences, sleepers, at, on, seen>>
  BY DEF Take
<1>2. /\ \A u \in Threads : pc'[u] = IF u = w THEN next ELSE pc[u]
      /\ pc' \in [Threads -> {"spin", "check", "wake", "fence", "run"} \cup Parking]
      /\ Workers \subseteq Threads /\ Producer \in Threads /\ Producer \notin Workers
  <2>1. w \in Threads
    BY DEF Workers, Threads
  <2>. QED BY <1>1, <2>1, Moved
<1>3. /\ \A v \in Workers : Fence(v)' = Fence(v)
      /\ ~AtFence(w) /\ at[w] = 1
      /\ \A v \in Workers : v # w => pc'[v] = pc[v] /\ (AtFence(v)' <=> AtFence(v))
      /\ \A v \in Workers, t \in Threads : ParkedOn(v, t)' <=> ParkedOn(v, t)
  BY <1>1, <1>2 DEF Fence, AtFence, ParkedOn, Parking, ParkInv, Fenced
<1>4. TypeOK'
  BY <1>1, <1>2 DEF ParkInv, TypeOK
<1>5. Numbered'
  BY <1>1, <1>3 DEF ParkInv, Numbered
<1>6. Seen'
  BY <1>1, <1>2, <1>3 DEF ParkInv, Seen
<1>7. Fenced'
  <2>1. ASSUME NEW j \in Workers, j # w, next = "run" PROVE ran[j] >= Fence(w)
    <3>1. Fence(w) \in Nat /\ ran[j] \in Nat
      BY OwnFence DEF ParkInv, TypeOK
    <3>2. CASE N > 1
      BY <2>1, <3>1, <3>2
    <3>3. CASE ~(N > 1)
      BY <2>1, <3>3, ParkAssumption DEF Workers
    <3>. QED BY <3>2, <3>3
  <2>2. FenceHolds'
    BY <1>1, <1>2, <1>3, <2>1 DEF ParkInv, Fenced, FenceHolds
  <2>3. \A v \in Workers : /\ AtFence(v)' => \A j \in Workers \ {v} : j < at'[v] => ran'[j] >= Fence(v)'
                           /\ ~AtFence(v)' => at'[v] = 1
    BY <1>1, <1>3 DEF ParkInv, Fenced, Workers
  <2>. QED BY <1>1, <2>2, <2>3 DEF ParkInv, Fenced
<1>8. SleepersCounted'
  BY <1>1, <1>2, SleepersKept DEF Counted
<1>9. NoLostWake'
  <2>1. \A v \in Workers : pc'[v] = "asleep" => pc[v] = "asleep" /\ on[v] \in Threads
    BY <1>1, <1>2 DEF ParkInv, TypeOK
  <2>2. \A t \in Threads : pc[t] \in {"check", "wake"} => pc'[t] \in {"check", "wake"}
    BY <1>1, <1>2
  <2>. QED BY <1>1, <2>1, <2>2 DEF ParkInv, NoLostWake, Word
<1>. QED BY <1>4, <1>5, <1>6, <1>7, <1>8, <1>9 DEF ParkInv

\* A worker sets out to sleep: the idle one, and the one at a fence.
LEMMA ParkStepInv ==
    ASSUME ParkInv, NEW w \in Workers, IdlePark(w) \/ FencePark(w)
    PROVE  ParkInv'
<1>1. PICK t \in Threads :
          /\ pc' = [pc EXCEPT ![w] = "announce"]
          /\ on' = [on EXCEPT ![w] = t] /\ seen' = [seen EXCEPT ![w] = Word(t)]
          /\ UNCHANGED <<published, ran, fences, sleepers, at>>
          /\ \/ pc[w] = "spin" /\ t = Producer /\ Word(t) = ran[w]
             \/ pc[w] = "fence" /\ t \in Workers /\ t = at[w] /\ t # w /\ ran[t] < Fence(w)
  <2>1. CASE IdlePark(w)
    <3>1. Producer \in Threads /\ ran[w] >= published /\ ran[w] <= published
      BY <2>1, ParkAssumption DEF IdlePark, Threads, Producer, ParkInv, Numbered
    <3>2. Word(Producer) = ran[w]
      BY <3>1 DEF Word, ParkInv, TypeOK
    <3>. QED BY <2>1, <3>1, <3>2 DEF IdlePark
  <2>2. CASE FencePark(w)
    <3>1. at[w] \in Workers /\ at[w] \in Threads /\ at[w] # Producer
      BY DEF ParkInv, TypeOK, Workers, Threads, Producer
    <3>2. ran[at[w]] \in Nat /\ Fence(w) \in Nat /\ Word(at[w]) = ran[at[w]]
      BY <3>1, OwnFence DEF Word, ParkInv, TypeOK
    <3>3. ran[at[w]] < Fence(w) /\ pc[w] = "fence" /\ at[w] # w
      BY <2>2, <3>2 DEF FencePark, Reached
    <3>4. /\ pc' = [pc EXCEPT ![w] = "announce"]
          /\ on' = [on EXCEPT ![w] = at[w]] /\ seen' = [seen EXCEPT ![w] = Word(at[w])]
          /\ UNCHANGED <<published, ran, fences, sleepers, at>>
      BY <2>2, <3>2 DEF FencePark
    <3>. QED BY <3>1, <3>3, <3>4
  <2>. QED BY <2>1, <2>2
<1>2. /\ \A u \in Threads : pc'[u] = IF u = w THEN "announce" ELSE pc[u]
      /\ pc' \in [Threads -> {"spin", "check", "wake", "fence", "run"} \cup Parking]
      /\ Workers \subseteq Threads /\ Producer \in Threads /\ Producer \notin Workers
  <2>1. w \in Threads
    BY DEF Workers, Threads
  <2>. QED BY <1>1, <2>1, Moved DEF Parking
<1>3. Word(t) \in Nat /\ ran \in [Workers -> Nat] /\ published \in Nat /\ QueueCap \in Nat \ {0}
  <2>1. t = Producer \/ t \in Workers
    BY ParkAssumption DEF Threads, Workers, Producer
  <2>. QED BY <2>1, ParkAssumption DEF ParkInv, TypeOK, Word
<1>4. /\ \A v \in Workers : on'[v] = (IF v = w THEN t ELSE on[v])
      /\ \A v \in Workers : seen'[v] = (IF v = w THEN Word(t) ELSE seen[v])
      /\ \A v \in Workers : Fence(v)' = Fence(v)
  BY <1>1 DEF ParkInv, TypeOK, Fence
<1>5. /\ \A v \in Workers : AtFence(v)' <=> AtFence(v)
      /\ \A v \in Workers : v # w => \A u : ParkedOn(v, u)' <=> ParkedOn(v, u)
      /\ \A u : ParkedOn(w, u)' => u = t
  BY <1>1, <1>2, <1>4 DEF AtFence, ParkedOn, Parking
<1>6. TypeOK'
  <2>1. on' \in [Workers -> Threads] /\ seen' \in [Workers -> Nat]
    BY <1>1, <1>3 DEF ParkInv, TypeOK
  <2>2. pc'[Producer] \in {"spin", "check", "wake"}
    BY <1>2 DEF ParkInv, TypeOK
  <2>. QED BY <1>1, <1>2, <2>1, <2>2 DEF ParkInv, TypeOK
<1>7. Numbered'
  BY <1>1, <1>2, <1>5 DEF ParkInv, Numbered
<1>8. Seen'
  <2>1. ASSUME t \in Workers PROVE Word(t) + QueueCap > ran[w] /\ Word(t) = ran[t] /\ t = at[w] /\ t # w
    <3>1. pc[w] = "fence" /\ t = at[w] /\ t # w /\ Word(t) = ran[t]
      BY <1>1, <1>2, <2>1 DEF Word
    <3>2. ran[w] < published /\ published - ran[t] <= QueueCap
      BY <2>1, <3>1 DEF ParkInv, Numbered, AtFence
    <3>. QED BY <1>3, <2>1, <3>1, <3>2
  <2>2. ASSUME t = Producer PROVE Word(t) = ran[w]
    BY <1>1, <1>2, <2>2
  <2>3. /\ ParkedOn(w, Producer)' => seen'[w] = ran'[w]
        /\ \A j \in Workers : ParkedOn(w, j)' =>
               j = at'[w] /\ j # w /\ seen'[w] <= ran'[j] /\ seen'[w] + QueueCap > ran'[w]
    BY <1>1, <1>3, <1>4, <1>5, <2>1, <2>2
  <2>4. ASSUME NEW v \in Workers, v # w
        PROVE  /\ ParkedOn(v, Producer)' => seen'[v] = ran'[v]
               /\ \A j \in Workers : ParkedOn(v, j)' =>
                      j = at'[v] /\ j # v /\ seen'[v] <= ran'[j] /\ seen'[v] + QueueCap > ran'[v]
    BY <1>1, <1>4, <1>5, <2>4 DEF ParkInv, Seen
  <2>. QED BY <2>3, <2>4 DEF Seen
<1>9. Fenced'
  <2>1. FenceHolds'
    BY <1>1, <1>2, <1>4 DEF ParkInv, Fenced, FenceHolds
  <2>2. \A v \in Workers : /\ AtFence(v)' => \A j \in Workers \ {v} : j < at'[v] => ran'[j] >= Fence(v)'
                           /\ ~AtFence(v)' => at'[v] = 1
    BY <1>1, <1>4, <1>5 DEF ParkInv, Fenced
  <2>. QED BY <1>1, <2>1, <2>2 DEF ParkInv, Fenced
<1>10. SleepersCounted'
  BY <1>1, <1>2, <1>4, SleepersKept DEF Counted
<1>11. NoLostWake'
  <2>1. \A v \in Workers : pc'[v] = "asleep" => v # w /\ pc[v] = "asleep" /\ on[v] \in Threads
    BY <1>2 DEF ParkInv, TypeOK
  <2>2. \A u \in Threads : pc[u] \in {"check", "wake"} => pc'[u] \in {"check", "wake"}
    BY <1>1, <1>2
  <2>. QED BY <1>1, <1>4, <2>1, <2>2 DEF ParkInv, NoLostWake, Word
<1>. QED BY <1>6, <1>7, <1>8, <1>9, <1>10, <1>11 DEF ParkInv

\* A worker at a fence finds one worker there, or the last one.
LEMMA FencePassInv ==
    ASSUME ParkInv, NEW w \in Workers, FencePass(w)
    PROVE  ParkInv'
<1>. DEFINE next == IF at[w] = N THEN "run" ELSE "fence"
            nextAt == IF at[w] = N THEN 1 ELSE at[w] + 1
<1>1. /\ pc[w] = "fence" /\ pc' = [pc EXCEPT ![w] = next] /\ at' = [at EXCEPT ![w] = nextAt]
      /\ UNCHANGED <<published, ran, fences, sleepers, on, seen>>
  <2>1. pc[w] = "fence" => pc = [pc EXCEPT ![w] = "fence"]
    BY DEF ParkInv, TypeOK
  <2>. QED BY <2>1 DEF FencePass
<1>2. /\ \A u \in Threads : pc'[u] = IF u = w THEN next ELSE pc[u]
      /\ pc' \in [Threads -> {"spin", "check", "wake", "fence", "run"} \cup Parking]
      /\ Workers \subseteq Threads /\ Producer \in Threads /\ Producer \notin Workers
  <2>1. w \in Threads
    BY DEF Workers, Threads
  <2>. QED BY <1>1, <2>1, Moved
<1>3. nextAt \in Workers /\ N \in Workers /\ at[w] \in Workers
  <2>1. at[w] \in Workers
    BY DEF ParkInv, TypeOK
  <2>. QED BY <2>1, ParkAssumption DEF Workers
<1>4. /\ \A v \in Workers : Fence(v)' = Fence(v)
      /\ \A v \in Workers : at'[v] = IF v = w THEN nextAt ELSE at[v]
      /\ AtFence(w)
      /\ AtFence(w)' <=> at[w] # N
      /\ \A v \in Workers : v # w => pc'[v] = pc[v] /\ (AtFence(v)' <=> AtFence(v))
      /\ \A v \in Workers : \A t : ParkedOn(v, t)' => v # w /\ ParkedOn(v, t)
  BY <1>1, <1>2 DEF Fence, AtFence, ParkedOn, Parking, ParkInv, TypeOK
<1>5. TypeOK'
  BY <1>1, <1>2, <1>3 DEF ParkInv, TypeOK
<1>6. Numbered'
  BY <1>1, <1>4 DEF ParkInv, Numbered
<1>7. Seen'
  BY <1>1, <1>2, <1>4 DEF ParkInv, Seen
<1>8. Fenced'
  <2>1. ASSUME NEW j \in Workers, j # w, j <= at[w] PROVE ran[j] >= Fence(w)
    <3>1. CASE j < at[w]
      BY <1>4, <2>1, <3>1 DEF ParkInv, Fenced
    <3>2. CASE j = at[w]
      BY <2>1, <3>2 DEF FencePass, Reached
    <3>. QED BY <1>3, <2>1, <3>1, <3>2 DEF Workers
  <2>2. FenceHolds'
    <3>1. ASSUME NEW j \in Workers, j # w, pc'[w] = "run" PROVE ran'[j] >= Fence(w)'
      <4>1. at[w] = N
        BY <1>2, <3>1
      <4>. QED BY <1>1, <1>4, <2>1, <3>1, <4>1, ParkAssumption DEF Workers
    <3>2. ASSUME NEW v \in Workers, NEW j \in Workers, v # w, j # v, pc'[v] = "run"
          PROVE  ran'[j] >= Fence(v)'
      BY <1>1, <1>4, <3>2 DEF ParkInv, Fenced, FenceHolds
    <3>. QED BY <3>1, <3>2 DEF FenceHolds, Fence
  <2>3. ASSUME AtFence(w)', NEW j \in Workers \ {w}, j < at'[w] PROVE ran'[j] >= Fence(w)'
    <3>1. j <= at[w]
      BY <1>3, <1>4, <2>3 DEF Workers
    <3>. QED BY <1>1, <1>4, <2>1, <3>1
  <2>4. ~AtFence(w)' => at'[w] = 1
    BY <1>4
  <2>5. ASSUME NEW v \in Workers, v # w
        PROVE  /\ AtFence(v)' => \A j \in Workers \ {v} : j < at'[v] => ran'[j] >= Fence(v)'
               /\ ~AtFence(v)' => at'[v] = 1
    BY <1>1, <1>4, <2>5 DEF ParkInv, Fenced
  <2>6. \A v \in Workers : /\ AtFence(v)' => \A j \in Workers \ {v} : j < at'[v] => ran'[j] >= Fence(v)'
                           /\ ~AtFence(v)' => at'[v] = 1
    BY <2>3, <2>4, <2>5
  <2>. QED BY <1>1, <2>2, <2>6 DEF ParkInv, Fenced
<1>9. SleepersCounted'
  BY <1>1, <1>2, SleepersKept DEF Counted
<1>10. NoLostWake'
  <2>1. \A v \in Workers : pc'[v] = "asleep" => pc[v] = "asleep" /\ on[v] \in Threads
    BY <1>1, <1>2 DEF ParkInv, TypeOK
  <2>2. \A t \in Threads : pc[t] \in {"check", "wake"} => pc'[t] \in {"check", "wake"}
    BY <1>1, <1>2
  <2>. QED BY <1>1, <2>1, <2>2 DEF ParkInv, NoLostWake, Word
<1>. QED BY <1>5, <1>6, <1>7, <1>8, <1>9, <1>10 DEF ParkInv

-----------------------------------------------------------------------------
(* The theorems.                                                           *)

\* Every step keeps the invariant.
LEMMA StepInv == ParkInv /\ [Next]_vars => ParkInv'
<1>. SUFFICES ASSUME ParkInv, [Next]_vars PROVE ParkInv'
  OBVIOUS
<1>1. CASE UNCHANGED vars
  <2>1. UNCHANGED <<published, ran, fences, sleepers, pc, at, on, seen>>
    BY <1>1 DEF vars
  <2>2. TypeOK'
    BY <2>1 DEF ParkInv, TypeOK
  <2>3. Numbered' /\ Seen' /\ Fenced'
    BY <2>1, QuietStep DEF AtFence
  <2>4. SleepersCounted'
    BY <2>1, SleepersKept
  <2>5. NoLostWake'
    BY <2>1 DEF ParkInv, NoLostWake, Word
  <2>. QED BY <2>2, <2>3, <2>4, <2>5 DEF ParkInv
<1>2. CASE ProducerStep
  <2>1. Producer \in Threads
    BY ParkAssumption DEF Producer, Threads
  <2>. QED BY <1>2, <2>1, PublishInv, CheckInv, WakeInv DEF ProducerStep
<1>3. ASSUME NEW w \in Workers, WorkerStep(w) \/ WaitReturns(w) PROVE ParkInv'
  <2>1. w \in Threads
    BY DEF Workers, Threads
  <2>2. CASE Finish(w) \/ Check(w) \/ Wake(w)
    BY <2>1, <2>2, FinishInv, CheckInv, WakeInv
  <2>3. CASE Take(w) \/ IdlePark(w) \/ FencePass(w) \/ FencePark(w)
    BY <2>3, TakeInv, ParkStepInv, FencePassInv
  <2>4. CASE Announce(w) \/ Leave(w)
    BY <2>4, AnnounceInv, LeaveInv
  <2>5. CASE Look(w) \/ Sleep(w) \/ WaitReturns(w)
    BY <2>5, ParkedStepInv
  <2>. QED BY <1>3, <2>2, <2>3, <2>4, <2>5 DEF WorkerStep
<1>. QED BY <1>1, <1>2, <1>3 DEF Next

\* The inductive invariant holds of every behaviour of the protocol.
THEOREM ParkInvariance == Spec => []ParkInv
BY InitInv, StepInv, PTL DEF Spec

\* A worker asleep on a word that has moved is about to be woken by whoever
\* moved it (rule 3 of gxr.c): no wait needs its 50 ms bound.
THEOREM NoLostWakeHolds == Spec => []NoLostWake
<1>1. ParkInv => NoLostWake
  BY DEF ParkInv
<1>. QED BY <1>1, ParkInvariance, PTL

\* The counts of sleepers an owner reads are the sleepers there are.
THEOREM SleepersCountedHolds == Spec => []SleepersCounted
<1>1. ParkInv => SleepersCounted
  BY DEF ParkInv
<1>. QED BY <1>1, ParkInvariance, PTL

\* A wait that compares only the low bits of a 64-bit count (plat_wait64 on
\* Linux) never mistakes a moved count for an unmoved one.
THEOREM NoFalseSleepHolds == Spec => []NoFalseSleep
<1>1. ParkInv => NoFalseSleep
  BY TrueMatch DEF NoFalseSleep
<1>. QED BY <1>1, ParkInvariance, PTL

\* A worker that runs a command has found every other at the command's fence,
\* however many sleeps that took (fence_wait).
THEOREM FenceHoldsHolds == Spec => []FenceHolds
<1>1. ParkInv => FenceHolds
  BY DEF ParkInv, Fenced
<1>. QED BY <1>1, ParkInvariance, PTL

\* Sleeping and waking lose no command and run none twice: the protocol is the
\* abstract command ring.
THEOREM ImplementsRingHolds == Spec => ImplementsRing
<1>. DEFINE busy == [w \in Workers |-> pc[w] = "run"]
<1>1. Init => Ring!Init
  <2>. SUFFICES ASSUME Init PROVE Ring!Init
    OBVIOUS
  <2>1. \A w \in Workers : pc[w] = "spin"
    BY DEF Init, Workers, Threads
  <2>2. busy = [w \in Workers |-> FALSE]
    BY <2>1
  <2>. QED BY <2>2 DEF Init, Ring!Init
<1>2. ParkInv /\ [Next]_vars => [Ring!Next]_Ring!vars
  <2>. SUFFICES ASSUME ParkInv, [Next]_vars PROVE [Ring!Next]_Ring!vars
    OBVIOUS
  <2>1. /\ \A w \in Workers : busy[w] = (pc[w] = "run")
        /\ Workers \subseteq Threads /\ Producer \notin Workers
    BY DEF Workers, Threads, Producer
  <2>2. ASSUME UNCHANGED <<published, ran>>, \A w \in Workers : pc'[w] = "run" <=> pc[w] = "run"
        PROVE  UNCHANGED Ring!vars
    BY <2>2 DEF Ring!vars
  <2>3. ASSUME NEW w \in Workers, ran[w] < published, pc[w] # "run", pc' = [pc EXCEPT ![w] = "run"],
               UNCHANGED <<published, ran>>
        PROVE  Ring!Next
    <3>1. busy' = [busy EXCEPT ![w] = TRUE]
      BY <2>1, <2>3 DEF ParkInv, TypeOK
    <3>2. Ring!Start(w)
      BY <2>3, <3>1 DEF Ring!Start
    <3>. QED BY <3>2 DEF Ring!Next
  <2>4. CASE Publish
    <3>1. /\ published' = published + 1 /\ UNCHANGED ran
          /\ pc' = [pc EXCEPT ![Producer] = "check"]
      BY <2>4 DEF Publish
    <3>2. busy' = busy
      BY <2>1, <3>1 DEF ParkInv, TypeOK
    <3>3. \A w \in Workers : published - ran[w] < QueueCap
      BY <2>4, ParkAssumption DEF Publish, SlotFree, ParkInv, TypeOK
    <3>4. Ring!Publish
      BY <3>1, <3>2, <3>3 DEF Ring!Publish
    <3>. QED BY <3>4 DEF Ring!Next
  <2>5. ASSUME NEW t \in Threads, Check(t) PROVE UNCHANGED Ring!vars
    BY <2>1, <2>2, <2>5 DEF Check, ParkInv, TypeOK
  <2>6. ASSUME NEW t \in Threads, Wake(t) PROVE UNCHANGED Ring!vars
    <3>1. \A u \in Workers : pc'[u] = "run" <=> pc[u] = "run"
      BY <2>1, <2>6 DEF Wake, Woken
    <3>. QED BY <2>2, <2>6, <3>1 DEF Wake
  <2>7. ASSUME NEW w \in Workers, Finish(w) PROVE Ring!Next
    <3>1. /\ pc[w] = "run" /\ ran' = [ran EXCEPT ![w] = @ + 1]
          /\ pc' = [pc EXCEPT ![w] = "check"] /\ UNCHANGED published
      BY <2>7 DEF Finish
    <3>2. busy' = [busy EXCEPT ![w] = FALSE]
      BY <2>1, <3>1 DEF ParkInv, TypeOK
    <3>3. Ring!Finish(w)
      BY <3>1, <3>2 DEF Ring!Finish
    <3>. QED BY <3>3 DEF Ring!Next
  <2>8. ASSUME NEW w \in Workers, Take(w) PROVE [Ring!Next]_Ring!vars
    <3>1. CASE pc' = [pc EXCEPT ![w] = "run"]
      BY <2>3, <2>8, <3>1 DEF Take
    <3>2. CASE pc' = [pc EXCEPT ![w] = "fence"]
      BY <2>1, <2>2, <2>8, <3>2 DEF Take, ParkInv, TypeOK
    <3>. QED BY <2>8, <3>1, <3>2 DEF Take
  <2>9. ASSUME NEW w \in Workers, FencePass(w) PROVE [Ring!Next]_Ring!vars
    <3>1. ran[w] < published /\ pc[w] = "fence" /\ UNCHANGED <<published, ran>>
      BY <2>9 DEF FencePass, ParkInv, Numbered, AtFence
    <3>2. CASE at[w] = N
      BY <2>3, <2>9, <3>1, <3>2 DEF FencePass
    <3>3. CASE at[w] # N
      BY <2>2, <2>9, <3>1, <3>3 DEF FencePass
    <3>. QED BY <3>2, <3>3
  <2>10. ASSUME NEW w \in Workers,
                \/ IdlePark(w) \/ FencePark(w) \/ Announce(w) \/ Look(w)
                \/ Sleep(w) \/ Leave(w) \/ WaitReturns(w)
         PROVE  UNCHANGED Ring!vars
    <3>1. PICK v : pc' = [pc EXCEPT ![w] = v] /\ v # "run" /\ pc[w] # "run" /\ UNCHANGED <<published, ran>>
      BY <2>10 DEF IdlePark, FencePark, Announce, Look, Sleep, Leave, WaitReturns
    <3>. QED BY <2>1, <2>2, <3>1 DEF ParkInv, TypeOK
  <2>11. CASE UNCHANGED vars
    BY <2>2, <2>11 DEF vars
  <2>12. Producer \in Threads
    BY ParkAssumption DEF Producer, Threads
  <2>. QED
    BY <2>1, <2>4, <2>5, <2>6, <2>7, <2>8, <2>9, <2>10, <2>11, <2>12 DEF Next, ProducerStep, WorkerStep
<1>. QED BY <1>1, <1>2, ParkInvariance, PTL DEF Spec, ImplementsRing, Ring!Spec
=============================================================================

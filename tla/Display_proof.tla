---------------------------- MODULE Display_proof ----------------------------
(***************************************************************************)
(* What holds of the parts MCDisplay puts side by side, for every value of *)
(* their constants.                                                        *)
(*                                                                         *)
(* The screen ring hands frames on whole, for any workers and frames.  The *)
(* argument: no worker begins a copy of a frame before all have ended the  *)
(* last (Fence), so the counts of one frame's end follow those of the one  *)
(* before, and one count in as many as the workers is the last (Counts);   *)
(* whoever makes it fills while the others wait for it (Alone) and the     *)
(* rows hold its frame (RowsHold).  The three slots are the filler's, the  *)
(* middle one and the presenter's (Roles), so what is offered stays whole  *)
(* (Whole).                                                                *)
(*                                                                         *)
(* The in-between images, for every display rate, every number of images a *)
(* device holds and every count of the budget.                             *)
(***************************************************************************)
EXTENDS MCDisplay, RingNumbers, FiniteSetTheorems, TLAPS

-----------------------------------------------------------------------------
(* The screen ring.                                                        *)

\* A filler is past its count; Passed(w) is the frames w has counted the end of.
Filler(w) == r_pc[w] \in Screens!Filling
Passed(w) == copy[w].frame + (IF Filler(w) THEN 1 ELSE 0)

RingType ==
    /\ r_pc \in [Screens!Workers -> {"idle", "rows", "count"} \cup Screens!Filling]
    /\ copy \in [Screens!Workers -> [frame : 0 .. RingFrames, mid : BOOLEAN]]
    /\ \A w \in Screens!Workers : r_pc[w] # "idle" \/ copy[w].mid => copy[w].frame < RingFrames
    /\ \A w \in Screens!Workers : copy[w].mid => copy[w].frame \in RingMids
    /\ \A w \in Screens!Workers : r_pc[w] = "count" \/ Filler(w) => Screens!Ends(copy[w])
    /\ screen \in Screens!Picture /\ mid \in Screens!Picture
    /\ state \in [slot : Screens!Slots, fresh : BOOLEAN]
    /\ back \in Screens!Slots /\ front \in Screens!Slots
    /\ slots \in
            [Screens!Slots -> [real : Screens!Picture, mid : Screens!Picture, has_mid : BOOLEAN]]
    /\ old \in [Screens!Workers \cup {Screens!Presenter} -> [slot : Screens!Slots, fresh : BOOLEAN]]
    /\ tpc \in {"show", "cas"}

\* No worker is a frame ahead of another it has begun a copy of.
Fence == \A w \in Screens!Workers : r_pc[w] # "idle" \/ copy[w].mid =>
             \A v \in Screens!Workers : copy[v].frame >= copy[w].frame

\* The rows hold the frame that was copied last.
RowsHold ==
    \A w \in Screens!Workers :
        LET own == copy[w].mid \/ r_pc[w] = "count" \/ Filler(w)
        IN  /\ screen[w] = IF own THEN copy[w].frame ELSE copy[w].frame - 1
            /\ copy[w].mid /\ (r_pc[w] = "count" \/ Filler(w)) => mid[w] = copy[w].frame
            /\ ~copy[w].mid /\ copy[w].frame - 1 \in RingMids => mid[w] = copy[w].frame - 1

\* The frame whose end not all have counted, and those who have.
Counts ==
    \E f \in 0 .. RingFrames :
        LET past == {w \in Screens!Workers : Passed(w) = f + 1}
        IN  /\ \A w \in Screens!Workers : Passed(w) \in {f, f + 1}
            /\ past # Screens!Workers
            /\ done = RingWorkers * f + Cardinality(past)

\* While one fills, the others wait for it at the next frame.
Alone == \A w \in Screens!Workers : Filler(w) =>
             \A v \in Screens!Workers \ {w} :
                 r_pc[v] = "idle" /\ copy[v] = [frame |-> copy[w].frame + 1, mid |-> FALSE]

\* The slots are the filler's, the middle one and the presenter's.
Roles ==
    /\ state.slot # front
    /\ IF \E w \in Screens!Workers : r_pc[w] = "publish"
       THEN \A w \in Screens!Workers : r_pc[w] = "publish" => old[w].slot \notin {state.slot, front}
       ELSE back \notin {state.slot, front}
    /\ tpc = "cas" => old[Screens!Presenter].fresh /\ state.fresh

\* A slot with frame f in it, and with the in-between image it has.
RealIs(S, f) == \A w \in Screens!Workers : S.real[w] = f
MidIs(S, f) == S.has_mid => \A w \in Screens!Workers : S.mid[w] = f
Whole ==
    /\ Screens!IsWhole(slots[front])
    /\ state.fresh => Screens!IsWhole(slots[state.slot])
    /\ state.fresh => slots[state.slot].real[1] # Screens!None
    /\ \A w \in Screens!Workers :
          /\ r_pc[w] \in {"fillmid", "load", "cas"} =>
                  RealIs(slots[back], copy[w].frame) /\ slots[back].has_mid = copy[w].mid
          /\ r_pc[w] \in {"load", "cas"} => MidIs(slots[back], copy[w].frame)


-----------------------------------------------------------------------------
(* Numbers and copies.                                                     *)

\* The copy after a frame's last one is the next frame's own.
LEMMA AfterIs ==
    ASSUME NEW c \in [frame : 0 .. RingFrames, mid : BOOLEAN], c.frame < RingFrames,
           c.mid => c.frame \in RingMids
    PROVE  /\ Screens!After(c) \in [frame : 0 .. RingFrames, mid : BOOLEAN]
           /\ Screens!After(c).mid => Screens!After(c).frame \in RingMids
           /\ Screens!Ends(c) => Screens!After(c) = [frame |-> c.frame + 1, mid |-> FALSE]
           /\ ~Screens!Ends(c) => /\ Screens!After(c).frame = c.frame /\ Screens!After(c).mid = TRUE
                                  /\ ~c.mid /\ c.frame \in RingMids
<1>. RingFrames \in Nat /\ c.frame + 1 \in 0 .. RingFrames
  BY RingAssumption
<1>1. CASE Screens!Ends(c)
  <2>1. Screens!After(c) = [frame |-> c.frame + 1, mid |-> FALSE]
    BY <1>1 DEF Screens!After
  <2>. QED BY <1>1, <2>1
<1>2. CASE ~Screens!Ends(c)
  <2>1. Screens!After(c) = [frame |-> c.frame, mid |-> TRUE]
    BY <1>2 DEF Screens!After
  <2>2. ~c.mid /\ c.frame \in RingMids
    BY <1>2 DEF Screens!Ends
  <2>. QED BY <1>2, <2>1, <2>2
<1>. QED BY <1>1, <1>2

\* Counts do not turn negative within the bound.
LEMMA CountedIs ==
    ASSUME NEW d \in Nat, d + 1 <= RingWorkers * RingFrames
    PROVE  Screens!Counted(d) = d + 1
<1>. DEFINE m == RingWorkers * RingFrames
            h == CountMod \div 2
<1>1. m \in Nat /\ m < h /\ h \in Int /\ d + 1 <= m
  BY RingAssumption
<1>2. h <= CountMod
  BY RingAssumption
<1>. HIDE DEF m
<1>3. (d + 1) % CountMod = d + 1
  BY <1>1, <1>2, RingAssumption
<1>. QED BY <1>1, <1>3 DEF Screens!Counted

\* One of N counts is a multiple of N, the last.
LEMMA LastOfAll ==
    ASSUME NEW f \in Nat, NEW k \in 1 .. RingWorkers
    PROVE  Screens!IsLast(RingWorkers * f + k) <=> k = RingWorkers
<1>. DEFINE n == RingWorkers * f + k
            q == n \div RingWorkers
<1>1. RingWorkers * f \in Nat /\ n \in Nat
  BY RingAssumption
<1>2. /\ (n % RingWorkers) \in 0 .. RingWorkers - 1
      /\ q \in Nat
      /\ n = RingWorkers * q + (n % RingWorkers)
  BY <1>1, Division, RingAssumption
<1>3. RingWorkers * (q - f) = k - (n % RingWorkers)
  <2>1. RingWorkers * (q - f) = RingWorkers * q - RingWorkers * f
    BY <1>2, RingAssumption
  <2>. HIDE DEF q
  <2>2. RingWorkers * q \in Int /\ (n % RingWorkers) \in Int
    BY <1>2, RingAssumption
  <2>. QED BY <1>1, <1>2, <2>1, <2>2
<1>. HIDE DEF n, q
<1>4. ASSUME n % RingWorkers = 0 PROVE k = RingWorkers
  <2>1. RingWorkers * (q - f) = k /\ q - f \in Int
    BY <1>2, <1>3, <1>4
  <2>2. CASE k < RingWorkers
    BY <2>1, <2>2, NoMultipleBetween, RingAssumption
  <2>. QED BY <2>2, RingAssumption
<1>5. ASSUME k = RingWorkers PROVE n % RingWorkers = 0
  <2>1. SUFFICES ASSUME n % RingWorkers > 0 PROVE FALSE
    BY <1>2
  <2>2. RingWorkers * (q - f) < RingWorkers /\ 0 < RingWorkers * (q - f) /\ q - f \in Int
    BY <1>2, <1>3, <1>5, <2>1, RingAssumption
  <2>. QED BY <2>2, NoMultipleBetween, RingAssumption
<1>. QED BY <1>4, <1>5 DEF Screens!IsLast, n

\* The workers' side, and the slots'.
WorkSide == Fence /\ RowsHold /\ Counts /\ Alone
SlotSide == Roles /\ Whole

-----------------------------------------------------------------------------
(* The workers' side.                                                      *)

LEMMA InitWork == Screens!Init => RingType /\ WorkSide
<1>. SUFFICES ASSUME Screens!Init PROVE RingType /\ WorkSide
  OBVIOUS
<1>. RingWorkers \in Nat \ {0} /\ RingFrames \in Nat
  BY RingAssumption
<1>1. /\ \A w \in Screens!Workers : copy[w] = [frame |-> 0, mid |-> FALSE] /\ r_pc[w] = "idle"
      /\ \A w \in Screens!Workers : screen[w] = Screens!None /\ mid[w] = Screens!None
      /\ \A w \in Screens!Workers : ~Filler(w) /\ Passed(w) = 0
  BY DEF Screens!Init, Screens!Blank, Filler, Screens!Filling, Passed
<1>2. RingType
  <2>1. Screens!Blank \in Screens!Picture
    BY DEF Screens!Blank, Screens!Picture
  <2>2. [real |-> Screens!Blank, mid |-> Screens!Blank, has_mid |-> FALSE]
           \in [real : Screens!Picture, mid : Screens!Picture, has_mid : BOOLEAN]
    BY <2>1
  <2>3. slots \in
          [Screens!Slots -> [real : Screens!Picture, mid : Screens!Picture, has_mid : BOOLEAN]]
    BY <2>2 DEF Screens!Init
  <2>4. copy \in [Screens!Workers -> [frame : 0 .. RingFrames, mid : BOOLEAN]]
    BY DEF Screens!Init
  <2>5. /\ r_pc \in [Screens!Workers -> {"idle", "rows", "count"} \cup Screens!Filling]
        /\ screen \in Screens!Picture /\ mid \in Screens!Picture
        /\ state \in [slot : Screens!Slots, fresh : BOOLEAN]
        /\ back \in Screens!Slots /\ front \in Screens!Slots
        /\ old \in
              [Screens!Workers \cup {Screens!Presenter} -> [slot : Screens!Slots, fresh : BOOLEAN]]
        /\ tpc \in {"show", "cas"}
    BY <2>1 DEF Screens!Init, Screens!Slots
  <2>. QED BY <1>1, <2>3, <2>4, <2>5 DEF RingType
<1>3. Fence /\ Alone
  BY <1>1 DEF Fence, Alone
<1>4. RowsHold
  <2>. SUFFICES ASSUME NEW w \in Screens!Workers
                PROVE  /\ screen[w] = -1 /\ ~copy[w].mid /\ copy[w].frame = 0
                       /\ r_pc[w] # "count" /\ ~Filler(w) /\ mid[w] = -1
    BY DEF RowsHold
  <2>. QED BY <1>1 DEF Screens!None
<1>5. Counts
  <2>1. {w \in Screens!Workers : Passed(w) = 0 + 1} = {}
    BY <1>1
  <2>2. Screens!Workers # {} /\ Cardinality({}) = 0
    <3>1. 1 \in Screens!Workers
      BY DEF Screens!Workers
    <3>. QED BY <3>1, FS_EmptySet
  <2>3. RingWorkers * 0 + 0 = 0 /\ done = 0
    BY DEF Screens!Init
  <2>4. /\ \A w \in Screens!Workers : Passed(w) \in {0, 0 + 1}
        /\ {w \in Screens!Workers : Passed(w) = 0 + 1} # Screens!Workers
        /\ done = RingWorkers * 0 + Cardinality({w \in Screens!Workers : Passed(w) = 0 + 1})
    BY <1>1, <2>1, <2>2, <2>3
  <2>5. 0 \in 0 .. RingFrames
    OBVIOUS
  <2>. QED BY <2>4, <2>5 DEF Counts
<1>. QED BY <1>2, <1>3, <1>4, <1>5 DEF WorkSide

\* A step that moves no worker, or one within its filling, leaves this side be.
LEMMA StillWork ==
    ASSUME RingType, RingType', WorkSide, UNCHANGED <<copy, Screens!images, done>>,
           \A v \in Screens!Workers :
               r_pc'[v] = r_pc[v] \/ (r_pc[v] \in Screens!Filling /\ r_pc'[v] \in Screens!Filling)
    PROVE  WorkSide'
<1>1. /\ copy' = copy /\ screen' = screen /\ mid' = mid /\ done' = done
      /\ \A v \in Screens!Workers : Filler(v)' = Filler(v) /\ Passed(v)' = Passed(v)
      /\ \A v \in Screens!Workers :
             r_pc'[v] \in {"idle", "count"} \/ r_pc[v] \in {"idle", "count"} => r_pc'[v] = r_pc[v]
  BY DEF Screens!images, Filler, Passed, Screens!Filling
<1>2. Fence'
  BY <1>1 DEF WorkSide, Fence, Screens!Filling
<1>3. RowsHold'
  BY <1>1 DEF WorkSide, RowsHold
<1>4. Counts'
  BY <1>1 DEF WorkSide, Counts
<1>5. Alone'
  BY <1>1 DEF WorkSide, Alone, Screens!Filling
<1>. QED BY <1>2, <1>3, <1>4, <1>5 DEF WorkSide

\* A worker that begins a copy is no frame ahead of another.
LEMMA StartWork ==
    ASSUME RingType, WorkSide, NEW w \in Screens!Workers, Screens!Start(w)
    PROVE  RingType' /\ WorkSide'
<1>1. /\ r_pc[w] = "idle" /\ copy[w].frame < RingFrames /\ r_pc' = [r_pc EXCEPT ![w] = "rows"]
      /\ copy' = copy /\ screen' = screen /\ mid' = mid /\ done' = done
      /\ UNCHANGED <<Screens!shared, old, tpc>>
      /\ \A v \in Screens!Workers : ~Screens!Behind(copy[v], copy[w])
  BY DEF Screens!Start, Screens!MayStart, Screens!images
<1>2. /\ \A v \in Screens!Workers : v # w => r_pc'[v] = r_pc[v]
      /\ r_pc'[w] = "rows"
      /\ \A v \in Screens!Workers : Filler(v)' = Filler(v) /\ Passed(v)' = Passed(v)
  BY <1>1 DEF RingType, Filler, Passed, Screens!Filling
<1>3. \A v \in Screens!Workers : copy[v].frame \in Nat
  BY RingAssumption DEF RingType
<1>4. RingType'
  BY <1>1, <1>2 DEF RingType, Screens!shared, Filler
<1>5. Fence'
  <2>1. \A v \in Screens!Workers : copy[v].frame >= copy[w].frame
    BY <1>1, <1>3 DEF Screens!Behind
  <2>. QED BY <1>1, <1>2, <2>1 DEF WorkSide, Fence
<1>6. RowsHold'
  BY <1>1, <1>2 DEF WorkSide, RowsHold
<1>7. Counts'
  BY <1>1, <1>2 DEF WorkSide, Counts
<1>8. Alone'
  <2>. SUFFICES ASSUME NEW u \in Screens!Workers, Filler(u), NEW v \in Screens!Workers \ {u}
                PROVE  r_pc'[v] = "idle" /\ copy[v] = [frame |-> copy[u].frame + 1, mid |-> FALSE]
    BY <1>1, <1>2 DEF Alone
  <2>1. r_pc[v] = "idle" /\ copy[v] = [frame |-> copy[u].frame + 1, mid |-> FALSE]
    BY DEF WorkSide, Alone
  <2>2. v # w
    BY <1>1, <1>3, <2>1 DEF Screens!Behind
  <2>. QED BY <1>2, <2>1, <2>2
<1>. QED BY <1>4, <1>5, <1>6, <1>7, <1>8 DEF WorkSide

\* Its rows written, a frame's own copy is over or its end to be counted.
LEMMA RowsWork ==
    ASSUME RingType, WorkSide, NEW w \in Screens!Workers, Screens!Rows(w)
    PROVE  RingType' /\ WorkSide'
<1>. RingWorkers \in Nat \ {0} /\ RingFrames \in Nat
  BY RingAssumption
<1>. DEFINE c == copy[w]
<1>1. /\ r_pc[w] = "rows" /\ done' = done /\ UNCHANGED <<Screens!shared, old, tpc>>
      /\ c \in [frame : 0 .. RingFrames, mid : BOOLEAN] /\ c.frame < RingFrames /\ c.frame \in Nat
      /\ c.mid => c.frame \in RingMids
  BY DEF Screens!Rows, RingType
<1>2. /\ c.mid => mid' = [mid EXCEPT ![w] = c.frame] /\ screen' = screen
      /\ ~c.mid => screen' = [screen EXCEPT ![w] = c.frame] /\ mid' = mid
  BY DEF Screens!Rows
<1>3. /\ Screens!Ends(c) => r_pc' = [r_pc EXCEPT ![w] = "count"] /\ copy' = copy
      /\ ~Screens!Ends(c) =>
             r_pc' = [r_pc EXCEPT ![w] = "idle"] /\ copy' = [copy EXCEPT ![w] = Screens!After(c)]
  BY DEF Screens!Rows, Screens!Finish
<1>4. /\ Screens!After(c) \in [frame : 0 .. RingFrames, mid : BOOLEAN]
      /\ ~Screens!Ends(c) => /\ Screens!After(c).frame = c.frame /\ Screens!After(c).mid = TRUE
                             /\ ~c.mid /\ c.frame \in RingMids
  BY <1>1, AfterIs
<1>. HIDE DEF c
<1>5. /\ screen' \in Screens!Picture /\ mid' \in Screens!Picture
      /\ r_pc' \in [Screens!Workers -> {"idle", "rows", "count"} \cup Screens!Filling]
      /\ copy' \in [Screens!Workers -> [frame : 0 .. RingFrames, mid : BOOLEAN]]
  <2>1. c.frame \in 0 .. RingFrames - 1
    BY <1>1
  <2>2. c.mid \in BOOLEAN
    BY <1>1
  <2>3. screen' \in Screens!Picture /\ mid' \in Screens!Picture
    BY <1>2, <2>1, <2>2 DEF RingType, Screens!Picture
  <2>4. CASE Screens!Ends(c)
    BY <1>3, <2>3, <2>4 DEF RingType
  <2>5. CASE ~Screens!Ends(c)
    BY ZenonT(60), <1>3, <1>4, <2>3, <2>5 DEF RingType
  <2>. QED BY <2>4, <2>5
<1>6. /\ \A v \in Screens!Workers : v # w => /\ r_pc'[v] = r_pc[v] /\ copy'[v] = copy[v]
                                             /\ screen'[v] = screen[v] /\ mid'[v] = mid[v]
      /\ c.mid => mid'[w] = c.frame /\ screen'[w] = screen[w]
      /\ ~c.mid => screen'[w] = c.frame /\ mid'[w] = mid[w]
      /\ Screens!Ends(c) => r_pc'[w] = "count" /\ copy'[w] = c
      /\ ~Screens!Ends(c) => r_pc'[w] = "idle" /\ copy'[w] = Screens!After(c)
  BY <1>2, <1>3 DEF RingType, Screens!Picture, c
<1>7. /\ \A v \in Screens!Workers : copy'[v].frame = copy[v].frame /\ copy[v].frame \in Nat
      /\ \A v \in Screens!Workers : Filler(v)' = Filler(v)
  BY <1>1, <1>4, <1>6 DEF RingType, Filler, Screens!Filling, c
<1>8. \A v \in Screens!Workers : Passed(v)' = Passed(v)
  BY <1>7 DEF Passed
<1>9. RingType'
  <2>1. \A v \in Screens!Workers : r_pc'[v] # "idle" \/ copy'[v].mid => copy'[v].frame < RingFrames
    BY <1>1, <1>6, <1>7 DEF RingType, c
  <2>2. \A v \in Screens!Workers : copy'[v].mid => copy'[v].frame \in RingMids
    BY <1>1, <1>4, <1>6, <1>7 DEF RingType, c
  <2>3. \A v \in Screens!Workers :
            r_pc'[v] = "count" \/ Filler(v)' => Screens!Ends(copy[v]) /\ copy'[v] = copy[v]
    BY <1>1, <1>6, <1>7 DEF RingType, c, Filler, Screens!Filling
  <2>4. \A v \in Screens!Workers : r_pc'[v] = "count" \/ Filler(v)' => Screens!Ends(copy'[v])
    BY <2>3
  <2>. QED BY <1>1, <1>5, <2>1, <2>2, <2>4 DEF RingType, Screens!shared, Filler, Screens!Ends
<1>10. Fence'
  <2>1. \A v \in Screens!Workers :
            r_pc'[v] # "idle" \/ copy'[v].mid => r_pc[v] # "idle" \/ copy[v].mid
    BY <1>1, <1>6
  <2>. QED BY <1>7, <2>1 DEF WorkSide, Fence
<1>11. RowsHold'
  <2>. SUFFICES ASSUME NEW v \in Screens!Workers
                PROVE  LET own == copy'[v].mid \/ r_pc'[v] = "count" \/ Filler(v)'
                       IN  /\ screen'[v] = IF own THEN copy'[v].frame ELSE copy'[v].frame - 1
                           /\ copy'[v].mid /\ (r_pc'[v] = "count" \/ Filler(v)')
                                 => mid'[v] = copy'[v].frame
                           /\ ~copy'[v].mid /\ copy'[v].frame - 1 \in RingMids
                                 => mid'[v] = copy'[v].frame - 1
    BY DEF RowsHold
  <2>1. CASE v # w
    BY <1>6, <1>7, <2>1 DEF WorkSide, RowsHold
  <2>2. CASE v = w
    <3>1. ~Filler(w) /\ ~Filler(w)' /\ r_pc[w] # "count"
      BY <1>1, <1>7 DEF Filler, Screens!Filling
    <3>2. CASE Screens!Ends(c)
      BY <1>6, <2>2, <3>1, <3>2 DEF WorkSide, RowsHold, c
    <3>3. CASE ~Screens!Ends(c)
      BY <1>4, <1>6, <2>2, <3>1, <3>3
    <3>. QED BY <3>2, <3>3
  <2>. QED BY <2>1, <2>2
<1>12. Counts'
  BY <1>1, <1>8 DEF WorkSide, Counts
<1>13. Alone'
  <2>. SUFFICES ASSUME NEW u \in Screens!Workers, Filler(u), NEW v \in Screens!Workers \ {u}
                PROVE  /\ r_pc'[v] = "idle"
                       /\ copy'[v] = [frame |-> copy'[u].frame + 1, mid |-> FALSE]
    BY <1>7 DEF Alone
  <2>1. r_pc[v] = "idle" /\ copy[v] = [frame |-> copy[u].frame + 1, mid |-> FALSE]
    BY DEF WorkSide, Alone
  <2>2. v # w
    BY <1>1, <2>1
  <2>. QED BY <1>6, <1>7, <2>1, <2>2
<1>. QED BY <1>9, <1>10, <1>11, <1>12, <1>13 DEF WorkSide

\* One who counts the frame's end is among those who had not, and the last of
\* them finds a multiple of the workers.
LEMMA CountIs ==
    ASSUME RingType, WorkSide, NEW w \in Screens!Workers, Screens!CountCopy(w)
    PROVE  \E past \in SUBSET Screens!Workers : LET f == copy[w].frame IN
               /\ f \in Nat /\ f < RingFrames
               /\ \A v \in Screens!Workers : Passed(v) = IF v \in past THEN f + 1 ELSE f
               /\ w \notin past
               /\ done' = RingWorkers * f + Cardinality(past \cup {w})
               /\ Screens!IsLast(Screens!Counted(done)) <=> past \cup {w} = Screens!Workers
<1>. RingWorkers \in Nat \ {0} /\ RingFrames \in Nat
  BY RingAssumption
<1>. DEFINE e == copy[w].frame
<1>1. /\ r_pc[w] = "count" /\ e \in Nat /\ e < RingFrames /\ Passed(w) = e
      /\ \A v \in Screens!Workers : copy[v].frame \in Nat
      /\ \A v \in Screens!Workers : copy[v].frame >= e
  BY DEF Screens!CountCopy, RingType, WorkSide, Fence, Passed, Filler, Screens!Filling
<1>2. PICK f \in 0 .. RingFrames :
         LET past == {v \in Screens!Workers : Passed(v) = f + 1}
         IN  /\ \A v \in Screens!Workers : Passed(v) \in {f, f + 1}
             /\ past # Screens!Workers
             /\ done = RingWorkers * f + Cardinality(past)
  BY DEF WorkSide, Counts
<1>. DEFINE past == {v \in Screens!Workers : Passed(v) = f + 1}
<1>. HIDE DEF e
<1>3. f = e
  <2>1. PICK u \in Screens!Workers : Passed(u) = f
    BY <1>2
  <2>2. e <= f
    BY <1>1, <2>1 DEF Passed, e
  <2>. QED BY <1>1, <1>2, <2>2
<1>4. /\ past \subseteq Screens!Workers /\ w \notin past /\ w \in Screens!Workers
      /\ \A v \in Screens!Workers : Passed(v) = IF v \in past THEN f + 1 ELSE f
  BY <1>1, <1>2, <1>3
<1>5. done = RingWorkers * f + Cardinality(past)
  BY <1>2
<1>. HIDE DEF past
<1>6. /\ IsFiniteSet(Screens!Workers) /\ Cardinality(Screens!Workers) = RingWorkers
      /\ IsFiniteSet(past) /\ Cardinality(past) \in Nat
      /\ IsFiniteSet(past \cup {w}) /\ Cardinality(past \cup {w}) = Cardinality(past) + 1
      /\ Cardinality(past \cup {w}) <= RingWorkers
      /\ Cardinality(past \cup {w}) = RingWorkers <=> past \cup {w} = Screens!Workers
  <2>1. IsFiniteSet(Screens!Workers) /\ Cardinality(Screens!Workers) = RingWorkers
    BY FS_Interval DEF Screens!Workers
  <2>2. IsFiniteSet(past)
    BY <1>4, <2>1, FS_Subset
  <2>3. IsFiniteSet(past \cup {w}) /\ Cardinality(past \cup {w}) = Cardinality(past) + 1
    BY <1>4, <2>2, FS_AddElement
  <2>4. past \cup {w} \subseteq Screens!Workers
    BY <1>4
  <2>5. Cardinality(past \cup {w}) <= RingWorkers
        /\ (Cardinality(past \cup {w}) = RingWorkers => past \cup {w} = Screens!Workers)
    BY <2>1, <2>4, FS_Subset
  <2>. QED BY <2>1, <2>2, <2>3, <2>5, FS_CardinalityType
<1>. DEFINE k == Cardinality(past)
<1>7. k \in Nat /\ k + 1 \in 1 .. RingWorkers
  BY <1>6
<1>8. RingWorkers * f \in Nat /\ RingWorkers * f + RingWorkers <= RingWorkers * RingFrames
  <2>1. RingWorkers * f + RingWorkers = RingWorkers * (f + 1) /\ f + 1 <= RingFrames
    BY <1>1, <1>3
  <2>2. RingWorkers * (f + 1) <= RingWorkers * RingFrames
    BY <1>1, <1>3
  <2>3. RingWorkers * f \in Nat
    BY <1>1, <1>3
  <2>. QED BY <2>1, <2>2, <2>3
<1>9. done = RingWorkers * f + k
  BY <1>5
<1>. HIDE DEF k
<1>10. Screens!Counted(done) = RingWorkers * f + (k + 1)
  <2>1. done \in Nat /\ done + 1 <= RingWorkers * RingFrames
    BY <1>7, <1>8, <1>9
  <2>. QED BY <1>7, <1>8, <1>9, <2>1, CountedIs
<1>11. Screens!IsLast(Screens!Counted(done)) <=> k + 1 = RingWorkers
  <2>. f \in Nat
    BY <1>1, <1>3
  <2>. QED BY <1>7, <1>10, LastOfAll
<1>12. k + 1 = Cardinality(past \cup {w})
  BY <1>6 DEF k
<1>13. done' = RingWorkers * f + Cardinality(past \cup {w})
  BY <1>10, <1>12 DEF Screens!CountCopy
<1>14. Screens!IsLast(Screens!Counted(done)) <=> past \cup {w} = Screens!Workers
  BY <1>6, <1>11, <1>12
<1>15. f = copy[w].frame
  BY <1>3 DEF e
<1>. QED BY <1>1, <1>3, <1>4, <1>13, <1>14, <1>15

\* The end is counted: on to the next frame, or to fill when all have.
LEMMA CountWork ==
    ASSUME RingType, WorkSide, NEW w \in Screens!Workers, Screens!CountCopy(w)
    PROVE  RingType' /\ WorkSide'
<1>. RingWorkers \in Nat \ {0} /\ RingFrames \in Nat
  BY RingAssumption
<1>. DEFINE c == copy[w]
            f == c.frame
<1>1. PICK past \in SUBSET Screens!Workers :
               /\ f \in Nat /\ f < RingFrames
               /\ \A v \in Screens!Workers : Passed(v) = IF v \in past THEN f + 1 ELSE f
               /\ w \notin past
               /\ done' = RingWorkers * f + Cardinality(past \cup {w})
               /\ Screens!IsLast(Screens!Counted(done)) <=> past \cup {w} = Screens!Workers
  BY CountIs
<1>2. /\ r_pc[w] = "count"
      /\ screen' = screen
      /\ mid' = mid
      /\ UNCHANGED <<Screens!shared, old, tpc>>
      /\ c \in [frame : 0 .. RingFrames, mid : BOOLEAN] /\ Screens!Ends(c)
      /\ c.mid => c.frame \in RingMids
      /\ c.frame \in RingMids => c.mid
  BY DEF Screens!CountCopy, Screens!images, RingType, Screens!Ends
<1>3. Screens!After(c) = [frame |-> f + 1, mid |-> FALSE]
      /\ Screens!After(c) \in [frame : 0 .. RingFrames, mid : BOOLEAN]
  BY <1>1, <1>2, AfterIs
<1>4. \A u \in Screens!Workers : ~Filler(u)
  <2>1. ~Filler(w)
    BY <1>2 DEF Filler, Screens!Filling
  <2>. QED BY <1>2, <2>1 DEF WorkSide, Alone
<1>5. /\ screen[w] = f
      /\ c.mid => mid[w] = f
      /\ \A v \in Screens!Workers : copy[v].frame \in Nat
      /\ \A v \in Screens!Workers : r_pc[v] # "idle" \/ copy[v].mid => copy[v].frame <= f
  BY <1>2 DEF WorkSide, RowsHold, Fence, RingType
<1>6. CASE past \cup {w} = Screens!Workers
  <2>1. r_pc' = [r_pc EXCEPT ![w] = "fill"] /\ copy' = copy
    BY <1>1, <1>6 DEF Screens!CountCopy
  <2>2. /\ \A v \in Screens!Workers : v # w => r_pc'[v] = r_pc[v] /\ Filler(v)' = Filler(v)
        /\ r_pc'[w] = "fill" /\ Filler(w)'
    BY <2>1 DEF RingType, Filler, Screens!Filling
  <2>3. \A v \in Screens!Workers : v # w => /\ Passed(v) = f + 1 /\ copy[v].frame = f + 1
    BY <1>1, <1>4, <1>5, <1>6 DEF Passed
  <2>4. RingType'
    BY <1>2, <2>1, <2>2 DEF RingType, Screens!shared, Screens!Filling, Screens!Ends
  <2>5. Fence'
    BY <1>2, <2>1, <2>2 DEF WorkSide, Fence
  <2>6. RowsHold'
    BY <1>2, <2>1, <2>2 DEF WorkSide, RowsHold
  <2>7. \A v \in Screens!Workers : Passed(v)' = f + 1
    BY <1>1, <2>1, <2>2, <2>3 DEF Passed
  <2>8. Counts'
    <3>1. {v \in Screens!Workers : Passed(v)' = f + 1 + 1} = {}
      BY <1>1, <2>7
    <3>2. Cardinality({}) = 0 /\ {} # Screens!Workers
      BY FS_EmptySet
    <3>3. done' = RingWorkers * (f + 1) + 0
      <4>1. Cardinality(Screens!Workers) = RingWorkers
        BY FS_Interval DEF Screens!Workers
      <4>2. RingWorkers * f \in Int /\ RingWorkers * (f + 1) = RingWorkers * f + RingWorkers
        BY <1>1
      <4>3. Cardinality(past \cup {w}) = RingWorkers
        BY <1>6, <4>1
      <4>4. done' = RingWorkers * f + RingWorkers
        BY <1>1, <4>3
      <4>5. RingWorkers * (f + 1) \in Int
        BY <4>2
      <4>. QED BY <4>2, <4>4, <4>5
    <3>4. f + 1 \in 0 .. RingFrames
      BY <1>1
    <3>5. /\ \A v \in Screens!Workers : Passed(v)' \in {f + 1, f + 1 + 1}
          /\ {v \in Screens!Workers : Passed(v)' = f + 1 + 1} # Screens!Workers
          /\ done' = RingWorkers * (f + 1) +
                Cardinality({v \in Screens!Workers : Passed(v)' = f + 1 + 1})
      BY <2>7, <3>1, <3>2, <3>3
    <3>. QED BY <3>4, <3>5 DEF Counts
  <2>9. Alone'
    <3>. SUFFICES ASSUME NEW v \in Screens!Workers, v # w
                  PROVE  r_pc'[v] = "idle" /\ copy[v] = [frame |-> f + 1, mid |-> FALSE]
      BY <1>4, <2>1, <2>2 DEF Alone
    <3>1. r_pc[v] = "idle" /\ ~copy[v].mid
      BY <1>1, <1>5, <2>3
    <3>2. copy[v] = [frame |-> copy[v].frame, mid |-> copy[v].mid] /\ copy[v].mid \in BOOLEAN
      BY DEF RingType
    <3>. QED BY <2>2, <2>3, <3>1, <3>2
  <2>. QED BY <2>4, <2>5, <2>6, <2>8, <2>9 DEF WorkSide
<1>7. CASE past \cup {w} # Screens!Workers
  <2>1. r_pc' = [r_pc EXCEPT ![w] = "idle"] /\ copy' = [copy EXCEPT ![w] = Screens!After(c)]
    BY <1>1, <1>7 DEF Screens!CountCopy, Screens!Finish
  <2>. HIDE DEF c
  <2>2. /\ \A v \in Screens!Workers : v # w => r_pc'[v] = r_pc[v] /\ copy'[v] = copy[v]
        /\ \A v \in Screens!Workers : ~Filler(v)'
        /\ r_pc'[w] = "idle"
        /\ copy'[w] = Screens!After(c)
        /\ copy'[w].frame = f + 1
        /\ ~copy'[w].mid
    BY <1>3, <1>4, <2>1 DEF RingType, Filler, Screens!Filling
  <2>3. RingType'
    BY <1>2, <1>3, <2>1, <2>2 DEF RingType, Screens!shared, Screens!Filling, Screens!Ends
  <2>4. Fence'
    BY <1>1, <1>5, <2>2 DEF WorkSide, Fence, c
  <2>5. RowsHold'
    <3>. SUFFICES ASSUME NEW v \in Screens!Workers
                  PROVE  LET own == copy'[v].mid \/ r_pc'[v] = "count" \/ Filler(v)'
                         IN  /\ screen'[v] = IF own THEN copy'[v].frame ELSE copy'[v].frame - 1
                             /\ copy'[v].mid /\ (r_pc'[v] = "count" \/ Filler(v)')
                                   => mid'[v] = copy'[v].frame
                             /\ ~copy'[v].mid /\ copy'[v].frame - 1 \in RingMids
                                   => mid'[v] = copy'[v].frame - 1
      BY DEF RowsHold
    <3>1. CASE v # w
      BY <1>2, <1>4, <2>2, <3>1 DEF WorkSide, RowsHold
    <3>2. CASE v = w
      <4>1. copy'[v].frame - 1 = f
        BY <1>1, <2>2, <3>2
      <4>2. f \in RingMids => mid[w] = f
        BY <1>2, <1>5
      <4>. QED BY <1>2, <1>5, <2>2, <3>2, <4>1, <4>2
    <3>. QED BY <3>1, <3>2
  <2>6. \A v \in Screens!Workers : Passed(v)' = IF v \in past \cup {w} THEN f + 1 ELSE f
    BY <1>1, <1>4, <2>2 DEF Passed
  <2>7. Counts'
    <3>1. {v \in Screens!Workers : Passed(v)' = f + 1} = past \cup {w}
      BY <1>1, <2>6
    <3>2. f \in 0 .. RingFrames
      BY <1>1
    <3>3. /\ \A v \in Screens!Workers : Passed(v)' \in {f, f + 1}
          /\ {v \in Screens!Workers : Passed(v)' = f + 1} # Screens!Workers
          /\ done' = RingWorkers * f + Cardinality({v \in Screens!Workers : Passed(v)' = f + 1})
      BY <1>1, <1>7, <2>6, <3>1
    <3>. HIDE DEF f
    <3>. QED BY <3>2, <3>3 DEF Counts
  <2>8. Alone'
    BY <2>2 DEF Alone
  <2>. QED BY <2>3, <2>4, <2>5, <2>7, <2>8 DEF WorkSide
<1>. QED BY <1>6, <1>7

\* The command over, its filler is at the next frame with the others.
LEMMA PublishWork ==
    ASSUME RingType, WorkSide, NEW w \in Screens!Workers, r_pc[w] = "publish",
           r_pc' = [r_pc EXCEPT ![w] = "idle"], Screens!Finish(w),
           UNCHANGED <<Screens!images, done, state, front, slots>>,
           UNCHANGED <<old, tpc>>, back' \in Screens!Slots
    PROVE  RingType' /\ WorkSide'
<1>. RingWorkers \in Nat \ {0} /\ RingFrames \in Nat
  BY RingAssumption
<1>. DEFINE c == copy[w]
<1>1. /\ c \in [frame : 0 .. RingFrames, mid : BOOLEAN] /\ c.frame < RingFrames /\ c.frame \in Nat
      /\ Screens!Ends(c) /\ Filler(w)
      /\ c.mid => c.frame \in RingMids
      /\ c.frame \in RingMids => c.mid
  BY DEF RingType, Filler, Screens!Filling, Screens!Ends
<1>2. Screens!After(c) = [frame |-> c.frame + 1, mid |-> FALSE]
      /\ Screens!After(c) \in [frame : 0 .. RingFrames, mid : BOOLEAN]
  BY <1>1, AfterIs
<1>3. copy' = [copy EXCEPT ![w] = Screens!After(c)]
  BY DEF Screens!Finish
<1>. HIDE DEF c
<1>4. \A v \in Screens!Workers : v # w => /\ r_pc[v] = "idle"
                                          /\ copy[v] = [frame |-> c.frame + 1, mid |-> FALSE]
  BY <1>1 DEF WorkSide, Alone, c
<1>5. \A v \in Screens!Workers : /\ r_pc'[v] = "idle" /\ ~Filler(v)'
                                 /\ copy'[v] = [frame |-> c.frame + 1, mid |-> FALSE]
  BY <1>2, <1>3, <1>4 DEF RingType, Filler, Screens!Filling
<1>6. screen' = screen /\ mid' = mid /\ done' = done
  BY DEF Screens!images
<1>7. RingType'
  BY <1>2, <1>3, <1>5, <1>6 DEF RingType
<1>8. Fence' /\ Alone'
  BY <1>5 DEF Fence, Alone
<1>9. RowsHold'
  <2>. SUFFICES ASSUME NEW v \in Screens!Workers
                PROVE  /\ screen[v] = c.frame
                       /\ c.frame \in RingMids => mid[v] = c.frame
    BY <1>1, <1>5, <1>6 DEF RowsHold
  <2>1. CASE v = w
    BY <1>1, <2>1 DEF WorkSide, RowsHold, c
  <2>2. CASE v # w
    <3>1. ~Filler(v)
      BY <1>4, <2>2 DEF Filler, Screens!Filling
    <3>. QED BY <1>1, <1>4, <2>2, <3>1 DEF WorkSide, RowsHold
  <2>. QED BY <2>1, <2>2
<1>10. Counts'
  <2>1. \A v \in Screens!Workers : Passed(v)' = Passed(v)
    <3>1. \A v \in Screens!Workers : v # w => ~Filler(v)
      BY <1>4 DEF Filler, Screens!Filling
    <3>2. \A v \in Screens!Workers : Passed(v)' = c.frame + 1
      BY <1>1, <1>5 DEF Passed
    <3>3. \A v \in Screens!Workers : Passed(v) = c.frame + 1
      BY <1>1, <1>4, <3>1 DEF Passed, c
    <3>. QED BY <3>2, <3>3
  <2>. QED BY <1>6, <2>1 DEF WorkSide, Counts
<1>. QED BY <1>7, <1>8, <1>9, <1>10 DEF WorkSide

-----------------------------------------------------------------------------
(* The slots' side.                                                        *)

Ready == {"fillmid", "load", "cas", "publish"}

LEMMA InitSlots == Screens!Init => SlotSide
<1>. SUFFICES ASSUME Screens!Init PROVE SlotSide
  OBVIOUS
<1>1. Roles
  BY DEF Screens!Init, Roles
<1>2. Screens!IsWhole(slots[front])
  <2>1. slots[front] = [real |-> Screens!Blank, mid |-> Screens!Blank, has_mid |-> FALSE]
    BY DEF Screens!Init, Screens!Slots
  <2>2. \A w \in Screens!Workers : slots[front].real[w] = Screens!None
    BY <2>1 DEF Screens!Blank
  <2>3. ~slots[front].has_mid
    BY <2>1
  <2>. QED BY <2>2, <2>3 DEF Screens!IsWhole
<1>. QED BY <1>1, <1>2 DEF Screens!Init, Whole, SlotSide

\* A step of no filler past its first copy changes nothing of it.
LEMMA QuietSlots ==
    ASSUME RingType, SlotSide, UNCHANGED <<Screens!shared, old, tpc>>,
           \A v \in Screens!Workers :
               r_pc'[v] \in Ready => r_pc'[v] = r_pc[v] /\ copy'[v] = copy[v],
           \A v \in Screens!Workers : r_pc[v] = "publish" => r_pc'[v] = "publish"
    PROVE  SlotSide'
<1>1. /\ state' = state /\ back' = back /\ front' = front /\ slots' = slots
      /\ old' = old /\ tpc' = tpc
  BY DEF Screens!shared
<1>2. \A v \in Screens!Workers : r_pc'[v] = "publish" <=> r_pc[v] = "publish"
  BY DEF Ready
<1>3. Roles'
  BY <1>1, <1>2 DEF SlotSide, Roles
<1>4. Whole'
  BY <1>1 DEF SlotSide, Whole, Ready
<1>. QED BY <1>3, <1>4 DEF SlotSide

\* The rows of the frame one fills from, its in-between image's too.
LEMMA FilledFrom ==
    ASSUME RingType, WorkSide, NEW w \in Screens!Workers, Filler(w)
    PROVE  /\ copy[w].frame \in 0 .. RingFrames - 1 /\ copy[w].mid \in BOOLEAN
           /\ \A v \in Screens!Workers : v # w => r_pc[v] = "idle"
           /\ \A v \in Screens!Workers : screen[v] = copy[w].frame
           /\ copy[w].mid => \A v \in Screens!Workers : mid[v] = copy[w].frame
<1>1. /\ copy[w].frame \in 0 .. RingFrames - 1 /\ copy[w].mid \in BOOLEAN
      /\ copy[w].mid => copy[w].frame \in RingMids
  <2>1. r_pc[w] # "idle"
    BY DEF Filler, Screens!Filling
  <2>. QED BY <2>1, RingAssumption DEF RingType
<1>2. \A v \in Screens!Workers : v # w =>
         /\ r_pc[v] = "idle" /\ ~copy[v].mid /\ ~Filler(v)
         /\ copy[v].frame - 1 = copy[w].frame
  <2>. SUFFICES ASSUME NEW v \in Screens!Workers, v # w
                PROVE  /\ r_pc[v] = "idle" /\ ~copy[v].mid /\ ~Filler(v)
                       /\ copy[v].frame - 1 = copy[w].frame
    OBVIOUS
  <2>1. r_pc[v] = "idle" /\ copy[v] = [frame |-> copy[w].frame + 1, mid |-> FALSE]
    BY DEF WorkSide, Alone
  <2>. QED BY <1>1, <2>1 DEF Filler, Screens!Filling
<1>. QED BY <1>1, <1>2 DEF WorkSide, RowsHold

\* The copy into the back slot.
LEMMA FillRealHolds ==
    ASSUME RingType, WorkSide, SlotSide, NEW w \in Screens!Workers, Screens!FillReal(w)
    PROVE  RingType' /\ WorkSide' /\ SlotSide'
<1>. DEFINE new == [slots[back] EXCEPT !.real = screen, !.has_mid = copy[w].mid]
<1>1. /\ r_pc[w] = "fill" /\ r_pc' = [r_pc EXCEPT ![w] = "fillmid"]
      /\ slots' = [slots EXCEPT ![back] = new]
      /\ UNCHANGED <<copy, Screens!images, done, state, back, front, old, tpc>>
  BY DEF Screens!FillReal
<1>2. Filler(w)
  BY <1>1 DEF Filler, Screens!Filling
<1>3. /\ new.real = screen /\ new.has_mid = copy[w].mid
      /\ new \in [real : Screens!Picture, mid : Screens!Picture, has_mid : BOOLEAN]
  <2>1. slots[back] \in [real : Screens!Picture, mid : Screens!Picture, has_mid : BOOLEAN]
    BY DEF RingType
  <2>2. copy[w].mid \in BOOLEAN /\ screen \in Screens!Picture
    BY <1>2, FilledFrom DEF RingType
  <2>. QED BY <2>1, <2>2
<1>. HIDE DEF new
<1>4. /\ slots'[back] = new
      /\ \A s \in Screens!Slots : s # back => slots'[s] = slots[s]
      /\ slots' \in
              [Screens!Slots -> [real : Screens!Picture, mid : Screens!Picture, has_mid : BOOLEAN]]
  BY <1>1, <1>3 DEF RingType
<1>5. r_pc'[w] = "fillmid" /\ \A v \in Screens!Workers :
                                  v # w => r_pc'[v] = "idle" /\ r_pc[v] = "idle"
  BY <1>1, <1>2, FilledFrom DEF RingType
<1>6. RingType'
  BY <1>1, <1>4, <1>5 DEF RingType, Screens!images, Screens!Filling, Filler, Screens!Ends
<1>7. WorkSide'
  <2>1. \A v \in Screens!Workers :
            r_pc'[v] = r_pc[v] \/ (r_pc[v] \in Screens!Filling /\ r_pc'[v] \in Screens!Filling)
    BY <1>1, <1>5 DEF Screens!Filling
  <2>. QED BY <1>1, <1>6, <2>1, StillWork
<1>8. Roles'
  BY <1>1, <1>5 DEF SlotSide, Roles
<1>9. back # front /\ back # state.slot
  BY <1>1, <1>5 DEF SlotSide, Roles
<1>10. Whole'
  <2>1. slots'[front] = slots[front] /\ slots'[state.slot] = slots[state.slot]
    BY <1>4, <1>9 DEF RingType
  <2>2. RealIs(new, copy[w].frame)
    BY <1>2, <1>3, FilledFrom DEF RealIs
  <2>. QED BY <1>1, <1>3, <1>4, <1>5, <2>1, <2>2 DEF SlotSide, Whole
<1>. QED BY <1>6, <1>7, <1>8, <1>10 DEF SlotSide

LEMMA FillMidHolds ==
    ASSUME RingType, WorkSide, SlotSide, NEW w \in Screens!Workers, Screens!FillMid(w)
    PROVE  RingType' /\ WorkSide' /\ SlotSide'
<1>. DEFINE S == slots[back]
            new == IF S.has_mid THEN [S EXCEPT !.mid = mid] ELSE S
<1>1. /\ r_pc[w] = "fillmid" /\ r_pc' = [r_pc EXCEPT ![w] = "load"]
      /\ UNCHANGED <<copy, Screens!images, done, state, back, front, old, tpc>>
  BY DEF Screens!FillMid
<1>2. Filler(w)
  BY <1>1 DEF Filler, Screens!Filling
<1>3. /\ S \in [real : Screens!Picture, mid : Screens!Picture, has_mid : BOOLEAN]
      /\ RealIs(S, copy[w].frame) /\ S.has_mid = copy[w].mid
  BY <1>1 DEF RingType, SlotSide, Whole
<1>4. /\ new.real = S.real /\ new.has_mid = S.has_mid
      /\ S.has_mid => new.mid = mid
      /\ new \in [real : Screens!Picture, mid : Screens!Picture, has_mid : BOOLEAN]
  BY <1>3 DEF RingType
<1>5. slots' = [slots EXCEPT ![back] = new]
  BY DEF Screens!FillMid, RingType
<1>6. RealIs(new, copy[w].frame) /\ MidIs(new, copy[w].frame)
  <2>1. RealIs(new, copy[w].frame)
    BY <1>3, <1>4 DEF RealIs
  <2>2. MidIs(new, copy[w].frame)
    <3>. HIDE DEF new, S
    <3>. QED BY ZenonT(60), <1>2, <1>3, <1>4, FilledFrom DEF MidIs
  <2>. QED BY <2>1, <2>2
<1>. HIDE DEF new, S
<1>7. /\ slots'[back] = new
      /\ \A s \in Screens!Slots : s # back => slots'[s] = slots[s]
      /\ slots' \in
              [Screens!Slots -> [real : Screens!Picture, mid : Screens!Picture, has_mid : BOOLEAN]]
  BY <1>4, <1>5 DEF RingType
<1>8. r_pc'[w] = "load" /\ \A v \in Screens!Workers : v # w => r_pc'[v] = "idle" /\ r_pc[v] = "idle"
  BY <1>1, <1>2, FilledFrom DEF RingType
<1>9. RingType'
  BY <1>1, <1>7, <1>8 DEF RingType, Screens!images, Screens!Filling, Filler, Screens!Ends
<1>10. WorkSide'
  <2>1. \A v \in Screens!Workers :
            r_pc'[v] = r_pc[v] \/ (r_pc[v] \in Screens!Filling /\ r_pc'[v] \in Screens!Filling)
    BY <1>1, <1>8 DEF Screens!Filling
  <2>. QED BY <1>1, <1>9, <2>1, StillWork
<1>11. Roles'
  BY <1>1, <1>8 DEF SlotSide, Roles
<1>12. back # front /\ back # state.slot
  BY <1>1, <1>8 DEF SlotSide, Roles
<1>13. Whole'
  <2>1. slots'[front] = slots[front] /\ slots'[state.slot] = slots[state.slot]
    BY <1>7, <1>12 DEF RingType
  <2>. QED BY <1>1, <1>3, <1>4, <1>6, <1>7, <1>8, <2>1 DEF SlotSide, Whole
<1>. QED BY <1>9, <1>10, <1>11, <1>13 DEF SlotSide

LEMMA FillLoadHolds ==
    ASSUME RingType, WorkSide, SlotSide, NEW w \in Screens!Workers, Screens!FillLoad(w)
    PROVE  RingType' /\ WorkSide' /\ SlotSide'
<1>1. /\ r_pc[w] = "load" /\ r_pc' = [r_pc EXCEPT ![w] = "cas"] /\ old' = [old EXCEPT ![w] = state]
      /\ UNCHANGED <<copy, Screens!images, done, Screens!shared, tpc>>
  BY DEF Screens!FillLoad
<1>2. Filler(w)
  BY <1>1 DEF Filler, Screens!Filling
<1>3. r_pc'[w] = "cas" /\ \A v \in Screens!Workers : v # w => r_pc'[v] = "idle" /\ r_pc[v] = "idle"
  BY <1>1, <1>2, FilledFrom DEF RingType
<1>4. RingType'
  BY <1>1, <1>3 DEF RingType, Screens!images, Screens!shared, Screens!Filling, Filler, Screens!Ends
<1>5. WorkSide'
  <2>1. \A v \in Screens!Workers :
            r_pc'[v] = r_pc[v] \/ (r_pc[v] \in Screens!Filling /\ r_pc'[v] \in Screens!Filling)
    BY <1>1, <1>3 DEF Screens!Filling
  <2>. QED BY <1>1, <1>4, <2>1, StillWork
<1>6. old'[Screens!Presenter] = old[Screens!Presenter]
  BY <1>1 DEF RingType, Screens!Workers, Screens!Presenter
<1>7. Roles'
  BY <1>1, <1>3, <1>6 DEF SlotSide, Roles, Screens!shared
<1>8. Whole'
  BY <1>1, <1>3 DEF SlotSide, Whole, Screens!shared
<1>. QED BY <1>4, <1>5, <1>7, <1>8 DEF SlotSide

\* The swap: what was the middle slot is the filler's, and the frame is fresh.
LEMMA FillCasHolds ==
    ASSUME RingType, WorkSide, SlotSide, NEW w \in Screens!Workers, Screens!FillCas(w)
    PROVE  RingType' /\ WorkSide' /\ SlotSide'
<1>1. r_pc[w] = "cas" /\ UNCHANGED <<copy, Screens!images, done, back, front, slots, tpc>>
  BY DEF Screens!FillCas
<1>2. Filler(w)
  BY <1>1 DEF Filler, Screens!Filling
<1>3. \A v \in Screens!Workers : v # w => r_pc[v] = "idle"
  BY <1>2, FilledFrom
<1>4. back \notin {state.slot, front} /\ state.slot # front
  BY <1>1, <1>3 DEF SlotSide, Roles
<1>5. CASE Screens!Holds(w)
  <2>1. /\ state' = [slot |-> back, fresh |-> TRUE] /\ r_pc' = [r_pc EXCEPT ![w] = "publish"]
        /\ old' = old /\ old[w] = state
    BY <1>5 DEF Screens!FillCas, Screens!Holds
  <2>2. r_pc'[w] = "publish" /\ \A v \in Screens!Workers : v # w => r_pc'[v] = "idle"
    BY <1>3, <2>1 DEF RingType
  <2>3. RingType'
    BY <1>1, <2>1, <2>2, <1>3 DEF RingType, Screens!images, Screens!Filling, Filler, Screens!Ends
  <2>4. WorkSide'
    <3>1. \A v \in Screens!Workers :
              r_pc'[v] = r_pc[v] \/ (r_pc[v] \in Screens!Filling /\ r_pc'[v] \in Screens!Filling)
      BY <1>1, <1>3, <2>2 DEF Screens!Filling
    <3>. QED BY <1>1, <2>3, <3>1, StillWork
  <2>5. Roles'
    BY <1>1, <1>4, <2>1, <2>2 DEF SlotSide, Roles
  <2>6. Screens!IsWhole(slots[back]) /\ slots[back].real[1] # Screens!None
    <3>1. /\ RealIs(slots[back], copy[w].frame) /\ MidIs(slots[back], copy[w].frame)
          /\ copy[w].frame \in 0 .. RingFrames - 1
      BY <1>1, <1>2, FilledFrom DEF SlotSide, Whole
    <3>2. 1 \in Screens!Workers
      BY RingAssumption DEF Screens!Workers
    <3>. QED BY <3>1, <3>2 DEF RealIs, MidIs, Screens!IsWhole, Screens!None
  <2>7. Whole'
    BY <1>1, <2>1, <2>2, <2>6 DEF SlotSide, Whole
  <2>. QED BY <2>3, <2>4, <2>5, <2>7 DEF SlotSide
<1>6. CASE ~Screens!Holds(w)
  <2>1. old' = [old EXCEPT ![w] = state] /\ state' = state /\ r_pc' = r_pc
    BY <1>6 DEF Screens!FillCas
  <2>2. RingType'
    BY <1>1, <2>1 DEF RingType, Screens!images, Filler
  <2>3. WorkSide'
    BY <1>1, <2>1, <2>2, StillWork
  <2>4. old'[Screens!Presenter] = old[Screens!Presenter]
    BY <2>1 DEF RingType, Screens!Workers, Screens!Presenter
  <2>5. Roles'
    BY <1>1, <1>3, <2>1, <2>4 DEF SlotSide, Roles
  <2>6. Whole'
    BY <1>1, <2>1 DEF SlotSide, Whole
  <2>. QED BY <2>2, <2>3, <2>5, <2>6 DEF SlotSide
<1>. QED BY <1>5, <1>6

LEMMA FillPublishHolds ==
    ASSUME RingType, WorkSide, SlotSide, NEW w \in Screens!Workers, Screens!FillPublish(w)
    PROVE  RingType' /\ WorkSide' /\ SlotSide'
<1>1. /\ r_pc[w] = "publish" /\ back' = old[w].slot /\ r_pc' = [r_pc EXCEPT ![w] = "idle"]
      /\ Screens!Finish(w)
      /\ UNCHANGED <<Screens!images, done, state, front, slots>>
      /\ UNCHANGED <<old, tpc>>
  BY DEF Screens!FillPublish, Screens!NextBack
<1>2. back' \in Screens!Slots
  BY <1>1 DEF RingType
<1>3. RingType' /\ WorkSide'
  BY <1>1, <1>2, PublishWork
<1>4. \A v \in Screens!Workers : r_pc'[v] = "idle"
  <2>1. Filler(w)
    BY <1>1 DEF Filler, Screens!Filling
  <2>. QED BY <1>1, <2>1, FilledFrom DEF RingType
<1>5. Roles'
  BY <1>1, <1>4 DEF SlotSide, Roles
<1>6. Whole'
  BY <1>1, <1>4 DEF SlotSide, Whole
<1>. QED BY <1>3, <1>5, <1>6 DEF SlotSide

-----------------------------------------------------------------------------
(* The presenter.                                                          *)

LEMMA TakeLoadHolds ==
    ASSUME RingType, WorkSide, SlotSide, Screens!TakeLoad
    PROVE  RingType' /\ WorkSide' /\ SlotSide'
<1>1. /\ state.fresh /\ old' = [old EXCEPT ![Screens!Presenter] = state] /\ tpc' = "cas"
      /\ UNCHANGED <<copy, r_pc, Screens!images, done, Screens!shared>>
  BY DEF Screens!TakeLoad, Screens!TakeLook
<1>2. RingType'
  BY <1>1 DEF RingType, Screens!images, Screens!shared, Filler
<1>3. WorkSide'
  BY <1>1, <1>2, StillWork
<1>4. old'[Screens!Presenter] = state /\ \A v \in Screens!Workers : old'[v] = old[v]
  BY <1>1 DEF RingType, Screens!Workers, Screens!Presenter
<1>5. Roles'
  BY <1>1, <1>4 DEF SlotSide, Roles, Screens!shared
<1>6. Whole'
  BY <1>1 DEF SlotSide, Whole, Screens!shared
<1>. QED BY <1>2, <1>3, <1>5, <1>6 DEF SlotSide

LEMMA TakeCasHolds ==
    ASSUME RingType, WorkSide, SlotSide, Screens!TakeCas
    PROVE  RingType' /\ WorkSide' /\ SlotSide'
<1>1. tpc = "cas" /\ UNCHANGED <<copy, r_pc, Screens!images, done, back, slots>>
  BY DEF Screens!TakeCas
<1>2. old[Screens!Presenter].fresh /\ state.fresh
  BY <1>1 DEF SlotSide, Roles
<1>3. CASE Screens!Holds(Screens!Presenter)
  <2>1. /\ state' = [slot |-> front, fresh |-> FALSE] /\ front' = state.slot
        /\ tpc' = "show" /\ old' = old
    BY <1>3 DEF Screens!TakeCas, Screens!Holds
  <2>2. RingType'
    BY <1>1, <2>1 DEF RingType, Screens!images, Filler
  <2>3. WorkSide'
    BY <1>1, <2>2, StillWork
  <2>4. Roles'
    BY <1>1, <2>1 DEF SlotSide, Roles
  <2>5. Whole'
    BY <1>1, <1>2, <2>1 DEF SlotSide, Whole
  <2>. QED BY <2>2, <2>3, <2>4, <2>5 DEF SlotSide
<1>4. CASE ~Screens!Holds(Screens!Presenter)
  <2>1. old' = [old EXCEPT ![Screens!Presenter] = state] /\ UNCHANGED <<state, front, tpc>>
    BY <1>4 DEF Screens!TakeCas
  <2>2. RingType'
    BY <1>1, <2>1 DEF RingType, Screens!images, Filler
  <2>3. WorkSide'
    BY <1>1, <2>2, StillWork
  <2>4. old'[Screens!Presenter] = state /\ \A v \in Screens!Workers : old'[v] = old[v]
    BY <2>1 DEF RingType, Screens!Workers, Screens!Presenter
  <2>5. Roles'
    BY <1>1, <1>2, <2>1, <2>4 DEF SlotSide, Roles
  <2>6. Whole'
    BY <1>1, <2>1 DEF SlotSide, Whole
  <2>. QED BY <2>2, <2>3, <2>5, <2>6 DEF SlotSide
<1>. QED BY <1>3, <1>4

-----------------------------------------------------------------------------
(* The ring.                                                               *)

ScreensInv == RingType /\ WorkSide /\ SlotSide

LEMMA ScreensInvInit == Screens!Init => ScreensInv
  BY InitWork, InitSlots DEF ScreensInv

LEMMA ScreensInvStep == ScreensInv /\ [Screens!Next]_Screens!vars => ScreensInv'
<1>. SUFFICES ASSUME ScreensInv, [Screens!Next]_Screens!vars PROVE ScreensInv'
  OBVIOUS
<1>. RingType /\ WorkSide /\ SlotSide
  BY DEF ScreensInv
<1>1. ASSUME NEW w \in Screens!Workers, Screens!Start(w) PROVE ScreensInv'
  <2>1. RingType' /\ WorkSide'
    BY <1>1, StartWork
  <2>2. /\ UNCHANGED <<Screens!shared, old, tpc>> /\ copy' = copy
        /\ r_pc[w] = "idle" /\ r_pc' = [r_pc EXCEPT ![w] = "rows"]
    BY <1>1 DEF Screens!Start
  <2>3. SlotSide'
    BY <2>2, QuietSlots DEF RingType, Ready
  <2>. QED BY <2>1, <2>3 DEF ScreensInv
<1>2. ASSUME NEW w \in Screens!Workers, Screens!Rows(w) PROVE ScreensInv'
  <2>1. RingType' /\ WorkSide'
    BY <1>2, RowsWork
  <2>2. /\ UNCHANGED <<Screens!shared, old, tpc>> /\ r_pc[w] = "rows"
        /\ \/ r_pc' = [r_pc EXCEPT ![w] = "count"] /\ copy' = copy
           \/ r_pc' = [r_pc EXCEPT ![w] = "idle"] /\ copy' = [copy EXCEPT ![w] = Screens!After(@)]
    BY <1>2 DEF Screens!Rows, Screens!Finish
  <2>3. /\ \A v \in Screens!Workers : v # w => r_pc'[v] = r_pc[v] /\ copy'[v] = copy[v]
        /\ r_pc'[w] \in {"count", "idle"}
    BY <2>2 DEF RingType
  <2>4. SlotSide'
    BY <2>2, <2>3, QuietSlots DEF Ready
  <2>. QED BY <2>1, <2>4 DEF ScreensInv
<1>3. ASSUME NEW w \in Screens!Workers, Screens!CountCopy(w) PROVE ScreensInv'
  <2>1. RingType' /\ WorkSide'
    BY <1>3, CountWork
  <2>2. /\ UNCHANGED <<Screens!shared, old, tpc>> /\ r_pc[w] = "count"
        /\ \/ r_pc' = [r_pc EXCEPT ![w] = "fill"] /\ copy' = copy
           \/ r_pc' = [r_pc EXCEPT ![w] = "idle"] /\ copy' = [copy EXCEPT ![w] = Screens!After(@)]
    BY <1>3 DEF Screens!CountCopy, Screens!Finish
  <2>3. /\ \A v \in Screens!Workers : v # w => r_pc'[v] = r_pc[v] /\ copy'[v] = copy[v]
        /\ r_pc'[w] \in {"fill", "idle"}
    BY <2>2 DEF RingType
  <2>4. SlotSide'
    BY <2>2, <2>3, QuietSlots DEF Ready
  <2>. QED BY <2>1, <2>4 DEF ScreensInv
<1>4. ASSUME NEW w \in Screens!Workers, Screens!Fill(w) PROVE ScreensInv'
  BY <1>4, FillRealHolds, FillMidHolds, FillLoadHolds, FillCasHolds, FillPublishHolds
     DEF ScreensInv, Screens!Fill
<1>5. CASE Screens!Present
  BY <1>5, TakeLoadHolds, TakeCasHolds DEF ScreensInv, Screens!Present
<1>6. CASE UNCHANGED Screens!vars
  <2>. USE <1>6 DEF Screens!vars, Screens!images, Screens!shared
  <2>1. RingType'
    BY DEF RingType, Filler
  <2>2. WorkSide'
    BY <2>1, StillWork
  <2>3. SlotSide'
    BY QuietSlots
  <2>. QED BY <2>1, <2>2, <2>3 DEF ScreensInv
<1>. QED BY <1>1, <1>2, <1>3, <1>4, <1>5, <1>6 DEF Screens!Next, Screens!Worker

\* Fillers come one at a time, "and g_ring_back needs no atomic"; the three
\* slots are the filler's, the middle one and the presenter's at every step,
\* and what is offered is whole (ring_fill, gxr_ring_take).
THEOREM SlotsTheirs == Screens!Spec => []Screens!RingInv
<1>1. ScreensInv => Screens!RingInv
  <2>. SUFFICES ASSUME ScreensInv PROVE Screens!RingInv
    OBVIOUS
  <2>. RingType /\ WorkSide /\ SlotSide
    BY DEF ScreensInv
  <2>. RingWorkers \in Nat \ {0} /\ RingFrames \in Nat
    BY RingAssumption
  <2>1. Screens!TypeOK
    <3>1. done \in -(CountMod \div 2) .. CountMod \div 2 - 1
      <4>1. PICK f \in 0 .. RingFrames :
               LET past == {w \in Screens!Workers : Passed(w) = f + 1}
               IN  /\ \A w \in Screens!Workers : Passed(w) \in {f, f + 1}
                   /\ past # Screens!Workers
                   /\ done = RingWorkers * f + Cardinality(past)
        BY DEF WorkSide, Counts
      <4>. DEFINE past == {w \in Screens!Workers : Passed(w) = f + 1}
      <4>2. /\ IsFiniteSet(Screens!Workers) /\ Cardinality(Screens!Workers) = RingWorkers
        BY FS_Interval DEF Screens!Workers
      <4>3. Cardinality(past) \in Nat /\ Cardinality(past) <= RingWorkers
        BY <4>2, FS_Subset, FS_CardinalityType
      <4>4. f = RingFrames => Cardinality(past) = 0
        <5>1. \A w \in Screens!Workers : Passed(w) <= RingFrames
          BY DEF RingType, Passed, Filler, Screens!Filling
        <5>2. f = RingFrames => past = {}
          BY <5>1
        <5>. QED BY <5>2, FS_EmptySet
      <4>. DEFINE k == Cardinality(past)
      <4>. HIDE DEF past
      <4>5. RingWorkers * f + k <= RingWorkers * RingFrames /\ RingWorkers * f + k \in Nat
        <5>0. k \in Nat /\ RingWorkers * f \in Nat
          BY <4>3
        <5>. HIDE DEF k
        <5>1. CASE f = RingFrames
          BY <4>4, <5>0, <5>1 DEF k
        <5>2. CASE f # RingFrames
          <6>1. /\ RingWorkers * (f + 1) <= RingWorkers * RingFrames
                /\ RingWorkers * (f + 1) = RingWorkers * f + RingWorkers
            BY <5>2
          <6>2. k <= RingWorkers
            BY <4>3 DEF k
          <6>3. RingWorkers * RingFrames \in Nat
            OBVIOUS
          <6>. QED BY <5>0, <6>1, <6>2, <6>3
        <5>. QED BY <5>1, <5>2
      <4>6. done = RingWorkers * f + k
        BY <4>1 DEF past
      <4>. DEFINE m == RingWorkers * RingFrames
                  h == CountMod \div 2
      <4>. HIDE DEF k
      <4>7. m \in Int /\ h \in Int /\ m < h
        BY RingAssumption
      <4>8. done \in Nat /\ done <= m
        BY <4>5, <4>6
      <4>. HIDE DEF m, h
      <4>9. done \in -h .. h - 1
        BY <4>7, <4>8
      <4>. QED BY <4>9 DEF h
    <3>. QED BY <3>1 DEF RingType, Screens!TypeOK, Screens!Filling
  <2>2. \A v, w \in Screens!Workers :
            r_pc[v] \in Screens!Filling /\ r_pc[w] \in Screens!Filling => v = w
    BY FilledFrom DEF Filler, Screens!Filling
  <2>3. LET theirs == IF \E w \in Screens!Workers : r_pc[w] = "publish"
                      THEN {old[w].slot : w \in {v \in Screens!Workers : r_pc[v] = "publish"}}
                      ELSE {back}
        IN  theirs \cup {state.slot, front} = Screens!Slots
    <3>1. \A a, b, c \in Screens!Slots : a # b /\ a # c /\ b # c => {a} \cup {b, c} = Screens!Slots
      BY DEF Screens!Slots
    <3>2. state.slot \in Screens!Slots /\ front \in Screens!Slots /\ back \in Screens!Slots
      BY DEF RingType
    <3>3. CASE \E w \in Screens!Workers : r_pc[w] = "publish"
      <4>1. PICK w \in Screens!Workers : r_pc[w] = "publish"
        BY <3>3
      <4>2. {v \in Screens!Workers : r_pc[v] = "publish"} = {w}
        BY <2>2, <4>1 DEF Screens!Filling
      <4>3. {old[u].slot : u \in {v \in Screens!Workers : r_pc[v] = "publish"}} = {old[w].slot}
        BY <4>2
      <4>4. old[w].slot \in Screens!Slots /\ old[w].slot \notin {state.slot, front}
        BY <4>1 DEF RingType, SlotSide, Roles
      <4>5. state.slot # front
        BY DEF SlotSide, Roles
      <4>6. {old[w].slot} \cup {state.slot, front} = Screens!Slots
        BY <3>1, <3>2, <4>4, <4>5
      <4>. QED BY <3>3, <4>3, <4>6
    <3>4. CASE ~\E w \in Screens!Workers : r_pc[w] = "publish"
      <4>1. back \notin {state.slot, front} /\ state.slot # front
        BY <3>4 DEF SlotSide, Roles
      <4>2. {back} \cup {state.slot, front} = Screens!Slots
        BY <3>1, <3>2, <4>1
      <4>. QED BY <3>4, <4>2
    <3>. QED BY <3>3, <3>4
  <2>4. state.fresh => Screens!IsWhole(slots[state.slot])
    BY DEF SlotSide, Whole
  <2>. QED BY <2>1, <2>2, <2>3, <2>4 DEF Screens!RingInv
<1>. QED BY <1>1, ScreensInvInit, ScreensInvStep, PTL DEF Screens!Spec

\* What is whole is one frame's.
LEMMA SeenWhole ==
    ASSUME NEW S, Screens!IsWhole(S)
    PROVE  /\ Screens!Seen(S) = S.real[1]
           /\ Screens!Seen(S) \in {Screens!None} \cup 0 .. RingFrames - 1
<1>1. 1 \in Screens!Workers
  BY RingAssumption DEF Screens!Workers
<1>. QED BY <1>1 DEF Screens!Seen, Screens!IsWhole

\* The last to count a frame's end hands it on whole, and what the presenter
\* takes is the newest (ring_fill, gxr_ring_take).
THEOREM RingImplementsBox == Screens!Spec => Screens!Box!Spec
<1>1. Screens!Init => Screens!Box!Init
  <2>. SUFFICES ASSUME Screens!Init PROVE Screens!Box!Init
    OBVIOUS
  <2>1. Screens!Shown = Screens!None
    <3>1. Screens!IsWhole(slots[front])
      BY InitSlots DEF SlotSide, Whole
    <3>2. slots[front].real[1] = Screens!None
      BY RingAssumption DEF Screens!Init, Screens!Slots, Screens!Blank, Screens!Workers
    <3>. QED BY <3>1, <3>2, SeenWhole DEF Screens!Shown
  <2>. QED BY <2>1 DEF Screens!Init, Screens!Box!Init
<1>2. ScreensInv /\ ScreensInv' /\ [Screens!Next]_Screens!vars =>
          [Screens!Box!Next]_Screens!Box!vars
  <2>. SUFFICES ASSUME ScreensInv, ScreensInv', [Screens!Next]_Screens!vars
                PROVE  [Screens!Box!Next]_Screens!Box!vars
    OBVIOUS
  <2>. DEFINE offered == IF state.fresh THEN Screens!Seen(slots[state.slot]) ELSE Screens!Shown
  <2>1. ASSUME state' = state, front' = front, slots'[front] = slots[front],
               slots'[state.slot] = slots[state.slot]
        PROVE  [Screens!Box!Next]_Screens!Box!vars
    BY <2>1 DEF Screens!Box!vars, Screens!Shown, Screens!Seen, Screens!IsWhole
  <2>2. ASSUME NEW w \in Screens!Workers, Screens!FillCas(w), Screens!Holds(w)
        PROVE  Screens!Box!Offer
    <3>1. /\ state' = [slot |-> back, fresh |-> TRUE] /\ front' = front /\ slots' = slots
      BY <2>2 DEF Screens!FillCas
    <3>2. Screens!IsWhole(slots[back]) /\ slots[back].real[1] # Screens!None
      BY <3>1 DEF ScreensInv, SlotSide, Whole
    <3>3. Screens!Seen(slots[back]) \in 0 .. RingFrames - 1
      BY <3>2, SeenWhole
    <3>4. /\ Screens!Shown' = Screens!Shown
          /\ Screens!Seen(slots'[state'.slot]) = Screens!Seen(slots[back])
      BY <3>1 DEF Screens!Shown
    <3>. QED BY <3>1, <3>3, <3>4 DEF Screens!Box!Offer
  <2>3. ASSUME Screens!TakeCas, Screens!Holds(Screens!Presenter) PROVE Screens!Box!Take
    <3>1. /\ state' = [slot |-> front, fresh |-> FALSE] /\ front' = state.slot /\ slots' = slots
      BY <2>3 DEF Screens!TakeCas, Screens!Holds
    <3>2. state.fresh
      BY <2>3 DEF ScreensInv, SlotSide, Roles, Screens!TakeCas
    <3>3. Screens!Shown' = Screens!Seen(slots[state.slot])
      BY <3>1 DEF Screens!Shown
    <3>. QED BY <3>1, <3>2, <3>3 DEF Screens!Box!Take
  <2>4. ASSUME NEW w \in Screens!Workers, Screens!FillReal(w) \/ Screens!FillMid(w)
        PROVE  [Screens!Box!Next]_Screens!Box!vars
    <3>1. /\ r_pc[w] \in {"fill", "fillmid"} /\ state' = state /\ front' = front
          /\ slots' = slots \/ \E new : slots' = [slots EXCEPT ![back] = new]
      BY <2>4 DEF Screens!FillReal, Screens!FillMid
    <3>2. \A v \in Screens!Workers : r_pc[v] # "publish"
      BY <3>1, FilledFrom DEF ScreensInv, Filler, Screens!Filling
    <3>3. back \notin {state.slot, front}
      BY <3>2 DEF ScreensInv, SlotSide, Roles
    <3>4. slots'[front] = slots[front] /\ slots'[state.slot] = slots[state.slot]
      BY <3>1, <3>3 DEF ScreensInv, RingType
    <3>. QED BY <2>1, <3>1, <3>4
  <2>5. CASE UNCHANGED <<state, front, slots>>
    BY <2>1, <2>5
  <2>6. ASSUME NEW w \in Screens!Workers, Screens!Worker(w)
        PROVE  [Screens!Box!Next]_Screens!Box!vars
    <3>1. CASE Screens!FillReal(w) \/ Screens!FillMid(w)
      BY <2>4, <3>1
    <3>2. CASE Screens!FillCas(w)
      BY <2>2, <2>5, <3>2 DEF Screens!FillCas, Screens!Box!Next
    <3>3. CASE \/ Screens!Start(w) \/ Screens!Rows(w) \/ Screens!CountCopy(w) \/ Screens!FillLoad(w)
               \/ Screens!FillPublish(w)
      BY <2>5, <3>3 DEF Screens!Start, Screens!Rows, Screens!CountCopy, Screens!FillLoad,
                        Screens!FillPublish, Screens!shared
    <3>. QED BY <2>6, <3>1, <3>2, <3>3 DEF Screens!Worker, Screens!Fill
  <2>7. CASE Screens!Present
    <3>1. CASE Screens!TakeLoad
      BY <2>5, <3>1 DEF Screens!TakeLoad, Screens!shared
    <3>2. CASE Screens!TakeCas
      BY <2>3, <2>5, <3>2 DEF Screens!TakeCas, Screens!Box!Next
    <3>. QED BY <2>7, <3>1, <3>2 DEF Screens!Present
  <2>8. CASE UNCHANGED Screens!vars
    BY <2>5, <2>8 DEF Screens!vars, Screens!shared
  <2>. QED BY <2>6, <2>7, <2>8 DEF Screens!Next
<1>. QED BY <1>1, <1>2, ScreensInvInit, ScreensInvStep, PTL DEF Screens!Spec, Screens!Box!Spec

\* Of the whole: what is shown is whole, and the newest offered.
THEOREM ImplementsBoxHolds == DisplaySpec => ImplementsBox
<1>1. DisplayInit => Screens!Init
  BY DEF DisplayInit
<1>2. [DisplayNext]_<<which, vars, parkVars, ringVars, pairVars>> => [Screens!Next]_Screens!vars
  <2>. SUFFICES ASSUME [DisplayNext]_<<which, vars, parkVars, ringVars, pairVars>>
                PROVE  [Screens!Next]_Screens!vars
    OBVIOUS
  <2>1. Screens!Next \/ UNCHANGED ringVars
    BY DEF DisplayNext
  <2>. QED BY <2>1 DEF ringVars, Screens!vars, Screens!images, Screens!shared
<1>3. DisplaySpec => Screens!Spec
  BY <1>1, <1>2, PTL DEF DisplaySpec, Screens!Spec
<1>. QED BY <1>3, RingImplementsBox DEF ImplementsBox, Screens!ImplementsBox

-----------------------------------------------------------------------------
(* The in-between images.                                                  *)

USE DEF Fps, RateMin, RateMax

\* What the steps rely on: the budget's images, and the grid.
ImagesOK == top \in Nat /\ cut \in 0..top
CapOK == cap \in Nat /\ asked \in Nat /\ (cap > 0 => cap < asked)
GridOK ==
  /\ rate \in Rates /\ last \in Nat /\ r \in 0..29 /\ base \in 0..29
  /\ made \in Int /\ since \in Nat /\ (since = 0 => last = 0)
Inv == ImagesOK /\ CapOK /\ GridOK /\ OnGrid /\ RealImages

(***************************************************************************)
(* A step of the budget leaves as many images as the display asks for or   *)
(* fewer, and takes one of those given away at the most.                   *)
(***************************************************************************)
LEMMA BudgetStepImages ==
  ASSUME ImagesOK, NEW time \in Times, NEW want \in Nat, BudgetStep(time, want)
  PROVE  /\ ImagesOK'
         /\ top' = Higher(want, 1)
         /\ Given' >= Lower(Given, top') - 1
<1> DEFINE t == Higher(want, 1)
           c == Retaken(t)
<1>1. t \in Nat /\ t >= 1
  BY DEF Higher
<1>2. c \in 0..t /\ t - c >= Lower(top - cut, t)
  BY <1>1 DEF Retaken, Higher, Lower, ImagesOK
<1>3. top' = t /\ cut' \in {c - 1, c, c + 1} /\ (cut' = c + 1 => c < t) /\ (cut' = c - 1 => c > 0)
  <2>1. CASE TakeAway(time, t, c)
    BY <2>1, <1>2 DEF TakeAway, BudgetStep
  <2>2. CASE FullRate(time, t, c)
    BY <2>2, <1>2 DEF FullRate, BudgetStep
  <2>3. CASE CountUp(time, t, c)
    BY <2>3, <1>2 DEF CountUp, BudgetStep
  <2>4. CASE CountDown(time, t, c)
    BY <2>4, <1>2 DEF CountDown, BudgetStep
  <2>5. CASE GiveBack(time, t, c)
    BY <2>5, <1>2 DEF GiveBack, BudgetStep
  <2> QED
    BY <2>1, <2>2, <2>3, <2>4, <2>5 DEF BudgetStep
<1>4. t = Higher(want, 1)
  OBVIOUS
<1> HIDE DEF t, c
<1>5. ImagesOK'
  BY <1>1, <1>2, <1>3 DEF ImagesOK
<1>6. top' - cut' >= Lower(top - cut, top') - 1
  <2>1. top' = t /\ cut' <= c + 1
    BY <1>2, <1>3
  <2>2. top \in Int /\ cut \in Int /\ c \in Int /\ t \in Int /\ cut' \in Int
    BY <1>1, <1>2, <1>3 DEF ImagesOK
  <2>3. t - c >= Lower(top - cut, t)
    BY <1>2
  <2>4. Lower(top - cut, t) \in Int
    BY <2>2 DEF Lower
  <2> QED
    BY <2>1, <2>2, <2>3, <2>4
<1> QED
  BY <1>3, <1>4, <1>5, <1>6 DEF Given

(***************************************************************************)
(* A frame's images end on a refresh of the next: the remainder is carried *)
(* exactly.                                                                *)
(***************************************************************************)
LEMMA FrameImages ==
  ASSUME NEW hz \in Nat, NEW rem \in 0..29
  PROVE  /\ Images(hz, rem) \in Nat
         /\ (rem + hz) % 30 \in 0..29
         /\ 30 * Images(hz, rem) + ((rem + hz) % 30) = rem + hz
         /\ (hz % 30 = 0 /\ rem = 0) => (rem + hz) % 30 = 0 /\ EndsReal(hz, rem)
<1> DEFINE s == rem + hz
<1>1. s \in Nat /\ s \div 30 \in Nat /\ s % 30 \in 0..29 /\ 30 * (s \div 30) + (s % 30) = s
  OBVIOUS
<1>2. Images(hz, rem) = s \div 30
  BY DEF Images
<1>3. (hz % 30 = 0 /\ rem = 0) => 30 * (s \div 30) - rem = hz /\ s % 30 = 0
  BY <1>1
<1> QED
  BY <1>1, <1>2, <1>3 DEF EndsReal

LEMMA RatesAreHeld ==
  ASSUME NEW hz \in Rates
  PROVE  /\ HeldRate(hz) \in Nat
         /\ Top(HeldRate(hz)) \in Nat
         /\ \A n \in Nat : Clamped(n) \in 30..240
  BY PacingConstants DEF HeldRate, Lower, Higher, Top, Clamped

LEMMA GridStep ==
  ASSUME NEW m \in Int, NEW n \in Int, NEW r0 \in Int, NEW r1 \in Int,
         NEW b \in Int, NEW s \in Int, NEW c \in Int,
         30 * m + r0 = b + s * c, 30 * n + r1 = r0 + c
  PROVE  30 * (m + n) + r1 = b + (s + 1) * c
<1>1. (s + 1) * c = s * c + c /\ s * c \in Int
  OBVIOUS
<1> QED
  BY <1>1

(***************************************************************************)
(* The weights' step keeps the grid.                                       *)
(***************************************************************************)
LEMMA WeightsKeepGrid ==
  ASSUME Inv, Weights
  PROVE  GridOK' /\ OnGrid' /\ RealImages'
<1> DEFINE hz == Capped(HeldRate(rate))
           rem == Remainder(hz)
           c == Clamped(hz)
           n == Images(c, rem)
<1>1. hz \in Nat /\ hz >= 30
  BY RatesAreHeld, PacingConstants DEF Weights, Inv, GridOK, CapOK, Capped, HeldRate, Lower
<1>2. c \in 30..240 /\ rem \in 0..29
  BY <1>1 DEF Clamped, Lower, Higher, Remainder, Inv, GridOK
<1>a. n = Images(c, rem) /\ hz = Capped(HeldRate(rate)) /\ rem = Remainder(hz) /\ c = Clamped(hz)
  OBVIOUS
<1>b. /\ last' = hz /\ r' = (rem + c) % 30 /\ rate' = rate
      /\ made' = IF hz # last \/ since = Horizon THEN n ELSE made + n
      /\ since' = IF hz # last \/ since = Horizon THEN 1 ELSE since + 1
      /\ base' = IF hz # last \/ since = Horizon THEN rem ELSE base
  BY DEF Weights
<1> HIDE DEF n, c, rem, hz
<1>3. n \in Nat /\ (rem + c) % 30 \in 0..29 /\ 30 * n + ((rem + c) % 30) = rem + c
  <2>1. c \in Nat
    BY <1>2
  <2>2. /\ Images(c, rem) \in Nat
        /\ (rem + c) % 30 \in 0..29
        /\ 30 * Images(c, rem) + ((rem + c) % 30) = rem + c
    BY <2>1, <1>2, FrameImages
  <2> QED
    BY <2>2, <1>a
<1>4. last' = hz /\ r' = (rem + c) % 30 /\ rate' = rate
  BY <1>b
<1>5. Clamped(last)' = c
  BY <1>4, <1>a DEF Clamped
<1>6. CASE hz # last \/ since = Horizon
  <2>1. made' = n /\ since' = 1 /\ base' = rem
    BY <1>6, <1>b
  <2>2. GridOK' /\ OnGrid'
    BY <2>1, <1>1, <1>2, <1>3, <1>4, <1>5 DEF GridOK, OnGrid, Inv
  <2>3. RealImages'
    <3>1. SUFFICES ASSUME c % 30 = 0 PROVE r' = 0
      BY <1>5 DEF RealImages
    <3>2. CASE hz # last
      BY <3>1, <3>2, <1>2, <1>4, <1>a DEF Remainder
    <3>3. CASE hz = last
      <4>1. since > 0 /\ rem = r
        <5>1. since = Horizon /\ Horizon > 0
          BY <3>3, <1>6, PacingConstants
        <5>2. Remainder(hz) = r
          BY <3>3 DEF Remainder
        <5> QED
          BY <5>1, <5>2, <1>a
      <4>2. c = Clamped(last)
        BY <3>3, <1>a
      <4>3. r = 0
        BY <4>1, <4>2, <3>1 DEF Inv, RealImages
      <4> QED
        BY <4>1, <4>3, <3>1, <1>2, <1>4
    <3> QED
      BY <3>2, <3>3
  <2> QED
    BY <2>2, <2>3
<1>7. CASE hz = last /\ since # Horizon
  <2>1. made' = made + n /\ since' = since + 1 /\ base' = base /\ rem = r /\ c = Clamped(last)
    BY <1>7, <1>a, <1>b DEF Remainder
  <2>2. GridOK'
    BY <2>1, <1>1, <1>3, <1>4 DEF GridOK, Inv
  <2>3. 30 * made + r = base + since * c
    BY <2>1 DEF Inv, OnGrid
  <2>6. OnGrid'
    <3>1. 30 * (made + n) + ((r + c) % 30) = base + (since + 1) * c
      <4>1. /\ made \in Int /\ n \in Int /\ r \in Int /\ (r + c) % 30 \in Int
            /\ base \in Int /\ since \in Int /\ c \in Int
        <5>1. made \in Int /\ r \in Int /\ base \in Int /\ since \in Int
          BY DEF Inv, GridOK
        <5>2. n \in Int /\ c \in Int
          BY <1>2, <1>3
        <5>3. (r + c) % 30 \in Int
          BY <5>1, <5>2
        <5> QED
          BY <5>1, <5>2, <5>3
      <4>2. 30 * n + ((r + c) % 30) = r + c
        BY <1>3, <2>1
      <4> QED
        BY <4>1, <4>2, <2>3, GridStep
    <3> QED
      BY <3>1, <2>1, <1>4, <1>5 DEF OnGrid
  <2>7. RealImages'
    <3>1. SUFFICES ASSUME c % 30 = 0 PROVE r' = 0
      BY <1>5 DEF RealImages
    <3>2. CASE since > 0
      BY <3>1, <3>2, <2>1, <1>2, <1>4 DEF Inv, RealImages
    <3>3. CASE since = 0
      BY <3>3, <1>1, <1>7 DEF Inv, GridOK
    <3> QED
      BY <3>2, <3>3 DEF Inv, GridOK
  <2> QED
    BY <2>2, <2>6, <2>7
<1> QED
  BY <1>6, <1>7

(***************************************************************************)
(* The initial states satisfy the invariant and every step keeps it: the   *)
(* budget's step leaves the grid alone, the weights' step leaves the       *)
(* budget alone, and the window's stores touch neither.                    *)
(***************************************************************************)
LEMMA InitInv == Init => Inv
  BY DEF Init, BudgetInit, Inv, ImagesOK, CapOK, GridOK, OnGrid, RealImages, Clamped, Lower, Higher

LEMMA CapBelow ==
  ASSUME NEW t \in Nat, NEW c \in 0..t, NEW w \in Nat, NEW k,
         t = IF w > 1 THEN w ELSE 1,
         k = IF t - c < t THEN t - c ELSE 0
  PROVE  k \in Nat /\ (k > 0 => k < w)
  OBVIOUS

LEMMA FrameBeginInv ==
  ASSUME Inv, NEW time \in Times, FrameBegin(time)
  PROVE  Inv'
<1>1. GridOK' /\ OnGrid' /\ RealImages'
  BY DEF Inv, GridOK, OnGrid, RealImages, FrameBegin, Clamped
<1>2. CASE shown
  <2>1. asked' = Top(HeldRate(rate)) /\ asked' \in Nat /\ BudgetStep(time, asked')
    BY <1>2, RatesAreHeld DEF FrameBegin, Inv, GridOK
  <2>2. ImagesOK' /\ top' = Higher(asked', 1)
    BY <2>1, BudgetStepImages DEF Inv
  <2>3. cap' = IF top' - cut' < top' THEN top' - cut' ELSE 0
    BY <1>2 DEF FrameBegin, Given
  <2>4. CapOK'
    <3>2. top' \in Nat /\ cut' \in 0..top'
      BY <2>2 DEF ImagesOK
    <3>3. top' = IF asked' > 1 THEN asked' ELSE 1
      BY <2>2 DEF Higher
    <3>4. asked' \in Nat
      BY <2>1
    <3>5. cap' \in Nat /\ (cap' > 0 => cap' < asked')
      BY <2>3, <3>2, <3>3, <3>4, CapBelow
    <3> QED
      BY <3>4, <3>5 DEF CapOK
  <2> QED
    BY <1>1, <2>2, <2>4 DEF Inv
<1>3. CASE ~shown
  BY <1>1, <1>3 DEF FrameBegin, Inv, ImagesOK, CapOK, budget
<1> QED
  BY <1>2, <1>3

LEMMA NextInv ==
  ASSUME Inv, [Next]_vars
  PROVE  Inv'
<1>1. ASSUME NEW time \in Times, FrameBegin(time) PROVE Inv'
  BY <1>1, FrameBeginInv
<1>2. CASE NoRate
  BY <1>2 DEF NoRate, Inv, ImagesOK, CapOK, GridOK, OnGrid, RealImages, Clamped, budget
<1>3. CASE Weights
  <2>1. GridOK' /\ OnGrid' /\ RealImages'
    BY <1>3, WeightsKeepGrid
  <2>2. ImagesOK' /\ CapOK'
    BY <1>3 DEF Weights, Inv, ImagesOK, CapOK, budget
  <2> QED
    BY <2>1, <2>2 DEF Inv
<1>4. ASSUME NEW hz \in Rates, SayRate(hz) PROVE Inv'
  BY <1>4 DEF SayRate, Inv, ImagesOK, CapOK, GridOK, OnGrid, RealImages, Clamped, budget
<1>5. CASE SayShown
  BY <1>5 DEF SayShown, Inv, ImagesOK, CapOK, GridOK, OnGrid, RealImages, Clamped, budget
<1>6. CASE UNCHANGED vars
  BY <1>6 DEF vars, pacing, budget, Inv, ImagesOK, CapOK, GridOK, OnGrid, RealImages, Clamped
<1> QED
  BY <1>1, <1>2, <1>3, <1>4, <1>5, <1>6 DEF Next, Frame

(***************************************************************************)
(* For every display rate and every number of slices, no image is ever     *)
(* missed or made twice, however the rate and the budget change.           *)
(***************************************************************************)
THEOREM ImagesOnGrid == Spec => []OnGrid
<1>1. Init => Inv
  BY InitInv
<1>2. Inv /\ [Next]_vars => Inv'
  BY NextInv
<1>3. Inv => OnGrid
  BY DEF Inv
<1> QED
  BY <1>1, <1>2, <1>3, PTL DEF Spec

(***************************************************************************)
(* For every display rate, a rate that is a multiple of the game's ends    *)
(* every frame on its real image.                                          *)
(***************************************************************************)
THEOREM RealImagesShown == Spec => []RealImages
<1>1. Init => Inv
  BY InitInv
<1>2. Inv /\ [Next]_vars => Inv'
  BY NextInv
<1>3. Inv => RealImages
  BY DEF Inv
<1> QED
  BY <1>1, <1>2, <1>3, PTL DEF Spec

(***************************************************************************)
(* However the window's stores fall between the budget's step and the      *)
(* weights, a capped frame builds no more images than the budget left:     *)
(* the cap's rate is a multiple of 30 below the display's, and no          *)
(* remainder is carried into it.                                           *)
(***************************************************************************)
THEOREM CapHeld == Spec => WithinCap
<1>1. ASSUME Inv, Weights, cap > 0, asked = Top(HeldRate(rate))
      PROVE  between' <= cap
  <2> DEFINE H == HeldRate(rate)
             hz == Fps * (cap + 1)
  <2>1. H \in Nat /\ cap \in Nat /\ cap < asked
    BY <1>1, RatesAreHeld DEF Inv, CapOK, GridOK
  <2>2. H > hz /\ H <= RateMax
    <3>1. H <= RateMax
      BY <1>1, PacingConstants DEF HeldRate, Lower, Inv, GridOK
    <3>2. cap < IF H >= 60 THEN (H + 29) \div 30 - 1 ELSE 1
      BY <1>1, <2>1 DEF Top
    <3> HIDE DEF H
    <3>3. H > hz
      BY <3>2, <2>1, <1>1
    <3> QED
      BY <3>1, <3>3
  <2>3. Capped(H) = hz /\ Clamped(hz) = hz /\ hz \in Nat /\ hz % 30 = 0
    <3> HIDE DEF H
    <3>1. Capped(H) = hz
      BY <1>1, <2>1, <2>2 DEF Capped, Lower
    <3>2. hz \in 30..240
      BY <2>1, <2>2
    <3>3. Clamped(hz) = hz
      BY <3>2 DEF Clamped, Lower, Higher
    <3> QED
      BY <3>1, <3>2, <3>3, <2>1
  <2>4. Remainder(hz) = 0
    <3>1. CASE hz = last
      <4>1. since > 0
        BY <3>1, <2>1, <1>1 DEF Inv, GridOK
      <4>2. r = 0
        BY <4>1, <3>1, <2>3, <1>1 DEF Inv, RealImages
      <4> QED
        BY <4>2, <3>1 DEF Remainder
    <3>2. CASE hz # last
      BY <3>2 DEF Remainder
    <3> QED
      BY <3>1, <3>2
  <2>5. EndsReal(hz, 0)
    <3> HIDE DEF hz
    <3>1. 30 * (hz \div 30) = hz /\ 0 + hz = hz
      BY <2>3
    <3> QED
      BY <2>3, <3>1 DEF EndsReal, Images
  <2>6. between' = Images(hz, 0) - 1
    BY <1>1, <2>3, <2>4, <2>5 DEF Weights
  <2>7. Images(hz, 0) = cap + 1
    BY <2>1 DEF Images
  <2> QED
    BY <2>1, <2>6, <2>7
<1>2. Inv /\ [Next]_vars => [Weights /\ cap > 0 /\ asked = Top(HeldRate(rate)) =>
          between' <= cap]_vars
  BY <1>1
<1>3. Init => Inv
  BY InitInv
<1>4. Inv /\ [Next]_vars => Inv'
  BY NextInv
<1> QED
  BY <1>2, <1>3, <1>4, PTL DEF Spec, WithinCap

(***************************************************************************)
(* Whatever the display does, one frame takes one image away at the most.  *)
(***************************************************************************)
THEOREM TakenOneAtATime == Spec => OneAtATime
<1>1. ASSUME Inv, [Next]_vars PROVE Given' >= Lower(Given, top') - 1
  <2>1. CASE UNCHANGED budget
    BY <1>1, <2>1 DEF budget, Given, Lower, Inv, ImagesOK
  <2>2. ASSUME NEW time \in Times, FrameBegin(time), ~UNCHANGED budget
        PROVE  Given' >= Lower(Given, top') - 1
    <3>1. asked' \in Nat /\ BudgetStep(time, asked')
      BY <1>1, <2>2, RatesAreHeld DEF FrameBegin, Inv, GridOK
    <3> QED
      BY <1>1, <3>1, BudgetStepImages DEF Inv
  <2> QED
    BY <1>1, <2>1, <2>2 DEF Next, Frame, NoRate, Weights, SayRate, SayShown, vars
<1>2. Inv /\ [Next]_vars => [Given' >= Lower(Given, top') - 1]_vars
  BY <1>1
<1>3. Init => Inv
  BY InitInv
<1>4. Inv /\ [Next]_vars => Inv'
  BY NextInv
<1> QED
  BY <1>2, <1>3, <1>4, PTL DEF Spec, OneAtATime

\* Of the whole: the images a device shows are on the display's grid.
THEOREM WholeOnGrid == DisplaySpec => []OnGrid
<1>1. DisplayInit => Init
  BY DEF DisplayInit
<1>2. [DisplayNext]_<<which, vars, parkVars, ringVars, pairVars>> => [Next]_vars
  <2>. SUFFICES ASSUME [DisplayNext]_<<which, vars, parkVars, ringVars, pairVars>>
                PROVE  Next \/ UNCHANGED vars
    OBVIOUS
  <2>. QED BY DEF DisplayNext
<1>3. DisplaySpec => Spec
  BY <1>1, <1>2, PTL DEF DisplaySpec, Spec
<1>. QED BY <1>3, ImagesOnGrid
=============================================================================

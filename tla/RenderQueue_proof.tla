------------------------ MODULE RenderQueue_proof --------------------------
(***************************************************************************)
(* What holds of RenderQueue for every number of workers, every ring, and  *)
(* every stream of draws and copies.                                       *)
(*                                                                         *)
(* The inductive invariant IInv says of the last QueueCap commands that    *)
(* each is in its slot (Numbered, Slots), that its fences are the ones its *)
(* handler asked for and the copy before it left (Fences), and that a      *)
(* worker past a command's fence found every worker it names past it too   *)
(* (Passed).  Nothing in it looks at a command older than the ring: those  *)
(* every worker has finished.                                              *)
(*                                                                         *)
(* Over it stands MInv, of the lists only the producer has: which vertex   *)
(* blocks are given out (Blocks), which copies to memory may still be      *)
(* unfinished (Listed), what has been waited for (Settled), and that a     *)
(* copy is fenced past the unfinished copies over its memory (Overlaps).   *)
(***************************************************************************)
EXTENDS RenderQueueInv, RingNumbers, SequenceTheorems, FiniteSetTheorems,
        WellFoundedInduction, TLAPS

-----------------------------------------------------------------------------
(* Numbers.                                                                *)

\* A non-empty set of naturals has a least element, which Min returns.
LEMMA MinOfNaturals ==
    ASSUME NEW S, S \subseteq Nat, S # {}
    PROVE  Min(S) \in S /\ \A x \in S : Min(S) <= x
<1>. DEFINE R == OpToRel(<, Nat)
<1>1. IsWellFoundedOn(R, Nat)
  BY NatLessThanWellFounded
<1>2. \E x \in S : \A y \in S : ~ (<<y, x>> \in R)
  <2>. HIDE DEF R
  <2>. QED BY <1>1, WFMin
<1>3. \A x, y \in Nat : ~ (<<y, x>> \in R) => x <= y
  BY DEF OpToRel
<1>4. \E x \in S : \A y \in S : x <= y
  BY <1>2, <1>3
<1>. QED BY <1>4 DEF Min

\* A non-empty set of command numbers (and Nothing) below some number has a
\* greatest element, which Max returns.
LEMMA MaxBelow ==
    ASSUME NEW S, S \subseteq Nat \cup {Nothing}, S # {},
           NEW b \in Nat, \A x \in S : x < b
    PROVE  Max(S) \in S /\ \A x \in S : x <= Max(S)
<1>. DEFINE T == {b - x : x \in S}
<1>1. T \subseteq Nat /\ T # {}
  <2>1. \A x \in S : b - x \in Nat
    BY DEF Nothing
  <2>2. PICK x \in S : TRUE
    OBVIOUS
  <2>3. b - x \in T
    BY <2>2
  <2>. QED BY <2>1, <2>3
<1>2. PICK m \in T : \A y \in T : m <= y
  <2>. HIDE DEF T
  <2>. QED BY <1>1, MinOfNaturals
<1>3. PICK x \in S : m = b - x
  BY <1>2
<1>4. \A y \in S : y <= x
  <2>. SUFFICES ASSUME NEW y \in S PROVE y <= x
    OBVIOUS
  <2>1. b - x <= b - y
    BY <1>2, <1>3
  <2>. QED BY <2>1 DEF Nothing
<1>5. \A y \in S : x >= y
  BY <1>4 DEF Nothing
<1>6. Max(S) \in S /\ \A y \in S : Max(S) >= y
  BY <1>3, <1>5 DEF Max
<1>. QED BY <1>6 DEF Nothing

\* The neighbours of a worker's neighbour include the worker.
LEMMA NeighboursMutual ==
    ASSUME N \in Nat \ {0}, NEW w \in Workers, NEW j \in Workers,
           j \in {Prev(w), Next1(w)}
    PROVE  w \in {Prev(j), Next1(j)}
BY DEF Workers, Prev, Next1

-----------------------------------------------------------------------------
(* The invariant holds at the start.                                       *)

\* The state workers_start leaves satisfies the invariant.
LEMMA InitInv == Init => IInv
<1>. SUFFICES ASSUME Init PROVE IInv
  OBVIOUS
<1>. USE QueueAssumption
<1>1. TypeOK
  <2>1. queue \in [0 .. QueueCap - 1 -> Command]
    BY DEF Init, Command, Reach
  <2>2. todo \in Seq(Order)
    BY DEF Init
  <2>3. mid \in BOOLEAN /\ gate \in BOOLEAN
    BY DEF Init
  <2>4. pc \in [Workers -> {"idle", "fence", "run"}] /\ at \in [Workers -> Workers]
    BY DEF Init, Workers
  <2>5. /\ ran \in [Workers -> Nat] /\ screens \in [Workers -> Nat]
        /\ image \in [Textures -> Nat \cup {Nothing}]
        /\ lastWriter \in [Cells -> Nat \cup {Nothing}]
    BY DEF Init
  <2>6. arena \in 0 .. ArenaBlocks
    BY DEF Init
  <2>. QED BY <2>1, <2>2, <2>3, <2>4, <2>5, <2>6 DEF Init, TypeOK
<1>2. Numbered
  BY DEF Init, Numbered, Nothing, Workers
<1>3. Recent = {}
  BY DEF Init, Recent
<1>4. Slots /\ Fences /\ Exits /\ Passed
  BY <1>3 DEF Slots, Fences, Exits, Passed, Init, Workers
<1>5. Asked
  BY DEF Init, Asked
<1>. QED BY <1>1, <1>2, <1>4, <1>5 DEF IInv

-----------------------------------------------------------------------------
(* The steps that touch neither the ring nor a worker.                     *)

\* What Slots, Fences, Exits and Passed are about.
ring == <<published, ran, queue, pc, at, fenceAfter, fenceNear>>

\* A step that leaves the ring's words alone keeps the parts about the ring.
LEMMA RingUnchanged ==
    ASSUME IInv, UNCHANGED ring
    PROVE  Slots' /\ Fences' /\ Exits' /\ Passed'
BY DEF IInv, ring, Slots, Fences, Exits, Passed, Recent, Of, Past, FenceFor, Slot

\* The newest copy over some cells is one of the list, or none.
LEMMA NewestKnown ==
    ASSUME IInv, NEW list \in SUBSET pending, NEW cells
    PROVE  Newest(list, cells) \in Nat \cup {Nothing} /\ Newest(list, cells) < published
<1>. DEFINE S == Over(list, cells) \cup {Nothing}
<1>1. S \subseteq Nat \cup {Nothing} /\ S # {} /\ published \in Nat
  BY DEF IInv, TypeOK, Over
<1>2. \A x \in S : x < published
  BY DEF IInv, TypeOK, Numbered, Over, Nothing
<1>3. Max(S) \in S
  <2>. HIDE DEF S
  <2>. QED BY <1>1, <1>2, MaxBelow
<1>. QED BY <1>1, <1>2, <1>3 DEF Newest

\* The steps that only look at the queue, or forget copies (gxr_ram_hazard,
\* gxr_hook_hazard, the draw token), keep the invariant.
LEMMA LookInv ==
    ASSUME IInv,
           \/ EndRead \/ Token
           \/ \E t \in Textures : Read(t) \/ HookWrite(t) \/ GuestWrite(t)
    PROVE  IInv'
<1>. USE QueueAssumption
<1>1. UNCHANGED <<ring, presented, todo, floor, gate, arena, image, lastCopy, mid, screens>>
  BY DEF EndRead, Token, Read, HookWrite, GuestWrite, ring, shared, worker, producer
<1>2. pending' \subseteq pending
  BY DEF EndRead, Token, Read, HookWrite, GuestWrite, producer, Forget
<1>3. reading' \subseteq Cells /\ cpuOwns' \subseteq Cells
  BY DEF EndRead, Token, Read, HookWrite, GuestWrite, producer, guest, IInv, TypeOK
<1>4. lastWriter' \in [Cells -> Nat \cup {Nothing}]
  BY DEF EndRead, Token, Read, HookWrite, GuestWrite, guest, IInv, TypeOK, Nothing
<1>5. TypeOK'
  BY <1>1, <1>2, <1>3, <1>4 DEF IInv, TypeOK, ring
<1>6. Numbered'
  BY <1>1, <1>2 DEF IInv, Numbered, ring
<1>7. Asked'
  BY <1>1 DEF IInv, Asked, ring
<1>8. Slots' /\ Fences' /\ Exits' /\ Passed'
  BY <1>1, RingUnchanged
<1>. QED BY <1>5, <1>6, <1>7, <1>8 DEF IInv

\* A drain finds every worker at the end of the queue, so its floor is right.
LEMMA DrainFloor ==
    ASSUME IInv, NEW cond \in BOOLEAN, DrainIf(cond)
    PROVE  /\ floor' \in Nat /\ gate' \in BOOLEAN
           /\ \A w \in Workers : floor' <= ran[w]
BY DEF IInv, TypeOK, Numbered, DrainIf, Quiescent

\* drain() keeps the invariant.
LEMMA DrainInv ==
    ASSUME IInv, Drain
    PROVE  IInv'
<1>. USE QueueAssumption
<1>1. UNCHANGED <<ring, presented, todo, image, lastCopy, mid, reading, lastWriter, screens>>
  BY DEF Drain, ring, shared, worker
<1>2. /\ floor' \in Nat /\ gate' \in BOOLEAN
      /\ \A w \in Workers : floor' <= ran[w]
  BY DrainFloor DEF Drain
<1>3. pending' = {} /\ arena' = 0 /\ cpuOwns' = Cells
  BY DEF Drain, PendingAfter, ArenaAfter
<1>4. TypeOK'
  BY <1>1, <1>2, <1>3 DEF IInv, TypeOK, ring
<1>5. Numbered'
  BY <1>1, <1>2, <1>3 DEF IInv, Numbered, ring
<1>6. Asked'
  BY <1>1 DEF IInv, Asked, ring
<1>7. Slots' /\ Fences' /\ Exits' /\ Passed'
  BY <1>1, RingUnchanged
<1>. QED BY <1>4, <1>5, <1>6, <1>7 DEF IInv

-----------------------------------------------------------------------------
(* The handlers that leave commands to publish.                            *)

\* A blank order is an order.
LEMMA BlankOrder == Blank \in Order
BY DEF Blank, Order, Reach

\* gxr_draw_inner keeps the invariant: its orders ask for a fence past every
\* image they sample, and its vertex blocks fit the arena it found.
LEMMA DrawInv ==
    ASSUME IInv, NEW texs \in DrawSets, Draw(texs)
    PROVE  IInv'
<1>. USE QueueAssumption
<1>. DEFINE copies == IF mid THEN 2 ELSE 1
            drains == gate \/ ArenaFull(arena, copies)
            list   == PendingAfter(drains)
            base   == ArenaAfter(drains)
            hits   == {t \in texs : ImageHit(list, t)}
            images == {image[t] : t \in hits}
            Sampling(e) == [Blank EXCEPT !.efb = e - 1, !.images = images,
                                         !.block = base + e - 1, !.want = ImageFence(images)]
<1>1. /\ DrainIf(drains)
      /\ image' = [t \in Textures |-> IF t \in texs \ hits THEN Nothing ELSE image[t]]
      /\ todo' = [e \in 1 .. copies |-> Sampling(e)]
      /\ reading' = UNION (texs \ hits)
      /\ arena' = base + copies
      /\ pending' = list
      /\ UNCHANGED <<ring, presented, lastCopy, mid, cpuOwns, lastWriter, screens>>
  BY DEF Draw, ring, shared, worker, guest
<1>2. copies \in {1, 2} /\ drains \in BOOLEAN /\ list \in SUBSET pending
  BY DEF IInv, TypeOK, PendingAfter, ArenaFull
<1>3. base \in Nat /\ base + copies <= ArenaBlocks
  BY <1>2 DEF IInv, TypeOK, ArenaAfter, ArenaFull
<1>4. \A t \in hits : image[t] \in Nat /\ image[t] < published
  BY DEF IInv, TypeOK, Numbered, ImageHit, Nothing
<1>5. images \subseteq Nat /\ \A c \in images : c < published
  BY <1>4
<1>6. ImageFence(images) \in Nat /\ \A c \in images : c < ImageFence(images)
  <2>. DEFINE S == images \cup {Nothing}
  <2>1. S \subseteq Nat \cup {Nothing} /\ S # {} /\ published \in Nat
    BY <1>5 DEF IInv, TypeOK
  <2>2. \A x \in S : x < published
    BY <1>5, <2>1 DEF Nothing
  <2>3. Max(S) \in S /\ \A x \in S : x <= Max(S)
    <3>. HIDE DEF S, images
    <3>. QED BY <2>1, <2>2, MaxBelow
  <2>4. Max(S) \in Nat \cup {Nothing} /\ ImageFence(images) = Max(S) + 1
    BY <2>1, <2>3 DEF ImageFence
  <2>5. \A c \in images : c \in Nat /\ c <= Max(S)
    BY <1>5, <2>3
  <2>. HIDE DEF images, S
  <2>. QED BY <2>4, <2>5 DEF Nothing
<1>7. \A e \in 1 .. copies : Sampling(e) \in Order
  <2>. HIDE DEF images, base, copies
  <2>. SUFFICES ASSUME NEW e \in 1 .. copies PROVE Sampling(e) \in Order
    OBVIOUS
  <2>1. e - 1 \in {0, 1} /\ base + e - 1 \in Nat
    BY <1>2, <1>3
  <2>. QED BY <1>5, <1>6, <2>1, BlankOrder DEF Order
<1>8. todo' \in Seq(Order)
  <2>. HIDE DEF Sampling, copies
  <2>. QED BY <1>1, <1>2, <1>7
<1>9. TypeOK'
  <2>1. reading' \subseteq Cells
    BY <1>1
  <2>2. image' \in [Textures -> Nat \cup {Nothing}]
    BY <1>1 DEF IInv, TypeOK
  <2>3. floor' \in Nat /\ gate' \in BOOLEAN
    <3>. HIDE DEF drains
    <3>. QED BY <1>1, <1>2, DrainFloor
  <2>. HIDE DEF drains, list, base, hits, images, copies, Sampling
  <2>4. arena' \in 0 .. ArenaBlocks
    BY <1>1, <1>2, <1>3
  <2>5. pending' \subseteq [dest : SUBSET Cells, cmd : Nat]
    BY <1>1, <1>2 DEF IInv, TypeOK
  <2>6. UNCHANGED <<ring, presented, lastCopy, mid, cpuOwns, lastWriter, screens>>
    BY <1>1
  <2>. QED BY <1>8, <2>1, <2>2, <2>3, <2>4, <2>5, <2>6 DEF IInv, TypeOK, ring
<1>10. Numbered'
  <2>1. \A w \in Workers : floor' <= ran[w]
    <3>. HIDE DEF drains
    <3>. QED BY <1>1, <1>2, DrainFloor
  <2>2. \A t \in Textures : image'[t] < published
    <3>1. published \in Nat /\ \A t \in Textures : image[t] < published
      BY DEF IInv, TypeOK, Numbered
    <3>2. \A t \in Textures : image'[t] = Nothing \/ image'[t] = image[t]
      BY <1>1
    <3>. QED BY <3>1, <3>2 DEF Nothing
  <2>. HIDE DEF drains, list, base, hits, images, copies
  <2>. QED BY <1>1, <1>2, <2>1, <2>2 DEF IInv, Numbered, ring
<1>11. Asked'
  <2>1. \A e \in 1 .. copies : /\ todo'[e].kind = "draw"
                               /\ todo'[e].images = images
                               /\ todo'[e].want = ImageFence(images)
    <3>. HIDE DEF images, base, copies
    <3>. QED BY <1>1 DEF Blank
  <2>2. DOMAIN todo' = 1 .. copies /\ published' = published
    BY <1>1 DEF ring
  <2>. HIDE DEF images, copies
  <2>. QED BY <1>5, <1>6, <2>1, <2>2 DEF Asked
<1>12. Slots' /\ Fences' /\ Exits' /\ Passed'
  BY <1>1, RingUnchanged
<1>. QED BY <1>9, <1>10, <1>11, <1>12 DEF IInv

\* What enqueue_copy builds: orders of the right type, asking for the fences
\* their rows need.
AskedOf(o) == /\ o.kind = "copy" /\ o.reach = "all" => o.entry = "all"
              /\ o.kind = "copy" /\ o.reach = "near" => o.entry \in {"near", "all"}
              /\ o.kind = "copy" /\ o.screen => o.entry = "all"
              /\ o.images = {}
CopyOrder == {o \in Order : AskedOf(o)}

\* Sequences of one and two elements.
LEMMA ShortSeqs ==
    ASSUME NEW S, NEW a \in S, NEW b \in S
    PROVE  /\ <<a>> \in Seq(S) /\ <<a>> # <<>>
           /\ <<a, b>> \in Seq(S) /\ <<a, b>> # <<>>
OBVIOUS

LEMMA CopyTodoOrders ==
    ASSUME IInv, NEW sh \in CopyShapes, NEW list \in SUBSET pending
    PROVE  CopyTodo(sh, list) \in Seq(CopyOrder)
<1>. USE QueueAssumption
<1>. DEFINE real == [Blank EXCEPT !.kind = "copy", !.reach = sh.reach, !.screen = sh.screen,
                              !.fused = sh.clears /\ sh.reach = "own",
                              !.dest = sh.dest, !.packed = sh.packed,
                              !.want = OverlapFence(list, sh.dest), !.entry = EntryFence(sh)]
            between == [real EXCEPT !.efb = 1, !.want = 0, !.entry = "all"]
            clear(efb) == [Blank EXCEPT !.kind = "clear", !.efb = efb]
            again == IF ~mid THEN <<>>
                     ELSE IF sh.screen THEN CopyPair(sh, 1, between)
                     ELSE IF sh.clears THEN <<[Blank EXCEPT !.kind = "clear", !.efb = 1]>>
                     ELSE <<>>
            whole == CopyPair(sh, 0, real) \o again
<1>1. OverlapFence(list, sh.dest) \in Nat
  BY NewestKnown DEF OverlapFence, Nothing
<1>2. /\ sh.reach \in Reach /\ sh.screen \in BOOLEAN /\ sh.clears \in BOOLEAN
      /\ sh.dest \subseteq Cells /\ sh.packed \in BOOLEAN
  BY DEF CopyShape
<1>3. real \in CopyOrder
  <2>1. EntryFence(sh) \in {"want", "near", "all"}
    BY DEF EntryFence
  <2>2. real \in Order
    <3>1. Blank \in Order
      BY DEF Blank, Order, Reach
    <3>2. (sh.clears /\ sh.reach = "own") \in BOOLEAN /\ "copy" \in {"draw", "copy", "clear"}
      BY <1>2
    <3>3. real = [Blank EXCEPT !.kind = "copy", !.reach = sh.reach, !.screen = sh.screen,
                              !.fused = sh.clears /\ sh.reach = "own",
                              !.dest = sh.dest, !.packed = sh.packed,
                              !.want = OverlapFence(list, sh.dest), !.entry = EntryFence(sh)]
      OBVIOUS
    <3> HIDE DEF real
    <3>. QED BY <1>1, <1>2, <2>1, <3>1, <3>2, <3>3, ZenonT(60) DEF Order
  <2>3. AskedOf(real)
    BY <1>2 DEF AskedOf, Blank, EntryFence, Reach
  <2>. QED BY <2>2, <2>3 DEF CopyOrder
<1>4. between \in CopyOrder
  <2>0. real \in Order
    BY <1>3 DEF CopyOrder
  <2>1. between \in Order
    <3> HIDE DEF real
    <3>1. between = [real EXCEPT !.efb = 1, !.want = 0, !.entry = "all"]
      OBVIOUS
    <3>2. /\ 1 \in {0, 1} /\ 0 \in Nat /\ "all" \in {"want", "near", "all"}
      OBVIOUS
    <3> HIDE DEF between
    <3>. QED BY <2>0, <3>1, <3>2, ZenonT(60) DEF Order
  <2>2. AskedOf(between)
    BY DEF AskedOf, Blank
  <2>. QED BY <2>1, <2>2 DEF CopyOrder
<1>5. clear(0) \in CopyOrder /\ clear(1) \in CopyOrder
  BY DEF Blank, Order, CopyOrder, AskedOf, Reach
<1>6. \A first \in CopyOrder : \A efb \in {0, 1} :
         CopyPair(sh, efb, first) \in Seq(CopyOrder) /\ CopyPair(sh, efb, first) # <<>>
  <2>. SUFFICES ASSUME NEW first \in CopyOrder, NEW efb \in {0, 1}
                PROVE  CopyPair(sh, efb, first) \in Seq(CopyOrder) /\ CopyPair(sh, efb, first) # <<>>
    BY Zenon
  <2>1. CopyPair(sh, efb, first) = <<first, clear(efb)>> \/ CopyPair(sh, efb, first) = <<first>>
    BY DEF CopyPair
  <2>2. clear(efb) \in CopyOrder
    BY <1>5
  <2>. HIDE DEF clear, again, whole, real, between, CopyOrder
  <2>. QED BY <2>1, <2>2, ShortSeqs, Zenon
<1>7. again \in Seq(CopyOrder)
  <2>. HIDE DEF real, between
  <2>. QED BY <1>4, <1>5, <1>6
<1>8. whole \in Seq(CopyOrder) /\ Len(whole) \in 1 .. Len(whole)
  <2>1. CopyPair(sh, 0, real) \in Seq(CopyOrder) /\ CopyPair(sh, 0, real) # <<>>
    <3>. HIDE DEF real
    <3>. QED BY <1>3, <1>6
  <2>. HIDE DEF again, real
  <2>. QED BY <1>7, <2>1, ConcatProperties, EmptySeq
<1>9. CopyTodo(sh, list) = [whole EXCEPT ![Len(whole)].ends = sh.screen]
  BY DEF CopyTodo
<1>. HIDE DEF whole
<1>10. [whole[Len(whole)] EXCEPT !.ends = sh.screen] \in CopyOrder
  <2>1. whole[Len(whole)] \in CopyOrder
    BY <1>8, ElementOfSeq
  <2>. QED BY <1>2, <2>1 DEF CopyOrder, Order, AskedOf
<1>. QED BY <1>8, <1>9, <1>10, ExceptSeq

\* enqueue_copy keeps the invariant.
LEMMA CopyInv ==
    ASSUME IInv, NEW sh \in CopyShapes, Copy(sh)
    PROVE  IInv'
<1>. USE QueueAssumption
<1>. DEFINE drains == gate \/ (sh.dest # {} /\ CopyListFull(pending))
            list   == PendingAfter(drains)
<1>1. /\ DrainIf(drains)
      /\ pending' = list
      /\ arena' = ArenaAfter(drains)
      /\ todo' = CopyTodo(sh, list)
      /\ UNCHANGED <<ring, presented, image, lastCopy, mid, reading, cpuOwns, lastWriter, screens>>
  BY DEF Copy, ring, shared, worker, guest
<1>2. drains \in BOOLEAN /\ list \in SUBSET pending /\ arena' \in 0 .. ArenaBlocks
  BY <1>1 DEF IInv, TypeOK, PendingAfter, ArenaAfter, CopyListFull
<1>. HIDE DEF drains, list
<1>3. todo' \in Seq(CopyOrder)
  BY <1>1, <1>2, CopyTodoOrders
<1>4. /\ floor' \in Nat /\ gate' \in BOOLEAN
      /\ \A w \in Workers : floor' <= ran[w]
  BY <1>1, <1>2, DrainFloor
<1>5. todo' \in Seq(Order)
  BY <1>3, SeqMonotonic DEF CopyOrder
<1>6. TypeOK'
  BY <1>1, <1>2, <1>4, <1>5 DEF IInv, TypeOK, ring
<1>7. Numbered'
  BY <1>1, <1>2, <1>4 DEF IInv, Numbered, ring
<1>8. Asked'
  <2>1. \A i \in DOMAIN todo' : todo'[i] \in CopyOrder
    BY <1>3, LenProperties, ElementOfSeq
  <2>. QED BY <2>1 DEF Asked, CopyOrder, AskedOf
<1>9. Slots' /\ Fences' /\ Exits' /\ Passed'
  BY <1>1, RingUnchanged
<1>. QED BY <1>6, <1>7, <1>8, <1>9 DEF IInv

-----------------------------------------------------------------------------
(* Publish.                                                                *)

\* claim_slot and publish keep the invariant: the new command's slot held no
\* command a worker has still to run, and its fences are what was asked.
LEMMA PublishInv ==
    ASSUME IInv, Publish
    PROVE  IInv'
<1>. USE QueueAssumption
<1>. DEFINE n == published
            o == Head(todo)
            new == Built(o, n)
<1>1. /\ todo # <<>> /\ SlotClaimed
      /\ floor' = IF ClaimWaits THEN LowestCount ELSE floor
      /\ queue' = [queue EXCEPT ![n % QueueCap] = new]
      /\ published' = n + 1
      /\ fenceAfter' = ExitAll(o, n) /\ fenceNear' = ExitNear(o, n)
      /\ pending' = IF ToMemory(o) THEN pending \cup {[dest |-> o.dest, cmd |-> n]} ELSE pending
      /\ image' = IF ToMemory(o) /\ o.packed /\ o.dest \in Textures
                  THEN [image EXCEPT ![o.dest] = n] ELSE image
      /\ lastCopy' = IF o.kind = "copy" /\ o.efb = 0 THEN n ELSE lastCopy
      /\ gate' = (gate \/ o.ends)
      /\ mid' \in IF o.ends THEN MidModes ELSE {mid}
      /\ todo' = Tail(todo)
      /\ reading' = {}
      /\ cpuOwns' = cpuOwns \ o.dest
      /\ lastWriter' = [c \in Cells |-> IF c \in o.dest THEN n ELSE lastWriter[c]]
      /\ UNCHANGED <<ran, presented, pc, at, arena, screens>>
  BY DEF Publish, worker
<1>2. /\ n \in Nat /\ o \in Order /\ todo' \in Seq(Order)
      /\ Len(todo) \in Nat \ {0} /\ todo' = Tail(todo)
  BY <1>1, HeadTailProperties, EmptySeq DEF IInv, TypeOK
<1>3. /\ o.kind = "copy" /\ o.reach = "all" => o.entry = "all"
      /\ o.kind = "copy" /\ o.reach = "near" => o.entry \in {"near", "all"}
      /\ \A c \in o.images : c < o.want /\ c < n
  <2>1. 1 \in DOMAIN todo /\ o = todo[1]
    BY <1>2 DEF IInv, TypeOK
  <2>. QED BY <2>1 DEF IInv, Asked
<1>4. n % QueueCap \in 0 .. QueueCap - 1
  BY <1>2, Division
<1>5. /\ new.seq = n /\ new.kind = o.kind /\ new.reach = o.reach /\ new.images = o.images
      /\ new.fence = FenceOf(EntryWant(o, n), fenceAfter, n)
      /\ new.near = NearOf(EntryNear(o, n), fenceNear, n, new.fence)
      /\ EntryWant(o, n) \in Nat /\ EntryNear(o, n) \in Nat
      /\ fenceAfter \in Nat /\ fenceNear \in Nat
  BY <1>2 DEF Built, EntryWant, EntryNear, Order, IInv, TypeOK
<1>6. new.fence \in 0 .. n /\ new.near \in 0 .. n
  BY <1>2, <1>5 DEF FenceOf, NearOf, Least, Greatest
<1>7. new \in Command
  BY <1>2, <1>6 DEF Built, Command, Order
<1>. HIDE DEF new
<1>8. /\ \A w \in Workers : floor' <= ran[w] /\ n - ran[w] < QueueCap
      /\ floor' \in Nat
  <2>1. /\ \A w \in Workers : floor <= ran[w] /\ ran[w] \in Nat
        /\ floor \in Nat /\ QueueCap \in Nat
    BY DEF IInv, Numbered, TypeOK
  <2>2. CASE ~ClaimWaits
    <3>1. n - floor < QueueCap
      BY <1>2, <2>1, <2>2 DEF ClaimWaits
    <3>2. floor' = floor
      BY <1>1, <2>2
    <3>. QED BY <1>2, <2>1, <3>1, <3>2
  <2>3. CASE ClaimWaits
    <3>. DEFINE S == {ran[w] : w \in Workers}
    <3>1. S \subseteq Nat /\ S # {}
      <4>1. 1 \in Workers
        BY DEF Workers
      <4>. QED BY <2>1, <4>1
    <3>2. Min(S) \in S /\ \A x \in S : Min(S) <= x
      <4>. HIDE DEF S
      <4>. QED BY <3>1, MinOfNaturals
    <3>3. floor' = Min(S)
      BY <1>1, <2>3 DEF LowestCount
    <3>4. \A w \in Workers : ran[w] > n - QueueCap
      BY <1>1, <2>3 DEF SlotClaimed, SlotFree
    <3>5. \A w \in Workers : floor' <= ran[w]
      BY <3>2, <3>3
    <3>6. floor' \in Nat
      BY <3>1, <3>2, <3>3
    <3>. QED BY <1>2, <2>1, <3>4, <3>5, <3>6
  <2>. QED BY <2>2, <2>3
<1>9. TypeOK'
  <2>1. queue' \in [0 .. QueueCap - 1 -> Command]
    BY <1>1, <1>4, <1>7 DEF IInv, TypeOK
  <2>2. fenceAfter' \in Nat /\ fenceNear' \in Nat /\ published' \in Nat
    BY <1>1, <1>2 DEF ExitAll, ExitNear
  <2>3. pending' \subseteq [dest : SUBSET Cells, cmd : Nat]
    BY <1>1, <1>2 DEF IInv, TypeOK, Order
  <2>4. image' \in [Textures -> Nat \cup {Nothing}] /\ lastCopy' \in Nat \cup {Nothing}
    BY <1>1, <1>2 DEF IInv, TypeOK
  <2>5. gate' \in BOOLEAN /\ mid' \in BOOLEAN
    BY <1>1, <1>2 DEF IInv, TypeOK, Order
  <2>6. reading' \subseteq Cells /\ cpuOwns' \subseteq Cells
    BY <1>1 DEF IInv, TypeOK
  <2>7. lastWriter' \in [Cells -> Nat \cup {Nothing}]
    BY <1>1, <1>2 DEF IInv, TypeOK
  <2>8. UNCHANGED <<ran, presented, pc, at, arena, screens>>
    BY <1>1
  <2>. HIDE DEF o, n
  <2>. QED BY <1>2, <1>8, <2>1, <2>2, <2>3, <2>4, <2>5, <2>6, <2>7, <2>8 DEF IInv, TypeOK
<1>10. Numbered'
  <2>1. \A w \in Workers : /\ ran[w] \in Nat /\ ran[w] <= n
                           /\ pc[w] # "idle" => ran[w] < n
    BY DEF IInv, Numbered, TypeOK
  <2>2. \A w \in Workers : /\ floor' <= ran'[w]
                           /\ ran'[w] <= published'
                           /\ published' - ran'[w] <= QueueCap
                           /\ pc'[w] # "idle" => ran'[w] < published'
    BY <1>1, <1>2, <1>8, <2>1
  <2>3. \A t \in Textures : image'[t] < published'
    <3>1. \A t \in Textures : image[t] \in Int /\ image[t] < n
      BY DEF IInv, Numbered, TypeOK, Nothing
    <3>2. \A t \in Textures : image'[t] = n \/ image'[t] = image[t]
      BY <1>1 DEF IInv, TypeOK
    <3>. QED BY <1>1, <1>2, <3>1, <3>2
  <2>4. \A p \in pending' : p.cmd < published'
    <3>1. \A p \in pending : p.cmd \in Nat /\ p.cmd < n
      BY DEF IInv, Numbered, TypeOK
    <3>2. \A p \in pending' : p \in pending \/ p.cmd = n
      BY <1>1
    <3>. QED BY <1>1, <1>2, <3>1, <3>2
  <2>5. lastCopy' < published'
    <3>1. lastCopy \in Int /\ lastCopy < n
      BY DEF IInv, Numbered, TypeOK, Nothing
    <3>. QED BY <1>1, <1>2, <3>1
  <2>. QED BY <2>2, <2>3, <2>4, <2>5 DEF Numbered
\* The ring after the step: the new command, and the rest where they were.
<1>11. /\ Recent' \subseteq Recent \cup {n}
       /\ queue'[n % QueueCap] = new
       /\ \A c \in Recent' : c # n => c \in Recent /\ queue'[c % QueueCap] = Of(c)
  <2>1. \A c \in Recent' : c \in 0 .. n /\ n + 1 - c <= QueueCap
    BY <1>1, <1>2 DEF Recent
  <2>2. \A c \in Recent' : c # n => c \in Recent
    BY <1>2, <2>1 DEF Recent
  <2>3. \A c \in Recent' : c # n => c % QueueCap # n % QueueCap
    BY <1>2, <2>1, SlotsDiffer
  <2>4. queue \in [0 .. QueueCap - 1 -> Command]
    BY DEF IInv, TypeOK
  <2>5. queue'[n % QueueCap] = new
    BY <1>1, <1>4, <2>4
  <2>6. \A c \in Recent' : c # n => queue'[c % QueueCap] = Of(c)
    <3>. TAKE c \in Recent'
    <3>. HAVE c # n
    <3>1. c % QueueCap \in 0 .. QueueCap - 1
      BY <2>1, Division
    <3>. QED BY <1>1, <2>3, <2>4, <3>1 DEF Of
  <2>. QED BY <2>2, <2>5, <2>6
<1>12. Slots'
  BY <1>5, <1>11 DEF IInv, Slots, Of
<1>13. Asked'
  <2>1. \A i \in DOMAIN todo' : i + 1 \in DOMAIN todo /\ todo'[i] = todo[i + 1]
    BY <1>2 DEF IInv, TypeOK
  <2>2. \A i \in DOMAIN todo : \A c \in todo[i].images : c \in Nat /\ c < n
    <3>1. \A i \in DOMAIN todo : todo[i] \in Order
      BY ElementOfSeq, LenProperties DEF IInv, TypeOK
    <3>. QED BY <3>1 DEF IInv, Asked, Order
  <2>. QED BY <1>1, <1>2, <2>1, <2>2 DEF IInv, Asked
<1>14. /\ \A i \in new.images : i < new.fence
       /\ new.kind = "copy" /\ new.reach = "all" => new.fence = n
       /\ new.kind = "copy" /\ new.reach = "near" => new.fence = n \/ new.near = n
  <2>1. \A i \in new.images : i < new.fence
    <3>1. CASE o.entry = "all"
      <4>1. new.fence = n
        BY <1>2, <1>5, <3>1 DEF EntryWant, FenceOf, Least, Greatest
      <4>. QED BY <1>3, <1>5, <4>1
    <3>2. CASE o.entry # "all"
      <4>1. \A i \in o.images : i \in Nat /\ i < o.want /\ i < n
        BY <1>2, <1>3 DEF Order
      <4>2. new.fence = FenceOf(o.want, fenceAfter, n) /\ o.want \in Nat
        BY <1>5, <3>2 DEF EntryWant
      <4>. QED BY <1>2, <1>5, <4>1, <4>2 DEF FenceOf, Least, Greatest
    <3>. QED BY <3>1, <3>2
  <2>2. o.entry = "all" => new.fence = n
    BY <1>2, <1>5 DEF EntryWant, FenceOf, Least, Greatest
  <2>3. o.entry = "near" => new.fence = n \/ new.near = n
    BY <1>2, <1>5, <1>6 DEF EntryNear, NearOf, Least, Greatest
  <2>. QED BY <1>3, <1>5, <2>1, <2>2, <2>3
<1>15. Fences'
  BY <1>2, <1>6, <1>11, <1>14 DEF IInv, Fences, Of
<1>16. Exits'
  <2>. SUFFICES ASSUME NEW c \in Recent'
       PROVE /\ queue'[c % QueueCap].kind = "copy" /\ queue'[c % QueueCap].reach = "all" =>
                    IF c + 1 = published' THEN fenceAfter' = c + 1
                    ELSE queue'[(c + 1) % QueueCap].fence = c + 1
             /\ queue'[c % QueueCap].kind = "copy" /\ queue'[c % QueueCap].reach = "near" =>
                    IF c + 1 = published' THEN fenceNear' = c + 1
                    ELSE \/ queue'[(c + 1) % QueueCap].fence = c + 1
                         \/ queue'[(c + 1) % QueueCap].near = c + 1
    BY DEF Exits, Of
  <2>0. c \in 0 .. n /\ n + 1 - c <= QueueCap
    BY <1>1, <1>2 DEF Recent
  <2>1. CASE c = n
    <3>1. c + 1 = published' /\ queue'[c % QueueCap] = new
      BY <1>1, <1>11, <2>1
    <3>2. /\ o.kind = "copy" /\ o.reach = "all" => fenceAfter' = n + 1
          /\ o.kind = "copy" /\ o.reach = "near" => fenceNear' = n + 1
      BY <1>1 DEF ExitAll, ExitNear
    <3>. QED BY <1>5, <2>1, <3>1, <3>2
  <2>2. CASE c = n - 1
    <3>1. c \in Recent /\ queue'[c % QueueCap] = Of(c) /\ c + 1 = n /\ c + 1 # published'
      BY <1>1, <1>2, <1>11, <2>0, <2>2
    <3>2. queue'[(c + 1) % QueueCap] = new
      BY <1>11, <3>1
    <3>3. Of(c).kind = "copy" /\ Of(c).reach = "all" => fenceAfter = n
      BY <3>1 DEF IInv, Exits
    <3>4. Of(c).kind = "copy" /\ Of(c).reach = "near" => fenceNear = n
      BY <3>1 DEF IInv, Exits
    <3>5. fenceAfter = n => new.fence = n
      BY <1>2, <1>5 DEF FenceOf, Least, Greatest
    <3>6. fenceNear = n => new.fence = n \/ new.near = n
      BY <1>2, <1>5, <1>6 DEF NearOf, Least, Greatest
    <3>. QED BY <3>1, <3>2, <3>3, <3>4, <3>5, <3>6
  <2>3. CASE c < n - 1
    <3>0. c \in Nat /\ c # n /\ c + 1 # n /\ c + 1 # n + 1
      BY <1>2, <2>0, <2>3
    <3>1. c \in Recent /\ queue'[c % QueueCap] = Of(c) /\ c + 1 # published'
      BY <1>1, <1>11, <3>0
    <3>3. c + 1 \in 0 .. n /\ n + 1 - (c + 1) <= QueueCap
      BY <1>2, <2>0, <2>3
    <3>4. c + 1 \in Recent'
      BY <1>1, <1>2, <3>3 DEF Recent
    <3>2. queue'[(c + 1) % QueueCap] = Of(c + 1)
      BY <1>11, <3>0, <3>4
    <3>. QED BY <3>0, <3>1, <3>2 DEF IInv, Exits
  <2>. QED BY <1>2, <2>0, <2>1, <2>2, <2>3
<1>17. Passed'
  <2>1. \A w \in Workers, d \in Recent' : Past(w, d)' => d # n /\ d \in Recent /\ Past(w, d)
    <3>1. \A w \in Workers : /\ ran[w] \in Nat /\ ran[w] <= n
                             /\ pc[w] # "idle" => ran[w] < n
      BY DEF IInv, Numbered, TypeOK
    <3>. QED BY <1>1, <1>2, <1>11, <3>1 DEF Past
  <2>2. \A w \in Workers, j \in Workers, d \in Recent' :
            d # n => FenceFor(w, j, queue'[d % QueueCap]) = FenceFor(w, j, Of(d))
    BY <1>11
  <2>3. \A w \in Workers : pc[w] = "fence" => Slot(w)' = Slot(w)
    <3>. TAKE w \in Workers
    <3>. HAVE pc[w] = "fence"
    <3>1. ran[w] \in Nat /\ ran[w] < n /\ n - ran[w] < QueueCap /\ ran' = ran
      BY <1>1, <1>8 DEF IInv, Numbered, TypeOK
    <3>2. ran[w] \in Recent' /\ ran[w] # n
      BY <1>1, <1>2, <3>1 DEF Recent
    <3>3. queue'[ran[w] % QueueCap] = Of(ran[w])
      BY <1>11, <3>2
    <3>. QED BY <3>1, <3>3 DEF Of, Slot
  <2>. QED BY <1>1, <2>1, <2>2, <2>3 DEF IInv, Passed, FenceFor, Of
<1>. QED BY <1>9, <1>10, <1>12, <1>13, <1>15, <1>16, <1>17 DEF IInv

-----------------------------------------------------------------------------
(* The workers' steps.                                                     *)

\* While the invariant holds a worker's next command is in its slot.
LEMMA NextCommand ==
    ASSUME IInv, NEW w \in Workers, ran[w] < published
    PROVE  /\ ran[w] \in Recent /\ Slot(w) = Of(ran[w])
           /\ Slot(w).seq = ran[w] /\ Slot(w) \in Command
<1>. USE QueueAssumption
<1>1. ran[w] \in Nat /\ published \in Nat /\ published - ran[w] <= QueueCap
  BY DEF IInv, TypeOK, Numbered
<1>2. ran[w] \in Recent
  BY <1>1 DEF Recent
<1>3. ran[w] % QueueCap \in 0 .. QueueCap - 1
  BY <1>1, Division
<1>. QED BY <1>1, <1>2, <1>3 DEF IInv, TypeOK, Slots, Of, Slot

\* A worker's step leaves the ring as it is.
LEMMA RingKept ==
    ASSUME IInv, UNCHANGED <<published, queue, fenceAfter, fenceNear>>
    PROVE  Slots' /\ Fences' /\ Exits' /\ Recent' = Recent
BY DEF IInv, Slots, Fences, Exits, Recent, Of

\* A worker picking up its next command keeps the invariant.
LEMMA TakeInv ==
    ASSUME IInv, NEW w \in Workers, Take(w)
    PROVE  IInv'
<1>. USE QueueAssumption
<1>. DEFINE fenced == N > 1 /\ (Slot(w).fence > 0 \/ Slot(w).near > 0)
<1>1. /\ pc[w] = "idle" /\ ran[w] < published
      /\ Slot(w).seq = ran[w] /\ ran[w] \in Recent /\ Slot(w) = Of(ran[w])
      /\ Slot(w) \in Command
  BY NextCommand DEF Take
<1>2. /\ pc' = [pc EXCEPT ![w] = IF fenced THEN "fence" ELSE "run"]
      /\ at' = at
      /\ UNCHANGED <<published, ran, queue, presented, todo, floor, fenceAfter, fenceNear, gate,
                     arena, pending, image, lastCopy, mid, reading, cpuOwns, lastWriter, screens>>
  BY <1>1 DEF Take, producer, guest
<1>3. TypeOK'
  BY <1>2 DEF IInv, TypeOK
<1>4. Numbered'
  BY <1>1, <1>2 DEF IInv, TypeOK, Numbered
<1>5. Asked'
  BY <1>2 DEF IInv, Asked
<1>6. Slots' /\ Fences' /\ Exits' /\ Recent' = Recent
  BY <1>2, RingKept
<1>7. Passed'
  <2>1. ASSUME ~fenced
        PROVE  \A j \in Workers \ {w} : ran[j] >= FenceFor(w, j, Slot(w))
    <3>1. CASE N = 1
      BY <3>1 DEF Workers
    <3>2. CASE N # 1
      <4>1. Slot(w).fence = 0 /\ Slot(w).near = 0
        BY <1>1, <2>1, <3>2 DEF Command
      <4>2. \A j \in Workers : FenceFor(w, j, Slot(w)) = 0
        BY <4>1 DEF FenceFor
      <4>. QED BY <4>2 DEF IInv, TypeOK
    <3>. QED BY <3>1, <3>2
  <2>2. \A v \in Workers, d \in Recent : Past(v, d)' =>
            Past(v, d) \/ (v = w /\ d = ran[w] /\ ~fenced)
    BY <1>1, <1>2 DEF Past, IInv, TypeOK
  <2>3. \A v \in Workers, j \in Workers, d \in Recent :
            FenceFor(v, j, Of(d))' = FenceFor(v, j, Of(d))
    BY <1>2 DEF FenceFor, Of
  <2>4. \A v \in Workers, d \in Recent : Past(v, d)' =>
            \A j \in Workers \ {v} : ran[j] >= FenceFor(v, j, Of(d))
    BY <1>1, <2>1, <2>2 DEF IInv, Passed
  <2>5. at[w] = 1
    BY <1>1 DEF IInv, Passed
  <2>6. \A v \in Workers : /\ pc'[v] # "fence" => at'[v] = 1
                           /\ pc'[v] = "fence" => \A j \in Workers \ {v} : j < at'[v] =>
                                  ran[j] >= FenceFor(v, j, Slot(v))
    <3>. TAKE v \in Workers
    <3>1. CASE v = w
      BY <1>2, <2>5, <3>1 DEF Workers
    <3>2. CASE v # w
      BY <1>2, <3>2 DEF IInv, TypeOK, Passed
    <3>. QED BY <3>1, <3>2
  <2>7. \A v \in Workers : Slot(v)' = Slot(v)
    BY <1>2 DEF Slot
  <2>. QED BY <1>2, <1>6, <2>3, <2>4, <2>6, <2>7 DEF Passed, FenceFor, Of, Slot
<1>. QED BY <1>3, <1>4, <1>5, <1>6, <1>7 DEF IInv

\* A worker passing one of the others in fence_wait keeps the invariant.
LEMMA FencePassInv ==
    ASSUME IInv, NEW w \in Workers, FencePass(w)
    PROVE  IInv'
<1>. USE QueueAssumption
<1>1. /\ pc[w] = "fence" /\ ran[w] < published
      /\ ran[w] \in Recent /\ Slot(w) = Of(ran[w])
  BY NextCommand DEF FencePass, IInv, Numbered
<1>2. /\ at[w] # w => ran[at[w]] >= FenceFor(w, at[w], Slot(w))
      /\ UNCHANGED <<published, ran, queue, presented, todo, floor, fenceAfter, fenceNear, gate,
                     arena, pending, image, lastCopy, mid, reading, cpuOwns, lastWriter, screens>>
      /\ IF at[w] = N
         THEN pc' = [pc EXCEPT ![w] = "run"] /\ at' = [at EXCEPT ![w] = 1]
         ELSE at' = [at EXCEPT ![w] = @ + 1] /\ pc' = pc
  BY DEF FencePass, shared, producer, guest
<1>3. TypeOK'
  <2>1. pc' \in [Workers -> {"idle", "fence", "run"}]
    BY <1>2 DEF IInv, TypeOK
  <2>2. at' \in [Workers -> Workers]
    <3>1. at \in [Workers -> Workers] /\ at[w] \in 1 .. N
      BY DEF IInv, TypeOK, Workers
    <3>2. at[w] = N => 1 \in Workers
      BY <3>1 DEF Workers
    <3>3. at[w] # N => at[w] + 1 \in Workers
      BY <3>1 DEF Workers
    <3>4. CASE at[w] = N
      BY <1>2, <3>1, <3>2, <3>4
    <3>5. CASE at[w] # N
      BY <1>2, <3>1, <3>3, <3>5
    <3>. QED BY <3>4, <3>5
  <2>. QED BY <1>2, <2>1, <2>2 DEF IInv, TypeOK
<1>4. Numbered'
  BY <1>1, <1>2 DEF IInv, TypeOK, Numbered
<1>5. Asked'
  BY <1>2 DEF IInv, Asked
<1>6. Slots' /\ Fences' /\ Exits' /\ Recent' = Recent
  BY <1>2, RingKept
<1>7. Passed'
  \* The workers w has looked at so far, this one included.
  <2>1. \A j \in Workers \ {w} : j <= at[w] => ran[j] >= FenceFor(w, j, Slot(w))
    <3>. TAKE j \in Workers \ {w}
    <3>. HAVE j <= at[w]
    <3>1. at[w] \in 1 .. N /\ j \in 1 .. N
      BY DEF IInv, TypeOK, Workers
    <3>2. CASE j < at[w]
      BY <1>1, <3>2 DEF IInv, Passed
    <3>3. CASE j = at[w]
      BY <1>2, <3>3
    <3>. QED BY <3>1, <3>2, <3>3
  <2>2. \A v \in Workers, d \in Recent : Past(v, d)' =>
            Past(v, d) \/ (v = w /\ d = ran[w] /\ at[w] = N)
    BY <1>1, <1>2 DEF Past, IInv, TypeOK
  <2>3. at[w] = N => \A j \in Workers \ {w} : ran[j] >= FenceFor(w, j, Slot(w))
    BY <2>1 DEF Workers
  <2>4. \A v \in Workers, d \in Recent : Past(v, d)' =>
            \A j \in Workers \ {v} : ran[j] >= FenceFor(v, j, Of(d))
    BY <1>1, <2>2, <2>3 DEF IInv, Passed
  <2>5. \A v \in Workers : /\ pc'[v] # "fence" => at'[v] = 1
                           /\ pc'[v] = "fence" => \A j \in Workers \ {v} : j < at'[v] =>
                                  ran[j] >= FenceFor(v, j, Slot(v))
    <3>. TAKE v \in Workers
    <3>1. CASE v = w /\ at[w] = N
      BY <1>2, <3>1 DEF IInv, TypeOK
    <3>2. CASE v = w /\ at[w] # N
      <4>1. pc'[v] = "fence" /\ at'[v] = at[w] + 1
        BY <1>1, <1>2, <3>2 DEF IInv, TypeOK
      <4>2. \A j \in Workers : j < at[w] + 1 => j <= at[w]
        BY DEF IInv, TypeOK, Workers
      <4>. QED BY <2>1, <3>2, <4>1, <4>2
    <3>3. CASE v # w
      BY <1>2, <3>3 DEF IInv, TypeOK, Passed
    <3>. QED BY <3>1, <3>2, <3>3
  <2>. QED BY <1>2, <1>6, <2>4, <2>5 DEF Passed, FenceFor, Of, Slot
<1>. QED BY <1>3, <1>4, <1>5, <1>6, <1>7 DEF IInv

\* A worker finishing a command, raising its own count, keeps the invariant.
LEMMA FinishInv ==
    ASSUME IInv, NEW w \in Workers, Finish(w)
    PROVE  IInv'
<1>. USE QueueAssumption
<1>1. pc[w] = "run" /\ ran[w] < published
  BY DEF Finish, IInv, Numbered
<1>2. /\ pc' = [pc EXCEPT ![w] = "idle"]
      /\ ran' = [ran EXCEPT ![w] = @ + 1]
      /\ UNCHANGED <<published, queue, at, todo, floor, fenceAfter, fenceNear, gate,
                     arena, pending, image, lastCopy, mid, reading, cpuOwns, lastWriter>>
      /\ presented' \in Nat /\ screens' \in [Workers -> Nat]
  <2>1. presented' = presented \/ presented' = presented + 1
    BY DEF Finish
  <2>2. screens' = screens \/ screens' = [screens EXCEPT ![w] = @ + 1]
    BY DEF Finish
  <2>3. presented' \in Nat
    BY <2>1 DEF IInv, TypeOK
  <2>4. screens' \in [Workers -> Nat]
    <3>1. screens \in [Workers -> Nat]
      BY DEF IInv, TypeOK
    <3>2. screens[w] + 1 \in Nat
      BY <3>1
    <3>. QED BY <2>2, <3>1, <3>2
  <2>. QED BY <2>3, <2>4 DEF Finish, producer, guest
<1>3. TypeOK'
  <2>1. pc' \in [Workers -> {"idle", "fence", "run"}] /\ ran' \in [Workers -> Nat]
    BY <1>2 DEF IInv, TypeOK
  <2>. QED BY <1>2, <2>1 DEF IInv, TypeOK
\* Counts only rise, one at a time.
<1>4. \A v \in Workers : /\ ran[v] \in Nat
                         /\ ran'[v] = IF v = w THEN ran[v] + 1 ELSE ran[v]
                         /\ pc'[v] = IF v = w THEN "idle" ELSE pc[v]
  BY <1>2 DEF IInv, TypeOK
<1>5. Numbered'
  <2>1. published \in Nat /\ floor \in Nat
    BY DEF IInv, TypeOK
  <2>2. \A v \in Workers : /\ floor <= ran'[v]
                           /\ ran'[v] <= published
                           /\ published - ran'[v] <= QueueCap
                           /\ pc'[v] # "idle" => ran'[v] < published
    BY <1>1, <1>4, <2>1 DEF IInv, Numbered
  <2>. QED BY <1>2, <2>2 DEF IInv, Numbered
<1>6. Asked'
  BY <1>2 DEF IInv, Asked
<1>7. Slots' /\ Fences' /\ Exits' /\ Recent' = Recent
  BY <1>2, RingKept
<1>8. Passed'
  <2>1. \A v \in Workers, d \in Recent : d \in Nat /\ (Past(v, d)' => Past(v, d))
    BY <1>1, <1>4 DEF Past, Recent
  <2>2. \A v \in Workers, j \in Workers, d \in Recent :
            Past(v, d)' /\ j # v => ran'[j] >= FenceFor(v, j, Of(d))
    <3>. TAKE v \in Workers, j \in Workers, d \in Recent
    <3>. HAVE Past(v, d)' /\ j # v
    <3>1. ran[j] >= FenceFor(v, j, Of(d))
      BY <2>1 DEF IInv, Passed
    <3>2. FenceFor(v, j, Of(d)) \in Nat
      <4>1. Of(d) \in Command
        BY <2>1, Division DEF Of, IInv, TypeOK
      <4>. QED BY <4>1 DEF FenceFor, Command
    <3>. QED BY <1>4, <3>1, <3>2
  <2>3. \A v \in Workers : pc'[v] # "fence" => at'[v] = 1
    BY <1>1, <1>2, <1>4 DEF IInv, Passed
  <2>4. \A v \in Workers : pc'[v] = "fence" =>
            /\ Slot(v)' = Slot(v)
            /\ \A j \in Workers \ {v} : j < at'[v] => ran'[j] >= FenceFor(v, j, Slot(v))
    <3>. TAKE v \in Workers
    <3>. HAVE pc'[v] = "fence"
    <3>1. v # w /\ pc[v] = "fence" /\ ran'[v] = ran[v] /\ ran[v] < published
      BY <1>4 DEF IInv, Numbered
    <3>2. Slot(v)' = Slot(v)
      BY <1>2, <3>1 DEF Slot
    <3>3. \A j \in Workers \ {v} : j < at[v] => ran[j] >= FenceFor(v, j, Slot(v))
      BY <3>1 DEF IInv, Passed
    <3>4. \A j \in Workers : FenceFor(v, j, Slot(v)) \in Nat
      BY <3>1, NextCommand DEF FenceFor, Command
    <3>. QED BY <1>2, <1>4, <3>2, <3>3, <3>4
  <2>. QED BY <1>2, <1>7, <2>2, <2>3, <2>4 DEF Passed, FenceFor, Of
<1>. QED BY <1>3, <1>5, <1>6, <1>7, <1>8 DEF IInv

-----------------------------------------------------------------------------
(* The theorems.                                                           *)

\* Every step of the producer and of every worker keeps the invariant.
LEMMA StepInv == IInv /\ [Next]_vars => IInv'
<1>. SUFFICES ASSUME IInv, [Next]_vars PROVE IInv'
  OBVIOUS
<1>1. ASSUME NEW texs \in DrawSets, Draw(texs) PROVE IInv'
  BY <1>1, DrawInv
<1>2. ASSUME NEW sh \in CopyShapes, Copy(sh) PROVE IInv'
  BY <1>2, CopyInv
<1>3. CASE Publish
  BY <1>3, PublishInv
<1>4. CASE \E t \in Textures : Read(t) \/ HookWrite(t) \/ GuestWrite(t)
  BY <1>4, LookInv
<1>5. CASE EndRead \/ Token
  BY <1>5, LookInv
<1>6. CASE Drain
  BY <1>6, DrainInv
<1>7. ASSUME NEW w \in Workers, Take(w) PROVE IInv'
  BY <1>7, TakeInv
<1>8. ASSUME NEW w \in Workers, FencePass(w) PROVE IInv'
  BY <1>8, FencePassInv
<1>9. ASSUME NEW w \in Workers, Finish(w) PROVE IInv'
  BY <1>9, FinishInv
<1>10. CASE UNCHANGED vars
  <2>1. UNCHANGED ring /\ UNCHANGED <<presented, todo, floor, gate, arena, pending, image, lastCopy,
                         mid, reading, cpuOwns, lastWriter, screens>>
    BY <1>10 DEF vars, shared, worker, producer, guest, ring
  <2>2. Slots' /\ Fences' /\ Exits' /\ Passed'
    BY <2>1, RingUnchanged
  <2>3. TypeOK' /\ Numbered' /\ Asked'
    BY <2>1 DEF ring, IInv, TypeOK, Numbered, Asked
  <2>. QED BY <2>2, <2>3 DEF IInv
<1>. QED
  BY <1>1, <1>2, <1>3, <1>4, <1>5, <1>6, <1>7, <1>8, <1>9, <1>10
  DEF Next, ProducerStep, WorkerStep

\* The invariant the theorems rest on: numbering, slots and fences of the ring
\* (claim_slot, publish, fence_wait) at every step of every behaviour.
THEOREM Invariance == Spec => []IInv
<1>1. Init => IInv
  BY InitInv
<1>. QED BY <1>1, StepInv, PTL DEF Spec

\* Every variable of the queue keeps its type; the arena never overflows.
THEOREM TypeCorrect == Spec => []TypeOK
<1>1. IInv => TypeOK
  BY DEF IInv
<1>. QED BY <1>1, Invariance, PTL

\* No slot is built over while a worker has its command to run: what claim_slot
\* proves with its cached floor, for any ring and any number of workers.
THEOREM NoCommandLostHolds == Spec => []NoCommandLost
<1>1. IInv => NoCommandLost
  BY NextCommand DEF NoCommandLost
<1>. QED BY <1>1, Invariance, PTL

\* FenceFor asks at least the command's fence, and of a neighbour its near one.
LEMMA FenceForAtLeast ==
    ASSUME NEW w \in Workers, NEW j \in Workers, NEW d \in Command
    PROVE  /\ FenceFor(w, j, d) >= d.fence
           /\ j \in {Prev(w), Next1(w)} => FenceFor(w, j, d) >= d.near
BY DEF FenceFor, Command

\* A command in the ring is a command.
LEMMA RecentCommand ==
    ASSUME IInv, NEW c \in Recent
    PROVE  c \in Nat /\ Of(c) \in Command
<1>1. c \in Nat
  BY DEF Recent
<1>2. c % QueueCap \in 0 .. QueueCap - 1
  BY <1>1, Division, QueueAssumption
<1>. QED BY <1>1, <1>2 DEF Of, IInv, TypeOK

\* Whose rows a copy reads: another worker's, and a neighbour's if it is "near".
LEMMA RowOwner ==
    ASSUME NEW w \in Workers, NEW reach \in Reach, NEW j \in RowOwners(w, reach)
    PROVE  /\ j \in Workers /\ j # w
           /\ reach \in {"near", "all"}
           /\ reach = "near" => j \in {Prev(w), Next1(w)}
<1>1. Prev(w) \in Workers /\ Next1(w) \in Workers
  BY QueueAssumption DEF Prev, Next1, Workers
<1>. QED BY <1>1 DEF RowOwners, Reach

\* The first half of RowsFinal, the entry fence: who owns a row the copy reads
\* has finished everything before the copy.
LEMMA EntryHolds ==
    ASSUME IInv, NEW w \in Workers, pc[w] = "run", Slot(w).kind = "copy",
           NEW j \in RowOwners(w, Slot(w).reach)
    PROVE  ran[j] >= ran[w]
<1>. DEFINE d == Slot(w)
<1>1. ran[w] < published /\ ran[w] \in Recent /\ d = Of(ran[w])
  BY NextCommand DEF IInv, Numbered
<1>2. d \in Command /\ ran[w] \in Nat
  BY <1>1, RecentCommand
<1>3. j \in Workers /\ j # w /\ (d.reach = "near" => j \in {Prev(w), Next1(w)})
      /\ d.reach \in {"near", "all"} /\ ran[j] \in Nat
  BY <1>2, RowOwner DEF Command, IInv, TypeOK
<1>4. ran[j] >= FenceFor(w, j, d)
  BY <1>1, <1>3 DEF IInv, Passed, Past
<1>5. FenceFor(w, j, d) >= d.fence /\ (d.reach = "near" => FenceFor(w, j, d) >= d.near)
  BY <1>2, <1>3, FenceForAtLeast
<1>6. FenceFor(w, j, d) \in Nat /\ d.fence \in Nat /\ d.near \in Nat
  BY <1>2 DEF FenceFor, Command
<1>7. \/ d.fence = ran[w]
      \/ d.reach = "near" /\ d.near = ran[w]
  BY <1>1, <1>3 DEF IInv, Fences
<1>. HIDE DEF d
<1>. QED BY <1>2, <1>3, <1>4, <1>5, <1>6, <1>7

\* The second half, the exit fence: none of them has begun what follows it.
LEMMA ExitHolds ==
    ASSUME IInv, NEW w \in Workers, pc[w] = "run", Slot(w).kind = "copy",
           NEW j \in RowOwners(w, Slot(w).reach)
    PROVE  ~Past(j, ran[w] + 1)
<1>. DEFINE d == Slot(w)
            n == ran[w] + 1
<1>. SUFFICES ASSUME Past(j, n) PROVE FALSE
  OBVIOUS
<1>1. ran[w] < published /\ ran[w] \in Recent /\ d = Of(ran[w])
  BY NextCommand DEF IInv, Numbered
<1>2. d \in Command /\ ran[w] \in Nat
  BY <1>1, RecentCommand
<1>3. j \in Workers /\ j # w /\ (d.reach = "near" => j \in {Prev(w), Next1(w)})
      /\ d.reach \in {"near", "all"} /\ ran[j] \in Nat
  BY <1>2, RowOwner DEF Command, IInv, TypeOK
<1>4. n < published /\ n \in Nat
  <2>1. ran[j] <= published /\ (pc[j] # "idle" => ran[j] < published) /\ published \in Nat
    BY <1>3 DEF IInv, Numbered, TypeOK
  <2>. QED BY <1>2, <1>3, <2>1 DEF Past
<1>5. n \in Recent
  <2>1. published - ran[w] <= QueueCap /\ published \in Nat /\ QueueCap \in Nat
    BY QueueAssumption DEF IInv, TypeOK, Numbered
  <2>. QED BY <1>2, <1>4, <2>1 DEF Recent
<1>6. Of(n) \in Command
  BY <1>5, RecentCommand
<1>7. ran[w] >= FenceFor(j, w, Of(n))
  BY <1>3, <1>5 DEF IInv, Passed
<1>8. d.reach = "near" => w \in {Prev(j), Next1(j)}
  BY <1>3, NeighboursMutual, QueueAssumption
<1>9. FenceFor(j, w, Of(n)) >= Of(n).fence
      /\ (d.reach = "near" => FenceFor(j, w, Of(n)) >= Of(n).near)
  BY <1>3, <1>6, <1>8, FenceForAtLeast
<1>10. Of(n).fence = n \/ (d.reach = "near" /\ Of(n).near = n)
  BY <1>1, <1>3, <1>4 DEF IInv, Exits
<1>11. FenceFor(j, w, Of(n)) \in Nat
  BY <1>6 DEF FenceFor, Command
<1>. HIDE DEF d
<1>. QED BY <1>2, <1>7, <1>9, <1>10, <1>11

\* A copy that reads rows of other workers (a filtered or half-scale EFB copy)
\* reads them when everything before it is in them and nothing after it, for
\* every number of workers and every mix of copies.
THEOREM RowsFinalHolds == Spec => []RowsFinal
<1>1. IInv => RowsFinal
  <2>. SUFFICES ASSUME IInv, NEW w \in Workers, pc[w] = "run", Slot(w).kind = "copy",
                       NEW j \in RowOwners(w, Slot(w).reach)
                PROVE  /\ ran[j] >= ran[w]
                       /\ ran[j] <= ran[w] + 1
                       /\ ran[j] = ran[w] + 1 => pc[j] # "run"
    BY DEF RowsFinal
  <2>1. j \in Workers /\ ran[j] \in Nat /\ ran[w] \in Nat
    <3>1. Slot(w).reach \in Reach
      BY NextCommand DEF IInv, Numbered, Command
    <3>. QED BY <3>1, RowOwner DEF IInv, TypeOK
  <2>2. ran[j] >= ran[w]
    BY EntryHolds
  <2>3. ~(ran[j] > ran[w] + 1) /\ ~(ran[j] = ran[w] + 1 /\ pc[j] = "run")
    BY ExitHolds DEF Past
  <2>. QED BY <2>1, <2>2, <2>3
<1>. QED BY <1>1, Invariance, PTL

\* A draw that samples a copy's image runs only when every worker has made its
\* rows of that image (tex_draw_fence), for every texture and every copy.
THEOREM ImagesCompleteHolds == Spec => []ImagesComplete
<1>1. IInv => ImagesComplete
  <2>. SUFFICES ASSUME IInv, NEW w \in Workers, pc[w] = "run", NEW c \in Slot(w).images,
                       NEW j \in Workers
                PROVE  ran[j] > c
    BY DEF ImagesComplete, Finished
  <2>. DEFINE d == Slot(w)
  <2>1. ran[w] < published /\ ran[w] \in Recent /\ d = Of(ran[w])
    BY NextCommand DEF IInv, Numbered
  <2>2. d \in Command /\ ran[w] \in Nat /\ ran[j] \in Nat
    BY <2>1, RecentCommand DEF IInv, TypeOK
  <2>3. c < d.fence /\ d.fence <= ran[w] /\ c \in Nat /\ d.fence \in Nat
    BY <2>1, <2>2 DEF IInv, Fences, Command
  <2>4. CASE j = w
    BY <2>2, <2>3, <2>4
  <2>5. CASE j # w
    <3>1. ran[j] >= FenceFor(w, j, d)
      BY <2>1, <2>5 DEF IInv, Passed, Past
    <3>2. FenceFor(w, j, d) >= d.fence /\ FenceFor(w, j, d) \in Nat
      BY <2>2, FenceForAtLeast DEF FenceFor, Command
    <3>. QED BY <2>2, <2>3, <3>1, <3>2
  <2>. QED BY <2>4, <2>5
<1>. QED BY <1>1, Invariance, PTL

\* The slot claim leaves room for the new command before the slowest worker.
LEMMA ClaimRoom ==
    ASSUME IInv, Publish, NEW w \in Workers
    PROVE  published - ran[w] < QueueCap
<1>1. /\ published \in Nat /\ floor \in Nat /\ ran[w] \in Nat /\ QueueCap \in Nat
      /\ floor <= ran[w]
  BY QueueAssumption DEF IInv, TypeOK, Numbered
<1>2. CASE ClaimWaits
  <2>1. ran[w] > published - QueueCap
    BY <1>2 DEF Publish, SlotClaimed, SlotFree
  <2>. QED BY <1>1, <2>1
<1>3. CASE ~ClaimWaits
  BY <1>1, <1>3 DEF ClaimWaits
<1>. QED BY <1>2, <1>3

\* The pool, with its ring of slots, its fences and the producer's cached floor,
\* is a CommandRing: every worker runs every command, in order, none skipped
\* (claim_slot, fence_wait, worker).
THEOREM ImplementsRingHolds == Spec => ImplementsRing
<1>. DEFINE busy == [w \in Workers |-> pc[w] = "run"]
<1>1. Init => Ring!Init
  BY DEF Init, Ring!Init
<1>2. IInv /\ [Next]_vars => [Ring!Next]_Ring!vars
  <2>. SUFFICES ASSUME IInv, [Next]_vars PROVE [Ring!Next]_Ring!vars
    OBVIOUS
  <2>1. pc \in [Workers -> {"idle", "fence", "run"}]
    BY DEF IInv, TypeOK
  <2>2. CASE UNCHANGED <<published, ran, pc>>
    BY <2>2 DEF Ring!vars
  <2>3. CASE Publish
    <3>1. UNCHANGED <<ran, pc>> /\ published' = published + 1
      BY <2>3 DEF Publish, worker
    <3>2. Ring!Publish
      BY <2>3, <3>1, ClaimRoom DEF Ring!Publish
    <3>. QED BY <3>2 DEF Ring!Next
  <2>4. ASSUME NEW w \in Workers, Take(w) PROVE [Ring!Next]_Ring!vars
    <3>1. /\ pc[w] = "idle" /\ ran[w] < published
          /\ UNCHANGED <<published, ran>>
          /\ \/ pc' = [pc EXCEPT ![w] = "fence"]
             \/ pc' = [pc EXCEPT ![w] = "run"]
      BY <2>4, NextCommand DEF Take
    <3>2. CASE pc' = [pc EXCEPT ![w] = "fence"]
      <4>1. busy' = busy
        BY <2>1, <3>1, <3>2
      <4>. QED BY <3>1, <4>1 DEF Ring!vars
    <3>3. CASE pc' = [pc EXCEPT ![w] = "run"]
      <4>1. ~busy[w] /\ busy' = [busy EXCEPT ![w] = TRUE]
        BY <2>1, <3>1, <3>3
      <4>2. Ring!Start(w)
        BY <3>1, <4>1 DEF Ring!Start
      <4>. QED BY <4>2 DEF Ring!Next
    <3>. QED BY <3>1, <3>2, <3>3
  <2>5. ASSUME NEW w \in Workers, FencePass(w) PROVE [Ring!Next]_Ring!vars
    <3>1. /\ pc[w] = "fence" /\ ran[w] < published
          /\ UNCHANGED <<published, ran>>
          /\ pc' = pc \/ pc' = [pc EXCEPT ![w] = "run"]
      BY <2>5 DEF FencePass, shared, IInv, Numbered
    <3>2. CASE pc' = pc
      BY <3>1, <3>2 DEF Ring!vars
    <3>3. CASE pc' = [pc EXCEPT ![w] = "run"]
      <4>1. ~busy[w] /\ busy' = [busy EXCEPT ![w] = TRUE]
        BY <2>1, <3>1, <3>3
      <4>2. Ring!Start(w)
        BY <3>1, <4>1 DEF Ring!Start
      <4>. QED BY <4>2 DEF Ring!Next
    <3>. QED BY <3>1, <3>2, <3>3
  <2>6. ASSUME NEW w \in Workers, Finish(w) PROVE [Ring!Next]_Ring!vars
    <3>1. /\ pc[w] = "run" /\ pc' = [pc EXCEPT ![w] = "idle"]
          /\ ran' = [ran EXCEPT ![w] = @ + 1] /\ published' = published
      BY <2>6 DEF Finish
    <3>2. busy[w] /\ busy' = [busy EXCEPT ![w] = FALSE]
      BY <2>1, <3>1
    <3>3. Ring!Finish(w)
      BY <3>1, <3>2 DEF Ring!Finish
    <3>. QED BY <3>3 DEF Ring!Next
  <2>7. ASSUME NEW texs \in DrawSets, Draw(texs) PROVE UNCHANGED <<published, ran, pc>>
    BY <2>7 DEF Draw, shared, worker
  <2>8. ASSUME NEW sh \in CopyShapes, Copy(sh) PROVE UNCHANGED <<published, ran, pc>>
    BY <2>8 DEF Copy, shared, worker
  <2>9. CASE \/ EndRead \/ Token \/ Drain
             \/ \E t \in Textures : Read(t) \/ HookWrite(t) \/ GuestWrite(t)
    <3>1. UNCHANGED <<published, ran, pc>>
      BY <2>9 DEF EndRead, Token, Drain, Read, HookWrite, GuestWrite, shared, worker
    <3>. QED BY <2>2, <3>1
  <2>10. CASE UNCHANGED vars
    BY <2>2, <2>10 DEF vars, shared, worker
  <2>. QED
    BY <2>2, <2>3, <2>4, <2>5, <2>6, <2>7, <2>8, <2>9, <2>10 DEF Next, ProducerStep, WorkerStep
<1>. QED BY <1>1, <1>2, Invariance, PTL DEF Spec, ImplementsRing, Ring!Spec

-----------------------------------------------------------------------------
(* What the producer knows of the commands still to be finished.           *)

\* The second invariant at the start: nothing is queued.
LEMMA InitMem == Init => MInv
<1>. SUFFICES ASSUME Init PROVE MInv
  OBVIOUS
<1>1. Unfinished = {} /\ Recent = {} /\ todo = <<>> /\ pending = {}
  BY DEF Init, Unfinished, Recent
<1>2. Blocks /\ Listed /\ Settled /\ Overlaps
  BY <1>1 DEF Blocks, Listed, Settled, Overlaps
<1>. QED BY <1>2 DEF MInv

\* A live command is one the ring still holds.
LEMMA UnfinishedRecent ==
    ASSUME IInv
    PROVE  /\ Unfinished \subseteq Recent
           /\ \A c \in Unfinished : c \in Nat /\ c < published /\ Of(c) \in Command
<1>. SUFFICES ASSUME NEW c \in Unfinished
              PROVE  c \in Recent /\ c \in Nat /\ c < published
  BY RecentCommand
<1>1. PICK w \in Workers : ran[w] <= c
  BY DEF Unfinished, Live
<1>2. /\ ran[w] \in Nat /\ published \in Nat /\ published - ran[w] <= QueueCap
      /\ QueueCap \in Nat
  BY QueueAssumption DEF IInv, TypeOK, Numbered
<1>3. c \in 0 .. published - 1
  BY DEF Unfinished
<1>. QED BY <1>1, <1>2, <1>3 DEF Recent

\* Whoever has waited for a command has waited for every older one.
LEMMA WaitedFor ==
    ASSUME IInv, NEW m \in Nat, Finished(m), NEW c \in Unfinished
    PROVE  m < c
<1>1. PICK w \in Workers : ran[w] <= c
  BY DEF Unfinished, Live
<1>2. ran[w] > m /\ ran[w] \in Nat /\ c \in Nat
  BY UnfinishedRecent DEF Finished, IInv, TypeOK
<1>. QED BY <1>1, <1>2

\* A drain leaves nothing live.
LEMMA DrainedNone ==
    ASSUME IInv, Quiescent
    PROVE  Unfinished = {}
<1>. SUFFICES ASSUME NEW c \in Unfinished PROVE FALSE
  OBVIOUS
<1>1. PICK w \in Workers : ran[w] <= c
  BY DEF Unfinished, Live
<1>. QED BY <1>1, UnfinishedRecent DEF Quiescent, IInv, TypeOK

\* The newest of the list's copies over some cells is not older than any.
LEMMA NewestOver ==
    ASSUME IInv, NEW list \in SUBSET pending, NEW cells, NEW p \in list,
           p.dest \cap cells # {}
    PROVE  p.cmd <= Newest(list, cells) /\ Newest(list, cells) \in Nat
<1>. DEFINE S == Over(list, cells) \cup {Nothing}
<1>1. S \subseteq Nat \cup {Nothing} /\ S # {} /\ published \in Nat
  BY DEF IInv, TypeOK, Over
<1>2. \A x \in S : x < published
  BY DEF IInv, TypeOK, Numbered, Over, Nothing
<1>3. p.cmd \in S /\ p.cmd \in Nat
  BY DEF Over, IInv, TypeOK
<1>4. Max(S) \in S /\ \A x \in S : x <= Max(S)
  <2>. HIDE DEF S
  <2>. QED BY <1>1, <1>2, MaxBelow
<1>5. Newest(list, cells) = Max(S)
  BY DEF Newest
<1>6. p.cmd <= Max(S) /\ Max(S) \in Nat \cup {Nothing}
  <2>. HIDE DEF S
  <2>. QED BY <1>1, <1>3, <1>4
<1>7. ASSUME NEW m \in Nat \cup {Nothing}, p.cmd <= m PROVE m \in Nat
  BY <1>3, <1>7 DEF Nothing
<1>. HIDE DEF S
<1>. QED BY <1>5, <1>6, <1>7

\* After a wait for the newest listed copy over some cells no live command
\* writes them: what Read, HookWrite and an upload of a texture rest on.
LEMMA WaitSettles ==
    ASSUME IInv, MInv, NEW cells, WaitRan(Newest(pending, cells)), NEW c \in Unfinished
    PROVE  Of(c).dest \cap cells = {}
<1>. SUFFICES ASSUME Of(c).dest \cap cells # {} PROVE FALSE
  OBVIOUS
<1>1. PICK p \in pending : p.cmd = c /\ p.dest = Of(c).dest
  BY DEF MInv, Listed
<1>2. c <= Newest(pending, cells) /\ Newest(pending, cells) \in Nat
  BY <1>1, NewestOver
<1>3. Newest(pending, cells) < c
  BY <1>2, WaitedFor DEF WaitRan
<1>. QED BY <1>2, <1>3, UnfinishedRecent

\* Counts only rise: a step that leaves the queue as it is makes nothing live.
LEMMA Fewer ==
    ASSUME IInv, IInv', UNCHANGED <<published, queue>>,
           \A w \in Workers : ran[w] <= ran'[w]
    PROVE  /\ Unfinished' \subseteq Unfinished /\ Recent' = Recent
           /\ \A c \in Nat : Of(c)' = Of(c)
<1>1. ASSUME NEW c \in Unfinished' PROVE c \in Unfinished
  <2>1. c \in 0 .. published - 1
    BY DEF Unfinished
  <2>2. PICK w \in Workers : ran'[w] <= c
    BY DEF Unfinished, Live
  <2>3. ran[w] \in Nat /\ ran'[w] \in Nat /\ ran[w] <= ran'[w] /\ c \in Int
    BY <2>1 DEF IInv, TypeOK
  <2>4. ran[w] <= c
    BY <2>2, <2>3
  <2>5. published \in Nat
    BY DEF IInv, TypeOK
  <2>. QED BY <2>1, <2>4, <2>5 DEF Unfinished, Live
<1>. QED BY <1>1 DEF Recent, Of

\* A step that only lets workers finish commands keeps what the lists say.
LEMMA FewerMem ==
    ASSUME IInv, IInv', MInv, \A w \in Workers : ran[w] <= ran'[w],
           UNCHANGED <<published, queue, todo, arena, pending, image, lastCopy, reading,
                       cpuOwns, lastWriter>>
    PROVE  MInv'
<1>1. /\ Unfinished' \subseteq Unfinished /\ Recent' = Recent
      /\ \A c \in Nat : Of(c)' = Of(c)
  BY Fewer
<1>2. \A c \in Unfinished' : c \in Unfinished /\ c \in Nat /\ Of(c)' = Of(c)
  BY <1>1, UnfinishedRecent
<1>3. \A c \in Recent : Of(c)' = Of(c)
  BY <1>1 DEF Recent
<1>4. Blocks'
  BY <1>2 DEF MInv, Blocks
<1>5. Listed'
  BY <1>2 DEF MInv, Listed
<1>6. Settled'
  BY <1>2 DEF MInv, Settled
<1>7. Overlaps'
  BY <1>1, <1>2, <1>3 DEF MInv, Overlaps
<1>. QED BY <1>4, <1>5, <1>6, <1>7 DEF MInv

\* A worker's step is such a step.
LEMMA WorkerMem ==
    ASSUME IInv, IInv', MInv, NEW w \in Workers, WorkerStep(w)
    PROVE  MInv'
<1>1. ran \in [Workers -> Nat]
  BY DEF IInv, TypeOK
<1>2. UNCHANGED <<published, queue, todo, arena, pending, image, lastCopy, reading,
                  cpuOwns, lastWriter>>
  BY DEF WorkerStep, Take, FencePass, Finish, shared, producer, guest
<1>3. ran' = ran \/ ran' = [ran EXCEPT ![w] = @ + 1]
  BY DEF WorkerStep, Take, FencePass, Finish, shared
<1>4. \A v \in Workers : ran[v] <= ran'[v]
  BY <1>1, <1>3
<1>. QED BY <1>2, <1>4, FewerMem

\* The producer's other steps leave the ring and its commands alone.
LEMMA SameRing ==
    ASSUME IInv, UNCHANGED ring
    PROVE  /\ Unfinished' = Unfinished /\ Recent' = Recent
           /\ \A c \in Unfinished \cup Recent : Of(c)' = Of(c)
BY DEF ring, Unfinished, Live, Recent, Of

\* gxr_ram_hazard and the end of what is read after it.
LEMMA ReadMem ==
    ASSUME IInv, MInv, EndRead \/ \E t \in Textures : Read(t)
    PROVE  MInv'
<1>1. UNCHANGED <<ring, todo, arena, pending, image, lastCopy, cpuOwns, lastWriter>>
  BY DEF EndRead, Read, ring, shared, worker, guest
<1>2. /\ Unfinished' = Unfinished /\ Recent' = Recent
      /\ \A c \in Unfinished \cup Recent : Of(c)' = Of(c)
  BY <1>1, SameRing
<1>3. Settled'
  <2>1. CASE EndRead
    BY <2>1 DEF EndRead, Settled
  <2>2. ASSUME NEW t \in Textures, Read(t) PROVE Settled'
    <3>1. \A c \in Unfinished : Of(c).dest \cap t = {}
      BY <2>2, WaitSettles DEF Read
    <3>. QED BY <1>2, <2>2, <3>1 DEF Settled, Read
  <2>. QED BY <2>1, <2>2
<1>4. Blocks' /\ Listed' /\ Overlaps'
  BY <1>1, <1>2 DEF MInv, Blocks, Listed, Overlaps, ring
<1>. QED BY <1>3, <1>4 DEF MInv

\* gxr_hook_hazard and the write after it: only copies that are over are
\* forgotten, and no cell written is left in the list.
LEMMA HookMem ==
    ASSUME IInv, MInv, NEW cells \in Textures, HookWrite(cells)
    PROVE  MInv'
<1>1. /\ UNCHANGED <<ring, todo, arena, image, lastCopy, cpuOwns>>
      /\ todo = <<>> /\ WaitRan(Newest(pending, cells))
      /\ pending' = Forget(pending, cells) /\ reading' = cells
      /\ lastWriter' = [c \in Cells |-> IF c \in cells THEN Nothing ELSE lastWriter[c]]
  BY DEF HookWrite, Ready, ring, shared, worker
<1>2. /\ Unfinished' = Unfinished /\ Recent' = Recent
      /\ \A c \in Unfinished \cup Recent : Of(c)' = Of(c)
  BY <1>1, SameRing
<1>3. \A c \in Unfinished : Of(c).dest \cap cells = {}
  BY <1>1, WaitSettles
<1>4. \A p \in pending' : p \in pending /\ p.dest \cap cells = {} /\ p.dest \subseteq Cells
  BY <1>1 DEF Forget, IInv, TypeOK
<1>5. \A p \in pending : p.dest \cap cells = {} => p \in pending'
  BY <1>1 DEF Forget
<1>6. Blocks' /\ Overlaps'
  BY <1>1, <1>2 DEF MInv, Blocks, Overlaps
<1>7. Listed'
  BY <1>1, <1>2, <1>3, <1>5 DEF MInv, Listed
<1>8. Settled'
  BY <1>1, <1>2, <1>3 DEF Settled
<1>. QED BY <1>6, <1>7, <1>8 DEF MInv

\* The game's own write touches none of it.
LEMMA GuestWriteMem ==
    ASSUME IInv, MInv, NEW cells, GuestWrite(cells)
    PROVE  MInv'
<1>1. UNCHANGED <<published, ran, queue, todo, arena, pending, lastCopy, reading>>
  BY DEF GuestWrite, shared, producer
<1>. QED BY <1>1 DEF MInv, Blocks, Listed, Settled, Overlaps, Unfinished, Live, Recent, Of

\* A token that empties the list has waited for the last copy, and so for all.
LEMMA TokenMem ==
    ASSUME IInv, MInv, Token
    PROVE  MInv'
<1>1. /\ UNCHANGED <<ring, todo, arena, lastCopy, reading>>
      /\ todo = <<>> /\ lastCopy # Nothing
      /\ \/ pending' = {} /\ WaitRan(lastCopy)
         \/ pending' = pending
  BY DEF Token, TokenForgets, Ready, ring, shared, worker
<1>2. /\ Unfinished' = Unfinished /\ Recent' = Recent
      /\ \A c \in Unfinished \cup Recent : Of(c)' = Of(c)
  BY <1>1, SameRing
<1>3. Blocks' /\ Settled'
  BY <1>1, <1>2 DEF MInv, Blocks, Settled
<1>4. CASE pending' = {} /\ WaitRan(lastCopy)
  <2>1. lastCopy \in Nat
    BY <1>1 DEF IInv, TypeOK
  <2>2. \A c \in Unfinished : Of(c).dest = {}
    <3>. SUFFICES ASSUME NEW c \in Unfinished, Of(c).dest # {} PROVE FALSE
      OBVIOUS
    <3>1. c <= lastCopy
      BY DEF MInv, Listed
    <3>2. lastCopy < c
      BY <1>4, <2>1, WaitedFor DEF WaitRan
    <3>. QED BY <2>1, <3>1, <3>2, UnfinishedRecent
  <2>3. Listed' /\ Overlaps'
    BY <1>1, <1>2, <2>2 DEF Listed, Overlaps, MInv
  <2>. QED BY <1>3, <2>3 DEF MInv
<1>5. CASE pending' = pending
  <2>1. Listed' /\ Overlaps'
    BY <1>1, <1>2, <1>5 DEF MInv, Listed, Overlaps
  <2>. QED BY <1>3, <2>1 DEF MInv
<1>. QED BY <1>1, <1>4, <1>5

\* drain() leaves nothing live, so all may be forgotten.
LEMMA DrainMem ==
    ASSUME IInv, MInv, Drain
    PROVE  MInv'
<1>1. UNCHANGED ring /\ todo' = todo /\ todo = <<>> /\ Quiescent
  BY DEF Drain, DrainIf, Ready, ring, shared, worker
<1>2. Unfinished' = {}
  BY <1>1, SameRing, DrainedNone
<1>. QED BY <1>1, <1>2 DEF MInv, Blocks, Listed, Settled, Overlaps
\* What enqueue_copy's commands write: the copy itself alone, which is the
\* first, and which asks for a fence past every listed copy over its memory.
LEMMA CopyTodoDest ==
    ASSUME IInv, NEW sh \in CopyShapes, NEW list \in SUBSET pending
    PROVE  /\ DOMAIN CopyTodo(sh, list) \subseteq Nat \ {0}
           /\ \A i \in DOMAIN CopyTodo(sh, list) :
                 LET o == CopyTodo(sh, list)[i]
                 IN  /\ o.kind # "draw"
                     /\ o.dest # {} => /\ i = 1 /\ o.kind = "copy" /\ o.efb = 0
                                       /\ o.dest = sh.dest
                                       /\ o.want = OverlapFence(list, sh.dest)
<1>. USE QueueAssumption
<1>. DEFINE real == [Blank EXCEPT !.kind = "copy", !.reach = sh.reach, !.screen = sh.screen,
                              !.fused = sh.clears /\ sh.reach = "own",
                              !.dest = sh.dest, !.packed = sh.packed,
                              !.want = OverlapFence(list, sh.dest), !.entry = EntryFence(sh)]
            between == [real EXCEPT !.efb = 1, !.want = 0, !.entry = "all"]
            clear(efb) == [Blank EXCEPT !.kind = "clear", !.efb = efb]
            again == IF ~mid THEN <<>>
                     ELSE IF sh.screen THEN CopyPair(sh, 1, between)
                     ELSE IF sh.clears THEN <<clear(1)>>
                     ELSE <<>>
            whole == CopyPair(sh, 0, real) \o again
            Same(o) == LET e == [o EXCEPT !.ends = sh.screen]
                       IN  /\ e.kind = o.kind /\ e.dest = o.dest
                           /\ e.efb = o.efb /\ e.want = o.want
            Later(o) == o.kind # "draw" /\ o.dest = {} /\ Same(o)
            First == CopyPair(sh, 0, real)
<1>1. /\ real.kind = "copy" /\ real.efb = 0 /\ real.dest = sh.dest
      /\ real.want = OverlapFence(list, sh.dest) /\ Same(real)
  BY DEF Blank
<1>2. Later(clear(0)) /\ Later(clear(1)) /\ (sh.screen => Later(between))
  BY DEF Blank
<1>3. First = <<real, clear(0)>> \/ First = <<real>>
  BY DEF CopyPair
<1>4. \/ again = <<>> \/ again = <<clear(1)>>
      \/ sh.screen /\ again = <<between, clear(1)>>
      \/ sh.screen /\ again = <<between>>
  BY DEF CopyPair
<1>. HIDE DEF real, between, clear, again, First, Same
<1>. DEFINE S == {real, between, clear(0), clear(1)}
<1>5. First \in Seq(S) /\ again \in Seq(S)
  <2>1. real \in S /\ between \in S /\ clear(0) \in S /\ clear(1) \in S
    OBVIOUS
  <2>. HIDE DEF S
  <2>2. First \in Seq(S)
    BY <1>3, <2>1, ShortSeqs
  <2>3. again \in Seq(S)
    BY ZenonT(60), <1>4, <2>1, ShortSeqs, EmptySeq
  <2>. QED BY <2>2, <2>3
<1>6. Len(First) \in {1, 2} /\ First[1] = real /\ (Len(First) = 2 => Later(First[2]))
  BY <1>2, <1>3
<1>7. Len(again) \in {0, 1, 2} /\ \A i \in 1 .. Len(again) : Later(again[i])
  BY <1>2, <1>4
<1>8. /\ Len(whole) \in 1 .. 4 /\ DOMAIN whole = 1 .. Len(whole)
      /\ whole[1] = real
      /\ \A i \in 2 .. Len(whole) : Later(whole[i])
  <2>1. whole = First \o again
    BY DEF First
  <2>. HIDE DEF whole, Later, S
  <2>2. /\ whole \in Seq(S) /\ Len(whole) = Len(First) + Len(again)
        /\ \A i \in 1 .. Len(First) + Len(again) : whole[i] =
              IF i <= Len(First) THEN First[i] ELSE again[i - Len(First)]
    BY <1>5, <2>1, ConcatProperties
  <2>3. DOMAIN whole = 1 .. Len(whole)
    BY <2>2
  <2>. QED BY <1>6, <1>7, <2>2, <2>3
<1>9. CopyTodo(sh, list) = [whole EXCEPT ![Len(whole)].ends = sh.screen]
  BY DEF CopyTodo, real, between, clear, again
<1>. HIDE DEF whole
<1>10. /\ DOMAIN CopyTodo(sh, list) = 1 .. Len(whole)
      /\ \A i \in 1 .. Len(whole) : CopyTodo(sh, list)[i] = whole[i]
            \/ CopyTodo(sh, list)[i] = [whole[i] EXCEPT !.ends = sh.screen]
  BY <1>8, <1>9
<1>11. ASSUME NEW i \in 1 .. Len(whole)
      PROVE  LET o == CopyTodo(sh, list)[i]
             IN  /\ o.kind = whole[i].kind /\ o.dest = whole[i].dest
                 /\ o.efb = whole[i].efb /\ o.want = whole[i].want
  <2>1. Same(whole[i])
    BY <1>1, <1>8
  <2>. QED BY <1>10, <2>1 DEF Same
<1>. HIDE DEF Same
<1>. QED BY <1>1, <1>8, <1>10, <1>11

\* What is live after the drain a handler may do: nothing, or what was, with the
\* list and the arena as they were.
LEMMA AfterDrain ==
    ASSUME IInv, NEW drains \in BOOLEAN, DrainIf(drains)
    PROVE  \/ Unfinished = {} /\ PendingAfter(drains) = {}
           \/ ~drains /\ PendingAfter(drains) = pending /\ ArenaAfter(drains) = arena
BY DrainedNone DEF DrainIf, PendingAfter, ArenaAfter

\* enqueue_copy keeps the lists true: a copy to memory is ordered past every
\* listed copy over its memory.
LEMMA CopyMem ==
    ASSUME IInv, MInv, NEW sh \in CopyShapes, Copy(sh)
    PROVE  MInv'
<1>. DEFINE drains == gate \/ (sh.dest # {} /\ CopyListFull(pending))
            list   == PendingAfter(drains)
<1>1. /\ DrainIf(drains) /\ todo = <<>>
      /\ pending' = list
      /\ arena' = ArenaAfter(drains)
      /\ todo' = CopyTodo(sh, list)
      /\ UNCHANGED <<ring, lastCopy, reading>>
  BY DEF Copy, Ready, ring, shared, worker
<1>2. drains \in BOOLEAN /\ list \in SUBSET pending
  BY DEF IInv, TypeOK, PendingAfter, CopyListFull
<1>. HIDE DEF drains
<1>3. /\ Unfinished' = Unfinished /\ Recent' = Recent
      /\ \A c \in Unfinished \cup Recent : Of(c)' = Of(c)
  BY <1>1, SameRing
<1>4. Unfinished = {} \/ (list = pending /\ ArenaAfter(drains) = arena)
  BY <1>1, <1>2, AfterDrain
<1>. HIDE DEF list
<1>5. \A i \in DOMAIN todo' :
         /\ todo'[i].kind # "draw"
         /\ todo'[i].dest # {} => /\ i = 1 /\ todo'[i].kind = "copy" /\ todo'[i].efb = 0
                                  /\ todo'[i].dest = sh.dest
                                  /\ todo'[i].want = OverlapFence(list, sh.dest)
  BY <1>1, <1>2, CopyTodoDest
<1>6. Blocks'
  BY <1>1, <1>3, <1>4, <1>5 DEF MInv, Blocks
<1>7. Listed'
  BY <1>1, <1>3, <1>4, <1>5 DEF MInv, Listed
<1>8. Settled'
  BY <1>1, <1>3 DEF MInv, Settled
<1>9. ASSUME NEW i \in DOMAIN todo', NEW p \in pending', p.dest \cap todo'[i].dest # {}
      PROVE  p.cmd < todo'[i].want
  <2>1. todo'[i].dest = sh.dest /\ todo'[i].want = Newest(list, sh.dest) + 1
    BY <1>5, <1>9 DEF OverlapFence
  <2>2. p \in list /\ p.cmd \in Nat
    BY <1>1, <1>2 DEF IInv, TypeOK
  <2>3. p.cmd <= Newest(list, sh.dest) /\ Newest(list, sh.dest) \in Nat
    BY <1>2, <1>9, <2>1, <2>2, NewestOver
  <2>. QED BY <2>1, <2>2, <2>3
<1>10. Overlaps'
  BY <1>3, <1>9 DEF MInv, Overlaps
<1>. QED BY <1>6, <1>7, <1>8, <1>10 DEF MInv

\* gxr_draw_inner keeps the lists true: its blocks lie past those given out, or
\* a drain has taken all back; and what it reads of memory it has waited for.
LEMMA DrawMem ==
    ASSUME IInv, MInv, NEW texs \in DrawSets, Draw(texs)
    PROVE  MInv'
<1>. DEFINE copies == IF mid THEN 2 ELSE 1
            drains == gate \/ ArenaFull(arena, copies)
            list   == PendingAfter(drains)
            base   == ArenaAfter(drains)
            hits   == {t \in texs : ImageHit(list, t)}
            images == {image[t] : t \in hits}
<1>1. /\ DrainIf(drains) /\ todo = <<>>
      /\ \A t \in texs \ hits : WaitRan(Newest(list, t))
      /\ todo' = [e \in 1 .. copies |->
                    [Blank EXCEPT !.efb = e - 1, !.images = images, !.block = base + e - 1,
                                  !.want = ImageFence(images)]]
      /\ reading' = UNION (texs \ hits)
      /\ arena' = base + copies
      /\ pending' = list
      /\ lastCopy' = lastCopy /\ UNCHANGED ring
  BY DEF Draw, Ready, ring, shared, worker
<1>2. drains \in BOOLEAN /\ copies \in {1, 2} /\ base \in Nat /\ arena \in Nat
  BY DEF IInv, TypeOK, ArenaFull, ArenaAfter
<1>3. /\ DOMAIN todo' = 1 .. copies
      /\ \A e \in 1 .. copies : todo'[e].dest = {} /\ todo'[e].block = base + e - 1
      /\ arena' = base + copies /\ pending' = list /\ lastCopy' = lastCopy /\ UNCHANGED ring
  BY <1>1 DEF Blank
<1>. HIDE DEF copies, drains, hits, images
<1>4. /\ Unfinished' = Unfinished /\ Recent' = Recent
      /\ \A c \in Unfinished \cup Recent : Of(c)' = Of(c)
  BY <1>1, SameRing
<1>5. Unfinished = {} \/ (list = pending /\ base = arena)
  BY <1>1, <1>2, AfterDrain
<1>. HIDE DEF list, base
<1>6. Blocks'
  <2>1. \A e \in DOMAIN todo' :
           /\ todo'[e].block < arena'
           /\ \A j \in DOMAIN todo' : j # e => todo'[j].block # todo'[e].block
    BY <1>2, <1>3
  <2>2. CASE Unfinished = {}
    BY <1>4, <2>1, <2>2 DEF Blocks
  <2>3. CASE base = arena
    <3>1. \A c \in Unfinished : /\ Of(c).block \in Nat
                                /\ Of(c).kind = "draw" => Of(c).block < arena
      BY UnfinishedRecent DEF MInv, Blocks, Command
    <3>2. \A c \in Unfinished : Of(c).kind = "draw" =>
             /\ Of(c).block < arena'
             /\ \A e \in DOMAIN todo' : todo'[e].block # Of(c).block
      BY <1>2, <1>3, <2>3, <3>1
    <3>. QED BY <1>4, <2>1, <3>2 DEF MInv, Blocks
  <2>. QED BY <1>5, <2>2, <2>3
<1>7. Listed' /\ Overlaps'
  <2>1. \A i \in DOMAIN todo' : todo'[i].dest = {}
    BY <1>3
  <2>2. Listed'
    <3>1. CASE Unfinished = {}
      BY <1>4, <2>1, <3>1 DEF Listed
    <3>2. CASE list = pending
      BY <1>3, <1>4, <2>1, <3>2 DEF MInv, Listed
    <3>. QED BY <1>5, <3>1, <3>2
  <2>3. Overlaps'
    <3>1. \A c \in Unfinished, d \in Recent :
             c < d /\ (Of(c).dest \cap Of(d).dest)' # {} => c < Of(d)'.fence
      BY <1>4 DEF MInv, Overlaps
    <3>. QED BY <1>4, <2>1, <3>1 DEF Overlaps
  <2>. QED BY <2>2, <2>3
<1>8. Settled'
  <2>1. ASSUME NEW c \in Unfinished, NEW t \in texs \ hits PROVE Of(c).dest \cap t = {}
    BY <1>1, <1>5, WaitSettles
  <2>. QED BY <1>1, <1>4, <2>1 DEF Settled
<1>. QED BY <1>6, <1>7, <1>8 DEF MInv

\* What publish leaves in the ring: the new command, in a slot no live one had.
LEMMA PublishRing ==
    ASSUME IInv, IInv', Publish
    PROVE  /\ published \in Nat /\ Head(todo) \in Order /\ Head(todo) = todo[1]
           /\ \A c \in Nat : c = published => Of(c)' = Built(Head(todo), published)
           /\ Unfinished' \subseteq Unfinished \cup {published}
           /\ Recent' \subseteq Recent \cup {published}
           /\ \A c \in Unfinished : Of(c)' = Of(c)
           /\ \A c \in Recent' : c # published => Of(c)' = Of(c)
           /\ DOMAIN todo # {} /\ 1 \in DOMAIN todo
           /\ \A i \in DOMAIN todo' : /\ i + 1 \in DOMAIN todo /\ todo'[i] = todo[i + 1]
                                      /\ i \in Nat \ {0}
<1>. USE QueueAssumption
<1>. DEFINE n == published
            new == Built(Head(todo), n)
<1>1. /\ todo # <<>> /\ todo' = Tail(todo) /\ published' = n + 1 /\ ran' = ran
      /\ queue' = [queue EXCEPT ![n % QueueCap] = new]
  BY DEF Publish
<1>. HIDE DEF new
<1>2. n \in Nat /\ queue \in [0 .. QueueCap - 1 -> Command] /\ todo \in Seq(Order)
  BY DEF IInv, TypeOK
<1>3. n % QueueCap \in 0 .. QueueCap - 1
  BY <1>2, Division
<1>4. \A c \in Nat : c = n => Of(c)' = new
  BY <1>1, <1>2, <1>3 DEF Of
<1>5. ASSUME NEW c \in Nat, c < n, n - c < QueueCap PROVE Of(c)' = Of(c)
  <2>1. c % QueueCap # n % QueueCap
    BY <1>2, <1>5, SlotsDiffer
  <2>2. c % QueueCap \in 0 .. QueueCap - 1
    BY Division
  <2>. QED BY <1>1, <1>2, <2>1, <2>2 DEF Of
<1>6. ASSUME NEW c \in Unfinished PROVE Of(c)' = Of(c)
  <2>1. PICK w \in Workers : ran[w] <= c
    BY DEF Unfinished, Live
  <2>2. n - ran[w] < QueueCap /\ ran[w] \in Nat
    BY ClaimRoom DEF IInv, TypeOK
  <2>3. c \in Nat /\ c < n
    BY UnfinishedRecent
  <2>. QED BY <1>2, <1>5, <2>1, <2>2, <2>3
<1>7. ASSUME NEW c \in Unfinished' PROVE c \in Unfinished \cup {n}
  BY <1>1, <1>2 DEF Unfinished, Live
<1>8. ASSUME NEW c \in Recent', c # n PROVE c \in Recent /\ Of(c)' = Of(c)
  <2>1. c \in 0 .. n /\ n + 1 - c <= QueueCap
    BY <1>1, <1>2 DEF Recent
  <2>2. c \in Nat /\ c < n /\ n - c < QueueCap
    BY <1>2, <1>8, <2>1
  <2>. QED BY <1>2, <1>5, <2>2 DEF Recent
<1>9. /\ Head(todo) \in Order /\ Head(todo) = todo[1] /\ 1 \in DOMAIN todo
      /\ \A i \in DOMAIN todo' : /\ i + 1 \in DOMAIN todo /\ todo'[i] = todo[i + 1]
                                 /\ i \in Nat \ {0}
  BY <1>1, <1>2, HeadTailProperties
<1>. QED BY <1>2, <1>4, <1>6, <1>7, <1>8, <1>9 DEF new

\* claim_slot and publish keep the lists true: the command takes its block, its
\* place in the list and its fence with it from todo to the ring.
LEMMA PublishMem ==
    ASSUME IInv, IInv', MInv, Publish
    PROVE  MInv'
<1>. DEFINE n == published
            o == Head(todo)
            new == Built(o, n)
<1>1. /\ arena' = arena /\ reading' = {}
      /\ pending' = IF ToMemory(o) THEN pending \cup {[dest |-> o.dest, cmd |-> n]} ELSE pending
      /\ lastCopy' = IF o.kind = "copy" /\ o.efb = 0 THEN n ELSE lastCopy
  BY DEF Publish
<1>2. /\ n \in Nat /\ o \in Order /\ o = todo[1] /\ 1 \in DOMAIN todo
      /\ \A c \in Nat : c = n => Of(c)' = new
      /\ Unfinished' \subseteq Unfinished \cup {n} /\ Recent' \subseteq Recent \cup {n}
      /\ \A c \in Unfinished : Of(c)' = Of(c)
      /\ \A c \in Recent' : c # n => Of(c)' = Of(c)
      /\ \A i \in DOMAIN todo' : /\ i + 1 \in DOMAIN todo /\ todo'[i] = todo[i + 1]
                                 /\ i \in Nat \ {0}
  BY PublishRing
<1>3. /\ new.kind = o.kind /\ new.dest = o.dest /\ new.block = o.block
      /\ new.fence = FenceOf(EntryWant(o, n), fenceAfter, n)
      /\ EntryWant(o, n) = n \/ EntryWant(o, n) = o.want
      /\ fenceAfter \in Nat /\ o.want \in Nat
  BY <1>2 DEF Built, EntryWant, IInv, TypeOK, Order
<1>. HIDE DEF new, o
<1>4. \A c \in Unfinished : c \in Nat /\ c < n /\ c # n /\ Of(c)' = Of(c)
  BY <1>2, UnfinishedRecent
<1>5. \A c \in Unfinished' : c \in Nat /\ ((c \in Unfinished /\ Of(c)' = Of(c))
                                           \/ (c = n /\ Of(c)' = new))
  BY <1>2, <1>4
<1>6. /\ lastCopy \in Nat \cup {Nothing} /\ lastCopy < n
      /\ \A p \in pending : p.cmd \in Nat /\ p.cmd < n
  BY DEF IInv, TypeOK, Numbered
<1>7. Blocks'
  <2>1. o.kind = "draw" =>
           /\ o.block < arena
           /\ \A c \in Unfinished : Of(c).kind = "draw" => o.block # Of(c).block
           /\ \A i \in DOMAIN todo' : todo'[i].kind = "draw" => todo'[i].block # o.block
    BY <1>2 DEF MInv, Blocks
  <2>2. \A c \in Unfinished' : Of(c)'.kind = "draw" =>
           /\ Of(c)'.block < arena'
           /\ \A d \in Unfinished' : Of(d)'.kind = "draw" /\ d # c => Of(d)'.block # Of(c)'.block
           /\ \A i \in DOMAIN todo' : todo'[i].kind = "draw" => todo'[i].block # Of(c)'.block
    BY <1>1, <1>2, <1>3, <1>5, <2>1 DEF MInv, Blocks
  <2>3. \A i \in DOMAIN todo' : todo'[i].kind = "draw" =>
           /\ todo'[i].block < arena'
           /\ \A j \in DOMAIN todo' :
                 todo'[j].kind = "draw" /\ j # i => todo'[j].block # todo'[i].block
    <3>1. \A i, j \in DOMAIN todo' : i # j => i + 1 # j + 1
      BY <1>2
    <3>. QED BY <1>1, <1>2, <3>1 DEF MInv, Blocks
  <2>. QED BY <2>2, <2>3 DEF Blocks
<1>8. Listed'
  <2>1. \A i \in DOMAIN todo' : todo'[i].dest = {}
    <3>1. \A i \in DOMAIN todo' : i + 1 # 1
      BY <1>2
    <3>. QED BY <1>2, <3>1 DEF MInv, Listed
  <2>2. o.dest # {} => o.kind = "copy" /\ o.efb = 0
    BY <1>2 DEF MInv, Listed
  <2>3. ASSUME NEW c \in Unfinished', Of(c)'.dest # {}
        PROVE  /\ \E p \in pending' : p.cmd = c /\ p.dest = Of(c)'.dest
               /\ c <= lastCopy'
    <3>1. CASE c \in Unfinished /\ Of(c)' = Of(c)
      <4>1. (\E p \in pending : p.cmd = c /\ p.dest = Of(c).dest) /\ c <= lastCopy
        BY <2>3, <3>1 DEF MInv, Listed
      <4>2. c < n
        BY <1>4, <3>1
      <4>3. c <= lastCopy'
        BY <1>1, <1>2, <1>5, <4>1, <4>2
      <4>. QED BY <1>1, <3>1, <4>1, <4>3
    <3>2. CASE c = n /\ Of(c)' = new
      <4>1. o.dest # {} /\ ToMemory(o)
        BY <1>3, <2>2, <2>3, <3>2 DEF ToMemory
      <4>2. [dest |-> o.dest, cmd |-> n] \in pending' /\ lastCopy' = n
        BY <1>1, <2>2, <4>1
      <4>3. Of(c)'.dest = o.dest
        BY <1>3, <3>2
      <4>. QED BY <1>2, <3>2, <4>2, <4>3
    <3>. QED BY <1>5, <3>1, <3>2
  <2>. QED BY <2>1, <2>3 DEF Listed
<1>9. Settled'
  BY <1>1 DEF Settled
<1>10. Overlaps'
  <2>1. \A i \in DOMAIN todo' : todo'[i].dest = {}
    <3>1. \A i \in DOMAIN todo' : i + 1 # 1
      BY <1>2
    <3>. QED BY <1>2, <3>1 DEF MInv, Listed
  <2>2. ASSUME NEW d \in Recent', NEW c \in Unfinished', c < d,
               Of(c)'.dest \cap Of(d)'.dest # {}
        PROVE  c < Of(d)'.fence
    <3>1. CASE d # n
      <4>1. d \in Recent /\ Of(d)' = Of(d) /\ d < n
        BY <1>2, <3>1 DEF Recent
      <4>2. c \in Unfinished /\ Of(c)' = Of(c)
        BY <1>2, <1>5, <2>2, <4>1 DEF Recent
      <4>. QED BY <2>2, <4>1, <4>2 DEF MInv, Overlaps
    <3>2. CASE d = n
      <4>1. c \in Unfinished /\ Of(c)' = Of(c) /\ Of(d)' = new
        BY <1>2, <1>5, <2>2, <3>2
      <4>2. PICK p \in pending : p.cmd = c /\ p.dest = Of(c).dest
        BY <1>3, <2>2, <4>1 DEF MInv, Listed
      <4>3. c < o.want
        BY <1>2, <1>3, <2>2, <4>1, <4>2 DEF MInv, Overlaps
      <4>4. c < n /\ c \in Nat
        BY <1>4, <4>1
      <4>. QED BY <1>2, <1>3, <4>1, <4>3, <4>4 DEF FenceOf, Least, Greatest
    <3>. QED BY <3>1, <3>2
  <2>. QED BY <2>1, <2>2 DEF Overlaps
<1>. QED BY <1>7, <1>8, <1>9, <1>10 DEF MInv

\* Every step keeps the lists true.
LEMMA StepMem == IInv /\ IInv' /\ MInv /\ [Next]_vars => MInv'
<1>. SUFFICES ASSUME IInv, IInv', MInv, [Next]_vars PROVE MInv'
  OBVIOUS
<1>1. ASSUME NEW t \in Textures, Read(t) \/ HookWrite(t) \/ GuestWrite(t) PROVE MInv'
  BY <1>1, ReadMem, HookMem, GuestWriteMem
<1>2. ASSUME NEW texs \in DrawSets, Draw(texs) PROVE MInv'
  BY <1>2, DrawMem
<1>3. ASSUME NEW sh \in CopyShapes, Copy(sh) PROVE MInv'
  BY <1>3, CopyMem
<1>4. CASE Publish
  BY <1>4, PublishMem
<1>5. CASE EndRead \/ Token \/ Drain
  BY <1>5, ReadMem, TokenMem, DrainMem
<1>6. ASSUME NEW w \in Workers, WorkerStep(w) PROVE MInv'
  BY <1>6, WorkerMem
<1>7. CASE UNCHANGED vars
  <2>1. \A w \in Workers : ran[w] <= ran'[w]
    BY <1>7 DEF vars, shared, IInv, TypeOK
  <2>. QED BY <1>7, <2>1, FewerMem DEF vars, shared, producer, guest
<1>. QED BY <1>1, <1>2, <1>3, <1>4, <1>5, <1>6, <1>7 DEF Next, ProducerStep

\* What the producer's arena, its list of copies and its fences say of the
\* commands still to be finished holds at every step of every behaviour.
THEOREM ListsTrue == Spec => []MInv
<1>1. Init => MInv
  BY InitMem
<1>2. MInv /\ (IInv /\ IInv') /\ [Next]_vars => MInv'
  BY StepMem
<1>. QED BY <1>1, <1>2, Invariance, PTL DEF Spec

\* Two draws some worker has still to run never share vertex storage: only a
\* drain gives the arena out again (gxr_draw_inner, drain), for any arena.
THEOREM ArenaDisjointHolds == Spec => []ArenaDisjoint
<1>1. IInv /\ MInv => ArenaDisjoint
  <2>. SUFFICES ASSUME IInv, MInv, NEW c \in Unfinished, NEW d \in Unfinished,
                       Of(c).kind = "draw", Of(d).kind = "draw", Of(c).seq # Of(d).seq
                PROVE  Of(c).block # Of(d).block
    BY DEF ArenaDisjoint, LiveCommands, Of, Unfinished
  <2>. QED BY DEF MInv, Blocks
<1>. QED BY <1>1, Invariance, ListsTrue, PTL

\* What the producer reads of guest memory no queued copy is still to write:
\* the wait for the newest overlapping copy is a wait for all (gxr_ram_hazard).
THEOREM ReadsSettledHolds == Spec => []ReadsSettled
<1>1. MInv => ReadsSettled
  BY DEF MInv, Settled, ReadsSettled, LiveCommands, Of, Unfinished
<1>. QED BY <1>1, ListsTrue, PTL

\* Copies that write the same memory write it in program order, though their
\* rows fall to different workers (enqueue_copy's fence, pending_overlap).
THEOREM CopiesInOrderHolds == Spec => []CopiesInOrder
<1>1. IInv /\ MInv => CopiesInOrder
  <2>. SUFFICES ASSUME IInv, MInv, NEW w \in Workers, pc[w] = "run", NEW c \in Unfinished,
                       Of(c).seq < ran[w], Of(c).dest \cap Slot(w).dest # {}
                PROVE  FALSE
    BY DEF CopiesInOrder, LiveCommands, Of, Unfinished
  <2>. DEFINE d == ran[w]
  <2>1. d < published /\ d \in Recent /\ Slot(w) = Of(d) /\ Of(d) \in Command /\ d \in Nat
    BY NextCommand, RecentCommand DEF IInv, Numbered
  <2>2. c \in Nat /\ c < d
    BY UnfinishedRecent DEF IInv, Slots
  <2>3. c < Of(d).fence /\ Of(d).fence \in Nat
    BY <2>1, <2>2 DEF MInv, Overlaps, Command
  <2>4. PICK j \in Workers : ran[j] <= c
    BY DEF Unfinished, Live
  <2>5. j # w /\ ran[j] \in Nat
    BY <2>2, <2>4 DEF IInv, TypeOK
  <2>6. ran[j] >= FenceFor(w, j, Of(d))
    BY <2>1, <2>5 DEF IInv, Passed, Past
  <2>7. FenceFor(w, j, Of(d)) >= Of(d).fence /\ FenceFor(w, j, Of(d)) \in Nat
    BY <2>1, FenceForAtLeast DEF FenceFor, Command
  <2>. QED BY <2>2, <2>3, <2>4, <2>5, <2>6, <2>7
<1>. QED BY <1>1, Invariance, ListsTrue, PTL

-----------------------------------------------------------------------------
(* Frames: how far apart the workers' shares of them are.                  *)

\* A set of workers is finite, and no larger than the pool.
LEMMA SomeWorkers ==
    ASSUME NEW S \in SUBSET Workers
    PROVE  /\ IsFiniteSet(S) /\ Cardinality(S) \in 0 .. N
           /\ Cardinality(S) = N => S = Workers
           /\ S = Workers => Cardinality(S) = N
<1>1. N \in Nat \ {0} /\ IsFiniteSet(Workers) /\ Cardinality(Workers) = N
  BY FS_Interval, QueueAssumption DEF Workers
<1>. QED BY <1>1, FS_Subset, FS_CardinalityType

\* Multiples of the pool's size.
LEMMA Multiples ==
    ASSUME NEW k \in Nat, NEW r \in 0 .. N
    PROVE  /\ N * k \in Nat /\ k <= N * k + r
           /\ N * (k + 1) = N * k + N
           /\ r < N => (N * k + r) \div N = k
<1>. USE QueueAssumption
<1>1. N * k \in Nat /\ N * (k + 1) = N * k + N /\ k <= N * k
  OBVIOUS
<1>2. ASSUME r < N PROVE (N * k + r) \div N = k
  <2>. DEFINE a == N * k + r
              q == a \div N
  <2>1. a \in Nat /\ q \in Nat /\ a = N * q + (a % N) /\ a % N \in 0 .. N - 1
    <3>1. a \in Nat
      BY <1>1
    <3>. HIDE DEF a
    <3>. QED BY <3>1, Division
  <2>2. N * (q - k) = r - (a % N) /\ N * (k - q) = (a % N) - r
    <3>1. N * (q - k) = N * q - N * k /\ N * (k - q) = N * k - N * q
      BY <2>1
    <3>. QED BY <1>1, <2>1, <3>1
  <2>. HIDE DEF a, q
  <2>3. ~(q > k)
    <3>. SUFFICES ASSUME q >= k + 1 PROVE FALSE
      BY <2>1
    <3>1. N * (q - k) >= N
      BY <2>1
    <3>. QED BY <1>2, <2>1, <2>2, <3>1
  <2>4. ~(q < k)
    <3>. SUFFICES ASSUME k >= q + 1 PROVE FALSE
      BY <2>1
    <3>1. N * (k - q) >= N
      BY <2>1
    <3>. QED BY <1>2, <2>1, <2>2, <3>1
  <2>5. q = k
    BY <2>1, <2>3, <2>4
  <2>. QED BY <2>5 DEF a, q
<1>. QED BY <1>1, <1>2

\* Nothing is copied at the start.
LEMMA InitFrames == Init => FInv
<1>. SUFFICES ASSUME Init PROVE FInv
  OBVIOUS
<1>1. Recent = {} /\ todo = <<>> /\ presented = 0
      /\ \A w \in Workers : ran[w] = 0 /\ screens[w] = 0
  BY DEF Init, Recent
<1>2. Ahead(0) = {} /\ Cardinality({}) = 0 /\ N * 0 = 0
  BY <1>1, FS_EmptySet, QueueAssumption DEF Ahead
<1>3. Even
  BY <1>1, <1>2 DEF Even
<1>. QED BY <1>1, <1>3 DEF FInv, ScreenFences, Level

\* The producer's other steps leave the ring, and what is counted, alone.
LEMMA AskFrames ==
    ASSUME IInv, FInv, UNCHANGED ring, UNCHANGED <<presented, screens>>,
           \A i \in DOMAIN todo' : todo'[i].kind = "copy" /\ todo'[i].screen =>
                                       todo'[i].entry = "all"
    PROVE  FInv'
<1>1. Recent' = Recent /\ \A c : Of(c)' = Of(c)
  BY DEF ring, Recent, Of
<1>2. ScreenFences'
  BY <1>1 DEF FInv, ScreenFences, Shown
<1>3. Level' /\ Even'
  BY <1>1 DEF FInv, Level, Even, Ahead, Shown, ring
<1>. QED BY <1>2, <1>3 DEF FInv

\* A screen copy takes its fence with it into the ring.
LEMMA PublishFrames ==
    ASSUME IInv, IInv', FInv, Publish
    PROVE  FInv'
<1>. DEFINE n == published
            o == Head(todo)
            new == Built(o, n)
<1>1. /\ n \in Nat /\ o \in Order /\ o = todo[1] /\ 1 \in DOMAIN todo
      /\ \A c \in Nat : c = n => Of(c)' = new
      /\ Recent' \subseteq Recent \cup {n}
      /\ \A c \in Unfinished : Of(c)' = Of(c)
      /\ \A c \in Recent' : c # n => Of(c)' = Of(c)
      /\ \A i \in DOMAIN todo' : i + 1 \in DOMAIN todo /\ todo'[i] = todo[i + 1]
  BY PublishRing
<1>2. UNCHANGED <<ran, presented, screens>>
  BY DEF Publish
<1>3. Shown(new) => new.fence = n
  <2>1. Shown(new) => o.entry = "all"
    BY <1>1 DEF FInv, ScreenFences, Shown, Built
  <2>2. new.fence = FenceOf(EntryWant(o, n), fenceAfter, n) /\ fenceAfter \in Nat
    BY DEF Built, IInv, TypeOK
  <2>. QED BY <1>1, <2>1, <2>2 DEF EntryWant, FenceOf, Least, Greatest
<1>. HIDE DEF new, o
<1>4. ScreenFences'
  <2>1. \A c \in Recent' : Shown(Of(c)') => Of(c)'.fence = c
    BY <1>1, <1>3 DEF FInv, ScreenFences
  <2>. QED BY <1>1, <2>1 DEF FInv, ScreenFences, Shown
<1>5. \A w, j \in Workers : ran[w] < ran[j] => Of(ran[w])' = Of(ran[w])
  <2>. SUFFICES ASSUME NEW w \in Workers, NEW j \in Workers, ran[w] < ran[j]
                PROVE  ran[w] \in Unfinished
    BY <1>1, <1>2
  <2>1. /\ ran[w] \in Nat /\ ran[j] \in Nat /\ published \in Nat
        /\ ran[w] < published
    BY SMTT(40) DEF IInv, TypeOK, Numbered
  <2>. QED BY <2>1 DEF Unfinished, Live
<1>6. Level'
  BY <1>2, <1>5 DEF FInv, Level, Shown
<1>7. Even'
  BY <1>2 DEF FInv, Even, Ahead
<1>. QED BY <1>4, <1>6, <1>7 DEF FInv

\* A worker that has gone past a screen copy found no other before it.
LEMMA PastScreen ==
    ASSUME IInv, FInv, NEW w \in Workers, NEW j \in Workers, NEW d \in Recent,
           Shown(Of(d)), Past(w, d)
    PROVE  ran[j] >= d
<1>1. d \in Nat /\ Of(d) \in Command /\ ran[w] \in Nat /\ ran[j] \in Nat
  BY RecentCommand DEF IInv, TypeOK
<1>2. CASE j = w
  BY <1>1, <1>2 DEF Past
<1>3. CASE j # w
  <2>1. ran[j] >= FenceFor(w, j, Of(d))
    BY <1>3 DEF IInv, Passed
  <2>2. FenceFor(w, j, Of(d)) >= d /\ FenceFor(w, j, Of(d)) \in Nat
    BY <1>1, FenceForAtLeast DEF FInv, ScreenFences, FenceFor, Command
  <2>. QED BY <1>1, <2>1, <2>2
<1>. QED BY <1>2, <1>3

\* The end of a worker's rows of a frame: every other worker is at the same
\* screen copy, or just past it.
LEMMA FinishFrames ==
    ASSUME IInv, IInv', FInv, NEW w \in Workers, Finish(w)
    PROVE  FInv'
<1>. USE QueueAssumption
<1>. DEFINE d == ran[w]
            share == IF Shown(Of(d)) THEN 1 ELSE 0
<1>1. /\ pc[w] = "run" /\ d \in Nat /\ d < published /\ d \in Recent
      /\ Slot(w) = Of(d) /\ Of(d) \in Command /\ published \in Nat
  BY NextCommand, RecentCommand DEF Finish, IInv, TypeOK, Numbered
<1>2. Shown(Of(d)) <=> Counts(Of(d))
  BY DEF Shown, Counts
<1>3. /\ ran \in [Workers -> Nat] /\ screens \in [Workers -> Nat] /\ presented \in Nat
      /\ share \in {0, 1} /\ share = 1 <=> Shown(Of(d))
  BY SMTT(40) DEF IInv, TypeOK
<1>4. /\ presented' = presented + share
      /\ \A v \in Workers : /\ ran'[v] = IF v = w THEN d + 1 ELSE ran[v]
                            /\ screens'[v] = IF v = w THEN screens[w] + share ELSE screens[v]
      /\ UNCHANGED <<published, queue, todo>>
  <2>1. /\ ran' = [ran EXCEPT ![w] = @ + 1]
        /\ presented' = IF Shown(Of(d)) THEN presented + 1 ELSE presented
        /\ screens' = IF Shown(Of(d)) THEN [screens EXCEPT ![w] = @ + 1] ELSE screens
        /\ UNCHANGED <<published, queue, todo>>
    BY <1>1, <1>2 DEF Finish, producer
  <2>. HIDE DEF Shown
  <2>. QED BY <1>3, <2>1
<1>5. Recent' = Recent /\ \A c : Of(c)' = Of(c)
  BY <1>4 DEF Recent, Of
<1>6. ScreenFences'
  BY <1>4, <1>5 DEF FInv, ScreenFences, Shown
\* Every worker has come to the screen copy w has finished.
<1>7. Shown(Of(d)) => \A j \in Workers : ran[j] >= d
  BY <1>1, PastScreen DEF Past
\* No other worker is past a screen copy w has not come to.
<1>8. \A j \in Workers : d + 1 < ran[j] => ~Shown(Of(d + 1))
  <2>. SUFFICES ASSUME NEW j \in Workers, d + 1 < ran[j], Shown(Of(d + 1)) PROVE FALSE
    OBVIOUS
  <2>1. ran[j] <= published /\ published - d <= QueueCap /\ ran[j] \in Nat
    BY DEF IInv, TypeOK, Numbered
  <2>2. d + 1 \in Recent
    BY <1>1, <2>1 DEF Recent
  <2>3. d >= d + 1
    BY <2>2, PastScreen DEF Past
  <2>. QED BY <1>1, <2>3
<1>9. Level'
  <2>. DEFINE step(v, j) == IF ran[v] < ran[j] /\ Shown(Of(ran[v])) THEN 1 ELSE 0
              step2(v, j) == IF ran'[v] < ran'[j] /\ Shown(Of(ran'[v])) THEN 1 ELSE 0
  <2>1. \A v, j \in Workers : ran[v] <= ran[j] => screens[j] = screens[v] + step(v, j)
    BY DEF FInv, Level
  <2>. SUFFICES ASSUME NEW v \in Workers, NEW j \in Workers, ran'[v] <= ran'[j]
                PROVE  screens'[j] = screens'[v] + step2(v, j)
    BY <1>4 DEF Level, Of, Shown
  <2>2. ran[v] \in Nat /\ ran[j] \in Nat /\ screens[v] \in Nat /\ screens[j] \in Nat
        /\ screens[w] \in Nat
    BY <1>3
  <2>. HIDE DEF Shown
  <2>3. CASE v # w /\ j # w
    BY <1>4, <2>1, <2>3
  <2>4. CASE v = w /\ j = w
    BY <1>1, <1>3, <1>4, <2>4
  <2>5. CASE v = w /\ j # w
    <3>1. d + 1 <= ran[j] /\ d <= ran[j] /\ d < ran[j] /\ ran'[v] = d + 1 /\ ran'[j] = ran[j]
      BY <1>1, <1>4, <2>2, <2>5
    <3>2. step(v, j) = share /\ step2(v, j) = 0
      BY <1>1, <1>8, <2>5, <3>1
    <3>. QED BY <1>3, <1>4, <2>1, <2>2, <2>5, <3>1, <3>2
  <2>6. CASE v # w /\ j = w
    <3>1. ran[v] <= d + 1 /\ ran'[v] = ran[v] /\ ran'[j] = d + 1
      BY <1>1, <1>4, <2>6
    <3>2. CASE ran[v] = d + 1
      <4>1. step(j, v) = share /\ step2(v, j) = 0 /\ ran[j] <= ran[v]
        BY <1>1, <2>6, <3>1, <3>2
      <4>. QED BY <1>3, <1>4, <2>1, <2>2, <2>6, <4>1
    <3>3. CASE ran[v] = d
      <4>1. step(v, j) = 0 /\ step2(v, j) = share /\ ran[v] <= ran[j]
        BY <1>1, <2>6, <3>1, <3>3
      <4>. QED BY <1>3, <1>4, <2>1, <2>2, <2>6, <4>1
    <3>4. CASE ran[v] < d
      <4>1. share = 0
        BY <1>1, <1>7, <2>2, <3>4
      <4>2. step(v, j) = step2(v, j) /\ ran[v] <= ran[j]
        BY <1>1, <2>2, <2>6, <3>1, <3>4
      <4>. QED BY <1>3, <1>4, <2>1, <2>2, <2>6, <4>1, <4>2
    <3>. QED BY <1>1, <2>2, <3>1, <3>2, <3>3, <3>4
  <2>. QED BY <2>3, <2>4, <2>5, <2>6
<1>10. Even'
  <2>1. PICK k \in 0 .. presented : /\ \A v \in Workers : screens[v] \in {k, k + 1}
                                    /\ presented = N * k + Cardinality(Ahead(k))
    BY DEF FInv, Even
  <2>2. CASE share = 0
    <3>1. screens' = screens \/ \A v \in Workers : screens'[v] = screens[v]
      BY <1>3, <1>4, <2>2
    <3>2. Ahead(k)' = Ahead(k) /\ presented' = presented
      BY <1>3, <1>4, <2>2, <3>1 DEF Ahead
    <3>. QED BY <1>3, <2>1, <3>1, <3>2 DEF Even
  <2>3. CASE share = 1
    \* w has the fewest rows: it was at the copy every worker has come to.
    <3>1. \A j \in Workers : screens[j] >= screens[w]
      <4>. TAKE j \in Workers
      <4>1. d <= ran[j]
        BY <1>1, <1>3, <1>7, <2>3
      <4>. QED BY <1>3, <4>1 DEF FInv, Level
    <3>2. CASE screens[w] = k
      <4>1. Ahead(k)' = Ahead(k) \cup {w} /\ w \notin Ahead(k)
        BY <1>3, <1>4, <2>1, <2>3, <3>2 DEF Ahead
      <4>2. IsFiniteSet(Ahead(k)) /\ Cardinality(Ahead(k)) \in Nat
        BY SomeWorkers DEF Ahead
      <4>3. Cardinality(Ahead(k)') = Cardinality(Ahead(k)) + 1
        BY <4>1, <4>2, FS_AddElement
      <4>4. k \in 0 .. presented' /\ N * k \in Nat
        BY <1>3, <1>4, <2>3, Multiples, SomeWorkers
      <4>5. presented' = N * k + Cardinality(Ahead(k)')
        BY <1>4, <2>1, <2>3, <4>2, <4>3, <4>4
      <4>6. \A v \in Workers : screens'[v] \in {k, k + 1}
        BY <1>3, <1>4, <2>1, <2>3, <3>2
      <4>. QED BY <4>4, <4>5, <4>6 DEF Even, Ahead
    <3>3. CASE screens[w] = k + 1
      <4>1. \A v \in Workers : screens[v] = k + 1
        BY <1>3, <2>1, <3>1, <3>3
      <4>2. presented = N * k + N
        <5>1. Ahead(k) = Workers
          BY <4>1 DEF Ahead
        <5>. QED BY <2>1, <5>1, SomeWorkers
      <4>3. \A v \in Workers : screens'[v] = IF v = w THEN k + 2 ELSE k + 1
        BY <1>3, <1>4, <2>3, <4>1
      <4>4. Ahead(k + 1)' = {w}
        BY <4>3 DEF Ahead
      <4>5. Cardinality(Ahead(k + 1)') = 1
        BY <4>4, FS_Singleton
      <4>6. N * (k + 1) = N * k + N /\ k + 1 \in Nat /\ N * k \in Nat /\ k <= N * k
        BY Multiples, SomeWorkers
      <4>7. presented' = N * (k + 1) + 1 /\ k + 1 \in 0 .. presented'
        BY <1>3, <1>4, <2>3, <4>2, <4>6
      <4>8. \A v \in Workers : screens'[v] \in {k + 1, (k + 1) + 1}
        BY <4>3
      <4>. QED BY <4>5, <4>7, <4>8 DEF Even, Ahead
    <3>. QED BY <2>1, <3>2, <3>3
  <2>. QED BY <1>3, <2>2, <2>3
<1>. QED BY <1>6, <1>9, <1>10 DEF FInv

\* Every step keeps the workers' frames together.
LEMMA StepFrames == IInv /\ IInv' /\ FInv /\ [Next]_vars => FInv'
<1>. SUFFICES ASSUME IInv, IInv', FInv, [Next]_vars PROVE FInv'
  OBVIOUS
<1>1. ASSUME NEW texs \in DrawSets, Draw(texs) PROVE FInv'
  <2>1. UNCHANGED ring /\ UNCHANGED <<presented, screens>>
    BY <1>1 DEF Draw, ring, shared, worker
  <2>2. \A i \in DOMAIN todo' : todo'[i].kind # "copy"
    BY <1>1 DEF Draw, Blank
  <2>. QED BY <2>1, <2>2, AskFrames
<1>2. ASSUME NEW sh \in CopyShapes, Copy(sh) PROVE FInv'
  <2>. DEFINE drains == gate \/ (sh.dest # {} /\ CopyListFull(pending))
              list   == PendingAfter(drains)
  <2>1. UNCHANGED ring /\ UNCHANGED <<presented, screens>> /\ todo' = CopyTodo(sh, list)
    BY <1>2 DEF Copy, ring, shared, worker
  <2>2. list \in SUBSET pending
    BY DEF PendingAfter
  <2>. HIDE DEF list
  <2>3. todo' \in Seq(CopyOrder)
    BY <2>1, <2>2, CopyTodoOrders
  <2>4. \A i \in DOMAIN todo' : todo'[i] \in CopyOrder
    BY <2>3, LenProperties, ElementOfSeq
  <2>5. \A i \in DOMAIN todo' : todo'[i].kind = "copy" /\ todo'[i].screen =>
                                    todo'[i].entry = "all"
    BY <2>4 DEF CopyOrder, AskedOf
  <2>. QED BY <2>1, <2>5, AskFrames
<1>3. CASE Publish
  BY <1>3, PublishFrames
<1>4. CASE \/ EndRead \/ Token \/ Drain \/ UNCHANGED vars
           \/ \E t \in Textures : Read(t) \/ HookWrite(t) \/ GuestWrite(t)
  <2>1. UNCHANGED ring /\ UNCHANGED <<presented, screens>> /\ todo' = todo
    BY <1>4 DEF EndRead, Token, Drain, Read, HookWrite, GuestWrite, ring, vars, shared,
                worker, producer
  <2>. QED BY <2>1, AskFrames DEF FInv, ScreenFences
<1>5. ASSUME NEW w \in Workers, Take(w) \/ FencePass(w) PROVE FInv'
  <2>1. UNCHANGED <<published, ran, queue, presented, screens, todo>>
    BY <1>5, NextCommand DEF Take, FencePass, shared, producer
  <2>2. Recent' = Recent /\ \A c : Of(c)' = Of(c)
    BY <2>1 DEF Recent, Of
  <2>. QED BY <2>1, <2>2 DEF FInv, ScreenFences, Level, Even, Ahead, Shown
<1>6. ASSUME NEW w \in Workers, Finish(w) PROVE FInv'
  BY <1>6, FinishFrames
<1>. QED BY <1>1, <1>2, <1>3, <1>4, <1>5, <1>6 DEF Next, ProducerStep, WorkerStep

\* The workers are never more than one frame's rows apart (enqueue_copy's fence
\* for a screen copy, run_copy's count), for every number of workers.
THEOREM FramesLevel == Spec => []FInv
<1>1. Init => FInv
  BY InitFrames
<1>2. FInv /\ (IInv /\ IInv') /\ [Next]_vars => FInv'
  BY StepFrames
<1>. QED BY <1>1, <1>2, Invariance, PTL DEF Spec

\* A frame counted as presented is whole: for every number of workers, and with
\* the in-between image on or off, gxr_presented() frames have all their rows.
THEOREM WholeFramesHolds == Spec => []WholeFrames
<1>1. IInv /\ FInv => WholeFrames
  <2>. SUFFICES ASSUME IInv, FInv, NEW w \in Workers PROVE screens[w] >= presented \div N
    BY DEF WholeFrames
  <2>1. PICK k \in 0 .. presented : /\ \A v \in Workers : screens[v] \in {k, k + 1}
                                    /\ presented = N * k + Cardinality(Ahead(k))
    BY DEF FInv, Even
  <2>2. k \in Nat
    BY DEF IInv, TypeOK
  <2>. DEFINE r == Cardinality(Ahead(k))
  <2>3. Ahead(k) \in SUBSET Workers
    BY DEF Ahead
  <2>4. r \in 0 .. N /\ (r = N => Ahead(k) = Workers)
    BY <2>3, SomeWorkers
  <2>. HIDE DEF r
  <2>5. CASE r < N
    BY <2>1, <2>2, <2>4, <2>5, Multiples DEF r
  <2>6. CASE r = N
    <3>1. screens[w] = k + 1
      BY <2>4, <2>6 DEF Ahead
    <3>2. presented = N * (k + 1) + 0
      BY <2>1, <2>2, <2>4, <2>6, Multiples DEF r
    <3>3. presented \div N = k + 1
      BY <2>2, <3>2, Multiples, QueueAssumption
    <3>. QED BY <2>2, <3>1, <3>3
  <2>. QED BY <2>4, <2>5, <2>6, QueueAssumption
<1>. QED BY <1>1, Invariance, FramesLevel, PTL

-----------------------------------------------------------------------------
(* Images: what a copy's image is worth.                                   *)

\* Nothing is listed or queued at the start.
LEMMA InitImages == Init => CInv
BY DEF Init, CInv, Programmed, Owned, NewestIsLast, ImagesCurrent

\* A step of no consequence to the images: the list is what it was, or empty.
LEMMA SameImages ==
    ASSUME CInv, UNCHANGED <<image, lastWriter>>, todo' = todo \/ todo' = <<>>,
           \/ pending' = {}
           \/ pending' = pending /\ cpuOwns' = cpuOwns
    PROVE  CInv'
<1>1. Programmed' /\ ImagesCurrent'
  BY DEF CInv, Programmed, ImagesCurrent
<1>2. Owned'
  BY DEF CInv, Owned
<1>3. NewestIsLast'
  BY DEF CInv, NewestIsLast, Current
<1>. QED BY <1>1, <1>2, <1>3 DEF CInv

\* gxr_draw_inner samples an image only if its copy is the newest over it.
LEMMA DrawImages ==
    ASSUME IInv, CInv, NEW texs \in DrawSets, Draw(texs)
    PROVE  CInv'
<1>. USE QueueAssumption
<1>. DEFINE copies == IF mid THEN 2 ELSE 1
            drains == gate \/ ArenaFull(arena, copies)
            list   == PendingAfter(drains)
            base   == ArenaAfter(drains)
            hits   == {t \in texs : ImageHit(list, t)}
            images == {image[t] : t \in hits}
<1>1. /\ image' = [t \in Textures |-> IF t \in texs \ hits THEN Nothing ELSE image[t]]
      /\ todo' = [e \in 1 .. copies |->
                    [Blank EXCEPT !.efb = e - 1, !.images = images, !.block = base + e - 1,
                                  !.want = ImageFence(images)]]
      /\ pending' = list /\ lastWriter' = lastWriter /\ cpuOwns' = cpuOwns
  BY DEF Draw, guest
<1>2. \A i \in DOMAIN todo' : todo'[i].dest = {} /\ todo'[i].images = images
  <2>. HIDE DEF images, base, copies
  <2>. QED BY <1>1 DEF Blank
<1>3. list \in SUBSET pending /\ (list = {} \/ list = pending)
  BY DEF PendingAfter
<1>. HIDE DEF list
<1>4. Programmed'
  BY <1>1, <1>2, <1>3 DEF CInv, Programmed
<1>5. \A t \in Textures : \A p \in pending : image'[t] = p.cmd => image[t] = p.cmd
  <2>1. \A t \in Textures : image'[t] = Nothing \/ image'[t] = image[t]
    BY <1>1
  <2>2. \A p \in pending : p.cmd # Nothing
    BY DEF IInv, TypeOK, Nothing
  <2>. QED BY <2>1, <2>2
<1>6. Owned'
  BY <1>1, <1>3, <1>5 DEF CInv, Owned
<1>7. NewestIsLast'
  BY <1>1, <1>3, <1>5 DEF CInv, NewestIsLast, Current
<1>8. ASSUME NEW t \in hits
      PROVE  t \in Textures /\ image'[t] = image[t] /\ Current(t)
  <2>1. t \in texs /\ t \in Textures /\ image[t] # Nothing /\ Newest(list, t) = image[t]
    BY DEF ImageHit
  <2>2. image'[t] = image[t]
    BY <1>1, <2>1
  <2>. DEFINE S == Over(list, t) \cup {Nothing}
  <2>3. S \subseteq Nat \cup {Nothing} /\ S # {} /\ published \in Nat
    BY <1>3 DEF IInv, TypeOK, Over
  <2>4. \A x \in S : x < published
    BY <1>3, <2>3 DEF IInv, TypeOK, Numbered, Over, Nothing
  <2>5. Max(S) \in S /\ \A x \in S : x <= Max(S)
    <3>. HIDE DEF S
    <3>. QED BY <2>3, <2>4, MaxBelow
  <2>6. image[t] \in S /\ \A x \in S : x <= image[t]
    BY <2>1, <2>5 DEF Newest
  <2>7. PICK p \in list : p.cmd = image[t]
    BY <2>1, <2>6 DEF Over
  <2>8. \A q \in list : q.dest \cap t # {} => q.cmd <= p.cmd
    BY <2>6, <2>7 DEF Over
  <2>9. Current(t)
    BY <1>3, <2>1, <2>7, <2>8 DEF CInv, NewestIsLast
  <2>. QED BY <2>1, <2>2, <2>9
<1>9. ImagesCurrent'
  <2>1. ASSUME NEW c \in images
        PROVE  \E t \in Textures : image'[t] = c /\ \A cell \in t : lastWriter'[cell] = c
    <3>1. PICK t \in hits : c = image[t]
      OBVIOUS
    <3>. QED BY ZenonT(60), <1>1, <1>8, <3>1 DEF Current
  <2>. HIDE DEF images
  <2>. QED BY <1>2, <2>1 DEF ImagesCurrent
<1>. QED BY <1>4, <1>6, <1>7, <1>9 DEF CInv

\* enqueue_copy writes what its shape says, and samples nothing.
LEMMA CopyImages ==
    ASSUME IInv, CInv, NEW sh \in CopyShapes, Copy(sh)
    PROVE  CInv'
<1>. DEFINE drains == gate \/ (sh.dest # {} /\ CopyListFull(pending))
            list   == PendingAfter(drains)
<1>1. /\ pending' = list /\ todo' = CopyTodo(sh, list)
      /\ UNCHANGED <<image, lastWriter, cpuOwns>>
  BY DEF Copy, guest
<1>2. list \in SUBSET pending /\ (list = {} \/ list = pending)
  BY DEF PendingAfter
<1>. HIDE DEF list
<1>3. todo' \in Seq(CopyOrder)
  BY <1>1, <1>2, CopyTodoOrders
<1>4. \A i \in DOMAIN todo' : todo'[i] \in CopyOrder
  BY <1>3, LenProperties, ElementOfSeq
<1>5. \A i \in DOMAIN todo' : todo'[i].images = {}
  BY <1>4 DEF CopyOrder, AskedOf
<1>6. \A i \in DOMAIN todo' : todo'[i].dest # {} => todo'[i].dest = sh.dest
  BY <1>1, <1>2, CopyTodoDest
<1>7. Programmed' /\ ImagesCurrent'
  BY <1>1, <1>2, <1>5, <1>6 DEF CInv, Programmed, ImagesCurrent
<1>8. Owned' /\ NewestIsLast'
  BY <1>1, <1>2 DEF CInv, Owned, NewestIsLast, Current
<1>. QED BY <1>7, <1>8 DEF CInv

\* claim_slot and publish: a copy is the newest over its memory, and its image,
\* if it leaves one, is of it; what others left over that memory is stale.
LEMMA PublishImages ==
    ASSUME IInv, IInv', MInv, CInv, Publish
    PROVE  CInv'
<1>. DEFINE n == published
            o == Head(todo)
            new == [dest |-> o.dest, cmd |-> n]
<1>1. /\ pending' = IF ToMemory(o) THEN pending \cup {new} ELSE pending
      /\ image' = IF ToMemory(o) /\ o.packed /\ o.dest \in Textures
                  THEN [image EXCEPT ![o.dest] = n] ELSE image
      /\ cpuOwns' = cpuOwns \ o.dest
      /\ lastWriter' = [c \in Cells |-> IF c \in o.dest THEN n ELSE lastWriter[c]]
  BY DEF Publish
<1>2. /\ n \in Nat /\ o \in Order /\ o = todo[1] /\ 1 \in DOMAIN todo
      /\ \A i \in DOMAIN todo' : /\ i + 1 \in DOMAIN todo /\ todo'[i] = todo[i + 1]
  BY PublishRing
<1>3. o.dest # {} => ToMemory(o) /\ \E sh \in CopyShapes : o.dest = sh.dest
  BY <1>2 DEF MInv, Listed, ToMemory, CInv, Programmed
<1>4. /\ o.dest \subseteq Cells
      /\ \A p \in pending : p.cmd \in Nat /\ p.cmd < n /\ p.dest \subseteq Cells
      /\ \A t \in Textures : image[t] \in Nat \cup {Nothing} /\ image[t] < n
      /\ \A t \in Textures : t \subseteq Cells
      /\ image \in [Textures -> Nat \cup {Nothing}]
  BY <1>2, QueueAssumption DEF IInv, TypeOK, Numbered, Order
<1>5. \A i, j \in DOMAIN todo : todo[i].dest = {} \/ todo[j].images = {}
  BY DEF CInv, Programmed
<1>. HIDE DEF o
<1>6. Programmed'
  <2>1. \A p \in pending' : p \in pending \/ (p.dest = o.dest /\ o.dest # {})
    BY <1>1 DEF ToMemory
  <2>2. \A p \in pending' : \E sh \in CopyShapes : p.dest = sh.dest
    BY <1>3, <2>1 DEF CInv, Programmed
  <2>3. \A i \in DOMAIN todo' : todo'[i].dest # {} =>
            \E sh \in CopyShapes : todo'[i].dest = sh.dest
    BY <1>2 DEF CInv, Programmed
  <2>. QED BY <1>2, <1>5, <2>2, <2>3 DEF Programmed
\* A texture's image is the new command's only if that wrote the texture whole.
<1>7. \A t \in Textures : \/ image'[t] = image[t] /\ image'[t] # n
                          \/ image'[t] = n /\ t = o.dest /\ ToMemory(o)
  BY <1>1, <1>2, <1>4 DEF Nothing
<1>8. Owned'
  BY <1>1, <1>4, <1>7 DEF CInv, Owned
<1>9. NewestIsLast'
  <2>. SUFFICES ASSUME NEW t \in Textures, NEW p \in pending', p.cmd = image'[t],
                       \A q \in pending' : q.dest \cap t # {} => q.cmd <= p.cmd,
                       NEW cell \in t
                PROVE  lastWriter'[cell] = image'[t]
    BY DEF NewestIsLast, Current
  <2>1. cell \in Cells
    BY <1>4
  <2>2. CASE o.dest \cap t = {}
    <3>1. image'[t] = image[t] /\ image'[t] # n
      BY <1>7, <2>2
    <3>2. p \in pending
      BY <1>1, <3>1
    <3>3. \A q \in pending : q.dest \cap t # {} => q.cmd <= p.cmd
      BY <1>1
    <3>4. lastWriter[cell] = image[t]
      BY <3>1, <3>2, <3>3 DEF CInv, NewestIsLast, Current
    <3>. QED BY <1>1, <2>1, <2>2, <3>1, <3>4
  <2>3. CASE o.dest \cap t # {}
    <3>1. new \in pending'
      BY <1>1, <1>3, <2>3
    <3>2. n <= p.cmd
      BY <2>3, <3>1
    <3>3. p.cmd = n
      BY <1>1, <1>2, <1>4, <3>2
    <3>4. t = o.dest /\ image'[t] = n
      BY <1>7, <3>3
    <3>. QED BY <1>1, <2>1, <3>4
  <2>. QED BY <2>2, <2>3
<1>10. ImagesCurrent'
  <2>. SUFFICES ASSUME NEW i \in DOMAIN todo', NEW c \in todo'[i].images
                PROVE  \E t \in Textures : /\ image'[t] = c
                                           /\ \A cell \in t : lastWriter'[cell] = c
    BY DEF ImagesCurrent
  <2>1. i + 1 \in DOMAIN todo /\ c \in todo[i + 1].images /\ o.dest = {}
    BY <1>2, <1>5
  <2>2. PICK t \in Textures : image[t] = c /\ \A cell \in t : lastWriter[cell] = c
    BY <2>1 DEF CInv, ImagesCurrent
  <2>3. ~ToMemory(o) /\ image' = image
    BY <1>1, <2>1 DEF ToMemory
  <2>. QED BY <1>1, <1>4, <2>1, <2>2, <2>3
<1>. QED BY <1>6, <1>8, <1>9, <1>10 DEF CInv

\* A write no copy holds the memory of: a hook's after its wait, or the game's.
LEMMA WriteImages ==
    ASSUME HooksTellAll, IInv, CInv, NEW cells \in Textures,
           HookWrite(cells) \/ GuestWrite(cells)
    PROVE  CInv'
<1>1. /\ todo = <<>> /\ UNCHANGED <<todo, image, cpuOwns>>
      /\ lastWriter' = [c \in Cells |-> IF c \in cells THEN Nothing ELSE lastWriter[c]]
      /\ \/ pending' = {p \in pending : p.dest \cap cells = {}}
         \/ pending' = pending /\ cells \subseteq cpuOwns
  BY DEF HookWrite, GuestWrite, Ready, producer, Forget
<1>2. Programmed' /\ Owned' /\ ImagesCurrent'
  BY <1>1 DEF CInv, Programmed, Owned, ImagesCurrent
<1>3. NewestIsLast'
  <2>. SUFFICES ASSUME NEW t \in Textures, NEW p \in pending', p.cmd = image[t],
                       \A q \in pending' : q.dest \cap t # {} => q.cmd <= p.cmd,
                       NEW cell \in t
                PROVE  lastWriter'[cell] = image[t]
    BY <1>1 DEF NewestIsLast, Current
  <2>1. p \in pending /\ p.dest = t
    BY <1>1 DEF CInv, Owned
  <2>2. t \cap cells = {}
    BY <1>1, <2>1 DEF CInv, Owned
  <2>3. \A q \in pending : q.dest \cap t # {} => q.cmd <= p.cmd
    BY <1>1, <2>2 DEF HooksTellAll, CInv, Programmed
  <2>4. lastWriter[cell] = image[t]
    BY <2>1, <2>3 DEF CInv, NewestIsLast, Current
  <2>5. cell \in Cells
    BY QueueAssumption
  <2>. QED BY <1>1, <2>2, <2>4, <2>5
<1>. QED BY <1>2, <1>3 DEF CInv

\* Every step keeps the images worth what they say.
LEMMA StepImages ==
    ASSUME HooksTellAll
    PROVE  IInv /\ IInv' /\ MInv /\ CInv /\ [Next]_vars => CInv'
<1>. SUFFICES ASSUME IInv, IInv', MInv, CInv, [Next]_vars PROVE CInv'
  OBVIOUS
<1>1. ASSUME NEW texs \in DrawSets, Draw(texs) PROVE CInv'
  BY <1>1, DrawImages
<1>2. ASSUME NEW sh \in CopyShapes, Copy(sh) PROVE CInv'
  BY <1>2, CopyImages
<1>3. CASE Publish
  BY <1>3, PublishImages
<1>4. ASSUME NEW t \in Textures, HookWrite(t) \/ GuestWrite(t) PROVE CInv'
  BY <1>4, WriteImages
<1>5. CASE EndRead \/ \E t \in Textures : Read(t)
  BY <1>5, SameImages DEF EndRead, Read, guest
<1>6. CASE Token \/ Drain
  BY <1>6, SameImages DEF Token, Drain, PendingAfter
<1>7. CASE UNCHANGED vars
  BY <1>7, SameImages DEF vars, producer, guest
<1>8. ASSUME NEW w \in Workers, WorkerStep(w) PROVE CInv'
  BY <1>8, SameImages DEF WorkerStep, Take, FencePass, Finish, producer, guest
<1>. QED BY <1>1, <1>2, <1>3, <1>4, <1>5, <1>6, <1>7, <1>8 DEF Next, ProducerStep

\* A draw that samples a copy's image samples what the texture's memory would
\* hold, whatever is copied, hooked and written, where no copy lies over two
\* textures that lie apart (ImageHit; pending_forget).  Where one does a write
\* to the one forgets the copy over the other too: the run hook_forgets.
THEOREM ImagesCurrentHolds ==
    ASSUME HooksTellAll
    PROVE  Spec => []ImagesCurrent
<1>1. Init => CInv
  BY InitImages
<1>2. CInv /\ (IInv /\ IInv' /\ MInv) /\ [Next]_vars => CInv'
  BY StepImages
<1>3. CInv => ImagesCurrent
  BY DEF CInv
<1>. QED BY <1>1, <1>2, <1>3, Invariance, ListsTrue, PTL DEF Spec
=============================================================================

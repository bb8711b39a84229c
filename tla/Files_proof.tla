---------------------------- MODULE Files_proof ----------------------------
(***************************************************************************)
(* What holds of the components MCFiles puts side by side, for every value *)
(* of their constants.                                                     *)
(*                                                                         *)
(* The memory card, for any number of pages and any sector: the library's  *)
(* script and the channel, the line and the dirty pages move together      *)
(* (Phase), and what is dirty was told of to nobody (Apart), so a kill     *)
(* tears nothing that was.                                                 *)
(*                                                                         *)
(* A phone's game library, for any files to pick: the library in use goes  *)
(* only to .old, .old only when the one in its place has been loaded, and  *)
(* a pick takes the place of one that loads without leaving it as .old     *)
(* only when it has itself been loaded from its copy (LibraryInv).         *)
(*                                                                         *)
(* Its disc, for any files, discs and names: disc.txt names a copy that is *)
(* there or a permission that is kept between any two calls (FilesRight),  *)
(* since what it named goes only after it is written again; and a pick is  *)
(* decided before another is answered (OnePick).                           *)
(*                                                                         *)
(* The mods' folder, for whatever it holds: a number is one claim's in the *)
(* lock, beside it and in memory, and nothing that a game has had is       *)
(* dropped on the way from one to the other (ClaimsInv); what stands is a  *)
(* loaded mod's, and a placed mod is never passed over (RefusedInv).       *)
(*                                                                         *)
(* The save's extension, for any mods and sizes: save now's chunk is in    *)
(* its own save alone, at its head (SaveInv); and with room for all, what  *)
(* a save holds of a mod is what the mod had saved, from the snapshot to   *)
(* the load (CarryInv). What a fold does is taken from its definition,     *)
(* step by step.                                                           *)
(***************************************************************************)
EXTENDS MCFiles, RingNumbers, FiniteSetTheorems, SequenceTheorems, WellFoundedInduction, TLAPS

-----------------------------------------------------------------------------
(* The memory card. *)

LEMMA CardPagesAre ==
    CardPages = 1 .. NPages /\ NPages \in Nat \ {0} /\ Sector \in Nat \ {0}
  BY CardAssumption DEF CardPages

\* What is left of one of the library's scripts.
Rest(s) == /\ Len(script) <= Len(s)
           /\ \A i \in 1 .. Len(script) : script[i] = s[Len(s) - Len(script) + i]
Left(n) == Len(script) \in n

Steps == [op : {"csr"}, sel : {-1, 0, 1}, ack : BOOLEAN, mask : BOOLEAN]
         \cup [op : {"xfer"},
               cmd : {"sram", "enable", "read", "erase", "program", "status", "clear"},
               page : CardPages, value : Values \cup Card!Ids \cup {Card!Blank}]

CardTypes ==
    /\ array = Card!NotLoaded \/ array = [p \in CardPages |-> array[p]]
    /\ c_file = Card!NoFile \/ c_file = [p \in CardPages |-> c_file[p]]
    /\ DOMAIN told \subseteq CardPages
    /\ told = [p \in DOMAIN told |-> told[p]]
    /\ script \in Seq(Steps)
    /\ channel \in [selected : {-1, 0, 1}, begun : BOOLEAN, int : BOOLEAN, mask : BOOLEAN]
    /\ c_line \in [en : BOOLEAN, req : BOOLEAN]

\* The line is down and nobody is to be told anything.
Low == ~c_line.req /\ ~channel.int /\ channel.mask

\* The card found and read at a start.
Mounting ==
    /\ script # <<>> /\ Rest(Card!Mount)
    /\ job = Card!NoJob /\ dirty = {} /\ Low /\ cmd \notin Card!Writing
    /\ channel.selected = IF Left({7, 8}) THEN 1 ELSE IF Left({1, 2, 4, 5}) THEN 0 ELSE -1
    /\ Left({2, 5}) => ~channel.begun
    /\ Left(1 .. 7) => array # Card!NotLoaded
    /\ Left(1 .. 4) => c_line.en

Ready == array # Card!NotLoaded /\ c_line.en

Resting ==
    /\ script = <<>> /\ job = Card!NoJob /\ dirty = {} /\ Low /\ channel.selected = -1 /\ Ready

\* A write is done and the game not yet told.
Raised ==
    /\ script = <<>> /\ dirty = {} /\ channel.selected = -1 /\ Ready
    /\ channel.int /\ channel.mask
    /\ c_file # Card!NoFile /\ DOMAIN job \subseteq CardPages
    /\ \A p \in DOMAIN job : c_file[p] = job[p] /\ array[p] = job[p]

\* The interrupt's handler.
Handling ==
    /\ script # <<>> /\ Rest(Card!Handler)
    /\ job = Card!NoJob /\ dirty = {} /\ Ready
    /\ channel.selected = IF Left({1, 2, 4, 5}) THEN 0 ELSE -1
    /\ Left({2, 5}) => ~channel.begun
    /\ Left({1, 4}) => cmd \notin Card!Writing
    /\ ~Left({7}) => ~channel.int
    /\ Left({1}) => ~c_line.req

\* A write under way: its pages are told of again once it is done.
Apart == DOMAIN job \subseteq CardPages /\ DOMAIN job \cap DOMAIN told = {}

Erasing(p) ==
    /\ script # <<>> /\ Rest(Card!Framed("erase", p, Card!Blank))
    /\ job = [q \in Card!SectorOf(p) |-> Card!Blank] /\ Apart /\ Low /\ Ready
    /\ channel.selected = IF Left({3}) THEN -1 ELSE 0
    /\ Left({2}) => ~channel.begun
    /\ Left({2, 3}) => dirty = {}
    /\ Left({1}) => /\ cmd = "erase" /\ dirty = Card!SectorOf(p)
                    /\ \A q \in Card!SectorOf(p) : array[q] = Card!Blank

Programming(p, v) ==
    /\ script # <<>> /\ Rest(Card!ProgramOf(p, v))
    /\ job = [q \in {p} |-> v] /\ Apart /\ Low /\ Ready
    /\ channel.selected = IF Left({4}) THEN -1 ELSE 0
    /\ Left({3}) => ~channel.begun
    /\ Left({2}) => channel.begun
    /\ Left({1, 2}) => cmd = "program"
    /\ Left({2, 3, 4}) => dirty = {} /\ array[p] = Card!Blank
    /\ Left({1}) => dirty = {p} /\ array[p] = v

Phase ==
    \/ Mounting \/ Resting \/ Raised \/ Handling
    \/ \E p \in CardPages : Erasing(p) \/ \E v \in Values \cup Card!Ids : Programming(p, v)

CardInv == CardTypes /\ Card!ToldStays /\ Phase

-----------------------------------------------------------------------------
(* The scripts. *)

LEMMA MountIs ==
    /\ Card!Mount \in Seq(Steps) /\ Len(Card!Mount) = 9
    /\ Card!Mount[1] = Card!Csr(1, FALSE, TRUE) /\ Card!Mount[2] = Card!Xfer("sram", 1, Card!Blank)
    /\ Card!Mount[3] = Card!Csr(-1, FALSE, TRUE) /\ Card!Mount[4] = Card!Csr(0, FALSE, TRUE)
    /\ Card!Mount[5] = Card!Xfer("enable", 1, Card!Blank)
    /\ Card!Mount[6] = Card!Csr(-1, FALSE, TRUE)
    /\ Card!Mount[7] = Card!Csr(0, FALSE, TRUE) /\ Card!Mount[8] = Card!Xfer("read", 1, Card!Blank)
    /\ Card!Mount[9] = Card!Csr(-1, FALSE, TRUE)
<1>1. 1 \in CardPages
  BY CardPagesAre
<1>. DEFINE a == <<Card!Csr(1, FALSE, TRUE), Card!Xfer("sram", 1, Card!Blank),
                  Card!Csr(-1, FALSE, TRUE)>>
            b == <<Card!Csr(0, FALSE, TRUE), Card!Xfer("enable", 1, Card!Blank),
                  Card!Csr(-1, FALSE, TRUE)>>
            c == <<Card!Csr(0, FALSE, TRUE), Card!Xfer("read", 1, Card!Blank),
                  Card!Csr(-1, FALSE, TRUE)>>
<1>2. a \in Seq(Steps) /\ b \in Seq(Steps) /\ c \in Seq(Steps)
  BY <1>1 DEF Steps, Card!Csr, Card!Xfer
<1>3. Len(a) = 3 /\ Len(b) = 3 /\ Len(c) = 3
  OBVIOUS
<1>4. Card!Mount = a \o b \o c
  BY DEF Card!Mount, Card!SramRead, Card!Framed
<1>. DEFINE ab == a \o b
<1>5. /\ ab \in Seq(Steps) /\ Len(ab) = 6
      /\ ab[1] = a[1]
      /\ ab[2] = a[2]
      /\ ab[3] = a[3]
      /\ ab[4] = b[1]
      /\ ab[5] = b[2]
      /\ ab[6] = b[3]
  <2>. HIDE DEF a, b, c
  <2>1. /\ ab \in Seq(Steps) /\ Len(ab) = 6
        /\ \A i \in 1 .. 6 : ab[i] = IF i <= 3 THEN a[i] ELSE b[i - 3]
    <3>1. /\ a \o b \in Seq(Steps) /\ Len(a \o b) = Len(a) + Len(b)
          /\ \A i \in 1 .. Len(a) + Len(b) :
                (a \o b)[i] = IF i <= Len(a) THEN a[i] ELSE b[i - Len(a)]
      BY <1>2, ConcatProperties
    <3>2. Len(a) + Len(b) = 6
      BY <1>3
    <3>. QED BY <1>3, <3>1, <3>2
  <2>. HIDE DEF ab
  <2>. QED BY <2>1
<1>6. Card!Mount = ab \o c
  BY <1>4
<1>7. /\ Card!Mount \in Seq(Steps) /\ Len(Card!Mount) = 9
      /\ Card!Mount[1] = ab[1]
      /\ Card!Mount[2] = ab[2]
      /\ Card!Mount[3] = ab[3]
      /\ Card!Mount[4] = ab[4]
      /\ Card!Mount[5] = ab[5]
      /\ Card!Mount[6] = ab[6]
      /\ Card!Mount[7] = c[1]
      /\ Card!Mount[8] = c[2]
      /\ Card!Mount[9] = c[3]
  <2>. HIDE DEF ab, c
  <2>1. /\ Card!Mount \in Seq(Steps) /\ Len(Card!Mount) = 9
        /\ \A i \in 1 .. 9 : Card!Mount[i] = IF i <= 6 THEN ab[i] ELSE c[i - 6]
    <3>1. /\ ab \o c \in Seq(Steps) /\ Len(ab \o c) = Len(ab) + Len(c)
          /\ \A i \in 1 .. Len(ab) + Len(c) :
                (ab \o c)[i] = IF i <= Len(ab) THEN ab[i] ELSE c[i - Len(ab)]
      BY <1>2, <1>5, ConcatProperties
    <3>2. Len(ab) + Len(c) = 9
      BY <1>3, <1>5
    <3>. QED BY <1>3, <1>5, <1>6, <3>1, <3>2
  <2>. QED BY <2>1
<1>. QED BY <1>5, <1>7

LEMMA HandlerIs ==
    /\ Card!Handler \in Seq(Steps) /\ Len(Card!Handler) = 7
    /\ Card!Handler[1] = Card!Csr(-1, TRUE, FALSE) /\ Card!Handler[2] = Card!Csr(0, FALSE, FALSE)
    /\ Card!Handler[3] = Card!Xfer("status", 1, Card!Blank)
    /\ Card!Handler[4] = Card!Csr(-1, FALSE, FALSE)
    /\ Card!Handler[5] = Card!Csr(0, FALSE, FALSE)
    /\ Card!Handler[6] = Card!Xfer("clear", 1, Card!Blank)
    /\ Card!Handler[7] = Card!Csr(-1, FALSE, TRUE)
<1>1. 1 \in CardPages
  BY CardPagesAre
<1>. QED BY <1>1 DEF Card!Handler, Steps, Card!Csr, Card!Xfer

LEMMA FramedIs ==
    ASSUME NEW p \in CardPages
    PROVE  LET s == Card!Framed("erase", p, Card!Blank) IN
           /\ s \in Seq(Steps) /\ Len(s) = 3
           /\ s[1] = Card!Csr(0, FALSE, TRUE)
           /\ s[2] = Card!Xfer("erase", p, Card!Blank)
           /\ s[3] = Card!Csr(-1, FALSE, TRUE)
  BY DEF Card!Framed, Steps, Card!Csr, Card!Xfer

LEMMA ProgramIs ==
    ASSUME NEW p \in CardPages, NEW v \in Values \cup Card!Ids
    PROVE  LET s == Card!ProgramOf(p, v) IN
           /\ s \in Seq(Steps) /\ Len(s) = 4
           /\ s[1] = Card!Csr(0, FALSE, TRUE) /\ s[2] = Card!Xfer("program", p, Card!Blank)
           /\ s[3] = Card!Xfer("program", p, v) /\ s[4] = Card!Csr(-1, FALSE, TRUE)
  BY DEF Card!ProgramOf, Steps, Card!Csr, Card!Xfer

LEMMA Starts ==
    ASSUME NEW s \in Seq(Steps), script' = s
    PROVE  /\ script' \in Seq(Steps) /\ Rest(s)' /\ Len(script') = Len(s)
           /\ Len(s) # 0 => script' # <<>>
<1>1. Len(s) \in Nat
  BY LenProperties
<1>2. Len(s) # 0 => s # <<>>
  BY EmptySeq
<1>. QED BY <1>1, <1>2 DEF Rest

LEMMA GoesOn ==
    ASSUME NEW s \in Seq(Steps), script \in Seq(Steps), script # <<>>, Rest(s),
           script' = Tail(script)
    PROVE  /\ script' \in Seq(Steps) /\ Len(script) \in 1 .. Len(s)
           /\ Head(script) = s[Len(s) - Len(script) + 1]
           /\ Rest(s)' /\ Len(script') = Len(script) - 1
           /\ Len(script) = 1 <=> script' = <<>>
<1>1. Len(s) \in Nat /\ Len(script) \in Nat \ {0}
  BY LenProperties, EmptySeq
<1>2. /\ script' \in Seq(Steps) /\ Len(script') = Len(script) - 1
      /\ \A i \in 1 .. Len(script') : script'[i] = script[i + 1]
  BY HeadTailProperties
<1>3. Head(script) = script[1]
  BY <1>1
<1>4. Head(script) = s[Len(s) - Len(script) + 1]
  BY <1>1, <1>3 DEF Rest
<1>5. \A i \in 1 .. Len(script') : script'[i] = s[Len(s) - Len(script') + i]
  <2>. TAKE i \in 1 .. Len(script')
  <2>1. i + 1 \in 1 .. Len(script) /\ script'[i] = script[i + 1]
    BY <1>1, <1>2
  <2>2. script[i + 1] = s[Len(s) - Len(script) + (i + 1)]
    BY <2>1 DEF Rest
  <2>3. Len(s) - Len(script) + (i + 1) = Len(s) - Len(script') + i
    BY <1>1, <1>2
  <2>. QED BY <2>1, <2>2, <2>3
<1>6. Len(script) = 1 <=> script' = <<>>
  <2>1. Len(script') = 0 => script' = <<>>
    BY <1>2, EmptySeq
  <2>2. script' = <<>> => Len(script') = 0
    BY EmptySeq
  <2>. QED BY <1>1, <1>2, <2>1, <2>2
<1>. QED BY <1>1, <1>2, <1>4, <1>5, <1>6 DEF Rest

-----------------------------------------------------------------------------
(* The pages of a sector. *)

LEMMA SectorBounds ==
    ASSUME NEW p \in CardPages
    PROVE  \E lo \in Nat : Card!SectorOf(p) = {q \in CardPages : lo < q /\ q <= lo + Sector}
<1>. DEFINE k == (p - 1) \div Sector
            lo == Sector * k
<1>1. k \in Nat /\ lo \in Nat
  <2>1. p - 1 \in Nat /\ Sector \in Nat \ {0}
    BY CardPagesAre
  <2>2. k \in Nat
    BY <2>1, Division
  <2>. HIDE DEF k
  <2>. QED BY <2>1, <2>2
<1>2. \A q \in CardPages : (q - 1) \div Sector = k <=> lo < q /\ q <= lo + Sector
  <2>. TAKE q \in CardPages
  <2>. DEFINE d == (q - 1) \div Sector
              r == (q - 1) % Sector
  <2>. SUFFICES d = k <=> lo < q /\ q <= lo + Sector
    OBVIOUS
  <2>1. q \in Nat /\ q - 1 \in Nat /\ Sector \in Nat \ {0}
    BY CardPagesAre
  <2>2. d \in Nat /\ r \in 0 .. Sector - 1 /\ q - 1 = Sector * d + r
    BY <2>1, Division
  <2>3. CASE d = k
    BY <2>1, <2>2, <2>3, CardPagesAre
  <2>4. CASE d < k
    <3>1. Sector * (d + 1) <= Sector * k
      <4>. HIDE DEF d, k
      <4>. QED BY <1>1, <2>1, <2>2, <2>4
    <3>2. Sector * (d + 1) = Sector * d + Sector
      BY <2>1, <2>2
    <3>3. q - 1 < Sector * k
      <4>. HIDE DEF d, k, r
      <4>. QED BY <1>1, <2>1, <2>2, <3>1, <3>2
    <3>4. q <= lo
      <4>. HIDE DEF d, k, r
      <4>. QED BY <1>1, <2>1, <3>3, CardPagesAre
    <3>5. d # k
      <4>. HIDE DEF d, k, r
      <4>. QED BY <1>1, <2>2, <2>4
    <3>. HIDE DEF d, k, r, lo
    <3>. QED BY <1>1, <2>1, <3>4, <3>5
  <2>5. CASE d > k
    <3>1. Sector * (k + 1) <= Sector * d
      <4>. HIDE DEF d, k
      <4>. QED BY <1>1, <2>1, <2>2, <2>5
    <3>2. Sector * (k + 1) = Sector * k + Sector
      BY <2>1, <1>1
    <3>3. q - 1 >= Sector * k + Sector
      <4>. HIDE DEF d, k, r
      <4>. QED BY <1>1, <2>1, <2>2, <3>1, <3>2
    <3>4. q > lo + Sector
      <4>. HIDE DEF d, k, r
      <4>. QED BY <1>1, <2>1, <3>3, CardPagesAre
    <3>5. d # k
      <4>. HIDE DEF d, k, r
      <4>. QED BY <1>1, <2>2, <2>5
    <3>. HIDE DEF d, k, r, lo
    <3>. QED BY <1>1, <2>1, <3>4, <3>5
  <2>. QED BY <2>2, <2>3, <2>4, <2>5, <1>1
<1>. QED BY <1>1, <1>2 DEF Card!SectorOf

LEMMA WidenedPage ==
    ASSUME NEW p \in CardPages, dirty = {}
    PROVE  Card!Widened({p}) = {p}
<1>. DEFINE all == dirty \cup {p}
<1>1. all = {p}
  OBVIOUS
<1>2. (CHOOSE q \in all : \A r \in all : q <= r) = p
  BY <1>1, CardPagesAre
<1>3. (CHOOSE q \in all : \A r \in all : q >= r) = p
  BY <1>1, CardPagesAre
<1>4. Card!Between(p, p) = {p}
  BY CardPagesAre DEF Card!Between
<1>. QED BY <1>2, <1>3, <1>4 DEF Card!Widened

LEMMA WidenedSector ==
    ASSUME NEW p \in CardPages, dirty = {}
    PROVE  Card!Widened(Card!SectorOf(p)) = Card!SectorOf(p) /\ p \in Card!SectorOf(p)
<1>. DEFINE all == dirty \cup Card!SectorOf(p)
<1>1. all = Card!SectorOf(p)
  OBVIOUS
<1>2. p \in Card!SectorOf(p)
  BY DEF Card!SectorOf
<1>3. PICK lo \in Nat : Card!SectorOf(p) = {q \in CardPages : lo < q /\ q <= lo + Sector}
  BY SectorBounds
<1>. DEFINE hi == IF lo + Sector <= NPages THEN lo + Sector ELSE NPages
            first == CHOOSE q \in all : \A r \in all : q <= r
            final == CHOOSE q \in all : \A r \in all : q >= r
<1>4. lo + 1 \in all /\ \A r \in all : lo + 1 <= r
  BY <1>1, <1>2, <1>3, CardPagesAre
<1>5. hi \in all /\ \A r \in all : hi >= r
  BY <1>1, <1>2, <1>3, CardPagesAre
<1>6. first \in all /\ \A r \in all : first <= r
  BY <1>4
<1>7. final \in all /\ \A r \in all : final >= r
  BY <1>5
<1>8. all \subseteq Int
  BY <1>1, CardPagesAre DEF Card!SectorOf
<1>9. first = lo + 1 /\ final = hi
  <2>. HIDE DEF first, final, hi, all
  <2>. QED BY <1>4, <1>5, <1>6, <1>7, <1>8
<1>10. Card!Between(lo + 1, hi) = Card!SectorOf(p)
  BY <1>3, CardPagesAre DEF Card!Between
<1>. QED BY <1>2, <1>9, <1>10 DEF Card!Widened

-----------------------------------------------------------------------------
(* The card's side of a step. *)

LEMMA LoadIs ==
    ASSUME CardTypes, Card!ToldStays
    PROVE  /\ Card!Load = [p \in CardPages |-> Card!Load[p]] /\ Card!Load # Card!NotLoaded
           /\ array # Card!NotLoaded => Card!Load = array
           /\ \A p \in DOMAIN told : Card!Load[p] = told[p]
<1>1. \A f : f = [p \in CardPages |-> f[p]] => f # <<>>
  <2>1. 1 \in CardPages
    BY CardPagesAre
  <2>. QED BY <2>1
<1>2. CASE array # Card!NotLoaded
  BY <1>1, <1>2 DEF Card!Load, CardTypes, Card!ToldStays, Card!NotLoaded
<1>3. CASE array = Card!NotLoaded /\ c_file # Card!NoFile
  BY <1>1, <1>3 DEF Card!Load, CardTypes, Card!ToldStays, Card!NotLoaded, Card!NoFile
<1>4. CASE array = Card!NotLoaded /\ c_file = Card!NoFile
  BY <1>1, <1>4 DEF Card!Load, CardTypes, Card!ToldStays, Card!NotLoaded, Card!NoFile, Card!Erased
<1>. QED BY <1>2, <1>3, <1>4

LEMMA CsrDoes ==
    ASSUME CardTypes, NEW sel \in {-1, 0, 1},
           NEW ack \in BOOLEAN, NEW mask \in BOOLEAN,
           Card!CsrWrite(Card!Csr(sel, ack, mask))
    PROVE  LET done == channel.selected = 0 /\ sel # 0 /\ cmd \in Card!Writing
               rises == done /\ c_line.en /\ ~c_line.req
           IN /\ channel' \in
                     [selected : {-1, 0, 1}, begun : BOOLEAN, int : BOOLEAN, mask : BOOLEAN]
              /\ c_line' \in [en : BOOLEAN, req : BOOLEAN]
              /\ channel'.selected = sel /\ (channel'.begun => sel = channel.selected)
              /\ channel'.int <=> rises \/ (channel.int /\ ~ack)
              /\ channel'.mask = mask /\ c_line'.en = c_line.en
              /\ c_line'.req <=> c_line.req \/ rises
              /\ c_file' = IF done /\ dirty # {} THEN Card!Flushed ELSE c_file
              /\ dirty' = IF done THEN {} ELSE dirty
              /\ UNCHANGED <<array, cmd>>
<1>. DEFINE x == Card!Csr(sel, ack, mask)
            done == channel.selected = 0 /\ sel # 0 /\ cmd \in Card!Writing
            rises == done /\ c_line.en /\ ~c_line.req
<1>1. x.sel = sel /\ x.ack = ack /\ x.mask = mask
  BY DEF Card!Csr
<1>2. (Card!Deselects(x) /\ cmd \in Card!Writing) = done
  BY <1>1 DEF Card!Deselects
<1>3. channel' = [selected |-> sel, begun |-> sel = channel.selected /\ channel.begun,
                  int |-> rises \/ (channel.int /\ ~ack), mask |-> mask]
  BY <1>1, <1>2 DEF Card!CsrWrite
<1>4. c_line' = [c_line EXCEPT !.req = @ \/ rises]
  BY <1>1, <1>2 DEF Card!CsrWrite
<1>5. /\ channel' \in [selected : {-1, 0, 1}, begun : BOOLEAN, int : BOOLEAN, mask : BOOLEAN]
      /\ channel'.selected = sel /\ channel'.mask = mask
      /\ channel'.begun = (sel = channel.selected /\ channel.begun)
      /\ channel'.int = (rises \/ (channel.int /\ ~ack))
  <2>. HIDE DEF rises
  <2>1. rises \in BOOLEAN
    BY DEF rises
  <2>. QED BY <1>3, <2>1
<1>6. /\ c_line' \in [en : BOOLEAN, req : BOOLEAN]
      /\ c_line'.en = c_line.en /\ c_line'.req = (c_line.req \/ rises)
  <2>. HIDE DEF rises
  <2>1. rises \in BOOLEAN
    BY DEF rises
  <2>. QED BY <1>4, <2>1 DEF CardTypes
<1>7. /\ c_file' = (IF done /\ dirty # {} THEN Card!Flushed ELSE c_file)
      /\ dirty' = (IF done THEN {} ELSE dirty)
  BY <1>2 DEF Card!CsrWrite
<1>8. UNCHANGED <<array, cmd>>
  BY DEF Card!CsrWrite
<1>. QED BY <1>5, <1>6, <1>7, <1>8

\* What a write to the status register leaves when it frames no write.
CsrLeaves(sel, ack, mask) ==
    /\ CardTypes' /\ Card!ToldStays'
    /\ channel'.selected = sel /\ (channel'.begun => sel = channel.selected)
    /\ channel'.int <=> channel.int /\ ~ack
    /\ channel'.mask = mask /\ c_line'.en = c_line.en
    /\ c_line'.req <=> c_line.req
    /\ UNCHANGED <<c_file, dirty, array, cmd>>

LEMMA CsrQuiet ==
    ASSUME CardTypes, Card!ToldStays, NEW sel \in {-1, 0, 1},
           NEW ack \in BOOLEAN, NEW mask \in BOOLEAN,
           Card!CsrWrite(Card!Csr(sel, ack, mask)),
           channel.selected # 0 \/ sel = 0 \/ cmd \notin Card!Writing,
           UNCHANGED told, script' \in Seq(Steps)
    PROVE  CsrLeaves(sel, ack, mask)
  BY CsrDoes DEF CardTypes, Card!ToldStays, CsrLeaves

LEMMA XferDoes ==
    ASSUME CardTypes, Card!ToldStays, channel.selected = 0, ~channel.begun,
           NEW c \in {"enable", "read", "erase", "program", "status", "clear"},
           NEW p \in CardPages, Card!Transfer(Card!Xfer(c, p, Card!Blank))
    PROVE  /\ channel' \in [selected : {-1, 0, 1}, begun : BOOLEAN, int : BOOLEAN, mask : BOOLEAN]
           /\ c_line' \in [en : BOOLEAN, req : BOOLEAN]
           /\ channel'.selected = 0 /\ channel'.begun
           /\ channel'.int = channel.int /\ channel'.mask = channel.mask
           /\ c_line'.en = (c_line.en \/ c = "enable")
           /\ c_line'.req = (c_line.req /\ c # "clear")
           /\ cmd' = c
           /\ array' = IF c = "erase"
                       THEN [q \in CardPages |->
                                 IF q \in Card!SectorOf(p) THEN Card!Blank ELSE Card!Load[q]]
                       ELSE Card!Load
           /\ dirty' = IF c = "erase" THEN Card!Widened(Card!SectorOf(p)) ELSE dirty
<1>. DEFINE x == Card!Xfer(c, p, Card!Blank)
<1>1. x.cmd = c /\ x.page = p
  BY DEF Card!Xfer
<1>2. channel' = [channel EXCEPT !.begun = TRUE]
  BY DEF Card!Transfer
<1>3. c_line' = [en |-> c_line.en \/ c = "enable", req |-> c_line.req /\ c # "clear"]
  BY <1>1 DEF Card!Transfer, Card!Released
<1>4. /\ cmd' = c
      /\ array' = IF c = "erase"
                  THEN [q \in CardPages |->
                            IF q \in Card!EraseRange(p) THEN Card!Blank ELSE Card!Load[q]]
                  ELSE Card!Load
      /\ dirty' = IF c = "erase" THEN Card!Widened(Card!EraseRange(p)) ELSE dirty
  BY <1>1 DEF Card!Transfer
<1>. QED BY <1>2, <1>3, <1>4 DEF CardTypes, Card!EraseRange

\* What a transfer leaves that changes nothing on the card.
XferLeaves(c) ==
    /\ CardTypes' /\ Card!ToldStays'
    /\ channel'.selected = 0 /\ channel'.begun
    /\ channel'.int = channel.int /\ channel'.mask = channel.mask
    /\ c_line'.en <=> c_line.en \/ c = "enable"
    /\ c_line'.req <=> c_line.req /\ c # "clear"
    /\ cmd' = c /\ array' # Card!NotLoaded /\ UNCHANGED <<c_file, dirty>>
    /\ array # Card!NotLoaded => UNCHANGED array

LEMMA XferQuiet ==
    ASSUME CardTypes, Card!ToldStays, channel.selected = 0, ~channel.begun,
           NEW c \in {"enable", "read", "program", "status", "clear"},
           NEW p \in CardPages, Card!Transfer(Card!Xfer(c, p, Card!Blank)),
           UNCHANGED <<c_file, told>>, script' \in Seq(Steps)
    PROVE  XferLeaves(c)
<1>1. array' = Card!Load
  BY XferDoes
<1>2. Card!ToldStays'
  BY <1>1, LoadIs DEF Card!ToldStays
<1>3. CardTypes'
  BY <1>1, LoadIs, XferDoes DEF CardTypes
<1>. QED BY <1>1, <1>2, <1>3, LoadIs, XferDoes DEF XferLeaves

\* The other device of the channel: the image is read for SRAM.
LEMMA SramQuiet ==
    ASSUME CardTypes, Card!ToldStays, channel.selected = 1, NEW x, Card!Transfer(x),
           UNCHANGED <<c_file, told>>, script' \in Seq(Steps)
    PROVE  /\ CardTypes' /\ Card!ToldStays' /\ array' # Card!NotLoaded
           /\ channel'.selected = 1 /\ channel'.int = channel.int /\ channel'.mask = channel.mask
           /\ UNCHANGED <<c_line, dirty, cmd>>
<1>1. /\ array' = Card!Load /\ channel' = [channel EXCEPT !.begun = TRUE]
      /\ UNCHANGED <<c_line, dirty, cmd>>
  BY DEF Card!Transfer
<1>2. Card!ToldStays'
  BY <1>1, LoadIs DEF Card!ToldStays
<1>3. CardTypes'
  BY <1>1, LoadIs DEF CardTypes
<1>. QED BY <1>1, <1>2, <1>3, LoadIs DEF CardTypes

-----------------------------------------------------------------------------
(* The library's steps, by what is left of its script. *)

LEMMA OpIs ==
    ASSUME Card!LibraryStep
    PROVE  /\ script # <<>> /\ script' = Tail(script) /\ UNCHANGED <<job, told>>
           /\ \A sel, ack, mask :
                 Head(script) = Card!Csr(sel, ack, mask) => Card!CsrWrite(Card!Csr(sel, ack, mask))
           /\ \A c, p, v :
                 Head(script) = Card!Xfer(c, p, v)
                 => Card!Transfer(Card!Xfer(c, p, v)) /\ UNCHANGED c_file
<1>1. \A sel, ack, mask : Card!Csr(sel, ack, mask).op = "csr"
  BY DEF Card!Csr
<1>2. \A c, p, v : Card!Xfer(c, p, v).op = "xfer"
  BY DEF Card!Xfer
<1>. QED BY <1>1, <1>2 DEF Card!LibraryStep

LEMMA MountingGoesOn ==
    ASSUME CardTypes, Card!ToldStays, Mounting, Card!LibraryStep
    PROVE  CardTypes' /\ Card!ToldStays' /\ (Mounting' \/ Resting')
<1>. DEFINE n == Len(script)
<1>1. /\ n \in 1 .. 9 /\ script' \in Seq(Steps) /\ Rest(Card!Mount)' /\ Len(script') = n - 1
      /\ n = 1 <=> script' = <<>>
      /\ Head(script) = Card!Mount[10 - n]
  <2>1. 9 - n + 1 = 10 - n
    BY LenProperties DEF CardTypes
  <2>. QED BY <2>1, OpIs, MountIs, GoesOn DEF Mounting, CardTypes
<1>. HIDE DEF n
<1>2. 1 \in CardPages
  BY CardPagesAre
<1>3. UNCHANGED <<job, told>>
  BY OpIs
<1>4. /\ n = 9 => Head(script) = Card!Csr(1, FALSE, TRUE)
      /\ n = 8 => Head(script) = Card!Xfer("sram", 1, Card!Blank)
      /\ n = 7 => Head(script) = Card!Csr(-1, FALSE, TRUE)
      /\ n = 6 => Head(script) = Card!Csr(0, FALSE, TRUE)
      /\ n = 5 => Head(script) = Card!Xfer("enable", 1, Card!Blank)
      /\ n = 4 => Head(script) = Card!Csr(-1, FALSE, TRUE)
      /\ n = 3 => Head(script) = Card!Csr(0, FALSE, TRUE)
      /\ n = 2 => Head(script) = Card!Xfer("read", 1, Card!Blank)
      /\ n = 1 => Head(script) = Card!Csr(-1, FALSE, TRUE)
  <2>1. /\ n = 9 => Head(script) = Card!Mount[1]
        /\ n = 8 => Head(script) = Card!Mount[2]
        /\ n = 7 => Head(script) = Card!Mount[3]
        /\ n = 6 => Head(script) = Card!Mount[4]
        /\ n = 5 => Head(script) = Card!Mount[5]
        /\ n = 4 => Head(script) = Card!Mount[6]
        /\ n = 3 => Head(script) = Card!Mount[7]
        /\ n = 2 => Head(script) = Card!Mount[8]
        /\ n = 1 => Head(script) = Card!Mount[9]
    BY <1>1
  <2>. QED BY <2>1, MountIs
<1>5. CASE n = 9
  <2>1. Card!CsrWrite(Card!Csr(1, FALSE, TRUE))
    BY <1>4, <1>5, OpIs
  <2>2. channel.selected # 0 \/ cmd \notin Card!Writing
    BY <1>5 DEF Mounting, Left, n
  <2>3. CsrLeaves(1, FALSE, TRUE)
    BY <1>1, <1>3, <2>1, <2>2, CsrQuiet
  <2>. QED BY <1>1, <1>3, <1>5, <2>3 DEF CsrLeaves, Mounting, Resting, Low, Left, Ready, n
<1>6. CASE n = 8
  <2>1. Card!Transfer(Card!Xfer("sram", 1, Card!Blank)) /\ UNCHANGED c_file
    BY <1>4, <1>6, OpIs
  <2>2. channel.selected = 1
    BY <1>6 DEF Mounting, Left, n
  <2>3. /\ CardTypes' /\ Card!ToldStays' /\ array' # Card!NotLoaded
        /\ channel'.selected = 1 /\ channel'.int = channel.int /\ channel'.mask = channel.mask
        /\ UNCHANGED <<c_line, dirty, cmd>>
    BY <1>1, <1>3, <2>1, <2>2, SramQuiet
  <2>. QED BY <1>1, <1>3, <1>6, <2>3 DEF Mounting, Low, Left, Ready, n
<1>7. CASE n = 7
  <2>1. Card!CsrWrite(Card!Csr(-1, FALSE, TRUE))
    BY <1>4, <1>7, OpIs
  <2>2. channel.selected # 0 \/ cmd \notin Card!Writing
    BY <1>7 DEF Mounting, Left, n
  <2>3. CsrLeaves(-1, FALSE, TRUE)
    BY <1>1, <1>3, <2>1, <2>2, CsrQuiet
  <2>. QED BY <1>1, <1>3, <1>7, <2>3 DEF CsrLeaves, Mounting, Resting, Low, Left, Ready, n
<1>8. CASE n = 6
  <2>1. Card!CsrWrite(Card!Csr(0, FALSE, TRUE))
    BY <1>4, <1>8, OpIs
  <2>2. 0 \in {-1, 0, 1}
    OBVIOUS
  <2>3. CsrLeaves(0, FALSE, TRUE)
    BY <1>1, <1>3, <2>1, <2>2, CsrQuiet
  <2>. QED BY <1>1, <1>3, <1>8, <2>3 DEF CsrLeaves, Mounting, Resting, Low, Left, Ready, n
<1>9. CASE n = 5
  <2>1. Card!Transfer(Card!Xfer("enable", 1, Card!Blank)) /\ UNCHANGED c_file
    BY <1>4, <1>9, OpIs
  <2>2. XferLeaves("enable")
    BY <1>1, <1>2, <1>3, <1>9, <2>1, XferQuiet DEF Mounting, Left, n
  <2>. QED BY <1>1, <1>3, <1>9, <2>2 DEF XferLeaves, Mounting, Low, Left, Ready, Card!Writing, n
<1>10. CASE n = 4
  <2>1. Card!CsrWrite(Card!Csr(-1, FALSE, TRUE))
    BY <1>4, <1>10, OpIs
  <2>2. channel.selected # 0 \/ cmd \notin Card!Writing
    BY <1>10 DEF Mounting, Left, n
  <2>3. CsrLeaves(-1, FALSE, TRUE)
    BY <1>1, <1>3, <2>1, <2>2, CsrQuiet
  <2>. QED BY <1>1, <1>3, <1>10, <2>3 DEF CsrLeaves, Mounting, Resting, Low, Left, Ready, n
<1>11. CASE n = 3
  <2>1. Card!CsrWrite(Card!Csr(0, FALSE, TRUE))
    BY <1>4, <1>11, OpIs
  <2>2. 0 \in {-1, 0, 1}
    OBVIOUS
  <2>3. CsrLeaves(0, FALSE, TRUE)
    BY <1>1, <1>3, <2>1, <2>2, CsrQuiet
  <2>. QED BY <1>1, <1>3, <1>11, <2>3 DEF CsrLeaves, Mounting, Resting, Low, Left, Ready, n
<1>12. CASE n = 2
  <2>1. Card!Transfer(Card!Xfer("read", 1, Card!Blank)) /\ UNCHANGED c_file
    BY <1>4, <1>12, OpIs
  <2>2. XferLeaves("read")
    BY <1>1, <1>2, <1>3, <1>12, <2>1, XferQuiet DEF Mounting, Left, n
  <2>. QED BY <1>1, <1>3, <1>12, <2>2 DEF XferLeaves, Mounting, Low, Left, Ready, Card!Writing, n
<1>13. CASE n = 1
  <2>1. Card!CsrWrite(Card!Csr(-1, FALSE, TRUE))
    BY <1>4, <1>13, OpIs
  <2>2. channel.selected # 0 \/ cmd \notin Card!Writing
    BY <1>13 DEF Mounting, Left, n
  <2>3. CsrLeaves(-1, FALSE, TRUE)
    BY <1>1, <1>3, <2>1, <2>2, CsrQuiet
  <2>. QED BY <1>1, <1>3, <1>13, <2>3 DEF CsrLeaves, Mounting, Resting, Low, Left, Ready, n
<1>. QED BY <1>1, <1>5, <1>6, <1>7, <1>8, <1>9, <1>10, <1>11, <1>12, <1>13

LEMMA HandlingGoesOn ==
    ASSUME CardTypes, Card!ToldStays, Handling, Card!LibraryStep
    PROVE  CardTypes' /\ Card!ToldStays' /\ (Handling' \/ Resting')
<1>. DEFINE n == Len(script)
<1>1. /\ n \in 1 .. 7 /\ script' \in Seq(Steps) /\ Rest(Card!Handler)' /\ Len(script') = n - 1
      /\ n = 1 <=> script' = <<>>
      /\ Head(script) = Card!Handler[8 - n]
  <2>1. 7 - n + 1 = 8 - n
    BY LenProperties DEF CardTypes
  <2>. QED BY <2>1, OpIs, HandlerIs, GoesOn DEF Handling, CardTypes
<1>. HIDE DEF n
<1>2. 1 \in CardPages
  BY CardPagesAre
<1>3. UNCHANGED <<job, told>>
  BY OpIs
<1>4. /\ n = 7 => Head(script) = Card!Csr(-1, TRUE, FALSE)
      /\ n = 6 => Head(script) = Card!Csr(0, FALSE, FALSE)
      /\ n = 5 => Head(script) = Card!Xfer("status", 1, Card!Blank)
      /\ n = 4 => Head(script) = Card!Csr(-1, FALSE, FALSE)
      /\ n = 3 => Head(script) = Card!Csr(0, FALSE, FALSE)
      /\ n = 2 => Head(script) = Card!Xfer("clear", 1, Card!Blank)
      /\ n = 1 => Head(script) = Card!Csr(-1, FALSE, TRUE)
  <2>1. /\ n = 7 => Head(script) = Card!Handler[1]
        /\ n = 6 => Head(script) = Card!Handler[2]
        /\ n = 5 => Head(script) = Card!Handler[3]
        /\ n = 4 => Head(script) = Card!Handler[4]
        /\ n = 3 => Head(script) = Card!Handler[5]
        /\ n = 2 => Head(script) = Card!Handler[6]
        /\ n = 1 => Head(script) = Card!Handler[7]
    BY <1>1
  <2>. QED BY <2>1, HandlerIs
<1>5. CASE n = 7
  <2>1. Card!CsrWrite(Card!Csr(-1, TRUE, FALSE))
    BY <1>4, <1>5, OpIs
  <2>2. channel.selected # 0 \/ cmd \notin Card!Writing
    BY <1>5 DEF Handling, Left, n
  <2>3. CsrLeaves(-1, TRUE, FALSE)
    BY <1>1, <1>3, <2>1, <2>2, CsrQuiet
  <2>. QED BY <1>1, <1>3, <1>5, <2>3 DEF CsrLeaves, Handling, Resting, Low, Left, Ready, n
<1>6. CASE n = 6
  <2>1. Card!CsrWrite(Card!Csr(0, FALSE, FALSE))
    BY <1>4, <1>6, OpIs
  <2>2. 0 \in {-1, 0, 1}
    OBVIOUS
  <2>3. CsrLeaves(0, FALSE, FALSE)
    BY <1>1, <1>3, <2>1, <2>2, CsrQuiet
  <2>. QED BY <1>1, <1>3, <1>6, <2>3 DEF CsrLeaves, Handling, Resting, Low, Left, Ready, n
<1>7. CASE n = 5
  <2>1. Card!Transfer(Card!Xfer("status", 1, Card!Blank)) /\ UNCHANGED c_file
    BY <1>4, <1>7, OpIs
  <2>2. XferLeaves("status")
    BY <1>1, <1>2, <1>3, <1>7, <2>1, XferQuiet DEF Handling, Left, n
  <2>. QED BY <1>1, <1>3, <1>7, <2>2 DEF XferLeaves, Handling, Low, Left, Ready, Card!Writing, n
<1>8. CASE n = 4
  <2>1. Card!CsrWrite(Card!Csr(-1, FALSE, FALSE))
    BY <1>4, <1>8, OpIs
  <2>2. channel.selected # 0 \/ cmd \notin Card!Writing
    BY <1>8 DEF Handling, Left, n
  <2>3. CsrLeaves(-1, FALSE, FALSE)
    BY <1>1, <1>3, <2>1, <2>2, CsrQuiet
  <2>. QED BY <1>1, <1>3, <1>8, <2>3 DEF CsrLeaves, Handling, Resting, Low, Left, Ready, n
<1>9. CASE n = 3
  <2>1. Card!CsrWrite(Card!Csr(0, FALSE, FALSE))
    BY <1>4, <1>9, OpIs
  <2>2. 0 \in {-1, 0, 1}
    OBVIOUS
  <2>3. CsrLeaves(0, FALSE, FALSE)
    BY <1>1, <1>3, <2>1, <2>2, CsrQuiet
  <2>. QED BY <1>1, <1>3, <1>9, <2>3 DEF CsrLeaves, Handling, Resting, Low, Left, Ready, n
<1>10. CASE n = 2
  <2>1. Card!Transfer(Card!Xfer("clear", 1, Card!Blank)) /\ UNCHANGED c_file
    BY <1>4, <1>10, OpIs
  <2>2. XferLeaves("clear")
    BY <1>1, <1>2, <1>3, <1>10, <2>1, XferQuiet DEF Handling, Left, n
  <2>. QED BY <1>1, <1>3, <1>10, <2>2 DEF XferLeaves, Handling, Low, Left, Ready, Card!Writing, n
<1>11. CASE n = 1
  <2>1. Card!CsrWrite(Card!Csr(-1, FALSE, TRUE))
    BY <1>4, <1>11, OpIs
  <2>2. channel.selected # 0 \/ cmd \notin Card!Writing
    BY <1>11 DEF Handling, Left, n
  <2>3. CsrLeaves(-1, FALSE, TRUE)
    BY <1>1, <1>3, <2>1, <2>2, CsrQuiet
  <2>. QED BY <1>1, <1>3, <1>11, <2>3 DEF CsrLeaves, Handling, Resting, Low, Left, Ready, n
<1>. QED BY <1>1, <1>5, <1>6, <1>7, <1>8, <1>9, <1>10, <1>11

\* The deselect that frames a write: the file, and the line.
LEMMA WriteFramed ==
    ASSUME CardTypes, Card!ToldStays, Ready, Low, Card!CsrWrite(Card!Csr(-1, FALSE, TRUE)),
           channel.selected = 0, cmd \in Card!Writing, dirty = DOMAIN job, dirty # {},
           DOMAIN job \subseteq CardPages, \A q \in DOMAIN job : array[q] = job[q],
           script' = <<>>, UNCHANGED <<told, job>>
    PROVE  CardTypes' /\ Card!ToldStays' /\ Raised'
<1>1. /\ channel' \in [selected : {-1, 0, 1}, begun : BOOLEAN, int : BOOLEAN, mask : BOOLEAN]
      /\ c_line' \in [en : BOOLEAN, req : BOOLEAN]
      /\ channel'.selected = -1 /\ channel'.int /\ channel'.mask /\ c_line'.en
      /\ c_file' = Card!Flushed /\ dirty' = {} /\ UNCHANGED array
  <2>. DEFINE done == channel.selected = 0 /\ -1 # 0 /\ cmd \in Card!Writing
              rises == done /\ c_line.en /\ ~c_line.req
  <2>1. done /\ rises
    BY DEF Ready, Low
  <2>2. /\ channel' \in [selected : {-1, 0, 1}, begun : BOOLEAN, int : BOOLEAN, mask : BOOLEAN]
        /\ c_line' \in [en : BOOLEAN, req : BOOLEAN]
        /\ channel'.selected = -1 /\ channel'.mask = TRUE /\ c_line'.en = c_line.en
        /\ channel'.int <=> rises \/ (channel.int /\ ~FALSE)
        /\ c_file' = IF done /\ dirty # {} THEN Card!Flushed ELSE c_file
        /\ dirty' = IF done THEN {} ELSE dirty
        /\ UNCHANGED array
    BY CsrDoes
  <2>. QED BY <2>1, <2>2 DEF Ready
<1>2. /\ Card!Flushed = [q \in CardPages |-> Card!Flushed[q]]
      /\ \A q \in DOMAIN job : Card!Flushed[q] = array[q]
      /\ c_file # Card!NoFile => \A q \in DOMAIN told : Card!Flushed[q] = told[q]
  BY DEF CardTypes, Card!ToldStays, Card!Flushed, Ready
<1>3. Card!Flushed # Card!NoFile
  <2>1. 1 \in CardPages
    BY CardPagesAre
  <2>. QED BY <1>2, <2>1 DEF Card!NoFile
<1>4. <<>> \in Seq(Steps)
  BY EmptySeq
<1>5. CardTypes'
  BY <1>1, <1>2, <1>4 DEF CardTypes
<1>6. Card!ToldStays'
  BY <1>1, <1>2, <1>3 DEF Card!ToldStays
<1>7. Raised'
  BY <1>1, <1>2, <1>3 DEF Raised, Ready
<1>. QED BY <1>5, <1>6, <1>7

LEMMA ErasingGoesOn ==
    ASSUME CardTypes, Card!ToldStays, NEW p \in CardPages, Erasing(p), Card!LibraryStep
    PROVE  CardTypes' /\ Card!ToldStays' /\ (Erasing(p)' \/ Raised')
<1>. DEFINE n == Len(script)
            s == Card!Framed("erase", p, Card!Blank)
<1>1. /\ n \in 1 .. 3 /\ script' \in Seq(Steps) /\ Rest(s)' /\ Len(script') = n - 1
      /\ n = 1 <=> script' = <<>>
      /\ Head(script) = s[4 - n]
  <2>1. 3 - n + 1 = 4 - n
    BY LenProperties DEF CardTypes
  <2>2. s \in Seq(Steps) /\ Len(s) = 3
    BY FramedIs
  <2>. HIDE DEF s
  <2>. QED BY <2>1, <2>2, OpIs, GoesOn DEF Erasing, CardTypes, s
<1>2. /\ n = 3 => Head(script) = Card!Csr(0, FALSE, TRUE)
      /\ n = 2 => Head(script) = Card!Xfer("erase", p, Card!Blank)
      /\ n = 1 => Head(script) = Card!Csr(-1, FALSE, TRUE)
  <2>1. /\ n = 3 => Head(script) = s[1]
        /\ n = 2 => Head(script) = s[2]
        /\ n = 1 => Head(script) = s[3]
    <3>. HIDE DEF n, s
    <3>. QED BY <1>1
  <2>. QED BY <2>1, FramedIs
<1>. HIDE DEF n
<1>3. UNCHANGED <<job, told>>
  BY OpIs
<1>4. CASE n = 3
  <2>1. Card!CsrWrite(Card!Csr(0, FALSE, TRUE))
    BY <1>2, <1>4, OpIs
  <2>2. CsrLeaves(0, FALSE, TRUE)
    BY <1>1, <1>3, <2>1, CsrQuiet
  <2>. QED BY <1>1, <1>3, <1>4, <2>2 DEF CsrLeaves, Erasing, Apart, Low, Left, Ready, n
<1>5. CASE n = 2
  <2>1. Card!Transfer(Card!Xfer("erase", p, Card!Blank)) /\ UNCHANGED c_file
    BY <1>2, <1>5, OpIs
  <2>2. channel.selected = 0 /\ ~channel.begun /\ dirty = {}
    BY <1>5 DEF Erasing, Left, n
  <2>3. /\ channel' \in [selected : {-1, 0, 1}, begun : BOOLEAN, int : BOOLEAN, mask : BOOLEAN]
        /\ c_line' \in [en : BOOLEAN, req : BOOLEAN]
        /\ channel'.selected = 0 /\ channel'.int = channel.int /\ channel'.mask = channel.mask
        /\ c_line'.en = c_line.en /\ c_line'.req = c_line.req /\ cmd' = "erase"
        /\ array' = [q \in CardPages |->
                       IF q \in Card!SectorOf(p) THEN Card!Blank ELSE Card!Load[q]]
        /\ dirty' = Card!Widened(Card!SectorOf(p))
    BY <2>1, <2>2, XferDoes DEF CardTypes
  <2>4. dirty' = Card!SectorOf(p) /\ Card!SectorOf(p) \subseteq CardPages
    BY <2>2, <2>3, WidenedSector DEF Card!SectorOf
  <2>5. array' = [q \in CardPages |-> array'[q]] /\ array' # Card!NotLoaded
    <3>1. 1 \in CardPages
      BY CardPagesAre
    <3>. QED BY <2>3, <3>1 DEF Card!NotLoaded
  <2>6. CardTypes'
    BY <1>1, <1>3, <2>1, <2>3, <2>5 DEF CardTypes
  <2>7. \A q \in DOMAIN told : q \in CardPages /\ q \notin Card!SectorOf(p)
    BY DEF CardTypes, Erasing, Apart
  <2>8. Card!ToldStays'
    BY <1>3, <2>1, <2>3, <2>7, LoadIs DEF Card!ToldStays
  <2>9. \A q \in Card!SectorOf(p) : array'[q] = Card!Blank
    BY <2>3, <2>4
  <2>. QED BY <1>1, <1>3, <1>5, <2>3, <2>4, <2>5, <2>6, <2>8, <2>9
           DEF Erasing, Apart, Low, Left, Ready, n
<1>6. CASE n = 1
  <2>1. Card!CsrWrite(Card!Csr(-1, FALSE, TRUE))
    BY <1>2, <1>6, OpIs
  <2>2. /\ Ready /\ Low /\ channel.selected = 0 /\ cmd \in Card!Writing
        /\ job = [q \in Card!SectorOf(p) |-> Card!Blank] /\ dirty = Card!SectorOf(p)
        /\ \A q \in Card!SectorOf(p) : array[q] = Card!Blank
    BY <1>6 DEF Erasing, Left, Card!Writing, n
  <2>3. p \in Card!SectorOf(p) /\ Card!SectorOf(p) \subseteq CardPages
    BY DEF Card!SectorOf
  <2>4. /\ dirty = DOMAIN job /\ dirty # {} /\ DOMAIN job \subseteq CardPages
        /\ \A q \in DOMAIN job : array[q] = job[q]
    BY <2>2, <2>3
  <2>. QED BY <1>1, <1>3, <1>6, <2>1, <2>2, <2>4, WriteFramed
<1>. QED BY <1>1, <1>4, <1>5, <1>6

LEMMA ProgramDoes ==
    ASSUME CardTypes, Card!ToldStays, channel.selected = 0, channel.begun, cmd = "program",
           NEW p \in CardPages, NEW v, Card!Transfer(Card!Xfer("program", p, v)), Ready, dirty = {},
           array[p] = Card!Blank
    PROVE  /\ channel' \in [selected : {-1, 0, 1}, begun : BOOLEAN, int : BOOLEAN, mask : BOOLEAN]
           /\ c_line' \in [en : BOOLEAN, req : BOOLEAN]
           /\ channel'.selected = 0 /\ channel'.int = channel.int /\ channel'.mask = channel.mask
           /\ c_line'.en = c_line.en /\ c_line'.req = c_line.req /\ cmd' = "program"
           /\ array' = [array EXCEPT ![p] = v] /\ dirty' = {p}
<1>. DEFINE x == Card!Xfer("program", p, v)
<1>1. x.cmd = "program" /\ x.page = p /\ x.value = v
  BY DEF Card!Xfer
<1>2. channel' = [channel EXCEPT !.begun = TRUE]
  BY DEF Card!Transfer
<1>3. c_line' = [en |-> c_line.en \/ "program" = "enable",
                req |-> c_line.req /\ "program" # "clear"]
  BY <1>1 DEF Card!Transfer, Card!Released
<1>4. /\ cmd' = "program" /\ dirty' = Card!Widened({p})
      /\ array' = [Card!Load EXCEPT ![p] = Card!And(Card!Load[p], v)]
  BY <1>1 DEF Card!Transfer
<1>5. Card!Load = array /\ Card!And(array[p], v) = v
  BY DEF Card!Load, Ready, Card!And
<1>. QED BY <1>2, <1>3, <1>4, <1>5, WidenedPage DEF CardTypes

LEMMA ProgrammingGoesOn ==
    ASSUME CardTypes, Card!ToldStays, NEW p \in CardPages, NEW v \in Values \cup Card!Ids,
           Programming(p, v), Card!LibraryStep
    PROVE  CardTypes' /\ Card!ToldStays' /\ (Programming(p, v)' \/ Raised')
<1>. DEFINE n == Len(script)
            s == Card!ProgramOf(p, v)
<1>1. /\ n \in 1 .. 4 /\ script' \in Seq(Steps) /\ Rest(s)' /\ Len(script') = n - 1
      /\ n = 1 <=> script' = <<>>
      /\ Head(script) = s[5 - n]
  <2>1. 4 - n + 1 = 5 - n
    BY LenProperties DEF CardTypes
  <2>2. s \in Seq(Steps) /\ Len(s) = 4
    BY ProgramIs
  <2>. HIDE DEF s
  <2>. QED BY <2>1, <2>2, OpIs, GoesOn DEF Programming, CardTypes, s
<1>2. /\ n = 4 => Head(script) = Card!Csr(0, FALSE, TRUE)
      /\ n = 3 => Head(script) = Card!Xfer("program", p, Card!Blank)
      /\ n = 2 => Head(script) = Card!Xfer("program", p, v)
      /\ n = 1 => Head(script) = Card!Csr(-1, FALSE, TRUE)
  <2>1. /\ n = 4 => Head(script) = s[1]
        /\ n = 3 => Head(script) = s[2]
        /\ n = 2 => Head(script) = s[3]
        /\ n = 1 => Head(script) = s[4]
    <3>. HIDE DEF n, s
    <3>. QED BY <1>1
  <2>. QED BY <2>1, ProgramIs
<1>. HIDE DEF n
<1>3. UNCHANGED <<job, told>>
  BY OpIs
<1>4. CASE n = 4
  <2>1. Card!CsrWrite(Card!Csr(0, FALSE, TRUE))
    BY <1>2, <1>4, OpIs
  <2>2. CsrLeaves(0, FALSE, TRUE)
    BY <1>1, <1>3, <2>1, CsrQuiet
  <2>. QED BY <1>1, <1>3, <1>4, <2>2 DEF CsrLeaves, Programming, Apart, Low, Left, Ready, n
<1>5. CASE n = 3
  <2>1. Card!Transfer(Card!Xfer("program", p, Card!Blank)) /\ UNCHANGED c_file
    BY <1>2, <1>5, OpIs
  <2>2. channel.selected = 0 /\ ~channel.begun
    BY <1>5 DEF Programming, Left, n
  <2>3. XferLeaves("program")
    BY <1>1, <1>3, <2>1, <2>2, XferQuiet
  <2>. QED BY <1>1, <1>3, <1>5, <2>3 DEF XferLeaves, Programming, Apart, Low, Left, Ready, n
<1>6. CASE n = 2
  <2>1. Card!Transfer(Card!Xfer("program", p, v)) /\ UNCHANGED c_file
    BY <1>2, <1>6, OpIs
  <2>2. /\ channel.selected = 0 /\ channel.begun /\ cmd = "program" /\ Ready /\ Low /\ dirty = {}
        /\ array[p] = Card!Blank
    BY <1>6 DEF Programming, Left, n
  <2>3. /\ channel' \in [selected : {-1, 0, 1}, begun : BOOLEAN, int : BOOLEAN, mask : BOOLEAN]
        /\ c_line' \in [en : BOOLEAN, req : BOOLEAN]
        /\ channel'.selected = 0 /\ channel'.int = channel.int /\ channel'.mask = channel.mask
        /\ c_line'.en = c_line.en /\ c_line'.req = c_line.req /\ cmd' = "program"
        /\ array' = [array EXCEPT ![p] = v] /\ dirty' = {p}
    BY <2>1, <2>2, ProgramDoes
  <2>4. DOMAIN array = CardPages
    BY <2>2 DEF CardTypes, Ready
  <2>5. array' = [q \in CardPages |-> array'[q]] /\ array' # Card!NotLoaded /\ array'[p] = v
    <3>1. \A f : f = [q \in CardPages |-> f[q]] => f # <<>>
      BY CardPagesAre, 1 \in CardPages
    <3>. QED BY <2>3, <2>4, <3>1 DEF Card!NotLoaded
  <2>6. CardTypes'
    BY <1>1, <1>3, <2>1, <2>3, <2>5 DEF CardTypes
  <2>7. p \notin DOMAIN told /\ DOMAIN told \subseteq CardPages
    BY DEF CardTypes, Programming, Apart
  <2>8. Card!ToldStays'
    BY <1>3, <2>1, <2>2, <2>3, <2>4, <2>7 DEF Card!ToldStays, Ready
  <2>. QED BY <1>1, <1>3, <1>6, <2>2, <2>3, <2>5, <2>6, <2>8
           DEF Programming, Apart, Low, Left, Ready, n
<1>7. CASE n = 1
  <2>1. Card!CsrWrite(Card!Csr(-1, FALSE, TRUE))
    BY <1>2, <1>7, OpIs
  <2>2. /\ Ready /\ Low /\ channel.selected = 0 /\ cmd \in Card!Writing
        /\ job = [q \in {p} |-> v] /\ dirty = {p} /\ array[p] = v
    BY <1>7 DEF Programming, Left, Card!Writing, n
  <2>3. /\ dirty = DOMAIN job /\ dirty # {} /\ DOMAIN job \subseteq CardPages
        /\ \A q \in DOMAIN job : array[q] = job[q]
    BY <2>2
  <2>. QED BY <1>1, <1>3, <1>7, <2>1, <2>2, <2>3, WriteFramed
<1>. QED BY <1>1, <1>4, <1>5, <1>6, <1>7

-----------------------------------------------------------------------------
(* The other steps, and the invariant. *)

LEMMA LibraryStepKeeps == CardInv /\ Card!LibraryStep => CardInv'
<1>. SUFFICES ASSUME CardInv, Card!LibraryStep PROVE CardInv'
  OBVIOUS
<1>. USE DEF CardInv, Phase
<1>1. CASE Mounting
  BY <1>1, MountingGoesOn
<1>2. CASE Resting \/ Raised
  BY <1>2, OpIs DEF Resting, Raised
<1>3. CASE Handling
  BY <1>3, HandlingGoesOn
<1>4. ASSUME NEW p \in CardPages, Erasing(p) PROVE CardInv'
  BY <1>4, ErasingGoesOn
<1>5. ASSUME NEW p \in CardPages, NEW v \in Values \cup Card!Ids, Programming(p, v) PROVE CardInv'
  BY <1>5, ProgrammingGoesOn
<1>. QED BY <1>1, <1>2, <1>3, <1>4, <1>5

LEMMA Quiescent ==
    ASSUME channel = Card!Quiet, c_line = [en |-> FALSE, req |-> FALSE], dirty = {}, cmd = "none",
           script = Card!Mount, job = Card!NoJob
    PROVE  Mounting
<1>1. Len(script) = 9 /\ script # <<>> /\ Rest(Card!Mount)
  <2>1. Card!Mount \in Seq(Steps) /\ Len(Card!Mount) = 9
    BY MountIs
  <2>2. script = Card!Mount
    OBVIOUS
  <2>. HIDE DEF Card!Mount
  <2>3. Len(script) # 0 /\ script \in Seq(Steps)
    BY <2>1, <2>2
  <2>4. script # <<>>
    BY <2>3, EmptySeq
  <2>. QED BY <2>1, <2>2, <2>4 DEF Rest
<1>. QED BY <1>1 DEF Mounting, Low, Left, Card!Quiet, Card!Writing

LEMMA CardInit == Card!Init => CardInv
<1>. SUFFICES ASSUME Card!Init PROVE CardInv
  OBVIOUS
<1>1. Mounting
  BY Quiescent DEF Card!Init
<1>2. CardTypes
  <2>1. <<>> = [p \in {} |-> told[p]] /\ DOMAIN <<>> = {}
    OBVIOUS
  <2>2. c_file = Card!NoFile \/ c_file = [p \in CardPages |-> c_file[p]]
    BY DEF Card!Init, Card!Erased
  <2>. QED BY <2>1, <2>2, MountIs DEF Card!Init, CardTypes, Card!Quiet
<1>3. Card!ToldStays
  BY DEF Card!Init, Card!ToldStays
<1>. QED BY <1>1, <1>2, <1>3 DEF CardInv, Phase

LEMMA InterruptKeeps == CardInv /\ Card!InterruptTaken => CardInv'
<1>. SUFFICES ASSUME CardInv, Card!InterruptTaken PROVE CardInv'
  OBVIOUS
<1>1. Raised
  BY DEF CardInv, Phase, Card!InterruptTaken, Mounting, Resting, Low, Handling, Erasing, Programming
<1>2. /\ told' = [p \in DOMAIN job \cup DOMAIN told |->
                  IF p \in DOMAIN job THEN job[p] ELSE told[p]]
      /\ UNCHANGED <<c_file, array, channel, cmd, c_line, dirty, sram>>
      /\ script' = Card!Handler /\ job' = Card!NoJob
  BY DEF Card!InterruptTaken, Card!card
<1>3. Rest(Card!Handler)' /\ Len(script') = 7 /\ script' # <<>>
  <2>1. Card!Handler \in Seq(Steps) /\ Len(Card!Handler) = 7
    BY HandlerIs
  <2>2. script' = Card!Handler
    BY <1>2
  <2>3. Rest(Card!Handler)' /\ Len(script') = Len(Card!Handler)
    BY <2>1, <2>2, Starts
  <2>4. Len(script') # 0
    BY <2>1, <2>3
  <2>5. script' # <<>>
    BY <2>1, <2>2, Starts
  <2>. QED BY <2>1, <2>3, <2>5
<1>4. Handling'
  BY <1>1, <1>2, <1>3 DEF Handling, Raised, Ready, Left
<1>5. CardTypes'
  BY <1>1, <1>2, HandlerIs DEF CardInv, CardTypes, Raised
<1>6. Card!ToldStays'
  BY <1>1, <1>2 DEF CardInv, Card!ToldStays, Raised
<1>. QED BY <1>4, <1>5, <1>6 DEF CardInv, Phase

LEMMA EraseKeeps == ASSUME NEW p \in CardPages, CardInv, Card!EraseSector(p) PROVE CardInv'
<1>1. Resting
  BY DEF CardInv, Phase, Card!EraseSector, Card!Free, Mounting, Raised, Handling, Erasing,
         Programming
<1>2. /\ UNCHANGED <<c_file, array, channel, cmd, c_line, dirty, sram>>
      /\ script' = Card!Framed("erase", p, Card!Blank)
      /\ job' = [q \in Card!SectorOf(p) |-> Card!Blank]
      /\ told' = [q \in (DOMAIN told) \ Card!SectorOf(p) |-> told[q]]
  BY DEF Card!EraseSector, Card!Forget, Card!card
<1>3. /\ Rest(Card!Framed("erase", p, Card!Blank))'
      /\ Len(script') = 3
      /\ script' # <<>>
      /\ script' \in Seq(Steps)
  <2>. DEFINE s == Card!Framed("erase", p, Card!Blank)
  <2>1. s \in Seq(Steps) /\ Len(s) = 3
    BY FramedIs
  <2>2. script' = s
    BY <1>2
  <2>. HIDE DEF s
  <2>3. /\ script' \in Seq(Steps)
        /\ Rest(s)'
        /\ Len(script') = Len(s)
        /\ (Len(s) # 0 => script' # <<>>)
    BY <2>1, <2>2, Starts
  <2>. QED BY <2>1, <2>3 DEF s
<1>4. Card!SectorOf(p) \subseteq CardPages
  BY DEF Card!SectorOf
<1>5. Erasing(p)'
  <2>1. Apart'
    BY <1>2, <1>4 DEF Apart
  <2>2. Low' /\ Ready'
    BY <1>1, <1>2 DEF Resting, Low, Ready
  <2>3. channel'.selected = -1 /\ dirty' = {}
    BY <1>1, <1>2 DEF Resting
  <2>4. ~Left({1})' /\ ~Left({2})' /\ Left({3})'
    BY <1>3 DEF Left
  <2>5. /\ job' = [q \in Card!SectorOf(p) |-> Card!Blank]
        /\ script' # <<>>
        /\ Rest(Card!Framed("erase", p, Card!Blank))'
    BY <1>2, <1>3
  <2>. QED BY <2>1, <2>2, <2>3, <2>4, <2>5 DEF Erasing
<1>6. CardTypes' /\ Card!ToldStays'
  BY <1>2, <1>3 DEF CardInv, CardTypes, Card!ToldStays
<1>. QED BY <1>5, <1>6 DEF CardInv, Phase

LEMMA ProgramKeeps ==
    ASSUME NEW p \in CardPages, NEW v \in Values \cup Card!Ids, CardInv, Card!ProgramPage(p, v)
    PROVE  CardInv'
<1>1. Resting /\ array[p] = Card!Blank
  BY DEF CardInv, Phase, Card!ProgramPage, Card!Free, Mounting, Raised, Handling, Erasing,
         Programming
<1>2. /\ UNCHANGED <<c_file, array, channel, cmd, c_line, dirty, sram>>
      /\ script' = Card!ProgramOf(p, v) /\ job' = [q \in {p} |-> v]
      /\ told' = [q \in (DOMAIN told) \ {p} |-> told[q]]
  BY DEF Card!ProgramPage, Card!Forget, Card!card
<1>3. Rest(Card!ProgramOf(p, v))' /\ Len(script') = 4 /\ script' # <<>> /\ script' \in Seq(Steps)
  <2>. DEFINE s == Card!ProgramOf(p, v)
  <2>1. s \in Seq(Steps) /\ Len(s) = 4
    BY ProgramIs
  <2>2. script' = s
    BY <1>2
  <2>. HIDE DEF s
  <2>3. /\ script' \in Seq(Steps)
        /\ Rest(s)'
        /\ Len(script') = Len(s)
        /\ (Len(s) # 0 => script' # <<>>)
    BY <2>1, <2>2, Starts
  <2>. QED BY <2>1, <2>3 DEF s
<1>4. Programming(p, v)'
  BY <1>1, <1>2, <1>3 DEF Programming, Resting, Apart, Low, Ready, Left
<1>5. CardTypes' /\ Card!ToldStays'
  BY <1>2, <1>3 DEF CardInv, CardTypes, Card!ToldStays
<1>. QED BY <1>4, <1>5 DEF CardInv, Phase

\* A kill tears a page only of what was being written, which was told of to nobody.
LEMMA KillKeeps == CardInv /\ Card!Killed => CardInv'
<1>. SUFFICES ASSUME CardInv, Card!Killed PROVE CardInv'
  OBVIOUS
<1>1. Mounting'
  <2>1. Card!Mount \in Seq(Steps) /\ Len(Card!Mount) = 9
    BY MountIs
  <2>2. script' = Card!Mount
    BY DEF Card!Killed
  <2>3. /\ Rest(Card!Mount)'
        /\ Len(script') = Len(Card!Mount)
        /\ (Len(Card!Mount) # 0 => script' # <<>>)
    BY <2>1, <2>2, Starts
  <2>4. Rest(Card!Mount)' /\ Len(script') = 9 /\ script' # <<>>
    BY <2>1, <2>3
  <2>. QED BY <2>4 DEF Card!Killed, Mounting, Low, Left, Card!Quiet, Card!Writing
<1>2. /\ array' = Card!NotLoaded /\ channel' = Card!Quiet /\ c_line' = [en |-> FALSE, req |-> FALSE]
      /\ script' = Card!Mount /\ UNCHANGED told
  BY DEF Card!Killed
<1>3. dirty \cap DOMAIN told = {}
  <2>1. CASE Mounting \/ Resting \/ Raised \/ Handling
    BY <2>1 DEF Mounting, Resting, Raised, Handling
  <2>2. ASSUME NEW p \in CardPages, Erasing(p) PROVE dirty \cap DOMAIN told = {}
    <3>1. Left({1, 2, 3})
      <4>. DEFINE s == Card!Framed("erase", p, Card!Blank)
      <4>1. s \in Seq(Steps) /\ Len(s) = 3
        BY FramedIs
      <4>2. Rest(s)
        BY <2>2 DEF Erasing
      <4>. HIDE DEF s
      <4>3. script \in Seq(Steps) /\ script # <<>>
        BY <2>2 DEF CardInv, CardTypes, Erasing
      <4>4. Len(script) \in Nat /\ Len(script) # 0
        BY <4>3, LenProperties, EmptySeq
      <4>5. Len(script) <= Len(s)
        BY <4>2 DEF Rest
      <4>6. Len(script) <= 3
        BY <4>1, <4>5
      <4>7. \A n \in Nat : n # 0 /\ n <= 3 => n \in {1, 2, 3}
        OBVIOUS
      <4>8. Len(script) \in {1, 2, 3}
        BY <4>4, <4>6, <4>7
      <4>. QED BY <4>8 DEF Left
    <3>. QED BY <2>2, <3>1 DEF Erasing, Apart, Left
  <2>3. ASSUME NEW p \in CardPages, NEW v \in Values \cup Card!Ids, Programming(p, v)
        PROVE  dirty \cap DOMAIN told = {}
    <3>1. Left({1, 2, 3, 4})
      <4>. DEFINE s == Card!ProgramOf(p, v)
      <4>1. s \in Seq(Steps) /\ Len(s) = 4
        BY ProgramIs
      <4>2. Rest(s)
        BY <2>3 DEF Programming
      <4>. HIDE DEF s
      <4>3. script \in Seq(Steps) /\ script # <<>>
        BY <2>3 DEF CardInv, CardTypes, Programming
      <4>4. Len(script) \in Nat /\ Len(script) # 0
        BY <4>3, LenProperties, EmptySeq
      <4>5. Len(script) <= Len(s)
        BY <4>2 DEF Rest
      <4>6. Len(script) <= 4
        BY <4>1, <4>5
      <4>7. \A n \in Nat : n # 0 /\ n <= 4 => n \in {1, 2, 3, 4}
        OBVIOUS
      <4>8. Len(script) \in {1, 2, 3, 4}
        BY <4>4, <4>6, <4>7
      <4>. QED BY <4>8 DEF Left
    <3>. QED BY <2>3, <3>1 DEF Programming, Apart, Left
  <2>. QED BY <2>1, <2>2, <2>3 DEF CardInv, Phase
<1>4. CASE c_file' = c_file
  BY <1>1, <1>2, <1>4, MountIs DEF CardInv, CardTypes, Card!ToldStays, Phase, Card!Quiet
<1>5. ASSUME NEW n \in dirty,
             c_file' = [p \in CardPages |-> IF p \in dirty /\ p < n THEN array[p]
                                        ELSE IF p = n THEN "torn"
                                        ELSE IF c_file = Card!NoFile THEN Card!Blank ELSE c_file[p]]
      PROVE  CardInv'
  <2>1. \A p \in DOMAIN told :
            /\ p \in CardPages /\ p \notin dirty
            /\ c_file # Card!NoFile /\ c_file[p] = told[p]
    BY <1>3 DEF CardInv, CardTypes, Card!ToldStays
  <2>2. c_file' # Card!NoFile
    BY <1>5, CardPagesAre, 1 \in CardPages DEF Card!NoFile
  <2>3. Card!ToldStays'
    BY <1>2, <1>5, <2>1, <2>2 DEF Card!ToldStays
  <2>4. CardTypes'
    BY <1>2, <1>5, MountIs DEF CardInv, CardTypes, Card!Quiet
  <2>. QED BY <1>1, <2>3, <2>4 DEF CardInv, Phase
<1>. QED BY <1>4, <1>5 DEF Card!Killed

LEMMA CardStep == CardInv /\ [Card!Next]_cardVars => CardInv'
<1>. SUFFICES ASSUME CardInv, [Card!Next]_cardVars PROVE CardInv'
  OBVIOUS
<1>1. CASE UNCHANGED cardVars
  <2>. USE <1>1 DEF cardVars, Card!card, Low, Ready, Left, Rest, Apart
  <2>1. CardTypes' /\ Card!ToldStays'
    BY DEF CardInv, CardTypes, Card!ToldStays
  <2>2. Mounting => Mounting'
    BY DEF Mounting
  <2>3. (Resting => Resting') /\ (Raised => Raised')
    BY DEF Resting, Raised
  <2>4. Handling => Handling'
    BY DEF Handling
  <2>5. ASSUME NEW p \in CardPages, Erasing(p) PROVE Erasing(p)'
    BY <2>5 DEF Erasing
  <2>6. ASSUME NEW p \in CardPages, NEW v \in Values \cup Card!Ids, Programming(p, v)
        PROVE  Programming(p, v)'
    BY <2>6 DEF Programming
  <2>. QED BY <2>1, <2>2, <2>3, <2>4, <2>5, <2>6 DEF CardInv, Phase
<1>. QED BY <1>1, LibraryStepKeeps, InterruptKeeps, KillKeeps, EraseKeeps,
            ProgramKeeps DEF Card!Next

LEMMA CardInvariant == FilesSpec => []CardInv
<1>1. FilesInit => CardInv
  BY CardInit DEF FilesInit
<1>2. CardInv /\ [FilesNext]_filesVars => CardInv'
  BY CardStep DEF FilesNext, filesVars
<1>. QED BY <1>1, <1>2, PTL DEF FilesSpec

\* ToldStaysHolds: what the game was told is written is in the array and in the file,
\* however often the program is killed, for any number of pages and any sector (card_flush).
THEOREM ToldStaysHolds == FilesSpec => []ToldStays
<1>1. CardInv => ToldStays
  BY DEF CardInv, ToldStays
<1>. QED BY <1>1, CardInvariant, PTL

\* LineRisesHolds: the deselect that frames a write always raises the line the game
\* waits for (card_deselected), so no write is left to the library's timeout.
THEOREM LineRisesHolds == FilesSpec => []LineRises
<1>1. CardInv => LineRises
  BY DEF CardInv, Phase, LineRises, Card!LineRises, Mounting, Resting, Raised, Handling,
         Erasing, Programming
<1>. QED BY <1>1, CardInvariant, PTL

-----------------------------------------------------------------------------
(* The phone's game library. *)

\* Where the process has the library it found, or the one it has put in place.
Settled ==
    \/ l_pc \in {"ask", "picking", "take", "copying", "copied", "keep", "disc"}
    \/ l_pc = "put" /\ now
    \/ l_pc = "drop" /\ (ok => now)

LibraryInv ==
    /\ {now, ok, had} \subseteq BOOLEAN
    /\ Library!LibraryStays
    /\ l_pc = "loaded" => Library!Loads(game_so)
    /\ Settled /\ had => Library!Loads(game_so)
    /\ l_pc = "keep" => ~now
    /\ l_pc = "put" => IF now THEN Library!Loads(l_tmp) ELSE game_so = Library!None

LEMMA LibraryInit == Library!Init => LibraryInv
  BY DEF Library!Init, LibraryInv, Library!LibraryStays, Settled

LEMMA LibraryStep == LibraryInv /\ [Library!Next]_libraryVars => LibraryInv'
<1>. SUFFICES ASSUME LibraryInv, [Library!Next]_libraryVars PROVE LibraryInv'
  OBVIOUS
<1>. USE DEF LibraryInv, Library!LibraryStays, Settled
<1>0. CASE UNCHANGED libraryVars
  BY <1>0 DEF libraryVars, Library!Loads
<1>1. ASSUME NEW f \in BOOLEAN, Library!Launch(f) PROVE LibraryInv'
  BY <1>1 DEF Library!Launch, Library!Loads
<1>2. CASE Library!PutBack
  BY <1>2 DEF Library!PutBack, Library!run, Library!Loads
<1>3. CASE Library!OpenAsks
  BY <1>3 DEF Library!OpenAsks, Library!disk, Library!Loads
<1>4. CASE Library!OpenLoads
  BY <1>4 DEF Library!OpenLoads, Library!disk, Library!Loads
<1>5. CASE Library!UnlinkOld
  BY <1>5 DEF Library!UnlinkOld, Library!run, Library!Loads
<1>6. CASE Library!OpenFails
  BY <1>6 DEF Library!OpenFails, Library!Loads, Library!Load
<1>7. CASE Library!TakesPending
  BY <1>7 DEF Library!TakesPending, Library!disk, Library!Loads
<1>8. CASE Library!Quits
  BY <1>8 DEF Library!Quits, Library!disk, Library!run, Library!Loads
<1>9. CASE Library!OpensPicker
  BY <1>9 DEF Library!OpensPicker, Library!disk, Library!run, Library!Loads
<1>10. CASE Library!Keeps
  BY <1>10 DEF Library!Keeps, Library!disk, Library!Loads, Library!Load
<1>11. CASE Library!PickAnother
  BY <1>11 DEF Library!PickAnother, Library!disk, Library!Loads
<1>12. ASSUME NEW f \in Libs \cup {Library!None}, Library!Answers(f) PROVE LibraryInv'
  BY <1>12 DEF Library!Answers, Library!disk, Library!Loads
<1>13. CASE Library!TakeRefuses
  BY <1>13 DEF Library!TakeRefuses, Library!disk, Library!Loads, Library!Drops
<1>14. CASE Library!TakeCopies
  BY <1>14 DEF Library!TakeCopies, Library!run, Library!Loads
<1>15. CASE Library!CopyEnds
  BY <1>15 DEF Library!CopyEnds, Library!Loads, Library!Drops
<1>16. CASE Library!Copied
  BY <1>16 DEF Library!Copied, Library!Loads, Library!Load, Library!Drops
<1>17. CASE Library!KeepOld
  BY <1>17 DEF Library!KeepOld, Library!run, Library!Loads
<1>18. CASE Library!Put
  <2>. USE DEF Library!Drops
  <2>0. /\ {now, ok, had} \subseteq BOOLEAN
        /\ l_pc = "put" /\ l_pc' = "drop" /\ UNCHANGED now
    BY <1>18 DEF Library!Put
  <2>1. CASE game_so' = l_tmp /\ ok' = TRUE /\ had' = (had \/ now) /\ UNCHANGED old
    <3>1. now => Library!Loads(game_so')
      BY <2>0, <2>1 DEF Library!Loads
    <3>2. {now', ok', had'} \subseteq BOOLEAN
      BY <2>0, <2>1
    <3>3. had /\ ~now => Library!Loads(old')
      BY <2>0, <2>1 DEF Library!Loads
    <3>4. Library!LibraryStays'
      BY <2>0, <2>1, <3>1, <3>3 DEF Library!Loads
    <3>. QED BY <2>0, <2>1, <3>1, <3>2, <3>4
  <2>2. CASE now /\ UNCHANGED <<game_so, old, had>> /\ ok' = now
    BY <2>0, <2>2 DEF Library!Loads
  <2>3. CASE ~now /\ UNCHANGED had /\ ok' = now
             /\ IF game_so # Library!None \/ old = Library!None THEN UNCHANGED <<game_so, old>>
                                                            ELSE game_so' = old
    BY <2>0, <2>3 DEF Library!Loads
  <2>. QED BY <1>18, <2>0, <2>1, <2>2, <2>3 DEF Library!Put
<1>19. CASE Library!Drop
  BY <1>19 DEF Library!Drop, Library!disk, Library!Loads
<1>20. CASE Library!Kill
  BY <1>20 DEF Library!Kill, Library!disk, Library!run, Library!Loads
<1>. QED BY <1>0, <1>1, <1>2, <1>3, <1>4, <1>5, <1>6, <1>7, <1>8, <1>9, <1>10, <1>11, <1>12,
            <1>13, <1>14, <1>15, <1>16, <1>17, <1>18, <1>19, <1>20 DEF Library!Next

\* LibraryStaysHolds: whatever is picked and wherever the process is killed, a library
\* that loads stays on a phone's disk once one has been loaded (take_library, import_place).
THEOREM LibraryStaysHolds == FilesSpec => []LibraryStays
<1>1. FilesInit => LibraryInv
  BY LibraryInit DEF FilesInit
<1>2. LibraryInv /\ [FilesNext]_filesVars => LibraryInv'
  BY LibraryStep DEF FilesNext, filesVars
<1>3. LibraryInv => LibraryStays
  BY DEF LibraryInv, LibraryStays
<1>. QED BY <1>1, <1>2, <1>3, PTL DEF FilesSpec

-----------------------------------------------------------------------------
(* The phone's disc. *)

\* A disc the next launch can read, by its copy or its permission.
Readable(s) == (s.copy # Disc!None /\ copies[s.copy] # Disc!None) \/ s.uri \in grants

DiscTypes ==
    /\ stored \in Disc!Stored /\ st \in Disc!Stored
    /\ copies \in [Disc!Names -> Files \cup {Disc!None}]
    /\ grants \subseteq Files
    /\ d_pend \in Files \cup {Disc!None} /\ d_pick \in Files \cup {Disc!None}
    /\ {d_held, path} \subseteq Disc!Names \cup {Disc!None, Disc!Fd}
    /\ {d_picker, d_forced, copied, unwritten} \subseteq BOOLEAN

Deciding == {"take", "copying", "place", "write", "relnew", "relold", "unlink", "clear", "refused"}

\* A pick is taken from its file to its end with no other answered meanwhile.
OnePick ==
    /\ d_picker => d_pend = Disc!None
    /\ d_pc \in Deciding => d_pend = d_pick /\ d_pick # Disc!None

\* disc.txt, and disc()'s Stored, which is what is to be in it.
FilesRight ==
    /\ ~unwritten /\ stored # Disc!NoDisc /\ d_pc # "storedwrite" => Readable(stored)
    /\ d_pc \in {"ask", "picking", "take", "copying", "refused", "place", "write",
                 "disc", "storedcopy"}
       => st = stored \/ unwritten
    /\ d_pc \in {"storedrel", "storedwrite"} => Readable(st)
    /\ d_pc = "storedrel" => st.copy # Disc!None /\ copies[st.copy] # Disc!None
    /\ d_pc \in {"storedcopy", "storedplace"} => st.uri = d_pick /\ d_pick # Disc!None
    /\ d_pc \in {"storedcopy", "storedplace", "storedrel"} => ~d_forced
    /\ d_pc \in {"storedplace", "place"} => d_tmp = d_pick
    /\ d_pc = "damaged" => stored = Disc!NoDisc
    /\ d_pc \in {"relnew", "relold", "unlink", "clear"}
       => unwritten \/ stored = [uri |-> d_pick, copy |-> IF copied THEN path ELSE Disc!None]
    /\ d_pc \in {"copying", "place"} => copied

\* What the run reads, or will.
PathThere ==
    /\ d_pc \in {"write", "relnew", "relold", "unlink", "clear"}
       => IF copied THEN path \in Disc!Names /\ copies[path] # Disc!None
                    ELSE path = Disc!Fd /\ d_pick \in grants
    /\ d_pc \in {"tidy", "sweep", "run"} \/ (d_pc \in {"storedrel", "storedwrite"} /\ ~d_forced)
       => path = Disc!Fd \/ (path \in Disc!Names /\ copies[path] # Disc!None)
    /\ d_pc \in {"ask", "picking", "take", "copying", "refused", "storedwrite"}
       => d_held \in {Disc!None, Disc!Fd} \/ (d_held \in Disc!Names /\ copies[d_held] # Disc!None)
    /\ d_pc \in {"disc", "storedcopy", "storedplace", "storedrel"} => d_held = Disc!None

DiscInv == DiscTypes /\ OnePick /\ FilesRight /\ PathThere

LEMMA DiscTypesKept == DiscInv /\ [Disc!Next]_discVars => DiscTypes'
<1>. SUFFICES ASSUME DiscInv, [Disc!Next]_discVars PROVE DiscTypes'
  OBVIOUS
<1>. USE FilesAssumption DEF DiscInv, DiscTypes, OnePick, Deciding, FilesRight, PathThere,
                             Disc!Stored, Disc!NoDisc, Disc!At, Disc!Goes
<1>0. CASE UNCHANGED discVars
  BY <1>0 DEF discVars
<1>1. ASSUME NEW f \in BOOLEAN, Disc!Launch(f) PROVE DiscTypes'
  BY <1>1 DEF Disc!Launch, Disc!Names
<1>2. CASE Disc!AsksAtOnce
  BY <1>2 DEF Disc!AsksAtOnce, Disc!disk, Disc!run, Disc!Names
<1>3. CASE Disc!StoredWorks
  BY <1>3 DEF Disc!StoredWorks, Disc!disk, Disc!Chosen, Disc!CopyThere, Disc!InPlace, Disc!Names
<1>4. CASE Disc!StoredCopies
  BY <1>4 DEF Disc!StoredCopies, Disc!Chosen, Disc!CopyThere, Disc!InPlace, Disc!Names
<1>5. CASE Disc!StoredCopied
  BY <1>5 DEF Disc!StoredCopied, Disc!Names
<1>6. CASE Disc!StoredPlaced
  BY <1>6 DEF Disc!StoredPlaced, Disc!Names
<1>7. CASE Disc!StoredReleases
  BY <1>7 DEF Disc!StoredReleases, Disc!run, Disc!Names
<1>8. CASE Disc!StoredRewrites
  BY <1>8 DEF Disc!StoredRewrites, Disc!run, Disc!Names
<1>9. CASE Disc!StoredFails
  BY <1>9 DEF Disc!StoredFails, Disc!disk, Disc!run, Disc!Chosen, Disc!Names
<1>10. CASE Disc!TakesPending
  BY <1>10 DEF Disc!TakesPending, Disc!disk, Disc!Names
<1>11. CASE Disc!KeepsThis
  BY <1>11 DEF Disc!KeepsThis, Disc!disk, Disc!Names
<1>12. CASE Disc!OpensPicker
  BY <1>12 DEF Disc!OpensPicker, Disc!disk, Disc!run, Disc!Names
<1>13. ASSUME NEW f \in Files \cup {Disc!None}, Disc!Answers(f) PROVE DiscTypes'
  BY <1>13 DEF Disc!Answers, Disc!Names
<1>14. CASE Disc!TakeRefuses
  BY <1>14 DEF Disc!TakeRefuses, Disc!disk, Disc!run, Disc!Names
<1>15. CASE Disc!TakeInPlace
  BY <1>15 DEF Disc!TakeInPlace, Disc!disk, Disc!InPlace, Disc!Names
<1>16. CASE Disc!TakeCopies
  BY <1>16 DEF Disc!TakeCopies, Disc!InPlace, Disc!Names
<1>17. CASE Disc!CopyEnds
  BY <1>17 DEF Disc!CopyEnds, Disc!run, Disc!Names
<1>18. CASE Disc!Place
  BY <1>18 DEF Disc!Place, Disc!Names
<1>19. CASE Disc!Write
  <2>1. CASE stored' = [uri |-> d_pick, copy |-> IF copied THEN path ELSE Disc!None]
    <3>1. stored' \in Disc!Stored
      BY <1>19, <2>1 DEF Disc!Write, Disc!At
    <3>. QED BY <1>19, <3>1 DEF Disc!Write, Disc!run
  <2>2. CASE UNCHANGED stored
    BY <1>19, <2>2 DEF Disc!Write, Disc!run
  <2>. QED BY <1>19, <2>1, <2>2 DEF Disc!Write
<1>20. CASE Disc!ReleaseNew
  BY <1>20 DEF Disc!ReleaseNew, Disc!run, Disc!Names
<1>21. CASE Disc!ReleaseOld
  BY <1>21 DEF Disc!ReleaseOld, Disc!run, Disc!Names
<1>22. CASE Disc!UnlinkOld
  BY <1>22 DEF Disc!UnlinkOld, Disc!run, Disc!Names
<1>23. CASE Disc!ClearPending
  BY <1>23 DEF Disc!ClearPending, Disc!run, Disc!Names
<1>24. CASE Disc!Refused
  BY <1>24 DEF Disc!Refused, Disc!Names
<1>25. CASE Disc!TidyGrants
  BY <1>25 DEF Disc!TidyGrants, Disc!run, Disc!Names
<1>26. CASE Disc!TidyCopies
  BY <1>26 DEF Disc!TidyCopies, Disc!run, Disc!Names
<1>27. CASE Disc!Damaged
  BY <1>27 DEF Disc!Damaged, Disc!run, Disc!Names
<1>28. CASE Disc!DamagedCopy
  BY <1>28 DEF Disc!DamagedCopy, Disc!run, Disc!Names
<1>29. CASE Disc!Ends
  BY <1>29 DEF Disc!Ends, Disc!disk, Disc!run, Disc!Names
<1>30. ASSUME NEW f \in Files, Disc!Moves(f) PROVE DiscTypes'
  BY <1>30 DEF Disc!Moves, Disc!run, Disc!Names
<1>. QED BY <1>0, <1>1, <1>2, <1>3, <1>4, <1>5, <1>6, <1>7, <1>8, <1>9, <1>10, <1>11, <1>12,
            <1>13, <1>14, <1>15, <1>16, <1>17, <1>18, <1>19, <1>20, <1>21, <1>22, <1>23, <1>24,
            <1>25, <1>26, <1>27, <1>28, <1>29, <1>30 DEF Disc!Next

LEMMA OnePickKept == DiscInv /\ [Disc!Next]_discVars => OnePick'
<1>. SUFFICES ASSUME DiscInv, [Disc!Next]_discVars PROVE OnePick'
  OBVIOUS
<1>. USE FilesAssumption DEF DiscInv, DiscTypes, OnePick, Deciding, Disc!At, Disc!Goes
<1>0. CASE UNCHANGED discVars
  BY <1>0 DEF discVars
<1>1. ASSUME NEW f \in BOOLEAN, Disc!Launch(f) PROVE OnePick'
  BY <1>1 DEF Disc!Launch
<1>2. CASE Disc!AsksAtOnce
  BY <1>2 DEF Disc!AsksAtOnce, Disc!disk, Disc!run
<1>3. CASE Disc!StoredWorks
  BY <1>3 DEF Disc!StoredWorks, Disc!disk, Disc!Chosen, Disc!CopyThere, Disc!InPlace, Disc!Names
<1>4. CASE Disc!StoredCopies
  BY <1>4 DEF Disc!StoredCopies, Disc!Chosen, Disc!CopyThere, Disc!InPlace
<1>5. CASE Disc!StoredCopied
  BY <1>5 DEF Disc!StoredCopied
<1>6. CASE Disc!StoredPlaced
  BY <1>6 DEF Disc!StoredPlaced, Disc!Names
<1>7. CASE Disc!StoredReleases
  BY <1>7 DEF Disc!StoredReleases, Disc!run
<1>8. CASE Disc!StoredRewrites
  BY <1>8 DEF Disc!StoredRewrites, Disc!run
<1>9. CASE Disc!StoredFails
  BY <1>9 DEF Disc!StoredFails, Disc!disk, Disc!run, Disc!Chosen
<1>10. CASE Disc!TakesPending
  BY <1>10 DEF Disc!TakesPending, Disc!disk
<1>11. CASE Disc!KeepsThis
  BY <1>11 DEF Disc!KeepsThis, Disc!disk
<1>12. CASE Disc!OpensPicker
  BY <1>12 DEF Disc!OpensPicker, Disc!disk, Disc!run
<1>13. ASSUME NEW f \in Files \cup {Disc!None}, Disc!Answers(f) PROVE OnePick'
  BY <1>13 DEF Disc!Answers
<1>14. CASE Disc!TakeRefuses
  BY <1>14 DEF Disc!TakeRefuses, Disc!disk, Disc!run
<1>15. CASE Disc!TakeInPlace
  BY <1>15 DEF Disc!TakeInPlace, Disc!disk, Disc!InPlace
<1>16. CASE Disc!TakeCopies
  BY <1>16 DEF Disc!TakeCopies, Disc!InPlace
<1>17. CASE Disc!CopyEnds
  BY <1>17 DEF Disc!CopyEnds, Disc!run
<1>18. CASE Disc!Place
  BY <1>18 DEF Disc!Place, Disc!Names
<1>19. CASE Disc!Write
  BY <1>19 DEF Disc!Write, Disc!run
<1>20. CASE Disc!ReleaseNew
  BY <1>20 DEF Disc!ReleaseNew, Disc!run
<1>21. CASE Disc!ReleaseOld
  BY <1>21 DEF Disc!ReleaseOld, Disc!run
<1>22. CASE Disc!UnlinkOld
  BY <1>22 DEF Disc!UnlinkOld, Disc!run
<1>23. CASE Disc!ClearPending
  BY <1>23 DEF Disc!ClearPending, Disc!run
<1>24. CASE Disc!Refused
  BY <1>24 DEF Disc!Refused
<1>25. CASE Disc!TidyGrants
  BY <1>25 DEF Disc!TidyGrants, Disc!run
<1>26. CASE Disc!TidyCopies
  BY <1>26 DEF Disc!TidyCopies, Disc!run
<1>27. CASE Disc!Damaged
  BY <1>27 DEF Disc!Damaged, Disc!run
<1>28. CASE Disc!DamagedCopy
  BY <1>28 DEF Disc!DamagedCopy, Disc!run
<1>29. CASE Disc!Ends
  BY <1>29 DEF Disc!Ends, Disc!disk, Disc!run
<1>30. ASSUME NEW f \in Files, Disc!Moves(f) PROVE OnePick'
  BY <1>30 DEF Disc!Moves, Disc!run
<1>. QED BY <1>0, <1>1, <1>2, <1>3, <1>4, <1>5, <1>6, <1>7, <1>8, <1>9, <1>10, <1>11, <1>12,
            <1>13, <1>14, <1>15, <1>16, <1>17, <1>18, <1>19, <1>20, <1>21, <1>22, <1>23, <1>24,
            <1>25, <1>26, <1>27, <1>28, <1>29, <1>30 DEF Disc!Next

LEMMA FilesRightKept == DiscInv /\ [Disc!Next]_discVars => FilesRight'
<1>. SUFFICES ASSUME DiscInv, [Disc!Next]_discVars PROVE FilesRight'
  OBVIOUS
<1>. USE FilesAssumption DEF DiscInv, DiscTypes, OnePick, Deciding, FilesRight, PathThere,
                             Readable, Disc!Stored, Disc!NoDisc, Disc!At, Disc!Goes
<1>0. CASE UNCHANGED discVars
  BY <1>0 DEF discVars
<1>1. ASSUME NEW f \in BOOLEAN, Disc!Launch(f) PROVE FilesRight'
  BY <1>1 DEF Disc!Launch
<1>2. CASE Disc!AsksAtOnce
  BY <1>2 DEF Disc!AsksAtOnce, Disc!disk, Disc!run
<1>3. CASE Disc!StoredWorks
  BY <1>3 DEF Disc!StoredWorks, Disc!disk, Disc!Chosen, Disc!CopyThere, Disc!InPlace, Disc!Names
<1>4. CASE Disc!StoredCopies
  BY <1>4 DEF Disc!StoredCopies, Disc!Chosen, Disc!CopyThere, Disc!InPlace
<1>5. CASE Disc!StoredCopied
  BY <1>5 DEF Disc!StoredCopied
<1>6. CASE Disc!StoredPlaced
  BY <1>6 DEF Disc!StoredPlaced, Disc!Names
<1>7. CASE Disc!StoredReleases
  BY <1>7 DEF Disc!StoredReleases, Disc!run
<1>8. CASE Disc!StoredRewrites
  BY <1>8 DEF Disc!StoredRewrites, Disc!run
<1>9. CASE Disc!StoredFails
  BY <1>9 DEF Disc!StoredFails, Disc!disk, Disc!run, Disc!Chosen
<1>10. CASE Disc!TakesPending
  BY <1>10 DEF Disc!TakesPending, Disc!disk
<1>11. CASE Disc!KeepsThis
  BY <1>11 DEF Disc!KeepsThis, Disc!disk
<1>12. CASE Disc!OpensPicker
  BY <1>12 DEF Disc!OpensPicker, Disc!disk, Disc!run
<1>13. ASSUME NEW f \in Files \cup {Disc!None}, Disc!Answers(f) PROVE FilesRight'
  BY <1>13 DEF Disc!Answers
<1>14. CASE Disc!TakeRefuses
  BY <1>14 DEF Disc!TakeRefuses, Disc!disk, Disc!run
<1>15. CASE Disc!TakeInPlace
  BY <1>15 DEF Disc!TakeInPlace, Disc!disk, Disc!InPlace
<1>16. CASE Disc!TakeCopies
  BY <1>16 DEF Disc!TakeCopies, Disc!InPlace
<1>17. CASE Disc!CopyEnds
  BY <1>17 DEF Disc!CopyEnds, Disc!run
<1>18. CASE Disc!Place
  BY <1>18 DEF Disc!Place, Disc!Names
<1>19. CASE Disc!Write
  BY <1>19 DEF Disc!Write, Disc!run
<1>20. CASE Disc!ReleaseNew
  BY <1>20 DEF Disc!ReleaseNew, Disc!run
<1>21. CASE Disc!ReleaseOld
  BY <1>21 DEF Disc!ReleaseOld, Disc!run
<1>22. CASE Disc!UnlinkOld
  BY <1>22 DEF Disc!UnlinkOld, Disc!run
<1>23. CASE Disc!ClearPending
  BY <1>23 DEF Disc!ClearPending, Disc!run
<1>24. CASE Disc!Refused
  BY <1>24 DEF Disc!Refused
<1>25. CASE Disc!TidyGrants
  BY <1>25 DEF Disc!TidyGrants, Disc!run
<1>26. CASE Disc!TidyCopies
  BY <1>26 DEF Disc!TidyCopies, Disc!run
<1>27. CASE Disc!Damaged
  BY <1>27 DEF Disc!Damaged, Disc!run
<1>28. CASE Disc!DamagedCopy
  BY <1>28 DEF Disc!DamagedCopy, Disc!run
<1>29. CASE Disc!Ends
  BY <1>29 DEF Disc!Ends, Disc!disk, Disc!run
<1>30. ASSUME NEW f \in Files, Disc!Moves(f) PROVE FilesRight'
  BY <1>30 DEF Disc!Moves, Disc!run
<1>. QED BY <1>0, <1>1, <1>2, <1>3, <1>4, <1>5, <1>6, <1>7, <1>8, <1>9, <1>10, <1>11, <1>12,
            <1>13, <1>14, <1>15, <1>16, <1>17, <1>18, <1>19, <1>20, <1>21, <1>22, <1>23, <1>24,
            <1>25, <1>26, <1>27, <1>28, <1>29, <1>30 DEF Disc!Next

LEMMA PathThereKept == DiscInv /\ [Disc!Next]_discVars => PathThere'
<1>. SUFFICES ASSUME DiscInv, [Disc!Next]_discVars PROVE PathThere'
  OBVIOUS
<1>. USE FilesAssumption DEF DiscInv, DiscTypes, OnePick, Deciding, FilesRight, PathThere,
                             Readable, Disc!Stored, Disc!At, Disc!Goes
<1>0. CASE UNCHANGED discVars
  BY <1>0 DEF discVars
<1>1. ASSUME NEW f \in BOOLEAN, Disc!Launch(f) PROVE PathThere'
  BY <1>1 DEF Disc!Launch
<1>2. CASE Disc!AsksAtOnce
  BY <1>2 DEF Disc!AsksAtOnce, Disc!disk, Disc!run
<1>3. CASE Disc!StoredWorks
  BY <1>3 DEF Disc!StoredWorks, Disc!disk, Disc!Chosen, Disc!CopyThere, Disc!InPlace, Disc!Names
<1>4. CASE Disc!StoredCopies
  BY <1>4 DEF Disc!StoredCopies, Disc!Chosen, Disc!CopyThere, Disc!InPlace
<1>5. CASE Disc!StoredCopied
  BY <1>5 DEF Disc!StoredCopied
<1>6. CASE Disc!StoredPlaced
  BY <1>6 DEF Disc!StoredPlaced, Disc!Names
<1>7. CASE Disc!StoredReleases
  BY <1>7 DEF Disc!StoredReleases, Disc!run
<1>8. CASE Disc!StoredRewrites
  BY <1>8 DEF Disc!StoredRewrites, Disc!run
<1>9. CASE Disc!StoredFails
  BY <1>9 DEF Disc!StoredFails, Disc!disk, Disc!run, Disc!Chosen
<1>10. CASE Disc!TakesPending
  BY <1>10 DEF Disc!TakesPending, Disc!disk
<1>11. CASE Disc!KeepsThis
  BY <1>11 DEF Disc!KeepsThis, Disc!disk
<1>12. CASE Disc!OpensPicker
  BY <1>12 DEF Disc!OpensPicker, Disc!disk, Disc!run
<1>13. ASSUME NEW f \in Files \cup {Disc!None}, Disc!Answers(f) PROVE PathThere'
  BY <1>13 DEF Disc!Answers
<1>14. CASE Disc!TakeRefuses
  BY <1>14 DEF Disc!TakeRefuses, Disc!disk, Disc!run
<1>15. CASE Disc!TakeInPlace
  BY <1>15 DEF Disc!TakeInPlace, Disc!disk, Disc!InPlace
<1>16. CASE Disc!TakeCopies
  BY <1>16 DEF Disc!TakeCopies, Disc!InPlace
<1>17. CASE Disc!CopyEnds
  BY <1>17 DEF Disc!CopyEnds, Disc!run
<1>18. CASE Disc!Place
  BY <1>18 DEF Disc!Place, Disc!Names
<1>19. CASE Disc!Write
  BY <1>19 DEF Disc!Write, Disc!run
<1>20. CASE Disc!ReleaseNew
  BY <1>20 DEF Disc!ReleaseNew, Disc!run
<1>21. CASE Disc!ReleaseOld
  BY <1>21 DEF Disc!ReleaseOld, Disc!run
<1>22. CASE Disc!UnlinkOld
  BY <1>22 DEF Disc!UnlinkOld, Disc!run
<1>23. CASE Disc!ClearPending
  BY <1>23 DEF Disc!ClearPending, Disc!run
<1>24. CASE Disc!Refused
  BY <1>24 DEF Disc!Refused
<1>25. CASE Disc!TidyGrants
  BY <1>25 DEF Disc!TidyGrants, Disc!run
<1>26. CASE Disc!TidyCopies
  BY <1>26 DEF Disc!TidyCopies, Disc!run
<1>27. CASE Disc!Damaged
  BY <1>27 DEF Disc!Damaged, Disc!run
<1>28. CASE Disc!DamagedCopy
  BY <1>28 DEF Disc!DamagedCopy, Disc!run
<1>29. CASE Disc!Ends
  BY <1>29 DEF Disc!Ends, Disc!disk, Disc!run
<1>30. ASSUME NEW f \in Files, Disc!Moves(f) PROVE PathThere'
  BY <1>30 DEF Disc!Moves, Disc!run
<1>. QED BY <1>0, <1>1, <1>2, <1>3, <1>4, <1>5, <1>6, <1>7, <1>8, <1>9, <1>10, <1>11, <1>12,
            <1>13, <1>14, <1>15, <1>16, <1>17, <1>18, <1>19, <1>20, <1>21, <1>22, <1>23, <1>24,
            <1>25, <1>26, <1>27, <1>28, <1>29, <1>30 DEF Disc!Next

LEMMA DiscInit == Disc!Init => DiscInv
<1>. SUFFICES ASSUME Disc!Init PROVE DiscInv
  OBVIOUS
<1>. USE DEF Disc!Init
<1>1. Disc!NoDisc \in Disc!Stored
  BY DEF Disc!NoDisc, Disc!Stored
<1>2. DiscTypes
  BY <1>1 DEF DiscTypes
<1>3. OnePick
  BY DEF OnePick, Deciding
<1>4. FilesRight
  BY DEF FilesRight
<1>5. PathThere
  BY DEF PathThere
<1>. QED BY <1>2, <1>3, <1>4, <1>5 DEF DiscInv

LEMMA DiscStep == DiscInv /\ [Disc!Next]_discVars => DiscInv'
  BY DiscTypesKept, OnePickKept, FilesRightKept, PathThereKept DEF DiscInv

LEMMA Forgets ==
    DiscInv /\ [Disc!Next]_discVars
    => [d_pend # Disc!None /\ d_pend' # d_pend => d_pick = d_pend]_discVars
<1>. SUFFICES ASSUME DiscInv, Disc!Next, d_pend # Disc!None, d_pend' # d_pend PROVE d_pick = d_pend
  BY DEF discVars
<1>. USE DEF DiscInv, OnePick, Deciding, Disc!disk, Disc!run
<1>1. ASSUME NEW f \in BOOLEAN, Disc!Launch(f) PROVE d_pick = d_pend
  BY <1>1 DEF Disc!Launch
<1>2. CASE Disc!AsksAtOnce
  BY <1>2 DEF Disc!AsksAtOnce
<1>3. CASE Disc!StoredWorks
  BY <1>3 DEF Disc!StoredWorks
<1>4. CASE Disc!StoredCopies
  BY <1>4 DEF Disc!StoredCopies
<1>5. CASE Disc!StoredCopied
  BY <1>5 DEF Disc!StoredCopied
<1>6. CASE Disc!StoredPlaced
  BY <1>6 DEF Disc!StoredPlaced
<1>7. CASE Disc!StoredReleases
  BY <1>7 DEF Disc!StoredReleases
<1>8. CASE Disc!StoredRewrites
  BY <1>8 DEF Disc!StoredRewrites
<1>9. CASE Disc!StoredFails
  BY <1>9 DEF Disc!StoredFails
<1>10. CASE Disc!TakesPending
  BY <1>10 DEF Disc!TakesPending
<1>11. CASE Disc!KeepsThis
  BY <1>11 DEF Disc!KeepsThis
<1>12. CASE Disc!OpensPicker
  BY <1>12 DEF Disc!OpensPicker
<1>13. ASSUME NEW f \in Files \cup {Disc!None}, Disc!Answers(f) PROVE d_pick = d_pend
  BY <1>13 DEF Disc!Answers
<1>14. CASE Disc!TakeRefuses
  BY <1>14 DEF Disc!TakeRefuses
<1>15. CASE Disc!TakeInPlace
  BY <1>15 DEF Disc!TakeInPlace
<1>16. CASE Disc!TakeCopies
  BY <1>16 DEF Disc!TakeCopies
<1>17. CASE Disc!CopyEnds
  BY <1>17 DEF Disc!CopyEnds
<1>18. CASE Disc!Place
  BY <1>18 DEF Disc!Place
<1>19. CASE Disc!Write
  BY <1>19 DEF Disc!Write
<1>20. CASE Disc!ReleaseNew
  BY <1>20 DEF Disc!ReleaseNew
<1>21. CASE Disc!ReleaseOld
  BY <1>21 DEF Disc!ReleaseOld
<1>22. CASE Disc!UnlinkOld
  BY <1>22 DEF Disc!UnlinkOld
<1>23. CASE Disc!ClearPending
  BY <1>23 DEF Disc!ClearPending, Disc!At
<1>24. CASE Disc!Refused
  BY <1>24 DEF Disc!Refused, Disc!At
<1>25. CASE Disc!TidyGrants
  BY <1>25 DEF Disc!TidyGrants
<1>26. CASE Disc!TidyCopies
  BY <1>26 DEF Disc!TidyCopies
<1>27. CASE Disc!Damaged
  BY <1>27 DEF Disc!Damaged
<1>28. CASE Disc!DamagedCopy
  BY <1>28 DEF Disc!DamagedCopy
<1>29. CASE Disc!Ends
  BY <1>29 DEF Disc!Ends
<1>30. ASSUME NEW f \in Files, Disc!Moves(f) PROVE d_pick = d_pend
  BY <1>30 DEF Disc!Moves
<1>. QED BY <1>1, <1>2, <1>3, <1>4, <1>5, <1>6, <1>7, <1>8, <1>9, <1>10, <1>11, <1>12, <1>13,
            <1>14, <1>15, <1>16, <1>17, <1>18, <1>19, <1>20, <1>21, <1>22, <1>23, <1>24, <1>25,
            <1>26, <1>27, <1>28, <1>29, <1>30 DEF Disc!Next

LEMMA DiscInvariant == FilesSpec => []DiscInv
<1>1. FilesInit => DiscInv
  BY DiscInit DEF FilesInit
<1>2. DiscInv /\ [FilesNext]_filesVars => DiscInv'
  BY DiscStep DEF FilesNext, filesVars
<1>. QED BY <1>1, <1>2, PTL DEF FilesSpec

\* DiscStaysHolds: with no process disc.txt names a disc the next launch can read, and a
\* run keeps the copy it plays (take_disc, stored_disc, tidy).
THEOREM DiscStaysHolds == FilesSpec => []DiscStays
<1>1. DiscInv => DiscStays
  BY FilesAssumption
     DEF DiscInv, DiscTypes, FilesRight, PathThere, Readable, DiscStays, Disc!DiscStays
<1>. QED BY <1>1, DiscInvariant, PTL

\* PickStaysHolds: a pick that was written down is removed only once it has itself been
\* decided (drop, take_disc).
THEOREM PickStaysHolds == FilesSpec => PickStays
<1>1. DiscInv /\ [FilesNext]_filesVars
      => [which = "disc" /\ d_pend # "none" /\ d_pend' # d_pend => d_pick = d_pend]_discVars
  BY Forgets DEF FilesNext, filesVars, Disc!None
<1>. QED BY <1>1, DiscInvariant, PTL DEF FilesSpec, PickStays

\* Whatever holds of 0 and of the next number holds of every one.
LEMMA NaturalsAll ==
    ASSUME NEW S, 0 \in S, \A n \in Nat : n \in S => n + 1 \in S
    PROVE  \A n \in Nat : n \in S
<1>. DEFINE R == {p \in Nat \X Nat : p[1] < p[2]}
            Bad == Nat \ S
<1>1. IsWellFoundedOn(R, Nat)
  <2>1. R = OpToRel(<, Nat)
    BY DEF OpToRel
  <2>. HIDE DEF R
  <2>. QED BY <2>1, NatLessThanWellFounded
<1>2. ASSUME Bad # {} PROVE FALSE
  <2>1. PICK x \in Bad : \A y \in Bad : <<y, x>> \notin R
    <3>1. Bad \subseteq Nat
      OBVIOUS
    <3>. HIDE DEF Bad, R
    <3>. QED BY <1>1, <1>2, <3>1, WFMin
  <2>2. x # 0 /\ x - 1 \in Nat
    OBVIOUS
  <2>3. x - 1 \in S
    <3>1. <<x - 1, x>> \in R
      BY <2>2
    <3>. QED BY <2>1, <2>2, <3>1
  <2>. QED BY <2>2, <2>3
<1>. QED BY <1>2

\* A set of places has a last one.
LEMMA LastPlace ==
    ASSUME NEW n \in Nat, NEW s \in SUBSET (1 .. n), s # {}
    PROVE  \E x \in s : \A y \in s : x >= y
<1>. DEFINE S == {k \in Nat : \A t \in SUBSET (1 .. k) :
                     t # {} => \E x \in t : \A y \in t : x >= y}
<1>1. 0 \in S
  <2>1. 1 .. 0 = {}
    OBVIOUS
  <2>. QED BY <2>1
<1>2. ASSUME NEW k \in Nat, k \in S PROVE k + 1 \in S
  <2>. SUFFICES ASSUME NEW t \in SUBSET (1 .. k + 1), t # {}
                PROVE  \E x \in t : \A y \in t : x >= y
    OBVIOUS
  <2>1. CASE k + 1 \in t
    BY <2>1
  <2>2. CASE k + 1 \notin t
    <3>1. t \in SUBSET (1 .. k)
      BY <2>2
    <3>. QED BY <1>2, <3>1
  <2>. QED BY <2>1, <2>2
<1>3. n \in S
  <2>. HIDE DEF S
  <2>. QED BY <1>1, <1>2, NaturalsAll
<1>. QED BY <1>3

\* A fold over places 1 .. n: one that goes from the last place down exists ...
Folds(h, n, base, G) ==
    /\ h[{}] = base
    /\ \A s \in SUBSET (1 .. n) : \A x \in s :
          (\A y \in s : x >= y) => h[s] = G[<<h[s \ {x}], x>>]
LEMMA FoldThere ==
    ASSUME NEW n \in Nat, NEW T, NEW base \in T, NEW G \in [T \X (1 .. n) -> T]
    PROVE  \E h \in [SUBSET (1 .. n) -> T] : Folds(h, n, base, G)
<1>. USE DEF Folds
<1>. DEFINE Good(k, h) == /\ h[{}] = base
                          /\ \A s \in SUBSET (1 .. k) : \A x \in s :
                                (\A y \in s : x >= y) => h[s] = G[<<h[s \ {x}], x>>]
            There(k) == k <= n => \E h \in [SUBSET (1 .. k) -> T] : Good(k, h)
            S == {k \in Nat : There(k)}
<1>1. There(0)
  <2>. DEFINE h == [s \in SUBSET (1 .. 0) |-> base]
  <2>1. 1 .. 0 = {}
    OBVIOUS
  <2>2. h \in [SUBSET (1 .. 0) -> T] /\ Good(0, h)
    BY <2>1
  <2>. QED BY <2>2
<1>2. ASSUME NEW k \in Nat, There(k) PROVE There(k + 1)
  <2>. SUFFICES ASSUME k + 1 <= n
                PROVE  \E h \in [SUBSET (1 .. k + 1) -> T] : Good(k + 1, h)
    OBVIOUS
  <2>0. k <= n
    OBVIOUS
  <2>1. PICK g \in [SUBSET (1 .. k) -> T] : Good(k, g)
    BY <1>2, <2>0
  <2>. DEFINE h == [s \in SUBSET (1 .. k + 1) |->
                       IF k + 1 \in s THEN G[<<g[s \ {k + 1}], k + 1>>] ELSE g[s]]
  <2>2. \A s \in SUBSET (1 .. k + 1) : s \ {k + 1} \in SUBSET (1 .. k)
    OBVIOUS
  <2>3. \A s \in SUBSET (1 .. k + 1) : k + 1 \notin s => s \in SUBSET (1 .. k)
    OBVIOUS
  <2>4. \A s \in SUBSET (1 .. k) : s \in SUBSET (1 .. k + 1) /\ k + 1 \notin s
    OBVIOUS
  <2>5. h \in [SUBSET (1 .. k + 1) -> T]
    <3>1. k + 1 \in 1 .. n
      OBVIOUS
    <3>. QED BY <2>2, <2>3, <3>1
  <2>6. \A s \in SUBSET (1 .. k) : h[s] = g[s]
    BY <2>4
  <2>7. \A s \in SUBSET (1 .. k + 1) : k + 1 \in s => h[s] = G[<<g[s \ {k + 1}], k + 1>>]
    OBVIOUS
  <2>. HIDE DEF h
  <2>8. h[{}] = base
    BY <2>1, <2>6
  <2>9. ASSUME NEW s \in SUBSET (1 .. k + 1), NEW x \in s, \A y \in s : x >= y
        PROVE  h[s] = G[<<h[s \ {x}], x>>]
    <3>1. CASE k + 1 \in s
      <4>1. x = k + 1
        BY <2>9, <3>1
      <4>. QED BY <2>2, <2>6, <2>7, <3>1, <4>1
    <3>2. CASE k + 1 \notin s
      <4>1. s \in SUBSET (1 .. k) /\ s \ {x} \in SUBSET (1 .. k)
        BY <2>3, <3>2
      <4>. QED BY <2>1, <2>6, <2>9, <4>1
    <3>. QED BY <3>1, <3>2
  <2>. QED BY <2>5, <2>8, <2>9
<1>3. n \in S
  <2>. HIDE DEF There
  <2>1. 0 \in S /\ \A k \in Nat : k \in S => k + 1 \in S
    BY <1>1, <1>2
  <2>. HIDE DEF S
  <2>. QED BY <2>1, NaturalsAll
<1>4. There(n)
  <2>. HIDE DEF There
  <2>. QED BY <1>3
<1>5. n <= n
  OBVIOUS
<1>6. PICK h \in [SUBSET (1 .. n) -> T] : Good(n, h)
  BY <1>4, <1>5
<1>. QED BY <1>6

\* ... and of any such, what holds at the start and after each place holds at the end.
Stays(h, n, T) ==
    /\ h[{}] \in T
    /\ \A s \in SUBSET (1 .. n) : \A x \in s :
          (\A y \in s : x >= y) /\ h[s \ {x}] \in T => h[s] \in T
LEMMA FoldStays ==
    ASSUME NEW n \in Nat, NEW T, NEW h, Stays(h, n, T)
    PROVE  h[1 .. n] \in T
<1>. USE DEF Stays
<1>. DEFINE S == {k \in Nat : k <= n => h[1 .. k] \in T}
<1>1. 0 \in S
  <2>1. 1 .. 0 = {}
    OBVIOUS
  <2>. QED BY <2>1
<1>2. ASSUME NEW k \in Nat, k \in S PROVE k + 1 \in S
  <2>. SUFFICES ASSUME k + 1 <= n PROVE h[1 .. k + 1] \in T
    OBVIOUS
  <2>1. h[1 .. k] \in T
    BY <1>2
  <2>2. 1 .. k + 1 \in SUBSET (1 .. n) /\ k + 1 \in 1 .. k + 1 /\ \A y \in 1 .. k + 1 : k + 1 >= y
    OBVIOUS
  <2>3. (1 .. k + 1) \ {k + 1} = 1 .. k
    OBVIOUS
  <2>. QED BY <2>1, <2>2, <2>3
<1>3. n \in S
  <2>. HIDE DEF S
  <2>. QED BY <1>1, <1>2, NaturalsAll
<1>. QED BY <1>3

\* Some numbers have a least one.
LEMMA LeastNumber ==
    ASSUME NEW S, S \subseteq Nat, S # {}
    PROVE  \E x \in S : \A y \in S : x <= y
<1>. DEFINE R == {p \in Nat \X Nat : p[1] < p[2]}
<1>1. IsWellFoundedOn(R, Nat)
  <2>1. R = OpToRel(<, Nat)
    BY DEF OpToRel
  <2>. HIDE DEF R
  <2>. QED BY <2>1, NatLessThanWellFounded
<1>2. PICK x \in S : \A y \in S : <<y, x>> \notin R
  <2>. HIDE DEF R
  <2>. QED BY <1>1, WFMin
<1>3. \A y \in S : x \in Nat /\ y \in Nat /\ ~(y < x)
  BY <1>2
<1>. QED BY <1>3

\* Repeating a step that stays in a set gives a sequence of values of that set.
Repeats(h, n, base, G) == h[0] = base /\ \A i \in 1 .. n : h[i] = G[h[i - 1]]
LEMMA Repeated ==
    ASSUME NEW n \in Nat, NEW T, NEW base \in T, NEW G \in [T -> T]
    PROVE  \E h \in [0 .. n -> T] : Repeats(h, n, base, G)
<1>. USE DEF Repeats
<1>. DEFINE Good(k, h) == h[0] = base /\ \A i \in 1 .. k : h[i] = G[h[i - 1]]
            There(k) == \E h \in [0 .. k -> T] : Good(k, h)
            S == {k \in Nat : There(k)}
<1>1. There(0)
  <2>. DEFINE h == [i \in 0 .. 0 |-> base]
  <2>1. h \in [0 .. 0 -> T] /\ Good(0, h)
    OBVIOUS
  <2>. QED BY <2>1
<1>2. ASSUME NEW k \in Nat, There(k) PROVE There(k + 1)
  <2>1. PICK g \in [0 .. k -> T] : Good(k, g)
    BY <1>2
  <2>. DEFINE h == [i \in 0 .. k + 1 |-> IF i = k + 1 THEN G[g[k]] ELSE g[i]]
  <2>2. h \in [0 .. k + 1 -> T]
    OBVIOUS
  <2>3. \A i \in 0 .. k : h[i] = g[i]
    OBVIOUS
  <2>4. h[k + 1] = G[g[k]]
    OBVIOUS
  <2>. HIDE DEF h
  <2>5. ASSUME NEW i \in 1 .. k + 1 PROVE h[i] = G[h[i - 1]]
    <3>1. CASE i = k + 1
      <4>1. i - 1 = k
        BY <3>1
      <4>. QED BY <2>3, <2>4, <3>1, <4>1
    <3>2. CASE i # k + 1
      <4>1. i \in 1 .. k /\ i - 1 \in 0 .. k /\ i \in 0 .. k
        BY <3>2
      <4>. QED BY <2>1, <2>3, <4>1
    <3>. QED BY <3>1, <3>2
  <2>6. Good(k + 1, h)
    BY <2>1, <2>3, <2>5
  <2>. QED BY <2>2, <2>6
<1>3. n \in S
  <2>. HIDE DEF There
  <2>1. 0 \in S /\ \A k \in Nat : k \in S => k + 1 \in S
    BY <1>1, <1>2
  <2>. HIDE DEF S
  <2>. QED BY <2>1, NaturalsAll
<1>4. There(n)
  <2>. HIDE DEF There
  <2>. QED BY <1>3
<1>. QED BY <1>4

TotalOrder(P, R) ==
    /\ \A x, y \in P : x # y => <<x, y>> \in R \/ <<y, x>> \in R
    /\ \A x, y, z \in P : <<x, y>> \in R /\ <<y, z>> \in R => <<x, z>> \in R

\* A finite set in a total order has a last element ...
LEMMA LastInOrder ==
    ASSUME NEW P, NEW R, TotalOrder(P, R),
           NEW S \in SUBSET P, IsFiniteSet(S), S # {}
    PROVE  \E m \in S : \A x \in S \ {m} : <<x, m>> \in R
<1>. DEFINE Final(U) == \E m \in U : \A x \in U \ {m} : <<x, m>> \in R
            All(k) == \A U \in SUBSET P : IsFiniteSet(U) /\ Cardinality(U) = k + 1 => Final(U)
            N == {k \in Nat : All(k)}
<1>1. All(0)
  <2>. SUFFICES ASSUME NEW U \in SUBSET P, IsFiniteSet(U), Cardinality(U) = 1 PROVE Final(U)
    OBVIOUS
  <2>1. PICK m : U = {m}
    BY FS_Singleton
  <2>. QED BY <2>1
<1>2. ASSUME NEW k \in Nat, All(k) PROVE All(k + 1)
  <2>. SUFFICES ASSUME NEW U \in SUBSET P, IsFiniteSet(U), Cardinality(U) = k + 1 + 1
                PROVE  Final(U)
    OBVIOUS
  <2>1. PICK y \in U : TRUE
    BY FS_EmptySet
  <2>2. IsFiniteSet(U \ {y}) /\ Cardinality(U \ {y}) = k + 1
    BY <2>1, FS_RemoveElement
  <2>3. PICK m \in U \ {y} : \A x \in (U \ {y}) \ {m} : <<x, m>> \in R
    BY <1>2, <2>2
  <2>4. CASE <<y, m>> \in R
    BY <2>3, <2>4
  <2>5. CASE <<m, y>> \in R
    <3>1. \A x \in U \ {y} : <<x, y>> \in R
      BY <2>1, <2>3, <2>5 DEF TotalOrder
    <3>. QED BY <2>1, <3>1
  <2>. QED BY <2>1, <2>3, <2>4, <2>5 DEF TotalOrder
<1>3. PICK k \in Nat : Cardinality(S) = k + 1
  <2>1. Cardinality(S) \in Nat /\ Cardinality(S) # 0
    BY FS_CardinalityType, FS_EmptySet
  <2>. QED BY <2>1
<1>4. k \in N
  <2>. HIDE DEF All
  <2>1. 0 \in N /\ \A i \in Nat : i \in N => i + 1 \in N
    BY <1>1, <1>2
  <2>. HIDE DEF N
  <2>. QED BY <2>1, NaturalsAll
<1>5. All(k)
  <2>. HIDE DEF All
  <2>. QED BY <1>4
<1>. QED BY <1>3, <1>5

\* ... and can be listed in it.
LEMMA ListedInOrder ==
    ASSUME NEW P, NEW R, IsFiniteSet(P), TotalOrder(P, R)
    PROVE  \E o \in [1 .. Cardinality(P) -> P] :
              \A i, j \in 1 .. Cardinality(P) : i < j => <<o[i], o[j]>> \in R
<1>. DEFINE Sorted(k, o) == \A i, j \in 1 .. k : i < j => <<o[i], o[j]>> \in R
            Can(U, k) == \E o \in [1 .. k -> U] : Sorted(k, o)
            All(k) == \A U \in SUBSET P : IsFiniteSet(U) /\ Cardinality(U) = k => Can(U, k)
            N == {k \in Nat : All(k)}
<1>1. All(0)
  <2>. SUFFICES ASSUME NEW U \in SUBSET P PROVE Can(U, 0)
    OBVIOUS
  <2>. DEFINE o == [i \in 1 .. 0 |-> U]
  <2>1. 1 .. 0 = {}
    OBVIOUS
  <2>2. o \in [1 .. 0 -> U] /\ Sorted(0, o)
    BY <2>1
  <2>. QED BY <2>2
<1>2. ASSUME NEW k \in Nat, All(k) PROVE All(k + 1)
  <2>. SUFFICES ASSUME NEW U \in SUBSET P, IsFiniteSet(U), Cardinality(U) = k + 1
                PROVE  Can(U, k + 1)
    OBVIOUS
  <2>1. U # {}
    BY FS_EmptySet
  <2>2. PICK m \in U : \A x \in U \ {m} : <<x, m>> \in R
    <3>1. IsFiniteSet(U)
      OBVIOUS
    <3>. HIDE DEF Can, All
    <3>. QED BY <2>1, <3>1, LastInOrder
  <2>3. IsFiniteSet(U \ {m}) /\ Cardinality(U \ {m}) = k
    <3>1. IsFiniteSet(U) /\ m \in U
      BY <2>2
    <3>2. IsFiniteSet(U \ {m}) /\ Cardinality(U \ {m}) = Cardinality(U) - 1
      BY <3>1, FS_RemoveElement
    <3>. QED BY <3>2
  <2>4. PICK p \in [1 .. k -> U \ {m}] : Sorted(k, p)
    BY <1>2, <2>3
  <2>. DEFINE o == [i \in 1 .. k + 1 |-> IF i = k + 1 THEN m ELSE p[i]]
  <2>5. o \in [1 .. k + 1 -> U]
    BY <2>4
  <2>6. Sorted(k + 1, o)
    <3>. SUFFICES ASSUME NEW i \in 1 .. k + 1, NEW j \in 1 .. k + 1, i < j
                  PROVE  <<o[i], o[j]>> \in R
      OBVIOUS
    <3>1. i \in 1 .. k /\ o[i] = p[i] /\ p[i] \in U \ {m}
      BY <2>4
    <3>2. CASE j = k + 1
      BY <2>2, <3>1, <3>2
    <3>3. CASE j # k + 1
      <4>1. j \in 1 .. k /\ o[j] = p[j]
        BY <3>3
      <4>. QED BY <2>4, <3>1, <4>1
    <3>. QED BY <3>2, <3>3
  <2>. QED BY <2>5, <2>6
<1>3. Cardinality(P) \in N
  <2>. HIDE DEF All
  <2>1. 0 \in N /\ \A i \in Nat : i \in N => i + 1 \in N
    BY <1>1, <1>2
  <2>2. Cardinality(P) \in Nat
    BY FS_CardinalityType
  <2>. HIDE DEF N
  <2>. QED BY <2>1, <2>2, NaturalsAll
<1>4. All(Cardinality(P))
  <2>. HIDE DEF All
  <2>. QED BY <1>3
<1>5. Can(P, Cardinality(P))
  <2>. HIDE DEF Can
  <2>. QED BY <1>4
<1>. QED BY <1>5

Orders(inst) == [1 .. Cardinality(DOMAIN inst) -> DOMAIN inst]

LEMMA InstallsAre ==
    ASSUME NEW inst \in ModInstalls
    PROVE  /\ IsFiniteSet(DOMAIN inst) /\ DOMAIN inst \subseteq Nat
           /\ Cardinality(DOMAIN inst) \in Nat
           /\ \A f \in DOMAIN inst : inst[f].rank \in Nat /\ inst[f].claims \in Seq(STRING)
           /\ \A f, g \in DOMAIN inst : inst[f].rank = inst[g].rank /\ inst[f].rank > 0 => f = g
<1>1. /\ IsFiniteSet(DOMAIN inst) /\ DOMAIN inst \subseteq Nat
      /\ \A f \in DOMAIN inst : inst[f].rank \in Nat /\ inst[f].claims \in Seq(STRING)
      /\ \A f, g \in DOMAIN inst : inst[f].rank = inst[g].rank /\ inst[f].rank > 0 => f = g
  BY FoldersAssumption
<1>. QED BY <1>1, FS_CardinalityType

\* The folders can be put in the order of SOA_MOD_ORDER and of their names.
LEMMA ListedIs ==
    ASSUME NEW inst \in ModInstalls
    PROVE  Folders!Listed(inst) \in Orders(inst)
<1>. DEFINE P == DOMAIN inst
            k == Cardinality(P)
            R == {p \in P \X P : Folders!Before(inst, p[1], p[2])}
            Sorted(o) == \A i, j \in DOMAIN o : i < j => Folders!Before(inst, o[i], o[j])
<1>1. \A f, g \in P : <<f, g>> \in R <=> Folders!Before(inst, f, g)
  OBVIOUS
<1>2. TotalOrder(P, R)
  <2>1. ASSUME NEW f \in P, NEW g \in P, f # g
        PROVE  Folders!Before(inst, f, g) \/ Folders!Before(inst, g, f)
    <3>1. f \in Nat /\ g \in Nat /\ inst[f].rank \in Nat /\ inst[g].rank \in Nat
          /\ (inst[f].rank = inst[g].rank => inst[f].rank = 0)
      BY <2>1, InstallsAre
    <3>. QED BY <2>1, <3>1 DEF Folders!Before
  <2>2. ASSUME NEW f \in P, NEW g \in P, NEW e \in P,
               Folders!Before(inst, f, g), Folders!Before(inst, g, e)
        PROVE  Folders!Before(inst, f, e)
    <3>1. f \in Nat /\ g \in Nat /\ e \in Nat
          /\ inst[f].rank \in Nat /\ inst[g].rank \in Nat /\ inst[e].rank \in Nat
      BY InstallsAre
    <3>. QED BY <2>2, <3>1 DEF Folders!Before
  <2>. HIDE DEF P, R
  <2>. QED BY <1>1, <2>1, <2>2 DEF TotalOrder
<1>3. IsFiniteSet(P)
  BY InstallsAre
<1>4. PICK o \in [1 .. k -> P] : \A i, j \in 1 .. k : i < j => <<o[i], o[j]>> \in R
  <2>. HIDE DEF P, R
  <2>. QED BY <1>2, <1>3, ListedInOrder
<1>5. Sorted(o)
  <2>. HIDE DEF P, R
  <2>. QED BY <1>1, <1>4
<1>6. Folders!Listed(inst) = CHOOSE x \in [1 .. k -> P] : Sorted(x)
  <2>1. Folders!Present(inst) = P
    BY DEF Folders!Present
  <2>2. Folders!Cardinality(P) = k
    BY DEF Cardinality, Folders!Cardinality
  <2>. HIDE DEF k, P
  <2>. QED BY <2>1, <2>2 DEF Folders!Listed
<1>7. (CHOOSE x \in [1 .. k -> P] : Sorted(x)) \in [1 .. k -> P]
  <2>. HIDE DEF Sorted
  <2>. QED BY <1>5
<1>. QED BY <1>6, <1>7 DEF Orders

\* Of the pairs the wrong way round one is the first.
LEMMA FirstWrongIs ==
    ASSUME NEW inst \in ModInstalls, NEW order \in Orders(inst), Folders!Wrong(inst, order) # {}
    PROVE  /\ Folders!FirstWrong(inst, order) \in Folders!Wrong(inst, order)
           /\ Folders!FirstWrong(inst, order) \in (DOMAIN order) \X (DOMAIN order)
<1>. DEFINE W == Folders!Wrong(inst, order)
            A == {p[1] : p \in W}
<1>1. W \subseteq (DOMAIN order) \X (DOMAIN order) /\ DOMAIN order \subseteq Nat
  BY InstallsAre DEF Folders!Wrong, Orders
<1>2. PICK a \in A : \A x \in A : a <= x
  <2>1. A # {} /\ A \subseteq Nat
    BY <1>1
  <2>. HIDE DEF A
  <2>. QED BY <2>1, LeastNumber
<1>. DEFINE B == {p[2] : p \in {q \in W : q[1] = a}}
<1>3. PICK b \in B : \A x \in B : b <= x
  <2>1. B # {} /\ B \subseteq Nat
    BY <1>1, <1>2
  <2>. HIDE DEF B
  <2>. QED BY <2>1, LeastNumber
<1>4. <<a, b>> \in W
  BY <1>1, <1>3
<1>5. \A q \in W : a < q[1] \/ (a = q[1] /\ b <= q[2])
  BY <1>1, <1>2, <1>3
<1>6. \E p \in W : \A q \in W : p[1] < q[1] \/ (p[1] = q[1] /\ p[2] <= q[2])
  <2>. HIDE DEF W
  <2>. QED BY <1>4, <1>5
<1>7. Folders!FirstWrong(inst, order) \in W
  <2>. HIDE DEF W
  <2>1. Folders!FirstWrong(inst, order) =
          CHOOSE p \in W : \A q \in W : p[1] < q[1] \/ (p[1] = q[1] /\ p[2] <= q[2])
    BY DEF Folders!FirstWrong, W
  <2>. QED BY <1>6, <2>1
<1>. QED BY <1>1, <1>7

LEMMA MovedIs ==
    ASSUME NEW n \in Nat, NEW P, NEW order \in [1 .. n -> P], NEW i \in 1 .. n, NEW j \in 1 .. n
    PROVE  Folders!Moved(order, i, j) \in [1 .. n -> P]
BY DEF Folders!Moved

\* The order mods load in has each folder's number for a place, and no other number.
LEMMA PlanOrderIs ==
    ASSUME NEW inst \in ModInstalls
    PROVE  Folders!PlanOrder(inst) \in Orders(inst)
<1>. DEFINE k == Cardinality(DOMAIN inst)
            n == Folders!Passes(k)
            T == Orders(inst)
            Pass(o) == IF Folders!Wrong(inst, o) = {} THEN o
                       ELSE Folders!Moved(o, Folders!FirstWrong(inst, o)[1],
                                          Folders!FirstWrong(inst, o)[2])
            G == [o \in T |-> Pass(o)]
            F(g) == [i \in 0 .. n |-> IF i = 0 THEN Folders!Listed(inst) ELSE Pass(g[i - 1])]
            after == CHOOSE g : g = F(g)
<1>1. k \in Nat /\ n \in Nat
  BY InstallsAre DEF Folders!Passes
<1>2. ASSUME NEW o \in T PROVE Pass(o) \in T
  <2>1. CASE Folders!Wrong(inst, o) # {}
    <3>1. Folders!FirstWrong(inst, o)[1] \in 1 .. k /\ Folders!FirstWrong(inst, o)[2] \in 1 .. k
      BY <2>1, FirstWrongIs DEF Orders
    <3>. QED BY <1>1, <2>1, <3>1, MovedIs DEF Orders
  <2>. QED BY <2>1
<1>3. Folders!Listed(inst) \in T
  BY ListedIs
<1>4. PICK h \in [0 .. n -> T] : Repeats(h, n, Folders!Listed(inst), G)
  <2>1. G \in [T -> T]
    BY <1>2
  <2>. HIDE DEF G, T, n
  <2>. QED BY <1>1, <1>3, <2>1, Repeated
<1>5. h = F(h)
  <2>1. \A i \in 1 .. n : h[i - 1] \in T /\ h[i] = Pass(h[i - 1])
    <3>1. \A i \in 1 .. n : i - 1 \in 0 .. n
      BY <1>1
    <3>. HIDE DEF Pass, n, T
    <3>. QED BY <1>4, <3>1 DEF Repeats
  <2>. HIDE DEF Pass, n, T
  <2>2. \A i \in 0 .. n : i # 0 => i \in 1 .. n
    BY <1>1
  <2>. QED BY <1>4, <2>1, <2>2 DEF Repeats
<1>6. after = F(after)
  <2>. HIDE DEF F
  <2>. QED BY <1>5
<1>7. after[0] = Folders!Listed(inst) /\ \A i \in 1 .. n : after[i] = Pass(after[i - 1])
  <2>. HIDE DEF after, Pass, n
  <2>1. \A i \in 1 .. n : i # 0 /\ i \in 0 .. n
    BY <1>1
  <2>. QED BY <1>1, <1>6, <2>1
<1>8. after[n] \in T
  <2>. DEFINE S == {i \in Nat : i <= n => after[i] \in T}
  <2>1. 0 \in S
    <3>. HIDE DEF after, Pass, n
    <3>. QED BY <1>3, <1>7
  <2>2. ASSUME NEW i \in Nat, i \in S PROVE i + 1 \in S
    <3>1. i + 1 <= n => i <= n /\ i + 1 \in 1 .. n /\ i + 1 - 1 = i
      BY <1>1
    <3>. HIDE DEF after, Pass, n, T
    <3>. QED BY <1>2, <1>7, <2>2, <3>1
  <2>3. n \in S
    <3>. HIDE DEF S, n
    <3>. QED BY <1>1, <2>1, <2>2, NaturalsAll
  <2>. HIDE DEF after, n, T
  <2>. QED BY <1>1, <2>3
<1>9. Folders!PlanOrder(inst) = after[n]
  <2>1. Folders!Present(inst) = DOMAIN inst
    BY DEF Folders!Present
  <2>2. Folders!Cardinality(DOMAIN inst) = k
    BY DEF Cardinality, Folders!Cardinality
  <2>. HIDE DEF k
  <2>. QED BY <2>1, <2>2 DEF Folders!PlanOrder
<1>. QED BY <1>8, <1>9

LEMMA FoldersMaxIs ==
    ASSUME NEW n \in Nat, NEW s \in SUBSET (1 .. n), s # {}
    PROVE  /\ Folders!Max(s) \in s /\ \A y \in s : Folders!Max(s) >= y
           /\ Folders!Max(s) \in 1 .. n /\ s \ {Folders!Max(s)} \in SUBSET (1 .. n)
           /\ \A x \in s : (\A y \in s : x >= y) => x = Folders!Max(s)
<1>1. \E x \in s : \A y \in s : x >= y
  BY LastPlace
<1>2. Folders!Max(s) \in s /\ \A y \in s : Folders!Max(s) >= y
  BY <1>1 DEF Folders!Max
<1>3. \A x \in s : x \in Int
  OBVIOUS
<1>4. ASSUME NEW x \in s, \A y \in s : x >= y PROVE x = Folders!Max(s)
  <2>1. x >= Folders!Max(s) /\ Folders!Max(s) >= x /\ x \in Int /\ Folders!Max(s) \in Int
    BY <1>2, <1>3, <1>4
  <2>. QED BY <2>1
<1>. QED BY <1>2, <1>4

\* A folder whose files are placed is in the order, and neither turned off nor at odds with
\* another.
LEMMA ScanIs ==
    ASSUME NEW inst \in ModInstalls, NEW order \in Orders(inst)
    PROVE  \A f \in Folders!Scan(inst, order) :
              /\ \E i \in DOMAIN order : f = order[i]
              /\ inst[f].files # {} /\ ~inst[f].off /\ f \notin Folders!Opposed(inst)
<1>. DEFINE n == Cardinality(DOMAIN inst)
            May == {f \in DOMAIN inst :
                       /\ \E i \in DOMAIN order : f = order[i]
                       /\ inst[f].files # {} /\ ~inst[f].off /\ f \notin Folders!Opposed(inst)}
            T == SUBSET May
            One(d, i) == Folders!ScanOne(inst, d, order[i])
            G == [p \in T \X (1 .. n) |-> One(p[1], p[2])]
            F(g) == [s \in SUBSET (1 .. n) |->
                       IF s = {} THEN {} ELSE One(g[s \ {Folders!Max(s)}], Folders!Max(s))]
            it == CHOOSE g : g = F(g)
<1>1. n \in Nat /\ DOMAIN order = 1 .. n
  BY InstallsAre DEF Orders
<1>2. ASSUME NEW d \in T, NEW i \in 1 .. n PROVE One(d, i) \in T
  <2>1. order[i] \in DOMAIN inst /\ i \in DOMAIN order
    BY <1>1 DEF Orders
  <2>. QED BY <2>1 DEF Folders!ScanOne
<1>3. PICK h \in [SUBSET (1 .. n) -> T] : Folds(h, n, {}, G)
  <2>1. G \in [T \X (1 .. n) -> T]
    BY <1>2
  <2>2. {} \in T
    OBVIOUS
  <2>. HIDE DEF G, T, n
  <2>. QED BY <1>1, <2>1, <2>2, FoldThere
<1>4. h = F(h)
  <2>. HIDE DEF One, T, n
  <2>1. ASSUME NEW s \in SUBSET (1 .. n), s # {}
        PROVE  h[s] = One(h[s \ {Folders!Max(s)}], Folders!Max(s))
    <3>1. /\ Folders!Max(s) \in s /\ \A y \in s : Folders!Max(s) >= y
          /\ Folders!Max(s) \in 1 .. n /\ s \ {Folders!Max(s)} \in SUBSET (1 .. n)
      BY <1>1, <2>1, FoldersMaxIs
    <3>2. h[s] = G[<<h[s \ {Folders!Max(s)}], Folders!Max(s)>>]
      BY <1>3, <3>1 DEF Folds
    <3>3. h[s \ {Folders!Max(s)}] \in T
      BY <3>1
    <3>. QED BY <3>1, <3>2, <3>3
  <2>2. h[{}] = {}
    BY <1>3 DEF Folds
  <2>. HIDE DEF G
  <2>. QED BY <2>1, <2>2
<1>5. it = F(it)
  <2>. HIDE DEF F
  <2>. QED BY <1>4
<1>6. /\ it[{}] = {}
      /\ \A s \in SUBSET (1 .. n) :
            s # {} => it[s] = One(it[s \ {Folders!Max(s)}], Folders!Max(s))
  <2>. HIDE DEF it, One, n
  <2>. QED BY <1>5
<1>7. Stays(it, n, T)
  <2>1. ASSUME NEW s \in SUBSET (1 .. n), NEW x \in s, \A y \in s : x >= y, it[s \ {x}] \in T
        PROVE  it[s] \in T
    <3>1. x = Folders!Max(s) /\ x \in 1 .. n
      BY <1>1, <2>1, FoldersMaxIs
    <3>2. it[s] = One(it[s \ {x}], x)
      <4>. HIDE DEF it, One, n
      <4>. QED BY <1>6, <3>1
    <3>. HIDE DEF it, One, T, n
    <3>. QED BY <1>2, <2>1, <3>1, <3>2
  <2>2. it[{}] \in T
    <3>. HIDE DEF it
    <3>. QED BY <1>6
  <2>. HIDE DEF it, One, T, n
  <2>. QED BY <2>1, <2>2 DEF Stays
<1>8. it[1 .. n] \in T
  <2>. HIDE DEF it, T, n
  <2>. QED BY <1>1, <1>7, FoldStays
<1>9. Folders!Scan(inst, order) = it[1 .. n]
  <2>. HIDE DEF n
  <2>. QED BY <1>1 DEF Folders!Scan, Folders!FoldLeft, Folders!MapThenFoldSet
<1>. QED BY <1>8, <1>9

-----------------------------------------------------------------------------

(* The flag numbers. *)

ModIds == UNION {{inst[f].id : f \in DOMAIN inst} : inst \in ModInstalls}
Claim == [mod : ModIds, name : STRING, number : Nat]

\* Each claim has its number and each number its claim, under the next to give.
Right(flags, next) ==
    /\ \A c \in flags : c.number < next
    /\ \A c, d \in flags : (c.mod = d.mod /\ c.name = d.name) <=> c.number = d.number

Given == [next : Nat, flags : SUBSET Claim, dirty : BOOLEAN, ok : BOOLEAN]
LockFile == [there : BOOLEAN, torn : BOOLEAN, next : Nat, flags : SUBSET Claim]
ClaimsTyped ==
    /\ claims \in [next : Nat, flags : SUBSET Claim, dirty : BOOLEAN, bad : BOOLEAN]
    /\ Right(claims.flags, claims.next)

\* What is given out on top of what there was.
Grown(g) ==
    /\ Right(g.flags, g.next) /\ claims.flags \subseteq g.flags
    /\ ~g.dirty => ~claims.dirty /\ g.flags = claims.flags
    /\ claims.bad => ~g.ok /\ g.flags = claims.flags /\ g.dirty = claims.dirty

LEMMA AssignIs ==
    ASSUME NEW g \in Given, Grown(g), NEW m \in ModIds, NEW name \in STRING
    PROVE  Folders!Assign(m, g, name) \in Given /\ Grown(Folders!Assign(m, g, name))
<1>. DEFINE new == [mod |-> m, name |-> name, number |-> g.next]
            a == Folders!Assign(m, g, name)
<1>1. CASE a = g
  BY <1>1
<1>2. CASE a = [g EXCEPT !.ok = FALSE]
  BY <1>2 DEF Given, Grown
<1>3. CASE /\ g.ok /\ \A c \in g.flags : ~(c.mod = m /\ c.name = name)
           /\ a = [g EXCEPT !.flags = @ \cup {new}, !.next = @ + 1, !.dirty = TRUE]
  <2>1. new \in Claim /\ g.next \in Nat /\ g.flags \subseteq Claim
    BY DEF Claim, Given
  <2>. HIDE DEF new
  <2>2. a \in Given
    <3>1. g.flags \cup {new} \in SUBSET Claim /\ g.next + 1 \in Nat
      BY <2>1
    <3>2. \A fl \in SUBSET Claim, nx \in Nat :
             [g EXCEPT !.flags = fl, !.next = nx, !.dirty = TRUE] \in Given
      BY DEF Given
    <3>. QED BY <1>3, <3>1, <3>2
  <2>3. a.flags = g.flags \cup {new} /\ a.next = g.next + 1 /\ a.dirty = TRUE /\ a.ok = g.ok
    BY <1>3 DEF Given
  <2>. HIDE DEF a
  <2>4. new.mod = m /\ new.name = name /\ new.number = g.next
    BY DEF new
  <2>5. \A c \in g.flags : c.number \in Nat /\ c.number < g.next
    BY <2>1 DEF Claim, Grown, Right
  <2>6. Right(a.flags, a.next)
    <3>1. \A c \in a.flags : c.number < a.next
      BY <2>1, <2>3, <2>4, <2>5
    <3>2. ASSUME NEW c \in a.flags, NEW d \in a.flags
          PROVE  (c.mod = d.mod /\ c.name = d.name) <=> c.number = d.number
      <4>1. CASE c \in g.flags /\ d \in g.flags
        BY <4>1 DEF Grown, Right
      <4>2. CASE c \in g.flags /\ d = new
        BY <1>3, <2>1, <2>4, <2>5, <4>2
      <4>3. CASE c = new /\ d \in g.flags
        BY <1>3, <2>1, <2>4, <2>5, <4>3
      <4>. QED BY <2>3, <4>1, <4>2, <4>3
    <3>. QED BY <3>1, <3>2 DEF Right
  <2>7. ~claims.bad
    BY <1>3 DEF Grown
  <2>8. claims.flags \subseteq a.flags
    BY <2>3 DEF Grown
  <2>9. Grown(a)
    BY <2>3, <2>6, <2>7, <2>8 DEF Grown
  <2>. QED BY <2>2, <2>9 DEF a
<1>. QED BY <1>1, <1>2, <1>3 DEF Folders!Assign

LEMMA AssignedIs ==
    ASSUME NEW f \in DOMAIN installed, installed \in ModInstalls, ClaimsTyped
    PROVE  Folders!Assigned(f) \in Given /\ Grown(Folders!Assigned(f))
<1>. DEFINE names == installed[f].claims
            n == Len(names)
            T == {g \in Given : Grown(g)}
            from == [next |-> claims.next, flags |-> claims.flags,
                     dirty |-> claims.dirty, ok |-> ~claims.bad]
            One(g, i) == Folders!Assign(installed[f].id, g, names[i])
            G == [p \in T \X (1 .. n) |-> One(p[1], p[2])]
            F(g) == [s \in SUBSET (1 .. n) |->
                       IF s = {} THEN from ELSE One(g[s \ {Folders!Max(s)}], Folders!Max(s))]
            it == CHOOSE g : g = F(g)
<1>1. names \in Seq(STRING) /\ n \in Nat /\ DOMAIN names = 1 .. n
  BY InstallsAre
<1>2. from \in T
  BY DEF ClaimsTyped, Grown, Given
<1>3. ASSUME NEW g \in T, NEW i \in 1 .. n PROVE One(g, i) \in T
  <2>1. installed[f].id \in ModIds
    BY DEF ModIds
  <2>2. names[i] \in STRING
    BY <1>1
  <2>. HIDE DEF names
  <2>. QED BY <2>1, <2>2, AssignIs
<1>4. PICK h \in [SUBSET (1 .. n) -> T] : Folds(h, n, from, G)
  <2>1. G \in [T \X (1 .. n) -> T]
    BY <1>3
  <2>. HIDE DEF G, T, n, from
  <2>. QED BY <1>1, <1>2, <2>1, FoldThere
<1>5. h = F(h)
  <2>. HIDE DEF One, T, n, from
  <2>1. ASSUME NEW s \in SUBSET (1 .. n), s # {}
        PROVE  h[s] = One(h[s \ {Folders!Max(s)}], Folders!Max(s))
    <3>1. /\ Folders!Max(s) \in s /\ \A y \in s : Folders!Max(s) >= y
          /\ Folders!Max(s) \in 1 .. n /\ s \ {Folders!Max(s)} \in SUBSET (1 .. n)
      BY <1>1, <2>1, FoldersMaxIs
    <3>2. h[s] = G[<<h[s \ {Folders!Max(s)}], Folders!Max(s)>>]
      BY <1>4, <3>1 DEF Folds
    <3>3. h[s \ {Folders!Max(s)}] \in T
      BY <3>1
    <3>. QED BY <3>1, <3>2, <3>3
  <2>2. h[{}] = from
    BY <1>4 DEF Folds
  <2>. HIDE DEF G
  <2>. QED BY <2>1, <2>2
<1>6. it = F(it)
  <2>. HIDE DEF F
  <2>. QED BY <1>5
<1>7. /\ it[{}] = from
      /\ \A s \in SUBSET (1 .. n) :
            s # {} => it[s] = One(it[s \ {Folders!Max(s)}], Folders!Max(s))
  <2>. HIDE DEF it, One, n, from
  <2>. QED BY <1>6
<1>8. Stays(it, n, T)
  <2>1. ASSUME NEW s \in SUBSET (1 .. n), NEW x \in s, \A y \in s : x >= y, it[s \ {x}] \in T
        PROVE  it[s] \in T
    <3>1. x = Folders!Max(s) /\ x \in 1 .. n
      BY <1>1, <2>1, FoldersMaxIs
    <3>2. it[s] = One(it[s \ {x}], x)
      <4>. HIDE DEF it, One, n
      <4>. QED BY <1>7, <3>1
    <3>. HIDE DEF it, One, T, n
    <3>. QED BY <1>3, <2>1, <3>1, <3>2
  <2>2. it[{}] \in T
    <3>. HIDE DEF it, from, T
    <3>. QED BY <1>2, <1>7
  <2>. HIDE DEF it, One, T, n
  <2>. QED BY <2>1, <2>2 DEF Stays
<1>9. it[1 .. n] \in T
  <2>. HIDE DEF it, T, n
  <2>. QED BY <1>1, <1>8, FoldStays
<1>10. Folders!Assigned(f) = it[1 .. n]
  <2>. HIDE DEF n
  <2>. QED BY <1>1 DEF Folders!Assigned, Folders!FoldLeft, Folders!MapThenFoldSet
<1>. QED BY <1>9, <1>10

-----------------------------------------------------------------------------
(* mods.lock from start to start. *)

FoldersTyped ==
    /\ installed \in ModInstalls
    /\ modLoad \in {"off", "lock", "load", "write", "remove", "swap", "playing", "stopped"}
    /\ pos \in Nat \ {0}
    /\ modLoad # "off" =>
          /\ plan.order \in Orders(installed)
          /\ plan.bad = Folders!Opposed(installed)
          /\ scanned = Folders!Scan(installed, plan.order)
    /\ lock \in LockFile /\ tmp \in LockFile

\* The numbers a game has had are in the lock, or for a moment in the file to be it.

ClaimsInv ==
    /\ FoldersTyped /\ ClaimsTyped
    /\ Right(lock.flags, lock.next) /\ Right(tmp.flags, tmp.next)
    /\ modLoad \in {"off", "lock"} => claims = Folders!NoClaims
    /\ inUse \subseteq IF modLoad = "swap" THEN tmp.flags ELSE lock.flags
    /\ modLoad \in {"load", "write"} =>
          IF claims.bad THEN claims.flags = {} /\ ~claims.dirty
          ELSE /\ lock.flags \subseteq claims.flags
               /\ ~claims.dirty => claims.flags = lock.flags
    /\ modLoad = "write" => claims.dirty
    /\ modLoad = "remove" => lock.flags \subseteq claims.flags
    /\ modLoad \in {"remove", "swap"} => tmp.flags = claims.flags

LEMMA FoldersInit == Folders!Init => ClaimsInv
<1>. SUFFICES ASSUME Folders!Init PROVE ClaimsInv
  OBVIOUS
<1>. USE DEF Folders!Init
<1>1. Folders!NoFile \in LockFile /\ Folders!NoFile.flags = {} /\ Folders!NoFile.next = 1
  BY DEF Folders!NoFile, LockFile
<1>2. ClaimsTyped
  BY DEF ClaimsTyped, Folders!NoClaims, Right
<1>3. Right({}, 1)
  BY DEF Right
<1>4. FoldersTyped
  BY <1>1 DEF FoldersTyped
<1>. QED BY <1>1, <1>2, <1>3, <1>4 DEF ClaimsInv

LEMMA KeptClaims ==
    ASSUME NEW f \in DOMAIN installed, installed \in ModInstalls, ClaimsTyped,
           claims' = Folders!KeepClaims(f)
    PROVE  /\ ClaimsTyped' /\ claims'.bad = claims.bad
           /\ claims.flags \subseteq claims'.flags
           /\ ~claims'.dirty => ~claims.dirty /\ claims'.flags = claims.flags
           /\ claims.bad => claims'.flags = claims.flags /\ claims'.dirty = claims.dirty
<1>1. CASE Folders!Claiming(f)
  <2>. DEFINE g == Folders!Assigned(f)
  <2>1. g \in Given /\ Grown(g)
    BY AssignedIs
  <2>2. claims' = [next |-> g.next, flags |-> g.flags, dirty |-> g.dirty, bad |-> claims.bad]
    BY <1>1 DEF Folders!KeepClaims
  <2>. HIDE DEF g
  <2>. QED BY <2>1, <2>2 DEF Given, Grown, ClaimsTyped
<1>2. CASE ~Folders!Claiming(f)
  <2>1. claims' = claims
    BY <1>2 DEF Folders!KeepClaims
  <2>. QED BY <2>1 DEF ClaimsTyped
<1>. QED BY <1>1, <1>2

LEMMA FoldersTypesKept == FoldersTyped /\ ClaimsTyped /\ [Folders!Next]_folderVars => FoldersTyped'
<1>. SUFFICES ASSUME FoldersTyped, ClaimsTyped, [Folders!Next]_folderVars PROVE FoldersTyped'
  OBVIOUS
<1>. USE DEF FoldersTyped
<1>0. CASE UNCHANGED folderVars
  BY <1>0 DEF folderVars
<1>1. CASE Folders!Start
  <2>1. PICK inst \in ModInstalls :
          /\ installed' = inst
          /\ plan' = [order |-> Folders!PlanOrder(inst), bad |-> Folders!Opposed(inst)]
          /\ scanned' = Folders!Scan(inst, Folders!PlanOrder(inst))
          /\ modLoad' \in {"stopped", "lock"}
    BY <1>1 DEF Folders!Start
  <2>2. UNCHANGED <<pos, lock, tmp>>
    BY <1>1 DEF Folders!Start
  <2>. QED BY <2>1, <2>2, PlanOrderIs
<1>2. CASE Folders!LockRead
  BY <1>2 DEF Folders!LockRead, Folders!fileVars
<1>3. CASE Folders!PassOver
  BY <1>3 DEF Folders!PassOver, Folders!fileVars
<1>4. CASE Folders!LoadOne
  BY <1>4 DEF Folders!LoadOne, Folders!fileVars
<1>5. CASE Folders!LoadDone
  BY <1>5 DEF Folders!LoadDone, Folders!loadVars
<1>6. CASE Folders!WriteTmp
  <2>1. Folders!NewLock \in LockFile
    BY DEF Folders!NewLock, LockFile, ClaimsTyped
  <2>. QED BY <1>6, <2>1 DEF Folders!WriteTmp, Folders!loadVars
<1>7. CASE Folders!RemoveLock
  <2>1. Folders!NoFile \in LockFile
    BY DEF Folders!NoFile, LockFile
  <2>. QED BY <1>7, <2>1 DEF Folders!RemoveLock, Folders!loadVars
<1>8. CASE Folders!RenameLock
  <2>1. Folders!NoFile \in LockFile
    BY DEF Folders!NoFile, LockFile
  <2>. QED BY <1>8, <2>1 DEF Folders!RenameLock
<1>9. CASE Folders!Stop
  BY <1>9 DEF Folders!Stop, Folders!fileVars
<1>10. CASE Folders!Damage
  <2>1. [lock EXCEPT !.torn = ~@] \in LockFile
    BY DEF LockFile
  <2>. QED BY <1>10, <2>1 DEF Folders!Damage, Folders!loadVars
<1>. QED BY <1>0, <1>1, <1>2, <1>3, <1>4, <1>5, <1>6, <1>7, <1>8, <1>9, <1>10 DEF Folders!Next

LEMMA ClaimsKept == ClaimsInv /\ [Folders!Next]_folderVars => ClaimsInv'
<1>. SUFFICES ASSUME ClaimsInv, [Folders!Next]_folderVars PROVE ClaimsInv'
  OBVIOUS
<1>. USE DEF ClaimsInv
<1>t. FoldersTyped /\ FoldersTyped'
  BY FoldersTypesKept
<1>m. modLoad \in {"off", "lock", "load", "write", "remove", "swap", "playing", "stopped"}
      /\ lock \in LockFile /\ tmp \in LockFile
  BY <1>t DEF FoldersTyped
<1>0. CASE UNCHANGED folderVars
  BY <1>0, <1>t DEF folderVars, ClaimsTyped
<1>1. CASE Folders!Start
  BY <1>1, <1>t DEF Folders!Start, ClaimsTyped
<1>2. CASE Folders!LockRead
  <2>1. CASE lock.torn
    <3>1. claims' = [next |-> 1, flags |-> {}, dirty |-> FALSE, bad |-> TRUE]
      BY <1>2, <2>1 DEF Folders!LockRead, Folders!ReadLock, Folders!NoClaims
    <3>2. ClaimsTyped'
      BY <3>1 DEF ClaimsTyped, Right
    <3>. QED BY <1>2, <1>t, <3>1, <3>2 DEF Folders!LockRead, Folders!fileVars
  <2>2. CASE ~lock.torn
    <3>1. claims' = [next |-> lock.next, flags |-> lock.flags, dirty |-> FALSE, bad |-> FALSE]
      BY <1>2, <2>2 DEF Folders!LockRead, Folders!ReadLock, Folders!NoClaims
    <3>2. ClaimsTyped'
      BY <1>m, <3>1 DEF ClaimsTyped, LockFile
    <3>. QED BY <1>2, <1>t, <3>1, <3>2 DEF Folders!LockRead, Folders!fileVars
  <2>. QED BY <2>1, <2>2
<1>3. CASE Folders!PassOver
  BY <1>3, <1>t DEF Folders!PassOver, Folders!fileVars, ClaimsTyped
<1>4. CASE Folders!LoadOne
  <2>1. plan.order[pos] \in DOMAIN installed
    <3>1. plan.order \in Orders(installed) /\ pos \in Nat \ {0} /\ pos <= Len(plan.order)
          /\ installed \in ModInstalls
      BY <1>4, <1>t DEF FoldersTyped, Folders!LoadOne
    <3>2. Cardinality(DOMAIN installed) \in Nat
      BY <3>1, InstallsAre
    <3>3. Len(plan.order) = Cardinality(DOMAIN installed)
      BY <3>1, <3>2 DEF Orders
    <3>. QED BY <3>1, <3>2, <3>3 DEF Orders
  <2>2. claims' = Folders!KeepClaims(plan.order[pos])
    BY <1>4 DEF Folders!LoadOne
  <2>3. /\ ClaimsTyped' /\ claims'.bad = claims.bad
        /\ claims.flags \subseteq claims'.flags
        /\ ~claims'.dirty => ~claims.dirty /\ claims'.flags = claims.flags
        /\ claims.bad => claims'.flags = claims.flags /\ claims'.dirty = claims.dirty
    BY <1>t, <2>1, <2>2, KeptClaims DEF FoldersTyped
  <2>4. /\ modLoad = "load" /\ modLoad' \in {"stopped", "load"}
        /\ lock' = lock /\ tmp' = tmp /\ inUse' = inUse
    BY <1>4 DEF Folders!LoadOne, Folders!fileVars
  <2>. QED BY <1>t, <2>3, <2>4
<1>5. CASE Folders!LoadDone
  BY <1>5, <1>t DEF Folders!LoadDone, Folders!loadVars, ClaimsTyped
<1>6. CASE Folders!WriteTmp
  <2>1. tmp'.flags = claims.flags /\ tmp'.next = claims.next
    BY <1>6 DEF Folders!WriteTmp, Folders!NewLock
  <2>. QED BY <1>6, <1>t, <2>1 DEF Folders!WriteTmp, Folders!loadVars, ClaimsTyped
<1>7. CASE Folders!RemoveLock
  <2>1. lock'.flags = {} /\ lock'.next = 1 /\ Right({}, 1)
    BY <1>7 DEF Folders!RemoveLock, Folders!NoFile, Right
  <2>. QED BY <1>7, <1>t, <2>1 DEF Folders!RemoveLock, Folders!loadVars, ClaimsTyped
<1>8. CASE Folders!RenameLock
  <2>1. tmp'.flags = {} /\ tmp'.next = 1 /\ Right({}, 1)
    BY <1>8 DEF Folders!RenameLock, Folders!NoFile, Right
  <2>2. claims' = [claims EXCEPT !.dirty = FALSE]
    BY <1>8 DEF Folders!RenameLock
  <2>3. ClaimsTyped'
    BY <2>2 DEF ClaimsTyped
  <2>. QED BY <1>8, <1>t, <2>1, <2>3 DEF Folders!RenameLock
<1>9. CASE Folders!Stop
  <2>1. ClaimsTyped'
    BY <1>9 DEF Folders!Stop, ClaimsTyped, Folders!NoClaims, Right
  <2>. QED BY <1>9, <1>t, <2>1 DEF Folders!Stop, Folders!fileVars
<1>10. CASE Folders!Damage
  <2>1. lock' = [lock EXCEPT !.torn = ~@] /\ modLoad = "off" /\ modLoad' = "off"
        /\ UNCHANGED <<claims, tmp, inUse>>
    BY <1>10 DEF Folders!Damage, Folders!loadVars
  <2>2. lock'.flags = lock.flags /\ lock'.next = lock.next
    BY <1>m, <2>1 DEF LockFile
  <2>. QED BY <1>t, <2>1, <2>2 DEF ClaimsTyped
<1>. QED BY <1>0, <1>1, <1>2, <1>3, <1>4, <1>5, <1>6, <1>7, <1>8, <1>9, <1>10 DEF Folders!Next

LEMMA ClaimsInvariant == FilesSpec => []ClaimsInv
<1>1. FilesInit => ClaimsInv
  BY FoldersInit DEF FilesInit
<1>2. ClaimsInv /\ [FilesNext]_filesVars => ClaimsInv'
  BY ClaimsKept DEF FilesNext, filesVars
<1>. QED BY <1>1, <1>2, PTL DEF FilesSpec

\* ClaimsStandHolds: a flag number a running game has had for a claim is that claim's
\* for good (claim_assign, lock_read, lock_write).
THEOREM ClaimsStandHolds == FilesSpec => []ClaimsStand
<1>1. ClaimsInv => ClaimsStand
  BY DEF ClaimsInv, Right, ClaimsStand, Folders!ClaimsStand
<1>. QED BY <1>1, ClaimsInvariant, PTL

-----------------------------------------------------------------------------
(* What a refused mod leaves. *)

\* Each patch stands under the index of the mod that wrote it, and each mod's callbacks under
\* its own.
Owned ==
    /\ loaded \in Seq(DOMAIN installed)
    /\ \A p \in patches : p.mod \in DOMAIN loaded /\ p \in Folders!Written(loaded[p.mod], p.mod)
    /\ \A i \in hooks : i \in DOMAIN loaded /\ installed[loaded[i]].lib

\* The mods passed so far whose files are placed are loaded.
Passed(n) ==
    \A i \in 1 .. n : i \in DOMAIN plan.order /\ plan.order[i] \in scanned
                      /\ installed[plan.order[i]].wrong # "place"
        => \E j \in DOMAIN loaded : loaded[j] = plan.order[i]

RefusedInv ==
    /\ modLoad \in {"off", "lock"} => pos = 1 /\ loaded = <<>> /\ patches = {} /\ hooks = {}
    /\ Owned
    /\ modLoad \in {"load", "write", "remove", "swap", "playing"} => Passed(pos - 1)
    /\ modLoad \in {"write", "remove", "swap", "playing"} => pos > Len(plan.order)

LEMMA RefusedInit == Folders!Init => RefusedInv
<1>. SUFFICES ASSUME Folders!Init PROVE RefusedInv
  OBVIOUS
<1>. USE DEF Folders!Init
<1>1. Owned
  BY DEF Owned
<1>. QED BY <1>1 DEF RefusedInv

\* A mod whose files are placed is not passed over afterwards.
LEMMA PlacedIsTaken ==
    ASSUME FoldersTyped, modLoad # "off", NEW f \in scanned, installed[f].wrong # "place"
    PROVE  ~Folders!PassedOver(f)
<1>1. ~installed[f].off /\ f \notin Folders!Opposed(installed)
  BY ScanIs DEF FoldersTyped
<1>. QED BY <1>1 DEF FoldersTyped, Folders!PassedOver, Folders!ScanRefuses

LEMMA OneMore ==
    ASSUME FoldersTyped, modLoad = "load", pos <= Len(plan.order)
    PROVE  /\ pos \in DOMAIN plan.order /\ plan.order[pos] \in DOMAIN installed
           /\ pos \in Nat /\ pos + 1 - 1 = pos
           /\ \A i \in 1 .. pos : i \in 1 .. pos - 1 \/ i = pos
<1>1. plan.order \in Orders(installed) /\ pos \in Nat \ {0} /\ installed \in ModInstalls
  BY DEF FoldersTyped
<1>2. Cardinality(DOMAIN installed) \in Nat
  BY <1>1, InstallsAre
<1>3. Len(plan.order) = Cardinality(DOMAIN installed)
  BY <1>1, <1>2 DEF Orders
<1>. QED BY <1>1, <1>2, <1>3 DEF Orders

\* The mod loaded next gets the next index, and what stood under the others stays.
LEMMA AppendedOwn ==
    ASSUME Owned, NEW f \in DOMAIN installed,
           installed' = installed, loaded' = Append(loaded, f),
           patches' = patches \cup Folders!Written(f, Len(loaded) + 1),
           hooks' = IF ~installed[f].lib THEN hooks ELSE hooks \cup {Len(loaded) + 1}
    PROVE  Owned'
<1>. DEFINE n == Len(loaded) + 1
<1>1. /\ loaded \in Seq(DOMAIN installed) /\ loaded' \in Seq(DOMAIN installed)
      /\ n \in DOMAIN loaded' /\ loaded'[n] = f
      /\ \A i \in DOMAIN loaded : i \in DOMAIN loaded' /\ loaded'[i] = loaded[i]
  BY DEF Owned
<1>. HIDE DEF n
<1>2. patches' = patches \cup Folders!Written(f, n)
  BY DEF n
<1>3. \A g, i : Folders!Written(g, i)' = Folders!Written(g, i)
  BY DEF Folders!Written
<1>4. ASSUME NEW p \in patches'
      PROVE  p.mod \in DOMAIN loaded' /\ p \in Folders!Written(loaded'[p.mod], p.mod)
  <2>1. CASE p \in patches
    BY <1>1, <2>1 DEF Owned
  <2>2. CASE p \in Folders!Written(f, n)
    <3>1. p.mod = n
      BY <2>2 DEF Folders!Written
    <3>. QED BY <1>1, <2>2, <3>1
  <2>. QED BY <1>2, <2>1, <2>2
<1>5. \A i \in hooks' : i \in DOMAIN loaded' /\ installed[loaded'[i]].lib
  <2>1. hooks' = IF ~installed[f].lib THEN hooks ELSE hooks \cup {n}
    BY DEF n
  <2>. QED BY <1>1, <2>1 DEF Owned
<1>. QED BY <1>1, <1>3, <1>4, <1>5 DEF Owned, Folders!Written

LEMMA RefusedKept ==
    FoldersTyped /\ RefusedInv /\ [Folders!Next]_folderVars => RefusedInv'
<1>. SUFFICES ASSUME FoldersTyped, RefusedInv, [Folders!Next]_folderVars PROVE RefusedInv'
  OBVIOUS
<1>. USE DEF RefusedInv
<1>m. modLoad \in {"off", "lock", "load", "write", "remove", "swap", "playing", "stopped"}
  BY DEF FoldersTyped
<1>s. ASSUME UNCHANGED <<installed, loaded, patches, hooks>> PROVE Owned'
  BY <1>s DEF Owned, Folders!Written
<1>p. ASSUME NEW n, Passed(n), UNCHANGED <<installed, plan, scanned, loaded>> PROVE Passed(n)'
  BY <1>p DEF Passed
<1>0. CASE UNCHANGED folderVars
  BY <1>0, <1>s, <1>p DEF folderVars
<1>1. CASE Folders!Start
  <2>1. modLoad = "off" /\ modLoad' \in {"stopped", "lock"}
        /\ UNCHANGED <<pos, loaded, patches, hooks>>
    BY <1>1 DEF Folders!Start
  <2>2. Owned'
    BY <2>1 DEF Owned
  <2>. QED BY <2>1, <2>2
<1>2. CASE Folders!LockRead
  <2>1. modLoad = "lock" /\ modLoad' = "load"
        /\ UNCHANGED <<pos, plan, scanned, installed, loaded, patches, hooks>>
    BY <1>2 DEF Folders!LockRead, Folders!fileVars
  <2>2. Passed(pos - 1)'
    BY <2>1 DEF Passed
  <2>. QED BY <2>1, <2>2, <1>s
<1>3. CASE Folders!PassOver
  <2>1. /\ modLoad = "load" /\ modLoad' = "load" /\ pos' = pos + 1
        /\ pos <= Len(plan.order) /\ Folders!PassedOver(plan.order[pos])
        /\ UNCHANGED <<plan, scanned, installed, loaded, patches, hooks>>
    BY <1>3 DEF Folders!PassOver, Folders!fileVars
  <2>2. Passed(pos)
    <3>1. plan.order[pos] \in scanned => installed[plan.order[pos]].wrong = "place"
      BY <2>1, PlacedIsTaken
    <3>2. Passed(pos - 1)
      BY <2>1
    <3>. QED BY <2>1, <3>1, <3>2, OneMore DEF Passed
  <2>3. PICK n : n = pos
    OBVIOUS
  <2>4. pos' - 1 = n
    BY <2>1, <2>3, OneMore
  <2>5. Passed(n)'
    BY <2>1, <2>2, <2>3, <1>p
  <2>. QED BY <2>1, <2>4, <2>5, <1>s
<1>4. CASE Folders!LoadOne
  <2>. DEFINE f == plan.order[pos]
              refused == Folders!Refused(f)
  <2>1. /\ modLoad = "load" /\ pos' = pos + 1 /\ pos <= Len(plan.order)
        /\ loaded' = (IF refused THEN loaded ELSE Append(loaded, f))
        /\ patches' = Folders!KeepPatches(f, refused) /\ hooks' = Folders!KeepHooks(f, refused)
        /\ modLoad' = (IF refused /\ f \in scanned THEN "stopped" ELSE "load")
        /\ UNCHANGED <<plan, scanned, installed>>
    BY <1>4 DEF Folders!LoadOne, Folders!fileVars
  <2>n. PICK n : n = pos
    OBVIOUS
  <2>2. f \in DOMAIN installed /\ pos' - 1 = n
    BY <2>1, <2>n, OneMore
  <2>3. CASE refused
    <3>. HIDE DEF f, refused
    <3>1. UNCHANGED <<loaded, patches, hooks>>
      BY <2>1, <2>3 DEF Folders!KeepPatches, Folders!KeepHooks
    <3>2. ASSUME modLoad' = "load" PROVE Passed(pos - 1)'
      <4>1. plan.order[pos] \notin scanned
        BY <2>1, <2>3, <3>2 DEF f
      <4>2. Passed(pos - 1)
        BY <2>1
      <4>3. Passed(pos)
        BY <2>1, <4>1, <4>2, OneMore DEF Passed
      <4>4. Passed(n)'
        BY <2>1, <2>n, <3>1, <4>3, <1>p
      <4>. QED BY <2>2, <4>4
    <3>. QED BY <2>1, <3>1, <3>2, <1>s
  <2>4. CASE ~refused
    <3>. HIDE DEF refused
    <3>1. Owned'
      <4>1. patches' = patches \cup Folders!Written(f, Len(loaded) + 1)
        BY <2>1, <2>4 DEF Folders!KeepPatches
      <4>2. hooks' = IF ~installed[f].lib THEN hooks ELSE hooks \cup {Len(loaded) + 1}
        BY <2>1, <2>4 DEF Folders!KeepHooks
      <4>. HIDE DEF f
      <4>. QED BY <2>1, <2>2, <2>4, <4>1, <4>2, AppendedOwn
    <3>2. /\ \A j \in DOMAIN loaded : j \in DOMAIN loaded' /\ loaded'[j] = loaded[j]
          /\ Len(loaded) + 1 \in DOMAIN loaded' /\ loaded'[Len(loaded) + 1] = f
      <4>1. loaded \in Seq(DOMAIN installed) /\ loaded' = Append(loaded, f)
        BY <2>1, <2>4 DEF Owned
      <4>. HIDE DEF f
      <4>. QED BY <2>2, <4>1
    <3>3. Passed(n)'
      <4>1. Passed(pos - 1)
        BY <2>1
      <4>2. \A i \in 1 .. pos : i \in 1 .. pos - 1 \/ i = pos
        BY <2>1, OneMore
      <4>. QED BY <2>1, <2>n, <3>2, <4>1, <4>2 DEF Passed
    <3>. QED BY <2>1, <2>2, <2>4, <3>1, <3>3
  <2>. QED BY <2>3, <2>4
<1>5. CASE Folders!LoadDone
  <2>1. modLoad = "load" /\ modLoad' \in {"write", "playing"} /\ pos > Len(plan.order)
        /\ UNCHANGED <<pos, plan, scanned, installed, loaded, patches, hooks>>
    BY <1>5 DEF Folders!LoadDone, Folders!loadVars
  <2>. QED BY <2>1, <1>s, <1>p
<1>6. CASE Folders!WriteTmp \/ Folders!RemoveLock \/ Folders!RenameLock
  <2>1. modLoad \in {"write", "remove", "swap"} /\ modLoad' \in {"remove", "swap", "playing"}
        /\ UNCHANGED <<pos, plan, scanned, installed, loaded, patches, hooks>>
    BY <1>6 DEF Folders!WriteTmp, Folders!RemoveLock, Folders!RenameLock, Folders!loadVars
  <2>. QED BY <2>1, <1>s, <1>p
<1>7. CASE Folders!Stop
  <2>1. modLoad' = "off" /\ pos' = 1 /\ loaded' = <<>> /\ patches' = {} /\ hooks' = {}
    BY <1>7 DEF Folders!Stop
  <2>. QED BY <2>1 DEF Owned
<1>8. CASE Folders!Damage
  <2>1. modLoad = "off" /\ modLoad' = "off"
        /\ UNCHANGED <<pos, plan, scanned, installed, loaded, patches, hooks>>
    BY <1>8 DEF Folders!Damage, Folders!loadVars
  <2>. QED BY <2>1, <1>s
<1>. QED BY <1>0, <1>1, <1>2, <1>3, <1>4, <1>5, <1>6, <1>7, <1>8 DEF Folders!Next

LEMMA RefusedInvariant == FilesSpec => []RefusedInv
<1>1. FilesInit => RefusedInv
  BY RefusedInit DEF FilesInit
<1>2. ClaimsInv /\ RefusedInv /\ [FilesNext]_filesVars => RefusedInv'
  BY RefusedKept DEF FilesNext, filesVars, ClaimsInv
<1>. QED BY <1>1, <1>2, ClaimsInvariant, PTL DEF FilesSpec

\* RefusedWholeHolds: every patch and callback is a loaded mod's own, and a mod whose files
\* are on the disc is loaded (load_one, mod_load).
THEOREM RefusedWholeHolds == FilesSpec => []RefusedWhole
<1>1. ClaimsInv /\ RefusedInv => RefusedWhole
  <2>. SUFFICES ASSUME ClaimsInv, RefusedInv, modLoad = "playing"
                PROVE  /\ Owned
                       /\ \A f \in scanned : installed[f].wrong # "place" => f \in Folders!Range(loaded)
    BY DEF RefusedWhole, Folders!RefusedWhole, Folders!Playing, Folders!Placeable, Owned
  <2>1. ASSUME NEW f \in scanned, installed[f].wrong # "place" PROVE f \in Folders!Range(loaded)
    <3>1. FoldersTyped /\ Passed(pos - 1) /\ pos > Len(plan.order)
      BY DEF ClaimsInv, RefusedInv
    <3>2. PICK i \in DOMAIN plan.order : f = plan.order[i]
      BY <3>1, ScanIs DEF FoldersTyped
    <3>3. i \in 1 .. pos - 1
      <4>1. plan.order \in Orders(installed) /\ installed \in ModInstalls /\ pos \in Nat
        BY <3>1 DEF FoldersTyped
      <4>2. Cardinality(DOMAIN installed) \in Nat
        BY <4>1, InstallsAre
      <4>3. i \in 1 .. Len(plan.order) /\ Len(plan.order) \in Nat
        BY <4>1, <4>2 DEF Orders
      <4>. QED BY <3>1, <4>1, <4>3
    <3>4. PICK j \in DOMAIN loaded : loaded[j] = f
      BY <2>1, <3>1, <3>2, <3>3 DEF Passed
    <3>. QED BY <3>4 DEF Folders!Range
  <2>. QED BY <2>1 DEF RefusedInv
<1>. QED BY <1>1, ClaimsInvariant, RefusedInvariant, PTL

LEMMA MaxIs ==
    ASSUME NEW n \in Nat, NEW s \in SUBSET (1 .. n), s # {}
    PROVE  /\ Max(s) \in s /\ \A y \in s : Max(s) >= y
           /\ Max(s) \in 1 .. n /\ s \ {Max(s)} \in SUBSET (1 .. n)
           /\ \A x \in s : (\A y \in s : x >= y) => x = Max(s)
<1>1. \E x \in s : \A y \in s : x >= y
  BY LastPlace
<1>2. Max(s) \in s /\ \A y \in s : Max(s) >= y
  BY <1>1 DEF Max
<1>3. \A x \in s : x \in Int
  OBVIOUS
<1>4. ASSUME NEW x \in s, \A y \in s : x >= y PROVE x = Max(s)
  <2>1. x >= Max(s) /\ Max(s) >= x /\ x \in Int /\ Max(s) \in Int
    BY <1>2, <1>3, <1>4
  <2>. QED BY <2>1
<1>. QED BY <1>2, <1>4

Prefixed(n, k) ==
    /\ 1 .. k \in SUBSET (1 .. n) /\ 1 .. k # {} /\ Max(1 .. k) = k
    /\ (1 .. k) \ {k} = 1 .. k - 1 /\ k \in 0 .. n /\ k - 1 \in 0 .. n
LEMMA FirstPlaces == ASSUME NEW n \in Nat, NEW k \in 1 .. n PROVE Prefixed(n, k)
<1>1. k \in Nat /\ k \in 1 .. k
  OBVIOUS
<1>2. \A y \in 1 .. k : k >= y
  OBVIOUS
<1>3. 1 .. k \in SUBSET (1 .. n)
  OBVIOUS
<1>4. 1 .. k # {}
  BY <1>1
<1>5. Max(1 .. k) = k
  BY <1>1, <1>2, <1>3, <1>4, MaxIs
<1>6. (1 .. k) \ {k} = 1 .. k - 1
  OBVIOUS
<1>7. k \in 0 .. n /\ k - 1 \in 0 .. n
  OBVIOUS
<1>. QED BY <1>3, <1>4, <1>5, <1>6, <1>7 DEF Prefixed

\* What holds at the start of a run and after each of its steps holds at its end.
Through(a, n, P) == a[0] \in P[0] /\ \A k \in 1 .. n : a[k - 1] \in P[k - 1] => a[k] \in P[k]
LEMMA RunStays ==
    ASSUME NEW n \in Nat, NEW a, NEW P, Through(a, n, P)
    PROVE  a[n] \in P[n]
<1>. DEFINE S == {k \in Nat : k <= n => a[k] \in P[k]}
<1>1. 0 \in S
  BY DEF Through
<1>2. ASSUME NEW k \in Nat, k \in S PROVE k + 1 \in S
  <2>1. k + 1 <= n => k <= n /\ k + 1 \in 1 .. n /\ k + 1 - 1 = k
    OBVIOUS
  <2>. QED BY <1>2, <2>1 DEF Through
<1>3. n \in S
  <2>. HIDE DEF S
  <2>. QED BY <1>1, <1>2, NaturalsAll
<1>. QED BY <1>3

-----------------------------------------------------------------------------
(* The chunks of a save. *)

Places == Maps \cup {0}
ChunkRec == [of : 0 .. NMods, val : 0 .. MaxVal, size : Nat \ {0}, made : Places, instead : Places]

\* What a total adds up.
LEMMA TotalRuns ==
    ASSUME NEW chunks \in Seq(ChunkRec)
    PROVE  \E a \in [0 .. Len(chunks) -> Nat] :
              /\ a[0] = 0
              /\ \A k \in 1 .. Len(chunks) : a[k] = a[k - 1] + chunks[k].size
              /\ Total(chunks) = a[Len(chunks)]
<1>. DEFINE n == Len(chunks)
            T == Nat
            One(t, i) == t + chunks[i].size
            G == [p \in T \X (1 .. n) |-> One(p[1], p[2])]
            F(g) == [s \in SUBSET (1 .. n) |->
                       IF s = {} THEN 0 ELSE One(g[s \ {Max(s)}], Max(s))]
            it == CHOOSE g : g = F(g)
            a == [k \in 0 .. n |-> it[1 .. k]]
<1>1. n \in Nat /\ DOMAIN chunks = 1 .. n
  OBVIOUS
<1>2. ASSUME NEW t \in T, NEW i \in 1 .. n PROVE One(t, i) \in T
  <2>1. chunks[i] \in ChunkRec
    OBVIOUS
  <2>. QED BY <2>1 DEF ChunkRec
<1>3. 0 \in T
  OBVIOUS
<1>4. PICK h \in [SUBSET (1 .. n) -> T] : Folds(h, n, 0, G)
  <2>1. G \in [T \X (1 .. n) -> T]
    BY <1>2
  <2>. HIDE DEF G, T, n
  <2>. QED BY <1>1, <1>3, <2>1, FoldThere
<1>5. h = F(h)
  <2>. HIDE DEF One, T, n
  <2>1. ASSUME NEW s \in SUBSET (1 .. n), s # {}
        PROVE  h[s] = One(h[s \ {Max(s)}], Max(s))
    <3>1. /\ Max(s) \in s /\ \A y \in s : Max(s) >= y
          /\ Max(s) \in 1 .. n /\ s \ {Max(s)} \in SUBSET (1 .. n)
      BY <1>1, <2>1, MaxIs
    <3>2. h[s] = G[<<h[s \ {Max(s)}], Max(s)>>]
      BY <1>4, <3>1 DEF Folds
    <3>3. h[s \ {Max(s)}] \in T
      BY <3>1
    <3>. QED BY <3>1, <3>2, <3>3
  <2>2. h[{}] = 0
    BY <1>4 DEF Folds
  <2>. HIDE DEF G
  <2>. QED BY <2>1, <2>2
<1>6. it = F(it)
  <2>. HIDE DEF F
  <2>. QED BY <1>5
<1>7. a[0] = 0 /\ \A k \in 1 .. n : a[k] = One(a[k - 1], k)
  <2>1. it[{}] = 0 /\ \A s \in SUBSET (1 .. n) : s # {} => it[s] = One(it[s \ {Max(s)}], Max(s))
    <3>. HIDE DEF it, One, n
    <3>. QED BY <1>6
  <2>2. a[0] = 0
    <3>1. 1 .. 0 = {} /\ 0 \in 0 .. n
      BY <1>1
    <3>. HIDE DEF it, One, n
    <3>. QED BY <2>1, <3>1
  <2>3. ASSUME NEW k \in 1 .. n PROVE a[k] = One(a[k - 1], k)
    <3>. HIDE DEF n
    <3>1. Prefixed(n, k)
      BY <1>1, FirstPlaces
    <3>2. it[1 .. k] = One(it[1 .. k - 1], k)
      <4>. HIDE DEF it, One
      <4>. QED BY <2>1, <3>1 DEF Prefixed
    <3>3. a[k] = it[1 .. k] /\ a[k - 1] = it[1 .. k - 1]
      <4>. HIDE DEF it
      <4>. QED BY <3>1 DEF Prefixed
    <3>. HIDE DEF it, One, a
    <3>. QED BY <3>2, <3>3
  <2>. QED BY <2>2, <2>3
<1>8. a \in [0 .. n -> T]
  <2>. DEFINE S == {k \in Nat : k <= n => a[k] \in T}
  <2>1. 0 \in S
    <3>. HIDE DEF a, T, n
    <3>. QED BY <1>3, <1>7
  <2>2. ASSUME NEW k \in Nat, k \in S PROVE k + 1 \in S
    <3>1. k + 1 <= n => k <= n /\ k + 1 \in 1 .. n /\ k + 1 - 1 = k
      BY <1>1
    <3>. HIDE DEF a, One, T, n
    <3>. QED BY <1>2, <1>7, <2>2, <3>1
  <2>3. \A k \in Nat : k \in S
    <3>. HIDE DEF S
    <3>. QED BY <2>1, <2>2, NaturalsAll
  <2>4. \A k \in 0 .. n : k \in Nat /\ k <= n
    BY <1>1
  <2>5. \A k \in 0 .. n : a[k] \in T
    <3>. HIDE DEF a, T, n
    <3>. QED BY <2>3, <2>4
  <2>6. DOMAIN a = 0 .. n /\ a = [k \in 0 .. n |-> a[k]]
    <3>. HIDE DEF it, n
    <3>. QED OBVIOUS
  <2>. HIDE DEF a, T, n
  <2>. QED BY <2>5, <2>6
<1>9. Total(chunks) = a[n]
  <2>1. Total(chunks) = it[1 .. n]
    <3>. HIDE DEF n
    <3>. QED BY <1>1 DEF Total, FoldLeft, MapThenFoldSet
  <2>. HIDE DEF it, n
  <2>. QED BY <1>1, <2>1
<1>. QED BY <1>7, <1>8, <1>9

\* What a Continue keeps.
LEMMA KeptRuns ==
    ASSUME NEW chunks \in Seq(ChunkRec)
    PROVE  \E a \in [0 .. Len(chunks) -> Seq(ChunkRec)] :
              /\ a[0] = <<>>
              /\ \A k \in 1 .. Len(chunks) :
                    a[k] = IF IsKept(chunks[k]) THEN Append(a[k - 1], chunks[k]) ELSE a[k - 1]
              /\ KeptOf(chunks) = a[Len(chunks)]
<1>. DEFINE n == Len(chunks)
            T == Seq(ChunkRec)
            One(t, i) == IF IsKept(chunks[i]) THEN Append(t, chunks[i]) ELSE t
            G == [p \in T \X (1 .. n) |-> One(p[1], p[2])]
            F(g) == [s \in SUBSET (1 .. n) |->
                       IF s = {} THEN <<>> ELSE One(g[s \ {Max(s)}], Max(s))]
            it == CHOOSE g : g = F(g)
            a == [k \in 0 .. n |-> it[1 .. k]]
<1>1. n \in Nat /\ DOMAIN chunks = 1 .. n
  OBVIOUS
<1>2. ASSUME NEW t \in T, NEW i \in 1 .. n PROVE One(t, i) \in T
  <2>1. chunks[i] \in ChunkRec
    OBVIOUS
  <2>. QED BY <2>1
<1>3. <<>> \in T
  OBVIOUS
<1>4. PICK h \in [SUBSET (1 .. n) -> T] : Folds(h, n, <<>>, G)
  <2>1. G \in [T \X (1 .. n) -> T]
    BY <1>2
  <2>. HIDE DEF G, T, n
  <2>. QED BY <1>1, <1>3, <2>1, FoldThere
<1>5. h = F(h)
  <2>. HIDE DEF One, T, n
  <2>1. ASSUME NEW s \in SUBSET (1 .. n), s # {}
        PROVE  h[s] = One(h[s \ {Max(s)}], Max(s))
    <3>1. /\ Max(s) \in s /\ \A y \in s : Max(s) >= y
          /\ Max(s) \in 1 .. n /\ s \ {Max(s)} \in SUBSET (1 .. n)
      BY <1>1, <2>1, MaxIs
    <3>2. h[s] = G[<<h[s \ {Max(s)}], Max(s)>>]
      BY <1>4, <3>1 DEF Folds
    <3>3. h[s \ {Max(s)}] \in T
      BY <3>1
    <3>. QED BY <3>1, <3>2, <3>3
  <2>2. h[{}] = <<>>
    BY <1>4 DEF Folds
  <2>. HIDE DEF G
  <2>. QED BY <2>1, <2>2
<1>6. it = F(it)
  <2>. HIDE DEF F
  <2>. QED BY <1>5
<1>7. a[0] = <<>> /\ \A k \in 1 .. n : a[k] = One(a[k - 1], k)
  <2>1. it[{}] = <<>> /\ \A s \in SUBSET (1 .. n) : s # {} => it[s] = One(it[s \ {Max(s)}], Max(s))
    <3>. HIDE DEF it, One, n
    <3>. QED BY <1>6
  <2>2. a[0] = <<>>
    <3>1. 1 .. 0 = {} /\ 0 \in 0 .. n
      BY <1>1
    <3>. HIDE DEF it, One, n
    <3>. QED BY <2>1, <3>1
  <2>3. ASSUME NEW k \in 1 .. n PROVE a[k] = One(a[k - 1], k)
    <3>. HIDE DEF n
    <3>1. Prefixed(n, k)
      BY <1>1, FirstPlaces
    <3>2. it[1 .. k] = One(it[1 .. k - 1], k)
      <4>. HIDE DEF it, One
      <4>. QED BY <2>1, <3>1 DEF Prefixed
    <3>3. a[k] = it[1 .. k] /\ a[k - 1] = it[1 .. k - 1]
      <4>. HIDE DEF it
      <4>. QED BY <3>1 DEF Prefixed
    <3>. HIDE DEF it, One, a
    <3>. QED BY <3>2, <3>3
  <2>. QED BY <2>2, <2>3
<1>8. a \in [0 .. n -> T]
  <2>. DEFINE S == {k \in Nat : k <= n => a[k] \in T}
  <2>1. 0 \in S
    <3>. HIDE DEF a, T, n
    <3>. QED BY <1>3, <1>7
  <2>2. ASSUME NEW k \in Nat, k \in S PROVE k + 1 \in S
    <3>1. k + 1 <= n => k <= n /\ k + 1 \in 1 .. n /\ k + 1 - 1 = k
      BY <1>1
    <3>. HIDE DEF a, One, T, n
    <3>. QED BY <1>2, <1>7, <2>2, <3>1
  <2>3. \A k \in Nat : k \in S
    <3>. HIDE DEF S
    <3>. QED BY <2>1, <2>2, NaturalsAll
  <2>4. \A k \in 0 .. n : k \in Nat /\ k <= n
    BY <1>1
  <2>5. \A k \in 0 .. n : a[k] \in T
    <3>. HIDE DEF a, T, n
    <3>. QED BY <2>3, <2>4
  <2>6. DOMAIN a = 0 .. n /\ a = [k \in 0 .. n |-> a[k]]
    <3>. HIDE DEF it, n
    <3>. QED OBVIOUS
  <2>. HIDE DEF a, T, n
  <2>. QED BY <2>5, <2>6
<1>9. KeptOf(chunks) = a[n]
  <2>1. KeptOf(chunks) = it[1 .. n]
    <3>. HIDE DEF n
    <3>. QED BY <1>1 DEF KeptOf, FoldLeft, MapThenFoldSet
  <2>. HIDE DEF it, n
  <2>. QED BY <1>1, <2>1
<1>. QED BY <1>7, <1>8, <1>9

\* What is carried on after the mods' own.
LEMMA CarriedRuns ==
    ASSUME kept \in Seq(ChunkRec), NEW own \in Seq(ChunkRec)
    PROVE  \E a \in [0 .. Len(kept) -> Seq(ChunkRec)] :
              /\ a[0] = own
              /\ \A k \in 1 .. Len(kept) : a[k] = AddKept(a[k - 1], kept[k])
              /\ FoldLeft(AddKept, own, kept) = a[Len(kept)]
<1>. DEFINE n == Len(kept)
            T == Seq(ChunkRec)
            One(t, i) == AddKept(t, kept[i])
            G == [p \in T \X (1 .. n) |-> One(p[1], p[2])]
            F(g) == [s \in SUBSET (1 .. n) |->
                       IF s = {} THEN own ELSE One(g[s \ {Max(s)}], Max(s))]
            it == CHOOSE g : g = F(g)
            a == [k \in 0 .. n |-> it[1 .. k]]
<1>1. n \in Nat /\ DOMAIN kept = 1 .. n
  OBVIOUS
<1>2. ASSUME NEW t \in T, NEW i \in 1 .. n PROVE One(t, i) \in T
  <2>1. kept[i] \in ChunkRec
    OBVIOUS
  <2>. QED BY <2>1 DEF AddKept
<1>3. own \in T
  OBVIOUS
<1>4. PICK h \in [SUBSET (1 .. n) -> T] : Folds(h, n, own, G)
  <2>1. G \in [T \X (1 .. n) -> T]
    BY <1>2
  <2>. HIDE DEF G, T, n
  <2>. QED BY <1>1, <1>3, <2>1, FoldThere
<1>5. h = F(h)
  <2>. HIDE DEF One, T, n
  <2>1. ASSUME NEW s \in SUBSET (1 .. n), s # {}
        PROVE  h[s] = One(h[s \ {Max(s)}], Max(s))
    <3>1. /\ Max(s) \in s /\ \A y \in s : Max(s) >= y
          /\ Max(s) \in 1 .. n /\ s \ {Max(s)} \in SUBSET (1 .. n)
      BY <1>1, <2>1, MaxIs
    <3>2. h[s] = G[<<h[s \ {Max(s)}], Max(s)>>]
      BY <1>4, <3>1 DEF Folds
    <3>3. h[s \ {Max(s)}] \in T
      BY <3>1
    <3>. QED BY <3>1, <3>2, <3>3
  <2>2. h[{}] = own
    BY <1>4 DEF Folds
  <2>. HIDE DEF G
  <2>. QED BY <2>1, <2>2
<1>6. it = F(it)
  <2>. HIDE DEF F
  <2>. QED BY <1>5
<1>7. a[0] = own /\ \A k \in 1 .. n : a[k] = One(a[k - 1], k)
  <2>1. it[{}] = own /\ \A s \in SUBSET (1 .. n) : s # {} => it[s] = One(it[s \ {Max(s)}], Max(s))
    <3>. HIDE DEF it, One, n
    <3>. QED BY <1>6
  <2>2. a[0] = own
    <3>1. 1 .. 0 = {} /\ 0 \in 0 .. n
      BY <1>1
    <3>. HIDE DEF it, One, n
    <3>. QED BY <2>1, <3>1
  <2>3. ASSUME NEW k \in 1 .. n PROVE a[k] = One(a[k - 1], k)
    <3>. HIDE DEF n
    <3>1. Prefixed(n, k)
      BY <1>1, FirstPlaces
    <3>2. it[1 .. k] = One(it[1 .. k - 1], k)
      <4>. HIDE DEF it, One
      <4>. QED BY <2>1, <3>1 DEF Prefixed
    <3>3. a[k] = it[1 .. k] /\ a[k - 1] = it[1 .. k - 1]
      <4>. HIDE DEF it
      <4>. QED BY <3>1 DEF Prefixed
    <3>. HIDE DEF it, One, a
    <3>. QED BY <3>2, <3>3
  <2>. QED BY <2>2, <2>3
<1>8. a \in [0 .. n -> T]
  <2>. DEFINE S == {k \in Nat : k <= n => a[k] \in T}
  <2>1. 0 \in S
    <3>. HIDE DEF a, T, n
    <3>. QED BY <1>3, <1>7
  <2>2. ASSUME NEW k \in Nat, k \in S PROVE k + 1 \in S
    <3>1. k + 1 <= n => k <= n /\ k + 1 \in 1 .. n /\ k + 1 - 1 = k
      BY <1>1
    <3>. HIDE DEF a, One, T, n
    <3>. QED BY <1>2, <1>7, <2>2, <3>1
  <2>3. \A k \in Nat : k \in S
    <3>. HIDE DEF S
    <3>. QED BY <2>1, <2>2, NaturalsAll
  <2>4. \A k \in 0 .. n : k \in Nat /\ k <= n
    BY <1>1
  <2>5. \A k \in 0 .. n : a[k] \in T
    <3>. HIDE DEF a, T, n
    <3>. QED BY <2>3, <2>4
  <2>6. DOMAIN a = 0 .. n /\ a = [k \in 0 .. n |-> a[k]]
    <3>. HIDE DEF it, n
    <3>. QED OBVIOUS
  <2>. HIDE DEF a, T, n
  <2>. QED BY <2>5, <2>6
<1>9. FoldLeft(AddKept, own, kept) = a[n]
  <2>1. FoldLeft(AddKept, own, kept) = it[1 .. n]
    <3>. HIDE DEF n
    <3>. QED BY <1>1 DEF FoldLeft, MapThenFoldSet
  <2>. HIDE DEF it, n
  <2>. QED BY <1>1, <2>1
<1>. QED BY <1>7, <1>8, <1>9

LEMMA OwnTyped ==
    ASSUME kept \in Seq(ChunkRec), data \in Data, NEW t \in Seq(ChunkRec), NEW m \in Mods
    PROVE  AddOwn(t, m) \in Seq(ChunkRec)
<1>1. data[m] # 0 => Chunk(m, data[m]) \in ChunkRec
  <2>1. m \in 1 .. NMods /\ data[m] \in 0 .. MaxVal /\ NMods \in Nat /\ MaxVal \in Nat
    BY SaveAssumption DEF Data, Mods
  <2>2. data[m] # 0 => Bytes(m, data[m]) \in Nat \ {0}
    BY <2>1, SaveAssumption
  <2>. QED BY <2>1, <2>2 DEF Chunk, ChunkRec, Places
<1>2. At(kept, m) # {} => kept[Min(At(kept, m))] \in ChunkRec
  <2>1. ASSUME At(kept, m) # {} PROVE Min(At(kept, m)) \in At(kept, m)
    <3>1. At(kept, m) \subseteq Nat
      BY DEF At
    <3>2. \E x \in At(kept, m) : \A y \in At(kept, m) : x <= y
      BY <2>1, <3>1, LeastNumber
    <3>. QED BY <3>2 DEF Min
  <2>. QED BY <2>1 DEF At
<1>. QED BY <1>1, <1>2 DEF AddOwn

\* The mods' own, one after another.
LEMMA OwnRuns ==
    ASSUME kept \in Seq(ChunkRec), data \in Data, NEW before \in Seq(ChunkRec)
    PROVE  \E a \in [0 .. NMods -> Seq(ChunkRec)] :
              /\ a[0] = before
              /\ \A k \in 1 .. NMods : a[k] = AddOwn(a[k - 1], k)
              /\ FoldLeft(AddOwn, before, [m \in Mods |-> m]) = a[NMods]
<1>. DEFINE order == [m \in Mods |-> m]
            n == NMods
            T == Seq(ChunkRec)
            One(t, i) == AddOwn(t, order[i])
            G == [p \in T \X (1 .. n) |-> One(p[1], p[2])]
            F(g) == [s \in SUBSET (1 .. n) |->
                       IF s = {} THEN before ELSE One(g[s \ {Max(s)}], Max(s))]
            it == CHOOSE g : g = F(g)
            a == [k \in 0 .. n |-> it[1 .. k]]
<1>1. n \in Nat /\ DOMAIN order = 1 .. n
  BY SaveAssumption DEF Mods
<1>2. ASSUME NEW t \in T, NEW i \in 1 .. n PROVE One(t, i) \in T
  <2>1. order[i] \in Mods
    BY DEF Mods
  <2>. HIDE DEF order
  <2>. QED BY <2>1, OwnTyped
<1>3. before \in T
  OBVIOUS
<1>4. PICK h \in [SUBSET (1 .. n) -> T] : Folds(h, n, before, G)
  <2>1. G \in [T \X (1 .. n) -> T]
    BY <1>2
  <2>. HIDE DEF G, T, n
  <2>. QED BY <1>1, <1>3, <2>1, FoldThere
<1>5. h = F(h)
  <2>. HIDE DEF One, T, n
  <2>1. ASSUME NEW s \in SUBSET (1 .. n), s # {}
        PROVE  h[s] = One(h[s \ {Max(s)}], Max(s))
    <3>1. /\ Max(s) \in s /\ \A y \in s : Max(s) >= y
          /\ Max(s) \in 1 .. n /\ s \ {Max(s)} \in SUBSET (1 .. n)
      BY <1>1, <2>1, MaxIs
    <3>2. h[s] = G[<<h[s \ {Max(s)}], Max(s)>>]
      BY <1>4, <3>1 DEF Folds
    <3>3. h[s \ {Max(s)}] \in T
      BY <3>1
    <3>. QED BY <3>1, <3>2, <3>3
  <2>2. h[{}] = before
    BY <1>4 DEF Folds
  <2>. HIDE DEF G
  <2>. QED BY <2>1, <2>2
<1>6. it = F(it)
  <2>. HIDE DEF F
  <2>. QED BY <1>5
<1>7. a[0] = before /\ \A k \in 1 .. n : a[k] = One(a[k - 1], k)
  <2>1. it[{}] = before /\ \A s \in SUBSET (1 .. n) : s # {} => it[s] = One(it[s \ {Max(s)}], Max(s))
    <3>. HIDE DEF it, One, n
    <3>. QED BY <1>6
  <2>2. a[0] = before
    <3>1. 1 .. 0 = {} /\ 0 \in 0 .. n
      BY <1>1
    <3>. HIDE DEF it, One, n
    <3>. QED BY <2>1, <3>1
  <2>3. ASSUME NEW k \in 1 .. n PROVE a[k] = One(a[k - 1], k)
    <3>. HIDE DEF n
    <3>1. Prefixed(n, k)
      BY <1>1, FirstPlaces
    <3>2. it[1 .. k] = One(it[1 .. k - 1], k)
      <4>. HIDE DEF it, One
      <4>. QED BY <2>1, <3>1 DEF Prefixed
    <3>3. a[k] = it[1 .. k] /\ a[k - 1] = it[1 .. k - 1]
      <4>. HIDE DEF it
      <4>. QED BY <3>1 DEF Prefixed
    <3>. HIDE DEF it, One, a
    <3>. QED BY <3>2, <3>3
  <2>. QED BY <2>2, <2>3
<1>8. a \in [0 .. n -> T]
  <2>. DEFINE S == {k \in Nat : k <= n => a[k] \in T}
  <2>1. 0 \in S
    <3>. HIDE DEF a, T, n
    <3>. QED BY <1>3, <1>7
  <2>2. ASSUME NEW k \in Nat, k \in S PROVE k + 1 \in S
    <3>1. k + 1 <= n => k <= n /\ k + 1 \in 1 .. n /\ k + 1 - 1 = k
      BY <1>1
    <3>. HIDE DEF a, One, T, n
    <3>. QED BY <1>2, <1>7, <2>2, <3>1
  <2>3. \A k \in Nat : k \in S
    <3>. HIDE DEF S
    <3>. QED BY <2>1, <2>2, NaturalsAll
  <2>4. \A k \in 0 .. n : k \in Nat /\ k <= n
    BY <1>1
  <2>5. \A k \in 0 .. n : a[k] \in T
    <3>. HIDE DEF a, T, n
    <3>. QED BY <2>3, <2>4
  <2>6. DOMAIN a = 0 .. n /\ a = [k \in 0 .. n |-> a[k]]
    <3>. HIDE DEF it, n
    <3>. QED OBVIOUS
  <2>. HIDE DEF a, T, n
  <2>. QED BY <2>5, <2>6
<1>9. FoldLeft(AddOwn, before, [m \in Mods |-> m]) = a[n]
  <2>1. FoldLeft(AddOwn, before, [m \in Mods |-> m]) = it[1 .. n]
    <3>. HIDE DEF n
    <3>. QED BY <1>1 DEF FoldLeft, MapThenFoldSet
  <2>. HIDE DEF it, n
  <2>. QED BY <1>1, <2>1
<1>10. \A k \in 1 .. n : order[k] = k
  BY DEF Mods
<1>11. \A k \in 1 .. n : a[k] = AddOwn(a[k - 1], k)
  <2>. HIDE DEF order, a, n
  <2>. QED BY <1>7, <1>10
<1>. HIDE DEF a, T
<1>. QED BY <1>7, <1>8, <1>9, <1>11 DEF T

\* What is held for the tail.
LEMMA TailRuns ==
    ASSUME NEW all \in Seq(ChunkRec), InGap(all) \in 0 .. Len(all)
    PROVE  \E rest \in Seq(ChunkRec) : \E a \in [0 .. Len(rest) -> Seq(ChunkRec)] :
              /\ rest = SubSeq(all, InGap(all) + 1, Len(all))
              /\ a[0] = <<>>
              /\ \A k \in 1 .. Len(rest) :
                    a[k] = IF Total(a[k - 1]) + rest[k].size <= TailRoom
                           THEN Append(a[k - 1], rest[k]) ELSE a[k - 1]
              /\ ToTail(all) = a[Len(rest)]
<1>. DEFINE rest == SubSeq(all, InGap(all) + 1, Len(all))
            n == Len(rest)
            T == Seq(ChunkRec)
            One(t, i) == IF Total(t) + rest[i].size <= TailRoom THEN Append(t, rest[i]) ELSE t
            G == [p \in T \X (1 .. n) |-> One(p[1], p[2])]
            F(g) == [s \in SUBSET (1 .. n) |->
                       IF s = {} THEN <<>> ELSE One(g[s \ {Max(s)}], Max(s))]
            it == CHOOSE g : g = F(g)
            a == [k \in 0 .. n |-> it[1 .. k]]
<1>0. rest \in Seq(ChunkRec)
  <2>1. InGap(all) + 1 \in 1 .. Len(all) + 1 /\ Len(all) \in 1 - 1 .. Len(all)
    OBVIOUS
  <2>. QED BY <2>1, SubSeqProperties
<1>1. n \in Nat /\ DOMAIN rest = 1 .. n
  BY <1>0
<1>2. ASSUME NEW t \in T, NEW i \in 1 .. n PROVE One(t, i) \in T
  <2>1. rest[i] \in ChunkRec
    <3>. HIDE DEF rest
    <3>. QED BY <1>0
  <2>. HIDE DEF rest
  <2>. QED BY <2>1
<1>3. <<>> \in T
  OBVIOUS
<1>4. PICK h \in [SUBSET (1 .. n) -> T] : Folds(h, n, <<>>, G)
  <2>1. G \in [T \X (1 .. n) -> T]
    BY <1>2
  <2>. HIDE DEF G, T, n
  <2>. QED BY <1>1, <1>3, <2>1, FoldThere
<1>5. h = F(h)
  <2>. HIDE DEF One, T, n
  <2>1. ASSUME NEW s \in SUBSET (1 .. n), s # {}
        PROVE  h[s] = One(h[s \ {Max(s)}], Max(s))
    <3>1. /\ Max(s) \in s /\ \A y \in s : Max(s) >= y
          /\ Max(s) \in 1 .. n /\ s \ {Max(s)} \in SUBSET (1 .. n)
      BY <1>1, <2>1, MaxIs
    <3>2. h[s] = G[<<h[s \ {Max(s)}], Max(s)>>]
      BY <1>4, <3>1 DEF Folds
    <3>3. h[s \ {Max(s)}] \in T
      BY <3>1
    <3>. QED BY <3>1, <3>2, <3>3
  <2>2. h[{}] = <<>>
    BY <1>4 DEF Folds
  <2>. HIDE DEF G
  <2>. QED BY <2>1, <2>2
<1>6. it = F(it)
  <2>. HIDE DEF F
  <2>. QED BY <1>5
<1>7. a[0] = <<>> /\ \A k \in 1 .. n : a[k] = One(a[k - 1], k)
  <2>1. it[{}] = <<>> /\ \A s \in SUBSET (1 .. n) : s # {} => it[s] = One(it[s \ {Max(s)}], Max(s))
    <3>. HIDE DEF it, One, n
    <3>. QED BY <1>6
  <2>2. a[0] = <<>>
    <3>1. 1 .. 0 = {} /\ 0 \in 0 .. n
      BY <1>1
    <3>. HIDE DEF it, One, n
    <3>. QED BY <2>1, <3>1
  <2>3. ASSUME NEW k \in 1 .. n PROVE a[k] = One(a[k - 1], k)
    <3>. HIDE DEF n
    <3>1. Prefixed(n, k)
      BY <1>1, FirstPlaces
    <3>2. it[1 .. k] = One(it[1 .. k - 1], k)
      <4>. HIDE DEF it, One
      <4>. QED BY <2>1, <3>1 DEF Prefixed
    <3>3. a[k] = it[1 .. k] /\ a[k - 1] = it[1 .. k - 1]
      <4>. HIDE DEF it
      <4>. QED BY <3>1 DEF Prefixed
    <3>. HIDE DEF it, One, a
    <3>. QED BY <3>2, <3>3
  <2>. QED BY <2>2, <2>3
<1>8. a \in [0 .. n -> T]
  <2>. DEFINE S == {k \in Nat : k <= n => a[k] \in T}
  <2>1. 0 \in S
    <3>. HIDE DEF a, T, n
    <3>. QED BY <1>3, <1>7
  <2>2. ASSUME NEW k \in Nat, k \in S PROVE k + 1 \in S
    <3>1. k + 1 <= n => k <= n /\ k + 1 \in 1 .. n /\ k + 1 - 1 = k
      BY <1>1
    <3>. HIDE DEF a, One, T, n
    <3>. QED BY <1>2, <1>7, <2>2, <3>1
  <2>3. \A k \in Nat : k \in S
    <3>. HIDE DEF S
    <3>. QED BY <2>1, <2>2, NaturalsAll
  <2>4. \A k \in 0 .. n : k \in Nat /\ k <= n
    BY <1>1
  <2>5. \A k \in 0 .. n : a[k] \in T
    <3>. HIDE DEF a, T, n
    <3>. QED BY <2>3, <2>4
  <2>6. DOMAIN a = 0 .. n /\ a = [k \in 0 .. n |-> a[k]]
    <3>. HIDE DEF it, n
    <3>. QED OBVIOUS
  <2>. HIDE DEF a, T, n
  <2>. QED BY <2>5, <2>6
<1>9. ToTail(all) = a[n]
  <2>1. ToTail(all) = it[1 .. n]
    <3>. HIDE DEF n
    <3>. QED BY <1>1 DEF ToTail, FoldLeft, MapThenFoldSet
  <2>. HIDE DEF it, n
  <2>. QED BY <1>1, <2>1
<1>10. rest = SubSeq(all, InGap(all) + 1, Len(all))
  OBVIOUS
<1>. HIDE DEF a, rest
<1>. QED BY <1>0, <1>7, <1>8, <1>9, <1>10

\* No chunk of a save's is save now's.
ModsOnly == {t \in Seq(ChunkRec) : \A i \in DOMAIN t : t[i].of # NOW}

\* Save now's chunk, when there is one, and after it none.
Led(b) ==
    {t \in Seq(ChunkRec) :
        /\ Len(t) >= Len(b) /\ \A i \in 1 .. Len(b) : t[i] = b[i]
        /\ \A i \in DOMAIN t : i > Len(b) => t[i].of # NOW}

LEMMA LedStarts == ASSUME NEW b \in Seq(ChunkRec) PROVE b \in Led(b)
  BY DEF Led

LEMMA LedGoesOn ==
    ASSUME NEW b \in Seq(ChunkRec), NEW t \in Led(b), NEW c \in ChunkRec, c.of # NOW
    PROVE  Append(t, c) \in Led(b)
<1>1. t \in Seq(ChunkRec) /\ Len(t) >= Len(b) /\ Len(t) \in Nat /\ Len(b) \in Nat
  BY DEF Led
<1>2. Append(t, c) \in Seq(ChunkRec) /\ Len(Append(t, c)) = Len(t) + 1
  BY <1>1
<1>3. ASSUME NEW i \in 1 .. Len(b) PROVE Append(t, c)[i] = b[i]
  <2>1. i \in 1 .. Len(t) /\ t[i] = b[i]
    BY <1>1 DEF Led
  <2>. QED BY <1>1, <2>1
<1>4. ASSUME NEW i \in DOMAIN Append(t, c), i > Len(b) PROVE Append(t, c)[i].of # NOW
  <2>1. CASE i = Len(t) + 1
    BY <1>1, <2>1
  <2>2. CASE i # Len(t) + 1
    <3>1. i \in DOMAIN t /\ Append(t, c)[i] = t[i]
      BY <1>1, <1>2, <2>2
    <3>. QED BY <1>4, <3>1 DEF Led
  <2>. QED BY <2>1, <2>2
<1>. DEFINE u == Append(t, c)
<1>5. u \in Seq(ChunkRec) /\ Len(u) >= Len(b)
  BY <1>1, <1>2
<1>6. \A i \in 1 .. Len(b) : u[i] = b[i]
  BY <1>3
<1>7. \A i \in DOMAIN u : i > Len(b) => u[i].of # NOW
  BY <1>4
<1>. HIDE DEF u
<1>8. u \in Led(b)
  BY <1>5, <1>6, <1>7 DEF Led
<1>. QED BY <1>8 DEF u

LEMMA KeptIs == ASSUME NEW chunks \in Seq(ChunkRec) PROVE KeptOf(chunks) \in ModsOnly
<1>. DEFINE n == Len(chunks)
            P == [k \in 0 .. n |-> ModsOnly]
<1>1. PICK a \in [0 .. n -> Seq(ChunkRec)] :
         /\ a[0] = <<>>
         /\ \A k \in 1 .. n : a[k] = IF IsKept(chunks[k]) THEN Append(a[k - 1], chunks[k])
                                     ELSE a[k - 1]
         /\ KeptOf(chunks) = a[n]
  BY KeptRuns
<1>2. n \in Nat /\ \A k \in 1 .. n : chunks[k] \in ChunkRec
  OBVIOUS
<1>3. \A k \in 0 .. n : P[k] = ModsOnly
  OBVIOUS
<1>. HIDE DEF n, P
<1>4. <<>> \in ModsOnly /\ \A t \in ModsOnly, c \in ChunkRec : c.of # NOW => Append(t, c) \in ModsOnly
  <2>1. <<>> \in Seq(ChunkRec) /\ Len(<<>>) = 0 /\ DOMAIN <<>> = {}
    OBVIOUS
  <2>2. ASSUME NEW t \in ModsOnly, NEW c \in ChunkRec, c.of # NOW PROVE Append(t, c) \in ModsOnly
    <3>1. Append(t, c) \in Seq(ChunkRec) /\ DOMAIN Append(t, c) = 1 .. Len(t) + 1 /\ Len(t) \in Nat
      BY DEF ModsOnly
    <3>2. \A i \in 1 .. Len(t) : Append(t, c)[i] = t[i] /\ i \in DOMAIN t
      BY DEF ModsOnly
    <3>3. Append(t, c)[Len(t) + 1] = c
      BY DEF ModsOnly
    <3>. DEFINE u == Append(t, c)
    <3>4. \A i \in 1 .. Len(t) : u[i].of # NOW
      BY <3>2 DEF ModsOnly
    <3>5. u \in Seq(ChunkRec) /\ DOMAIN u = 1 .. Len(t) + 1 /\ u[Len(t) + 1].of # NOW
      BY <2>2, <3>1, <3>3
    <3>. HIDE DEF u
    <3>6. \A i \in DOMAIN u : u[i].of # NOW
      BY <3>1, <3>4, <3>5
    <3>7. u \in ModsOnly
      BY <3>5, <3>6 DEF ModsOnly
    <3>. QED BY <3>7 DEF u
  <2>. QED BY <2>1, <2>2 DEF ModsOnly
<1>5. Through(a, n, P)
  <2>1. ASSUME NEW k \in 1 .. n, a[k - 1] \in P[k - 1] PROVE a[k] \in P[k]
    <3>1. k - 1 \in 0 .. n /\ k \in 0 .. n
      BY <1>2
    <3>. QED BY <1>1, <1>2, <1>3, <1>4, <2>1, <3>1 DEF IsKept
  <2>2. 0 \in 0 .. n
    BY <1>2
  <2>. QED BY <1>1, <1>3, <1>4, <2>1, <2>2 DEF Through
<1>6. a[n] \in P[n] /\ n \in 0 .. n
  BY <1>2, <1>5, RunStays
<1>. QED BY <1>1, <1>3, <1>6

LEMMA GatheredIs ==
    ASSUME kept \in ModsOnly, data \in Data, map \in Places, lastSp \in Places, opened \in BOOLEAN
    PROVE  Gathered \in Led(IF opened THEN <<NowChunk(map, Instead)>> ELSE <<>>)
<1>. DEFINE before == IF opened THEN <<NowChunk(map, Instead)>> ELSE <<>>
            own == FoldLeft(AddOwn, before, [m \in Mods |-> m])
            P == [k \in 0 .. NMods |-> Led(before)]
            Q == [k \in 0 .. Len(kept) |-> Led(before)]
<1>0. 0 \in Places
  BY DEF Places
<1>1. before \in Seq(ChunkRec)
  <2>1. NowChunk(map, Instead) \in ChunkRec
    BY <1>0, SaveAssumption DEF NowChunk, Instead, ChunkRec, NOW
  <2>. HIDE DEF ChunkRec
  <2>. QED BY <2>1
<1>2. kept \in Seq(ChunkRec) /\ NMods \in Nat /\ Len(kept) \in Nat
  BY SaveAssumption DEF ModsOnly
<1>3. PICK a \in [0 .. NMods -> Seq(ChunkRec)] :
         /\ a[0] = before
         /\ \A k \in 1 .. NMods : a[k] = AddOwn(a[k - 1], k)
         /\ own = a[NMods]
  <2>. HIDE DEF before
  <2>. QED BY <1>1, <1>2, OwnRuns
<1>4. \A k \in 0 .. NMods : P[k] = Led(before)
  OBVIOUS
<1>5. \A k \in 0 .. Len(kept) : Q[k] = Led(before)
  OBVIOUS
<1>. HIDE DEF before, P, Q
<1>6. ASSUME NEW t \in Led(before), NEW m \in Mods PROVE AddOwn(t, m) \in Led(before)
  <2>1. data[m] # 0 => Chunk(m, data[m]) \in ChunkRec /\ Chunk(m, data[m]).of # NOW
    <3>1. m \in 1 .. NMods /\ data[m] \in 0 .. MaxVal /\ NMods \in Nat /\ MaxVal \in Nat
      BY SaveAssumption DEF Data, Mods
    <3>2. data[m] # 0 => Bytes(m, data[m]) \in Nat \ {0}
      BY <3>1, SaveAssumption
    <3>. QED BY <1>0, <3>1, <3>2 DEF Chunk, ChunkRec, NOW
  <2>2. At(kept, m) # {} => /\ kept[Min(At(kept, m))] \in ChunkRec
                            /\ kept[Min(At(kept, m))].of # NOW
    <3>1. ASSUME At(kept, m) # {} PROVE Min(At(kept, m)) \in At(kept, m)
      <4>1. At(kept, m) \subseteq Nat
        BY <1>2 DEF At
      <4>2. \E x \in At(kept, m) : \A y \in At(kept, m) : x <= y
        BY <3>1, <4>1, LeastNumber
      <4>. QED BY <4>2 DEF Min
    <3>2. At(kept, m) \subseteq DOMAIN kept /\ \A i \in DOMAIN kept : kept[i] \in ChunkRec
      BY <1>2 DEF At
    <3>. QED BY <3>1, <3>2 DEF ModsOnly
  <2>. QED BY <1>1, <2>1, <2>2, LedGoesOn DEF AddOwn
<1>7. own \in Led(before)
  <2>1. Through(a, NMods, P)
    <3>1. ASSUME NEW k \in 1 .. NMods, a[k - 1] \in P[k - 1] PROVE a[k] \in P[k]
      <4>1. k - 1 \in 0 .. NMods /\ k \in 0 .. NMods /\ k \in Mods
        BY <1>2 DEF Mods
      <4>. QED BY <1>3, <1>4, <1>6, <3>1, <4>1
    <3>2. 0 \in 0 .. NMods
      BY <1>2
    <3>. QED BY <1>1, <1>3, <1>4, <3>1, <3>2, LedStarts DEF Through
  <2>2. a[NMods] \in P[NMods] /\ NMods \in 0 .. NMods
    BY <1>2, <2>1, RunStays
  <2>. QED BY <1>3, <1>4, <2>2
<1>8. own \in Seq(ChunkRec)
  BY <1>7 DEF Led
<1>9. Gathered = FoldLeft(AddKept, own, kept)
  BY DEF Gathered, before
<1>. HIDE DEF own
<1>10. PICK e \in [0 .. Len(kept) -> Seq(ChunkRec)] :
          /\ e[0] = own
          /\ \A k \in 1 .. Len(kept) : e[k] = AddKept(e[k - 1], kept[k])
          /\ FoldLeft(AddKept, own, kept) = e[Len(kept)]
  BY <1>2, <1>8, CarriedRuns
<1>11. Through(e, Len(kept), Q)
  <2>1. ASSUME NEW k \in 1 .. Len(kept), e[k - 1] \in Q[k - 1] PROVE e[k] \in Q[k]
    <3>1. /\ k - 1 \in 0 .. Len(kept) /\ k \in 0 .. Len(kept)
          /\ kept[k] \in ChunkRec /\ kept[k].of # NOW
      BY <1>2 DEF ModsOnly
    <3>2. e[k - 1] \in Led(before)
      BY <1>5, <2>1, <3>1
    <3>3. Append(e[k - 1], kept[k]) \in Led(before)
      BY <1>1, <3>1, <3>2, LedGoesOn
    <3>4. e[k] \in {e[k - 1], Append(e[k - 1], kept[k])}
      BY <1>10 DEF AddKept
    <3>. QED BY <1>5, <3>1, <3>2, <3>3, <3>4
  <2>2. 0 \in 0 .. Len(kept)
    BY <1>2
  <2>. QED BY <1>5, <1>7, <1>10, <2>1, <2>2 DEF Through
<1>12. e[Len(kept)] \in Q[Len(kept)] /\ Len(kept) \in 0 .. Len(kept)
  BY <1>2, <1>11, RunStays
<1>13. Gathered \in Led(before)
  BY <1>5, <1>9, <1>10, <1>12
<1>. QED BY <1>13 DEF before

LEMMA TotalTyped == ASSUME NEW t \in Seq(ChunkRec) PROVE Total(t) \in Nat
<1>1. PICK a \in [0 .. Len(t) -> Nat] : Total(t) = a[Len(t)]
  BY TotalRuns
<1>2. Len(t) \in 0 .. Len(t)
  OBVIOUS
<1>. QED BY <1>1, <1>2

LEMMA TotalNone == Total(<<>>) = 0
<1>1. <<>> \in Seq(ChunkRec) /\ Len(<<>>) = 0
  OBVIOUS
<1>. QED BY <1>1, TotalRuns

LEMMA TotalMore ==
    ASSUME NEW t \in Seq(ChunkRec), NEW c \in ChunkRec
    PROVE  Total(Append(t, c)) = Total(t) + c.size
<1>. DEFINE n == Len(t)
            u == Append(t, c)
<1>1. /\ n \in Nat /\ u \in Seq(ChunkRec) /\ Len(u) = n + 1 /\ u[n + 1] = c
      /\ \A k \in 1 .. n : u[k] = t[k]
  OBVIOUS
<1>2. PICK a \in [0 .. n -> Nat] :
         a[0] = 0 /\ (\A k \in 1 .. n : a[k] = a[k - 1] + t[k].size) /\ Total(t) = a[n]
  BY TotalRuns
<1>. HIDE DEF u
<1>3. PICK e \in [0 .. Len(u) -> Nat] :
         /\ e[0] = 0
         /\ \A k \in 1 .. Len(u) : e[k] = e[k - 1] + u[k].size
         /\ Total(u) = e[Len(u)]
  BY <1>1, TotalRuns
<1>. HIDE DEF n
<1>. DEFINE P == [k \in 0 .. n |-> {a[k]}]
<1>4. \A k \in 0 .. n : P[k] = {a[k]}
  OBVIOUS
<1>. HIDE DEF P
<1>5. Through(e, n, P)
  <2>1. ASSUME NEW k \in 1 .. n, e[k - 1] \in P[k - 1] PROVE e[k] \in P[k]
    <3>1. k - 1 \in 0 .. n /\ k \in 0 .. n /\ k \in 1 .. Len(u)
      BY <1>1
    <3>2. e[k - 1] = a[k - 1]
      BY <1>4, <2>1, <3>1
    <3>3. e[k] = a[k]
      BY <1>1, <1>2, <1>3, <3>1, <3>2
    <3>. QED BY <1>4, <3>1, <3>3
  <2>2. 0 \in 0 .. n
    BY <1>1
  <2>. QED BY <1>2, <1>3, <1>4, <2>1, <2>2 DEF Through
<1>6. e[n] = a[n]
  <2>1. n \in Nat
    BY <1>1
  <2>2. e[n] \in P[n]
    BY <1>5, <2>1, RunStays
  <2>3. n \in 0 .. n
    BY <2>1
  <2>. QED BY <1>4, <2>2, <2>3
<1>7. n + 1 \in 1 .. Len(u) /\ n + 1 - 1 = n
  BY <1>1
<1>8. Total(u) = e[n] + c.size
  BY <1>1, <1>3, <1>7
<1>. QED BY <1>2, <1>6, <1>8 DEF u

\* The first chunks of a save's, one more at a time.
LEMMA FrontIs ==
    ASSUME NEW t \in Seq(ChunkRec), NEW k \in 0 .. Len(t)
    PROVE  /\ SubSeq(t, 1, k) \in Seq(ChunkRec) /\ Len(SubSeq(t, 1, k)) = k
           /\ \A i \in 1 .. k : SubSeq(t, 1, k)[i] = t[i]
           /\ k < Len(t) => SubSeq(t, 1, k + 1) = Append(SubSeq(t, 1, k), t[k + 1])
<1>1. k \in Nat /\ Len(t) \in Nat /\ k <= Len(t)
  OBVIOUS
<1>2. \A j \in 0 .. Len(t) : /\ SubSeq(t, 1, j) \in Seq(ChunkRec) /\ Len(SubSeq(t, 1, j)) = j
                             /\ \A i \in 1 .. j : SubSeq(t, 1, j)[i] = t[i]
  <2>1. ASSUME NEW j \in 0 .. Len(t)
        PROVE  /\ SubSeq(t, 1, j) \in Seq(ChunkRec) /\ Len(SubSeq(t, 1, j)) = j
               /\ \A i \in 1 .. j : SubSeq(t, 1, j)[i] = t[i]
    <3>1. j \in Int /\ 1 \in Int /\ \A i \in 1 .. j : t[i] \in ChunkRec
      OBVIOUS
    <3>2. Len(SubSeq(t, 1, j)) = IF 1 <= j THEN j - 1 + 1 ELSE 0
      BY <3>1, SubSeqProperties
    <3>3. SubSeq(t, 1, j) \in Seq(ChunkRec)
      BY <3>1, SubSeqProperties
    <3>4. \A i \in 1 .. j - 1 + 1 : SubSeq(t, 1, j)[i] = t[1 + i - 1]
      BY <3>1, SubSeqProperties
    <3>. QED BY <3>2, <3>3, <3>4
  <2>. QED BY <2>1
<1>3. ASSUME k < Len(t) PROVE SubSeq(t, 1, k + 1) = Append(SubSeq(t, 1, k), t[k + 1])
  <2>. DEFINE u == SubSeq(t, 1, k)
              v == SubSeq(t, 1, k + 1)
  <2>1. u \in Seq(ChunkRec) /\ Len(u) = k /\ \A i \in 1 .. k : u[i] = t[i]
    BY <1>2
  <2>2. k + 1 \in 0 .. Len(t)
    BY <1>1, <1>3
  <2>3. v \in Seq(ChunkRec) /\ Len(v) = k + 1 /\ \A i \in 1 .. k + 1 : v[i] = t[i]
    BY <1>2, <2>2
  <2>4. t[k + 1] \in ChunkRec
    BY <1>1, <1>3
  <2>. HIDE DEF u, v
  <2>. DEFINE w == Append(u, t[k + 1])
  <2>5. w \in Seq(ChunkRec) /\ Len(w) = k + 1
    BY <1>1, <2>1, <2>4
  <2>6. \A i \in 1 .. k + 1 : w[i] = v[i]
    <3>1. \A i \in 1 .. k : w[i] = u[i]
      BY <1>1, <2>1, <2>4
    <3>2. w[k + 1] = t[k + 1]
      BY <1>1, <2>1, <2>4
    <3>3. \A i \in 1 .. k + 1 : i \in 1 .. k \/ i = k + 1
      BY <1>1
    <3>. HIDE DEF w
    <3>. QED BY <1>1, <2>1, <2>3, <3>1, <3>2, <3>3
  <2>. HIDE DEF w
  <2>7. w = v
    BY <1>1, <2>3, <2>5, <2>6, SeqEqual
  <2>. QED BY <2>7 DEF u, v, w
<1>. QED BY <1>2, <1>3

\* The chunks the gap takes: as many as fit.
LEMMA InGapIs ==
    ASSUME NEW all \in Seq(ChunkRec)
    PROVE  /\ InGap(all) \in 0 .. Len(all)
           /\ Total(SubSeq(all, 1, InGap(all))) <= GapRoom
           /\ InGap(all) < Len(all) => Total(SubSeq(all, 1, InGap(all) + 1)) > GapRoom
           /\ all # <<>> /\ all[1].size = 1 => InGap(all) >= 1
<1>. DEFINE tot(k) == Total(SubSeq(all, 1, k))
            Good(n) == tot(n) <= GapRoom /\ (n < Len(all) => tot(n + 1) > GapRoom)
            Over == {k \in 0 .. Len(all) : tot(k) > GapRoom}
<1>1. Len(all) \in Nat /\ GapRoom \in Nat \ {0}
  BY SaveAssumption
<1>2. \A k \in 0 .. Len(all) : tot(k) \in Nat
  BY FrontIs, TotalTyped
<1>3. tot(0) = 0
  <2>1. SubSeq(all, 1, 0) = <<>>
    BY SubSeqEmpty
  <2>. QED BY <2>1, TotalNone
<1>4. \E n \in 0 .. Len(all) : Good(n)
  <2>. HIDE DEF tot
  <2>1. CASE Over = {}
    <3>1. Good(Len(all)) /\ Len(all) \in 0 .. Len(all)
      BY <1>1, <1>2, <2>1
    <3>. HIDE DEF Good
    <3>. QED BY <3>1
  <2>2. CASE Over # {}
    <3>1. Over \subseteq Nat
      BY <1>1
    <3>2. PICK k \in Over : \A j \in Over : k <= j
      <4>. HIDE DEF Over
      <4>. QED BY <2>2, <3>1, LeastNumber
    <3>3. k \in 0 .. Len(all) /\ tot(k) > GapRoom /\ k # 0
      BY <1>1, <1>3
    <3>4. k - 1 \in 0 .. Len(all) /\ k - 1 \notin Over /\ k - 1 + 1 = k
      BY <1>1, <3>2, <3>3
    <3>5. tot(k - 1) <= GapRoom
      BY <1>1, <1>2, <3>4
    <3>6. tot(k - 1 + 1) > GapRoom
      BY <3>3, <3>4
    <3>7. Good(k - 1)
      <4>. HIDE DEF Over
      <4>. QED BY <3>5, <3>6
    <3>. HIDE DEF Good, Over
    <3>. QED BY <3>4, <3>7
  <2>. QED BY <2>1, <2>2
<1>5. InGap(all) \in 0 .. Len(all) /\ Good(InGap(all))
  BY <1>4 DEF InGap
<1>6. ASSUME all # <<>>, all[1].size = 1 PROVE InGap(all) >= 1
  <2>1. 0 < Len(all) /\ 0 \in 0 .. Len(all) /\ all[1] \in ChunkRec
    BY <1>1, <1>6
  <2>2. SubSeq(all, 1, 0 + 1) = Append(SubSeq(all, 1, 0), all[1])
    BY <2>1, FrontIs
  <2>3. SubSeq(all, 1, 0) \in Seq(ChunkRec)
    BY <2>1, FrontIs
  <2>4. tot(0 + 1) = tot(0) + all[1].size
    BY <2>1, <2>2, <2>3, TotalMore
  <2>. HIDE DEF tot
  <2>. QED BY <1>1, <1>3, <1>5, <1>6, <2>1, <2>4
<1>. QED BY <1>5, <1>6

LEMMA TailIs ==
    ASSUME NEW b \in Seq(ChunkRec), NEW all \in Led(b), InGap(all) >= Len(b)
    PROVE  ToTail(all) \in ModsOnly
<1>1. all \in Seq(ChunkRec) /\ Len(all) \in Nat /\ Len(b) \in Nat
  BY DEF Led
<1>2. InGap(all) \in 0 .. Len(all)
  BY <1>1, InGapIs
<1>3. PICK rest \in Seq(ChunkRec) : \E a \in [0 .. Len(rest) -> Seq(ChunkRec)] :
         /\ rest = SubSeq(all, InGap(all) + 1, Len(all))
         /\ a[0] = <<>>
         /\ \A k \in 1 .. Len(rest) :
               a[k] = IF Total(a[k - 1]) + rest[k].size <= TailRoom
                      THEN Append(a[k - 1], rest[k]) ELSE a[k - 1]
         /\ ToTail(all) = a[Len(rest)]
  BY <1>1, <1>2, TailRuns
<1>4. PICK a \in [0 .. Len(rest) -> Seq(ChunkRec)] :
         /\ a[0] = <<>>
         /\ \A k \in 1 .. Len(rest) : a[k] \in {Append(a[k - 1], rest[k]), a[k - 1]}
         /\ ToTail(all) = a[Len(rest)]
  BY <1>3
<1>5. \A i \in 1 .. Len(rest) : rest[i] \in ChunkRec /\ rest[i].of # NOW
  <2>. DEFINE g == InGap(all)
  <2>1. g \in Nat /\ g <= Len(all) /\ g >= Len(b)
    BY <1>1, <1>2
  <2>. HIDE DEF g
  <2>2. rest = SubSeq(all, g + 1, Len(all))
    BY <1>3 DEF g
  <2>3. g + 1 \in Int /\ Len(all) \in Int /\ \A i \in g + 1 .. Len(all) : all[i] \in ChunkRec
    BY <1>1, <2>1
  <2>4. /\ Len(rest) = IF g + 1 <= Len(all) THEN Len(all) - (g + 1) + 1 ELSE 0
        /\ \A i \in 1 .. Len(all) - (g + 1) + 1 : rest[i] = all[g + 1 + i - 1]
    BY <2>2, <2>3, SubSeqProperties
  <2>5. ASSUME NEW i \in 1 .. Len(rest) PROVE rest[i] \in ChunkRec /\ rest[i].of # NOW
    <3>1. /\ i \in 1 .. Len(all) - (g + 1) + 1 /\ g + 1 + i - 1 \in 1 .. Len(all)
          /\ g + 1 + i - 1 > Len(b)
      BY <1>1, <2>1, <2>4
    <3>2. rest[i] = all[g + 1 + i - 1]
      BY <2>4, <3>1
    <3>3. g + 1 + i - 1 \in DOMAIN all
      BY <1>1, <3>1
    <3>4. all[g + 1 + i - 1].of # NOW /\ all[g + 1 + i - 1] \in ChunkRec
      BY <1>1, <3>1, <3>3 DEF Led
    <3>. QED BY <3>2, <3>4
  <2>. QED BY <2>5
<1>. DEFINE n == Len(rest)
            P == [k \in 0 .. n |-> Led(<<>>)]
<1>6. n \in Nat /\ \A k \in 0 .. n : P[k] = Led(<<>>)
  OBVIOUS
<1>7. <<>> \in Seq(ChunkRec)
  OBVIOUS
<1>. HIDE DEF n, P
<1>8. Through(a, n, P)
  <2>1. ASSUME NEW k \in 1 .. n, a[k - 1] \in P[k - 1] PROVE a[k] \in P[k]
    <3>1. k - 1 \in 0 .. n /\ k \in 0 .. n
      BY <1>6
    <3>2. a[k - 1] \in Led(<<>>)
      BY <1>6, <2>1, <3>1
    <3>3. rest[k] \in ChunkRec /\ rest[k].of # NOW
      BY <1>5 DEF n
    <3>4. Append(a[k - 1], rest[k]) \in Led(<<>>)
      BY <1>7, <3>2, <3>3, LedGoesOn
    <3>5. a[k] \in {Append(a[k - 1], rest[k]), a[k - 1]}
      BY <1>4 DEF n
    <3>. QED BY <1>6, <3>1, <3>2, <3>4, <3>5
  <2>2. 0 \in 0 .. n
    BY <1>6
  <2>3. <<>> \in Led(<<>>)
    BY <1>7, LedStarts
  <2>. QED BY <1>4, <1>6, <2>1, <2>2, <2>3 DEF Through
<1>9. a[n] \in P[n] /\ n \in 0 .. n
  BY <1>6, <1>8, RunStays
<1>10. ToTail(all) \in Led(<<>>)
  BY <1>4, <1>6, <1>9 DEF n
<1>11. ASSUME NEW t \in Led(<<>>) PROVE t \in ModsOnly
  <2>1. Len(<<>>) = 0 /\ t \in Seq(ChunkRec) /\ \A i \in DOMAIN t : i > 0
    BY DEF Led
  <2>. QED BY <2>1 DEF Led, ModsOnly
<1>. QED BY <1>10, <1>11

\* A block or a file: with save now's chunk first when save now made it, the map it was
\* made on in it and the word that stands instead on the map's place; without one otherwise.
Saved(b) ==
    /\ b = [map |-> b.map, gap |-> b.gap, tail |-> b.tail, made |-> b.made, now |-> b.now,
            mods |-> b.mods]
    /\ b.made \in Places /\ b.now \in BOOLEAN
    /\ b.tail.chunks \in ModsOnly
    /\ IF b.now
       THEN \E inst \in Places : /\ b.gap.chunks \in Led(<<NowChunk(b.made, inst)>>)
                                 /\ b.map = IF inst # 0 THEN inst ELSE b.made
       ELSE b.gap.chunks \in ModsOnly /\ b.map = b.made

SaveInv ==
    /\ map \in Places /\ lastSp \in Places /\ opened \in BOOLEAN /\ data \in Data
    /\ kept \in ModsOnly /\ held \in ModsOnly
    /\ Saved(block) /\ Saved(file)

LEMMA LedByNone == Led(<<>>) = ModsOnly
<1>1. <<>> \in Seq(ChunkRec) /\ Len(<<>>) = 0
  OBVIOUS
<1>2. \A t \in Seq(ChunkRec) : Len(t) >= 0 /\ \A i \in DOMAIN t : i > 0
  OBVIOUS
<1>. QED BY <1>1, <1>2 DEF Led, ModsOnly

LEMMA NowChunkIs ==
    ASSUME NEW made \in Places, NEW inst \in Places
    PROVE  /\ NowChunk(made, inst) \in ChunkRec
           /\ <<NowChunk(made, inst)>> \in Seq(ChunkRec)
           /\ Len(<<NowChunk(made, inst)>>) = 1
           /\ <<NowChunk(made, inst)>>[1] = NowChunk(made, inst)
<1>1. NowChunk(made, inst) \in ChunkRec
  BY SaveAssumption DEF NowChunk, ChunkRec, NOW
<1>. HIDE DEF ChunkRec
<1>. QED BY <1>1

LEMMA SavedIs ==
    ASSUME NEW f, Saved(f)
    PROVE  /\ f.gap.chunks \in Seq(ChunkRec) /\ Got(f) \in Seq(ChunkRec)
           /\ f.now => /\ Got(f) # <<>> /\ Got(f)[1].of = NOW /\ Got(f)[1].made = f.made
                       /\ Got(f)[1].instead = 0 => f.map = f.made
                       /\ Got(f)[1].instead # 0 => f.map = Got(f)[1].instead
           /\ ~f.now => f.map = f.made
           /\ \A i \in DOMAIN Got(f) : Got(f)[i].of = NOW => f.now /\ i = 1
<1>. DEFINE g == f.gap.chunks
            tl == IF f.gap.inTail > 0 /\ TailBelongs(f) THEN f.tail.chunks ELSE <<>>
<1>1. Got(f) = g \o tl
  BY DEF Got
<1>2. tl \in ModsOnly
  <2>1. <<>> \in ModsOnly
    <3>1. <<>> \in Seq(ChunkRec)
      OBVIOUS
    <3>. QED BY <3>1, LedByNone, LedStarts
  <2>. QED BY <2>1 DEF Saved
<1>3. tl \in Seq(ChunkRec)
  BY <1>2 DEF ModsOnly
<1>4. g \in Seq(ChunkRec)
  BY DEF Saved, ModsOnly, Led
<1>5. f.now => g # <<>> /\ \E inst \in Places : g[1] = NowChunk(f.made, inst)
                             /\ f.map = IF inst # 0 THEN inst ELSE f.made
  <2>. SUFFICES ASSUME f.now PROVE g # <<>> /\ \E inst \in Places : g[1] = NowChunk(f.made, inst)
                             /\ f.map = IF inst # 0 THEN inst ELSE f.made
    OBVIOUS
  <2>1. PICK inst \in Places : /\ g \in Led(<<NowChunk(f.made, inst)>>)
                               /\ f.map = IF inst # 0 THEN inst ELSE f.made
    BY DEF Saved
  <2>2. f.made \in Places
    BY DEF Saved
  <2>. HIDE DEF g
  <2>3. Len(g) >= 1 /\ g[1] = NowChunk(f.made, inst)
    BY <2>1, <2>2, NowChunkIs DEF Led
  <2>4. g # <<>>
    BY <2>3
  <2>. QED BY <2>1, <2>3, <2>4
<1>6. \A i \in DOMAIN g : g[i].of = NOW => f.now /\ i = 1
  <2>1. CASE f.now
    <3>1. PICK inst \in Places : g \in Led(<<NowChunk(f.made, inst)>>)
      BY <2>1 DEF Saved
    <3>2. f.made \in Places
      BY DEF Saved
    <3>. HIDE DEF g
    <3>3. \A i \in DOMAIN g : i \in Nat \ {0} /\ (i > 1 => g[i].of # NOW)
      BY <1>4, <3>1, <3>2, NowChunkIs DEF Led
    <3>. QED BY <2>1, <3>3
  <2>2. CASE ~f.now
    <3>1. g \in ModsOnly
      BY <2>2 DEF Saved
    <3>. HIDE DEF g
    <3>. QED BY <3>1 DEF ModsOnly
  <2>3. f.now \in BOOLEAN
    BY DEF Saved
  <2>. QED BY <2>1, <2>2
<1>7. ~f.now => f.map = f.made
  BY DEF Saved
<1>. HIDE DEF g, tl
<1>. DEFINE u == g \o tl
<1>8. u \in Seq(ChunkRec) /\ Len(u) = Len(g) + Len(tl) /\ Len(g) \in Nat /\ Len(tl) \in Nat
  BY <1>3, <1>4
<1>9. \A i \in 1 .. Len(g) : u[i] = g[i] /\ i \in DOMAIN g
  BY <1>3, <1>4
<1>10. \A i \in Len(g) + 1 .. Len(g) + Len(tl) : u[i].of # NOW
  <2>1. ASSUME NEW i \in Len(g) + 1 .. Len(g) + Len(tl) PROVE u[i].of # NOW
    <3>1. i - Len(g) \in 1 .. Len(tl) /\ i \in 1 .. Len(g) + Len(tl) /\ ~(i <= Len(g))
      BY <1>8
    <3>2. u[i] = tl[i - Len(g)]
      BY <1>3, <1>4, <3>1
    <3>3. i - Len(g) \in DOMAIN tl
      BY <1>3, <3>1
    <3>. HIDE DEF u
    <3>. QED BY <1>2, <3>2, <3>3 DEF ModsOnly
  <2>. QED BY <2>1
<1>11. f.now => u # <<>> /\ u[1] = g[1]
  <2>1. g # <<>> => 1 \in 1 .. Len(g) /\ Len(g) >= 1
    BY <1>4
  <2>. HIDE DEF u
  <2>2. Len(u) >= 1 => u # <<>>
    BY <1>8
  <2>. QED BY <1>5, <1>8, <1>9, <2>1, <2>2
<1>. HIDE DEF u
<1>12. \A i \in DOMAIN u : u[i].of = NOW => f.now /\ i = 1
  <2>1. \A i \in DOMAIN u : i \in 1 .. Len(g) \/ i \in Len(g) + 1 .. Len(g) + Len(tl)
    BY <1>8
  <2>. QED BY <1>6, <1>9, <1>10, <2>1
<1>13. f.now => /\ u[1].of = NOW /\ u[1].made = f.made
                /\ u[1].instead = 0 => f.map = f.made
                /\ u[1].instead # 0 => f.map = u[1].instead
  <2>. SUFFICES ASSUME f.now
                PROVE  /\ u[1].of = NOW /\ u[1].made = f.made
                       /\ u[1].instead = 0 => f.map = f.made
                       /\ u[1].instead # 0 => f.map = u[1].instead
    OBVIOUS
  <2>1. PICK inst \in Places : /\ g[1] = NowChunk(f.made, inst)
                               /\ f.map = IF inst # 0 THEN inst ELSE f.made
    BY <1>5
  <2>2. u[1].of = NOW /\ u[1].made = f.made /\ u[1].instead = inst
    BY <1>11, <2>1 DEF NowChunk
  <2>. QED BY <2>1, <2>2
<1>14. Got(f) = u
  BY <1>1 DEF u
<1>15. f.gap.chunks \in Seq(ChunkRec)
  BY <1>4 DEF g
<1>. HIDE DEF Got
<1>. QED BY <1>7, <1>8, <1>11, <1>12, <1>13, <1>14, <1>15

\* savenow_load_pre tells a save-now save by its chunk.
LEMMA LandIs == ASSUME NEW f, Saved(f) PROVE (IsNow(f) <=> f.now) /\ MapOf(f) = f.made
<1>. DEFINE u == Got(f)
<1>1. f.now \in BOOLEAN
  BY DEF Saved
<1>2. CASE f.now
  <2>1. u # <<>> /\ u[1].of = NOW /\ u \in Seq(ChunkRec)
    BY <1>2, SavedIs
  <2>2. \A i \in DOMAIN u : u[i].of = NOW => i = 1
    BY SavedIs
  <2>. HIDE DEF u
  <2>3. At(u, NOW) = {1}
    <3>1. 1 \in DOMAIN u
      BY <2>1
    <3>. QED BY <2>1, <2>2, <3>1 DEF At
  <2>4. Max({1}) = 1
    BY DEF Max
  <2>5. LastOf(u, NOW) = u[1] /\ At(u, NOW) # {}
    BY <2>3, <2>4 DEF LastOf
  <2>6. /\ u[1].made = f.made
        /\ u[1].instead = 0 => f.map = f.made
        /\ u[1].instead # 0 => f.map = u[1].instead
    BY <1>2, SavedIs DEF u
  <2>. QED BY <1>2, <2>5, <2>6 DEF IsNow, MapOf, u
<1>3. CASE ~f.now
  <2>1. At(u, NOW) = {}
    BY <1>3, SavedIs DEF At
  <2>2. f.map = f.made
    BY <1>3 DEF Saved
  <2>. QED BY <1>3, <2>1, <2>2 DEF IsNow, MapOf
<1>. QED BY <1>1, <1>2, <1>3

LEMMA NoBlockSaved == Saved(NoBlock) /\ NoBlock.map = 0 /\ NoBlock.tail = NoTail
<1>1. <<>> \in ModsOnly /\ 0 \in Places
  <2>1. <<>> \in Seq(ChunkRec)
    OBVIOUS
  <2>. QED BY <2>1, LedByNone, LedStarts DEF Places
<1>. QED BY <1>1 DEF NoBlock, NoGap, NoTail, Saved

LEMMA SaveInit == Init => SaveInv
<1>. SUFFICES ASSUME Init PROVE SaveInv
  OBVIOUS
<1>1. map \in Places /\ lastSp \in Places /\ opened \in BOOLEAN
  BY SaveAssumption DEF Init, Places
<1>2. data \in Data
  <2>1. MaxVal \in Nat
    BY SaveAssumption
  <2>. QED BY <2>1 DEF Init, Data
<1>3. kept \in ModsOnly /\ held \in ModsOnly
  <2>1. <<>> \in Seq(ChunkRec)
    OBVIOUS
  <2>. QED BY <2>1, LedByNone, LedStarts DEF Init
<1>4. Saved(block) /\ Saved(file)
  BY NoBlockSaved DEF Init, NoFile
<1>. QED BY <1>1, <1>2, <1>3, <1>4 DEF SaveInv

Filling(made, first, mods, put) ==
    [NoBlock EXCEPT !.made = made, !.now = first, !.mods = mods, !.map = put]
LEMMA FilledIs ==
    ASSUME NEW made, NEW first, NEW mods, NEW put
    PROVE  Filling(made, first, mods, put)
           = [map |-> put, gap |-> NoGap, tail |-> NoTail, made |-> made, now |-> first,
              mods |-> mods]
<1>. DEFINE zero == [m \in Mods |-> 0]
            b1 == [NoBlock EXCEPT !.made = made]
            b2 == [b1 EXCEPT !.now = first]
            b3 == [b2 EXCEPT !.mods = mods]
            b4 == [b3 EXCEPT !.map = put]
<1>1. NoBlock = [map |-> 0, gap |-> NoGap, tail |-> NoTail, made |-> 0, now |-> FALSE,
                 mods |-> zero]
  BY DEF NoBlock
<1>. HIDE DEF zero
<1>2. b1 = [map |-> 0, gap |-> NoGap, tail |-> NoTail, made |-> made, now |-> FALSE, mods |-> zero]
  <2>1. ASSUME NEW b, NEW no, NEW g, NEW t, NEW z,
               b = [map |-> 0, gap |-> g, tail |-> t, made |-> 0, now |-> no, mods |-> z]
        PROVE  [b EXCEPT !.made = made]
               = [map |-> 0, gap |-> g, tail |-> t, made |-> made, now |-> no, mods |-> z]
    BY <2>1
  <2>2. PICK b : b = NoBlock
    OBVIOUS
  <2>3. PICK no : no = FALSE
    OBVIOUS
  <2>4. b = [map |-> 0, gap |-> NoGap, tail |-> NoTail, made |-> 0, now |-> no, mods |-> zero]
    BY <1>1, <2>2, <2>3
  <2>5. [b EXCEPT !.made = made]
        = [map |-> 0, gap |-> NoGap, tail |-> NoTail, made |-> made, now |-> no, mods |-> zero]
    BY <2>1, <2>4
  <2>6. b1 = [b EXCEPT !.made = made]
    BY <2>2, Zenon
  <2>. HIDE DEF b1
  <2>. QED BY <2>3, <2>5, <2>6
<1>. HIDE DEF b1
<1>3. b2 = [map |-> 0, gap |-> NoGap, tail |-> NoTail, made |-> made, now |-> first, mods |-> zero]
  BY <1>2
<1>. HIDE DEF b2
<1>4. b3 = [map |-> 0, gap |-> NoGap, tail |-> NoTail, made |-> made, now |-> first, mods |-> mods]
  BY <1>3
<1>. HIDE DEF b3
<1>5. b4 = [map |-> put, gap |-> NoGap, tail |-> NoTail, made |-> made, now |-> first, mods |-> mods]
  BY <1>4
<1>6. b4 = Filling(made, first, mods, put)
  BY DEF b1, b2, b3, Filling
<1>. HIDE DEF b4
<1>. QED BY <1>5, <1>6

\* What the menu's opening writes.
LEMMA SnapshotSaves ==
    ASSUME SaveInv, Snapshot
    PROVE  held' \in ModsOnly /\ Saved(block')
<1>. DEFINE all == Gathered
            before == IF opened THEN <<NowChunk(map, Instead)>> ELSE <<>>
            put == IF opened /\ Instead # 0 THEN Instead ELSE map
            mods == [m \in Mods |->
                      IF m \notin savers THEN line[m]
                      ELSE IF data[m] # 0 /\ Bytes(m, data[m]) > AllRoom THEN line[m]
                      ELSE data[m]]
            gap == [id |-> id + 1, inTail |-> Len(ToTail(all)), chunks |-> SubSeq(all, 1, InGap(all))]
<1>1. map \in Places /\ lastSp \in Places /\ opened \in BOOLEAN /\ kept \in ModsOnly /\ data \in Data
  BY DEF SaveInv
<1>2. Instead \in Places
  BY <1>1 DEF Instead, Places
<1>3. before \in Seq(ChunkRec) /\ Len(before) \in {0, 1}
  <2>1. <<>> \in Seq(ChunkRec) /\ Len(<<>>) = 0
    OBVIOUS
  <2>. QED BY <1>1, <1>2, <2>1, NowChunkIs
<1>4. all \in Led(before)
  BY <1>1, GatheredIs
<1>. HIDE DEF all
<1>5. all \in Seq(ChunkRec)
  BY <1>4 DEF Led
<1>6. InGap(all) \in 0 .. Len(all)
  BY <1>5, InGapIs
<1>7. opened => all # <<>> /\ all[1] = NowChunk(map, Instead)
  <2>. SUFFICES ASSUME opened PROVE all # <<>> /\ all[1] = NowChunk(map, Instead)
    OBVIOUS
  <2>1. before = <<NowChunk(map, Instead)>> /\ Len(before) = 1 /\ before[1] = NowChunk(map, Instead)
    BY <1>1, <1>2, NowChunkIs
  <2>. HIDE DEF before
  <2>2. Len(all) >= 1 /\ all[1] = before[1]
    BY <1>4, <2>1 DEF Led
  <2>. QED BY <1>5, <2>1, <2>2
<1>8. InGap(all) >= Len(before)
  <2>1. CASE opened
    <3>1. Len(before) = 1
      BY <1>1, <1>2, <2>1, NowChunkIs
    <3>2. all # <<>> /\ all[1].size = 1
      BY <1>7, <2>1 DEF NowChunk
    <3>3. InGap(all) >= 1
      BY <1>5, <3>2, InGapIs
    <3>. HIDE DEF before
    <3>. QED BY <3>1, <3>3
  <2>2. CASE ~opened
    <3>1. Len(before) = 0
      BY <2>2
    <3>. HIDE DEF before
    <3>. QED BY <1>6, <3>1
  <2>. QED BY <1>1, <2>1, <2>2
<1>9. ToTail(all) \in ModsOnly
  <2>. HIDE DEF before
  <2>. QED BY <1>3, <1>4, <1>8, TailIs
<1>10. SubSeq(all, 1, InGap(all)) \in Led(before)
  <2>. DEFINE k == InGap(all)
              u == SubSeq(all, 1, k)
  <2>1. u \in Seq(ChunkRec) /\ Len(u) = k /\ \A i \in 1 .. k : u[i] = all[i]
    BY <1>5, <1>6, FrontIs
  <2>2. k \in Nat /\ k >= Len(before) /\ k <= Len(all) /\ Len(before) \in Nat
    <3>. HIDE DEF before
    <3>. QED BY <1>3, <1>6, <1>8
  <2>. HIDE DEF before, k, u
  <2>3. \A i \in 1 .. Len(before) : u[i] = before[i]
    BY <1>4, <2>1, <2>2 DEF Led
  <2>4. \A i \in DOMAIN u : i > Len(before) => u[i].of # NOW
    <3>1. \A i \in DOMAIN u : i \in 1 .. k /\ i \in DOMAIN all
      BY <1>5, <2>1, <2>2
    <3>. QED BY <1>4, <2>1, <3>1 DEF Led
  <2>5. u \in Led(before)
    BY <2>1, <2>2, <2>3, <2>4 DEF Led
  <2>. QED BY <2>5 DEF u, k
<1>. DEFINE filled == Filling(map, opened, mods, put)
<1>11. filled = [map |-> put, gap |-> NoGap, tail |-> NoTail, made |-> map, now |-> opened,
                 mods |-> mods]
  <2>. HIDE DEF mods, put
  <2>. QED BY FilledIs
<1>12. <<>> \in ModsOnly
  <2>1. <<>> \in Seq(ChunkRec)
    OBVIOUS
  <2>. QED BY <2>1, LedByNone, LedStarts
<1>13. CASE all = <<>>
  <2>1. held' = <<>> /\ block' = filled
    BY <1>13 DEF Snapshot, all, Filling
  <2>2. ~opened /\ put = map
    BY <1>1, <1>7, <1>13
  <2>3. Saved(filled)
    <3>. HIDE DEF mods, put, filled
    <3>. QED BY <1>1, <1>11, <1>12, <2>2 DEF NoGap, NoTail, Saved
  <2>. HIDE DEF filled
  <2>. QED BY <1>12, <2>1, <2>3
<1>14. CASE all # <<>>
  <2>. DEFINE b == [filled EXCEPT !.gap = gap]
  <2>1. held' = ToTail(all) /\ block' = b
    BY <1>14 DEF Snapshot, all, Filling
  <2>2. b = [map |-> put, gap |-> gap, tail |-> NoTail, made |-> map, now |-> opened,
             mods |-> mods]
    <3>. HIDE DEF mods, put, filled, gap
    <3>. QED BY <1>11
  <2>3. gap.chunks \in Led(before)
    BY <1>10
  <2>4. CASE opened
    <3>1. gap.chunks \in Led(<<NowChunk(map, Instead)>>)
      BY <2>3, <2>4
    <3>2. put = IF Instead # 0 THEN Instead ELSE map
      BY <2>4
    <3>. HIDE DEF mods, put, gap, b, before
    <3>3. Saved(b)
      BY <1>1, <1>2, <1>12, <2>2, <2>4, <3>1, <3>2 DEF Saved, NoTail
    <3>. QED BY <1>9, <2>1, <3>3
  <2>5. CASE ~opened
    <3>1. gap.chunks \in ModsOnly
      BY <2>3, <2>5, LedByNone
    <3>2. put = map
      BY <2>5
    <3>. HIDE DEF mods, put, gap, b, before
    <3>3. Saved(b)
      BY <1>1, <1>12, <2>2, <2>5, <3>1, <3>2 DEF Saved, NoTail
    <3>. QED BY <1>9, <2>1, <3>3
  <2>. QED BY <1>1, <2>4, <2>5
<1>. QED BY <1>13, <1>14

LEMMA SaveStep == SaveInv /\ [Next]_vars => SaveInv'
<1>. SUFFICES ASSUME SaveInv, [Next]_vars PROVE SaveInv'
  OBVIOUS
<1>. USE DEF SaveInv
<1>0. <<>> \in ModsOnly
  <2>1. <<>> \in Seq(ChunkRec)
    OBVIOUS
  <2>. QED BY <2>1, LedByNone, LedStarts
<1>1. Maps \subseteq Places /\ SavePoints \subseteq Places /\ 0 \in Places /\ MaxVal \in Nat
  BY SaveAssumption DEF Places
<1>2. CASE Request
  BY <1>2 DEF Request, game
<1>3. CASE SafePoint
  BY <1>3 DEF SafePoint
<1>4. CASE Snapshot
  <2>1. held' \in ModsOnly /\ Saved(block')
    BY <1>4, SnapshotSaves
  <2>2. UNCHANGED <<map, lastSp, kept, data, file>> /\ opened' \in BOOLEAN
    BY <1>4 DEF Snapshot, AfterNow
  <2>. QED BY <2>1, <2>2
<1>5. CASE Cancel
  BY <1>5, NoBlockSaved DEF Cancel, port
<1>6. CASE Image
  <2>1. held' = <<>> /\ UNCHANGED <<map, lastSp, opened, kept, data, file>>
    BY <1>6 DEF Image
  <2>2. CASE held = <<>>
    BY <1>0, <1>6, <2>1, <2>2 DEF Image
  <2>3. CASE held # <<>>
    <3>1. block' = [block EXCEPT !.tail = [id |-> id, chunks |-> held]]
      BY <1>6, <2>3 DEF Image
    <3>2. block = [map |-> block.map, gap |-> block.gap, tail |-> block.tail,
                   made |-> block.made, now |-> block.now, mods |-> block.mods]
      BY DEF Saved
    <3>3. block' = [map |-> block.map, gap |-> block.gap, tail |-> [id |-> id, chunks |-> held],
                    made |-> block.made, now |-> block.now, mods |-> block.mods]
      BY <3>1, <3>2
    <3>4. Saved(block')
      BY <3>3 DEF Saved
    <3>. QED BY <1>0, <2>1, <3>4
  <2>. QED BY <2>2, <2>3
<1>7. CASE Continue
  <2>1. MapOf(file) = file.made /\ file.made \in Places
    BY LandIs DEF Saved
  <2>2. Got(file) \in Seq(ChunkRec)
    BY SavedIs
  <2>3. kept' \in ModsOnly
    BY <1>7, <2>2, KeptIs DEF Continue
  <2>4. data' \in Data
    <3>1. ASSUME NEW m \in Mods
          PROVE  (IF m \in savers THEN ValueOf(Got(file), m) ELSE data[m]) \in 0 .. MaxVal
      <4>1. data[m] \in 0 .. MaxVal
        BY DEF Data
      <4>2. ValueOf(Got(file), m) \in 0 .. MaxVal
        <5>. DEFINE u == Got(file)
        <5>1. CASE At(u, m) = {}
          BY <1>1, <5>1 DEF ValueOf
        <5>2. CASE At(u, m) # {}
          <6>1. At(u, m) \in SUBSET (1 .. Len(u)) /\ Len(u) \in Nat
            BY <2>2 DEF At
          <6>2. Max(At(u, m)) \in 1 .. Len(u)
            BY <5>2, <6>1, MaxIs
          <6>3. u[Max(At(u, m))] \in ChunkRec
            BY <2>2, <6>2
          <6>. QED BY <5>2, <6>3 DEF ValueOf, LastOf, ChunkRec
        <5>. QED BY <5>1, <5>2
      <4>. QED BY <4>1, <4>2
    <3>2. data' = [m \in Mods |-> IF m \in savers THEN ValueOf(Got(file), m) ELSE data[m]]
      BY <1>7 DEF Continue
    <3>. QED BY <3>1, <3>2 DEF Data
  <2>. QED BY <1>7, <2>1, <2>3, <2>4 DEF Continue
<1>8. CASE NewGame
  <2>1. data' \in Data
    BY <1>1, <1>8 DEF NewGame, Data
  <2>. QED BY <1>0, <1>1, <1>8, <2>1 DEF NewGame
<1>9. CASE Walk
  BY <1>1, <1>9 DEF Walk, port
<1>10. ASSUME NEW m \in Mods, Play(m) PROVE SaveInv'
  <2>1. data' \in Data
    BY <1>1, <1>10 DEF Play, Data
  <2>. QED BY <1>10, <2>1 DEF Play, game, port
<1>11. CASE AtSavePoint
  BY <1>11 DEF AtSavePoint, port
<1>12. CASE WriteBlock
  <2>1. PICK was \in {file.tail, NoTail} : file' = [block EXCEPT !.tail = was]
    BY <1>12 DEF WriteBlock
  <2>2. was.chunks \in ModsOnly
    BY <1>0 DEF NoTail, Saved
  <2>3. block = [map |-> block.map, gap |-> block.gap, tail |-> block.tail,
                 made |-> block.made, now |-> block.now, mods |-> block.mods]
    BY DEF Saved
  <2>4. file' = [map |-> block.map, gap |-> block.gap, tail |-> was,
                 made |-> block.made, now |-> block.now, mods |-> block.mods]
    BY <2>1, <2>3
  <2>5. Saved(file')
    BY <2>2, <2>4 DEF Saved
  <2>. QED BY <1>12, <2>5 DEF WriteBlock, port
<1>13. CASE WriteTail
  BY <1>13, NoBlockSaved DEF WriteTail, port
<1>14. CASE ToTitle
  BY <1>14 DEF ToTitle, port
<1>15. CASE Restart
  <2>1. data' \in Data
    BY <1>1, <1>15 DEF Restart, Data
  <2>. QED BY <1>0, <1>1, <1>15, <2>1, NoBlockSaved DEF Restart
<1>16. CASE UNCHANGED vars
  BY <1>16 DEF vars, game, port
<1>. QED BY <1>2, <1>3, <1>4, <1>5, <1>6, <1>7, <1>8, <1>9, <1>10, <1>11, <1>12, <1>13, <1>14,
            <1>15, <1>16 DEF Next

LEMMA SaveInvariant == FilesSpec => []SaveInv
<1>1. FilesInit => SaveInv
  BY SaveInit DEF FilesInit
<1>2. SaveInv /\ [FilesNext]_filesVars => SaveInv'
  <2>1. ASSUME [FilesNext]_filesVars PROVE [Next]_vars
    BY <2>1 DEF FilesNext, filesVars
  <2>. QED BY <2>1, SaveStep
<1>. QED BY <1>1, <1>2, PTL DEF FilesSpec

\* LandingHolds: whatever was saved how, and loaded after which other saves, a Continue
\* lands where a save-now save was made and at its save point after any other
\* (savenow_snapshot, savenow_load_pre).
THEOREM LandingHolds == FilesSpec => Landing
<1>1. SaveInv /\ [FilesNext]_filesVars
      => [which = "save" /\ Continue => map' = file.made /\ (lands' = "here" <=> file.now)]_vars
  <2>1. ASSUME SaveInv, Continue PROVE map' = file.made /\ (lands' = "here" <=> file.now)
    <3>1. (IsNow(file) <=> file.now) /\ MapOf(file) = file.made
      BY <2>1, LandIs DEF SaveInv
    <3>2. map' = MapOf(file) /\ lands' = IF IsNow(file) THEN "here" ELSE "point"
      BY <2>1 DEF Continue
    <3>. QED BY <3>1, <3>2
  <2>. QED BY <2>1
<1>. QED BY <1>1, SaveInvariant, PTL DEF FilesSpec, Landing

-----------------------------------------------------------------------------
(* What a save carries, with room for every mod's chunk. *)

\* No chunk is larger than big, and the gap, less the room its last chunk may leave unused,
\* and the tail hold one of every mod and save now's.
Roomy(big) ==
    /\ big \in Nat \ {0}
    /\ \A m \in Mods, v \in 1 .. MaxVal : Bytes(m, v) <= big
    /\ (NMods + 2) * big <= GapRoom + TailRoom + 1
Fitting(big) == {c \in ChunkRec : c.size <= big}

\* A sequence of such chunks, no two of one owner ...
Single(big, t) ==
    /\ t \in Seq(Fitting(big))
    /\ \A i, j \in DOMAIN t : t[i].of = t[j].of => i = j
\* ... and which.
Puts(big, t, S) == Single(big, t) /\ {t[i] : i \in DOMAIN t} = S

LEMMA FittingIs ==
    ASSUME NEW big, NEW t \in Seq(Fitting(big))
    PROVE  t \in Seq(ChunkRec) /\ \A i \in DOMAIN t : t[i] \in ChunkRec /\ t[i].size <= big
<1>1. \A i \in DOMAIN t : t[i] \in Fitting(big)
  OBVIOUS
<1>2. \A i \in 1 .. Len(t) : t[i] \in ChunkRec
  BY <1>1 DEF Fitting
<1>3. t \in Seq(ChunkRec)
  BY <1>2
<1>. QED BY <1>1, <1>3 DEF Fitting

LEMMA PutsNone == ASSUME NEW big PROVE Puts(big, <<>>, {})
<1>1. <<>> \in Seq(Fitting(big)) /\ DOMAIN <<>> = {}
  OBVIOUS
<1>. QED BY <1>1 DEF Puts, Single

LEMMA PutsMore ==
    ASSUME NEW big, NEW t, NEW S, Puts(big, t, S), NEW c \in Fitting(big), \A d \in S : d.of # c.of
    PROVE  Puts(big, Append(t, c), S \cup {c})
<1>. DEFINE u == Append(t, c)
            n == Len(t)
<1>1. t \in Seq(Fitting(big)) /\ n \in Nat /\ DOMAIN t = 1 .. n
  BY DEF Puts, Single
<1>2. u \in Seq(Fitting(big)) /\ DOMAIN u = 1 .. n + 1 /\ u[n + 1] = c
  BY <1>1
<1>3. \A i \in 1 .. n : u[i] = t[i]
  BY <1>1
<1>4. \A i \in 1 .. n : t[i] \in S
  BY <1>1 DEF Puts
<1>. HIDE DEF u, n
<1>5. \A i \in 1 .. n + 1 : i \in 1 .. n \/ i = n + 1
  BY <1>1
<1>6. \A i, j \in DOMAIN u : u[i].of = u[j].of => i = j
  <2>1. ASSUME NEW i \in 1 .. n + 1, NEW j \in 1 .. n + 1, u[i].of = u[j].of PROVE i = j
    <3>1. CASE i \in 1 .. n /\ j \in 1 .. n
      <4>1. t[i].of = t[j].of
        BY <1>3, <2>1, <3>1
      <4>. QED BY <1>1, <3>1, <4>1 DEF Puts, Single
    <3>2. CASE i = n + 1 /\ j = n + 1
      BY <3>2
    <3>3. CASE i \in 1 .. n /\ j = n + 1
      BY <1>2, <1>3, <1>4, <2>1, <3>3
    <3>4. CASE j \in 1 .. n /\ i = n + 1
      BY <1>2, <1>3, <1>4, <2>1, <3>4
    <3>. QED BY <1>5, <3>1, <3>2, <3>3, <3>4
  <2>. QED BY <1>2, <2>1
<1>7. {u[i] : i \in DOMAIN u} = S \cup {c}
  <2>1. S = {t[i] : i \in 1 .. n}
    BY <1>1 DEF Puts
  <2>2. n + 1 \in 1 .. n + 1 /\ \A i \in 1 .. n : i \in 1 .. n + 1
    BY <1>1
  <2>. QED BY <1>2, <1>3, <1>5, <2>1, <2>2
<1>8. Puts(big, u, S \cup {c})
  BY <1>2, <1>6, <1>7 DEF Puts, Single
<1>. QED BY <1>8 DEF u

\* What is read of a mod is its chunk's.
LEMMA ValueIs ==
    ASSUME NEW big, NEW t, NEW S, Puts(big, t, S)
    PROVE  /\ \A c \in S : ValueOf(t, c.of) = c.val
           /\ \A m : (\A c \in S : c.of # m) => ValueOf(t, m) = 0
<1>1. ASSUME NEW i \in DOMAIN t PROVE ValueOf(t, t[i].of) = t[i].val
  <2>1. At(t, t[i].of) = {i}
    BY DEF At, Puts, Single
  <2>2. Len(t) \in Nat /\ i \in 1 .. Len(t)
    BY DEF Puts, Single
  <2>3. Max({i}) = i
    <3>1. {i} \in SUBSET (1 .. Len(t)) /\ {i} # {}
      BY <2>2
    <3>2. Max({i}) \in {i}
      BY <2>2, <3>1, MaxIs
    <3>. QED BY <3>2
  <2>. QED BY <2>1, <2>3 DEF ValueOf, LastOf
<1>2. ASSUME NEW m, \A c \in S : c.of # m PROVE ValueOf(t, m) = 0
  <2>1. \A i \in DOMAIN t : t[i] \in S
    BY DEF Puts
  <2>2. At(t, m) = {}
    BY <1>2, <2>1 DEF At
  <2>. QED BY <2>2 DEF ValueOf
<1>3. \A c \in S : \E i \in DOMAIN t : c = t[i]
  BY DEF Puts
<1>4. ASSUME NEW c \in S PROVE ValueOf(t, c.of) = c.val
  <2>1. PICK i \in DOMAIN t : c = t[i]
    BY <1>3
  <2>. QED BY <1>1, <2>1
<1>. QED BY <1>2, <1>4

\* No more chunks than owners.
LEMMA OwnersBound ==
    ASSUME NEW big, NEW t, Single(big, t)
    PROVE  Len(t) \in Nat /\ Len(t) <= NMods + 1
<1>1. t \in Seq(ChunkRec) /\ Len(t) \in Nat /\ DOMAIN t = 1 .. Len(t) /\ NMods \in Nat
  BY FittingIs, SaveAssumption DEF Single
<1>2. SUFFICES ASSUME Len(t) > NMods + 1 PROVE FALSE
  BY <1>1
<1>. DEFINE f == [i \in 1 .. Len(t) |-> t[i].of]
<1>3. f \in [1 .. Len(t) -> 0 .. NMods]
  <2>1. ASSUME NEW i \in 1 .. Len(t) PROVE t[i].of \in 0 .. NMods
    <3>1. t[i] \in ChunkRec
      BY <1>1
    <3>. QED BY <3>1 DEF ChunkRec
  <2>. QED BY <2>1
<1>4. IsFiniteSet(1 .. Len(t)) /\ Cardinality(1 .. Len(t)) = Len(t)
  <2>1. ~(1 > Len(t)) /\ Len(t) - 1 + 1 = Len(t) /\ 1 \in Int /\ Len(t) \in Int
    BY <1>1, <1>2
  <2>. QED BY <2>1, FS_Interval
<1>5. IsFiniteSet(0 .. NMods) /\ Cardinality(0 .. NMods) = NMods + 1
  <2>1. ~(0 > NMods) /\ NMods - 0 + 1 = NMods + 1 /\ 0 \in Int /\ NMods \in Int
    BY <1>1
  <2>. QED BY <2>1, FS_Interval
<1>6. Cardinality(0 .. NMods) < Cardinality(1 .. Len(t))
  BY <1>1, <1>2, <1>4, <1>5
<1>7. PICK x \in 1 .. Len(t), y \in 1 .. Len(t) : x # y /\ f[x] = f[y]
  <2>. HIDE DEF f
  <2>. QED BY <1>3, <1>4, <1>5, <1>6, FS_PigeonHole
<1>. QED BY <1>1, <1>7 DEF Single

LEMMA TotalBound ==
    ASSUME NEW big \in Nat, NEW t \in Seq(Fitting(big))
    PROVE  Total(t) <= Len(t) * big
<1>. DEFINE n == Len(t)
<1>1. t \in Seq(ChunkRec) /\ n \in Nat /\ \A k \in 1 .. n : t[k] \in ChunkRec /\ t[k].size <= big
  BY FittingIs
<1>2. PICK a \in [0 .. n -> Nat] :
         a[0] = 0 /\ (\A k \in 1 .. n : a[k] = a[k - 1] + t[k].size) /\ Total(t) = a[n]
  BY <1>1, TotalRuns
<1>. HIDE DEF n
<1>. DEFINE P == [k \in 0 .. n |-> {x \in Nat : x <= k * big}]
<1>3. \A k \in 0 .. n : P[k] = {x \in Nat : x <= k * big}
  OBVIOUS
<1>. HIDE DEF P
<1>4. Through(a, n, P)
  <2>1. ASSUME NEW k \in 1 .. n, a[k - 1] \in P[k - 1] PROVE a[k] \in P[k]
    <3>1. k - 1 \in 0 .. n /\ k \in 0 .. n /\ k \in Nat /\ k - 1 \in Nat
      BY <1>1
    <3>2. a[k - 1] \in Nat /\ a[k - 1] <= (k - 1) * big
      BY <1>3, <2>1, <3>1
    <3>3. t[k].size \in Nat /\ t[k].size <= big
      BY <1>1 DEF ChunkRec
    <3>4. (k - 1) * big + big = k * big /\ k * big \in Nat /\ (k - 1) * big \in Nat
      BY <3>1
    <3>5. a[k] \in Nat /\ a[k] <= (k - 1) * big + big
      BY <1>2, <3>1, <3>2, <3>3, <3>4
    <3>. QED BY <1>3, <3>1, <3>4, <3>5
  <2>2. 0 \in 0 .. n /\ 0 <= 0 * big
    BY <1>1
  <2>. QED BY <1>2, <1>3, <2>1, <2>2 DEF Through
<1>5. a[n] \in P[n] /\ n \in 0 .. n
  BY <1>1, <1>4, RunStays
<1>. QED BY <1>2, <1>3, <1>5 DEF n

\* Any one of each owner's are within the room there is for all.
LEMMA RoomForAll ==
    ASSUME NEW big, Roomy(big), NEW t, Single(big, t)
    PROVE  /\ Total(t) \in Nat /\ Total(t) + big <= GapRoom + TailRoom + 1
           /\ Total(t) <= AllRoom
<1>1. Len(t) \in Nat /\ Len(t) <= NMods + 1 /\ NMods \in Nat /\ big \in Nat \ {0}
  BY OwnersBound, SaveAssumption DEF Roomy
<1>2. Total(t) \in Nat /\ Total(t) <= Len(t) * big
  BY <1>1, FittingIs, TotalTyped, TotalBound DEF Single
<1>3. Len(t) * big <= (NMods + 1) * big
  BY <1>1
<1>4. (NMods + 1) * big + big = (NMods + 2) * big
  BY <1>1
<1>5. Len(t) * big \in Nat /\ (NMods + 1) * big \in Nat
  BY <1>1
<1>6. (NMods + 2) * big <= GapRoom + TailRoom + 1 /\ GapRoom + TailRoom <= AllRoom
      /\ GapRoom \in Nat /\ TailRoom \in Nat /\ AllRoom \in Nat
  BY SaveAssumption DEF Roomy
<1>. QED BY <1>1, <1>2, <1>3, <1>4, <1>5, <1>6

\* A Continue keeps the chunks of the mods that are not there, each one.
LEMMA KeptPuts ==
    ASSUME NEW big, NEW chunks, Single(big, chunks)
    PROVE  Puts(big, KeptOf(chunks), {chunks[j] : j \in {i \in DOMAIN chunks : IsKept(chunks[i])}})
<1>. DEFINE n == Len(chunks)
            S(k) == {chunks[j] : j \in {i \in 1 .. k : IsKept(chunks[i])}}
            P == [k \in 0 .. n |-> {t \in Seq(ChunkRec) : Puts(big, t, S(k))}]
<1>1. /\ chunks \in Seq(ChunkRec) /\ n \in Nat /\ DOMAIN chunks = 1 .. n
      /\ \A k \in 1 .. n : chunks[k] \in Fitting(big)
  BY FittingIs DEF Single
<1>2. PICK a \in [0 .. n -> Seq(ChunkRec)] :
         /\ a[0] = <<>>
         /\ \A k \in 1 .. n : a[k] = IF IsKept(chunks[k]) THEN Append(a[k - 1], chunks[k])
                                     ELSE a[k - 1]
         /\ KeptOf(chunks) = a[n]
  BY <1>1, KeptRuns
<1>3. \A k \in 0 .. n : P[k] = {t \in Seq(ChunkRec) : Puts(big, t, S(k))}
  OBVIOUS
<1>. HIDE DEF n, P
<1>4. Through(a, n, P)
  <2>1. ASSUME NEW k \in 1 .. n, a[k - 1] \in P[k - 1] PROVE a[k] \in P[k]
    <3>1. k - 1 \in 0 .. n /\ k \in 0 .. n /\ k \in Nat
      BY <1>1
    <3>2. Puts(big, a[k - 1], S(k - 1))
      <4>. HIDE DEF S
      <4>. QED BY <1>3, <2>1, <3>1
    <3>3. \A i \in 1 .. k : i \in 1 .. k - 1 \/ i = k
      BY <3>1
    <3>4. k \in 1 .. k /\ k \notin 1 .. k - 1 /\ \A i \in 1 .. k - 1 : i \in 1 .. k /\ i \in 1 .. n
      BY <1>1, <3>1
    <3>5. CASE IsKept(chunks[k])
      <4>1. S(k) = S(k - 1) \cup {chunks[k]}
        <5>. HIDE DEF IsKept
        <5>. QED BY <3>3, <3>4, <3>5
      <4>2. \A d \in S(k - 1) : d.of # chunks[k].of
        <5>1. ASSUME NEW i \in 1 .. k - 1 PROVE chunks[i].of # chunks[k].of
          BY <1>1, <3>4 DEF Single
        <5>. QED BY <5>1
      <4>3. chunks[k] \in Fitting(big)
        BY <1>1
      <4>. HIDE DEF S
      <4>4. Puts(big, Append(a[k - 1], chunks[k]), S(k))
        BY <3>2, <4>1, <4>2, <4>3, PutsMore
      <4>5. a[k] = Append(a[k - 1], chunks[k]) /\ a[k] \in Seq(ChunkRec)
        BY <1>2, <3>1, <3>5
      <4>. QED BY <1>3, <3>1, <4>4, <4>5
    <3>6. CASE ~IsKept(chunks[k])
      <4>1. S(k) = S(k - 1)
        <5>. HIDE DEF IsKept
        <5>. QED BY <3>3, <3>4, <3>6
      <4>. HIDE DEF S
      <4>2. a[k] = a[k - 1] /\ a[k] \in Seq(ChunkRec)
        BY <1>2, <3>1, <3>6
      <4>. QED BY <1>3, <3>1, <3>2, <4>1, <4>2
    <3>. QED BY <3>5, <3>6
  <2>2. 0 \in 0 .. n /\ S(0) = {}
    BY <1>1
  <2>3. Puts(big, <<>>, S(0)) /\ a[0] \in Seq(ChunkRec)
    <3>. HIDE DEF S
    <3>. QED BY <1>2, <2>2, PutsNone
  <2>. HIDE DEF S
  <2>. QED BY <1>2, <1>3, <2>1, <2>2, <2>3 DEF Through
<1>5. a[n] \in P[n] /\ n \in 0 .. n
  BY <1>1, <1>4, RunStays
<1>6. Puts(big, KeptOf(chunks), S(n))
  <2>. HIDE DEF S
  <2>. QED BY <1>2, <1>3, <1>5
<1>. QED BY <1>1, <1>6

\* With room for all the snapshot has save now's chunk, one of each mod that is there
\* and has something to keep, and every kept one.
OwnChunks(k) == {Chunk(m, data[m]) : m \in {x \in 1 .. k : x \in savers /\ data[x] # 0}}
LEMMA GatheredPuts ==
    ASSUME NEW big, Roomy(big), Single(big, kept), data \in Data,
           \A j \in DOMAIN kept : kept[j].of # NOW /\ kept[j].of \notin savers,
           map \in Places, lastSp \in Places, opened \in BOOLEAN
    PROVE  Puts(big, Gathered, (IF opened THEN {NowChunk(map, Instead)} ELSE {})
                               \cup OwnChunks(NMods) \cup {kept[j] : j \in DOMAIN kept})
<1>. DEFINE first == IF opened THEN {NowChunk(map, Instead)} ELSE {}
            before == IF opened THEN <<NowChunk(map, Instead)>> ELSE <<>>
            own == FoldLeft(AddOwn, before, [m \in Mods |-> m])
            C(k) == {kept[j] : j \in 1 .. k}
            P == [k \in 0 .. NMods |-> {t \in Seq(ChunkRec) : Puts(big, t, first \cup OwnChunks(k))}]
            Q == [k \in 0 .. Len(kept) |->
                     {t \in Seq(ChunkRec) : Puts(big, t, first \cup OwnChunks(NMods) \cup C(k))}]
<1>1. /\ kept \in Seq(ChunkRec) /\ Len(kept) \in Nat /\ DOMAIN kept = 1 .. Len(kept)
      /\ \A k \in 1 .. Len(kept) : kept[k] \in Fitting(big)
      /\ NMods \in Nat /\ MaxVal \in Nat /\ big \in Nat \ {0} /\ Mods = 1 .. NMods
  BY FittingIs, SaveAssumption DEF Single, Roomy, Mods
<1>2. \A c \in first : c.of = NOW
  BY DEF NowChunk
<1>3. ASSUME NEW t, Single(big, t), NEW c \in Fitting(big), Single(big, Append(t, c))
      PROVE  Total(t) \in Nat /\ c.size \in Nat /\ Total(t) + c.size <= AllRoom
  <2>1. t \in Seq(ChunkRec) /\ c \in ChunkRec
    BY <1>3, FittingIs DEF Single, Fitting
  <2>2. Total(Append(t, c)) = Total(t) + c.size
    BY <2>1, TotalMore
  <2>3. Total(Append(t, c)) <= AllRoom
    BY <1>3, RoomForAll
  <2>. QED BY <2>1, <2>2, <2>3, TotalTyped DEF ChunkRec
<1>4. Puts(big, before, first) /\ before \in Seq(ChunkRec)
  <2>1. CASE opened
    <3>1. Instead \in Places
      BY DEF Instead, Places
    <3>2. NowChunk(map, Instead) \in Fitting(big) /\ <<NowChunk(map, Instead)>> \in Seq(ChunkRec)
      <4>1. NowChunk(map, Instead).size <= big
        BY <1>1 DEF NowChunk
      <4>2. NowChunk(map, Instead) \in ChunkRec /\ <<NowChunk(map, Instead)>> \in Seq(ChunkRec)
        BY <3>1, NowChunkIs
      <4>. HIDE DEF NowChunk
      <4>. QED BY <4>1, <4>2 DEF Fitting
    <3>3. Puts(big, Append(<<>>, NowChunk(map, Instead)), {} \cup {NowChunk(map, Instead)})
      BY <3>2, PutsNone, PutsMore
    <3>4. /\ Append(<<>>, NowChunk(map, Instead)) = <<NowChunk(map, Instead)>>
          /\ {} \cup {NowChunk(map, Instead)} = {NowChunk(map, Instead)}
      OBVIOUS
    <3>. QED BY <2>1, <3>2, <3>3, <3>4
  <2>2. CASE ~opened
    <3>1. <<>> \in Seq(ChunkRec)
      OBVIOUS
    <3>. QED BY <2>2, <3>1, PutsNone
  <2>. QED BY <2>1, <2>2
<1>5. PICK a \in [0 .. NMods -> Seq(ChunkRec)] :
         /\ a[0] = before
         /\ \A k \in 1 .. NMods : a[k] = AddOwn(a[k - 1], k)
         /\ own = a[NMods]
  <2>. HIDE DEF before
  <2>. QED BY <1>1, <1>4, OwnRuns
<1>6. \A k \in 0 .. NMods : P[k] = {t \in Seq(ChunkRec) : Puts(big, t, first \cup OwnChunks(k))}
  OBVIOUS
<1>7. \A k \in 0 .. Len(kept) :
         Q[k] = {t \in Seq(ChunkRec) : Puts(big, t, first \cup OwnChunks(NMods) \cup C(k))}
  OBVIOUS
<1>8. \A k \in 0 .. NMods : \A c \in OwnChunks(k) : c.of \in 1 .. k /\ c.of \in savers
  BY DEF OwnChunks, Chunk
<1>9. OwnChunks(0) = {} /\ C(0) = {}
  BY DEF OwnChunks
<1>10. ASSUME NEW k \in 1 .. NMods
       PROVE  OwnChunks(k) = OwnChunks(k - 1)
                         \cup IF k \in savers /\ data[k] # 0 THEN {Chunk(k, data[k])} ELSE {}
  <2>1. \A i \in 1 .. k : i \in 1 .. k - 1 \/ i = k
    BY <1>1
  <2>2. k \in 1 .. k /\ k \notin 1 .. k - 1 /\ \A i \in 1 .. k - 1 : i \in 1 .. k
    BY <1>1
  <2>. QED BY <2>1, <2>2 DEF OwnChunks
<1>. HIDE DEF before, P, Q, first
<1>11. Through(a, NMods, P)
  <2>1. ASSUME NEW k \in 1 .. NMods, a[k - 1] \in P[k - 1] PROVE a[k] \in P[k]
    <3>1. k - 1 \in 0 .. NMods /\ k \in 0 .. NMods /\ k \in Mods /\ k \notin 1 .. k - 1 /\ k # NOW
      BY <1>1 DEF NOW
    <3>2. Puts(big, a[k - 1], first \cup OwnChunks(k - 1)) /\ a[k - 1] \in Seq(ChunkRec)
      BY <1>6, <2>1, <3>1
    <3>3. a[k] = AddOwn(a[k - 1], k) /\ a[k] \in Seq(ChunkRec)
      BY <1>5, <3>1
    <3>4. CASE k \notin savers \/ data[k] = 0
      <4>1. OwnChunks(k) = OwnChunks(k - 1)
        BY <1>10, <3>4
      <4>2. a[k] = a[k - 1]
        BY <3>3, <3>4 DEF AddOwn
      <4>. QED BY <1>6, <3>1, <3>2, <4>1, <4>2
    <3>5. CASE k \in savers /\ data[k] # 0
      <4>. DEFINE c == Chunk(k, data[k])
      <4>1. data[k] \in 1 .. MaxVal /\ k \in 1 .. NMods
        BY <1>1, <3>1, <3>5 DEF Data
      <4>2. Bytes(k, data[k]) \in Nat \ {0} /\ Bytes(k, data[k]) <= big
        BY <3>1, <4>1, SaveAssumption DEF Roomy
      <4>3. 0 \in Places
        BY DEF Places
      <4>4. c.size = Bytes(k, data[k]) /\ c.of = k
        BY DEF Chunk
      <4>5. c \in Fitting(big)
        BY <1>1, <4>1, <4>2, <4>3 DEF Chunk, Fitting, ChunkRec
      <4>. HIDE DEF c
      <4>6. \A d \in first \cup OwnChunks(k - 1) : d.of # c.of
        BY <1>2, <1>8, <3>1, <4>4
      <4>7. Puts(big, Append(a[k - 1], c), (first \cup OwnChunks(k - 1)) \cup {c})
        BY <3>2, <4>5, <4>6, PutsMore
      <4>8. Total(a[k - 1]) \in Nat /\ Total(a[k - 1]) + c.size <= AllRoom
        BY <1>3, <3>2, <4>5, <4>7 DEF Puts
      <4>9. Bytes(k, data[k]) <= AllRoom - Total(a[k - 1])
        BY <4>2, <4>4, <4>8, SaveAssumption
      <4>10. a[k] = Append(a[k - 1], c)
        BY <3>3, <3>5, <4>9 DEF AddOwn, c
      <4>11. (first \cup OwnChunks(k - 1)) \cup {c} = first \cup OwnChunks(k)
        BY <1>10, <3>5 DEF c
      <4>12. Puts(big, a[k], first \cup OwnChunks(k))
        BY <4>7, <4>10, <4>11
      <4>. QED BY <1>6, <3>1, <3>3, <4>12
    <3>. QED BY <3>4, <3>5
  <2>2. 0 \in 0 .. NMods /\ first \cup OwnChunks(0) = first
    BY <1>1, <1>9
  <2>3. a[0] \in P[0]
    BY <1>4, <1>5, <1>6, <2>2
  <2>. QED BY <2>1, <2>3 DEF Through
<1>12. Puts(big, own, first \cup OwnChunks(NMods)) /\ own \in Seq(ChunkRec)
  <2>1. a[NMods] \in P[NMods] /\ NMods \in 0 .. NMods
    BY <1>1, <1>11, RunStays
  <2>. HIDE DEF own
  <2>. QED BY <1>5, <1>6, <2>1
<1>13. Gathered = FoldLeft(AddKept, own, kept)
  BY DEF Gathered, before
<1>. HIDE DEF own
<1>14. PICK e \in [0 .. Len(kept) -> Seq(ChunkRec)] :
          /\ e[0] = own
          /\ \A k \in 1 .. Len(kept) : e[k] = AddKept(e[k - 1], kept[k])
          /\ FoldLeft(AddKept, own, kept) = e[Len(kept)]
  BY <1>1, <1>12, CarriedRuns
<1>. DEFINE O == first \cup OwnChunks(NMods)
<1>15. \A d \in O : d.of = NOW \/ d.of \in savers
  <2>1. NMods \in 0 .. NMods
    BY <1>1
  <2>. QED BY <1>2, <1>8, <2>1
<1>16. Through(e, Len(kept), Q)
  <2>1. ASSUME NEW k \in 1 .. Len(kept), e[k - 1] \in Q[k - 1] PROVE e[k] \in Q[k]
    <3>. DEFINE c == kept[k]
    <3>1. k - 1 \in 0 .. Len(kept) /\ k \in 0 .. Len(kept)
      BY <1>1
    <3>2. Puts(big, e[k - 1], O \cup C(k - 1))
      <4>. HIDE DEF C
      <4>. QED BY <1>7, <2>1, <3>1
    <3>3. c \in Fitting(big) /\ c.of # NOW /\ c.of \notin savers
      BY <1>1
    <3>4. ASSUME NEW i \in 1 .. k - 1 PROVE kept[i].of # kept[k].of
      <4>1. i \in 1 .. Len(kept) /\ i # k
        BY <1>1
      <4>. QED BY <1>1, <4>1 DEF Single
    <3>5. \A d \in O \cup C(k - 1) : d.of # c.of
      BY <1>15, <3>3, <3>4
    <3>6. C(k - 1) \cup {c} = C(k)
      <4>1. \A i \in 1 .. k : i \in 1 .. k - 1 \/ i = k
        BY <1>1
      <4>2. k \in 1 .. k /\ \A i \in 1 .. k - 1 : i \in 1 .. k
        BY <1>1
      <4>. QED BY <4>1, <4>2
    <3>. HIDE DEF C, O, c
    <3>7. Puts(big, Append(e[k - 1], c), (O \cup C(k - 1)) \cup {c})
      BY <3>2, <3>3, <3>5, PutsMore
    <3>8. Total(e[k - 1]) \in Nat /\ Total(e[k - 1]) + c.size <= AllRoom
      BY <1>3, <3>2, <3>3, <3>7 DEF Puts
    <3>9. e[k] = Append(e[k - 1], c)
      BY <1>14, <3>3, <3>8 DEF AddKept, Carries, c
    <3>10. Puts(big, e[k], O \cup C(k))
      <4>1. (O \cup C(k - 1)) \cup {c} = O \cup C(k)
        BY <3>6
      <4>. QED BY <3>7, <3>9, <4>1
    <3>11. e[k] \in Seq(ChunkRec)
      BY <1>14, <3>1
    <3>. QED BY <1>7, <3>1, <3>10, <3>11 DEF O
  <2>2. 0 \in 0 .. Len(kept) /\ first \cup OwnChunks(NMods) \cup C(0) = first \cup OwnChunks(NMods)
    BY <1>1, <1>9
  <2>. HIDE DEF C
  <2>3. e[0] \in Q[0]
    BY <1>7, <1>12, <1>14, <2>2
  <2>. QED BY <2>1, <2>3 DEF Through
<1>17. e[Len(kept)] \in Q[Len(kept)] /\ Len(kept) \in 0 .. Len(kept)
  BY <1>1, <1>16, RunStays
<1>18. C(Len(kept)) = {kept[j] : j \in DOMAIN kept}
  BY <1>1
<1>19. Puts(big, Gathered, first \cup OwnChunks(NMods) \cup C(Len(kept)))
  <2>. HIDE DEF C
  <2>. QED BY <1>7, <1>13, <1>14, <1>17
<1>. HIDE DEF C
<1>. QED BY <1>18, <1>19 DEF first

LEMMA FrontSingle ==
    ASSUME NEW big, NEW t, Single(big, t), NEW k \in 0 .. Len(t)
    PROVE  Single(big, SubSeq(t, 1, k))
<1>. DEFINE u == SubSeq(t, 1, k)
<1>1. t \in Seq(ChunkRec) /\ t \in Seq(Fitting(big)) /\ Len(t) \in Nat
  BY FittingIs DEF Single
<1>2. u \in Seq(ChunkRec) /\ Len(u) = k /\ \A i \in 1 .. k : u[i] = t[i]
  BY <1>1, FrontIs
<1>. HIDE DEF u
<1>3. DOMAIN u = 1 .. k /\ \A i \in 1 .. k : i \in DOMAIN t
  BY <1>1, <1>2
<1>4. \A i \in 1 .. Len(u) : u[i] \in Fitting(big)
  BY <1>1, <1>2, <1>3
<1>5. u \in Seq(Fitting(big))
  BY <1>2, <1>4
<1>6. \A i, j \in DOMAIN u : u[i].of = u[j].of => i = j
  BY <1>2, <1>3 DEF Single
<1>. QED BY <1>5, <1>6 DEF Single, u

\* With room for all the tail takes whatever the gap does not.
LEMMA TailTakes ==
    ASSUME NEW big, Roomy(big), NEW all, Single(big, all)
    PROVE  /\ ToTail(all) = SubSeq(all, InGap(all) + 1, Len(all))
           /\ SubSeq(all, 1, InGap(all)) \o ToTail(all) = all
<1>. DEFINE g == InGap(all)
            room(k) == Total(SubSeq(all, 1, k))
<1>1. all \in Seq(ChunkRec) /\ Len(all) \in Nat /\ big \in Nat \ {0}
      /\ GapRoom \in Nat /\ TailRoom \in Nat
  BY FittingIs, SaveAssumption DEF Single, Roomy
<1>2. g \in 0 .. Len(all) /\ (g < Len(all) => room(g + 1) > GapRoom)
  BY <1>1, InGapIs
<1>3. PICK rest \in Seq(ChunkRec) : \E a \in [0 .. Len(rest) -> Seq(ChunkRec)] :
         /\ rest = SubSeq(all, InGap(all) + 1, Len(all))
         /\ a[0] = <<>>
         /\ \A k \in 1 .. Len(rest) :
               a[k] = IF Total(a[k - 1]) + rest[k].size <= TailRoom
                      THEN Append(a[k - 1], rest[k]) ELSE a[k - 1]
         /\ ToTail(all) = a[Len(rest)]
  BY <1>1, <1>2, TailRuns
<1>4. PICK a \in [0 .. Len(rest) -> Seq(ChunkRec)] :
         /\ a[0] = <<>>
         /\ \A k \in 1 .. Len(rest) :
               a[k] = IF Total(a[k - 1]) + rest[k].size <= TailRoom
                      THEN Append(a[k - 1], rest[k]) ELSE a[k - 1]
         /\ ToTail(all) = a[Len(rest)]
  BY <1>3
<1>5. rest = SubSeq(all, g + 1, Len(all))
  BY <1>3
<1>. HIDE DEF g
<1>6. Len(rest) = Len(all) - g /\ \A i \in 1 .. Len(rest) : rest[i] = all[g + i]
  <2>1. g + 1 \in Int /\ Len(all) \in Int /\ \A i \in g + 1 .. Len(all) : all[i] \in ChunkRec
    BY <1>1, <1>2
  <2>2. /\ Len(rest) = IF g + 1 <= Len(all) THEN Len(all) - (g + 1) + 1 ELSE 0
        /\ \A i \in 1 .. Len(all) - (g + 1) + 1 : rest[i] = all[g + 1 + i - 1]
    BY <1>5, <2>1, SubSeqProperties
  <2>3. Len(rest) = Len(all) - g /\ Len(all) - (g + 1) + 1 = Len(all) - g
    BY <1>1, <1>2, <2>2
  <2>4. \A i \in 1 .. Len(rest) : g + 1 + i - 1 = g + i
    BY <1>2
  <2>. QED BY <2>2, <2>3, <2>4
<1>. DEFINE n == Len(rest)
            part(k) == Total(SubSeq(rest, 1, k))
<1>7. n \in Nat /\ n = Len(all) - g
  BY <1>6
<1>8. ASSUME NEW k \in 0 .. n
      PROVE  room(g + k) \in Nat /\ part(k) \in Nat /\ room(g + k) + big <= GapRoom + TailRoom + 1
  <2>1. g + k \in 0 .. Len(all)
    BY <1>1, <1>2, <1>7
  <2>2. Single(big, SubSeq(all, 1, g + k))
    BY <2>1, FrontSingle
  <2>3. SubSeq(rest, 1, k) \in Seq(ChunkRec)
    BY FrontIs
  <2>. QED BY <2>2, <2>3, RoomForAll, TotalTyped
<1>9. ASSUME NEW k \in 0 .. n, k < n
      PROVE  /\ room(g + (k + 1)) = room(g + k) + rest[k + 1].size
             /\ part(k + 1) = part(k) + rest[k + 1].size
             /\ SubSeq(rest, 1, k + 1) = Append(SubSeq(rest, 1, k), rest[k + 1])
             /\ rest[k + 1].size \in Nat /\ rest[k + 1].size <= big
  <2>1. /\ g + k \in 0 .. Len(all) /\ g + k < Len(all) /\ g + (k + 1) = g + k + 1
        /\ k + 1 \in 1 .. n /\ g + k + 1 \in DOMAIN all
    BY <1>1, <1>2, <1>7, <1>9
  <2>2. rest[k + 1] = all[g + k + 1] /\ rest[k + 1] \in ChunkRec
    BY <1>6, <2>1
  <2>3. SubSeq(all, 1, g + k + 1) = Append(SubSeq(all, 1, g + k), all[g + k + 1])
        /\ SubSeq(all, 1, g + k) \in Seq(ChunkRec)
    BY <1>1, <2>1, FrontIs
  <2>4. Total(SubSeq(all, 1, g + k + 1)) = Total(SubSeq(all, 1, g + k)) + rest[k + 1].size
    BY <2>2, <2>3, TotalMore
  <2>5. SubSeq(rest, 1, k + 1) = Append(SubSeq(rest, 1, k), rest[k + 1])
        /\ SubSeq(rest, 1, k) \in Seq(ChunkRec)
    BY <1>9, FrontIs
  <2>6. Total(SubSeq(rest, 1, k + 1)) = Total(SubSeq(rest, 1, k)) + rest[k + 1].size
    BY <2>2, <2>5, TotalMore
  <2>7. rest[k + 1].size \in Nat /\ rest[k + 1].size <= big
    <3>1. all[g + k + 1].size <= big
      BY <2>1, FittingIs DEF Single
    <3>. QED BY <2>2, <3>1 DEF ChunkRec
  <2>. QED BY <2>1, <2>4, <2>5, <2>6, <2>7
<1>10. part(0) = 0 /\ SubSeq(rest, 1, 0) = <<>>
  <2>1. SubSeq(rest, 1, 0) = <<>>
    BY SubSeqEmpty
  <2>. QED BY <2>1, TotalNone
<1>. DEFINE S == {k \in Nat : k <= n => room(g + k) = room(g + 0) + part(k)}
<1>. HIDE DEF n, room, part
<1>11. \A k \in Nat : k \in S
  <2>1. 0 \in S
    <3>1. 0 \in 0 .. n
      BY <1>7
    <3>. QED BY <1>8, <1>10, <3>1
  <2>2. ASSUME NEW k \in Nat, k \in S PROVE k + 1 \in S
    <3>1. k + 1 <= n => k \in 0 .. n /\ k < n /\ 0 \in 0 .. n
      BY <1>7
    <3>. QED BY <1>8, <1>9, <2>2, <3>1
  <2>. HIDE DEF S
  <2>. QED BY <2>1, <2>2, NaturalsAll
<1>12. \A k \in 0 .. n : room(g + k) = room(g + 0) + part(k)
  <2>1. \A k \in 0 .. n : k \in Nat /\ k <= n
    BY <1>7
  <2>. QED BY <1>11, <2>1
<1>13. \A k \in 0 .. n : k > 0 => part(k) <= TailRoom
  <2>1. ASSUME NEW k \in 0 .. n, k > 0 PROVE part(k) <= TailRoom
    <3>1. g < Len(all) /\ 0 \in 0 .. n /\ 0 < n /\ g + (0 + 1) = g + 1
      BY <1>1, <1>2, <1>7, <2>1
    <3>2. room(g + 1) > GapRoom
      BY <1>2, <3>1 DEF room
    <3>3. room(g + 1) = room(g + 0) + rest[0 + 1].size /\ rest[0 + 1].size \in Nat
          /\ rest[0 + 1].size <= big
      BY <1>9, <3>1
    <3>4. room(g + k) = room(g + 0) + part(k)
      BY <1>12
    <3>5. room(g + k) + big <= GapRoom + TailRoom + 1 /\ room(g + k) \in Nat
          /\ room(g + 0) \in Nat /\ part(k) \in Nat
      BY <1>8, <3>1
    <3>. QED BY <1>1, <3>2, <3>3, <3>4, <3>5
  <2>. QED BY <2>1
<1>. DEFINE P == [k \in 0 .. n |-> {SubSeq(rest, 1, k)}]
<1>14. \A k \in 0 .. n : P[k] = {SubSeq(rest, 1, k)}
  OBVIOUS
<1>. HIDE DEF P
<1>15. Through(a, n, P)
  <2>1. ASSUME NEW k \in 1 .. n, a[k - 1] \in P[k - 1] PROVE a[k] \in P[k]
    <3>1. k - 1 \in 0 .. n /\ k \in 0 .. n /\ k - 1 < n /\ k - 1 + 1 = k /\ k > 0
      BY <1>7
    <3>2. a[k - 1] = SubSeq(rest, 1, k - 1)
      BY <1>14, <2>1, <3>1
    <3>3. part(k) = part(k - 1) + rest[k].size
          /\ SubSeq(rest, 1, k) = Append(SubSeq(rest, 1, k - 1), rest[k])
      BY <1>9, <3>1
    <3>4. Total(a[k - 1]) + rest[k].size <= TailRoom
      BY <1>13, <3>1, <3>2, <3>3 DEF part
    <3>5. a[k] = Append(a[k - 1], rest[k])
      BY <1>4, <3>4 DEF n
    <3>. QED BY <1>14, <3>1, <3>2, <3>3, <3>5
  <2>2. a[0] \in P[0]
    <3>1. 0 \in 0 .. n
      BY <1>7
    <3>. QED BY <1>4, <1>10, <1>14, <3>1
  <2>. QED BY <2>1, <2>2 DEF Through
<1>16. a[n] \in P[n] /\ n \in 0 .. n
  BY <1>7, <1>15, RunStays
<1>17. SubSeq(rest, 1, n) = rest
  <2>. DEFINE u == SubSeq(rest, 1, n)
  <2>1. u \in Seq(ChunkRec) /\ Len(u) = n /\ \A i \in 1 .. n : u[i] = rest[i]
    BY <1>16, FrontIs DEF n
  <2>2. Len(rest) = n
    BY DEF n
  <2>. HIDE DEF u
  <2>3. u = rest
    BY <2>1, <2>2, SeqEqual
  <2>. QED BY <2>3 DEF u
<1>18. ToTail(all) = rest
  BY <1>4, <1>14, <1>16, <1>17 DEF n
<1>19. SubSeq(all, 1, g) \o rest = all
  <2>1. 1 \in 1 .. Len(all) + 1 /\ g \in 1 - 1 .. Len(all) /\ Len(all) \in g .. Len(all)
    BY <1>1, <1>2
  <2>2. SubSeq(all, 1, g) \o SubSeq(all, g + 1, Len(all)) = SubSeq(all, 1, Len(all))
    BY <1>1, <2>1, ConcatAdjacentSubSeq
  <2>3. SubSeq(all, 1, Len(all)) = all
    <3>. DEFINE u == SubSeq(all, 1, Len(all))
    <3>1. Len(all) \in 0 .. Len(all)
      BY <1>1
    <3>2. u \in Seq(ChunkRec) /\ Len(u) = Len(all) /\ \A i \in 1 .. Len(all) : u[i] = all[i]
      BY <1>1, <3>1, FrontIs
    <3>. HIDE DEF u
    <3>3. u = all
      BY <1>1, <3>2, SeqEqual
    <3>. QED BY <3>3 DEF u
  <2>. QED BY <1>5, <2>2, <2>3
<1>. QED BY <1>5, <1>18, <1>19 DEF g

\* A save that holds what it is to hold.
Carrying(big, t, mods) == Single(big, t) /\ \A m \in Mods : ValueOf(t, m) = mods[m]

\* What is kept of the mods that are not there is what the game came with ...
LeftOut(big) ==
    /\ Single(big, kept) /\ \A j \in DOMAIN kept : kept[j].of # NOW /\ kept[j].of \notin savers
    /\ \A m \in Mods \ savers : line[m] = ValueOf(kept, m)
\* ... the block's gap and what is held for the tail hold the save between them, under an id
\* no tail on the card has ...
InMenu(big) ==
    phase = "menu" =>
        /\ \A m \in Mods \ savers : block.mods[m] = line[m]
        /\ block.gap.inTail = Len(held)
        /\ Carrying(big, block.gap.chunks \o held, block.mods)
        /\ held # <<>> => block.gap.id = id /\ file.tail.id < id
\* ... the image holds it ...
InImage(big) ==
    /\ phase \in {"yes", "half"} =>
        /\ Carrying(big, Got(block), block.mods)
        /\ block.gap.inTail > 0 => block.gap.id = id /\ block.tail.id = id
    /\ phase = "yes" /\ block.gap.inTail > 0 => file.tail.id < id
\* ... and the file does once it is written to its end.
OnCard(big) ==
    /\ Single(big, Got(file))
    /\ Whole => \A m \in Mods : ValueOf(Got(file), m) = file.mods[m]
IdsRight ==
    /\ id \in Nat /\ block.tail.id \in 0 .. id /\ file.tail.id \in 0 .. id
    /\ block.gap.inTail \in Nat /\ file.gap.inTail \in Nat
CarryInv(big) == LeftOut(big) /\ InMenu(big) /\ InImage(big) /\ OnCard(big) /\ IdsRight

LEMMA CarriesNone ==
    ASSUME NEW big
    PROVE  Single(big, <<>>) /\ (\A m : ValueOf(<<>>, m) = 0) /\ DOMAIN <<>> = {}
<1>1. Puts(big, <<>>, {})
  BY PutsNone
<1>2. \A m : ValueOf(<<>>, m) = 0
  BY <1>1, ValueIs
<1>. QED BY <1>1, <1>2 DEF Puts

LEMMA GotIs ==
    ASSUME NEW f, f.gap.chunks \in Seq(ChunkRec)
    PROVE  /\ f.gap.inTail > 0 /\ f.tail.id = f.gap.id => Got(f) = f.gap.chunks \o f.tail.chunks
           /\ ~(f.gap.inTail > 0 /\ f.tail.id = f.gap.id) => Got(f) = f.gap.chunks
<1>1. f.gap.chunks \o <<>> = f.gap.chunks
  BY ConcatEmptySeq
<1>. QED BY <1>1 DEF Got, TailBelongs

LEMMA FrontOfSingle ==
    ASSUME NEW big, NEW s \in Seq(ChunkRec), NEW t \in Seq(ChunkRec), Single(big, s \o t)
    PROVE  Single(big, s)
<1>. DEFINE u == s \o t
            v == SubSeq(u, 1, Len(s))
<1>1. /\ u \in Seq(ChunkRec) /\ Len(s) \in Nat /\ Len(s) \in 0 .. Len(u)
      /\ \A i \in 1 .. Len(s) : u[i] = s[i]
  OBVIOUS
<1>. HIDE DEF u
<1>2. v \in Seq(ChunkRec) /\ Len(v) = Len(s) /\ \A i \in 1 .. Len(s) : v[i] = u[i]
  BY <1>1, FrontIs
<1>3. Single(big, v)
  BY <1>1, FrontSingle DEF u
<1>. HIDE DEF v
<1>4. v = s
  BY <1>1, <1>2, SeqEqual
<1>. QED BY <1>3, <1>4

LEMMA CarryInit == ASSUME NEW big, Init PROVE CarryInv(big)
<1>. USE DEF Init, NoFile
<1>1. LeftOut(big)
  BY CarriesNone DEF LeftOut
<1>2. InMenu(big) /\ InImage(big)
  BY DEF InMenu, InImage
<1>3. file.gap = NoGap /\ file.tail = NoTail /\ file.mods = [m \in Mods |-> 0] /\ block = file
  BY DEF NoBlock
<1>4. Got(file) = <<>>
  <2>1. <<>> \in Seq(ChunkRec)
    OBVIOUS
  <2>2. file.gap.chunks = <<>> /\ file.gap.inTail = 0
    BY <1>3 DEF NoGap
  <2>3. file.gap.chunks \in Seq(ChunkRec) /\ ~(file.gap.inTail > 0)
    BY <2>1, <2>2
  <2>4. Got(file) = file.gap.chunks
    BY <2>3, GotIs
  <2>. QED BY <2>2, <2>4
<1>5. OnCard(big)
  BY <1>3, <1>4, CarriesNone DEF OnCard
<1>6. IdsRight
  BY <1>3 DEF IdsRight, NoGap, NoTail
<1>. QED BY <1>1, <1>2, <1>5, <1>6 DEF CarryInv

\* The snapshot holds what each mod that is there has, and of the others what was kept.
LEMMA GatheredCarries ==
    ASSUME NEW big, Roomy(big), SaveInv, LeftOut(big),
           NEW mods, \A m \in Mods : mods[m] = IF m \in savers THEN data[m] ELSE line[m]
    PROVE  Carrying(big, Gathered, mods)
<1>. DEFINE first == IF opened THEN {NowChunk(map, Instead)} ELSE {}
            K == {kept[j] : j \in DOMAIN kept}
            S == first \cup OwnChunks(NMods) \cup K
<1>1. Puts(big, Gathered, S)
  BY GatheredPuts DEF SaveInv, LeftOut
<1>2. \A c \in first : c.of = NOW
  BY DEF NowChunk
<1>3. /\ \A c \in OwnChunks(NMods) : c.of \in savers /\ c.of \in Mods /\ c.val = data[c.of]
      /\ \A m \in Mods : m \in savers /\ data[m] # 0 => \E c \in OwnChunks(NMods) : c.of = m
  <2>1. ASSUME NEW m \in Mods, m \in savers, data[m] # 0
        PROVE  Chunk(m, data[m]) \in OwnChunks(NMods) /\ Chunk(m, data[m]).of = m
    BY <2>1 DEF OwnChunks, Chunk, Mods
  <2>2. ASSUME NEW c \in OwnChunks(NMods)
        PROVE  c.of \in savers /\ c.of \in Mods /\ c.val = data[c.of]
    <3>1. PICK m \in 1 .. NMods : m \in savers /\ c = Chunk(m, data[m])
      BY DEF OwnChunks
    <3>2. c.of = m /\ c.val = data[m]
      BY <3>1 DEF Chunk
    <3>. QED BY <3>1, <3>2 DEF Mods
  <2>. QED BY <2>1, <2>2
<1>4. \A c \in K : c.of \notin savers
  BY DEF LeftOut
<1>5. \A m \in Mods : m # NOW
  BY SaveAssumption DEF Mods, NOW
<1>6. Puts(big, kept, K)
  BY DEF LeftOut, Puts
<1>. HIDE DEF first, K
<1>7. \A c \in S : ValueOf(Gathered, c.of) = c.val
  <2>. HIDE DEF S
  <2>. QED BY <1>1, ValueIs
<1>8. \A m : (\A c \in S : c.of # m) => ValueOf(Gathered, m) = 0
  <2>. HIDE DEF S
  <2>. QED BY <1>1, ValueIs
<1>9. /\ \A c \in K : ValueOf(kept, c.of) = c.val
      /\ \A m : (\A c \in K : c.of # m) => ValueOf(kept, m) = 0
  BY <1>6, ValueIs
<1>10. ASSUME NEW m \in Mods, m \in savers PROVE ValueOf(Gathered, m) = mods[m]
  <2>1. mods[m] = data[m]
    BY <1>10
  <2>2. CASE data[m] # 0
    <3>1. PICK c \in OwnChunks(NMods) : c.of = m
      BY <1>3, <1>10, <2>2
    <3>2. c \in S /\ c.val = data[m]
      BY <1>3, <3>1
    <3>. QED BY <1>7, <2>1, <3>1, <3>2
  <2>3. CASE data[m] = 0
    <3>1. CASE \E c \in S : c.of = m
      <4>1. PICK c \in S : c.of = m
        BY <3>1
      <4>2. c \in OwnChunks(NMods)
        BY <1>2, <1>4, <1>5, <1>10, <4>1
      <4>. QED BY <1>3, <1>7, <2>1, <4>1, <4>2
    <3>2. CASE ~ \E c \in S : c.of = m
      BY <1>8, <2>1, <2>3, <3>2
    <3>. QED BY <3>1, <3>2
  <2>. QED BY <2>2, <2>3
<1>11. ASSUME NEW m \in Mods, m \notin savers PROVE ValueOf(Gathered, m) = mods[m]
  <2>1. mods[m] = ValueOf(kept, m)
    BY <1>11 DEF LeftOut
  <2>2. CASE \E c \in K : c.of = m
    <3>1. PICK c \in K : c.of = m
      BY <2>2
    <3>. QED BY <1>7, <1>9, <2>1, <3>1
  <2>3. CASE ~ \E c \in K : c.of = m
    <3>1. \A c \in S : c.of # m
      BY <1>2, <1>3, <1>5, <1>11, <2>3
    <3>. QED BY <1>8, <1>9, <2>1, <2>3, <3>1
  <2>. QED BY <2>2, <2>3
<1>. QED BY <1>1, <1>10, <1>11 DEF Carrying, Puts

LEMMA SnapshotCarries ==
    ASSUME NEW big, Roomy(big), SaveInv, CarryInv(big), Snapshot
    PROVE  CarryInv(big)'
<1>. DEFINE all == Gathered
            put == IF opened /\ Instead # 0 THEN Instead ELSE map
            mods == [m \in Mods |->
                      IF m \notin savers THEN line[m]
                      ELSE IF data[m] # 0 /\ Bytes(m, data[m]) > AllRoom THEN line[m]
                      ELSE data[m]]
            gap == [id |-> id + 1, inTail |-> Len(ToTail(all)), chunks |-> SubSeq(all, 1, InGap(all))]
            filled == Filling(map, opened, mods, put)
<1>1. LeftOut(big) /\ OnCard(big) /\ IdsRight
  BY DEF CarryInv
<1>2. /\ phase' = "menu" /\ id' = id + 1
      /\ UNCHANGED <<kept, savers, data, file, line>>
  BY DEF Snapshot
<1>3. \A m \in Mods : mods[m] = IF m \in savers THEN data[m] ELSE line[m]
  <2>1. big <= AllRoom
    <3>1. /\ big \in Nat \ {0} /\ (NMods + 2) * big <= GapRoom + TailRoom + 1
          /\ GapRoom + TailRoom <= AllRoom /\ NMods \in Nat
          /\ AllRoom \in Nat /\ GapRoom \in Nat /\ TailRoom \in Nat
      BY SaveAssumption DEF Roomy
    <3>2. (NMods + 2) * big = NMods * big + big + big /\ NMods * big \in Nat
      BY <3>1
    <3>. QED BY <3>1, <3>2
  <2>2. \A m \in Mods : data[m] # 0 => ~(Bytes(m, data[m]) > AllRoom)
    <3>1. ASSUME NEW m \in Mods, data[m] # 0 PROVE ~(Bytes(m, data[m]) > AllRoom)
      <4>1. data[m] \in 1 .. MaxVal /\ m \in 1 .. NMods
        BY <3>1, SaveAssumption DEF SaveInv, Data, Mods
      <4>2. Bytes(m, data[m]) \in Nat /\ Bytes(m, data[m]) <= big
        BY <4>1, SaveAssumption DEF Roomy, Mods
      <4>. QED BY <2>1, <4>2, SaveAssumption DEF Roomy
    <3>. QED BY <3>1
  <2>. QED BY <2>2
<1>. HIDE DEF mods, put
<1>4. Carrying(big, all, mods)
  BY <1>1, <1>3, GatheredCarries
<1>5. all \in Seq(ChunkRec)
  BY <1>4, FittingIs DEF Carrying, Single
<1>. HIDE DEF all
<1>6. filled = [map |-> put, gap |-> NoGap, tail |-> NoTail, made |-> map, now |-> opened,
                mods |-> mods]
  BY FilledIs
<1>7. ASSUME NEW g, block'.gap = g, block'.tail = NoTail, block'.mods = mods,
             g.inTail = Len(held'), g.inTail \in Nat, Carrying(big, g.chunks \o held', mods),
             held' # <<>> => g.id = id + 1
      PROVE  CarryInv(big)'
  <2>1. LeftOut(big)'
    BY <1>1, <1>2 DEF LeftOut
  <2>2. file.tail.id < id + 1 /\ id + 1 \in Nat /\ file.tail.id \in 0 .. id + 1
    BY <1>1 DEF IdsRight
  <2>3. InMenu(big)'
    <3>1. \A m \in Mods \ savers : mods[m] = line[m]
      BY <1>3
    <3>. QED BY <1>2, <1>7, <2>2, <3>1 DEF InMenu
  <2>4. InImage(big)'
    BY <1>2 DEF InImage
  <2>5. OnCard(big)'
    BY <1>1, <1>2 DEF OnCard, Whole
  <2>6. IdsRight'
    <3>1. NoTail.id = 0
      BY DEF NoTail
    <3>2. block'.tail.id \in 0 .. id + 1
      BY <1>7, <2>2, <3>1
    <3>. QED BY <1>1, <1>2, <1>7, <2>2, <3>2 DEF IdsRight
  <2>. QED BY <2>1, <2>3, <2>4, <2>5, <2>6 DEF CarryInv
<1>8. CASE all = <<>>
  <2>1. held' = <<>> /\ block' = filled
    BY <1>8 DEF Snapshot, all, Filling, mods, put
  <2>2. block'.gap = NoGap /\ block'.tail = NoTail /\ block'.mods = mods
    <3>. HIDE DEF filled
    <3>. QED BY <1>6, <2>1
  <2>3. NoGap.inTail = 0 /\ NoGap.chunks = <<>> /\ Len(<<>>) = 0 /\ <<>> \o <<>> = <<>>
    BY DEF NoGap
  <2>4. Carrying(big, NoGap.chunks \o held', mods)
    BY <1>4, <1>8, <2>1, <2>3
  <2>. HIDE DEF filled
  <2>. QED BY <1>7, <2>1, <2>2, <2>3, <2>4
<1>9. CASE all # <<>>
  <2>1. held' = ToTail(all) /\ block' = [filled EXCEPT !.gap = gap]
    BY <1>9 DEF Snapshot, all, Filling, mods, put
  <2>2. block'.gap = gap /\ block'.tail = NoTail /\ block'.mods = mods
    <3>. HIDE DEF filled, gap
    <3>. QED BY <1>6, <2>1
  <2>3. SubSeq(all, 1, InGap(all)) \o ToTail(all) = all
    BY <1>4, TailTakes DEF Carrying
  <2>4. Carrying(big, gap.chunks \o held', mods)
    BY <1>4, <2>1, <2>3
  <2>5. gap.inTail = Len(held') /\ gap.id = id + 1
    BY <2>1
  <2>6. held' \in Seq(ChunkRec)
    BY SnapshotSaves DEF ModsOnly
  <2>7. gap.inTail \in Nat
    BY <2>5, <2>6
  <2>. HIDE DEF filled, gap
  <2>. QED BY <1>7, <2>2, <2>4, <2>5, <2>7
<1>. QED BY <1>8, <1>9

LEMMA ImageCarries ==
    ASSUME NEW big, SaveInv, CarryInv(big), Image
    PROVE  CarryInv(big)'
<1>1. LeftOut(big) /\ InMenu(big) /\ OnCard(big) /\ IdsRight
  BY DEF CarryInv
<1>2. /\ phase = "menu" /\ phase' = "yes" /\ line' = block.mods
      /\ UNCHANGED <<id, kept, savers, data, file>>
  BY DEF Image
<1>3. /\ \A m \in Mods \ savers : block.mods[m] = line[m]
      /\ block.gap.inTail = Len(held)
      /\ Carrying(big, block.gap.chunks \o held, block.mods)
      /\ held # <<>> => block.gap.id = id /\ file.tail.id < id
  BY <1>1, <1>2 DEF InMenu
<1>4. block.gap.chunks \in Seq(ChunkRec) /\ held \in Seq(ChunkRec)
  BY SavedIs DEF SaveInv, ModsOnly
<1>5. LeftOut(big)'
  BY <1>1, <1>2, <1>3 DEF LeftOut
<1>6. InMenu(big)'
  BY <1>2 DEF InMenu
<1>7. OnCard(big)'
  BY <1>1, <1>2 DEF OnCard, Whole
<1>8. /\ block'.mods = block.mods /\ block'.gap = block.gap
      /\ held = <<>> => block' = block
      /\ held # <<>> => block'.tail = [id |-> id, chunks |-> held]
  <2>1. CASE held = <<>>
    BY <2>1 DEF Image
  <2>2. CASE held # <<>>
    <3>1. block' = [block EXCEPT !.tail = [id |-> id, chunks |-> held]]
      BY <2>2 DEF Image
    <3>2. block = [map |-> block.map, gap |-> block.gap, tail |-> block.tail,
                   made |-> block.made, now |-> block.now, mods |-> block.mods]
      BY DEF SaveInv, Saved
    <3>3. block' = [map |-> block.map, gap |-> block.gap, tail |-> [id |-> id, chunks |-> held],
                    made |-> block.made, now |-> block.now, mods |-> block.mods]
      BY <3>1, <3>2
    <3>. QED BY <2>2, <3>3
  <2>. QED BY <2>1, <2>2
<1>9. Carrying(big, Got(block'), block.mods)
  <2>. PICK b : b = block'
    OBVIOUS
  <2>1. CASE held = <<>>
    <3>1. block.gap.inTail = 0 /\ block.gap.chunks \o held = block.gap.chunks
      BY <1>3, <1>4, <2>1, ConcatEmptySeq
    <3>2. Got(b) = b.gap.chunks
      <4>1. b.gap.chunks \in Seq(ChunkRec) /\ ~(b.gap.inTail > 0 /\ b.tail.id = b.gap.id)
        BY <1>4, <1>8, <2>1, <3>1
      <4>. QED BY <4>1, GotIs
    <3>. QED BY <1>3, <1>8, <2>1, <3>1, <3>2
  <2>2. CASE held # <<>>
    <3>1. b.gap.inTail > 0 /\ b.tail.id = b.gap.id /\ b.tail.chunks = held
      BY <1>3, <1>4, <1>8, <2>2
    <3>2. b.gap.chunks = block.gap.chunks
      BY <1>8
    <3>3. Got(b) = b.gap.chunks \o b.tail.chunks
      BY <1>4, <3>1, <3>2, GotIs
    <3>. QED BY <1>3, <3>1, <3>2, <3>3
  <2>. QED BY <2>1, <2>2
<1>10. block'.gap.inTail > 0 => held # <<>> /\ block'.gap.id = id /\ block'.tail.id = id
                                /\ file.tail.id < id
  BY <1>3, <1>4, <1>8
<1>11. InImage(big)'
  BY <1>2, <1>8, <1>9, <1>10 DEF InImage
<1>12. block'.tail.id \in 0 .. id
  <2>1. id \in 0 .. id /\ block.tail.id \in 0 .. id
    BY <1>1 DEF IdsRight
  <2>. QED BY <1>8, <2>1
<1>13. IdsRight'
  BY <1>1, <1>2, <1>8, <1>12 DEF IdsRight
<1>. QED BY <1>5, <1>6, <1>7, <1>11, <1>13 DEF CarryInv

\* The block is written first: it has its gap's chunks, and no tail of another save's.
LEMMA WriteBlockCarries ==
    ASSUME NEW big, SaveInv, CarryInv(big), WriteBlock
    PROVE  CarryInv(big)'
<1>1. LeftOut(big) /\ InImage(big) /\ IdsRight
  BY DEF CarryInv
<1>2. /\ phase = "yes" /\ phase' = "half"
      /\ UNCHANGED <<id, kept, held, savers, data, block, line>>
  BY DEF WriteBlock, port
<1>3. /\ Carrying(big, Got(block), block.mods)
      /\ block.gap.inTail > 0 => block.gap.id = id /\ block.tail.id = id /\ file.tail.id < id
  BY <1>1, <1>2 DEF InImage
<1>4. PICK was \in {file.tail, NoTail} : file' = [block EXCEPT !.tail = was]
  BY DEF WriteBlock
<1>5. block = [map |-> block.map, gap |-> block.gap, tail |-> block.tail,
               made |-> block.made, now |-> block.now, mods |-> block.mods]
  BY DEF SaveInv, Saved
<1>6. file' = [map |-> block.map, gap |-> block.gap, tail |-> was,
               made |-> block.made, now |-> block.now, mods |-> block.mods]
  BY <1>4, <1>5
<1>7. was.id \in 0 .. id /\ (block.gap.inTail > 0 => was.id < id)
  <2>1. NoTail.id = 0
    BY DEF NoTail
  <2>. QED BY <1>1, <1>3, <1>4, <2>1 DEF IdsRight
<1>8. block.gap.chunks \in Seq(ChunkRec) /\ block.tail.chunks \in Seq(ChunkRec)
  BY SavedIs DEF SaveInv, Saved, ModsOnly
<1>. PICK f : f = file'
  OBVIOUS
<1>9. f.gap = block.gap /\ f.tail = was /\ f.mods = block.mods
  BY <1>6
<1>10. Got(f) = block.gap.chunks
  <2>1. ~(f.gap.inTail > 0 /\ f.tail.id = f.gap.id)
    BY <1>1, <1>3, <1>7, <1>9 DEF IdsRight
  <2>. QED BY <1>8, <1>9, <2>1, GotIs
<1>11. CASE block.gap.inTail > 0
  <2>1. Got(block) = block.gap.chunks \o block.tail.chunks
    BY <1>3, <1>8, <1>11, GotIs
  <2>2. Single(big, Got(f))
    BY <1>3, <1>8, <1>10, <2>1, FrontOfSingle DEF Carrying
  <2>3. ~Whole'
    BY <1>1, <1>3, <1>7, <1>9, <1>11 DEF Whole, IdsRight
  <2>. QED BY <2>2, <2>3, <1>1, <1>2, <1>7, <1>9, <1>11
           DEF CarryInv, LeftOut, InMenu, InImage, OnCard, IdsRight
<1>12. CASE ~(block.gap.inTail > 0)
  <2>1. Got(block) = block.gap.chunks
    BY <1>8, <1>12, GotIs
  <2>2. Carrying(big, Got(f), f.mods)
    BY <1>3, <1>9, <1>10, <2>1
  <2>. QED BY <2>2, <1>1, <1>2, <1>7, <1>9, <1>12
           DEF CarryInv, LeftOut, InMenu, InImage, OnCard, IdsRight, Carrying
<1>. QED BY <1>11, <1>12

LEMMA ContinueCarries ==
    ASSUME NEW big, SaveInv, CarryInv(big), Continue
    PROVE  CarryInv(big)'
<1>. DEFINE got == Got(file)
            S == {got[i] : i \in DOMAIN got}
            K == {got[j] : j \in {i \in DOMAIN got : IsKept(got[i])}}
<1>1. OnCard(big) /\ IdsRight
  BY DEF CarryInv
<1>2. /\ phase' = "field" /\ kept' = KeptOf(got)
      /\ line' = [m \in Mods |-> ValueOf(got, m)]
      /\ UNCHANGED <<id, held, savers, block, file>>
  BY DEF Continue
<1>3. Single(big, got)
  BY <1>1 DEF OnCard
<1>. HIDE DEF got
<1>4. Puts(big, kept', K)
  <2>1. Puts(big, KeptOf(got), {got[j] : j \in {i \in DOMAIN got : IsKept(got[i])}})
    BY <1>3, KeptPuts
  <2>. QED BY <1>2, <2>1
<1>5. Puts(big, got, S)
  BY <1>3 DEF Puts
<1>6. \A c \in K : c \in S /\ c.of # NOW /\ c.of \notin savers
  BY DEF IsKept
<1>7. \A c \in S : c.of # NOW /\ c.of \notin savers => c \in K
  BY DEF IsKept
<1>8. \A m \in Mods : m # NOW
  BY SaveAssumption DEF Mods, NOW
<1>. HIDE DEF S, K
<1>9. /\ \A c \in K : ValueOf(kept', c.of) = c.val
      /\ \A m : (\A c \in K : c.of # m) => ValueOf(kept', m) = 0
  <2>. PICK t : t = kept'
    OBVIOUS
  <2>1. Puts(big, t, K)
    BY <1>4
  <2>2. /\ \A c \in K : ValueOf(t, c.of) = c.val
        /\ \A m : (\A c \in K : c.of # m) => ValueOf(t, m) = 0
    BY <2>1, ValueIs
  <2>. QED BY <2>2
<1>10. /\ \A c \in S : ValueOf(got, c.of) = c.val
       /\ \A m : (\A c \in S : c.of # m) => ValueOf(got, m) = 0
  BY <1>5, ValueIs
<1>11. ASSUME NEW m \in Mods \ savers PROVE ValueOf(got, m) = ValueOf(kept', m)
  <2>1. CASE \E c \in S : c.of = m
    <3>1. PICK c \in S : c.of = m
      BY <2>1
    <3>2. c \in K
      BY <1>7, <1>8, <3>1
    <3>. QED BY <1>9, <1>10, <3>1, <3>2
  <2>2. CASE ~ \E c \in S : c.of = m
    <3>1. \A c \in K : c.of # m
      BY <1>6, <2>2
    <3>. QED BY <1>9, <1>10, <2>2, <3>1
  <2>. QED BY <2>1, <2>2
<1>12. \A j \in DOMAIN kept' : kept'[j].of # NOW /\ kept'[j].of \notin savers
  <2>1. \A j \in DOMAIN kept' : kept'[j] \in K
    BY <1>4 DEF Puts
  <2>. QED BY <1>6, <2>1
<1>13. LeftOut(big)'
  <2>1. \A m \in Mods \ savers : line'[m] = ValueOf(kept', m)
    BY <1>2, <1>11
  <2>2. Single(big, kept')
    BY <1>4 DEF Puts
  <2>. QED BY <1>2, <1>12, <2>1, <2>2 DEF LeftOut
<1>14. InMenu(big)' /\ InImage(big)'
  BY <1>2 DEF InMenu, InImage
<1>15. OnCard(big)' /\ IdsRight'
  BY <1>1, <1>2 DEF OnCard, Whole, IdsRight
<1>. QED BY <1>13, <1>14, <1>15 DEF CarryInv

\* No step of the game's or the port's but those touches what is carried.
LEMMA CarryStays ==
    ASSUME NEW big, CarryInv(big),
           UNCHANGED <<phase, id, kept, held, savers, block, file, line>>
    PROVE  CarryInv(big)'
  BY DEF CarryInv, LeftOut, InMenu, InImage, OnCard, Whole, IdsRight

LEMMA CarryStep ==
    ASSUME NEW big, Roomy(big), SaveInv, CarryInv(big), [Next]_vars
    PROVE  CarryInv(big)'
<1>1. CASE Request
  <2>1. UNCHANGED <<phase, id, kept, held, savers, block, file, line>>
    BY <1>1 DEF Request, game
  <2>. QED BY <2>1, CarryStays
<1>2. ASSUME phase' \notin {"menu", "yes", "half"},
             UNCHANGED <<id, kept, held, savers, block, file, line>>
      PROVE  CarryInv(big)'
  BY <1>2 DEF CarryInv, LeftOut, InMenu, InImage, OnCard, Whole, IdsRight
<1>3. CASE SafePoint
  BY <1>2, <1>3 DEF SafePoint
<1>4. CASE Snapshot
  BY <1>4, SnapshotCarries
<1>5. NoBlock.tail.id = 0 /\ NoBlock.gap.inTail = 0
  BY DEF NoBlock, NoTail, NoGap
<1>6. CASE Cancel
  <2>1. /\ phase' = "field" /\ block' = NoBlock
        /\ UNCHANGED <<id, kept, held, savers, file, line>>
    BY <1>6 DEF Cancel, port
  <2>2. IdsRight'
    BY <1>5, <2>1 DEF CarryInv, IdsRight
  <2>. QED BY <2>1, <2>2 DEF CarryInv, LeftOut, InMenu, InImage, OnCard, Whole
<1>7. CASE Image
  BY <1>7, ImageCarries
<1>8. CASE Continue
  BY <1>8, ContinueCarries
<1>9. CASE NewGame
  <2>1. /\ phase' = "field" /\ kept' = <<>> /\ line' = [m \in Mods |-> 0]
        /\ UNCHANGED <<id, held, savers, block, file>>
    BY <1>9 DEF NewGame
  <2>2. LeftOut(big)'
    BY <2>1, CarriesNone DEF LeftOut
  <2>. QED BY <2>1, <2>2 DEF CarryInv, InMenu, InImage, OnCard, Whole, IdsRight
<1>10. CASE Walk
  <2>1. UNCHANGED <<phase, id, kept, held, savers, block, file, line>>
    BY <1>10 DEF Walk, port
  <2>. QED BY <2>1, CarryStays
<1>11. ASSUME NEW m \in Mods, Play(m) PROVE CarryInv(big)'
  <2>1. UNCHANGED <<phase, id, kept, held, savers, block, file, line>>
    BY <1>11 DEF Play, game, port
  <2>. QED BY <2>1, CarryStays
<1>12. CASE AtSavePoint
  BY <1>2, <1>12 DEF AtSavePoint, port
<1>13. CASE WriteBlock
  BY <1>13, WriteBlockCarries
<1>14. CASE WriteTail
  <2>1. /\ phase = "half" /\ phase' = "field" /\ file' = block /\ block' = NoBlock
        /\ UNCHANGED <<id, kept, held, savers, line>>
    BY <1>14 DEF WriteTail, port
  <2>2. Carrying(big, Got(block), block.mods)
    BY <2>1 DEF CarryInv, InImage
  <2>3. OnCard(big)'
    BY <2>1, <2>2 DEF OnCard, Carrying
  <2>4. IdsRight'
    BY <1>5, <2>1 DEF CarryInv, IdsRight
  <2>. QED BY <2>1, <2>3, <2>4 DEF CarryInv, LeftOut, InMenu, InImage
<1>15. CASE ToTitle
  BY <1>2, <1>15 DEF ToTitle, port
<1>16. CASE Restart
  <2>1. /\ phase' = "title" /\ kept' = <<>> /\ line' = [m \in Mods |-> 0] /\ block' = NoBlock
        /\ savers' \in SUBSET Mods
        /\ UNCHANGED <<id, file>>
    BY <1>16 DEF Restart
  <2>2. LeftOut(big)'
    BY <2>1, CarriesNone DEF LeftOut
  <2>3. IdsRight'
    BY <1>5, <2>1 DEF CarryInv, IdsRight
  <2>. QED BY <2>1, <2>2, <2>3 DEF CarryInv, InMenu, InImage, OnCard, Whole
<1>17. CASE UNCHANGED vars
  <2>1. UNCHANGED <<phase, id, kept, held, savers, block, file, line>>
    BY <1>17 DEF vars, game, port
  <2>. QED BY <2>1, CarryStays
<1>. QED BY <1>1, <1>3, <1>4, <1>6, <1>7, <1>8, <1>9, <1>10, <1>11, <1>12, <1>13, <1>14, <1>15,
            <1>16, <1>17 DEF Next

\* ChunksCarriedHolds: with room for a chunk of every mod's, a save that was written to its
\* end holds of each mod what the mod last had saved in that game, whatever runs without it,
\* saves by others, cancelled menus and processes stopped half-way lie between
\* (savext_snapshot, savext_image, savext_load).
THEOREM ChunksCarriedHolds ==
    ASSUME NEW big, Roomy(big)
    PROVE  FilesSpec => []ChunksCarried
<1>1. FilesInit => CarryInv(big)
  BY CarryInit DEF FilesInit
<1>2. SaveInv /\ CarryInv(big) /\ [FilesNext]_filesVars => CarryInv(big)'
  <2>1. ASSUME [FilesNext]_filesVars PROVE [Next]_vars
    BY <2>1 DEF FilesNext, filesVars
  <2>. QED BY <2>1, CarryStep
<1>3. CarryInv(big) => ChunksCarried
  BY DEF CarryInv, OnCard, ChunksCarried
<1>. QED BY <1>1, <1>2, <1>3, SaveInvariant, PTL DEF FilesSpec
=============================================================================

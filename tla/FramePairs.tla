----------------------------- MODULE FramePairs -----------------------------
(* The frame pairs (src/runtime/gxr.c): which draw of the frame before an     *)
(* in-between image moves a draw from.  The producer alone runs it, as it     *)
(* builds each draw.  A frame's draws are records in one array, a key's       *)
(* records chained through `next`, the chain's ends in an open-addressed      *)
(* table; a match takes its record out of the chain, and the screen copy      *)
(* makes the frame's records the frame before's.                              *)
(* A draw's centre stands for its vertices: a place.  A kind is a key with    *)
(* its vertex count, two kinds never of one hash.                             *)
EXTENDS Integers, FiniteSets, Sequences, SequencesExt

CONSTANTS
    Draws,       \* the draws a frame may have: [kind, ortho, place]
    Verts,       \* a kind's vertices, at least one
    Home,        \* where a kind's hash falls in the table
    PairDraws,   \* PAIR_DRAWS: records of a frame
    PairVerts,   \* PAIR_VERTS: positions of a frame
    PairSlots,   \* PAIR_SLOTS: the table's size
    Look,        \* PAIR_LOOK: how far down a chain a match looks
    MaxDraws     \* bound: draws of a frame

VARIABLES
    pair,     \* g_pair: [rec, slot, pos, npos] of the two frames
    cur,      \* g_pair_cur: which is this frame
    flags,    \* g_pair_flags
    mid,      \* interp_on() through this frame: the in-between stream is built
    pass,     \* "live" in the game; a pair replay's "a", "recorded", "b" and "done"
    ndraw,    \* g_pair_ndraw
    before,   \* history: the draws recorded of the frame before, in order
    taken,    \* history: which of them have been matched
    now,      \* history: the draws recorded of this frame
    last      \* history: where the last draw was moved from, and should have been

vars == <<pair, cur, flags, mid, pass, ndraw, before, taken, now, last>>

None == -1

Slot == 0 .. PairSlots - 1
Places == {d.place : d \in Draws}
EmptyTable == [i \in Slot |-> [kind |-> None, head |-> None, tail |-> None]]

-----------------------------------------------------------------------------
(* The table.                                                                 *)

\* A slot is empty while its count is 0, which a chain running out leaves alone.
Used(F, i) == F.slot[i].kind # None

\* pair_slot: the kind's slot, or the empty one it would take; None when full.
ProbeFrom(k) == [n \in Slot |-> (Home[k] + n) % PairSlots]
PairSlot(F, k) ==
    LET stops == {n \in Slot : \/ ~Used(F, ProbeFrom(k)[n])
                               \/ F.slot[ProbeFrom(k)[n]].kind = k}
    IN  IF stops = {} THEN None
        ELSE ProbeFrom(k)[CHOOSE n \in stops : \A m \in stops : n <= m]

\* pair_reset: the positions stay where they are.
Reset(F) == [F EXCEPT !.rec = <<>>, !.npos = 0, !.slot = EmptyTable]

\* pair_claim: a record at its chain's end; nothing past the frame's room.
Room(F, k) ==
    /\ Len(F.rec) < PairDraws
    /\ F.npos + Verts[k] <= PairVerts
    /\ PairSlot(F, k) # None
Chained(F, k, r) ==
    LET i == PairSlot(F, k)
    IN  IF ~Used(F, i)
        THEN [F EXCEPT !.slot[i] = [kind |-> k, head |-> r, tail |-> r]]
        ELSE [F EXCEPT !.rec[F.slot[i].tail].next = r, !.slot[i].tail = r]
\* The record, its centre and its positions (pair_match's memcpy and
\* pair_positions' first half).
Claim(F, d) ==
    LET r == Len(F.rec) + 1
        made == [F EXCEPT !.rec = Append(@, [kind |-> d.kind, off |-> F.npos, next |-> None,
                                             ortho |-> d.ortho, cen |-> d.place])]
    IN  [Chained(made, d.kind, r) EXCEPT
            !.npos = @ + Verts[d.kind],
            !.pos = [o \in DOMAIN @ |-> IF o \in F.npos .. F.npos + Verts[d.kind] - 1
                                        THEN d.place ELSE @[o]]]

-----------------------------------------------------------------------------
(* The match (pair_match).                                                    *)

Off(a, b) == (a - b) * (a - b)

\* The chain from its head, as far as a match looks.
Walk(F, head) ==
    LET at[n \in 1 .. Look] ==
            IF n = 1 THEN head
            ELSE IF at[n - 1] = None THEN None ELSE F.rec[at[n - 1]].next
    IN  SelectSeq(at, LAMBDA r : r # None)
Nearer(F, chain, p, n, m) ==
    LET a == Off(F.rec[chain[n]].cen, p)
        b == Off(F.rec[chain[m]].cen, p)
    IN  a < b \/ (a = b /\ n <= m)
Best(F, chain, p) ==
    CHOOSE n \in DOMAIN chain : \A m \in DOMAIN chain : Nearer(F, chain, p, n, m)

Unlink_First(F, i, chain, n) ==
    [F EXCEPT !.slot[i].head = F.rec[chain[1]].next]

\* The record taken out of its chain; the tail is no longer looked at.
Unlink(F, i, chain, n) ==
    LET next == F.rec[chain[n]].next
        cut == IF n = 1 THEN [F EXCEPT !.slot[i].head = next]
               ELSE [F EXCEPT !.rec[chain[n - 1]].next = next]
    IN  IF F.slot[i].tail # chain[n] THEN cut
        ELSE [cut EXCEPT !.slot[i].tail = IF n = 1 THEN None ELSE chain[n - 1]]
\* The frame before once `d` is matched, and the match's positions: none for a
\* projection of the other kind, which is used up all the same.
Match(F, d) ==
    LET i == PairSlot(F, d.kind)
        found == i # None /\ Used(F, i) /\ F.slot[i].head # None
        chain == Walk(F, F.slot[i].head)
        n == Best(F, chain, d.place)
        r == F.rec[chain[n]]
    IN  IF ~found THEN [frame |-> F, off |-> None]
        ELSE [frame |-> Unlink(F, i, chain, n),
              off |-> IF r.ortho # d.ortho THEN None ELSE r.off]

-----------------------------------------------------------------------------
(* The rule itself, as tools/fifopair.py's match has it: of the draws of the  *)
(* frame before with its key, the first LOOK not yet paired, the nearest, the *)
(* first of equals.                                                           *)

Pool(k) ==
    LET left == SelectSeq([j \in DOMAIN before |-> j],
                          LAMBDA j : j \notin taken /\ before[j].kind = k)
    IN  SubSeq(left, 1, IF Len(left) < Look THEN Len(left) ELSE Look)
Pairs(d) ==
    LET q == Pool(d.kind)
        dist(n) == Off(before[q[n]].place, d.place)
        nearest == {n \in DOMAIN q : \A m \in DOMAIN q : dist(n) <= dist(m)}
    IN  IF q = <<>> THEN None
        ELSE q[CHOOSE n \in nearest : \A m \in nearest : n <= m]
Wanted(d) ==
    LET j == Pairs(d)
    IN  IF j = None \/ before[j].ortho # d.ortho THEN None ELSE before[j].place

-----------------------------------------------------------------------------

Records == "record" \in flags
Lerps == "lerp" \in flags

Init ==
    /\ pair = [f \in {0, 1} |-> [rec |-> <<>>, slot |-> EmptyTable, npos |-> 0,
                                 pos |-> [o \in 0 .. PairVerts - 1 |-> None]]]
    /\ cur = 0 /\ ndraw = 0
    /\ pass \in {"live", "a"}
    /\ flags = IF pass = "live" THEN {"record", "lerp"} ELSE {"record"}
    /\ mid = (pass = "live")
    /\ before = <<>> /\ taken = {} /\ now = <<>>
    /\ last = [from |-> None, wanted |-> None]

\* Where a draw's picture is moved from: the in-between copy's with the stream
\* on, the draw itself in a replay's lerping pass, and nothing while both flags
\* are set and the stream is off.
Moves == mid \/ flags = {"lerp"}

\* gxr_draw_inner with the pair mode on.
Draw(d) ==
    /\ pass \in {"live", "a", "b"} /\ ndraw < MaxDraws
    /\ ndraw' = ndraw + 1
    /\ LET C == pair[cur]
           records == Records /\ Room(C, d.kind)
           m == IF Lerps THEN Match(pair[1 - cur], d)
                ELSE [frame |-> pair[1 - cur], off |-> None]
           j == Pairs(d)
       IN  /\ pair' = [f \in {0, 1} |-> IF f # cur THEN m.frame
                                        ELSE IF records THEN Claim(C, d) ELSE C]
           /\ now' = IF records THEN Append(now, d) ELSE now
           /\ taken' = IF Lerps /\ j # None THEN taken \cup {j} ELSE taken
           /\ last' = [from |-> IF Moves /\ m.off # None THEN pair[1 - cur].pos[m.off]
                                ELSE None,
                       wanted |-> IF Moves THEN Wanted(d) ELSE None]
    /\ UNCHANGED <<cur, flags, mid, pass, before>>

\* pair_rotate
Rotate ==
    /\ cur' = 1 - cur
    /\ pair' = [pair EXCEPT ![1 - cur] = Reset(@)]
    /\ ndraw' = 0
    /\ before' = now /\ taken' = {} /\ now' = <<>>

\* The screen copy: whether the next frame has its in-between stream is the
\* budget's and the rate's (InterpPacing).  A replay's first pass is one frame.
ScreenCopy ==
    /\ pass # "done"
    /\ IF Records THEN Rotate ELSE UNCHANGED <<pair, cur, ndraw, before, taken, now>>
    /\ IF pass = "live" THEN mid' \in BOOLEAN ELSE mid' = mid
    /\ pass' = CASE pass = "live" -> "live" [] pass = "a" -> "recorded" [] OTHER -> "done"
    /\ last' = [from |-> None, wanted |-> None]
    /\ UNCHANGED flags

\* gx_replay_pair's passes after the first: B as it is, the pair mode off, and
\* B again, lerped; with SOA_INTERP B once, with both streams.
NextPass ==
    /\ pass = "recorded"
    /\ pass' = "b"
    /\ \/ flags' = {"lerp"} /\ mid' = FALSE
       \/ flags' = {"record", "lerp"} /\ mid' = TRUE
    /\ ndraw' = 0
    /\ last' = [from |-> None, wanted |-> None]
    /\ UNCHANGED <<pair, cur, before, taken, now>>

Next == ScreenCopy \/ NextPass \/ \E d \in Draws : Draw(d)

Spec == Init /\ [][Next]_vars

-----------------------------------------------------------------------------

TypeOK ==
    /\ cur \in {0, 1} /\ flags \subseteq {"record", "lerp"} /\ mid \in BOOLEAN
    /\ ndraw \in 0 .. MaxDraws
    /\ \A f \in {0, 1} : Len(pair[f].rec) <= PairDraws /\ pair[f].npos <= PairVerts
    /\ taken \subseteq DOMAIN before

\* "fifopair.match is the same rule": through chains cut in the middle, keys
\* sharing a stretch of the table, frames over their room, frames without
\* in-between images and the replay's passes, a draw of an in-between image is
\* moved from the place the rule gives -- of the frame just before, of a draw
\* nothing else was moved from -- and from nowhere when the rule gives none.
AsFifopair == last.from = last.wanted

=============================================================================
